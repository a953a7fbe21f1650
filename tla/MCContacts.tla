------------------------------ MODULE MCContacts ------------------------------
(* Instances of Contacts for TLC.                                            *)
EXTENDS Contacts, TLC

MCKey == InviteId \cup ContactId \cup BlockId
Everything == Op \ {"none"}
Symmetry == Permutations(User \ Admin) \cup Permutations(Request)
===============================================================================
