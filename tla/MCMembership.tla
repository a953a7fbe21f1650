----------------------------- MODULE MCMembership -----------------------------
(* Instances of WorkspaceMembership for TLC.                                 *)
EXTENDS WorkspaceMembership, TLC

MCKey == InviteId \cup MemberId \cup (User \X Permission)
Everything == Op \ {"none"}
\* Rejecting and cancelling are the same statements but for the status they set.
AllButReject == Everything \ {"rejectWorkspaceInvite"}
AllButCancel == Everything \ {"cancelWorkspaceInvite"}
\* One permission; or also none, and one listed twice.
MCSingle == {<<p>> : p \in Permission}
MCLists == {<<>>} \cup MCSingle \cup {<<p, p>> : p \in Permission}
Symmetry == Permutations(User \ (Admin \cup {Owner})) \cup Permutations(Request)
===============================================================================
