----------------------------- MODULE SocialGraph -----------------------------
(***************************************************************************)
(* What the contact module promises its users, with no rows, transactions  *)
(* or statements: who waits for whose answer, who is in contact with whom, *)
(* and who blocks whom.  Contacts implements it as long as requests do not *)
(* overlap (Graph in Contacts).                                          *)
(***************************************************************************)
CONSTANT Person

VARIABLES
    pending,   \* <<inviter, invitee>>: an invite without an answer
    friends,   \* {p, q}: the two are contacts of each other
    blocks     \* <<blocked, blocker>>

graph == <<pending, friends, blocks>>

NobodyBlocks(p, q) == <<p, q>> \notin blocks /\ <<q, p>> \notin blocks

GraphInit == pending = {} /\ friends = {} /\ blocks = {}

Invite(p, q) ==
    /\ <<p, q>> \notin pending /\ <<q, p>> \notin pending
    /\ {p, q} \notin friends
    /\ NobodyBlocks(p, q)
    /\ pending' = pending \cup {<<p, q>>}
    /\ UNCHANGED <<friends, blocks>>

\* An invite can be answered, either way, only while nobody blocks.
Answer(p, q) ==
    /\ <<p, q>> \in pending
    /\ NobodyBlocks(p, q)
    /\ pending' = pending \ {<<p, q>>}

Accept(p, q) ==
    /\ p # q
    /\ Answer(p, q)
    /\ friends' = friends \cup {{p, q}}
    /\ UNCHANGED blocks

Reject(p, q) ==
    /\ Answer(p, q)
    /\ UNCHANGED <<friends, blocks>>

\* The one way a person comes to block themself: rejecting the invite they
\* sent to themself.
RejectAndBlock(p, q) ==
    /\ Answer(p, q)
    /\ blocks' = blocks \cup {<<p, q>>}
    /\ UNCHANGED friends

Block(p, q) ==
    /\ p # q
    /\ <<p, q>> \notin blocks
    /\ blocks' = blocks \cup {<<p, q>>}
    /\ friends' = friends \ {{p, q}}
    /\ UNCHANGED pending

Unblock(p, q) ==
    /\ p # q
    /\ <<p, q>> \in blocks
    /\ blocks' = blocks \ {<<p, q>>}
    /\ UNCHANGED <<pending, friends>>

Unfriend(p, q) ==
    /\ {p, q} \in friends
    /\ friends' = friends \ {{p, q}}
    /\ UNCHANGED <<pending, blocks>>

GraphNext ==
    \E p, q \in Person :
        \/ Invite(p, q)
        \/ Accept(p, q)
        \/ Reject(p, q)
        \/ RejectAndBlock(p, q)
        \/ Block(p, q)
        \/ Unblock(p, q)
        \/ Unfriend(p, q)

GraphSpec == GraphInit /\ [][GraphNext]_graph

\* Contacts never reach across a block, nor across an unanswered invite.
FriendsAreFree ==
    \A p, q \in Person :
        {p, q} \in friends => NobodyBlocks(p, q) /\ <<p, q>> \notin pending
==============================================================================
