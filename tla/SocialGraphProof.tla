--------------------------- MODULE SocialGraphProof ---------------------------
(***************************************************************************)
(* What the promises of SocialGraph add up to, for any set of persons.     *)
(***************************************************************************)
EXTENDS SocialGraph, TLAPS

\* Between two different persons at most one invite waits for an answer.
OneInviteOpen ==
    \A p, q \in Person : <<p, q>> \in pending /\ <<q, p>> \in pending => p = q

NobodyBefriendsThemself == \A p \in Person : {p, p} \notin friends

\* friends holds sets of two persons, so {p, q} and {q, p} are one contact.
GraphInv == OneInviteOpen /\ NobodyBefriendsThemself /\ FriendsAreFree

\* Two persons make the same pair in one order or the other.
LEMMA SamePair ==
    ASSUME NEW p, NEW q, NEW x, NEW y, {p, q} = {x, y}
    PROVE  (p = x /\ q = y) \/ (p = y /\ q = x)
OBVIOUS

LEMMA StepKeepsGraphInv ==
    ASSUME GraphInv, NEW p \in Person, NEW q \in Person,
           \/ Invite(p, q) \/ Accept(p, q) \/ Reject(p, q) \/ RejectAndBlock(p, q)
           \/ Block(p, q) \/ Unblock(p, q) \/ Unfriend(p, q)
    PROVE  GraphInv'
<1> USE DEF GraphInv, OneInviteOpen, NobodyBefriendsThemself, FriendsAreFree,
            NobodyBlocks
<1>1. CASE Invite(p, q)
  <2>1. OneInviteOpen' /\ NobodyBefriendsThemself'
    BY <1>1 DEF Invite
  <2>2. ASSUME NEW x \in Person, NEW y \in Person, {x, y} \in friends'
        PROVE  NobodyBlocks(x, y)' /\ <<x, y>> \notin pending'
    BY <1>1, <2>2 DEF Invite
  <2>3. QED
    BY <2>1, <2>2
<1>2. CASE Accept(p, q)
  <2>1. /\ p # q /\ pending' = pending \ {<<p, q>>} /\ friends' = friends \cup {{p, q}}
        /\ blocks' = blocks /\ <<p, q>> \in pending /\ NobodyBlocks(p, q)
    BY <1>2 DEF Accept, Answer
  <2>2. OneInviteOpen'
    BY <2>1
  <2>3. NobodyBefriendsThemself'
    BY <2>1
  <2>4. ASSUME NEW x \in Person, NEW y \in Person, {x, y} \in friends'
        PROVE  NobodyBlocks(x, y)' /\ <<x, y>> \notin pending'
    <3>1. CASE {x, y} \in friends
      BY <2>1, <3>1
    <3>2. CASE {x, y} = {p, q}
      <4>1. (x = p /\ y = q) \/ (x = q /\ y = p)
        BY <3>2, SamePair
      <4>2. QED
        BY <2>1, <4>1
    <3>3. QED
      BY <2>1, <2>4, <3>1, <3>2
  <2>5. QED
    BY <2>2, <2>3, <2>4
<1>3. CASE Reject(p, q)
  BY <1>3 DEF Reject, Answer
<1>4. CASE RejectAndBlock(p, q)
  <2>1. /\ pending' = pending \ {<<p, q>>} /\ friends' = friends
        /\ blocks' = blocks \cup {<<p, q>>} /\ <<p, q>> \in pending
    BY <1>4 DEF RejectAndBlock, Answer
  <2>2. {p, q} \notin friends
    BY <2>1
  <2>3. ASSUME NEW x \in Person, NEW y \in Person, {x, y} \in friends'
        PROVE  NobodyBlocks(x, y)' /\ <<x, y>> \notin pending'
    <3>1. {x, y} # {p, q}
      BY <2>1, <2>2, <2>3
    <3>2. <<x, y>> # <<p, q>> /\ <<y, x>> # <<p, q>>
      BY <3>1
    <3>3. QED
      BY <2>1, <2>3, <3>2
  <2>4. QED
    BY <2>1, <2>3
<1>5. CASE Block(p, q)
  <2>1. /\ pending' = pending /\ friends' = friends \ {{p, q}}
        /\ blocks' = blocks \cup {<<p, q>>}
    BY <1>5 DEF Block
  <2>2. ASSUME NEW x \in Person, NEW y \in Person, {x, y} \in friends'
        PROVE  NobodyBlocks(x, y)' /\ <<x, y>> \notin pending'
    <3>1. {x, y} # {p, q}
      BY <2>1, <2>2
    <3>2. <<x, y>> # <<p, q>> /\ <<y, x>> # <<p, q>>
      BY <3>1
    <3>3. QED
      BY <2>1, <2>2, <3>2
  <2>3. QED
    BY <2>1, <2>2
<1>6. CASE Unblock(p, q)
  BY <1>6 DEF Unblock
<1>7. CASE Unfriend(p, q)
  BY <1>7 DEF Unfriend
<1>8. QED
  BY <1>1, <1>2, <1>3, <1>4, <1>5, <1>6, <1>7

\* Contacts never reach across a block or an unanswered invite.
THEOREM FriendsStayFree == GraphSpec => []FriendsAreFree
<1>1. GraphInit => GraphInv
  BY DEF GraphInit, GraphInv, OneInviteOpen, NobodyBefriendsThemself, FriendsAreFree
<1>2. GraphInv /\ [GraphNext]_graph => GraphInv'
  <2>1. CASE GraphNext
    BY <2>1, StepKeepsGraphInv DEF GraphNext
  <2>2. CASE UNCHANGED graph
    BY <2>2 DEF graph, GraphInv, OneInviteOpen, NobodyBefriendsThemself,
                FriendsAreFree, NobodyBlocks
  <2>3. QED
    BY <2>1, <2>2
<1>3. GraphInv => FriendsAreFree
  BY DEF GraphInv
<1>4. QED
  BY <1>1, <1>2, <1>3, PTL DEF GraphSpec
===============================================================================
