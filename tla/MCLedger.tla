------------------------------- MODULE MCLedger -------------------------------
(* Instances of Ledger for TLC.                                              *)
EXTENDS Ledger, TLC

CONSTANTS w1, w2, w3, i1, i2, i3, i4, p1, p2, p3, t1, t2, ann, bob, cid, dan, eve

MCWorkspace == {w1, w2, w3}
MCItem == {i1, i2, i3, i4}
MCPayment == {p1, p2, p3}
MCTag == {t1, t2}
MCMember == {ann, bob, cid, dan, eve}
MCMemberOf == ann :> w1 @@ bob :> w1 @@ cid :> w2 @@ dan :> w1 @@ eve :> w1
MCFirstSeat == ann :> "active" @@ bob :> "active" @@ cid :> "active" @@ dan :> "removed"
                    @@ eve :> "coming"
MCKey == MCWorkspace \cup MCItem \cup MCPayment \cup MCTag
            \cup (MCItem \X MCTag) \cup (MCItem \X MCMember)

\* Two items in one workspace, one of them tagged and split by stakes, one in another.
\* dan was removed, but not his stake.
MCPopulation ==
    w1 :> [title |-> "a", stakeRule |-> "EQUALLY"] @@
    w2 :> [title |-> "a", stakeRule |-> "EQUALLY"] @@
    i1 :> [workspace |-> w1, title |-> "a", stakeRule |-> Null] @@
    i2 :> [workspace |-> w1, title |-> "b", stakeRule |-> "EQUALLY"] @@
    i3 :> [workspace |-> w2, title |-> "a", stakeRule |-> "EQUALLY"] @@
    p1 :> [item |-> i1, payer |-> ann, title |-> Null] @@
    p2 :> [item |-> i3, payer |-> cid, title |-> Null] @@
    t1 :> [workspace |-> w1, title |-> "a"] @@
    <<i1, t1>> :> [tagged |-> TRUE] @@
    <<i1, ann>> :> [value |-> 1] @@
    <<i1, bob>> :> [value |-> 0] @@
    <<i1, dan>> :> [value |-> 1]

MCPaymentLists == {<<p1>>, <<p1, p1>>, <<p1, p2>>}

Stake(m, n) == [member |-> m, value |-> n]
MCStakeLists == {<<Stake(ann, 0), Stake(bob, 1)>>, <<Stake(ann, 0), Stake(bob, 0)>>,
                 <<Stake(ann, -1), Stake(bob, 2)>>, <<Stake(cid, 1)>>, <<Stake(ann, 1)>>,
                 <<Stake(ann, 0), Stake(bob, 1), Stake(eve, 0)>>}

MCMixes == {
    {"createPayment", "deletePayment", "mergeItems"},
    {"updatePayment", "deletePayment", "deleteItem"},
    {"updatePayment", "extractAsItem"},
    {"extractAsItem", "mergeItems"},
    {"createTag", "updateTag", "deleteTag", "assignTag", "unassignTag", "mergeItems"},
    {"deleteTag", "assignTag", "extractAsItem"},
    {"setItemStakes", "setItemStakeRule", "deleteItem"},
    {"setItemStakes", "setItemStakeRule", "SeatTaken", "SeatLost"},
    {"createWorkspace", "updateWorkspace", "updateWorkspaceStakeRule", "deleteWorkspace",
     "createItem", "updateItem", "assignTag"}}
Symmetry == Permutations(Request)
===============================================================================
