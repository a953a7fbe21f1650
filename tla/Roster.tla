-------------------------------- MODULE Roster --------------------------------
(***************************************************************************)
(* What workspace membership promises: who is invited with which rights,   *)
(* who has a seat, who had one, and who holds which rights.                *)
(* WorkspaceMembership implements it as long as requests do not overlap    *)
(* (Seats in WorkspaceMembership).                                         *)
(***************************************************************************)
CONSTANTS Person, Owner, Permission

VARIABLES
    open,     \* <<person, rights>>: an invite without an answer
    seated,   \* the persons who are members
    former,   \* the persons who were members once
    rights    \* <<person, permission>>

roster == <<open, seated, former, rights>>

RosterInit == open = {} /\ seated = {} /\ former = {} /\ rights = {}

Invite(p, R) ==
    /\ p \notin seated
    /\ \A i \in open : i[1] # p
    /\ open' = open \cup {<<p, R>>}
    /\ UNCHANGED <<seated, former, rights>>

\* Somebody who holds one of the rights already, given to them after they
\* left, cannot join with it.
Join(p, R) ==
    /\ <<p, R>> \in open
    /\ ({p} \X R) \cap rights = {}
    /\ open' = open \ {<<p, R>>}
    /\ seated' = seated \cup {p}
    /\ rights' = rights \cup ({p} \X R)
    /\ UNCHANGED former

Decline(p, R) ==
    /\ <<p, R>> \in open
    /\ open' = open \ {<<p, R>>}
    /\ UNCHANGED <<seated, former, rights>>

Grant(p, R) ==
    /\ p \in seated \cup former
    /\ rights' = rights \cup ({p} \X R)
    /\ UNCHANGED <<open, seated, former>>

Revoke(p, R) ==
    /\ p \in seated \cup former
    /\ rights' = rights \ ({p} \X R)
    /\ UNCHANGED <<open, seated, former>>

Leave(p) ==
    /\ p \in seated
    /\ p # Owner
    /\ seated' = seated \ {p}
    /\ former' = former \cup {p}
    /\ rights' = rights \ ({p} \X Permission)
    /\ UNCHANGED open

RosterNext ==
    \E p \in Person :
        \/ Leave(p)
        \/ \E R \in SUBSET Permission :
            Invite(p, R) \/ Join(p, R) \/ Decline(p, R) \/ Grant(p, R) \/ Revoke(p, R)

RosterSpec == RosterInit /\ [][RosterNext]_roster
===============================================================================
