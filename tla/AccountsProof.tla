---------------------------- MODULE AccountsProof ----------------------------
(***************************************************************************)
(* Theorems about Accounts for any users, worlds, sessions, number of      *)
(* requests at once and number of tokens that expire.                      *)
(*                                                                         *)
(* A token is over once it has expired or is on the list of invalidated    *)
(* ones.  IInv says which tokens are over at each statement of a refresh   *)
(* and of a logout.  Typing says what each handler knows at each statement *)
(* and of which types the rows, links and sessions are.  Both hold however *)
(* requests interleave.                                                    *)
(*                                                                         *)
(* Orderly holds as long as requests do not overlap.  Upright is about the *)
(* rows, the links in the mail and the things that were taken: each code   *)
(* is on one row, works for one link and is taken once.  Informed is about *)
(* the one handler at work: what it read is still so, what it has written  *)
(* is there, and the link it was sent by was mailed.                       *)
(*                                                                         *)
(* Haunted is about the ghosts and their invites, and holds however        *)
(* requests interleave. Families are the foreign keys, in the committed    *)
(* rows and in the newest ones. Wrote says what every handler has written  *)
(* and nobody else has read, Knowing what it may go by of the rows it has  *)
(* read in the meantime: READ COMMITTED lets others answer the same        *)
(* invite. Sole says of a ghost that no other invite waits for it than the *)
(* one it was mailed, those left out that were made or answered by id.     *)
(* InviteLinksOK is about the links to invites that were sent before their *)
(* transaction committed.                                                  *)
(***************************************************************************)
EXTENDS Accounts, ReadCommittedProof, Sequences, TLAPS

Over(t) == t \in invalidated \cup expired

IsSigned(s) == s \in Session /\ holderOf[s] # Nobody

Ending == {"refreshToken", "logout"}

\* The tokens a request carries are signed, and those that had ended when it
\* began have ended.
Carries(r) ==
    /\ req[r].access = Null \/ IsSigned(req[r].access)
    /\ req[r].op \in Ending => IsSigned(req[r].refresh)
    /\ req[r].late \subseteq ended

\* What a refresh or a logout has invalidated by the statement it is at.
Ended(r) ==
    /\ (\/ req[r].op = "refreshToken" /\ req[r].pc > 3
        \/ req[r].op = "logout" /\ req[r].pc > 4)
       => (OwnAccess(req[r]) => Over(<<req[r].access, "access">>))
    /\ (\/ req[r].op = "refreshToken" /\ req[r].pc > 4
        \/ req[r].op = "logout" /\ req[r].pc > 3)
       => Over(<<req[r].refresh, "refresh">>)

RequestOK(r) ==
    /\ DOMAIN req[r] = DOMAIN Idle
    /\ req[r].op \in Op /\ req[r].pc \in 1..Len(Script[req[r].op])
    /\ Carries(r) /\ Ended(r)

RequestsOK == DOMAIN req = Request /\ \A r \in Request : RequestOK(r)

EndedOK ==
    /\ \A t \in ended : Over(t)
    /\ <<Null, "access">> \notin ended

IInv ==
    /\ DOMAIN holderOf = Session
    /\ RequestsOK /\ EndedOK

-------------------------------------------------------------------------------
(* The scripts.                                                              *)

LEMMA OpsAre ==
    Op = {"none", "createUser", "updateUser", "changeEmail", "deleteUser", "banUser", "unbanUser",
          "resendConfirmEmail", "confirmEmail", "forgotPassword", "resendForgotPasswordEmail",
          "resetPassword", "createInviteByEmail", "acceptEmailInvite", "acceptByRealUser",
          "acceptByGhost", "rejectEmailInvite", "createInvite", "acceptInvite", "rejectInvite",
          "login", "refreshToken", "logout", "query"}
BY DEF Op, Script

Last == {"idle", "commit", "done", "deliver", "clearConfirmCode", "setPassword", "findRealUser"}

LEMMA StatementsAre ==
    ASSUME NEW op \in Op, NEW pc \in 1..Len(Script[op]), NEW s, s = Script[op][pc]
    PROVE
        /\ s \notin Last => pc + 1 \in 1..Len(Script[op])
        /\ op \in Ending /\ s \notin {"invalidateAccessToken", "invalidateRefreshToken",
                                      "deliver", "done"} => pc <= 2
        /\ s = "invalidateAccessToken" =>
            \/ op = "refreshToken" /\ pc = 3
            \/ op = "logout" /\ pc = 4
        /\ s = "invalidateRefreshToken" =>
            \/ op = "refreshToken" /\ pc = 4
            \/ op = "logout" /\ pc = 3
        /\ s = "deliver" /\ op = "refreshToken" => pc = 5
        /\ s = "done" /\ op = "logout" => pc = 5
        /\ s \in {"setUser", "findRealUser"} => op \notin Ending
<1>1. CASE op = "none"
  BY <1>1 DEF Script, Last, Ending
<1>2. CASE op = "createUser"
  BY <1>2 DEF Script, Last, Ending
<1>3. CASE op = "updateUser"
  BY <1>3 DEF Script, Last, Ending
<1>4. CASE op = "changeEmail"
  BY <1>4 DEF Script, Last, Ending
<1>5. CASE op = "deleteUser"
  BY <1>5 DEF Script, Last, Ending
<1>6. CASE op = "banUser"
  BY <1>6 DEF Script, Last, Ending
<1>7. CASE op = "unbanUser"
  BY <1>7 DEF Script, Last, Ending
<1>8. CASE op = "resendConfirmEmail"
  BY <1>8 DEF Script, Last, Ending
<1>9. CASE op = "confirmEmail"
  BY <1>9 DEF Script, Last, Ending
<1>10. CASE op = "forgotPassword"
  BY <1>10 DEF Script, Last, Ending
<1>11. CASE op = "resendForgotPasswordEmail"
  BY <1>11 DEF Script, Last, Ending
<1>12. CASE op = "resetPassword"
  BY <1>12 DEF Script, Last, Ending
<1>13. CASE op = "createInviteByEmail"
  BY <1>13 DEF Script, Last, Ending
<1>14. CASE op = "acceptEmailInvite"
  BY <1>14 DEF Script, Last, Ending
<1>15. CASE op = "acceptByRealUser"
  BY <1>15 DEF Script, Last, Ending
<1>16. CASE op = "acceptByGhost"
  BY <1>16 DEF Script, Last, Ending
<1>17. CASE op = "rejectEmailInvite"
  BY <1>17 DEF Script, Last, Ending
<1>18. CASE op = "login"
  BY <1>18 DEF Script, Last, Ending
<1>19. CASE op = "refreshToken"
  BY <1>19 DEF Script, Last, Ending
<1>20. CASE op = "logout"
  BY <1>20 DEF Script, Last, Ending
<1>21. CASE op = "query"
  BY <1>21 DEF Script, Last, Ending
<1>22. CASE op = "createInvite"
  BY <1>22 DEF Script, Last, Ending
<1>23. CASE op = "acceptInvite"
  BY <1>23 DEF Script, Last, Ending
<1>24. CASE op = "rejectInvite"
  BY <1>24 DEF Script, Last, Ending
<1>25. QED
  BY <1>1, <1>2, <1>3, <1>4, <1>5, <1>6, <1>7, <1>8, <1>9, <1>10, <1>11,
     <1>12, <1>13, <1>14, <1>15, <1>16, <1>17, <1>18, <1>19, <1>20, <1>21, <1>22, <1>23, <1>24,
     OpsAre

LEMMA ScriptsStart ==
    ASSUME NEW op \in Op
    PROVE  1 \in 1..Len(Script[op])
<1>1. CASE op = "none"
  BY <1>1 DEF Script
<1>2. CASE op = "createUser"
  BY <1>2 DEF Script
<1>3. CASE op = "updateUser"
  BY <1>3 DEF Script
<1>4. CASE op = "changeEmail"
  BY <1>4 DEF Script
<1>5. CASE op = "deleteUser"
  BY <1>5 DEF Script
<1>6. CASE op = "banUser"
  BY <1>6 DEF Script
<1>7. CASE op = "unbanUser"
  BY <1>7 DEF Script
<1>8. CASE op = "resendConfirmEmail"
  BY <1>8 DEF Script
<1>9. CASE op = "confirmEmail"
  BY <1>9 DEF Script
<1>10. CASE op = "forgotPassword"
  BY <1>10 DEF Script
<1>11. CASE op = "resendForgotPasswordEmail"
  BY <1>11 DEF Script
<1>12. CASE op = "resetPassword"
  BY <1>12 DEF Script
<1>13. CASE op = "createInviteByEmail"
  BY <1>13 DEF Script
<1>14. CASE op = "acceptEmailInvite"
  BY <1>14 DEF Script
<1>15. CASE op = "acceptByRealUser"
  BY <1>15 DEF Script
<1>16. CASE op = "acceptByGhost"
  BY <1>16 DEF Script
<1>17. CASE op = "rejectEmailInvite"
  BY <1>17 DEF Script
<1>18. CASE op = "login"
  BY <1>18 DEF Script
<1>19. CASE op = "refreshToken"
  BY <1>19 DEF Script
<1>20. CASE op = "logout"
  BY <1>20 DEF Script
<1>21. CASE op = "query"
  BY <1>21 DEF Script
<1>22. CASE op = "createInvite"
  BY <1>22 DEF Script
<1>23. CASE op = "acceptInvite"
  BY <1>23 DEF Script
<1>24. CASE op = "rejectInvite"
  BY <1>24 DEF Script
<1>25. QED
  BY <1>1, <1>2, <1>3, <1>4, <1>5, <1>6, <1>7, <1>8, <1>9, <1>10, <1>11,
     <1>12, <1>13, <1>14, <1>15, <1>16, <1>17, <1>18, <1>19, <1>20, <1>21, <1>22, <1>23, <1>24,
     OpsAre

-------------------------------------------------------------------------------
(* The kinds of steps.                                                       *)

OthersWait(r) == DOMAIN req' = Request /\ \A q \in Request \ {r} : req'[q] = req[q]

NoTokens == tokenVars' = tokenVars /\ ended' = ended

Stops(r) == OthersWait(r) /\ req'[r] = Idle

\* r goes on with its next statement, carrying what it did.
Moves(r) ==
    /\ OthersWait(r)
    /\ DOMAIN req'[r] = DOMAIN Idle
    /\ req'[r].op = req[r].op /\ req'[r].pc = req[r].pc + 1
    /\ req'[r].access = req[r].access /\ req'[r].refresh = req[r].refresh
    /\ req'[r].late = req[r].late

\* r goes on as another operation that has nothing to do with sessions.
Turns(r) ==
    /\ OthersWait(r)
    /\ DOMAIN req'[r] = DOMAIN Idle
    /\ req'[r].op \in Op \ Ending /\ req'[r].pc = 1
    /\ req'[r].access = req[r].access /\ req'[r].late = req[r].late

\* r starts, carrying signed tokens.
Starts(r) ==
    /\ OthersWait(r)
    /\ DOMAIN req'[r] = DOMAIN Idle
    /\ req'[r].op \in Op /\ req'[r].pc = 1
    /\ req'[r].access = Null \/ IsSigned(req'[r].access)
    /\ req'[r].op \in Ending => IsSigned(req'[r].refresh)
    /\ req'[r].late \subseteq ended

Passes(r) ==
    /\ NoTokens
    /\ \/ Stops(r)
       \/ /\ Script[req[r].op][req[r].pc] \notin
                Last \cup {"invalidateAccessToken", "invalidateRefreshToken"}
          /\ Moves(r)
       \/ Turns(r) \/ Starts(r)

Kinds(r) ==
    \/ Passes(r)
    \/ invalidateAccessToken(r) \/ invalidateRefreshToken(r)
    \/ deliver(r) \/ done(r)

LEMMA ThrowPasses ==
    ASSUME IInv, NEW r \in Request, Throw(r)
    PROVE  Passes(r)
BY DEF IInv, RequestsOK, RequestOK, Throw, Stay, ghostVars, tokenVars, Passes, NoTokens, Stops, OthersWait

LEMMA KnowsMoves ==
    ASSUME IInv, NEW r \in Request, NEW got, req' = Knows(r, got)
    PROVE  Moves(r)
BY DEF IInv, RequestsOK, RequestOK, Knows, Moves, OthersWait

LEMMA ReadPasses ==
    ASSUME IInv, NEW r \in Request, NEW statement, NEW ok, NEW got, Read(r, statement, ok, got),
           statement \notin Last \cup {"invalidateAccessToken", "invalidateRefreshToken"}
    PROVE  Passes(r)
<1>1. CASE Throw(r)
  BY <1>1, ThrowPasses
<1>2. CASE req' = Knows(r, got) /\ Stay
  BY <1>2, KnowsMoves DEF Read, At, Stay, ghostVars, tokenVars, Passes, NoTokens
<1>3. QED
  BY <1>1, <1>2 DEF Read

LEMMA LookingPasses ==
    ASSUME IInv, NEW r \in Request,
           \/ checkEmailFree(r) \/ readUser(r) \/ readUnconfirmed(r) \/ checkConfirmCode(r)
           \/ checkResetCode(r) \/ checkNoGhost(r) \/ findInvitee(r) \/ readGhost(r)
           \/ readInvite(r) \/ validateCreateInvite(r) \/ verifyRefreshToken(r) \/ AuthGuard(r)
           \/ validateAnswer(r)
    PROVE  Passes(r)
<1>1. CASE checkEmailFree(r)
  BY <1>1, ReadPasses DEF checkEmailFree, Last
<1>2. CASE readUser(r)
  BY <1>2, ReadPasses DEF readUser, Last
<1>3. CASE readUnconfirmed(r)
  BY <1>3, ReadPasses DEF readUnconfirmed, Last
<1>4. CASE checkConfirmCode(r)
  BY <1>4, ReadPasses DEF checkConfirmCode, Last
<1>5. CASE checkResetCode(r)
  BY <1>5, ReadPasses DEF checkResetCode, Last
<1>6. CASE checkNoGhost(r)
  BY <1>6, ReadPasses DEF checkNoGhost, Last
<1>7. CASE findInvitee(r)
  BY <1>7, ReadPasses DEF findInvitee, Last
<1>8. CASE readGhost(r)
  BY <1>8, ReadPasses DEF readGhost, Last
<1>9. CASE readInvite(r)
  BY <1>9, ReadPasses DEF readInvite, Last
<1>10. CASE validateCreateInvite(r)
  BY <1>10, ReadPasses DEF validateCreateInvite, Last
<1>11. CASE verifyRefreshToken(r)
  BY <1>11, ReadPasses DEF verifyRefreshToken, Last
<1>12. CASE AuthGuard(r)
  BY <1>12, ReadPasses DEF AuthGuard, Last
<1>13. CASE validateAnswer(r)
  BY <1>13, ReadPasses DEF validateAnswer, Last
<1>14. QED
  BY <1>1, <1>2, <1>3, <1>4, <1>5, <1>6, <1>7, <1>8, <1>9, <1>10, <1>11, <1>12, <1>13

\* r goes on having learnt more than an answer.
Learns(r, statement) ==
    /\ At(r, statement)
    /\ \/ Throw(r)
       \/ /\ NoTokens
          /\ Moves(r)

LEMMA LearningPasses ==
    ASSUME IInv, NEW r \in Request, NEW statement, Learns(r, statement),
           statement \notin Last \cup {"invalidateAccessToken", "invalidateRefreshToken"}
    PROVE  Passes(r)
BY ThrowPasses DEF Learns, Passes, At

LEMMA WritingPasses ==
    ASSUME IInv, NEW r \in Request,
           \/ insertUser(r) \/ setConfirmCode(r) \/ dropUser(r) \/ setBanned(r)
           \/ insertGhost(r) \/ insertInvite(r) \/ redirectInvite(r) \/ setInviteAccepted(r)
           \/ becomeUser(r) \/ insertContacts(r) \/ deleteGhost(r) \/ answerInvite(r)
    PROVE  Passes(r)
<1> USE DEF Stay, NewCodes, ghostVars, tokenVars, NoTokens
<1>0. \A got : req' = Knows(r, got) => Moves(r)
  BY KnowsMoves
<1>1. CASE insertUser(r)
  <2>1. At(r, "insertUser") /\ (Throw(r) \/ (Stay /\ \E row, u : req' = [Knows(r, row) EXCEPT ![r].user = u]))
    BY <1>1 DEF insertUser, InsertUser, Execute
  <2>2. ASSUME NEW row, NEW u, req' = [Knows(r, row) EXCEPT ![r].user = u]
        PROVE  Moves(r)
    BY <2>2 DEF IInv, RequestsOK, RequestOK, Knows, Moves, OthersWait
  <2>3. Learns(r, "insertUser")
    BY <2>1, <2>2 DEF Learns
  <2>4. QED
    BY <2>3, LearningPasses DEF Last
<1>2. CASE setConfirmCode(r)
  <2>1. /\ At(r, "setConfirmCode")
        /\ Throw(r) \/ (NewCodes(1) /\ req' = ConfirmCodeSet(r))
    BY <1>2 DEF setConfirmCode, Execute
  <2>2. req' = ConfirmCodeSet(r) => Moves(r)
    BY DEF IInv, RequestsOK, RequestOK, ConfirmCodeSet, Goes, Knows, Moves, OthersWait
  <2>3. Learns(r, "setConfirmCode")
    BY <2>1, <2>2 DEF Learns
  <2>4. QED
    BY <2>3, LearningPasses DEF Last
<1>3. CASE insertGhost(r)
  <2>1. Learns(r, "insertGhost")
    BY <1>0, <1>3 DEF insertGhost, Execute, Learns
  <2>2. QED
    BY <2>1, LearningPasses DEF Last
<1>4. CASE insertInvite(r)
  <2>1. At(r, "insertInvite") /\ (Throw(r) \/ (Stay /\ \E i : req' = [Goes(r) EXCEPT ![r].invite = i]))
    BY <1>4 DEF insertInvite, Execute
  <2>2. ASSUME NEW i, req' = [Goes(r) EXCEPT ![r].invite = i]
        PROVE  Moves(r)
    BY <2>2 DEF IInv, RequestsOK, RequestOK, Goes, Knows, Moves, OthersWait
  <2>3. Learns(r, "insertInvite")
    BY <2>1, <2>2 DEF Learns
  <2>4. QED
    BY <2>3, LearningPasses DEF Last
<1>5. CASE \/ dropUser(r) \/ setBanned(r) \/ redirectInvite(r) \/ setInviteAccepted(r)
           \/ becomeUser(r) \/ insertContacts(r) \/ deleteGhost(r) \/ answerInvite(r)
  <2>1. \E statement \in {"dropUser", "setBanned", "redirectInvite", "setInviteAccepted",
                          "becomeUser", "insertContacts", "deleteGhost", "answerInvite"} :
            Learns(r, statement)
    BY <1>0, <1>5 DEF dropUser, setBanned, redirectInvite, setInviteAccepted, SetInvite, becomeUser,
       insertContacts, deleteGhost, answerInvite, Execute, Learns, Goes
  <2>2. QED
    BY <2>1, LearningPasses DEF Last
<1>6. QED
  BY <1>1, <1>2, <1>3, <1>4, <1>5

LEMMA CommittingPasses ==
    ASSUME IInv, NEW r \in Request,
           \/ renewConfirmCode(r) \/ clearConfirmCode(r) \/ renewResetCode(r) \/ setPassword(r)
           \/ commit(r) \/ Abort(r)
    PROVE  Passes(r)
<1> USE DEF Stay, NewCodes, Take, ghostVars, tokenVars, NoTokens
<1>0. \A got : req' = Knows(r, got) => Moves(r)
  BY KnowsMoves
<1>1. CASE renewConfirmCode(r)
  <2>1. /\ At(r, "renewConfirmCode")
        /\ Throw(r) \/ (NewCodes(1) /\ req' = ConfirmCodeSet(r))
    BY <1>1 DEF renewConfirmCode, ExecuteNow
  <2>2. req' = ConfirmCodeSet(r) => Moves(r)
    BY DEF IInv, RequestsOK, RequestOK, ConfirmCodeSet, Goes, Knows, Moves, OthersWait
  <2>3. Learns(r, "renewConfirmCode")
    BY <2>1, <2>2 DEF Learns
  <2>4. QED
    BY <2>3, LearningPasses DEF Last
<1>2. CASE renewResetCode(r)
  <2>1. Learns(r, "renewResetCode")
    BY <1>0, <1>2 DEF renewResetCode, ExecuteNow, Learns
  <2>2. QED
    BY <2>1, LearningPasses DEF Last
<1>3. CASE clearConfirmCode(r) \/ setPassword(r) \/ commit(r)
  <2>1. Throw(r) \/ (NoTokens /\ req' = Finished(r))
    BY <1>3 DEF clearConfirmCode, setPassword, ExecuteNow, commit
  <2>2. req' = Finished(r) => Stops(r)
    BY DEF IInv, RequestsOK, RequestOK, Finished, Stops, OthersWait
  <2>3. QED
    BY <2>1, <2>2, ThrowPasses DEF Passes
<1>4. CASE Abort(r)
  BY <1>4, ThrowPasses DEF Abort
<1>5. QED
  BY <1>1, <1>2, <1>3, <1>4

LEMMA TurningPasses ==
    ASSUME IInv, NEW r \in Request,
           \/ setUser(r) \/ findRealUser(r) \/ findActive(r) \/ authenticate(r)
           \/ authenticateUser(r) \/ mailConfirm(r) \/ mailReset(r) \/ mailInvite(r)
    PROVE  Passes(r)
<1> USE DEF Stay, ghostVars, tokenVars, NoTokens
<1>0. \A got : req' = Knows(r, got) => Moves(r)
  BY KnowsMoves
<1>1. CASE setUser(r)
  <2>1. /\ At(r, "setUser")
        /\ \/ Throw(r)
           \/ /\ Stay
              /\ \E got : \/ req' = Knows(r, got)
                          \/ req' = [Knows(r, got) EXCEPT ![r].op = "changeEmail", ![r].pc = 1]
    BY <1>1 DEF setUser, Execute
  <2>2. ASSUME NEW got, req' = [Knows(r, got) EXCEPT ![r].op = "changeEmail", ![r].pc = 1]
        PROVE  Turns(r)
    BY <2>2, OpsAre DEF IInv, RequestsOK, RequestOK, Knows, Turns, OthersWait, Ending
  <2>3. CASE Throw(r) \/ Turns(r)
    BY <2>1, <2>3, ThrowPasses DEF Passes
  <2>4. CASE Stay /\ Moves(r)
    BY <2>1, <2>4, LearningPasses DEF Learns, Last
  <2>5. QED
    BY <1>0, <2>1, <2>2, <2>3, <2>4
<1>2. CASE findRealUser(r)
  <2>1. /\ Stay
        /\ \E op \in {"acceptByRealUser", "acceptByGhost"} : \E got :
                req' = [req EXCEPT ![r].op = op, ![r].pc = 1, ![r].got = got]
    BY <1>2 DEF findRealUser
  <2>2. PICK op \in {"acceptByRealUser", "acceptByGhost"} :
            \E got : req' = [req EXCEPT ![r].op = op, ![r].pc = 1, ![r].got = got]
    BY <2>1
  <2>3. Turns(r)
    BY <2>2, OpsAre DEF IInv, RequestsOK, RequestOK, Turns, OthersWait, Ending
  <2>4. QED
    BY <2>1, <2>3 DEF Passes
<1>3. CASE findActive(r) \/ authenticate(r) \/ authenticateUser(r)
  <2>1. \/ Throw(r)
        \/ Stay /\ \E got, u : req' = [Knows(r, got) EXCEPT ![r].user = u]
    BY <1>3 DEF findActive, authenticate, authenticateUser, Goes
  <2>2. ASSUME NEW got, NEW u, req' = [Knows(r, got) EXCEPT ![r].user = u]
        PROVE  Moves(r)
    BY <2>2 DEF IInv, RequestsOK, RequestOK, Knows, Moves, OthersWait
  <2>3. \E statement \in {"findActive", "authenticate", "authenticateUser"} : Learns(r, statement)
    BY <1>3, <2>1, <2>2 DEF findActive, authenticate, authenticateUser, Learns
  <2>4. QED
    BY <2>3, LearningPasses DEF Last
<1>4. CASE mailConfirm(r) \/ mailReset(r) \/ mailInvite(r)
  <2>1. \E statement \in {"mailConfirm", "mailReset", "mailInvite"} : Learns(r, statement)
    BY <1>0, <1>4 DEF mailConfirm, mailReset, mailInvite, Mail, Learns, Goes
  <2>2. QED
    BY <2>1, LearningPasses DEF Last
<1>5. QED
  BY <1>1, <1>2, <1>3, <1>4

LEMMA StartPasses ==
    ASSUME IInv, NEW r \in Request, NEW op \in Op, NEW known, NEW reached,
           Start(r, op, known, reached), DOMAIN known = DOMAIN Idle, known.pc = 1,
           known.access = Null \/ IsSigned(known.access),
           op \in Ending => IsSigned(known.refresh)
    PROVE  Passes(r)
<1>1. OthersWait(r)
  BY DEF IInv, RequestsOK, RequestOK, Start, OthersWait
<1>2. req'[r] = [known EXCEPT !.op = op, !.late = Carried(known) \cap ended]
  BY DEF IInv, RequestsOK, RequestOK, Start
<1>3. /\ DOMAIN req'[r] = DOMAIN Idle
      /\ req'[r].late = Carried(known) \cap ended
      /\ req'[r].op = op /\ req'[r].pc = known.pc
      /\ req'[r].access = known.access /\ req'[r].refresh = known.refresh
  BY <1>2 DEF Idle
<1>4. QED
  BY <1>1, <1>3 DEF Start, Starts, Passes, NoTokens, tokenVars

LEMMA SignedSessions ==
    ASSUME NEW s \in Sessions
    PROVE  IsSigned(s)
BY DEF Sessions, Signed, Token, IsSigned

LEMMA BeginPasses ==
    ASSUME IInv, NEW r \in Request, Begin(r)
    PROVE  Passes(r)
<1>1. CASE createUser(r)
  BY <1>1, StartPasses, OpsAre DEF createUser, Idle, Ending
<1>2. CASE updateUser(r)
  BY <1>2, StartPasses, OpsAre DEF updateUser, Idle, Ending
<1>3. CASE deleteUser(r)
  BY <1>3, StartPasses, OpsAre DEF deleteUser, Idle, Ending
<1>4. CASE banUser(r)
  BY <1>4, StartPasses, OpsAre DEF banUser, Idle, Ending
<1>5. CASE unbanUser(r)
  BY <1>5, StartPasses, OpsAre DEF unbanUser, Idle, Ending
<1>6. CASE resendConfirmEmail(r)
  BY <1>6, StartPasses, OpsAre DEF resendConfirmEmail, Idle, Ending
<1>7. CASE confirmEmail(r)
  <2>1. PICK l \in Received("confirm") :
            Start(r, "confirmEmail", [Idle EXCEPT !.user = l.user, !.arg = l.code], {<<l.user, l.to>>})
    BY <1>7 DEF confirmEmail
  <2> DEFINE known == [Idle EXCEPT !.user = l.user, !.arg = l.code]
  <2>2. /\ DOMAIN known = DOMAIN Idle
        /\ known.pc = 1 /\ known.access = Null
    BY DEF Idle
  <2>3. QED
    BY <2>1, <2>2, StartPasses, OpsAre DEF Ending
<1>8. CASE forgotPassword(r)
  BY <1>8, StartPasses, OpsAre DEF forgotPassword, Idle, Ending
<1>9. CASE resendForgotPasswordEmail(r)
  BY <1>9, StartPasses, OpsAre DEF resendForgotPasswordEmail, Idle, Ending
<1>10. CASE resetPassword(r)
  BY <1>10, StartPasses, OpsAre DEF resetPassword, Idle, Ending
<1>11. CASE createInviteByEmail(r)
  BY <1>11, StartPasses, OpsAre DEF createInviteByEmail, Idle, Ending
<1>12. CASE acceptEmailInvite(r)
  <2>1. PICK l \in Received("invite") :
            Start(r, "acceptEmailInvite", [Idle EXCEPT !.user = l.user, !.invite = l.invite, !.arg = l], {<<l.user, l.to>>})
    BY <1>12 DEF acceptEmailInvite, FollowInvite
  <2> DEFINE known == [Idle EXCEPT !.user = l.user, !.invite = l.invite, !.arg = l]
  <2>2. /\ DOMAIN known = DOMAIN Idle
        /\ known.pc = 1 /\ known.access = Null
    BY DEF Idle
  <2>3. QED
    BY <2>1, <2>2, StartPasses, OpsAre DEF Ending
<1>13. CASE rejectEmailInvite(r)
  <2>1. PICK l \in Received("invite") :
            Start(r, "rejectEmailInvite", [Idle EXCEPT !.user = l.user, !.invite = l.invite, !.arg = l], {<<l.user, l.to>>})
    BY <1>13 DEF rejectEmailInvite, FollowInvite
  <2> DEFINE known == [Idle EXCEPT !.user = l.user, !.invite = l.invite, !.arg = l]
  <2>2. /\ DOMAIN known = DOMAIN Idle
        /\ known.pc = 1 /\ known.access = Null
    BY DEF Idle
  <2>3. QED
    BY <2>1, <2>2, StartPasses, OpsAre DEF Ending
<1>14. CASE login(r)
  BY <1>14, StartPasses, OpsAre DEF login, Idle, Ending
<1>15. CASE refreshToken(r)
  BY <1>15, StartPasses, SignedSessions, OpsAre DEF refreshToken, Idle, Ending
<1>16. CASE logout(r)
  BY <1>16, StartPasses, SignedSessions, OpsAre DEF logout, Idle, Ending
<1>17. CASE query(r)
  BY <1>17, StartPasses, SignedSessions, OpsAre DEF query, Idle, Ending
<1>18. CASE createInvite(r)
  BY <1>18, StartPasses, OpsAre DEF createInvite, Idle, Ending
<1>19. CASE acceptInvite(r)
  BY <1>19, StartPasses, OpsAre DEF acceptInvite, AnswerInvite, Idle, Ending
<1>20. CASE rejectInvite(r)
  BY <1>20, StartPasses, OpsAre DEF rejectInvite, AnswerInvite, Idle, Ending
<1>21. QED
  BY <1>1, <1>2, <1>3, <1>4, <1>5, <1>6, <1>7, <1>8, <1>9, <1>10, <1>11, <1>12, <1>13, <1>14,
     <1>15, <1>16, <1>17, <1>18, <1>19, <1>20 DEF Begin

LEMMA Classified ==
    ASSUME IInv, NEW r \in Request, Begin(r) \/ Run(r) \/ Abort(r)
    PROVE  Kinds(r)
<1>1. CASE Begin(r)
  BY <1>1, BeginPasses DEF Kinds
<1>2. CASE Run(r)
  BY <1>2, LookingPasses, WritingPasses, CommittingPasses, TurningPasses DEF Run, Kinds
<1>3. CASE Abort(r)
  BY <1>3, CommittingPasses DEF Kinds
<1>4. QED
  BY <1>1, <1>2, <1>3

-------------------------------------------------------------------------------
(* Every step keeps IInv.                                                    *)

\* No token that is over can be used again, and no signed token changes hands.
TokensGrow ==
    /\ DOMAIN holderOf' = Session
    /\ \A s : IsSigned(s) => holderOf'[s] = holderOf[s]
    /\ \A t : t \in invalidated \cup expired => t \in invalidated' \cup expired'
    /\ ended \subseteq ended'

LEMMA SameTokensGrow ==
    ASSUME IInv, NoTokens
    PROVE  TokensGrow
BY DEF IInv, NoTokens, tokenVars, TokensGrow

LEMMA WaitingStaysOK ==
    ASSUME IInv, TokensGrow, NEW q \in Request, req'[q] = req[q]
    PROVE  RequestOK(q)'
<1>1. RequestOK(q)
  BY DEF IInv, RequestsOK
<1>2. Carries(q)'
  BY <1>1 DEF RequestOK, Carries, TokensGrow, IsSigned
<1>3. req[q].op \in Ending => (OwnAccess(req[q])' <=> OwnAccess(req[q]))
  BY <1>1 DEF RequestOK, Carries, TokensGrow, OwnAccess
<1>4. Ended(q)'
  BY <1>1, <1>3 DEF RequestOK, Ended, TokensGrow, Over, Ending
<1>5. QED
  BY <1>1, <1>2, <1>4 DEF RequestOK

LEMMA IdleIsOK ==
    ASSUME NEW q \in Request, req'[q] = Idle
    PROVE  RequestOK(q)'
<1>1. /\ req'[q].op = "none" /\ req'[q].pc = 1
      /\ req'[q].access = Null /\ req'[q].late = {}
      /\ DOMAIN req'[q] = DOMAIN Idle
  BY DEF Idle
<1>2. "none" \in Op /\ 1 \in 1..Len(Script["none"])
  BY OpsAre, ScriptsStart
<1>3. QED
  BY <1>1, <1>2 DEF RequestOK, Carries, Ended, Ending

LEMMA PassesKeepsIInv ==
    ASSUME IInv, NEW r \in Request, Passes(r)
    PROVE  IInv'
<1>1. TokensGrow
  BY SameTokensGrow DEF Passes
<1>2. EndedOK'
  BY DEF IInv, EndedOK, Passes, NoTokens, tokenVars, Over
<1>3. OthersWait(r)
  BY DEF Passes, Stops, Moves, Turns, Starts
<1>4. \A q \in Request \ {r} : RequestOK(q)'
  BY <1>1, <1>3, WaitingStaysOK DEF OthersWait
<1>5. RequestOK(r)
  BY DEF IInv, RequestsOK
<1>6. RequestOK(r)'
  <2>1. CASE Stops(r)
    BY <2>1, IdleIsOK DEF Stops
  <2>2. CASE /\ Script[req[r].op][req[r].pc] \notin
                    Last \cup {"invalidateAccessToken", "invalidateRefreshToken"}
             /\ Moves(r)
    <3>1. req'[r].pc \in 1..Len(Script[req'[r].op])
      BY <1>5, <2>2, StatementsAre DEF RequestOK, Moves
    <3>2. req[r].op \in Ending => req[r].pc <= 2
      BY <1>5, <2>2, StatementsAre DEF RequestOK, Last
    <3>3. req[r].pc \in Nat
      BY <1>5 DEF RequestOK
    <3>4. Ended(r)'
      BY <2>2, <3>2, <3>3 DEF Moves, Ended, Ending
    <3>5. Carries(r)'
      BY <1>1, <1>5, <2>2 DEF Moves, RequestOK, Carries, TokensGrow, IsSigned
    <3>6. QED
      BY <1>5, <2>2, <3>1, <3>4, <3>5 DEF RequestOK, Moves
  <2>3. CASE Turns(r)
    BY <1>1, <1>5, <2>3, ScriptsStart
       DEF Turns, RequestOK, Carries, Ended, Ending, TokensGrow, IsSigned
  <2>4. CASE Starts(r)
    <3>1. Carries(r)'
      BY <1>1, <2>4 DEF Starts, Carries, TokensGrow, IsSigned
    <3>2. Ended(r)'
      BY <2>4 DEF Starts, Ended
    <3>3. QED
      BY <2>4, <3>1, <3>2, ScriptsStart DEF Starts, RequestOK
  <2>5. QED
    BY <2>1, <2>2, <2>3, <2>4 DEF Passes
<1>7. QED
  BY <1>1, <1>2, <1>3, <1>4, <1>6 DEF IInv, RequestsOK, OthersWait, TokensGrow

LEMMA InvalidatingGrows ==
    ASSUME IInv, NEW t, invalidateToken(t), ended' = ended
    PROVE  TokensGrow /\ t \in invalidated' \cup expired'
BY DEF IInv, invalidateToken, TokensGrow

LEMMA GrowingKeepsEnded ==
    ASSUME IInv, TokensGrow, ended' = ended
    PROVE  EndedOK'
BY DEF IInv, EndedOK, TokensGrow, Over

LEMMA InvalidatingAccessKeepsIInv ==
    ASSUME IInv, NEW r \in Request, invalidateAccessToken(r)
    PROVE  IInv'
<1>1. ended' = ended
  BY DEF invalidateAccessToken, ghostVars
<1>2. TokensGrow
  <2>1. CASE UNCHANGED tokenVars
    BY <1>1, <2>1, SameTokensGrow DEF NoTokens
  <2>2. CASE invalidateToken(<<req[r].access, "access">>)
    BY <1>1, <2>2, InvalidatingGrows
  <2>3. QED
    BY <2>1, <2>2 DEF invalidateAccessToken
<1>3. RequestOK(r) /\ req[r].pc \in Nat
  BY DEF IInv, RequestsOK, RequestOK
<1>4. Moves(r)
  BY KnowsMoves DEF invalidateAccessToken, Goes
<1>5. /\ req[r].op \in Ending
      /\ req[r].op = "refreshToken" => req[r].pc = 3
      /\ req[r].op = "logout" => req[r].pc = 4
      /\ req'[r].pc \in 1..Len(Script[req'[r].op])
  <2>1. Script[req[r].op][req[r].pc] = "invalidateAccessToken"
    BY DEF invalidateAccessToken, At
  <2>2. /\ \/ req[r].op = "refreshToken" /\ req[r].pc = 3
           \/ req[r].op = "logout" /\ req[r].pc = 4
        /\ req[r].pc + 1 \in 1..Len(Script[req[r].op])
    BY <1>3, <2>1, StatementsAre DEF RequestOK, Last
  <2>3. QED
    BY <1>4, <2>2 DEF Ending, Moves
<1>6. OwnAccess(req[r])' <=> OwnAccess(req[r])
  BY <1>2, <1>3, <1>4, <1>5 DEF RequestOK, Carries, TokensGrow, OwnAccess, Moves
<1>7. OwnAccess(req[r]) => <<req[r].access, "access">> \in invalidated' \cup expired'
  BY <1>1, InvalidatingGrows DEF invalidateAccessToken
<1>8. Ended(r)'
  BY <1>2, <1>3, <1>4, <1>5, <1>6, <1>7 DEF Ended, Moves, TokensGrow, Over, RequestOK, Ending
<1>9. Carries(r)'
  BY <1>2, <1>3, <1>4 DEF Moves, RequestOK, Carries, TokensGrow, IsSigned
<1>10. RequestOK(r)'
  BY <1>3, <1>4, <1>5, <1>8, <1>9 DEF RequestOK, Moves
<1>11. \A q \in Request \ {r} : RequestOK(q)'
  BY <1>2, <1>4, WaitingStaysOK DEF OthersWait, Moves
<1>12. QED
  BY <1>1, <1>2, <1>4, <1>10, <1>11, GrowingKeepsEnded
     DEF IInv, RequestsOK, Moves, OthersWait, TokensGrow

LEMMA InvalidatingRefreshKeepsIInv ==
    ASSUME IInv, NEW r \in Request, invalidateRefreshToken(r)
    PROVE  IInv'
<1>1. ended' = ended
  BY DEF invalidateRefreshToken, ghostVars
<1>2. TokensGrow /\ <<req[r].refresh, "refresh">> \in invalidated' \cup expired'
  BY <1>1, InvalidatingGrows DEF invalidateRefreshToken
<1>3. RequestOK(r) /\ req[r].pc \in Nat
  BY DEF IInv, RequestsOK, RequestOK
<1>4. Moves(r)
  BY KnowsMoves DEF invalidateRefreshToken, Goes
<1>5. /\ req[r].op \in Ending
      /\ req[r].op = "refreshToken" => req[r].pc = 4
      /\ req[r].op = "logout" => req[r].pc = 3
      /\ req'[r].pc \in 1..Len(Script[req'[r].op])
  <2>1. Script[req[r].op][req[r].pc] = "invalidateRefreshToken"
    BY DEF invalidateRefreshToken, At
  <2>2. /\ \/ req[r].op = "refreshToken" /\ req[r].pc = 4
           \/ req[r].op = "logout" /\ req[r].pc = 3
        /\ req[r].pc + 1 \in 1..Len(Script[req[r].op])
    BY <1>3, <2>1, StatementsAre DEF RequestOK, Last
  <2>3. QED
    BY <1>4, <2>2 DEF Ending, Moves
<1>6. OwnAccess(req[r])' <=> OwnAccess(req[r])
  BY <1>2, <1>3, <1>4, <1>5 DEF RequestOK, Carries, TokensGrow, OwnAccess, Moves
<1>8. Ended(r)'
  BY <1>2, <1>3, <1>4, <1>5, <1>6 DEF Ended, Moves, TokensGrow, Over, RequestOK, Ending
<1>9. Carries(r)'
  BY <1>2, <1>3, <1>4 DEF Moves, RequestOK, Carries, TokensGrow, IsSigned
<1>10. RequestOK(r)'
  BY <1>3, <1>4, <1>5, <1>8, <1>9 DEF RequestOK, Moves
<1>11. \A q \in Request \ {r} : RequestOK(q)'
  BY <1>2, <1>4, WaitingStaysOK DEF OthersWait, Moves
<1>12. QED
  BY <1>1, <1>2, <1>4, <1>10, <1>11, GrowingKeepsEnded
     DEF IInv, RequestsOK, Moves, OthersWait, TokensGrow

\* At its last statement a refresh or a logout has invalidated what it ends.
LEMMA AllEnded ==
    ASSUME IInv, NEW r \in Request, req[r].op \in Ending, req[r].pc = 5
    PROVE  (\A t \in ToEnd(req[r]) : Over(t)) /\ <<Null, "access">> \notin ToEnd(req[r])
<1>1. /\ OwnAccess(req[r]) => Over(<<req[r].access, "access">>)
      /\ Over(<<req[r].refresh, "refresh">>)
  BY DEF IInv, RequestsOK, RequestOK, Ended, Ending
<1>2. OwnAccess(req[r]) => req[r].access # Null
  BY DEF OwnAccess
<1>3. QED
  BY <1>1, <1>2 DEF ToEnd

LEMMA FinishingKeepsIInv ==
    ASSUME IInv, NEW r \in Request, TokensGrow, req' = Finished(r), EndedOK'
    PROVE  IInv'
<1>1. DOMAIN req' = Request /\ req'[r] = Idle /\ \A q \in Request \ {r} : req'[q] = req[q]
  BY DEF Finished, IInv, RequestsOK
<1>2. \A q \in Request : RequestOK(q)'
  BY <1>1, IdleIsOK, WaitingStaysOK
<1>3. QED
  BY <1>1, <1>2 DEF IInv, RequestsOK, TokensGrow

LEMMA DeliverKeepsIInv ==
    ASSUME IInv, NEW r \in Request, deliver(r)
    PROVE  IInv'
<1>1. CASE Throw(r)
  BY <1>1, ThrowPasses, PassesKeepsIInv
<1>2. ASSUME NEW s \in Unsigned, createTokens(s, req[r].user), req' = Finished(r),
             IF req[r].op = "refreshToken" THEN ended' = ended \cup ToEnd(req[r])
             ELSE ended' = ended
      PROVE  IInv'
  <2>1. RequestOK(r)
    BY DEF IInv, RequestsOK
  <2>2. req[r].op = "refreshToken" => req[r].pc = 5
    BY <2>1, StatementsAre DEF RequestOK, deliver, At
  <2>3. TokensGrow
    BY <1>2 DEF createTokens, TokensGrow, IsSigned, Unsigned, IInv
  <2>4. EndedOK'
    BY <1>2, <2>2, <2>3, AllEnded DEF IInv, EndedOK, TokensGrow, Over, Ending
  <2>5. QED
    BY <1>2, <2>3, <2>4, FinishingKeepsIInv
<1>3. QED
  BY <1>1, <1>2 DEF deliver

LEMMA DoneKeepsIInv ==
    ASSUME IInv, NEW r \in Request, done(r)
    PROVE  IInv'
<1>1. RequestOK(r)
  BY DEF IInv, RequestsOK
<1>2. req[r].op = "logout" => req[r].pc = 5
  BY <1>1, StatementsAre DEF RequestOK, done, At
<1>3. /\ ended \subseteq ended'
      /\ \A t \in ended' : t \in ended \/ (req[r].op = "logout" /\ t \in ToEnd(req[r]))
  BY DEF done
<1>4. TokensGrow
  BY <1>3 DEF done, tokenVars, TokensGrow, IInv
<1>5. EndedOK'
  BY <1>2, <1>3, <1>4, AllEnded DEF IInv, EndedOK, TokensGrow, Over, Ending
<1>6. QED
  BY <1>4, <1>5, FinishingKeepsIInv DEF done

LEMMA TimeKeepsIInv ==
    ASSUME IInv, Time
    PROVE  IInv'
<1>1. ended' = ended /\ req' = req
  BY DEF Time, ghostVars
<1>2. TokensGrow
  BY <1>1 DEF Time, Expire, Forget, TokensGrow, IInv
<1>3. \A q \in Request : RequestOK(q)'
  BY <1>1, <1>2, WaitingStaysOK
<1>4. QED
  BY <1>1, <1>2, <1>3, GrowingKeepsEnded DEF IInv, RequestsOK, TokensGrow

LEMMA NextKeepsIInv == IInv /\ [Next]_vars => IInv'
<1> SUFFICES ASSUME IInv, [Next]_vars
             PROVE  IInv'
  OBVIOUS
<1>1. CASE UNCHANGED vars
  <2>1. req' = req /\ NoTokens
    BY <1>1 DEF vars, ghostVars, NoTokens
  <2>2. TokensGrow /\ ended' = ended
    BY <2>1, SameTokensGrow DEF NoTokens
  <2>3. \A q \in Request : RequestOK(q)'
    BY <2>1, <2>2, WaitingStaysOK
  <2>4. QED
    BY <2>1, <2>2, <2>3, GrowingKeepsEnded DEF IInv, RequestsOK, TokensGrow
<1>2. CASE Time
  BY <1>2, TimeKeepsIInv
<1>3. ASSUME NEW r \in Request, Begin(r) \/ Run(r) \/ Abort(r)
      PROVE  IInv'
  <2>1. Kinds(r)
    BY <1>3, Classified
  <2>2. QED
    BY <2>1, PassesKeepsIInv, InvalidatingAccessKeepsIInv, InvalidatingRefreshKeepsIInv,
       DeliverKeepsIInv, DoneKeepsIInv DEF Kinds
<1>4. QED
  BY <1>1, <1>2, <1>3 DEF Next

LEMMA InitialIInv == Init => IInv
<1> SUFFICES ASSUME Init
             PROVE  IInv
  OBVIOUS
<1>1. DOMAIN holderOf = Session
  BY WorldsAreTyped DEF Init
<1>2. EndedOK
  BY DEF Init, EndedOK
<1>3. ASSUME NEW r \in Request
      PROVE  RequestOK(r)
  <2>1. req[r].op = "none" /\ req[r].pc = 1 /\ req[r].access = Null /\ req[r].late = {}
    BY DEF Init, Idle
  <2>2. "none" \in Op /\ 1 \in 1..Len(Script["none"])
    BY OpsAre, ScriptsStart
  <2>3. DOMAIN req[r] = DOMAIN Idle
    BY DEF Init
  <2>4. QED
    BY <2>1, <2>2, <2>3 DEF RequestOK, Carries, Ended, Ending
<1>4. QED
  BY <1>1, <1>2, <1>3 DEF IInv, RequestsOK, Init

\* The tokens that finished logouts and refreshes were to end are over, whatever
\* other sessions do meanwhile and however long Redis remembers.
THEOREM InvariantHolds == Spec => []IInv
BY InitialIInv, NextKeepsIInv, PTL DEF Spec

\* A token that had ended when a request began opens nothing to that request.
LEMMA EndedOpensNothing ==
    ASSUME IInv, NEW r \in Request
    PROVE  /\ AuthGuard(r) /\ req'[r] # Idle => <<req[r].access, "access">> \notin req[r].late
           /\ verifyRefreshToken(r) /\ req'[r] # Idle
                => <<req[r].refresh, "refresh">> \notin req[r].late
<1>1. req[r].late \subseteq ended /\ DOMAIN req = Request
  BY DEF IInv, RequestsOK, RequestOK, Carries
<1>2. \A t : Verifies(t) => t \notin ended
  BY DEF IInv, EndedOK, Over, Verifies
<1>3. Throw(r) => req'[r] = Idle
  BY <1>1 DEF Throw
<1>4. ASSUME AuthGuard(r), req'[r] # Idle
      PROVE  req[r].access = Null \/ Verifies(<<req[r].access, "access">>)
  BY <1>3, <1>4 DEF AuthGuard, Read
<1>5. ASSUME verifyRefreshToken(r), req'[r] # Idle
      PROVE  Verifies(<<req[r].refresh, "refresh">>)
  BY <1>3, <1>5 DEF verifyRefreshToken, Read
<1>6. QED
  BY <1>1, <1>2, <1>4, <1>5 DEF IInv, EndedOK

\* Once a logout or a refresh has finished, no later request gets past the guard
\* or the refresh with the tokens it ended, for any sessions and any interleaving
\* of requests, expiries and forgotten entries.
THEOREM EndedTokensStayOut == Spec => LoggedOutStaysOut
<1>1. IInv /\ [Next]_vars =>
        [\A r \in Request :
            /\ AuthGuard(r) /\ req'[r] # Idle => <<req[r].access, "access">> \notin req[r].late
            /\ verifyRefreshToken(r) /\ req'[r] # Idle
                    => <<req[r].refresh, "refresh">> \notin req[r].late]_vars
  BY EndedOpensNothing
<1>2. QED
  BY <1>1, InvariantHolds, PTL DEF Spec, LoggedOutStaysOut

-------------------------------------------------------------------------------
(* Types: what the handlers know, statement by statement.                    *)

\* The operations and places in them at which a statement is issued.
LEMMA PlacesAre ==
    ASSUME IInv, NEW r \in Request
    PROVE
        /\ At(r, "checkEmailFree") => req[r].op = "createUser" /\ req[r].pc = 1
        /\ At(r, "insertUser") => req[r].op = "createUser" /\ req[r].pc = 2
        /\ At(r, "setConfirmCode") =>
            \/ req[r].op = "createUser" /\ req[r].pc = 3
            \/ req[r].op = "changeEmail" /\ req[r].pc = 1
        /\ At(r, "mailConfirm") =>
            \/ req[r].op = "createUser" /\ req[r].pc = 4
            \/ req[r].op = "changeEmail" /\ req[r].pc = 2
            \/ req[r].op = "resendConfirmEmail" /\ req[r].pc = 3
        /\ At(r, "commit") =>
            \/ req[r].op = "createUser" /\ req[r].pc = 5
            \/ req[r].op = "updateUser" /\ req[r].pc = 3
            \/ req[r].op = "changeEmail" /\ req[r].pc = 3
            \/ req[r].op = "deleteUser" /\ req[r].pc = 2
            \/ req[r].op = "banUser" /\ req[r].pc = 2
            \/ req[r].op = "unbanUser" /\ req[r].pc = 2
            \/ req[r].op = "createInviteByEmail" /\ req[r].pc = 6
            \/ req[r].op = "acceptByRealUser" /\ req[r].pc = 5
            \/ req[r].op = "acceptByGhost" /\ req[r].pc = 4
            \/ req[r].op = "rejectEmailInvite" /\ req[r].pc = 4
            \/ req[r].op = "createInvite" /\ req[r].pc = 3
            \/ req[r].op = "acceptInvite" /\ req[r].pc = 4
            \/ req[r].op = "rejectInvite" /\ req[r].pc = 3
        /\ At(r, "readUser") => req[r].op = "updateUser" /\ req[r].pc = 1
        /\ At(r, "setUser") => req[r].op = "updateUser" /\ req[r].pc = 2
        /\ At(r, "dropUser") => req[r].op = "deleteUser" /\ req[r].pc = 1
        /\ At(r, "setBanned") =>
            \/ req[r].op = "banUser" /\ req[r].pc = 1
            \/ req[r].op = "unbanUser" /\ req[r].pc = 1
        /\ At(r, "readUnconfirmed") => req[r].op = "resendConfirmEmail" /\ req[r].pc = 1
        /\ At(r, "renewConfirmCode") => req[r].op = "resendConfirmEmail" /\ req[r].pc = 2
        /\ At(r, "checkConfirmCode") => req[r].op = "confirmEmail" /\ req[r].pc = 1
        /\ At(r, "clearConfirmCode") => req[r].op = "confirmEmail" /\ req[r].pc = 2
        /\ At(r, "findActive") =>
            \/ req[r].op = "forgotPassword" /\ req[r].pc = 1
            \/ req[r].op = "resendForgotPasswordEmail" /\ req[r].pc = 1
        /\ At(r, "renewResetCode") => req[r].op = "forgotPassword" /\ req[r].pc = 2
        /\ At(r, "mailReset") =>
            \/ req[r].op = "forgotPassword" /\ req[r].pc = 3
            \/ req[r].op = "resendForgotPasswordEmail" /\ req[r].pc = 2
        /\ At(r, "checkResetCode") => req[r].op = "resetPassword" /\ req[r].pc = 1
        /\ At(r, "setPassword") => req[r].op = "resetPassword" /\ req[r].pc = 2
        /\ At(r, "checkNoGhost") => req[r].op = "createInviteByEmail" /\ req[r].pc = 1
        /\ At(r, "findInvitee") => req[r].op = "createInviteByEmail" /\ req[r].pc = 2
        /\ At(r, "insertGhost") => req[r].op = "createInviteByEmail" /\ req[r].pc = 3
        /\ At(r, "insertInvite") =>
            \/ req[r].op = "createInviteByEmail" /\ req[r].pc = 4
            \/ req[r].op = "createInvite" /\ req[r].pc = 2
        /\ At(r, "mailInvite") => req[r].op = "createInviteByEmail" /\ req[r].pc = 5
        /\ At(r, "readGhost") =>
            \/ req[r].op = "acceptEmailInvite" /\ req[r].pc = 1
            \/ req[r].op = "rejectEmailInvite" /\ req[r].pc = 1
        /\ At(r, "readInvite") =>
            \/ req[r].op = "acceptEmailInvite" /\ req[r].pc = 2
            \/ req[r].op = "rejectEmailInvite" /\ req[r].pc = 2
        /\ At(r, "findRealUser") => req[r].op = "acceptEmailInvite" /\ req[r].pc = 3
        /\ At(r, "validateCreateInvite") =>
            \/ req[r].op = "acceptByRealUser" /\ req[r].pc = 1
            \/ req[r].op = "createInvite" /\ req[r].pc = 1
        /\ At(r, "validateAnswer") =>
            \/ req[r].op = "acceptInvite" /\ req[r].pc = 1
            \/ req[r].op = "rejectInvite" /\ req[r].pc = 1
        /\ At(r, "answerInvite") =>
            \/ req[r].op = "acceptInvite" /\ req[r].pc = 2
            \/ req[r].op = "rejectInvite" /\ req[r].pc = 2
        /\ At(r, "redirectInvite") => req[r].op = "acceptByRealUser" /\ req[r].pc = 2
        /\ At(r, "insertContacts") =>
            \/ req[r].op = "acceptByRealUser" /\ req[r].pc = 3
            \/ req[r].op = "acceptByGhost" /\ req[r].pc = 3
            \/ req[r].op = "acceptInvite" /\ req[r].pc = 3
        /\ At(r, "deleteGhost") =>
            \/ req[r].op = "acceptByRealUser" /\ req[r].pc = 4
            \/ req[r].op = "rejectEmailInvite" /\ req[r].pc = 3
        /\ At(r, "becomeUser") => req[r].op = "acceptByGhost" /\ req[r].pc = 1
        /\ At(r, "setInviteAccepted") => req[r].op = "acceptByGhost" /\ req[r].pc = 2
        /\ At(r, "authenticate") => req[r].op = "login" /\ req[r].pc = 1
        /\ At(r, "verifyRefreshToken") =>
            \/ req[r].op = "refreshToken" /\ req[r].pc = 1
            \/ req[r].op = "logout" /\ req[r].pc = 2
        /\ At(r, "invalidateAccessToken") =>
            \/ req[r].op = "refreshToken" /\ req[r].pc = 3
            \/ req[r].op = "logout" /\ req[r].pc = 4
        /\ At(r, "invalidateRefreshToken") =>
            \/ req[r].op = "refreshToken" /\ req[r].pc = 4
            \/ req[r].op = "logout" /\ req[r].pc = 3
        /\ At(r, "authenticateUser") => req[r].op = "refreshToken" /\ req[r].pc = 2
        /\ At(r, "deliver") =>
            \/ req[r].op = "login" /\ req[r].pc = 2
            \/ req[r].op = "refreshToken" /\ req[r].pc = 5
        /\ At(r, "AuthGuard") =>
            \/ req[r].op = "logout" /\ req[r].pc = 1
            \/ req[r].op = "query" /\ req[r].pc = 1
        /\ At(r, "done") =>
            \/ req[r].op = "resendConfirmEmail" /\ req[r].pc = 4
            \/ req[r].op = "forgotPassword" /\ req[r].pc = 4
            \/ req[r].op = "resendForgotPasswordEmail" /\ req[r].pc = 3
            \/ req[r].op = "logout" /\ req[r].pc = 5
            \/ req[r].op = "query" /\ req[r].pc = 2
<1>0. /\ req[r].op \in Op
      /\ req[r].pc \in 1..Len(Script[req[r].op])
  BY DEF IInv, RequestsOK, RequestOK
<1>1. CASE req[r].op = "none"
  BY <1>0, <1>1 DEF Script, At
<1>2. CASE req[r].op = "createUser"
  BY <1>0, <1>2 DEF Script, At
<1>3. CASE req[r].op = "updateUser"
  BY <1>0, <1>3 DEF Script, At
<1>4. CASE req[r].op = "changeEmail"
  BY <1>0, <1>4 DEF Script, At
<1>5. CASE req[r].op = "deleteUser"
  BY <1>0, <1>5 DEF Script, At
<1>6. CASE req[r].op = "banUser"
  BY <1>0, <1>6 DEF Script, At
<1>7. CASE req[r].op = "unbanUser"
  BY <1>0, <1>7 DEF Script, At
<1>8. CASE req[r].op = "resendConfirmEmail"
  BY <1>0, <1>8 DEF Script, At
<1>9. CASE req[r].op = "confirmEmail"
  BY <1>0, <1>9 DEF Script, At
<1>10. CASE req[r].op = "forgotPassword"
  BY <1>0, <1>10 DEF Script, At
<1>11. CASE req[r].op = "resendForgotPasswordEmail"
  BY <1>0, <1>11 DEF Script, At
<1>12. CASE req[r].op = "resetPassword"
  BY <1>0, <1>12 DEF Script, At
<1>13. CASE req[r].op = "createInviteByEmail"
  BY <1>0, <1>13 DEF Script, At
<1>14. CASE req[r].op = "acceptEmailInvite"
  BY <1>0, <1>14 DEF Script, At
<1>15. CASE req[r].op = "acceptByRealUser"
  BY <1>0, <1>15 DEF Script, At
<1>16. CASE req[r].op = "acceptByGhost"
  BY <1>0, <1>16 DEF Script, At
<1>17. CASE req[r].op = "rejectEmailInvite"
  BY <1>0, <1>17 DEF Script, At
<1>18. CASE req[r].op = "login"
  BY <1>0, <1>18 DEF Script, At
<1>19. CASE req[r].op = "refreshToken"
  BY <1>0, <1>19 DEF Script, At
<1>20. CASE req[r].op = "logout"
  BY <1>0, <1>20 DEF Script, At
<1>21. CASE req[r].op = "query"
  BY <1>0, <1>21 DEF Script, At
<1>22. CASE req[r].op = "createInvite"
  BY <1>0, <1>22 DEF Script, At
<1>23. CASE req[r].op = "acceptInvite"
  BY <1>0, <1>23 DEF Script, At
<1>24. CASE req[r].op = "rejectInvite"
  BY <1>0, <1>24 DEF Script, At
<1>25. QED
  BY <1>0, <1>1, <1>2, <1>3, <1>4, <1>5, <1>6, <1>7, <1>8, <1>9, <1>10, <1>11, <1>12, <1>13, <1>14,
     <1>15, <1>16, <1>17, <1>18, <1>19, <1>20, <1>21, <1>22, <1>23, <1>24,
     OpsAre

\* Handlers without a transaction, and acceptEmailInvite as long as it only reads.
Untransacted == {"none", "resendConfirmEmail", "confirmEmail", "forgotPassword",
                 "resendForgotPasswordEmail", "resetPassword", "acceptEmailInvite", "login",
                 "refreshToken", "logout", "query"}
Accepting == {"acceptByRealUser", "acceptByGhost"}
Answering == Accepting \cup {"acceptEmailInvite", "rejectEmailInvite"}
\* Requests about a user whom the client or its link names.
Named == Answering \cup
         {"updateUser", "changeEmail", "deleteUser", "banUser", "unbanUser", "resendConfirmEmail",
          "confirmEmail", "resetPassword", "createInviteByEmail"}
\* Requests that look their user up by an address.
Looking == {"forgotPassword", "resendForgotPasswordEmail", "login"}

HasUser(q) ==
    \/ q.op \in Named
    \/ q.op = "createUser" /\ q.pc > 2
    \/ q.op \in Looking /\ q.pc > 1
    \/ q.op = "refreshToken" /\ q.pc > 2

HasRow(q) ==
    \/ q.op = "changeEmail"
    \/ q.op = "createUser" /\ q.pc > 2
    \/ q.op \in {"resendConfirmEmail", "forgotPassword", "resendForgotPasswordEmail"} /\ q.pc > 1

Signing(q) ==
    \/ q.op = "login" /\ q.pc > 1
    \/ q.op = "refreshToken" /\ q.pc > 2

ArgumentOK(q) ==
    /\ q.op \in {"createUser", "updateUser"} => q.arg.email \in Typed /\ q.arg.password \in Password
    /\ q.op \in {"banUser", "unbanUser"} => q.arg \in BOOLEAN
    /\ q.op = "resetPassword" => q.arg.password \in Password
    /\ q.op = "createInviteByEmail" => q.arg \in Address
    /\ q.op \in {"acceptInvite", "rejectInvite"} => q.invite \in InviteId
    /\ q.op \in Answering =>
        q.invite \in InviteId /\ q.arg.to \in Address /\ q.arg.resetCode \in Code \cup {Null}

LearntOK(q) ==
    /\ HasUser(q) => q.user \in UserId
    /\ HasRow(q) => q.got \in UserRow
    /\ q.op = "createInviteByEmail" /\ q.pc > 3 =>
        q.got.inviter = q.user /\ q.got.invitee \in UserId /\ q.got.row \in UserRow
    /\ q.op = "createInvite" => q.got.inviter \in UserId /\ q.got.invitee \in UserId
    /\ \/ q.op = "createInviteByEmail" /\ q.pc > 4
       \/ q.op = "createInvite" /\ q.pc > 2
       => q.invite \in InviteId
    /\ q.op \in {"acceptInvite", "rejectInvite"} /\ q.pc > 2 => q.got \in InviteRow
    /\ q.op = "acceptEmailInvite" /\ q.pc = 3 => q.got \in InviteRow
    /\ q.op \in Accepting => /\ q.got.inviter \in UserId /\ q.got.invitee \in UserId
                             /\ q.got.resetCode \in Code \cup {Null}

HoldsNothing(r) == \A k \in Key : holder[k] # r

HandlerOK(r) ==
    /\ ArgumentOK(req[r]) /\ LearntOK(req[r])
    /\ Signing(req[r]) => db[req[r].user] # Absent
    /\ req[r].op \in Untransacted => HoldsNothing(r)

\* Users who were committed are not forgotten by any newer version.
Lasting == \A u \in UserId : db[u] # Absent => draft[u] # Absent

LinksOK == links \subseteq Link /\ \A l \in links : l.kind = "invite" => l.invite \in InviteId

Typing ==
    /\ RowsTyped(db) /\ RowsTyped(draft) /\ Lasting
    /\ codes \in Code /\ LinksOK /\ world \in DOMAIN Worlds
    /\ Signers(db, holderOf)
    /\ invalidated \cup expired \subseteq Token
    /\ \A r \in Request : HandlerOK(r)

RowTyped(k, version) ==
    Exists(version) =>
        /\ k \in UserId => version \in UserRow
        /\ k \in InviteId => version \in InviteRow
        /\ k \in ContactKey => version \in ContactRow

LEMMA RowsTypedIs ==
    ASSUME NEW t
    PROVE  RowsTyped(t) <=> \A k \in Key : RowTyped(k, t[k])
BY AccountKeys DEF RowsTyped, RowTyped

\* A write outside any transaction.
PutNow(rows) ==
    /\ db' = [k \in Key |-> IF k \in DOMAIN rows THEN rows[k] ELSE db[k]]
    /\ draft' = [k \in Key |-> IF k \in DOMAIN rows THEN rows[k] ELSE draft[k]]
    /\ UNCHANGED holder

LEMMA PutNowRow ==
    ASSUME NEW rows, PutNow(rows), NEW k \in Key
    PROVE  /\ holder'[k] = holder[k]
           /\ k \in DOMAIN rows => db'[k] = rows[k] /\ draft'[k] = rows[k]
           /\ k \notin DOMAIN rows => db'[k] = db[k] /\ draft'[k] = draft[k]
BY DEF PutNow

\* Rows of their tables; no user is forgotten.
Lawful(rows) ==
    \A k \in DOMAIN rows : RowTyped(k, rows[k]) /\ (k \in UserId => rows[k] # Absent)

TablesMove(r) ==
    \/ UNCHANGED tables \/ RollbackTx(r) \/ CommitTx(r)
    \/ \E rows : Lawful(rows) /\ (Put(r, rows) \/ PutNow(rows))

LEMMA TablesStayTyped ==
    ASSUME Typing, NEW r \in Request, TablesMove(r)
    PROVE  /\ RowsTyped(db') /\ RowsTyped(draft') /\ Lasting'
           /\ \A u \in UserId : db[u] # Absent => db'[u] # Absent
<1>1. \A k \in Key : RowTyped(k, db[k]) /\ RowTyped(k, draft[k])
  BY RowsTypedIs DEF Typing
<1>2. SUFFICES ASSUME NEW k \in Key
               PROVE  /\ RowTyped(k, db'[k]) /\ RowTyped(k, draft'[k])
                      /\ k \in UserId =>
                            /\ db[k] # Absent => db'[k] # Absent
                            /\ db'[k] # Absent => draft'[k] # Absent
  BY <1>2, RowsTypedIs, AccountKeys DEF Lasting
<1>3. k \in UserId /\ db[k] # Absent => draft[k] # Absent
  BY DEF Typing, Lasting
<1>4. CASE UNCHANGED tables
  BY <1>1, <1>3, <1>4 DEF tables
<1>5. CASE RollbackTx(r)
  BY <1>1, <1>3, <1>5, RollbackRow
<1>6. CASE CommitTx(r)
  BY <1>1, <1>3, <1>6, CommitRow
<1>7. ASSUME NEW rows, Lawful(rows), Put(r, rows)
      PROVE  /\ RowTyped(k, db'[k]) /\ RowTyped(k, draft'[k])
             /\ k \in UserId => /\ db[k] # Absent => db'[k] # Absent
                                /\ db'[k] # Absent => draft'[k] # Absent
  BY <1>1, <1>3, <1>7, PutRow DEF Lawful
<1>8. ASSUME NEW rows, Lawful(rows), PutNow(rows)
      PROVE  /\ RowTyped(k, db'[k]) /\ RowTyped(k, draft'[k])
             /\ k \in UserId => /\ db[k] # Absent => db'[k] # Absent
                                /\ db'[k] # Absent => draft'[k] # Absent
  BY <1>1, <1>3, <1>8, PutNowRow DEF Lawful
<1>9. QED
  BY <1>4, <1>5, <1>6, <1>7, <1>8 DEF TablesMove

LEMMA OthersTakeNothing ==
    ASSUME NEW r \in Request, TablesMove(r), NEW q \in Request \ {r}, HoldsNothing(q)
    PROVE  HoldsNothing(q)'
<1>1. SUFFICES ASSUME NEW k \in Key
               PROVE  holder'[k] # q
  BY <1>1 DEF HoldsNothing
<1>2. holder[k] # q /\ q # NoRequest
  BY NoRequestIsNoRequest DEF HoldsNothing
<1>3. ASSUME NEW rows, Put(r, rows) \/ PutNow(rows)
      PROVE  holder'[k] # q
  BY <1>2, <1>3, PutRow, PutNowRow
<1>4. QED
  BY <1>2, <1>3, RollbackRow, CommitRow DEF TablesMove, tables

\* What a step of r's handler leaves of the types, but for what r knows.
Calm(r) ==
    /\ OthersWait(r) /\ TablesMove(r)
    /\ codes' \in Code /\ LinksOK' /\ world' = world
    /\ Signers(db', holderOf')
    /\ invalidated' \cup expired' \subseteq Token

LEMMA CalmKeepsTyping ==
    ASSUME IInv, Typing, NEW r \in Request, Calm(r), HandlerOK(r)'
    PROVE  Typing'
<1>1. ASSUME NEW q \in Request \ {r}
      PROVE  HandlerOK(q)'
  <2>1. HandlerOK(q) /\ req'[q] = req[q]
    BY DEF Typing, Calm, OthersWait
  <2>2. Signing(req[q]) => req[q].user \in UserId
    BY <2>1 DEF HandlerOK, LearntOK, Signing, HasUser, Looking
  <2>3. HoldsNothing(q) => HoldsNothing(q)'
    BY OthersTakeNothing DEF Calm
  <2>4. QED
    BY <2>1, <2>2, <2>3, TablesStayTyped DEF HandlerOK, Calm
<1>2. QED
  BY <1>1, TablesStayTyped DEF Typing, Calm

LEMMA SignersStay ==
    ASSUME IInv, Typing, NEW r \in Request, TablesMove(r), UNCHANGED holderOf
    PROVE  Signers(db', holderOf')
BY TablesStayTyped DEF Typing, Signers

\* r's handler goes on with its next statement.
GoesOn(r, got, user, invite) ==
    /\ OthersWait(r)
    /\ req'[r].op = req[r].op /\ req'[r].pc = req[r].pc + 1 /\ req'[r].arg = req[r].arg
    /\ req'[r].got = got /\ req'[r].user = user /\ req'[r].invite = invite
    /\ req'[r].seen = req[r].seen

LEMMA KnowsGoesOn ==
    ASSUME IInv, NEW r \in Request, NEW got
    PROVE  /\ req' = Knows(r, got) => GoesOn(r, got, req[r].user, req[r].invite)
           /\ \A u : req' = [Knows(r, got) EXCEPT ![r].user = u]
                        => GoesOn(r, got, u, req[r].invite)
           /\ \A i : req' = [Knows(r, got) EXCEPT ![r].invite = i]
                        => GoesOn(r, got, req[r].user, i)
<1>1. DOMAIN req = Request /\ DOMAIN req[r] = DOMAIN Idle
  BY DEF IInv, RequestsOK, RequestOK
<1>2. DOMAIN Idle = {"op", "pc", "arg", "seen", "got", "user", "invite", "access", "refresh", "late"}
  BY DEF Idle
<1>3. req' = Knows(r, got) => GoesOn(r, got, req[r].user, req[r].invite)
  BY <1>1, <1>2 DEF Knows, GoesOn, OthersWait
<1>4. ASSUME NEW u, req' = [Knows(r, got) EXCEPT ![r].user = u]
      PROVE  GoesOn(r, got, u, req[r].invite)
  BY <1>1, <1>2, <1>4 DEF Knows, GoesOn, OthersWait
<1>5. ASSUME NEW i, req' = [Knows(r, got) EXCEPT ![r].invite = i]
      PROVE  GoesOn(r, got, req[r].user, i)
  BY <1>1, <1>2, <1>5 DEF Knows, GoesOn, OthersWait
<1>6. QED
  BY <1>3, <1>4, <1>5

\* It keeps holding nothing, or it is one with a transaction.
LEMMA GoingOnTyped ==
    ASSUME IInv, Typing, NEW r \in Request, NEW got, NEW user, NEW invite,
           GoesOn(r, got, user, invite), Calm(r),
           req[r].op \in Untransacted => UNCHANGED holder,
           invite = req[r].invite \/ req[r].op \in {"createInviteByEmail", "createInvite"},
           LearntOK(req'[r]), Signing(req'[r]) => db'[user] # Absent
    PROVE  Typing'
<1>1. HandlerOK(r)
  BY DEF Typing
<1>2. ArgumentOK(req'[r])
  BY <1>1 DEF HandlerOK, ArgumentOK, GoesOn, Answering, Accepting
<1>3. HandlerOK(r)'
  BY <1>1, <1>2 DEF HandlerOK, GoesOn, HoldsNothing
<1>4. QED
  BY <1>3, CalmKeepsTyping

\* r's handler has ended.
LEMMA EndingTyped ==
    ASSUME IInv, Typing, NEW r \in Request, req'[r] = Idle, Calm(r), HoldsNothing(r)'
    PROVE  Typing'
<1>1. HandlerOK(r)'
  BY DEF HandlerOK, ArgumentOK, LearntOK, HasUser, HasRow, Signing, Idle, Named, Answering, Accepting,
     Looking
<1>2. QED
  BY <1>1, CalmKeepsTyping

LEMMA ReleasedHoldsNothing ==
    ASSUME NEW r \in Request, CommitTx(r) \/ RollbackTx(r)
    PROVE  HoldsNothing(r)'
BY NoRequestIsNoRequest, CommitRow, RollbackRow DEF HoldsNothing

LEMMA ThrowTyped ==
    ASSUME IInv, Typing, NEW r \in Request, Throw(r)
    PROVE  Typing'
<1>1. RollbackTx(r) /\ Stay /\ OthersWait(r) /\ req'[r] = Idle
  BY DEF Throw, OthersWait, IInv, RequestsOK
<1>2. Calm(r)
  BY <1>1, SignersStay DEF Calm, TablesMove, Stay, ghostVars, tokenVars, Typing, LinksOK
<1>3. QED
  BY <1>1, <1>2, EndingTyped, ReleasedHoldsNothing

\* A statement that only reads.
LEMMA CalmWhenQuiet ==
    ASSUME IInv, Typing, NEW r \in Request, OthersWait(r), Stay, TablesMove(r)
    PROVE  Calm(r)
BY SignersStay DEF Calm, Stay, ghostVars, tokenVars, Typing, LinksOK

LEMMA ReadTyped ==
    ASSUME IInv, Typing, NEW r \in Request, NEW statement, NEW ok, NEW got, Read(r, statement, ok, got),
           ~Signing(req[r]), req[r].op = "login" => req[r].pc > 1,
           ok => \A q : /\ q.op = req[r].op /\ q.pc = req[r].pc + 1 /\ q.arg = req[r].arg
                        /\ q.got = got /\ q.user = req[r].user /\ q.invite = req[r].invite
                        => LearntOK(q) /\ ~Signing(q)
    PROVE  Typing'
<1>1. CASE Throw(r)
  BY <1>1, ThrowTyped
<1>2. CASE ok /\ req' = Knows(r, got) /\ Stay /\ UNCHANGED tables
  <2>1. GoesOn(r, got, req[r].user, req[r].invite)
    BY <1>2, KnowsGoesOn
  <2>2. Calm(r)
    BY <1>2, <2>1, CalmWhenQuiet DEF GoesOn, TablesMove
  <2>3. LearntOK(req'[r]) /\ ~Signing(req'[r])
    BY <1>2, <2>1 DEF GoesOn
  <2>4. QED
    BY <1>2, <2>1, <2>2, <2>3, GoingOnTyped DEF tables
<1>3. QED
  BY <1>1, <1>2 DEF Read

LEMMA SeenRowsTyped ==
    ASSUME Typing, NEW r \in Request
    PROVE  /\ \A u \in UserId : Exists(Visible(r)[u]) => Visible(r)[u] \in UserRow
           /\ \A i \in InviteId : Exists(Visible(r)[i]) => Visible(r)[i] \in InviteRow
<1>1. \A k \in Key : RowTyped(k, db[k]) /\ RowTyped(k, draft[k])
  BY RowsTypedIs DEF Typing
<1>2. QED
  BY <1>1, ReadsRow, AccountKeys DEF RowTyped

LEMMA ReadingTyped ==
    ASSUME IInv, Typing, NEW r \in Request,
           \/ checkEmailFree(r) \/ readUser(r) \/ readUnconfirmed(r) \/ checkConfirmCode(r)
           \/ checkResetCode(r) \/ checkNoGhost(r) \/ findInvitee(r) \/ readGhost(r)
           \/ readInvite(r) \/ validateCreateInvite(r) \/ verifyRefreshToken(r) \/ AuthGuard(r)
           \/ validateAnswer(r)
    PROVE  Typing'
<1> USE DEF LearntOK, HasUser, HasRow, Signing, Named, Answering, Accepting, Looking
<1>0. HandlerOK(r)
  BY DEF Typing
<1>1. CASE checkEmailFree(r)
  <2>1. req[r].op = "createUser" /\ req[r].pc = 1
    BY <1>1, PlacesAre DEF checkEmailFree, Read
  <2>2. QED
    BY <1>1, <2>1, ReadTyped DEF checkEmailFree
<1>2. CASE readUser(r)
  <2>1. req[r].op = "updateUser" /\ req[r].pc = 1
    BY <1>2, PlacesAre DEF readUser, Read
  <2>2. QED
    BY <1>0, <1>2, <2>1, ReadTyped DEF readUser, HandlerOK
<1>3. CASE readUnconfirmed(r)
  <2>1. req[r].op = "resendConfirmEmail" /\ req[r].pc = 1
    BY <1>3, PlacesAre DEF readUnconfirmed, Read
  <2>2. Exists(Now(r)) => Now(r) \in UserRow
    BY <1>0, <2>1, SeenRowsTyped DEF Now, HandlerOK
  <2>3. QED
    BY <1>0, <1>3, <2>1, <2>2, ReadTyped DEF readUnconfirmed, HandlerOK
<1>4. CASE checkConfirmCode(r)
  <2>1. req[r].op = "confirmEmail" /\ req[r].pc = 1
    BY <1>4, PlacesAre DEF checkConfirmCode, Read
  <2>2. QED
    BY <1>0, <1>4, <2>1, ReadTyped DEF checkConfirmCode, HandlerOK
<1>5. CASE checkResetCode(r)
  <2>1. req[r].op = "resetPassword" /\ req[r].pc = 1
    BY <1>5, PlacesAre DEF checkResetCode, Read
  <2>2. QED
    BY <1>0, <1>5, <2>1, ReadTyped DEF checkResetCode, HandlerOK
<1>6. CASE checkNoGhost(r)
  <2>1. req[r].op = "createInviteByEmail" /\ req[r].pc = 1
    BY <1>6, PlacesAre DEF checkNoGhost, Read
  <2>2. QED
    BY <1>0, <1>6, <2>1, ReadTyped DEF checkNoGhost, HandlerOK
<1>7. CASE findInvitee(r)
  <2>1. req[r].op = "createInviteByEmail" /\ req[r].pc = 2
    BY <1>7, PlacesAre DEF findInvitee, Read
  <2>2. QED
    <3> DEFINE ok == \A v \in WithEmail(r, req[r].arg) :
                        NoBlockBetween(req[r].user, v) /\ NoContact(r, req[r].user, v)
    <3>1. Read(r, "findInvitee", ok, Null)
      BY <1>7 DEF findInvitee
    <3> HIDE DEF ok
    <3>2. QED
      BY <1>0, <2>1, <3>1, ReadTyped DEF HandlerOK
<1>8. CASE readGhost(r)
  <2>1. req[r].op \in {"acceptEmailInvite", "rejectEmailInvite"} /\ req[r].pc = 1
    BY <1>8, PlacesAre DEF readGhost, Read
  <2>2. QED
    BY <1>0, <1>8, <2>1, ReadTyped DEF readGhost, HandlerOK
<1>9. CASE readInvite(r)
  <2>1. req[r].op \in {"acceptEmailInvite", "rejectEmailInvite"} /\ req[r].pc = 2
    BY <1>9, PlacesAre DEF readInvite, Read
  <2>2. Exists(InviteNow(r)) => InviteNow(r) \in InviteRow
    BY <1>0, <2>1, SeenRowsTyped DEF InviteNow, HandlerOK, ArgumentOK
  <2>3. QED
    BY <1>0, <1>9, <2>1, <2>2, ReadTyped DEF readInvite, HandlerOK
<1>10. CASE validateCreateInvite(r)
  <2>1. req[r].op \in {"acceptByRealUser", "createInvite"} /\ req[r].pc = 1
    BY <1>10, PlacesAre DEF validateCreateInvite, Read
  <2>2. PICK ok : Read(r, "validateCreateInvite", ok, req[r].got)
    BY <1>10 DEF validateCreateInvite
  <2>3. QED
    BY <1>0, <2>1, <2>2, ReadTyped DEF HandlerOK
<1>11. CASE verifyRefreshToken(r)
  <2>1. \/ req[r].op = "refreshToken" /\ req[r].pc = 1
        \/ req[r].op = "logout" /\ req[r].pc = 2
    BY <1>11, PlacesAre DEF verifyRefreshToken, Read
  <2>2. QED
    BY <1>0, <1>11, <2>1, ReadTyped DEF verifyRefreshToken, HandlerOK
<1>12. CASE AuthGuard(r)
  <2>1. req[r].op \in {"logout", "query"} /\ req[r].pc = 1
    BY <1>12, PlacesAre DEF AuthGuard, Read
  <2>2. QED
    BY <1>0, <1>12, <2>1, ReadTyped DEF AuthGuard, HandlerOK
<1>13. CASE validateAnswer(r)
  <2>1. req[r].op \in {"acceptInvite", "rejectInvite"} /\ req[r].pc = 1
    BY <1>13, PlacesAre DEF validateAnswer, Read
  <2>2. PICK ok : Read(r, "validateAnswer", ok, Null)
    BY <1>13 DEF validateAnswer
  <2>3. QED
    BY <1>0, <2>1, <2>2, ReadTyped DEF HandlerOK
<1>14. QED
  BY <1>1, <1>2, <1>3, <1>4, <1>5, <1>6, <1>7, <1>8, <1>9, <1>10, <1>11, <1>12, <1>13

-------------------------------------------------------------------------------
(* Types: the writes.                                                        *)

\* An UPDATE of a user's row, inside a transaction or not.
Updates(r, u, row) ==
    /\ Exists(Visible(r)[u])
    /\ \E rows : /\ DOMAIN rows = {u} /\ rows[u] = row
                 /\ WaitsFor(r, rows) = {} /\ Legal(r, rows) /\ Put(r, rows)

UpdatesNow(r, u, row) ==
    /\ Exists(Visible(r)[u])
    /\ \E rows : /\ DOMAIN rows = {u} /\ rows[u] = row
                 /\ WaitsFor(r, rows) = {} /\ PutNow(rows)

LEMMA UpdatesTyped ==
    ASSUME Typing, NEW r \in Request, NEW u \in UserId, NEW row \in UserRow,
           Updates(r, u, row) \/ UpdatesNow(r, u, row)
    PROVE  TablesMove(r)
<1>1. row # Absent /\ u \notin InviteId /\ u \notin ContactKey
  BY MissingRowsAreNoRows, AccountKeys
<1>2. ASSUME NEW rows, DOMAIN rows = {u}, rows[u] = row
      PROVE  Lawful(rows)
  BY <1>1, <1>2 DEF Lawful, RowTyped
<1>3. QED
  BY <1>2 DEF Updates, UpdatesNow, TablesMove

\* What each update of a user does unless it throws.
LEMMA SetUserDoes ==
    ASSUME NEW r \in Request, setUser(r), ~Throw(r)
    PROVE  LET row == [Now(r) EXCEPT !.email = Lower[req[r].arg.email], !.password = req[r].arg.password]
           IN /\ Updates(r, req[r].user, row) /\ Stay
              /\ req' = IF req[r].got.email = req[r].arg.email THEN Knows(r, row)
                       ELSE [Knows(r, row) EXCEPT ![r].op = "changeEmail", ![r].pc = 1]
<1> DEFINE row == [Now(r) EXCEPT !.email = Lower[req[r].arg.email], !.password = req[r].arg.password]
           rows == SetRow(r, req[r].user, row)
<1>1. /\ DOMAIN rows # {} /\ WaitsFor(r, rows) = {} /\ Legal(r, rows) /\ Put(r, rows)
      /\ Stay /\ req' = IF req[r].got.email = req[r].arg.email THEN Knows(r, rows[req[r].user])
                       ELSE [Knows(r, rows[req[r].user]) EXCEPT ![r].op = "changeEmail", ![r].pc = 1]
  BY DEF setUser, Execute, Set
<1>2. DOMAIN rows # {} => /\ Exists(Visible(r)[req[r].user])
                          /\ DOMAIN rows = {req[r].user} /\ rows[req[r].user] = row
  BY DEF SetRow
<1> HIDE DEF rows
<1>3. QED
  BY <1>1, <1>2 DEF Updates

LEMMA SetConfirmCodeDoes ==
    ASSUME NEW r \in Request, setConfirmCode(r), ~Throw(r)
    PROVE  LET row == [Now(r) EXCEPT !.confirmCode = NewConfirmCode]
           IN /\ Updates(r, req[r].user, row) /\ NewCodes(1)
              /\ req' = ConfirmCodeSet(r)
<1> DEFINE row == [Now(r) EXCEPT !.confirmCode = NewConfirmCode]
           rows == SetRow(r, req[r].user, row)
<1>1. /\ DOMAIN rows # {} /\ WaitsFor(r, rows) = {} /\ Legal(r, rows) /\ Put(r, rows)
      /\ NewCodes(1) /\ req' = ConfirmCodeSet(r)
  BY DEF setConfirmCode, Execute, Set
<1>2. DOMAIN rows # {} => /\ Exists(Visible(r)[req[r].user])
                          /\ DOMAIN rows = {req[r].user} /\ rows[req[r].user] = row
  BY DEF SetRow
<1> HIDE DEF rows
<1>3. QED
  BY <1>1, <1>2 DEF Updates

LEMMA SetBannedDoes ==
    ASSUME NEW r \in Request, setBanned(r), ~Throw(r)
    PROVE  LET row == [Now(r) EXCEPT !.banned = req[r].arg]
           IN /\ Updates(r, req[r].user, row) /\ Stay
              /\ req' = Goes(r)
<1> DEFINE row == [Now(r) EXCEPT !.banned = req[r].arg]
           rows == SetRow(r, req[r].user, row)
<1>1. /\ DOMAIN rows # {} /\ WaitsFor(r, rows) = {} /\ Legal(r, rows) /\ Put(r, rows)
      /\ Stay /\ req' = Goes(r)
  BY DEF setBanned, Execute, Set
<1>2. DOMAIN rows # {} => /\ Exists(Visible(r)[req[r].user])
                          /\ DOMAIN rows = {req[r].user} /\ rows[req[r].user] = row
  BY DEF SetRow
<1> HIDE DEF rows
<1>3. QED
  BY <1>1, <1>2 DEF Updates

LEMMA BecomeUserDoes ==
    ASSUME NEW r \in Request, becomeUser(r), ~Throw(r)
    PROVE  LET row == [Now(r) EXCEPT !.confirmCode = Null, !.email = req[r].arg.to]
           IN /\ Updates(r, req[r].user, row) /\ Stay
              /\ req' = Goes(r)
<1> DEFINE row == [Now(r) EXCEPT !.confirmCode = Null, !.email = req[r].arg.to]
           rows == SetRow(r, req[r].user, row)
<1>1. /\ DOMAIN rows # {} /\ WaitsFor(r, rows) = {} /\ Legal(r, rows) /\ Put(r, rows)
      /\ Stay /\ req' = Goes(r)
  BY DEF becomeUser, Execute, Set
<1>2. DOMAIN rows # {} => /\ Exists(Visible(r)[req[r].user])
                          /\ DOMAIN rows = {req[r].user} /\ rows[req[r].user] = row
  BY DEF SetRow
<1> HIDE DEF rows
<1>3. QED
  BY <1>1, <1>2 DEF Updates

LEMMA RenewConfirmCodeDoes ==
    ASSUME NEW r \in Request, renewConfirmCode(r), ~Throw(r)
    PROVE  LET row == [Now(r) EXCEPT !.confirmCode = NewConfirmCode]
           IN /\ UpdatesNow(r, req[r].user, row) /\ NewCodes(1)
              /\ req' = ConfirmCodeSet(r)
<1> DEFINE row == [Now(r) EXCEPT !.confirmCode = NewConfirmCode]
           rows == SetRow(r, req[r].user, row)
<1>1. /\ DOMAIN rows # {} /\ WaitsFor(r, rows) = {} /\ PutNow(rows)
      /\ NewCodes(1) /\ req' = ConfirmCodeSet(r)
  BY DEF renewConfirmCode, ExecuteNow, PutNow, Set
<1>2. DOMAIN rows # {} => /\ Exists(Visible(r)[req[r].user])
                          /\ DOMAIN rows = {req[r].user} /\ rows[req[r].user] = row
  BY DEF SetRow
<1> HIDE DEF rows
<1>3. QED
  BY <1>1, <1>2 DEF UpdatesNow

LEMMA ClearConfirmCodeDoes ==
    ASSUME NEW r \in Request, clearConfirmCode(r), ~Throw(r)
    PROVE  LET row == [Now(r) EXCEPT !.confirmCode = Null]
           IN /\ UpdatesNow(r, req[r].user, row) /\ Take(<<"confirm", req[r].arg>>)
              /\ req' = Finished(r)
<1> DEFINE row == [Now(r) EXCEPT !.confirmCode = Null]
           rows == SetRow(r, req[r].user, row)
<1>1. /\ DOMAIN rows # {} /\ WaitsFor(r, rows) = {} /\ PutNow(rows)
      /\ Take(<<"confirm", req[r].arg>>) /\ req' = Finished(r)
  BY DEF clearConfirmCode, ExecuteNow, PutNow, Set
<1>2. DOMAIN rows # {} => /\ Exists(Visible(r)[req[r].user])
                          /\ DOMAIN rows = {req[r].user} /\ rows[req[r].user] = row
  BY DEF SetRow
<1> HIDE DEF rows
<1>3. QED
  BY <1>1, <1>2 DEF UpdatesNow

LEMMA RenewResetCodeDoes ==
    ASSUME NEW r \in Request, renewResetCode(r), ~Throw(r)
    PROVE  LET row == [Now(r) EXCEPT !.resetCode = codes + 1]
           IN /\ UpdatesNow(r, req[r].user, row) /\ NewCodes(1)
              /\ req' = Knows(r, row)
<1> DEFINE row == [Now(r) EXCEPT !.resetCode = codes + 1]
           rows == SetRow(r, req[r].user, row)
<1>1. /\ DOMAIN rows # {} /\ WaitsFor(r, rows) = {} /\ PutNow(rows)
      /\ NewCodes(1) /\ req' = Knows(r, rows[req[r].user])
  BY DEF renewResetCode, ExecuteNow, PutNow, Set
<1>2. DOMAIN rows # {} => /\ Exists(Visible(r)[req[r].user])
                          /\ DOMAIN rows = {req[r].user} /\ rows[req[r].user] = row
  BY DEF SetRow
<1> HIDE DEF rows
<1>3. QED
  BY <1>1, <1>2 DEF UpdatesNow

LEMMA SetPasswordDoes ==
    ASSUME NEW r \in Request, setPassword(r), ~Throw(r)
    PROVE  LET row == [Now(r) EXCEPT !.password = req[r].arg.password, !.resetCode = Null]
           IN /\ UpdatesNow(r, req[r].user, row) /\ Take(<<"reset", req[r].arg.code>>)
              /\ req' = Finished(r)
<1> DEFINE row == [Now(r) EXCEPT !.password = req[r].arg.password, !.resetCode = Null]
           rows == SetRow(r, req[r].user, row)
<1>1. /\ DOMAIN rows # {} /\ WaitsFor(r, rows) = {} /\ PutNow(rows)
      /\ Take(<<"reset", req[r].arg.code>>) /\ req' = Finished(r)
  BY DEF setPassword, ExecuteNow, PutNow, Set
<1>2. DOMAIN rows # {} => /\ Exists(Visible(r)[req[r].user])
                          /\ DOMAIN rows = {req[r].user} /\ rows[req[r].user] = row
  BY DEF SetRow
<1> HIDE DEF rows
<1>3. QED
  BY <1>1, <1>2 DEF UpdatesNow

LEMMA ConfirmCodeGoesOn ==
    ASSUME IInv, NEW r \in Request, req' = ConfirmCodeSet(r)
    PROVE  GoesOn(r, [req[r].got EXCEPT !.confirmCode = NewConfirmCode], req[r].user, req[r].invite)
<1>1. DOMAIN req = Request /\ DOMAIN req[r] = DOMAIN Idle
  BY DEF IInv, RequestsOK, RequestOK
<1>2. DOMAIN Idle = {"op", "pc", "arg", "seen", "got", "user", "invite", "access", "refresh", "late"}
  BY DEF Idle
<1>4. QED
  BY <1>1, <1>2 DEF ConfirmCodeSet, Goes, Knows, GoesOn, OthersWait

LEMMA CalmWithCodes ==
    ASSUME IInv, Typing, NEW r \in Request, OthersWait(r), TablesMove(r), codes + 1 \in Code,
           NewCodes(1)
    PROVE  Calm(r)
BY SignersStay DEF Calm, NewCodes, ghostVars, tokenVars, Typing, LinksOK

\* The last statement of a handler without a transaction takes a one-time thing.
LEMMA TakingTyped ==
    ASSUME IInv, Typing, NEW r \in Request, NEW u \in UserId, NEW row \in UserRow, NEW thing,
           UpdatesNow(r, u, row), req' = Finished(r), Take(thing), HoldsNothing(r)
    PROVE  Typing'
<1>1. OthersWait(r) /\ req'[r] = Idle
  BY DEF Finished, OthersWait, IInv, RequestsOK
<1>2. TablesMove(r) /\ HoldsNothing(r)'
  BY UpdatesTyped DEF UpdatesNow, PutNow, HoldsNothing
<1>3. Calm(r)
  BY <1>1, <1>2, SignersStay DEF Calm, Take, tokenVars, Typing, LinksOK
<1>4. QED
  BY <1>1, <1>2, <1>3, EndingTyped

\* Statements that update the row of a user.
LEMMA UpdatingUsersTyped ==
    ASSUME IInv, Typing, NEW r \in Request,
           \/ setUser(r) \/ setConfirmCode(r) \/ setBanned(r) \/ becomeUser(r)
           \/ renewConfirmCode(r) \/ clearConfirmCode(r) \/ renewResetCode(r) \/ setPassword(r)
    PROVE  Typing'
<1> USE DEF LearntOK, HasUser, HasRow, Signing, Named, Answering, Accepting, Looking
<1>0. SUFFICES ASSUME ~Throw(r)
               PROVE  Typing'
  BY ThrowTyped
<1>1. HandlerOK(r) /\ codes \in Nat /\ codes + 1 \in Code
  BY DEF Typing, Code
<1>2. \A u \in UserId : Exists(Visible(r)[u]) => Visible(r)[u] \in UserRow
  BY SeenRowsTyped
<1>3. NewConfirmCode \in Code \cup {Null}
  BY <1>1 DEF NewConfirmCode
<1>4. CASE setBanned(r)
  <2> DEFINE row == [Now(r) EXCEPT !.banned = req[r].arg]
  <2>1. req[r].op \in {"banUser", "unbanUser"} /\ req[r].pc = 1
    BY <1>4, PlacesAre DEF setBanned, Execute
  <2>2. req[r].user \in UserId /\ req[r].arg \in BOOLEAN
    BY <1>1, <2>1 DEF HandlerOK, ArgumentOK
  <2>3. Updates(r, req[r].user, row) /\ req' = Goes(r) /\ Stay
    BY <1>0, <1>4, SetBannedDoes
  <2>4. row \in UserRow
    BY <1>2, <2>2, <2>3 DEF Updates, Now, UserRow
  <2> HIDE DEF row
  <2>5. TablesMove(r)
    BY <2>2, <2>3, <2>4, UpdatesTyped
  <2>6. GoesOn(r, req[r].got, req[r].user, req[r].invite)
    BY <2>3, KnowsGoesOn DEF Goes
  <2>7. Calm(r)
    BY <2>3, <2>5, <2>6, CalmWhenQuiet DEF GoesOn
  <2>8. QED
    BY <2>1, <2>2, <2>6, <2>7, GoingOnTyped DEF GoesOn, Untransacted
<1>5. CASE becomeUser(r)
  <2> DEFINE row == [Now(r) EXCEPT !.confirmCode = Null, !.email = req[r].arg.to]
  <2>1. req[r].op = "acceptByGhost" /\ req[r].pc = 1
    BY <1>5, PlacesAre DEF becomeUser, Execute
  <2>2. req[r].user \in UserId /\ req[r].arg.to \in Address
    BY <1>1, <2>1 DEF HandlerOK, ArgumentOK
  <2>3. Updates(r, req[r].user, row) /\ req' = Goes(r) /\ Stay
    BY <1>0, <1>5, BecomeUserDoes
  <2>4. row \in UserRow
    BY <1>2, <2>2, <2>3 DEF Updates, Now, UserRow
  <2> HIDE DEF row
  <2>5. TablesMove(r)
    BY <2>2, <2>3, <2>4, UpdatesTyped
  <2>6. GoesOn(r, req[r].got, req[r].user, req[r].invite)
    BY <2>3, KnowsGoesOn DEF Goes
  <2>7. Calm(r)
    BY <2>3, <2>5, <2>6, CalmWhenQuiet DEF GoesOn
  <2>8. QED
    BY <1>1, <2>1, <2>2, <2>6, <2>7, GoingOnTyped DEF GoesOn, Untransacted, HandlerOK
<1>6. CASE setConfirmCode(r)
  <2> DEFINE row == [Now(r) EXCEPT !.confirmCode = NewConfirmCode]
             got == [req[r].got EXCEPT !.confirmCode = NewConfirmCode]
  <2>1. \/ req[r].op = "createUser" /\ req[r].pc = 3
        \/ req[r].op = "changeEmail" /\ req[r].pc = 1
    BY <1>6, PlacesAre DEF setConfirmCode, Execute
  <2>2. req[r].user \in UserId /\ req[r].got \in UserRow
    BY <1>1, <2>1 DEF HandlerOK
  <2>3. Updates(r, req[r].user, row) /\ req' = ConfirmCodeSet(r) /\ NewCodes(1)
    BY <1>0, <1>6, SetConfirmCodeDoes
  <2>4. row \in UserRow /\ got \in UserRow
    BY <1>2, <1>3, <2>2, <2>3 DEF Updates, Now, UserRow
  <2>5. GoesOn(r, got, req[r].user, req[r].invite)
    BY <2>3, ConfirmCodeGoesOn
  <2> HIDE DEF row, got
  <2>6. TablesMove(r)
    BY <2>2, <2>3, <2>4, UpdatesTyped
  <2>7. Calm(r)
    BY <1>1, <2>3, <2>5, <2>6, CalmWithCodes DEF GoesOn
  <2>8. QED
    BY <2>1, <2>2, <2>4, <2>5, <2>7, GoingOnTyped DEF GoesOn, Untransacted
<1>7. CASE renewConfirmCode(r)
  <2> DEFINE row == [Now(r) EXCEPT !.confirmCode = NewConfirmCode]
             got == [req[r].got EXCEPT !.confirmCode = NewConfirmCode]
  <2>1. req[r].op = "resendConfirmEmail" /\ req[r].pc = 2
    BY <1>7, PlacesAre DEF renewConfirmCode, ExecuteNow
  <2>2. req[r].user \in UserId /\ req[r].got \in UserRow
    BY <1>1, <2>1 DEF HandlerOK
  <2>3. UpdatesNow(r, req[r].user, row) /\ req' = ConfirmCodeSet(r) /\ NewCodes(1)
    BY <1>0, <1>7, RenewConfirmCodeDoes
  <2>4. row \in UserRow /\ got \in UserRow
    BY <1>2, <1>3, <2>2, <2>3 DEF UpdatesNow, Now, UserRow
  <2>5. GoesOn(r, got, req[r].user, req[r].invite)
    BY <2>3, ConfirmCodeGoesOn
  <2> HIDE DEF row, got
  <2>6. TablesMove(r) /\ UNCHANGED holder
    BY <2>2, <2>3, <2>4, UpdatesTyped DEF UpdatesNow, PutNow
  <2>7. Calm(r)
    BY <1>1, <2>3, <2>5, <2>6, CalmWithCodes DEF GoesOn
  <2>8. QED
    BY <2>1, <2>2, <2>4, <2>5, <2>6, <2>7, GoingOnTyped DEF GoesOn
<1>8. CASE renewResetCode(r)
  <2> DEFINE row == [Now(r) EXCEPT !.resetCode = codes + 1]
  <2>1. req[r].op = "forgotPassword" /\ req[r].pc = 2
    BY <1>8, PlacesAre DEF renewResetCode, ExecuteNow
  <2>2. req[r].user \in UserId
    BY <1>1, <2>1 DEF HandlerOK
  <2>3. UpdatesNow(r, req[r].user, row) /\ req' = Knows(r, row) /\ NewCodes(1)
    BY <1>0, <1>8, RenewResetCodeDoes
  <2>4. row \in UserRow
    BY <1>1, <1>2, <2>2, <2>3 DEF UpdatesNow, Now, UserRow
  <2>5. GoesOn(r, row, req[r].user, req[r].invite)
    BY <2>3, KnowsGoesOn
  <2> HIDE DEF row
  <2>6. TablesMove(r) /\ UNCHANGED holder
    BY <2>2, <2>3, <2>4, UpdatesTyped DEF UpdatesNow, PutNow
  <2>7. Calm(r)
    BY <1>1, <2>3, <2>5, <2>6, CalmWithCodes DEF GoesOn
  <2>8. QED
    BY <2>1, <2>2, <2>4, <2>5, <2>6, <2>7, GoingOnTyped DEF GoesOn
<1>9. CASE clearConfirmCode(r)
  <2> DEFINE row == [Now(r) EXCEPT !.confirmCode = Null]
  <2>1. req[r].op = "confirmEmail"
    BY <1>9, PlacesAre DEF clearConfirmCode, ExecuteNow
  <2>2. req[r].user \in UserId
    BY <1>1, <2>1 DEF HandlerOK
  <2>3. /\ UpdatesNow(r, req[r].user, row) /\ req' = Finished(r)
        /\ Take(<<"confirm", req[r].arg>>)
    BY <1>0, <1>9, ClearConfirmCodeDoes
  <2>4. row \in UserRow
    BY <1>2, <2>2, <2>3 DEF UpdatesNow, Now, UserRow
  <2> HIDE DEF row
  <2>5. QED
    BY <1>1, <2>1, <2>2, <2>3, <2>4, TakingTyped DEF Untransacted, HandlerOK
<1>10. CASE setPassword(r)
  <2> DEFINE row == [Now(r) EXCEPT !.password = req[r].arg.password, !.resetCode = Null]
  <2>1. req[r].op = "resetPassword"
    BY <1>10, PlacesAre DEF setPassword, ExecuteNow
  <2>2. req[r].user \in UserId /\ req[r].arg.password \in Password
    BY <1>1, <2>1 DEF HandlerOK, ArgumentOK
  <2>3. /\ UpdatesNow(r, req[r].user, row) /\ req' = Finished(r)
        /\ Take(<<"reset", req[r].arg.code>>)
    BY <1>0, <1>10, SetPasswordDoes
  <2>4. row \in UserRow
    BY <1>2, <2>2, <2>3 DEF UpdatesNow, Now, UserRow
  <2> HIDE DEF row
  <2>5. QED
    BY <1>1, <2>1, <2>2, <2>3, <2>4, TakingTyped DEF Untransacted, HandlerOK
<1>11. CASE setUser(r)
  <2> DEFINE row == [Now(r) EXCEPT !.email = Lower[req[r].arg.email], !.password = req[r].arg.password]
  <2>1. req[r].op = "updateUser" /\ req[r].pc = 2
    BY <1>11, PlacesAre DEF setUser, Execute
  <2>2. /\ req[r].user \in UserId
        /\ Lower[req[r].arg.email] \in Address /\ req[r].arg.password \in Password
    BY <1>1, <2>1, Addresses DEF HandlerOK, ArgumentOK
  <2>3. /\ Updates(r, req[r].user, row) /\ Stay
        /\ req' = IF req[r].got.email = req[r].arg.email THEN Knows(r, row)
                  ELSE [Knows(r, row) EXCEPT ![r].op = "changeEmail", ![r].pc = 1]
    BY <1>0, <1>11, SetUserDoes
  <2>4. row \in UserRow
    BY <1>2, <2>2, <2>3 DEF Updates, Now, UserRow
  <2> HIDE DEF row
  <2>5. TablesMove(r)
    BY <2>2, <2>3, <2>4, UpdatesTyped
  <2>6. CASE req' = Knows(r, row)
    <3>1. GoesOn(r, row, req[r].user, req[r].invite)
      BY <2>6, KnowsGoesOn
    <3>2. Calm(r)
      BY <2>3, <2>5, <3>1, CalmWhenQuiet DEF GoesOn
    <3>3. QED
      BY <2>1, <2>2, <3>1, <3>2, GoingOnTyped DEF GoesOn, Untransacted
  <2>7. CASE req' = [Knows(r, row) EXCEPT ![r].op = "changeEmail", ![r].pc = 1]
    <3>1. /\ OthersWait(r)
          /\ req'[r].op = "changeEmail" /\ req'[r].got = row /\ req'[r].user = req[r].user
      <4>1. DOMAIN req = Request /\ DOMAIN req[r] = DOMAIN Idle
        BY DEF IInv, RequestsOK, RequestOK
      <4>2. DOMAIN Idle = {"op", "pc", "arg", "seen", "got", "user", "invite", "access", "refresh", "late"}
        BY DEF Idle
      <4>3. QED
        BY <2>7, <4>1, <4>2 DEF Knows, OthersWait
    <3>2. Calm(r)
      BY <2>3, <2>5, <3>1, CalmWhenQuiet
    <3>3. HandlerOK(r)'
      BY <2>2, <2>4, <3>1 DEF HandlerOK, ArgumentOK, Untransacted
    <3>4. QED
      BY <3>2, <3>3, CalmKeepsTyping
  <2>8. QED
    BY <2>3, <2>6, <2>7
<1>12. QED
  BY <1>4, <1>5, <1>6, <1>7, <1>8, <1>9, <1>10, <1>11

\* A new row under a key never used, or a new version of a row: one row is written.
LEMMA OneRowTyped ==
    ASSUME NEW r \in Request, NEW k, NEW row, NEW rows, DOMAIN rows = {k}, rows[k] = row,
           Put(r, rows), RowTyped(k, row), k \in UserId => row # Absent
    PROVE  TablesMove(r)
BY DEF TablesMove, Lawful

LEMMA FreshIds ==
    ASSUME NEW Ids, Unused(Ids) # {}
    PROVE  NextId(Ids) \in Unused(Ids) /\ NextId(Ids) \in Ids
<1>1. \E k \in Ids : Unused(Ids) # {} => k \in Unused(Ids)
  BY DEF Unused
<1>2. QED
  BY <1>1 DEF NextId

\* What the inserts do unless they throw.
LEMMA InsertUserDoes ==
    ASSUME NEW r \in Request, insertUser(r), ~Throw(r)
    PROVE  LET u == NextId(UserId)
               row == [email |-> Lower[req[r].arg.email], password |-> req[r].arg.password,
                       confirmCode |-> Null, resetCode |-> Null, banned |-> FALSE]
           IN /\ Unused(UserId) # {} /\ Legal(r, One(u, row)) /\ WaitsFor(r, One(u, row)) = {}
              /\ Put(r, One(u, row))
              /\ req' = [Knows(r, row) EXCEPT ![r].user = u] /\ Stay
BY DEF insertUser, InsertUser, Execute

LEMMA InsertGhostDoes ==
    ASSUME NEW r \in Request, insertGhost(r), ~Throw(r)
    PROVE  LET g == NextId(UserId)
               row == [email |-> <<req[r].user, req[r].arg>>, password |-> Random,
                       confirmCode |-> codes + 1, resetCode |-> codes + 2, banned |-> FALSE]
           IN /\ Unused(UserId) # {} /\ Legal(r, One(g, row)) /\ WaitsFor(r, One(g, row)) = {}
              /\ Put(r, One(g, row))
              /\ req' = Knows(r, [inviter |-> req[r].user, invitee |-> g, row |-> row]) /\ NewCodes(2)
BY DEF insertGhost, Execute

LEMMA InsertInviteDoes ==
    ASSUME NEW r \in Request, insertInvite(r), ~Throw(r)
    PROVE  LET i == NextId(InviteId)
               row == [inviter |-> req[r].got.inviter, invitee |-> req[r].got.invitee, status |-> "PENDING"]
           IN /\ Unused(InviteId) # {} /\ Legal(r, One(i, row)) /\ WaitsFor(r, One(i, row)) = {}
              /\ Put(r, One(i, row))
              /\ req' = [Goes(r) EXCEPT ![r].invite = i] /\ Stay
BY DEF insertInvite, Execute

\* An UPDATE of an invite.
LEMMA SetInviteDoes ==
    ASSUME NEW r \in Request, NEW statement, NEW row, SetInvite(r, statement, row), ~Throw(r)
    PROVE  /\ Exists(InviteNow(r))
           /\ \E rows : /\ DOMAIN rows = {req[r].invite} /\ rows[req[r].invite] = row
                        /\ WaitsFor(r, rows) = {} /\ Legal(r, rows) /\ Put(r, rows)
           /\ req' = Goes(r) /\ Stay
<1> DEFINE rows == SetRow(r, req[r].invite, row)
<1>1. /\ DOMAIN rows # {} /\ WaitsFor(r, rows) = {} /\ Legal(r, rows) /\ Put(r, rows)
      /\ req' = Goes(r) /\ Stay
  BY DEF SetInvite, Execute
<1>2. DOMAIN rows # {} => /\ Exists(Visible(r)[req[r].invite])
                          /\ DOMAIN rows = {req[r].invite} /\ rows[req[r].invite] = row
  BY DEF SetRow
<1> HIDE DEF rows
<1>3. QED
  BY <1>1, <1>2 DEF InviteNow

LEMMA AnswerInviteDoes ==
    ASSUME NEW r \in Request, answerInvite(r), ~Throw(r)
    PROVE  LET answer == IF req[r].op = "acceptInvite" THEN "ACCEPTED" ELSE "REJECTED"
               row == [InviteNow(r) EXCEPT !.status = answer]
           IN /\ Exists(InviteNow(r))
              /\ \E rows : /\ DOMAIN rows = {req[r].invite} /\ rows[req[r].invite] = row
                           /\ WaitsFor(r, rows) = {} /\ Legal(r, rows) /\ Put(r, rows)
              /\ req' = Knows(r, row) /\ Stay
<1> DEFINE answer == IF req[r].op = "acceptInvite" THEN "ACCEPTED" ELSE "REJECTED"
           row == [InviteNow(r) EXCEPT !.status = answer]
           rows == SetRow(r, req[r].invite, row)
<1>1. /\ DOMAIN rows # {} /\ WaitsFor(r, rows) = {} /\ Legal(r, rows) /\ Put(r, rows)
      /\ req' = Knows(r, rows[req[r].invite]) /\ Stay
  BY DEF answerInvite, Execute
<1>2. DOMAIN rows # {} => /\ Exists(Visible(r)[req[r].invite])
                          /\ DOMAIN rows = {req[r].invite} /\ rows[req[r].invite] = row
  BY DEF SetRow
<1> HIDE DEF rows, row
<1>3. /\ Exists(InviteNow(r)) /\ req' = Knows(r, row) /\ Stay
      /\ \E sets : /\ DOMAIN sets = {req[r].invite} /\ sets[req[r].invite] = row
                   /\ WaitsFor(r, sets) = {} /\ Legal(r, sets) /\ Put(r, sets)
  BY <1>1, <1>2 DEF InviteNow
<1>4. QED
  BY <1>3 DEF row

ContactsBetween(a, b, invite) == [k \in {<<a, b>>, <<b, a>>} |-> [invite |-> invite]]

LEMMA InsertContactsDoes ==
    ASSUME NEW r \in Request, insertContacts(r), ~Throw(r)
    PROVE  LET a == req[r].got.inviter
               b == req[r].got.invitee
               rows == ContactsBetween(a, b, req[r].invite)
           IN /\ a # b /\ NoContact(r, a, b) /\ NoContact(r, b, a)
              /\ WaitsFor(r, rows) = {} /\ Legal(r, rows) /\ Put(r, rows)
              /\ req' = Goes(r) /\ Stay
BY DEF insertContacts, Execute, ContactsBetween

LEMMA InsertingTyped ==
    ASSUME IInv, Typing, NEW r \in Request,
           \/ insertUser(r) \/ insertGhost(r) \/ insertInvite(r) \/ insertContacts(r)
           \/ redirectInvite(r) \/ setInviteAccepted(r) \/ answerInvite(r)
    PROVE  Typing'
<1> USE DEF LearntOK, HasUser, HasRow, Signing, Named, Answering, Accepting, Looking
<1>0. SUFFICES ASSUME ~Throw(r)
               PROVE  Typing'
  BY ThrowTyped
<1>1. HandlerOK(r) /\ codes + 1 \in Code /\ codes + 2 \in Code
  BY DEF Typing, Code
<1>2. CASE insertUser(r)
  <2> DEFINE u == NextId(UserId)
             row == [email |-> Lower[req[r].arg.email], password |-> req[r].arg.password,
                     confirmCode |-> Null, resetCode |-> Null, banned |-> FALSE]
  <2>1. req[r].op = "createUser" /\ req[r].pc = 2
    BY <1>2, PlacesAre DEF insertUser, InsertUser, Execute
  <2>2. Lower[req[r].arg.email] \in Address /\ req[r].arg.password \in Password
    BY <1>1, <2>1, Addresses DEF HandlerOK, ArgumentOK
  <2>3. row \in UserRow
    BY <2>2 DEF UserRow
  <2>4. /\ Unused(UserId) # {} /\ Put(r, One(u, row))
        /\ req' = [Knows(r, row) EXCEPT ![r].user = u] /\ Stay
    BY <1>0, <1>2, InsertUserDoes
  <2>5. u \in UserId /\ u \notin InviteId /\ u \notin ContactKey
    BY <2>4, FreshIds, AccountKeys
  <2> HIDE DEF u, row
  <2>6. RowTyped(u, row) /\ row # Absent
    BY <2>3, <2>5, MissingRowsAreNoRows DEF RowTyped
  <2>7. TablesMove(r)
    BY <2>4, <2>6, OneRowTyped DEF One
  <2>8. GoesOn(r, row, u, req[r].invite)
    BY <2>4, KnowsGoesOn
  <2>9. Calm(r)
    BY <2>4, <2>7, <2>8, CalmWhenQuiet DEF GoesOn
  <2>10. QED
    BY <2>1, <2>3, <2>5, <2>8, <2>9, GoingOnTyped DEF GoesOn, Untransacted
<1>3. CASE insertGhost(r)
  <2> DEFINE g == NextId(UserId)
             row == [email |-> <<req[r].user, req[r].arg>>, password |-> Random,
                     confirmCode |-> codes + 1, resetCode |-> codes + 2, banned |-> FALSE]
             got == [inviter |-> req[r].user, invitee |-> g, row |-> row]
  <2>1. req[r].op = "createInviteByEmail" /\ req[r].pc = 3
    BY <1>3, PlacesAre DEF insertGhost, Execute
  <2>2. <<req[r].user, req[r].arg>> \in GhostEmail /\ req[r].user \in UserId
    BY <1>1, <2>1 DEF HandlerOK, ArgumentOK, GhostEmail
  <2>3. row \in UserRow
    BY <1>1, <2>2 DEF UserRow
  <2>4. /\ Unused(UserId) # {} /\ Put(r, One(g, row))
        /\ req' = Knows(r, got) /\ NewCodes(2)
    BY <1>0, <1>3, InsertGhostDoes
  <2>5. g \in UserId /\ g \notin InviteId /\ g \notin ContactKey
    BY <2>4, FreshIds, AccountKeys
  <2>6. got.inviter = req[r].user /\ got.invitee = g /\ got.row = row
    OBVIOUS
  <2> HIDE DEF g, row, got
  <2>7. RowTyped(g, row) /\ row # Absent
    BY <2>3, <2>5, MissingRowsAreNoRows DEF RowTyped
  <2>8. TablesMove(r)
    BY <2>4, <2>7, OneRowTyped DEF One
  <2>9. GoesOn(r, got, req[r].user, req[r].invite)
    BY <2>4, KnowsGoesOn
  <2>10. Calm(r)
    BY <1>1, <2>4, <2>8, <2>9, SignersStay
       DEF Calm, GoesOn, NewCodes, ghostVars, tokenVars, Typing, LinksOK
  <2>11. QED
    BY <2>1, <2>2, <2>3, <2>5, <2>6, <2>9, <2>10, GoingOnTyped DEF GoesOn, Untransacted
<1>4. CASE insertInvite(r)
  <2> DEFINE i == NextId(InviteId)
             row == [inviter |-> req[r].got.inviter, invitee |-> req[r].got.invitee, status |-> "PENDING"]
  <2>1. \/ req[r].op = "createInviteByEmail" /\ req[r].pc = 4
        \/ req[r].op = "createInvite" /\ req[r].pc = 2
    BY <1>4, PlacesAre DEF insertInvite, Execute
  <2>2. /\ req[r].got.inviter \in UserId /\ req[r].got.invitee \in UserId
        /\ req[r].op = "createInviteByEmail" =>
            /\ req[r].user \in UserId /\ req[r].got.inviter = req[r].user
            /\ req[r].got.row \in UserRow
    BY <1>1, <2>1 DEF HandlerOK
  <2>3. row \in InviteRow
    BY <2>2 DEF InviteRow
  <2>4. /\ Unused(InviteId) # {} /\ Put(r, One(i, row))
        /\ req' = [Goes(r) EXCEPT ![r].invite = i] /\ Stay
    BY <1>0, <1>4, InsertInviteDoes
  <2>5. i \in InviteId /\ i \notin UserId /\ i \notin ContactKey
    BY <2>4, FreshIds, AccountKeys
  <2> HIDE DEF i, row
  <2>6. RowTyped(i, row)
    BY <2>3, <2>5 DEF RowTyped
  <2>7. TablesMove(r)
    BY <2>4, <2>5, <2>6, OneRowTyped DEF One
  <2>8. GoesOn(r, req[r].got, req[r].user, i)
    BY <2>4, KnowsGoesOn DEF Goes
  <2>9. Calm(r)
    BY <2>4, <2>7, <2>8, CalmWhenQuiet DEF GoesOn
  <2>10. QED
    BY <2>1, <2>2, <2>5, <2>8, <2>9, GoingOnTyped DEF GoesOn, Untransacted
<1>5. CASE insertContacts(r)
  <2> DEFINE a == req[r].got.inviter
             b == req[r].got.invitee
             rows == ContactsBetween(a, b, req[r].invite)
  <2>1. req[r].op \in Accepting \cup {"acceptInvite"} /\ req[r].pc = 3
    BY <1>5, PlacesAre DEF insertContacts, Execute
  <2>2. /\ a \in UserId /\ b \in UserId /\ req[r].invite \in InviteId
        /\ req[r].op \in Accepting => req[r].user \in UserId
    BY <1>1, <2>1 DEF HandlerOK, ArgumentOK, InviteRow
  <2>3. Put(r, rows) /\ req' = Goes(r) /\ Stay
    BY <1>0, <1>5, InsertContactsDoes
  <2>4. \A k \in {<<a, b>>, <<b, a>>} : k \in ContactKey /\ k \notin UserId /\ k \notin InviteId
    BY <2>2, AccountKeys DEF ContactKey
  <2>5. [invite |-> req[r].invite] \in ContactRow
    BY <2>2 DEF ContactRow
  <2>6. Lawful(rows)
    BY <2>4, <2>5 DEF Lawful, RowTyped, ContactsBetween
  <2> HIDE DEF rows
  <2>7. TablesMove(r)
    BY <2>3, <2>6 DEF TablesMove
  <2>8. GoesOn(r, req[r].got, req[r].user, req[r].invite)
    BY <2>3, KnowsGoesOn DEF Goes
  <2>9. Calm(r)
    BY <2>3, <2>7, <2>8, CalmWhenQuiet DEF GoesOn
  <2>10. QED
    BY <1>1, <2>1, <2>2, <2>8, <2>9, GoingOnTyped DEF GoesOn, Untransacted, HandlerOK
<1>6. ASSUME NEW statement \in {"redirectInvite", "setInviteAccepted"}, NEW row,
             SetInvite(r, statement, row), Exists(InviteNow(r)) => row \in InviteRow
      PROVE  Typing'
  <2>1. req[r].op \in Accepting /\ req[r].pc = 2
    BY <1>6, PlacesAre DEF SetInvite, Execute
  <2>2. req[r].invite \in InviteId /\ req[r].user \in UserId
    BY <1>1, <2>1 DEF HandlerOK, ArgumentOK
  <2>3. /\ Exists(InviteNow(r)) /\ req' = Goes(r) /\ Stay
        /\ \E rows : /\ DOMAIN rows = {req[r].invite} /\ rows[req[r].invite] = row
                     /\ WaitsFor(r, rows) = {} /\ Legal(r, rows) /\ Put(r, rows)
    BY <1>0, <1>6, SetInviteDoes
  <2>4. PICK rows : DOMAIN rows = {req[r].invite} /\ rows[req[r].invite] = row /\ Put(r, rows)
    BY <2>3
  <2>5. req[r].invite \notin UserId /\ req[r].invite \notin ContactKey
    BY <2>2, AccountKeys
  <2>6. RowTyped(req[r].invite, row)
    BY <1>6, <2>3, <2>5 DEF RowTyped
  <2>7. TablesMove(r)
    BY <2>4, <2>5, <2>6, OneRowTyped
  <2>8. GoesOn(r, req[r].got, req[r].user, req[r].invite)
    BY <2>3, KnowsGoesOn DEF Goes
  <2>9. Calm(r)
    BY <2>3, <2>7, <2>8, CalmWhenQuiet DEF GoesOn
  <2>10. QED
    BY <1>1, <2>1, <2>2, <2>8, <2>9, GoingOnTyped DEF GoesOn, Untransacted, HandlerOK
<1>7. CASE redirectInvite(r) \/ setInviteAccepted(r)
  <2>1. req[r].op \in Accepting
    BY <1>7, PlacesAre DEF redirectInvite, setInviteAccepted, SetInvite, Execute
  <2>2. req[r].invite \in InviteId /\ req[r].got.invitee \in UserId
    BY <1>1, <2>1 DEF HandlerOK, ArgumentOK
  <2>3. Exists(InviteNow(r)) =>
            /\ [InviteNow(r) EXCEPT !.invitee = req[r].got.invitee, !.status = "ACCEPTED"] \in InviteRow
            /\ [InviteNow(r) EXCEPT !.status = "ACCEPTED"] \in InviteRow
    BY <2>2, SeenRowsTyped DEF InviteNow, InviteRow
  <2>4. CASE redirectInvite(r)
    <3> DEFINE row == [InviteNow(r) EXCEPT !.invitee = req[r].got.invitee, !.status = "ACCEPTED"]
    <3>1. SetInvite(r, "redirectInvite", row) /\ (Exists(InviteNow(r)) => row \in InviteRow)
      BY <2>3, <2>4 DEF redirectInvite
    <3> HIDE DEF row
    <3>2. QED
      BY <1>6, <3>1
  <2>5. CASE setInviteAccepted(r)
    <3> DEFINE row == [InviteNow(r) EXCEPT !.status = "ACCEPTED"]
    <3>1. SetInvite(r, "setInviteAccepted", row) /\ (Exists(InviteNow(r)) => row \in InviteRow)
      BY <2>3, <2>5 DEF setInviteAccepted
    <3> HIDE DEF row
    <3>2. QED
      BY <1>6, <3>1
  <2>6. QED
    BY <1>7, <2>4, <2>5
<1>8. CASE answerInvite(r)
  <2> DEFINE answer == IF req[r].op = "acceptInvite" THEN "ACCEPTED" ELSE "REJECTED"
             row == [InviteNow(r) EXCEPT !.status = answer]
  <2>1. req[r].op \in {"acceptInvite", "rejectInvite"} /\ req[r].pc = 2
    BY <1>8, PlacesAre DEF answerInvite, Execute
  <2>2. req[r].invite \in InviteId
    BY <1>1, <2>1 DEF HandlerOK, ArgumentOK
  <2>3. Exists(InviteNow(r)) => row \in InviteRow
    BY <2>2, SeenRowsTyped DEF InviteNow, InviteRow
  <2>4. /\ Exists(InviteNow(r)) /\ req' = Knows(r, row) /\ Stay
        /\ \E rows : /\ DOMAIN rows = {req[r].invite} /\ rows[req[r].invite] = row
                     /\ WaitsFor(r, rows) = {} /\ Legal(r, rows) /\ Put(r, rows)
    BY <1>0, <1>8, AnswerInviteDoes
  <2> HIDE DEF row
  <2>5. PICK rows : DOMAIN rows = {req[r].invite} /\ rows[req[r].invite] = row /\ Put(r, rows)
    BY <2>4
  <2>6. req[r].invite \notin UserId /\ req[r].invite \notin ContactKey
    BY <2>2, AccountKeys
  <2>7. RowTyped(req[r].invite, row)
    BY <2>3, <2>4, <2>6 DEF RowTyped
  <2>8. TablesMove(r)
    BY <2>5, <2>6, <2>7, OneRowTyped
  <2>9. GoesOn(r, row, req[r].user, req[r].invite)
    BY <2>4, KnowsGoesOn
  <2>10. Calm(r)
    BY <2>4, <2>8, <2>9, CalmWhenQuiet DEF GoesOn
  <2>11. QED
    BY <2>1, <2>2, <2>3, <2>4, <2>9, <2>10, GoingOnTyped DEF GoesOn, Untransacted
<1>9. QED
  BY <1>2, <1>3, <1>4, <1>5, <1>7, <1>8

LEMMA DroppingTyped ==
    ASSUME IInv, Typing, NEW r \in Request, dropUser(r) \/ deleteGhost(r)
    PROVE  Typing'
<1> USE DEF LearntOK, HasUser, HasRow, Signing, Named, Answering, Accepting, Looking
<1> DEFINE rows == Dropped(r, req[r].user)
<1>0. SUFFICES ASSUME ~Throw(r)
               PROVE  Typing'
  BY ThrowTyped
<1>1. HandlerOK(r)
  BY DEF Typing
<1>2. Put(r, rows) /\ req' = Goes(r) /\ Stay
  BY <1>0 DEF dropUser, deleteGhost, Execute
<1>3. \/ req[r].op = "deleteUser" /\ req[r].pc = 1
      \/ req[r].op = "acceptByRealUser" /\ req[r].pc = 4
      \/ req[r].op = "rejectEmailInvite" /\ req[r].pc = 3
  BY PlacesAre DEF dropUser, deleteGhost, Execute
<1>4. \A c : ~Exists(Deleted(c)) /\ (c \in UserId => Deleted(c) # Absent)
  BY AccountKeys, MissingRowsAreNoRows DEF Deleted, Exists
<1>5. Lawful(rows)
  BY <1>4 DEF Lawful, RowTyped, Dropped
<1> HIDE DEF rows
<1>6. TablesMove(r)
  BY <1>2, <1>5 DEF TablesMove
<1>7. GoesOn(r, req[r].got, req[r].user, req[r].invite)
  BY <1>2, KnowsGoesOn DEF Goes
<1>8. Calm(r)
  BY <1>2, <1>6, <1>7, CalmWhenQuiet DEF GoesOn
<1>9. QED
  BY <1>1, <1>3, <1>7, <1>8, GoingOnTyped DEF GoesOn, Untransacted, HandlerOK

\* Mail: the new links are links.
LEMMA MailTyped ==
    ASSUME IInv, Typing, NEW r \in Request, NEW statement, NEW mail, Mail(r, statement, mail),
           mail \subseteq Link, \A l \in mail : l.kind = "invite" => l.invite \in InviteId,
           ~Signing(req[r]),
           \A q : /\ q.op = req[r].op /\ q.pc = req[r].pc + 1 /\ q.arg = req[r].arg
                  /\ q.got = req[r].got /\ q.user = req[r].user /\ q.invite = req[r].invite
                  => LearntOK(q) /\ ~Signing(q)
    PROVE  Typing'
<1>1. /\ req' = Goes(r) /\ links' = links \cup mail
      /\ UNCHANGED <<tables, tokenVars, codes, ghostVars>>
  BY DEF Mail
<1>2. GoesOn(r, req[r].got, req[r].user, req[r].invite)
  BY <1>1, KnowsGoesOn DEF Goes
<1>3. TablesMove(r) /\ UNCHANGED holder
  BY <1>1 DEF TablesMove, tables
<1>4. LinksOK'
  BY <1>1 DEF Typing, LinksOK
<1>5. Calm(r)
  BY <1>1, <1>2, <1>3, <1>4, SignersStay DEF Calm, GoesOn, ghostVars, tokenVars, Typing
<1>6. LearntOK(req'[r]) /\ ~Signing(req'[r])
  BY <1>2 DEF GoesOn
<1>7. QED
  BY <1>2, <1>3, <1>5, <1>6, GoingOnTyped

LEMMA MailingTyped ==
    ASSUME IInv, Typing, NEW r \in Request, mailConfirm(r) \/ mailReset(r) \/ mailInvite(r)
    PROVE  Typing'
<1> USE DEF LearntOK, HasUser, HasRow, Signing, Named, Answering, Accepting, Looking
<1>1. HandlerOK(r)
  BY DEF Typing
<1>2. CASE mailConfirm(r)
  <2> DEFINE mail == IF req[r].got.confirmCode = Null THEN {}
                     ELSE {PlainLink(r, "confirm", req[r].got.confirmCode)}
  <2>1. \/ req[r].op = "createUser" /\ req[r].pc = 4
        \/ req[r].op = "changeEmail" /\ req[r].pc = 2
        \/ req[r].op = "resendConfirmEmail" /\ req[r].pc = 3
    BY <1>2, PlacesAre DEF mailConfirm, Mail
  <2>2. req[r].user \in UserId /\ req[r].got \in UserRow
    BY <1>1, <2>1 DEF HandlerOK
  <2>3. mail \subseteq Link /\ \A l \in mail : l.kind # "invite"
    BY <2>2 DEF PlainLink, Link, Kind, UserRow
  <2>4. Mail(r, "mailConfirm", mail)
    BY <1>2 DEF mailConfirm
  <2> HIDE DEF mail
  <2>5. QED
    BY <2>1, <2>2, <2>3, <2>4, MailTyped
<1>3. CASE mailReset(r)
  <2> DEFINE mail == {PlainLink(r, "reset", req[r].got.resetCode)}
  <2>1. \/ req[r].op = "forgotPassword" /\ req[r].pc = 3
        \/ req[r].op = "resendForgotPasswordEmail" /\ req[r].pc = 2
    BY <1>3, PlacesAre DEF mailReset, Mail
  <2>2. req[r].user \in UserId /\ req[r].got \in UserRow
    BY <1>1, <2>1 DEF HandlerOK
  <2>3. mail \subseteq Link /\ \A l \in mail : l.kind # "invite"
    BY <2>2 DEF PlainLink, Link, Kind, UserRow
  <2>4. Mail(r, "mailReset", mail)
    BY <1>3 DEF mailReset
  <2> HIDE DEF mail
  <2>5. QED
    BY <2>1, <2>2, <2>3, <2>4, MailTyped
<1>4. CASE mailInvite(r)
  <2> DEFINE ghost == req[r].got.row
             mail == {[kind |-> "invite", user |-> req[r].got.invitee, code |-> ghost.confirmCode,
                       to |-> req[r].arg, invite |-> req[r].invite, resetCode |-> ghost.resetCode]}
  <2>1. req[r].op = "createInviteByEmail" /\ req[r].pc = 5
    BY <1>4, PlacesAre DEF mailInvite, Mail
  <2>2. /\ req[r].got.invitee \in UserId /\ ghost \in UserRow /\ req[r].invite \in InviteId
        /\ req[r].arg \in Address /\ req[r].user \in UserId
        /\ req[r].got.inviter = req[r].user
    BY <1>1, <2>1 DEF HandlerOK, ArgumentOK
  <2>3. mail \subseteq Link /\ \A l \in mail : l.invite \in InviteId
    BY <2>2 DEF Link, Kind, UserRow
  <2>4. Mail(r, "mailInvite", mail)
    BY <1>4 DEF mailInvite
  <2> HIDE DEF mail
  <2>5. QED
    BY <2>1, <2>2, <2>3, <2>4, MailTyped
<1>5. QED
  BY <1>2, <1>3, <1>4

\* Who is looked up by an address, by a token, or in place of a ghost.
LEMMA FindingTyped ==
    ASSUME IInv, Typing, NEW r \in Request,
           findActive(r) \/ authenticate(r) \/ authenticateUser(r) \/ findRealUser(r)
    PROVE  Typing'
<1> USE DEF LearntOK, HasUser, HasRow, Signing, Named, Answering, Accepting, Looking
<1>0. SUFFICES ASSUME ~Throw(r)
               PROVE  Typing'
  BY ThrowTyped
<1>1. HandlerOK(r)
  BY DEF Typing
<1>2. CASE findActive(r)
  <2>1. req[r].op \in {"forgotPassword", "resendForgotPasswordEmail"} /\ req[r].pc = 1
    BY <1>2, PlacesAre DEF findActive
  <2>2. PICK u \in UserId : /\ Exists(Visible(r)[u])
                            /\ req' = [Knows(r, Visible(r)[u]) EXCEPT ![r].user = u]
                            /\ Stay /\ UNCHANGED tables
    BY <1>0, <1>2 DEF findActive, WithEmail
  <2>3. GoesOn(r, Visible(r)[u], u, req[r].invite)
    BY <2>2, KnowsGoesOn
  <2>4. Calm(r)
    BY <2>2, <2>3, CalmWhenQuiet DEF GoesOn, TablesMove
  <2>5. Visible(r)[u] \in UserRow
    BY <2>2, SeenRowsTyped
  <2>6. QED
    BY <2>1, <2>2, <2>3, <2>4, <2>5, GoingOnTyped DEF GoesOn, tables
<1>3. CASE authenticate(r)
  <2>1. req[r].op = "login" /\ req[r].pc = 1
    BY <1>3, PlacesAre DEF authenticate
  <2>2. PICK u \in UserId : /\ Exists(Visible(r)[u])
                            /\ req' = [Goes(r) EXCEPT ![r].user = u]
                            /\ Stay /\ UNCHANGED tables
    BY <1>0, <1>3 DEF authenticate, WithEmail
  <2>3. GoesOn(r, req[r].got, u, req[r].invite)
    BY <2>2, KnowsGoesOn DEF Goes
  <2>4. Calm(r)
    BY <2>2, <2>3, CalmWhenQuiet DEF GoesOn, TablesMove
  <2>5. u \in Key /\ holder[u] # r
    BY <1>1, <2>1, AccountKeys DEF HandlerOK, HoldsNothing, Untransacted
  <2>6. db'[u] # Absent
    BY <2>2, <2>5, ReadsRow DEF Exists, tables
  <2>7. QED
    BY <2>1, <2>2, <2>3, <2>4, <2>6, GoingOnTyped DEF GoesOn, tables
<1>4. CASE authenticateUser(r)
  <2> DEFINE u == holderOf[req[r].refresh]
  <2>1. req[r].op = "refreshToken" /\ req[r].pc = 2
    BY <1>4, PlacesAre DEF authenticateUser
  <2>2. req' = [Goes(r) EXCEPT ![r].user = u] /\ Stay /\ UNCHANGED tables
    BY <1>0, <1>4 DEF authenticateUser
  <2>3. IsSigned(req[r].refresh)
    BY <2>1 DEF IInv, RequestsOK, RequestOK, Carries, Ending
  <2>4. u \in UserId /\ db[u] # Absent
    BY <2>3 DEF IsSigned, Typing, Signers
  <2> HIDE DEF u
  <2>5. GoesOn(r, req[r].got, u, req[r].invite)
    BY <2>2, KnowsGoesOn DEF Goes
  <2>6. Calm(r)
    BY <2>2, <2>5, CalmWhenQuiet DEF GoesOn, TablesMove
  <2>7. QED
    BY <2>1, <2>2, <2>4, <2>5, <2>6, GoingOnTyped DEF GoesOn, tables
<1>5. CASE findRealUser(r)
  <2>1. req[r].op = "acceptEmailInvite" /\ req[r].pc = 3
    BY <1>5, PlacesAre DEF findRealUser
  <2>2. /\ req[r].got \in InviteRow /\ req[r].user \in UserId
        /\ req[r].arg.resetCode \in Code \cup {Null}
    BY <1>1, <2>1 DEF HandlerOK, ArgumentOK
  <2>3. PICK op \in Accepting, u \in UserId, code \in Code \cup {Null} :
            req' = [req EXCEPT ![r].op = op, ![r].pc = 1,
                               ![r].got = [inviter |-> req[r].got.inviter, invitee |-> u,
                                           resetCode |-> code]]
    <3>1. CASE WithEmail(r, req[r].arg.to) # {}
      <4>1. PICK u \in WithEmail(r, req[r].arg.to) :
                req' = [req EXCEPT ![r].op = "acceptByRealUser", ![r].pc = 1,
                                   ![r].got = [inviter |-> req[r].got.inviter, invitee |-> u,
                                               resetCode |-> Visible(r)[u].resetCode]]
        BY <1>5, <3>1 DEF findRealUser
      <4>2. u \in UserId /\ Visible(r)[u].resetCode \in Code \cup {Null}
        BY SeenRowsTyped DEF WithEmail, UserRow
      <4>3. QED
        BY <4>1, <4>2
    <3>2. CASE WithEmail(r, req[r].arg.to) = {}
      BY <1>5, <2>2, <3>2 DEF findRealUser
    <3>3. QED
      BY <3>1, <3>2
  <2>4. /\ OthersWait(r) /\ req'[r].op = op /\ req'[r].pc = 1
        /\ req'[r].got.inviter = req[r].got.inviter /\ req'[r].got.invitee = u
        /\ req'[r].got.resetCode = code
        /\ req'[r].arg = req[r].arg /\ req'[r].user = req[r].user /\ req'[r].invite = req[r].invite
    <3>1. DOMAIN req = Request /\ DOMAIN req[r] = DOMAIN Idle
      BY DEF IInv, RequestsOK, RequestOK
    <3>2. DOMAIN Idle = {"op", "pc", "arg", "seen", "got", "user", "invite", "access", "refresh", "late"}
      BY DEF Idle
    <3>3. QED
      BY <2>3, <3>1, <3>2 DEF OthersWait
  <2>5. Calm(r)
    BY <1>5, <2>4, CalmWhenQuiet DEF findRealUser, TablesMove
  <2>6. req[r].got.inviter \in UserId
    BY <2>2 DEF InviteRow
  <2>7. HandlerOK(r)'
    BY <1>1, <2>1, <2>2, <2>4, <2>6 DEF HandlerOK, ArgumentOK, Untransacted
  <2>8. QED
    BY <2>5, <2>7, CalmKeepsTyping
<1>6. QED
  BY <1>2, <1>3, <1>4, <1>5

LEMMA InvalidatingTyped ==
    ASSUME IInv, Typing, NEW r \in Request,
           invalidateAccessToken(r) \/ invalidateRefreshToken(r)
    PROVE  Typing'
<1> USE DEF LearntOK, HasUser, HasRow, Signing, Named, Answering, Accepting, Looking
<1>1. HandlerOK(r)
  BY DEF Typing
<1>2. \/ req[r].op = "refreshToken" /\ req[r].pc \in {3, 4}
      \/ req[r].op = "logout" /\ req[r].pc \in {3, 4}
  <2>1. invalidateAccessToken(r) => \/ req[r].op = "refreshToken" /\ req[r].pc = 3
                                    \/ req[r].op = "logout" /\ req[r].pc = 4
    BY PlacesAre DEF invalidateAccessToken
  <2>2. invalidateRefreshToken(r) => \/ req[r].op = "refreshToken" /\ req[r].pc = 4
                                     \/ req[r].op = "logout" /\ req[r].pc = 3
    BY PlacesAre DEF invalidateRefreshToken
  <2>3. QED
    BY <2>1, <2>2
<1>3. IsSigned(req[r].refresh) /\ (req[r].access = Null \/ IsSigned(req[r].access))
  BY <1>2 DEF IInv, RequestsOK, RequestOK, Carries, Ending
<1>4. /\ <<req[r].refresh, "refresh">> \in Token
      /\ OwnAccess(req[r]) => <<req[r].access, "access">> \in Token
  BY <1>3 DEF IsSigned, Token, OwnAccess
<1>5. req' = Goes(r) /\ UNCHANGED <<tables, links, codes, ghostVars>>
  BY DEF invalidateAccessToken, invalidateRefreshToken
<1>6. holderOf' = holderOf /\ invalidated' \cup expired' \subseteq Token
  <2>1. ASSUME NEW t \in Token, invalidateToken(t)
        PROVE  holderOf' = holderOf /\ invalidated' \cup expired' \subseteq Token
    BY <2>1 DEF invalidateToken, Typing
  <2>2. CASE UNCHANGED tokenVars
    BY <2>2 DEF tokenVars, Typing
  <2>3. QED
    BY <1>4, <2>1, <2>2 DEF invalidateAccessToken, invalidateRefreshToken
<1>7. GoesOn(r, req[r].got, req[r].user, req[r].invite)
  BY <1>5, KnowsGoesOn DEF Goes
<1>8. TablesMove(r) /\ UNCHANGED tables
  BY <1>5 DEF TablesMove
<1>9. Calm(r)
  BY <1>5, <1>6, <1>7, <1>8, SignersStay DEF Calm, GoesOn, ghostVars, Typing, LinksOK
<1>10. \/ req[r].op = "refreshToken" /\ db'[req[r].user] # Absent
       \/ req[r].op = "logout"
  BY <1>1, <1>2, <1>8 DEF HandlerOK, tables
<1>11. QED
  BY <1>1, <1>2, <1>7, <1>8, <1>9, <1>10, GoingOnTyped DEF GoesOn, tables, HandlerOK

\* The last statements.
LEMMA FinishingTyped ==
    ASSUME IInv, Typing, NEW r \in Request, deliver(r) \/ done(r) \/ commit(r)
    PROVE  Typing'
<1>0. SUFFICES ASSUME ~Throw(r)
               PROVE  Typing'
  BY ThrowTyped
<1>1. HandlerOK(r)
  BY DEF Typing
<1>2. OthersWait(r) /\ req'[r] = Idle
  BY <1>0 DEF deliver, done, commit, Finished, OthersWait, IInv, RequestsOK
<1>3. CASE deliver(r)
  <2>1. \/ req[r].op = "login" /\ req[r].pc = 2
        \/ req[r].op = "refreshToken" /\ req[r].pc = 5
    BY <1>3, PlacesAre DEF deliver
  <2>2. req[r].user \in UserId /\ db[req[r].user] # Absent /\ HoldsNothing(r)
    <3>1. Signing(req[r]) /\ HasUser(req[r]) /\ req[r].op \in Untransacted
      BY <2>1 DEF Signing, HasUser, Looking, Untransacted
    <3>2. QED
      BY <1>1, <3>1 DEF HandlerOK, LearntOK
  <2>3. PICK s \in Unsigned : /\ createTokens(s, req[r].user)
                              /\ UNCHANGED <<tables, links, codes, world>>
    BY <1>0, <1>3 DEF deliver
  <2>4. Signers(db', holderOf')
    BY <2>2, <2>3 DEF createTokens, Signers, Typing, IInv, tables
  <2>5. Calm(r) /\ HoldsNothing(r)'
    BY <1>2, <2>2, <2>3, <2>4 DEF Calm, createTokens, TablesMove, tables, HoldsNothing, Typing, LinksOK
  <2>6. QED
    BY <1>2, <2>5, EndingTyped
<1>4. CASE done(r)
  <2>1. req[r].op \in Untransacted
    BY <1>4, PlacesAre DEF done, Untransacted
  <2>2. UNCHANGED <<tables, tokenVars, links, codes, world>>
    BY <1>4 DEF done
  <2>3. TablesMove(r) /\ HoldsNothing(r)'
    BY <1>1, <2>1, <2>2 DEF TablesMove, HandlerOK, HoldsNothing, tables
  <2>4. Calm(r)
    BY <1>2, <2>2, <2>3, SignersStay DEF Calm, tokenVars, Typing, LinksOK
  <2>5. QED
    BY <1>2, <2>3, <2>4, EndingTyped
<1>5. CASE commit(r)
  <2> DEFINE new == {[kind |-> "reset", user |-> req[r].got.invitee, code |-> req[r].got.resetCode,
                      to |-> req[r].arg.to, invite |-> Null, resetCode |-> Null]}
  <2>1. req[r].op \in Accepting => new \subseteq Link /\ \A l \in new : l.kind # "invite"
    BY <1>1 DEF HandlerOK, LearntOK, ArgumentOK, Answering, Accepting, Link, Kind
  <2>2. links' = links \cup IF req[r].op \in Accepting THEN new ELSE {}
    BY <1>5 DEF commit, Accepting
  <2> HIDE DEF new
  <2>3. LinksOK'
    BY <2>1, <2>2 DEF LinksOK, Typing
  <2>4. CommitTx(r) /\ UNCHANGED <<tokenVars, codes, world>>
    BY <1>5 DEF commit
  <2>5. TablesMove(r) /\ HoldsNothing(r)'
    BY <2>4, ReleasedHoldsNothing DEF TablesMove
  <2>6. Calm(r)
    BY <1>2, <2>3, <2>4, <2>5, SignersStay DEF Calm, tokenVars, Typing
  <2>7. QED
    BY <1>2, <2>5, <2>6, EndingTyped
<1>6. QED
  BY <1>3, <1>4, <1>5

LEMMA StartTyped ==
    ASSUME IInv, Typing, NEW r \in Request, NEW op \in Op, NEW known, NEW reached,
           Start(r, op, known, reached), DOMAIN known = DOMAIN Idle, known.pc = 1,
           \A q : /\ q.op = op /\ q.pc = 1 /\ q.arg = known.arg
                  /\ q.got = known.got /\ q.user = known.user /\ q.invite = known.invite
                  => ArgumentOK(q) /\ LearntOK(q)
    PROVE  Typing'
<1>1. OthersWait(r)
  BY DEF IInv, RequestsOK, RequestOK, Start, OthersWait
<1>2. req'[r] = [known EXCEPT !.op = op, !.late = Carried(known) \cap ended]
  BY DEF IInv, RequestsOK, RequestOK, Start
<1>3. /\ req'[r].op = op /\ req'[r].pc = 1 /\ req'[r].arg = known.arg
      /\ req'[r].got = known.got /\ req'[r].user = known.user /\ req'[r].invite = known.invite
  BY <1>2 DEF Idle
<1>4. /\ UNCHANGED <<tables, tokenVars, links, codes, world>>
      /\ req[r].op = "none"
  BY DEF Start
<1>5. TablesMove(r) /\ HoldsNothing(r)'
  BY <1>4 DEF TablesMove, Typing, HandlerOK, Untransacted, HoldsNothing, tables
<1>6. Calm(r)
  BY <1>1, <1>4, <1>5, SignersStay DEF Calm, tokenVars, Typing, LinksOK
<1>7. HandlerOK(r)'
  BY <1>3, <1>5 DEF HandlerOK, Signing
<1>8. QED
  BY <1>6, <1>7, CalmKeepsTyping

LEMMA BeginTyped ==
    ASSUME IInv, Typing, NEW r \in Request, Begin(r)
    PROVE  Typing'
<1> USE DEF ArgumentOK, LearntOK, HasUser, HasRow, Signing, Named, Answering, Accepting, Looking
<1>0. /\ Chosen \subseteq Password /\ Users \subseteq UserId
      /\ \A kind : Received(kind) \subseteq Link
      /\ \A l \in Received("invite") : l.invite \in InviteId
      /\ \A kind : \A l \in Received(kind) : l.to \in Address
  BY WorldsAreTyped DEF Typing, LinksOK, Chosen, Users, Received
<1>1. CASE createUser(r)
  <2>1. PICK e \in Typed, p \in Chosen :
            Start(r, "createUser", [Idle EXCEPT !.arg = [email |-> e, password |-> p]], {})
    BY <1>1 DEF createUser
  <2> DEFINE known == [Idle EXCEPT !.arg = [email |-> e, password |-> p]]
  <2>2. /\ DOMAIN known = DOMAIN Idle /\ known.pc = 1
        /\ known.arg.email \in Typed /\ known.arg.password \in Password
    BY <1>0, <2>1 DEF Idle, Link
  <2>3. Start(r, "createUser", known, {})
    BY <2>1
  <2> HIDE DEF known
  <2>4. QED
    BY <2>2, <2>3, StartTyped, OpsAre
<1>2. CASE updateUser(r)
  <2>1. PICK u \in Users, e \in Typed, p \in Chosen :
            Start(r, "updateUser", [Idle EXCEPT !.user = u, !.arg = [email |-> e, password |-> p]], {})
    BY <1>2 DEF updateUser
  <2> DEFINE known == [Idle EXCEPT !.user = u, !.arg = [email |-> e, password |-> p]]
  <2>2. /\ DOMAIN known = DOMAIN Idle /\ known.pc = 1
        /\ known.user \in UserId /\ known.arg.email \in Typed /\ known.arg.password \in Password
    BY <1>0, <2>1 DEF Idle, Link
  <2>3. Start(r, "updateUser", known, {})
    BY <2>1
  <2> HIDE DEF known
  <2>4. QED
    BY <2>2, <2>3, StartTyped, OpsAre
<1>3. CASE deleteUser(r)
  BY <1>0, <1>3, StartTyped, OpsAre DEF deleteUser, Idle
<1>4. CASE banUser(r)
  BY <1>0, <1>4, StartTyped, OpsAre DEF banUser, Idle
<1>5. CASE unbanUser(r)
  BY <1>0, <1>5, StartTyped, OpsAre DEF unbanUser, Idle
<1>6. CASE resendConfirmEmail(r)
  BY <1>0, <1>6, StartTyped, OpsAre DEF resendConfirmEmail, Idle
<1>7. CASE confirmEmail(r)
  <2>1. PICK l \in Received("confirm") :
            Start(r, "confirmEmail", [Idle EXCEPT !.user = l.user, !.arg = l.code], {<<l.user, l.to>>})
    BY <1>7 DEF confirmEmail
  <2> DEFINE known == [Idle EXCEPT !.user = l.user, !.arg = l.code]
  <2>2. /\ DOMAIN known = DOMAIN Idle /\ known.pc = 1
        /\ known.user \in UserId
    BY <1>0, <2>1 DEF Idle, Link
  <2>3. Start(r, "confirmEmail", known, {<<l.user, l.to>>})
    BY <2>1
  <2> HIDE DEF known
  <2>4. QED
    BY <2>2, <2>3, StartTyped, OpsAre
<1>8. CASE forgotPassword(r)
  BY <1>8, StartTyped, OpsAre DEF forgotPassword, Idle
<1>9. CASE resendForgotPasswordEmail(r)
  BY <1>9, StartTyped, OpsAre DEF resendForgotPasswordEmail, Idle
<1>10. CASE resetPassword(r)
  <2>1. PICK l \in Received("reset"), p \in Chosen :
            Start(r, "resetPassword", [Idle EXCEPT !.user = l.user, !.arg = [code |-> l.code, password |-> p]], {})
    BY <1>10 DEF resetPassword
  <2> DEFINE known == [Idle EXCEPT !.user = l.user, !.arg = [code |-> l.code, password |-> p]]
  <2>2. /\ DOMAIN known = DOMAIN Idle /\ known.pc = 1
        /\ known.user \in UserId /\ known.arg.password \in Password
    BY <1>0, <2>1 DEF Idle, Link
  <2>3. Start(r, "resetPassword", known, {})
    BY <2>1
  <2> HIDE DEF known
  <2>4. QED
    BY <2>2, <2>3, StartTyped, OpsAre
<1>11. CASE createInviteByEmail(r)
  <2>1. PICK u \in Users, e \in Typed :
            Start(r, "createInviteByEmail", [Idle EXCEPT !.user = u, !.arg = Untagged[Lower[e]]], {})
    BY <1>11 DEF createInviteByEmail
  <2>2. Untagged[Lower[e]] \in Address
    BY <2>1, Addresses
  <2> DEFINE known == [Idle EXCEPT !.user = u, !.arg = Untagged[Lower[e]]]
  <2>3. /\ DOMAIN known = DOMAIN Idle /\ known.pc = 1
        /\ known.user \in UserId /\ known.arg \in Address
    BY <1>0, <2>1, <2>2 DEF Idle
  <2>4. Start(r, "createInviteByEmail", known, {})
    BY <2>1
  <2> HIDE DEF known
  <2>5. QED
    BY <2>3, <2>4, StartTyped, OpsAre
<1>12. CASE acceptEmailInvite(r)
  <2>1. PICK l \in Received("invite") :
            Start(r, "acceptEmailInvite", [Idle EXCEPT !.user = l.user, !.invite = l.invite, !.arg = l], {<<l.user, l.to>>})
    BY <1>12 DEF acceptEmailInvite, FollowInvite
  <2> DEFINE known == [Idle EXCEPT !.user = l.user, !.invite = l.invite, !.arg = l]
  <2>2. /\ DOMAIN known = DOMAIN Idle /\ known.pc = 1
        /\ known.user \in UserId /\ known.invite \in InviteId /\ known.arg.to \in Address
        /\ known.arg.resetCode \in Code \cup {Null}
    BY <1>0, <2>1 DEF Idle, Link
  <2>3. Start(r, "acceptEmailInvite", known, {<<l.user, l.to>>})
    BY <2>1
  <2> HIDE DEF known
  <2>4. QED
    BY <2>2, <2>3, StartTyped, OpsAre
<1>13. CASE rejectEmailInvite(r)
  <2>1. PICK l \in Received("invite") :
            Start(r, "rejectEmailInvite", [Idle EXCEPT !.user = l.user, !.invite = l.invite, !.arg = l], {<<l.user, l.to>>})
    BY <1>13 DEF rejectEmailInvite, FollowInvite
  <2> DEFINE known == [Idle EXCEPT !.user = l.user, !.invite = l.invite, !.arg = l]
  <2>2. /\ DOMAIN known = DOMAIN Idle /\ known.pc = 1
        /\ known.user \in UserId /\ known.invite \in InviteId /\ known.arg.to \in Address
        /\ known.arg.resetCode \in Code \cup {Null}
    BY <1>0, <2>1 DEF Idle, Link
  <2>3. Start(r, "rejectEmailInvite", known, {<<l.user, l.to>>})
    BY <2>1
  <2> HIDE DEF known
  <2>4. QED
    BY <2>2, <2>3, StartTyped, OpsAre
<1>14. CASE login(r)
  BY <1>14, StartTyped, OpsAre DEF login, Idle
<1>15. CASE refreshToken(r)
  <2>1. PICK s \in Sessions, a \in Sessions \cup {Null} :
            Start(r, "refreshToken", [Idle EXCEPT !.refresh = s, !.access = a], {})
    BY <1>15 DEF refreshToken
  <2> DEFINE known == [Idle EXCEPT !.refresh = s, !.access = a]
  <2>2. DOMAIN known = DOMAIN Idle /\ known.pc = 1
    BY DEF Idle
  <2>3. Start(r, "refreshToken", known, {})
    BY <2>1
  <2> HIDE DEF known
  <2>4. QED
    BY <2>2, <2>3, StartTyped, OpsAre
<1>16. CASE logout(r)
  BY <1>16, StartTyped, OpsAre DEF logout, Idle
<1>17. CASE query(r)
  BY <1>17, StartTyped, OpsAre DEF query, Idle
<1>18. CASE createInvite(r)
  <2>1. PICK a \in Users, b \in UserId :
            Start(r, "createInvite", [Idle EXCEPT !.got = [inviter |-> a, invitee |-> b]], {})
    BY <1>18 DEF createInvite
  <2> DEFINE known == [Idle EXCEPT !.got = [inviter |-> a, invitee |-> b]]
  <2>2. /\ DOMAIN known = DOMAIN Idle /\ known.pc = 1
        /\ known.got.inviter \in UserId /\ known.got.invitee \in UserId
    BY <1>0, <2>1 DEF Idle
  <2>3. Start(r, "createInvite", known, {})
    BY <2>1
  <2> HIDE DEF known
  <2>4. QED
    BY <2>2, <2>3, StartTyped, OpsAre
<1>19. CASE acceptInvite(r)
  BY <1>19, StartTyped, OpsAre DEF acceptInvite, AnswerInvite, Idle
<1>20. CASE rejectInvite(r)
  BY <1>20, StartTyped, OpsAre DEF rejectInvite, AnswerInvite, Idle
<1>21. QED
  BY <1>1, <1>2, <1>3, <1>4, <1>5, <1>6, <1>7, <1>8, <1>9, <1>10, <1>11, <1>12, <1>13, <1>14,
     <1>15, <1>16, <1>17, <1>18, <1>19, <1>20 DEF Begin

LEMMA NextKeepsTyping == IInv /\ Typing /\ [Next]_vars => Typing'
<1> SUFFICES ASSUME IInv, Typing, [Next]_vars
             PROVE  Typing'
  OBVIOUS
<1>1. CASE UNCHANGED vars
  BY <1>1 DEF vars, ghostVars, tables, tokenVars, Typing, LinksOK, Lasting, Signers, HandlerOK,
     HoldsNothing, RowsTyped
<1>2. CASE Time
  <2>1. UNCHANGED <<tables, req, links, codes, world, holderOf>>
    BY <1>2 DEF Time, ghostVars, Expire, Forget
  <2>2. invalidated' \cup expired' \subseteq Token
    BY <1>2 DEF Time, Expire, Forget, Signed, Typing
  <2>3. QED
    BY <2>1, <2>2 DEF tables, Typing, LinksOK, Lasting, Signers, HandlerOK, HoldsNothing, RowsTyped
<1>3. ASSUME NEW r \in Request, Begin(r) \/ Run(r) \/ Abort(r)
      PROVE  Typing'
  <2>1. CASE Begin(r)
    BY <2>1, BeginTyped
  <2>2. CASE Run(r)
    BY <2>2, ReadingTyped, UpdatingUsersTyped, InsertingTyped, DroppingTyped, MailingTyped,
       FindingTyped, InvalidatingTyped, FinishingTyped DEF Run
  <2>3. CASE Abort(r)
    BY <2>3, ThrowTyped DEF Abort
  <2>4. QED
    BY <1>3, <2>1, <2>2, <2>3
<1>4. QED
  BY <1>1, <1>2, <1>3 DEF Next

LEMMA InitialTyping == Init => Typing
<1> SUFFICES ASSUME Init
             PROVE  Typing
  OBVIOUS
<1>1. world \in DOMAIN Worlds /\ db = Populated(world) /\ draft = db
  BY DEF Init
<1>2. RowsTyped(db) /\ RowsTyped(draft) /\ Signers(db, holderOf) /\ codes \in Code /\ LinksOK
  BY <1>1, WorldsAreTyped DEF Init, LinksOK
<1>3. invalidated \cup expired \subseteq Token /\ Lasting
  BY <1>1 DEF Init, TokensInit, Lasting
<1>4. ASSUME NEW r \in Request
      PROVE  HandlerOK(r)
  <2>1. req[r].op = "none"
    BY DEF Init, Idle
  <2>2. HoldsNothing(r)
    BY NoRequestIsNoRequest DEF Init, HoldsNothing
  <2>3. QED
    BY <2>1, <2>2 DEF HandlerOK, ArgumentOK, LearntOK, HasUser, HasRow, Signing, Named, Answering,
       Accepting, Looking
<1>5. QED
  BY <1>1, <1>2, <1>3, <1>4 DEF Typing

\* What the handlers and the links know is of its type, for any worlds.
THEOREM TypingHolds == Spec => []Typing
BY InvariantHolds, InitialTyping, NextKeepsTyping, PTL DEF Spec

LEMMA ScriptsAreSequences ==
    ASSUME NEW op \in Op
    PROVE  DOMAIN Script[op] = 1..Len(Script[op])
<1>1. CASE op = "none"
  BY <1>1 DEF Script
<1>2. CASE op = "createUser"
  BY <1>2 DEF Script
<1>3. CASE op = "updateUser"
  BY <1>3 DEF Script
<1>4. CASE op = "changeEmail"
  BY <1>4 DEF Script
<1>5. CASE op = "deleteUser"
  BY <1>5 DEF Script
<1>6. CASE op = "banUser"
  BY <1>6 DEF Script
<1>7. CASE op = "unbanUser"
  BY <1>7 DEF Script
<1>8. CASE op = "resendConfirmEmail"
  BY <1>8 DEF Script
<1>9. CASE op = "confirmEmail"
  BY <1>9 DEF Script
<1>10. CASE op = "forgotPassword"
  BY <1>10 DEF Script
<1>11. CASE op = "resendForgotPasswordEmail"
  BY <1>11 DEF Script
<1>12. CASE op = "resetPassword"
  BY <1>12 DEF Script
<1>13. CASE op = "createInviteByEmail"
  BY <1>13 DEF Script
<1>14. CASE op = "acceptEmailInvite"
  BY <1>14 DEF Script
<1>15. CASE op = "acceptByRealUser"
  BY <1>15 DEF Script
<1>16. CASE op = "acceptByGhost"
  BY <1>16 DEF Script
<1>17. CASE op = "rejectEmailInvite"
  BY <1>17 DEF Script
<1>18. CASE op = "login"
  BY <1>18 DEF Script
<1>19. CASE op = "refreshToken"
  BY <1>19 DEF Script
<1>20. CASE op = "logout"
  BY <1>20 DEF Script
<1>21. CASE op = "query"
  BY <1>21 DEF Script
<1>22. CASE op = "createInvite"
  BY <1>22 DEF Script
<1>23. CASE op = "acceptInvite"
  BY <1>23 DEF Script
<1>24. CASE op = "rejectInvite"
  BY <1>24 DEF Script
<1>25. QED
  BY <1>1, <1>2, <1>3, <1>4, <1>5, <1>6, <1>7, <1>8, <1>9, <1>10, <1>11, <1>12, <1>13, <1>14,
     <1>15, <1>16, <1>17, <1>18, <1>19, <1>20, <1>21, <1>22, <1>23, <1>24,
     OpsAre

\* Every version of a row is a row of its table, links point at users and
\* tokens are signed for those who were users, whatever requests do at once.
THEOREM TypesAreCorrect == Spec => []TypeOK
<1>1. IInv /\ Typing => TypeOK
  BY ScriptsAreSequences DEF IInv, RequestsOK, RequestOK, Typing, LinksOK, TypeOK
<1>2. QED
  BY <1>1, InvariantHolds, TypingHolds, PTL

-------------------------------------------------------------------------------
(* Requests one after the other: codes, links and one-time things.           *)

Closed(version) == version # Absent /\ ~Waiting(version)

\* Codes that were taken are on no row, invites that were answered wait no more.
Unspent(t, things) ==
    /\ \A u \in UserId : Exists(t[u]) => /\ <<"confirm", t[u].confirmCode>> \notin things
                                         /\ <<"reset", t[u].resetCode>> \notin things
    /\ \A i \in InviteId : <<"invite", i>> \in things => Closed(t[i])

Sound(t, n, mail, things) ==
    /\ CodesAreUnique(t, n) /\ Unspent(t, things)
    /\ \A l \in mail : NamesItsInvite(t, l)

\* The things are of codes up to n.
SpentCoded(things, n) ==
    \A c : <<"confirm", c>> \in things \/ <<"reset", c>> \in things => c \in 0..n

\* A code is as it was, a new one, or none.
Recodes(code, old, n, m) == code = Null \/ code \in (n + 1)..m \/ code \in old

Recoded(t, t2, u, n, m) ==
    Exists(t2[u]) =>
        /\ Recodes(t2[u].confirmCode, {c \in {t[u].confirmCode} : Exists(t[u])}, n, m)
        /\ Recodes(t2[u].resetCode, {c \in {t[u].resetCode} : Exists(t[u])}, n, m)

\* One user's row is written, others are deleted; no row of an invite begins to
\* wait again.
Follows(t, t2, w, n, m) ==
    /\ \A u \in UserId \ {w} : t2[u] = t[u] \/ ~Exists(t2[u])
    /\ w \in UserId => Recoded(t, t2, w, n, m)
    /\ \A i \in InviteId : t2[i] = t[i] \/ Closed(t2[i]) \/ t[i] = Absent

LEMMA CodesStayUnique ==
    ASSUME NEW t, NEW t2, NEW w, NEW n \in Nat, NEW m \in Nat, n <= m,
           CodesAreUnique(t, n), Follows(t, t2, w, n, m)
    PROVE  CodesAreUnique(t2, m)
<1>1. SUFFICES ASSUME NEW u \in UserId, Exists(t2[u])
               PROVE  /\ {t2[u].confirmCode, t2[u].resetCode} \subseteq 0..m \cup {Null}
                      /\ \A v \in UserId \ {u} : Exists(t2[v]) =>
                          /\ t2[u].confirmCode = Null \/ t2[u].confirmCode # t2[v].confirmCode
                          /\ t2[u].resetCode = Null \/ t2[u].resetCode # t2[v].resetCode
  BY <1>1 DEF CodesAreUnique
<1> DEFINE Old(v) == /\ Exists(t[v]) /\ t2[v] = t[v]
                     /\ {t[v].confirmCode, t[v].resetCode} \subseteq 0..n \cup {Null}
<1>2. ASSUME NEW v \in UserId \ {w}, Exists(t2[v])
      PROVE  Old(v)
  BY <1>2 DEF Follows, CodesAreUnique
<1>3. ASSUME NEW v \in UserId, NEW x \in UserId \ {v}, Old(v), Old(x)
      PROVE  /\ t2[v].confirmCode = Null \/ t2[v].confirmCode # t2[x].confirmCode
             /\ t2[v].resetCode = Null \/ t2[v].resetCode # t2[x].resetCode
  BY <1>3 DEF CodesAreUnique
<1>4. ASSUME w \in UserId, Exists(t2[w])
      PROVE  /\ Recodes(t2[w].confirmCode, {c \in {t[w].confirmCode} : Exists(t[w])}, n, m)
             /\ Recodes(t2[w].resetCode, {c \in {t[w].resetCode} : Exists(t[w])}, n, m)
             /\ Exists(t[w]) => {t[w].confirmCode, t[w].resetCode} \subseteq 0..n \cup {Null}
  BY <1>4 DEF Follows, Recoded, CodesAreUnique
<1>5. ASSUME w \in UserId, Exists(t2[w]), NEW x \in UserId \ {w}, Old(x)
      PROVE  /\ t2[w].confirmCode = Null \/ t2[w].confirmCode # t2[x].confirmCode
             /\ t2[w].resetCode = Null \/ t2[w].resetCode # t2[x].resetCode
  <2>1. Exists(t[w]) => /\ t[w].confirmCode = Null \/ t[w].confirmCode # t[x].confirmCode
                        /\ t[w].resetCode = Null \/ t[w].resetCode # t[x].resetCode
    BY <1>5 DEF CodesAreUnique
  <2>2. \A c \in (n + 1)..m : c \notin 0..n /\ c # Null
    BY NullIsNoCode DEF Code
  <2>3. QED
    BY <1>4, <1>5, <2>1, <2>2 DEF Recodes
<1>6. \A c \in 0..n \cup (n + 1)..m : c \in 0..m
  OBVIOUS
<1>7. {t2[u].confirmCode, t2[u].resetCode} \subseteq 0..m \cup {Null}
  BY <1>1, <1>2, <1>4, <1>6 DEF Recodes
<1>8. ASSUME NEW v \in UserId \ {u}, Exists(t2[v])
      PROVE  /\ t2[u].confirmCode = Null \/ t2[u].confirmCode # t2[v].confirmCode
             /\ t2[u].resetCode = Null \/ t2[u].resetCode # t2[v].resetCode
  BY <1>1, <1>2, <1>3, <1>5, <1>8
<1>9. QED
  BY <1>7, <1>8

LEMMA SoundFollows ==
    ASSUME NEW t, NEW t2, NEW w, NEW n \in Nat, NEW m \in Nat, n <= m, NEW mail, NEW things,
           Sound(t, n, mail, things), Follows(t, t2, w, n, m),
           mail \subseteq Link, \A l \in mail : l.kind = "invite" => l.invite \in InviteId,
           LinksCoded(mail, n), SpentCoded(things, n)
    PROVE  Sound(t2, m, mail, things)
<1>1. CodesAreUnique(t2, m)
  BY CodesStayUnique DEF Sound
<1>2. \A c \in (n + 1)..m : c \notin 0..n
  OBVIOUS
<1>3. <<"confirm", Null>> \notin things /\ <<"reset", Null>> \notin things
  BY NullIsNoCode DEF SpentCoded, Code
<1>4. ASSUME NEW u \in UserId, Exists(t2[u])
      PROVE  /\ <<"confirm", t2[u].confirmCode>> \notin things
             /\ <<"reset", t2[u].resetCode>> \notin things
  <2>1. CASE u # w
    BY <1>4, <2>1 DEF Sound, Unspent, Follows
  <2>2. CASE u = w
    <3>1. /\ Recodes(t2[u].confirmCode, {c \in {t[u].confirmCode} : Exists(t[u])}, n, m)
          /\ Recodes(t2[u].resetCode, {c \in {t[u].resetCode} : Exists(t[u])}, n, m)
      BY <1>4, <2>2 DEF Follows, Recoded
    <3>2. Exists(t[u]) => /\ <<"confirm", t[u].confirmCode>> \notin things
                          /\ <<"reset", t[u].resetCode>> \notin things
      BY DEF Sound, Unspent
    <3>3. \A c \in (n + 1)..m : <<"confirm", c>> \notin things /\ <<"reset", c>> \notin things
      BY <1>2 DEF SpentCoded
    <3>4. QED
      BY <1>3, <3>1, <3>2, <3>3 DEF Recodes
  <2>3. QED
    BY <2>1, <2>2
<1>5. ASSUME NEW i \in InviteId, <<"invite", i>> \in things
      PROVE  Closed(t2[i])
  BY <1>5 DEF Sound, Unspent, Follows, Closed
<1>6. ASSUME NEW l \in mail
      PROVE  NamesItsInvite(t2, l)
  <2>1. SUFFICES ASSUME l.kind = "invite", Works(t2, l)
                 PROVE  /\ t2[l.invite] # Absent
                        /\ Waiting(t2[l.invite]) => t2[l.invite].invitee = l.user
    BY <2>1 DEF NamesItsInvite
  <2>2. l.user \in UserId /\ l.invite \in InviteId /\ l.code \in 0..n
    BY <2>1 DEF Link, LinksCoded
  <2>3. Works(t, l)
    <3>1. CASE l.user # w
      BY <2>1, <2>2, <3>1 DEF Works, Follows
    <3>2. CASE l.user = w
      <4>1. Recodes(l.code, {c \in {t[w].confirmCode} : Exists(t[w])}, n, m)
        BY <2>1, <2>2, <3>2 DEF Works, Follows, Recoded
      <4>2. l.code # Null /\ l.code \notin (n + 1)..m
        BY <1>2, <2>2, NullIsNoCode DEF Code
      <4>3. QED
        BY <3>2, <4>1, <4>2 DEF Works, Recodes
    <3>3. QED
      BY <3>1, <3>2
  <2>4. /\ t[l.invite] # Absent
        /\ Waiting(t[l.invite]) => t[l.invite].invitee = l.user
    BY <2>1, <2>3 DEF Sound, NamesItsInvite
  <2>5. t2[l.invite] = t[l.invite] \/ Closed(t2[l.invite])
    BY <2>2, <2>4 DEF Follows
  <2>6. QED
    BY <2>4, <2>5 DEF Closed
<1>7. QED
  BY <1>1, <1>4, <1>5, <1>6 DEF Sound, Unspent

RowsAreHeld ==
    FreeRowsAreCommitted /\ \A k \in Key : holder[k] \in Request \cup {NoRequest}

Alone(r) == \A s \in Request \ {r} : req[s].op = "none"

\* A confirmed address was proven, and the links that would confirm one went there.
AddressTrue(t, u, how, mail, reached) ==
    /\ \A l \in mail : l.user = u => ConfirmsMailed(t, l)
    /\ how = "auto" \/ (Exists(t[u]) /\ t[u].confirmCode = Null => <<u, t[u].email>> \in reached)

\* The user was written, the code not yet.
Halfway(q) ==
    \/ q.op = "createUser" /\ q.pc = 3
    \/ q.op = "changeEmail" /\ q.pc = 1
Mailing(q) ==
    \/ q.op = "createUser" /\ q.pc = 4
    \/ q.op = "changeEmail" /\ q.pc = 2
    \/ q.op = "resendConfirmEmail" /\ q.pc = 3

HalfwayUser(r) == {u \in {req[r].user} : Halfway(req[r])}

Upright(halfway) ==
    /\ LinksCoded(links, codes) /\ SpentCoded(DOMAIN spent, codes)
    /\ Sound(db, codes, links, DOMAIN spent) /\ Sound(draft, codes, links, DOMAIN spent)
    /\ \A u \in UserId :
          /\ AddressTrue(db, u, Worlds[world].strategy, links, proven)
          /\ u \in halfway \/ AddressTrue(draft, u, Worlds[world].strategy, links, proven)
    /\ \A thing \in DOMAIN spent : spent[thing] = 1
    /\ \A s : <<"refresh", s>> \in DOMAIN spent => <<s, "refresh">> \in ended

\* What the handler read is still so.
ReadsHold(q, t) ==
    /\ q.op = "resendConfirmEmail" /\ q.pc = 2 => t[q.user] = q.got
    /\ q.op = "confirmEmail" /\ q.pc = 2 /\ Exists(t[q.user]) => t[q.user].confirmCode = q.arg
    /\ q.op = "resetPassword" /\ q.pc = 2 /\ Exists(t[q.user]) =>
          t[q.user].resetCode = q.arg.code
    /\ q.op \in {"acceptEmailInvite", "rejectEmailInvite"} /\ q.pc = 2 => Works(t, q.arg)
    /\ Mailing(q) /\ q.got.confirmCode # Null /\ Exists(t[q.user])
          /\ t[q.user].confirmCode = q.got.confirmCode => t[q.user].email = q.got.email
    /\ q.op = "rejectEmailInvite" /\ q.pc = 3 =>
          Waiting(t[q.invite]) /\ t[q.invite].invitee = q.user

\* What it has written is there, and what it has not written is as committed.
WritesHold(r) ==
    LET q == req[r]
        u == req[r].user
    IN /\ q.op = "updateUser" /\ q.pc = 2 => draft[u] = q.got
       /\ Halfway(q) => draft[u] = q.got
       /\ q.op = "createInviteByEmail" /\ q.pc \in {4, 5} =>
             /\ draft[q.got.invitee] = q.got.row /\ db[q.got.invitee] = Absent
             /\ q.got.row.confirmCode \in 0..codes
       /\ q.op = "createInviteByEmail" /\ q.pc = 5 =>
             Waiting(draft[q.invite]) /\ draft[q.invite].invitee = q.got.invitee
       /\ q.op = "rejectEmailInvite" /\ q.pc < 4 => HoldsNothing(r)
       /\ \/ q.op \in Accepting
          \/ q.op = "acceptEmailInvite" /\ q.pc = 3
          \/ q.op = "rejectEmailInvite" /\ q.pc > 2
          => Waiting(db[q.invite])
       /\ q.op \in Accepting /\ q.pc > 2 => Closed(draft[q.invite])
       /\ q.op = "rejectEmailInvite" /\ q.pc > 3 => Closed(draft[q.invite])

\* The link that was followed, and the codes that came with it.
FollowedLinks(q) ==
    /\ q.op = "confirmEmail" =>
          \E l \in links : /\ l.kind = "confirm" /\ l.user = q.user /\ l.code = q.arg
                           /\ <<q.user, l.to>> \in proven
    /\ q.op = "resetPassword" /\ q.pc = 2 => q.arg.code # Null
    /\ q.op \in Answering => /\ q.arg \in links /\ q.arg.kind = "invite" /\ q.arg.user = q.user
                             /\ q.arg.invite = q.invite /\ <<q.user, q.arg.to>> \in proven
    /\ Mailing(q) /\ q.got.confirmCode # Null => q.got.confirmCode \in 0..codes
    /\ q.op = "refreshToken" /\ q.pc > 1 => <<q.refresh, "refresh">> \notin ended

Informed(r) ==
    /\ ReadsHold(req[r], db) /\ ReadsHold(req[r], draft)
    /\ WritesHold(r) /\ FollowedLinks(req[r])

Orderly ==
    /\ \A r \in Request : req[r].op # "none" => Alone(r)
    /\ Upright(UNION {HalfwayUser(r) : r \in Request})
    /\ \A r \in Request : Informed(r)

LEMMA OnlyOne ==
    ASSUME Orderly, NEW r \in Request, Alone(r)
    PROVE  Upright(HalfwayUser(r)) /\ Informed(r)
<1>1. \A s \in Request \ {r} : HalfwayUser(s) = {}
  BY DEF Alone, HalfwayUser, Halfway
<1>2. UNION {HalfwayUser(s) : s \in Request} = HalfwayUser(r)
  BY <1>1
<1>3. QED
  BY <1>2 DEF Orderly

LEMMA IdleIsInformed ==
    ASSUME NEW r \in Request, req[r].op = "none"
    PROVE  Informed(r)
BY DEF Informed, ReadsHold, WritesHold, FollowedLinks, Mailing, Halfway, Accepting, Answering

LEMMA StillOrderly ==
    ASSUME NEW r \in Request, Alone(r), OthersWait(r), Upright(HalfwayUser(r))', Informed(r)'
    PROVE  Orderly'
<1>1. \A s \in Request \ {r} : req'[s].op = "none"
  BY DEF Alone, OthersWait
<1>2. Alone(r)'
  BY <1>1 DEF Alone
<1>3. \A s \in Request : req'[s].op # "none" => s = r
  BY <1>1
<1>4. \A s \in Request : (Informed(s))'
  <2>1. SUFFICES ASSUME NEW s \in Request, s # r
                 PROVE  Informed(s)'
    OBVIOUS
  <2>2. req'[s].op = "none"
    BY <1>1, <2>1
  <2>3. QED
    BY <2>2 DEF Informed, ReadsHold, WritesHold, FollowedLinks, Mailing, Halfway, Accepting,
                Answering
<1>5. \A s \in Request \ {r} : (HalfwayUser(s))' = {}
  BY <1>1 DEF HalfwayUser, Halfway
<1>6. (UNION {HalfwayUser(s) : s \in Request})' = (HalfwayUser(r))'
  BY <1>5
<1>7. QED
  BY <1>2, <1>3, <1>4, <1>6 DEF Orderly

\* Alone, a handler reads the newest versions.
LEMMA AloneSees ==
    ASSUME Typing, RowsAreHeld, NEW r \in Request, Alone(r), NEW k \in Key
    PROVE  /\ Visible(r)[k] = draft[k]
           /\ holder[k] # r => db[k] = draft[k]
           /\ HoldsNothing(r) => db[k] = draft[k]
<1>1. ASSUME NEW s \in Request \ {r}
      PROVE  holder[k] # s
  <2>1. req[s].op \in Untransacted /\ HandlerOK(s)
    BY DEF Alone, Untransacted, Typing
  <2>2. QED
    BY <2>1 DEF HandlerOK, HoldsNothing
<1>2. holder[k] = r \/ holder[k] = NoRequest
  BY <1>1 DEF RowsAreHeld
<1>3. holder[k] # r => db[k] = draft[k]
  BY <1>2 DEF RowsAreHeld, FreeRowsAreCommitted
<1>4. QED
  BY <1>3, ReadsRow DEF HoldsNothing

\* What a step does to the rows.
RowsMove(r) ==
    \/ UNCHANGED tables \/ RollbackTx(r) \/ CommitTx(r)
    \/ \E rows : Put(r, rows) \/ PutNow(rows)

LEMMA ExecuteMoves ==
    ASSUME NEW r, NEW statement, NEW ok, NEW rows, NEW knows, NEW after,
           \/ Execute(r, statement, ok, rows, knows, after)
           \/ ExecuteNow(r, statement, ok, rows, knows, after)
    PROVE  RowsMove(r)
BY DEF Execute, ExecuteNow, RowsMove, Throw, PutNow

LEMMA StepsMove ==
    ASSUME NEW r \in Request, Begin(r) \/ Run(r) \/ Abort(r)
    PROVE  RowsMove(r)
<1>1. CASE Begin(r)
  <2>1. UNCHANGED tables
    BY <1>1 DEF Begin, Start, createUser, updateUser, deleteUser, banUser, unbanUser,
       resendConfirmEmail, confirmEmail, forgotPassword, resendForgotPasswordEmail,
       resetPassword, createInviteByEmail, acceptEmailInvite, rejectEmailInvite, FollowInvite,
       createInvite, acceptInvite, rejectInvite, AnswerInvite, login, refreshToken, logout, query
  <2>2. QED
    BY <2>1 DEF RowsMove
<1>2. CASE Abort(r)
  BY <1>2 DEF Abort, Throw, RowsMove
<1>3. CASE \/ checkEmailFree(r) \/ readUser(r) \/ readUnconfirmed(r) \/ checkConfirmCode(r)
           \/ checkResetCode(r) \/ checkNoGhost(r) \/ findInvitee(r) \/ readGhost(r)
           \/ readInvite(r) \/ validateCreateInvite(r) \/ verifyRefreshToken(r) \/ AuthGuard(r)
           \/ findActive(r) \/ findRealUser(r) \/ authenticate(r) \/ authenticateUser(r)
           \/ validateAnswer(r)
  BY <1>3 DEF checkEmailFree, readUser, readUnconfirmed, checkConfirmCode, checkResetCode,
     checkNoGhost, findInvitee, readGhost, readInvite, validateCreateInvite, verifyRefreshToken,
     validateAnswer,
     AuthGuard, findActive, findRealUser, authenticate, authenticateUser, Read, Throw, RowsMove
<1>4. CASE \/ mailConfirm(r) \/ mailReset(r) \/ mailInvite(r) \/ invalidateAccessToken(r)
           \/ invalidateRefreshToken(r) \/ deliver(r) \/ commit(r) \/ done(r)
  BY <1>4 DEF mailConfirm, mailReset, mailInvite, Mail, invalidateAccessToken,
     invalidateRefreshToken, deliver, commit, done, Throw, RowsMove
<1>5. CASE \/ insertUser(r) \/ insertGhost(r) \/ insertInvite(r) \/ insertContacts(r)
           \/ redirectInvite(r) \/ setInviteAccepted(r) \/ answerInvite(r)
  BY <1>5, ExecuteMoves DEF insertUser, InsertUser, insertGhost, insertInvite, insertContacts,
     redirectInvite, setInviteAccepted, SetInvite, answerInvite
<1>6. CASE \/ setUser(r) \/ setConfirmCode(r) \/ setBanned(r) \/ becomeUser(r) \/ dropUser(r)
           \/ deleteGhost(r)
  BY <1>6, ExecuteMoves DEF setUser, setConfirmCode, setBanned, becomeUser, dropUser, deleteGhost
<1>7. CASE \/ renewConfirmCode(r) \/ clearConfirmCode(r) \/ renewResetCode(r) \/ setPassword(r)
  BY <1>7, ExecuteMoves DEF renewConfirmCode, clearConfirmCode, renewResetCode, setPassword
<1>8. QED
  BY <1>1, <1>2, <1>3, <1>4, <1>5, <1>6, <1>7 DEF Run

LEMMA NextKeepsRowsHeld == RowsAreHeld /\ [Next]_vars => RowsAreHeld'
<1>1. SUFFICES ASSUME RowsAreHeld, [Next]_vars
               PROVE  RowsAreHeld'
  OBVIOUS
<1>2. CASE UNCHANGED tables
  BY <1>1, <1>2 DEF RowsAreHeld, FreeRowsAreCommitted, tables
<1>3. ASSUME NEW r \in Request, RollbackTx(r)
      PROVE  RowsAreHeld'
  BY <1>1, <1>3, RollbackRow DEF RowsAreHeld, FreeRowsAreCommitted
<1>4. ASSUME NEW r \in Request, CommitTx(r)
      PROVE  RowsAreHeld'
  BY <1>1, <1>4, CommitRow DEF RowsAreHeld, FreeRowsAreCommitted
<1>5. ASSUME NEW r \in Request, NEW rows, Put(r, rows)
      PROVE  RowsAreHeld'
  BY <1>1, <1>5, PutRow, NoRequestIsNoRequest DEF RowsAreHeld, FreeRowsAreCommitted
<1>6. ASSUME NEW rows, PutNow(rows)
      PROVE  RowsAreHeld'
  BY <1>1, <1>6, PutNowRow DEF RowsAreHeld, FreeRowsAreCommitted
<1>7. UNCHANGED tables \/ \E r \in Request : RowsMove(r)
  BY <1>1, StepsMove DEF Next, Time, vars
<1>8. QED
  BY <1>2, <1>3, <1>4, <1>5, <1>6, <1>7 DEF RowsMove

LEMMA RowsStayHeld == Spec => []RowsAreHeld
<1>1. Init => RowsAreHeld
  BY DEF Init, RowsAreHeld, FreeRowsAreCommitted
<1>2. QED
  BY <1>1, NextKeepsRowsHeld, PTL DEF Spec

-------------------------------------------------------------------------------
(* One step of the only handler.                                             *)

SameRows(t, t2) == \A k \in UserId \cup InviteId : t2[k] = t[k]

LEMMA SameRowsSound ==
    ASSUME NEW t, NEW t2, SameRows(t, t2), NEW n, NEW mail, NEW things,
           mail \subseteq Link, \A l \in mail : l.kind = "invite" => l.invite \in InviteId,
           Sound(t, n, mail, things)
    PROVE  Sound(t2, n, mail, things)
<1>1. CodesAreUnique(t2, n) /\ Unspent(t2, things)
  BY DEF Sound, SameRows, CodesAreUnique, Unspent
<1>2. ASSUME NEW l \in mail
      PROVE  NamesItsInvite(t2, l)
  <2>1. NamesItsInvite(t, l) /\ l.user \in UserId /\ (l.kind = "invite" => l.invite \in InviteId)
    BY DEF Sound, Link
  <2>2. QED
    BY <2>1 DEF SameRows, NamesItsInvite, Works
<1>3. QED
  BY <1>1, <1>2 DEF Sound

LEMMA SameAddressTrue ==
    ASSUME NEW t, NEW t2, NEW u, t2[u] = t[u], NEW how, NEW mail, NEW reached, NEW reached2,
           reached \subseteq reached2, AddressTrue(t, u, how, mail, reached)
    PROVE  AddressTrue(t2, u, how, mail, reached2)
BY DEF AddressTrue, ConfirmsMailed, Works

LEMMA ThrowOrderly ==
    ASSUME IInv, Typing, RowsAreHeld, Orderly, NEW r \in Request, Alone(r), Throw(r)
    PROVE  Orderly'
<1>1. RollbackTx(r) /\ Stay /\ OthersWait(r) /\ req'[r] = Idle
  BY DEF Throw, OthersWait, IInv, RequestsOK
<1>2. \A k \in Key : db'[k] = db[k] /\ draft'[k] = db[k]
  BY <1>1, AloneSees, RollbackRow
<1>3. SameRows(db, db') /\ SameRows(db, draft')
  BY <1>2, AccountKeys DEF SameRows
<1>4. Upright(HalfwayUser(r))
  BY OnlyOne
<1>5. UNCHANGED <<links, codes, spent, ended, proven, world>>
  BY <1>1 DEF Stay, ghostVars
<1>6. /\ Sound(db', codes', links', DOMAIN spent') /\ Sound(draft', codes', links', DOMAIN spent')
  BY <1>3, <1>4, <1>5, SameRowsSound DEF Upright, Typing, LinksOK
<1>7. ASSUME NEW u \in UserId
      PROVE  /\ AddressTrue(db', u, Worlds[world'].strategy, links', proven')
             /\ AddressTrue(draft', u, Worlds[world'].strategy, links', proven')
  <2>1. AddressTrue(db, u, Worlds[world].strategy, links, proven)
    BY <1>4 DEF Upright
  <2>2. db'[u] = db[u] /\ draft'[u] = db[u]
    BY <1>2, AccountKeys
  <2>3. QED
    BY <1>5, <2>1, <2>2, SameAddressTrue
<1>8. Upright(HalfwayUser(r))'
  BY <1>4, <1>5, <1>6, <1>7 DEF Upright
<1>9. Informed(r)'
  BY <1>1 DEF Idle, Informed, ReadsHold, WritesHold, FollowedLinks, Mailing, Halfway, Accepting,
     Answering
<1>10. QED
  BY <1>1, <1>8, <1>9, StillOrderly

\* A statement that writes nothing.
LEMMA QuietOrderly ==
    ASSUME IInv, Typing, Orderly, NEW r \in Request, Alone(r), OthersWait(r),
           UNCHANGED <<db, draft, links, codes, spent, ended, world>>, proven \subseteq proven',
           ~Halfway(req[r]), Informed(r)'
    PROVE  Orderly'
<1>1. Upright({})
  BY OnlyOne DEF HalfwayUser, Upright
<1>2. ASSUME NEW u \in UserId
      PROVE  /\ AddressTrue(db', u, Worlds[world'].strategy, links', proven')
             /\ AddressTrue(draft', u, Worlds[world'].strategy, links', proven')
  BY <1>1, SameAddressTrue DEF Upright
<1>3. Upright(HalfwayUser(r))'
  BY <1>1, <1>2 DEF Upright
<1>4. QED
  BY <1>3, StillOrderly

AllSame == UNCHANGED <<tables, links, codes, ghostVars>>

LEMMA ReadOrderly ==
    ASSUME IInv, Typing, RowsAreHeld, Orderly, NEW r \in Request, Alone(r),
           NEW statement, NEW ok, NEW got, Read(r, statement, ok, got), ~Halfway(req[r]),
           ok /\ AllSame /\ GoesOn(r, got, req[r].user, req[r].invite) => Informed(r)'
    PROVE  Orderly'
<1>1. CASE Throw(r)
  BY <1>1, ThrowOrderly
<1>2. CASE ok /\ req' = Knows(r, got) /\ Stay /\ UNCHANGED tables
  <2>1. AllSame /\ GoesOn(r, got, req[r].user, req[r].invite)
    BY <1>2, KnowsGoesOn DEF AllSame, Stay
  <2>2. QED
    BY <1>2, <2>1, QuietOrderly DEF AllSame, GoesOn, tables, ghostVars
<1>3. QED
  BY <1>1, <1>2 DEF Read

LEMMA ReadingOrderly ==
    ASSUME IInv, Typing, RowsAreHeld, Orderly, NEW r \in Request, Alone(r),
           \/ checkEmailFree(r) \/ readUser(r) \/ readUnconfirmed(r) \/ checkConfirmCode(r)
           \/ checkResetCode(r) \/ checkNoGhost(r) \/ findInvitee(r) \/ readGhost(r)
           \/ readInvite(r) \/ validateCreateInvite(r) \/ verifyRefreshToken(r) \/ AuthGuard(r)
           \/ validateAnswer(r)
    PROVE  Orderly'
<1>0. HandlerOK(r) /\ Informed(r) /\ req[r].pc \in Nat
  BY OnlyOne DEF Typing, IInv, RequestsOK, RequestOK
<1> USE DEF Informed, ReadsHold, WritesHold, FollowedLinks, Mailing, Halfway, Accepting, Answering
<1>s. ASSUME AllSame
      PROVE  /\ db' = db /\ draft' = draft /\ holder' = holder /\ links' = links /\ codes' = codes
             /\ proven' = proven /\ ended' = ended
  BY <1>s DEF AllSame, tables, ghostVars
<1>u. req[r].user \in UserId => /\ Visible(r)[req[r].user] = draft[req[r].user]
                                /\ HoldsNothing(r) => db[req[r].user] = draft[req[r].user]
  BY AloneSees, AccountKeys
<1>i. req[r].invite \in InviteId => /\ Visible(r)[req[r].invite] = draft[req[r].invite]
                                    /\ HoldsNothing(r) => db[req[r].invite] = draft[req[r].invite]
  BY AloneSees, AccountKeys
<1>1. CASE checkEmailFree(r)
  <2>1. req[r].op = "createUser" /\ req[r].pc = 1
    BY <1>1, PlacesAre DEF checkEmailFree, Read
  <2>2. ASSUME AllSame, GoesOn(r, Null, req[r].user, req[r].invite)
        PROVE  Informed(r)'
    BY <2>1, <2>2 DEF GoesOn
  <2> DEFINE ok == ByEmail(Visible(r), Lower[req[r].arg.email]) = {}
  <2>3. Read(r, "checkEmailFree", ok, Null)
    BY <1>1 DEF checkEmailFree
  <2>4. ~Halfway(req[r])
    BY <2>1
  <2> HIDE DEF ok, Halfway, Informed
  <2>5. QED
    BY <2>2, <2>3, <2>4, ReadOrderly
<1>2. CASE readUser(r)
  <2>1. req[r].op = "updateUser" /\ req[r].pc = 1
    BY <1>2, PlacesAre DEF readUser, Read
  <2>2. ASSUME AllSame, GoesOn(r, Now(r), req[r].user, req[r].invite)
        PROVE  Informed(r)'
    <3>1. req[r].user \in UserId
      BY <1>0, <2>1 DEF HandlerOK, LearntOK, HasUser, Named
    <3>2. QED
      BY <1>s, <1>u, <2>1, <2>2, <3>1 DEF GoesOn, Now
  <2>3. QED
    BY <1>2, <2>1, <2>2, ReadOrderly DEF readUser
<1>3. CASE readUnconfirmed(r)
  <2>1. req[r].op = "resendConfirmEmail" /\ req[r].pc = 1
    BY <1>3, PlacesAre DEF readUnconfirmed, Read
  <2>2. ASSUME AllSame, GoesOn(r, Now(r), req[r].user, req[r].invite)
        PROVE  Informed(r)'
    <3>1. req[r].user \in UserId /\ HoldsNothing(r)
      BY <1>0, <2>1 DEF HandlerOK, LearntOK, HasUser, Named, Untransacted
    <3>2. QED
      BY <1>s, <1>u, <2>1, <2>2, <3>1 DEF GoesOn, Now
  <2>3. QED
    BY <1>3, <2>1, <2>2, ReadOrderly DEF readUnconfirmed
<1>4. CASE checkConfirmCode(r)
  <2>1. req[r].op = "confirmEmail" /\ req[r].pc = 1
    BY <1>4, PlacesAre DEF checkConfirmCode, Read
  <2>2. ASSUME Now(r).confirmCode = req[r].arg, AllSame,
               GoesOn(r, Null, req[r].user, req[r].invite)
        PROVE  Informed(r)'
    <3>1. req[r].user \in UserId /\ HoldsNothing(r)
      BY <1>0, <2>1 DEF HandlerOK, LearntOK, HasUser, Named, Untransacted
    <3>2. QED
      BY <1>0, <1>s, <1>u, <2>1, <2>2, <3>1 DEF GoesOn, Now
  <2>3. QED
    BY <1>4, <2>1, <2>2, ReadOrderly DEF checkConfirmCode
<1>5. CASE checkResetCode(r)
  <2>1. req[r].op = "resetPassword" /\ req[r].pc = 1
    BY <1>5, PlacesAre DEF checkResetCode, Read
  <2>2. ASSUME Now(r).resetCode = req[r].arg.code, req[r].arg.code # Null, AllSame,
               GoesOn(r, Null, req[r].user, req[r].invite)
        PROVE  Informed(r)'
    <3>1. req[r].user \in UserId /\ HoldsNothing(r)
      BY <1>0, <2>1 DEF HandlerOK, LearntOK, HasUser, Named, Untransacted
    <3>2. QED
      BY <1>s, <1>u, <2>1, <2>2, <3>1 DEF GoesOn, Now
  <2>3. QED
    BY <1>5, <2>1, <2>2, ReadOrderly DEF checkResetCode
<1>6. CASE checkNoGhost(r) \/ findInvitee(r)
  <2>1. req[r].op = "createInviteByEmail" /\ req[r].pc \in {1, 2}
    BY <1>6, PlacesAre DEF checkNoGhost, findInvitee, Read
  <2>2. ASSUME AllSame, GoesOn(r, Null, req[r].user, req[r].invite)
        PROVE  Informed(r)'
    BY <2>1, <2>2 DEF GoesOn
  <2>3. QED
    BY <1>6, <2>1, <2>2, ReadOrderly DEF checkNoGhost, findInvitee
<1>7. CASE readGhost(r)
  <2>1. req[r].op \in {"acceptEmailInvite", "rejectEmailInvite"} /\ req[r].pc = 1
    BY <1>7, PlacesAre DEF readGhost, Read
  <2>2. ASSUME Exists(Now(r)), Now(r).confirmCode = req[r].arg.code, AllSame,
               GoesOn(r, Null, req[r].user, req[r].invite)
        PROVE  Informed(r)'
    <3>1. req[r].user \in UserId /\ HoldsNothing(r) /\ req[r].arg.user = req[r].user
      BY <1>0, <2>1 DEF HandlerOK, LearntOK, HasUser, Named, Untransacted
    <3>2. Works(db, req[r].arg) /\ Works(draft, req[r].arg)
      BY <1>u, <2>2, <3>1 DEF Works, Now
    <3>3. HoldsNothing(r)'
      BY <1>s, <2>2, <3>1 DEF HoldsNothing
    <3>4. QED
      BY <1>0, <1>s, <2>1, <2>2, <3>2, <3>3 DEF GoesOn
  <2>3. QED
    BY <1>7, <2>1, <2>2, ReadOrderly DEF readGhost
<1>8. CASE readInvite(r)
  <2>1. req[r].op \in {"acceptEmailInvite", "rejectEmailInvite"} /\ req[r].pc = 2
    BY <1>8, PlacesAre DEF readInvite, Read
  <2>2. ASSUME Exists(InviteNow(r)), InviteNow(r).status = "PENDING", AllSame,
               GoesOn(r, InviteNow(r), req[r].user, req[r].invite)
        PROVE  Informed(r)'
    <3>1. req[r].invite \in InviteId /\ HoldsNothing(r)
      BY <1>0, <2>1 DEF HandlerOK, ArgumentOK, Untransacted
    <3>2. Waiting(db[req[r].invite]) /\ Waiting(draft[req[r].invite])
      BY <1>i, <2>2, <3>1 DEF Waiting, InviteNow
    <3>3. /\ NamesItsInvite(db, req[r].arg) /\ NamesItsInvite(draft, req[r].arg)
      BY <1>0, <2>1, OnlyOne DEF Upright, Sound
    <3>4. /\ db[req[r].invite].invitee = req[r].user
          /\ draft[req[r].invite].invitee = req[r].user
      BY <1>0, <2>1, <3>2, <3>3 DEF NamesItsInvite
    <3>5. HoldsNothing(r)'
      BY <1>s, <2>2, <3>1 DEF HoldsNothing
    <3>6. QED
      BY <1>0, <1>s, <2>1, <2>2, <3>2, <3>4, <3>5 DEF GoesOn
  <2>3. QED
    BY <1>8, <2>1, <2>2, ReadOrderly DEF readInvite
<1>9. CASE validateCreateInvite(r)
  <2>1. req[r].op \in {"acceptByRealUser", "createInvite"} /\ req[r].pc = 1
    BY <1>9, PlacesAre DEF validateCreateInvite, Read
  <2>2. ASSUME AllSame, GoesOn(r, req[r].got, req[r].user, req[r].invite)
        PROVE  Informed(r)'
    BY <1>0, <1>s, <2>1, <2>2 DEF GoesOn
  <2>3. PICK ok : Read(r, "validateCreateInvite", ok, req[r].got)
    BY <1>9 DEF validateCreateInvite
  <2>4. ~Halfway(req[r])
    BY <2>1
  <2> HIDE DEF Halfway, Informed
  <2>5. QED
    BY <2>2, <2>3, <2>4, ReadOrderly
<1>10. CASE verifyRefreshToken(r)
  <2>1. \/ req[r].op = "refreshToken" /\ req[r].pc = 1
        \/ req[r].op = "logout" /\ req[r].pc = 2
    BY <1>10, PlacesAre DEF verifyRefreshToken, Read
  <2>2. Verifies(<<req[r].refresh, "refresh">>) => <<req[r].refresh, "refresh">> \notin ended
    BY DEF Verifies, IInv, EndedOK, Over
  <2>3. ASSUME Verifies(<<req[r].refresh, "refresh">>), AllSame,
               GoesOn(r, Null, req[r].user, req[r].invite), req'[r].refresh = req[r].refresh
        PROVE  Informed(r)'
    BY <1>s, <2>1, <2>2, <2>3 DEF GoesOn
  <2>4. QED
    <3>1. CASE Throw(r)
      BY <3>1, ThrowOrderly
    <3>2. CASE Verifies(<<req[r].refresh, "refresh">>) /\ req' = Knows(r, Null) /\ AllSame
      <4>1. GoesOn(r, Null, req[r].user, req[r].invite)
        BY <3>2, KnowsGoesOn
      <4>2. req'[r].refresh = req[r].refresh
        BY <3>2 DEF Knows, IInv, RequestsOK
      <4>3. QED
        BY <2>1, <2>3, <3>2, <4>1, <4>2, QuietOrderly DEF AllSame, GoesOn, tables, ghostVars
    <3>3. QED
      BY <1>10, <3>1, <3>2 DEF verifyRefreshToken, Read, Stay, AllSame
<1>11. CASE AuthGuard(r)
  <2>1. req[r].op \in {"logout", "query"} /\ req[r].pc = 1
    BY <1>11, PlacesAre DEF AuthGuard, Read
  <2>2. ASSUME AllSame, GoesOn(r, Null, req[r].user, req[r].invite)
        PROVE  Informed(r)'
    BY <2>1, <2>2 DEF GoesOn
  <2>3. QED
    BY <1>11, <2>1, <2>2, ReadOrderly DEF AuthGuard
<1>12. CASE validateAnswer(r)
  <2>1. req[r].op \in {"acceptInvite", "rejectInvite"} /\ req[r].pc = 1
    BY <1>12, PlacesAre DEF validateAnswer, Read
  <2>2. ASSUME AllSame, GoesOn(r, Null, req[r].user, req[r].invite)
        PROVE  Informed(r)'
    BY <2>1, <2>2 DEF GoesOn
  <2>3. PICK ok : Read(r, "validateAnswer", ok, Null)
    BY <1>12 DEF validateAnswer
  <2>4. ~Halfway(req[r])
    BY <2>1
  <2> HIDE DEF Halfway, Informed
  <2>5. QED
    BY <2>2, <2>3, <2>4, ReadOrderly
<1>13. QED
  BY <1>1, <1>2, <1>3, <1>4, <1>5, <1>6, <1>7, <1>8, <1>9, <1>10, <1>11, <1>12

LEMMA LookingUpOrderly ==
    ASSUME IInv, Typing, RowsAreHeld, Orderly, NEW r \in Request, Alone(r),
           findActive(r) \/ authenticate(r) \/ authenticateUser(r) \/ findRealUser(r)
    PROVE  Orderly'
<1> USE DEF Informed, ReadsHold, WritesHold, FollowedLinks, Mailing, Halfway, Accepting, Answering
<1>0. SUFFICES ASSUME ~Throw(r)
               PROVE  Orderly'
  BY ThrowOrderly
<1>1. Informed(r)
  BY OnlyOne
<1>2. Stay /\ UNCHANGED tables
  BY <1>0 DEF findActive, authenticate, authenticateUser, findRealUser
<1>3. UNCHANGED <<db, draft, holder, links, codes, spent, ended, world, proven>>
  BY <1>2 DEF Stay, tables, ghostVars
<1>4. CASE findActive(r)
  <2>1. req[r].op \in {"forgotPassword", "resendForgotPasswordEmail"} /\ req[r].pc = 1
    BY <1>4, PlacesAre DEF findActive
  <2>2. PICK u : req' = [Knows(r, Visible(r)[u]) EXCEPT ![r].user = u]
    BY <1>0, <1>4 DEF findActive
  <2>3. GoesOn(r, Visible(r)[u], u, req[r].invite)
    BY <2>2, KnowsGoesOn
  <2>4. QED
    BY <1>3, <2>1, <2>3, QuietOrderly DEF GoesOn
<1>5. CASE authenticate(r)
  <2>1. req[r].op = "login" /\ req[r].pc = 1
    BY <1>5, PlacesAre DEF authenticate
  <2>2. PICK u : req' = [Goes(r) EXCEPT ![r].user = u]
    BY <1>0, <1>5 DEF authenticate
  <2>3. GoesOn(r, req[r].got, u, req[r].invite)
    BY <2>2, KnowsGoesOn DEF Goes
  <2>4. QED
    BY <1>3, <2>1, <2>3, QuietOrderly DEF GoesOn
<1>6. CASE authenticateUser(r)
  <2>1. req[r].op = "refreshToken" /\ req[r].pc = 2
    BY <1>6, PlacesAre DEF authenticateUser
  <2>2. PICK u : req' = [Goes(r) EXCEPT ![r].user = u]
    BY <1>0, <1>6 DEF authenticateUser
  <2>3. GoesOn(r, req[r].got, u, req[r].invite)
    BY <2>2, KnowsGoesOn DEF Goes
  <2>4. req'[r].refresh = req[r].refresh
    BY <2>2 DEF Goes, Knows, IInv, RequestsOK
  <2>5. Informed(r)' /\ ~Halfway(req[r])
    BY <1>1, <1>3, <2>1, <2>3, <2>4 DEF GoesOn
  <2> HIDE DEF Informed, Halfway
  <2>6. QED
    BY <1>3, <2>3, <2>5, QuietOrderly DEF GoesOn
<1>7. CASE findRealUser(r)
  <2>1. req[r].op = "acceptEmailInvite" /\ req[r].pc = 3
    BY <1>7, PlacesAre DEF findRealUser
  <2>2. PICK op \in {"acceptByRealUser", "acceptByGhost"} : \E got :
            req' = [req EXCEPT ![r].op = op, ![r].pc = 1, ![r].got = got]
    BY <1>7 DEF findRealUser
  <2>3. /\ OthersWait(r) /\ req'[r].op = op /\ req'[r].pc = 1
        /\ req'[r].arg = req[r].arg /\ req'[r].user = req[r].user /\ req'[r].invite = req[r].invite
    <3>1. DOMAIN req = Request /\ DOMAIN req[r] = DOMAIN Idle
      BY DEF IInv, RequestsOK, RequestOK
    <3>2. DOMAIN Idle = {"op", "pc", "arg", "seen", "got", "user", "invite", "access", "refresh",
                         "late"}
      BY DEF Idle
    <3>3. QED
      BY <2>2, <3>1, <3>2 DEF OthersWait
  <2>4. Waiting(db[req[r].invite]) /\ Waiting(db'[req'[r].invite])
    BY <1>1, <1>3, <2>1, <2>3
  <2>5. Informed(r)' /\ ~Halfway(req[r])
    BY <1>1, <1>3, <2>1, <2>3, <2>4
  <2> HIDE DEF Informed, Halfway
  <2>6. QED
    BY <1>3, <2>3, <2>5, QuietOrderly
<1>8. QED
  BY <1>4, <1>5, <1>6, <1>7

LEMMA InvalidatingOrderly ==
    ASSUME IInv, Typing, RowsAreHeld, Orderly, NEW r \in Request, Alone(r),
           invalidateAccessToken(r) \/ invalidateRefreshToken(r)
    PROVE  Orderly'
<1> USE DEF Informed, ReadsHold, WritesHold, FollowedLinks, Mailing, Halfway, Accepting, Answering
<1>1. Informed(r)
  BY OnlyOne
<1>2. \/ req[r].op = "refreshToken" /\ req[r].pc \in {3, 4}
      \/ req[r].op = "logout" /\ req[r].pc \in {3, 4}
  <2>1. invalidateAccessToken(r) => \/ req[r].op = "refreshToken" /\ req[r].pc = 3
                                    \/ req[r].op = "logout" /\ req[r].pc = 4
    BY PlacesAre DEF invalidateAccessToken
  <2>2. invalidateRefreshToken(r) => \/ req[r].op = "refreshToken" /\ req[r].pc = 4
                                     \/ req[r].op = "logout" /\ req[r].pc = 3
    BY PlacesAre DEF invalidateRefreshToken
  <2>3. QED
    BY <2>1, <2>2
<1>3. req' = Goes(r) /\ UNCHANGED <<tables, links, codes, ghostVars>>
  BY DEF invalidateAccessToken, invalidateRefreshToken
<1>4. UNCHANGED <<db, draft, holder, links, codes, spent, ended, world, proven>>
  BY <1>3 DEF tables, ghostVars
<1>5. GoesOn(r, req[r].got, req[r].user, req[r].invite)
  BY <1>3, KnowsGoesOn DEF Goes
<1>6. req'[r].refresh = req[r].refresh
  BY <1>3 DEF Goes, Knows, IInv, RequestsOK
<1>7. QED
  BY <1>1, <1>2, <1>4, <1>5, <1>6, QuietOrderly DEF GoesOn

\* One more thing is taken.
LEMMA SpendingSound ==
    ASSUME NEW t, NEW n, NEW mail, NEW things, Sound(t, n, mail, things), NEW kind, NEW x,
           kind = "confirm" => \A u \in UserId : Exists(t[u]) => t[u].confirmCode # x,
           kind = "reset" => \A u \in UserId : Exists(t[u]) => t[u].resetCode # x,
           kind = "invite" /\ x \in InviteId => Closed(t[x])
    PROVE  Sound(t, n, mail, things \cup {<<kind, x>>})
BY DEF Sound, Unspent

LEMMA MailSound ==
    ASSUME NEW t, NEW n, NEW mail, NEW things, Sound(t, n, mail, things), NEW new,
           \A l \in new : NamesItsInvite(t, l)
    PROVE  Sound(t, n, mail \cup new, things)
BY DEF Sound

LEMMA MailTrue ==
    ASSUME NEW t, NEW u, NEW how, NEW mail, NEW reached, AddressTrue(t, u, how, mail, reached),
           NEW new, \A l \in new : l.user = u => ConfirmsMailed(t, l)
    PROVE  AddressTrue(t, u, how, mail \cup new, reached)
BY DEF AddressTrue

LEMMA MailOrderly ==
    ASSUME IInv, Typing, Orderly, NEW r \in Request, Alone(r), OthersWait(r), ~Halfway(req[r]),
           UNCHANGED <<db, draft, codes, spent, ended, world, proven>>,
           NEW new, links' = links \cup new, LinksCoded(new, codes),
           \A l \in new : /\ NamesItsInvite(db, l) /\ NamesItsInvite(draft, l)
                          /\ ConfirmsMailed(db, l) /\ ConfirmsMailed(draft, l),
           Informed(r)'
    PROVE  Orderly'
<1>1. Upright({})
  BY OnlyOne DEF HalfwayUser, Upright
<1>2. /\ Sound(db, codes, links \cup new, DOMAIN spent)
      /\ Sound(draft, codes, links \cup new, DOMAIN spent)
  BY <1>1, MailSound DEF Upright
<1>3. ASSUME NEW u \in UserId
      PROVE  /\ AddressTrue(db, u, Worlds[world].strategy, links \cup new, proven)
             /\ AddressTrue(draft, u, Worlds[world].strategy, links \cup new, proven)
  BY <1>1, MailTrue DEF Upright
<1>4. LinksCoded(links', codes')
  BY <1>1 DEF Upright, LinksCoded
<1>5. Upright(HalfwayUser(r))'
  BY <1>1, <1>2, <1>3, <1>4 DEF Upright
<1>6. QED
  BY <1>5, StillOrderly

LEMMA MailingOrderly ==
    ASSUME IInv, Typing, RowsAreHeld, Orderly, NEW r \in Request, Alone(r),
           mailConfirm(r) \/ mailReset(r) \/ mailInvite(r)
    PROVE  Orderly'
<1> USE DEF Informed, ReadsHold, WritesHold, FollowedLinks, Mailing, Halfway, Accepting, Answering
<1>1. Informed(r)
  BY OnlyOne
<1>2. req' = Goes(r) /\ UNCHANGED <<tables, tokenVars, codes, ghostVars>>
  BY DEF mailConfirm, mailReset, mailInvite, Mail
<1>3. UNCHANGED <<db, draft, holder, codes, spent, ended, world, proven>>
  BY <1>2 DEF tables, ghostVars
<1>4. GoesOn(r, req[r].got, req[r].user, req[r].invite)
  BY <1>2, KnowsGoesOn DEF Goes
<1>5. CASE mailConfirm(r)
  <2> DEFINE new == IF req[r].got.confirmCode = Null THEN {}
                    ELSE {PlainLink(r, "confirm", req[r].got.confirmCode)}
  <2>1. \/ req[r].op = "createUser" /\ req[r].pc = 4
        \/ req[r].op = "changeEmail" /\ req[r].pc = 2
        \/ req[r].op = "resendConfirmEmail" /\ req[r].pc = 3
    BY <1>5, PlacesAre DEF mailConfirm, Mail
  <2>2. ASSUME NEW l \in new
        PROVE  /\ l.kind = "confirm" /\ l.code \in 0..codes
               /\ ConfirmsMailed(db, l) /\ ConfirmsMailed(draft, l)
    <3>1. /\ req[r].got.confirmCode # Null /\ l.kind = "confirm" /\ l.user = req[r].user
          /\ l.code = req[r].got.confirmCode /\ l.to = req[r].got.email
      BY DEF PlainLink
    <3>2. QED
      BY <1>1, <2>1, <3>1 DEF ConfirmsMailed, Works
  <2>3. links' = links \cup new
    BY <1>5 DEF mailConfirm, Mail
  <2> HIDE DEF new
  <2>4. LinksCoded(new, codes) /\ \A l \in new : NamesItsInvite(db, l) /\ NamesItsInvite(draft, l)
    BY <2>2 DEF LinksCoded, NamesItsInvite
  <2>5. Informed(r)'
    BY <1>4, <2>1 DEF GoesOn
  <2>6. ~Halfway(req[r])
    BY <2>1
  <2> HIDE DEF Informed, Halfway
  <2>7. QED
    BY <1>3, <1>4, <2>2, <2>3, <2>4, <2>5, <2>6, MailOrderly DEF GoesOn
<1>6. CASE mailReset(r)
  <2> DEFINE new == {PlainLink(r, "reset", req[r].got.resetCode)}
  <2>1. \/ req[r].op = "forgotPassword" /\ req[r].pc = 3
        \/ req[r].op = "resendForgotPasswordEmail" /\ req[r].pc = 2
    BY <1>6, PlacesAre DEF mailReset, Mail
  <2>2. \A l \in new : l.kind = "reset"
    BY DEF PlainLink
  <2>3. links' = links \cup new
    BY <1>6 DEF mailReset, Mail
  <2> HIDE DEF new
  <2>4. /\ LinksCoded(new, codes)
        /\ \A l \in new : /\ NamesItsInvite(db, l) /\ NamesItsInvite(draft, l)
                          /\ ConfirmsMailed(db, l) /\ ConfirmsMailed(draft, l)
    BY <2>2 DEF LinksCoded, NamesItsInvite, ConfirmsMailed
  <2>5. Informed(r)'
    BY <1>4, <2>1 DEF GoesOn
  <2>6. ~Halfway(req[r])
    BY <2>1
  <2> HIDE DEF Informed, Halfway
  <2>7. QED
    BY <1>3, <1>4, <2>3, <2>4, <2>5, <2>6, MailOrderly DEF GoesOn
<1>7. CASE mailInvite(r)
  <2> DEFINE ghost == req[r].got.row
             new == {[kind |-> "invite", user |-> req[r].got.invitee, code |-> ghost.confirmCode,
                      to |-> req[r].arg, invite |-> req[r].invite, resetCode |-> ghost.resetCode]}
  <2>1. req[r].op = "createInviteByEmail" /\ req[r].pc = 5
    BY <1>7, PlacesAre DEF mailInvite, Mail
  <2>2. ASSUME NEW l \in new
        PROVE  /\ l.kind = "invite" /\ l.code \in 0..codes
               /\ NamesItsInvite(db, l) /\ NamesItsInvite(draft, l)
    <3>1. /\ l.kind = "invite" /\ l.user = req[r].got.invitee /\ l.invite = req[r].invite
          /\ l.code = req[r].got.row.confirmCode
      OBVIOUS
    <3>2. QED
      BY <1>1, <2>1, <3>1 DEF NamesItsInvite, Works, Exists, Waiting
  <2>3. links' = links \cup new
    BY <1>7 DEF mailInvite, Mail
  <2> HIDE DEF new
  <2>4. LinksCoded(new, codes) /\ \A l \in new : ConfirmsMailed(db, l) /\ ConfirmsMailed(draft, l)
    BY <2>2 DEF LinksCoded, ConfirmsMailed
  <2>5. Informed(r)'
    BY <1>4, <2>1 DEF GoesOn
  <2>6. ~Halfway(req[r])
    BY <2>1
  <2> HIDE DEF Informed, Halfway
  <2>7. QED
    BY <1>3, <1>4, <2>2, <2>3, <2>4, <2>5, <2>6, MailOrderly DEF GoesOn
<1>8. QED
  BY <1>5, <1>6, <1>7

\* A handler that ends, with what it takes and what it mails.
LEMMA EndingOrderly ==
    ASSUME Orderly, NEW r \in Request, Alone(r), OthersWait(r), req'[r] = Idle,
           codes' = codes, LinksCoded(links', codes), SpentCoded(DOMAIN spent', codes),
           Sound(db', codes, links', DOMAIN spent'), Sound(draft', codes, links', DOMAIN spent'),
           \A u \in UserId : /\ AddressTrue(db', u, Worlds[world'].strategy, links', proven')
                             /\ AddressTrue(draft', u, Worlds[world'].strategy, links', proven'),
           \A thing \in DOMAIN spent' : spent'[thing] = 1,
           \A s : <<"refresh", s>> \in DOMAIN spent' => <<s, "refresh">> \in ended'
    PROVE  Orderly'
<1>1. Informed(r)'
  BY DEF Idle, Informed, ReadsHold, WritesHold, FollowedLinks, Mailing, Halfway, Accepting,
     Answering
<1>2. Upright(HalfwayUser(r))'
  BY DEF Upright
<1>3. QED
  BY <1>1, <1>2, StillOrderly

LEMMA DeliverOrderly ==
    ASSUME IInv, Typing, RowsAreHeld, Orderly, NEW r \in Request, Alone(r), deliver(r)
    PROVE  Orderly'
<1>0. SUFFICES ASSUME ~Throw(r)
               PROVE  Orderly'
  BY ThrowOrderly
<1>1. \/ req[r].op = "login" /\ req[r].pc = 2
      \/ req[r].op = "refreshToken" /\ req[r].pc = 5
  BY PlacesAre DEF deliver
<1>2. /\ req' = Finished(r)
      /\ UNCHANGED <<tables, links, codes, world, overlapped, sent, proven>>
      /\ IF req[r].op = "refreshToken"
         THEN /\ spent' = spent (+) SetToBag({<<"refresh", req[r].refresh>>})
              /\ ended' = ended \cup ToEnd(req[r])
         ELSE UNCHANGED <<spent, ended>>
  BY <1>0 DEF deliver
<1>3. OthersWait(r) /\ req'[r] = Idle
  BY <1>2 DEF Finished, OthersWait, IInv, RequestsOK
<1>4. Upright({}) /\ Informed(r)
  BY <1>1, OnlyOne DEF HalfwayUser, Halfway, Upright
<1>5. UNCHANGED <<db, draft, links, codes, proven, world>>
  BY <1>2 DEF tables
<1>6. CASE req[r].op # "refreshToken"
  BY <1>2, <1>3, <1>4, <1>5, <1>6, EndingOrderly DEF Upright
<1>7. CASE req[r].op = "refreshToken"
  <2> DEFINE thing == <<"refresh", req[r].refresh>>
  <2>1. <<req[r].refresh, "refresh">> \notin ended
    BY <1>1, <1>4, <1>7 DEF Informed, FollowedLinks
  <2>2. thing \notin DOMAIN spent
    BY <1>4, <2>1 DEF Upright
  <2>3. /\ DOMAIN spent' = DOMAIN spent \cup {thing}
        /\ \A x \in DOMAIN spent' : spent'[x] = 1
    <3>1. spent' = spent (+) SetToBag({thing})
      BY <1>2, <1>7
    <3>2. \A x \in DOMAIN spent : spent[x] = 1
      BY <1>4 DEF Upright
    <3> HIDE DEF thing
    <3>3. QED
      BY <2>2, <3>1, <3>2 DEF (+), SetToBag
  <2>4. /\ Sound(db, codes, links, DOMAIN spent \cup {thing})
        /\ Sound(draft, codes, links, DOMAIN spent \cup {thing})
    BY <1>4, SpendingSound DEF Upright
  <2>5. \A s : <<"refresh", s>> \in DOMAIN spent' => <<s, "refresh">> \in ended'
    BY <1>2, <1>4, <1>7, <2>3 DEF Upright, ToEnd
  <2>6. SpentCoded(DOMAIN spent', codes)
    BY <1>4, <2>3 DEF Upright, SpentCoded
  <2>7. QED
    BY <1>3, <1>4, <1>5, <2>3, <2>4, <2>5, <2>6, EndingOrderly DEF Upright
<1>8. QED
  BY <1>6, <1>7

LEMMA DoneOrderly ==
    ASSUME IInv, Typing, RowsAreHeld, Orderly, NEW r \in Request, Alone(r), done(r)
    PROVE  Orderly'
<1>1. ~Halfway(req[r])
  BY PlacesAre DEF done, Halfway
<1>2. /\ req' = Finished(r)
      /\ UNCHANGED <<tables, links, codes, world, overlapped, sent, proven, spent>>
      /\ ended \subseteq ended'
  BY DEF done
<1>3. OthersWait(r) /\ req'[r] = Idle
  BY <1>2 DEF Finished, OthersWait, IInv, RequestsOK
<1>4. Upright({})
  BY <1>1, OnlyOne DEF HalfwayUser, Upright
<1>5. UNCHANGED <<db, draft, links, codes, proven, world, spent>>
  BY <1>2 DEF tables
<1>6. \A s : <<"refresh", s>> \in DOMAIN spent' => <<s, "refresh">> \in ended'
  BY <1>2, <1>4 DEF Upright
<1>7. QED
  BY <1>3, <1>4, <1>5, <1>6, EndingOrderly DEF Upright

LEMMA CommitOrderly ==
    ASSUME IInv, Typing, RowsAreHeld, Orderly, NEW r \in Request, Alone(r), commit(r)
    PROVE  Orderly'
<1> DEFINE mail == {[kind |-> "reset", user |-> req[r].got.invitee, code |-> req[r].got.resetCode,
                     to |-> req[r].arg.to, invite |-> Null, resetCode |-> Null]}
           new == IF req[r].op \in {"acceptByRealUser", "acceptByGhost"} THEN mail ELSE {}
           thing == <<"invite", req[r].invite>>
<1>1. ~Halfway(req[r])
  BY PlacesAre DEF commit, Halfway
<1>2. /\ CommitTx(r) /\ req' = Finished(r)
      /\ spent' = IF Answered(r) THEN spent (+) SetToBag({thing}) ELSE spent
      /\ links' = links \cup new
      /\ UNCHANGED <<codes, world, proven, ended>>
  BY DEF commit
<1>3. OthersWait(r) /\ req'[r] = Idle
  BY <1>2 DEF Finished, OthersWait, IInv, RequestsOK
<1>4. Upright({}) /\ Informed(r)
  BY <1>1, OnlyOne DEF HalfwayUser, Upright
<1>5. \A k \in Key : db'[k] = draft[k] /\ draft'[k] = draft[k]
  BY <1>2, AloneSees, CommitRow
<1>6. SameRows(draft, db') /\ SameRows(draft, draft')
  BY <1>5, AccountKeys DEF SameRows
<1>7. \A l \in new : l.kind = "reset"
  OBVIOUS
<1> HIDE DEF mail, new
<1>8. /\ \A l \in new : NamesItsInvite(draft, l) /\ ConfirmsMailed(draft, l)
      /\ LinksCoded(links', codes)
  BY <1>2, <1>4, <1>7 DEF NamesItsInvite, ConfirmsMailed, Upright, LinksCoded
<1>9. Answered(r) => thing \notin DOMAIN spent /\ Closed(draft[req[r].invite])
  <2>1. SUFFICES ASSUME Answered(r)
                 PROVE  thing \notin DOMAIN spent /\ Closed(draft[req[r].invite])
    OBVIOUS
  <2>2. \/ req[r].op \in Accepting /\ req[r].pc > 2
        \/ req[r].op = "rejectEmailInvite" /\ req[r].pc > 3
    BY <2>1, PlacesAre DEF commit, Answered, Accepting
  <2>3. Waiting(db[req[r].invite]) /\ Closed(draft[req[r].invite])
    <3>1. req[r].pc \in Nat
      BY DEF IInv, RequestsOK, RequestOK
    <3>2. QED
      BY <1>4, <2>2, <3>1 DEF Informed, WritesHold
  <2>4. req[r].invite \in InviteId
    BY <2>2 DEF Typing, HandlerOK, ArgumentOK, Answering
  <2>5. QED
    BY <1>4, <2>3, <2>4 DEF Upright, Sound, Unspent, Closed
<1>10. /\ DOMAIN spent' = DOMAIN spent \cup IF Answered(r) THEN {thing} ELSE {}
       /\ \A x \in DOMAIN spent' : spent'[x] = 1
  <2>1. CASE ~Answered(r)
    BY <1>2, <1>4, <2>1 DEF Upright
  <2>2. CASE Answered(r)
    <3>1. spent' = spent (+) SetToBag({thing}) /\ thing \notin DOMAIN spent
      BY <1>2, <1>9, <2>2
    <3>2. \A x \in DOMAIN spent : spent[x] = 1
      BY <1>4 DEF Upright
    <3> HIDE DEF thing
    <3>3. /\ DOMAIN spent' = DOMAIN spent \cup {thing}
          /\ \A x \in DOMAIN spent' : spent'[x] = 1
      BY <3>1, <3>2 DEF (+), SetToBag
    <3>4. QED
      BY <2>2, <3>3
  <2>3. QED
    BY <2>1, <2>2
<1>11. Sound(draft, codes, links, DOMAIN spent')
  <2>1. CASE ~Answered(r)
    BY <1>2, <1>4, <2>1 DEF Upright
  <2>2. CASE Answered(r)
    <3>1. Sound(draft, codes, links, DOMAIN spent \cup {<<"invite", req[r].invite>>})
      BY <1>4, <1>9, <2>2, SpendingSound DEF Upright
    <3>2. QED
      BY <1>10, <2>2, <3>1
  <2>3. QED
    BY <2>1, <2>2
<1>12. Sound(draft, codes, links', DOMAIN spent')
  BY <1>2, <1>8, <1>11, MailSound
<1>13. LinksOK'
  <2>1. Typing'
    BY FinishingTyped
  <2>2. QED
    BY <2>1 DEF Typing
<1>14. Sound(db', codes, links', DOMAIN spent') /\ Sound(draft', codes, links', DOMAIN spent')
  BY <1>6, <1>12, <1>13, SameRowsSound DEF LinksOK
<1>15. ASSUME NEW u \in UserId
       PROVE  /\ AddressTrue(db', u, Worlds[world'].strategy, links', proven')
              /\ AddressTrue(draft', u, Worlds[world'].strategy, links', proven')
  <2>1. AddressTrue(draft, u, Worlds[world].strategy, links, proven)
    BY <1>4 DEF Upright
  <2>2. AddressTrue(draft, u, Worlds[world'].strategy, links', proven')
    BY <1>2, <1>8, <2>1, MailTrue
  <2>3. db'[u] = draft[u] /\ draft'[u] = draft[u]
    BY <1>5, AccountKeys
  <2>4. QED
    BY <2>2, <2>3, SameAddressTrue
<1>16. SpentCoded(DOMAIN spent', codes)
  BY <1>4, <1>10 DEF Upright, SpentCoded
<1>17. \A s : <<"refresh", s>> \in DOMAIN spent' => <<s, "refresh">> \in ended'
  BY <1>2, <1>4, <1>10 DEF Upright
<1>18. QED
  BY <1>2, <1>3, <1>8, <1>10, <1>14, <1>15, <1>16, <1>17, EndingOrderly

-------------------------------------------------------------------------------
(* Writes of the only handler.                                               *)

LEMMA AddressFollows ==
    ASSUME NEW t, NEW t2, NEW u, t2[u] = t[u] \/ ~Exists(t2[u]), NEW how, NEW mail, NEW reached,
           AddressTrue(t, u, how, mail, reached)
    PROVE  AddressTrue(t2, u, how, mail, reached)
BY DEF AddressTrue, ConfirmsMailed, Works

LEMMA SameColumnsTrue ==
    ASSUME NEW t, NEW t2, NEW u, Exists(t[u]), t2[u].confirmCode = t[u].confirmCode,
           t2[u].email = t[u].email, NEW how, NEW mail, NEW reached,
           AddressTrue(t, u, how, mail, reached)
    PROVE  AddressTrue(t2, u, how, mail, reached)
BY DEF AddressTrue, ConfirmsMailed, Works

\* No link was mailed yet with a new code, nor one with none.
LEMMA NewCodeTrue ==
    ASSUME NEW t, NEW u, NEW how, NEW mail, NEW reached, NEW n \in Nat, LinksCoded(mail, n),
           t[u].confirmCode = Null \/ t[u].confirmCode \in (n + 1)..(n + 2),
           how = "auto" \/ t[u].confirmCode # Null \/ <<u, t[u].email>> \in reached
    PROVE  AddressTrue(t, u, how, mail, reached)
<1>1. t[u].confirmCode \notin 0..n
  BY NullIsNoCode DEF Code
<1>2. QED
  BY <1>1 DEF AddressTrue, ConfirmsMailed, Works, LinksCoded

LEMMA WritingOrderly ==
    ASSUME IInv, Typing, Orderly, NEW r \in Request, Alone(r), OthersWait(r),
           codes' \in Nat, codes <= codes', UNCHANGED <<links, spent, ended, world, proven>>,
           NEW w, Follows(db, db', w, codes, codes'), Follows(draft, draft', w, codes, codes'),
           HalfwayUser(r) \subseteq {w},
           w \in UserId => AddressTrue(db', w, Worlds[world].strategy, links, proven),
           w \in UserId => \/ w \in (HalfwayUser(r))'
                           \/ AddressTrue(draft', w, Worlds[world].strategy, links, proven),
           Informed(r)'
    PROVE  Orderly'
<1>1. Upright(HalfwayUser(r))
  BY OnlyOne
<1>2. codes \in Nat /\ LinksOK
  BY DEF Typing, Code
<1>3. /\ Sound(db', codes', links, DOMAIN spent)
      /\ Sound(draft', codes', links, DOMAIN spent)
  BY <1>1, <1>2, SoundFollows DEF Upright, LinksOK
<1>4. LinksCoded(links, codes') /\ SpentCoded(DOMAIN spent, codes')
  BY <1>1, <1>2 DEF Upright, LinksCoded, SpentCoded
<1>5. ASSUME NEW u \in UserId, u # w
      PROVE  /\ AddressTrue(db', u, Worlds[world].strategy, links, proven)
             /\ AddressTrue(draft', u, Worlds[world].strategy, links, proven)
  <2>1. /\ AddressTrue(db, u, Worlds[world].strategy, links, proven)
        /\ AddressTrue(draft, u, Worlds[world].strategy, links, proven)
    BY <1>1, <1>5 DEF Upright
  <2>2. /\ db'[u] = db[u] \/ ~Exists(db'[u])
        /\ draft'[u] = draft[u] \/ ~Exists(draft'[u])
    BY <1>5 DEF Follows
  <2>3. QED
    BY <2>1, <2>2, AddressFollows
<1>6. Upright(HalfwayUser(r))'
  BY <1>1, <1>3, <1>4, <1>5 DEF Upright
<1>7. QED
  BY <1>6, StillOrderly

LEMMA UpdateFollows ==
    ASSUME Typing, RowsAreHeld, NEW r \in Request, Alone(r), NEW u \in UserId, NEW row, NEW m,
           Updates(r, u, row),
           Recodes(row.confirmCode, {draft[u].confirmCode}, codes, m),
           Recodes(row.resetCode, {draft[u].resetCode}, codes, m)
    PROVE  /\ Exists(draft[u]) /\ Now(r) = Visible(r)[req[r].user]
           /\ draft'[u] = row /\ \A k \in Key \ {u} : draft'[k] = draft[k]
           /\ db' = db
           /\ Follows(draft, draft', u, codes, m) /\ Follows(db, db', u, codes, m)
<1>1. PICK rows : DOMAIN rows = {u} /\ rows[u] = row /\ Put(r, rows)
  BY DEF Updates
<1>2. Exists(draft[u])
  BY AloneSees, AccountKeys DEF Updates
<1>3. draft'[u] = row /\ \A k \in Key \ {u} : draft'[k] = draft[k]
  BY <1>1, PutRow, AccountKeys
<1>4. db' = db
  BY <1>1 DEF Put
<1>5. Follows(draft, draft', u, codes, m)
  <2>1. \A v \in UserId \ {u} : draft'[v] = draft[v]
    BY <1>3, AccountKeys
  <2>2. \A i \in InviteId : draft'[i] = draft[i]
    BY <1>3, AccountKeys
  <2>3. QED
    BY <1>2, <1>3, <2>1, <2>2 DEF Follows, Recoded, Recodes
<1>6. Follows(db, db', u, codes, m)
  BY <1>4 DEF Follows, Recoded, Recodes
<1>7. QED
  BY <1>2, <1>3, <1>4, <1>5, <1>6 DEF Now

LEMMA UpdateNowFollows ==
    ASSUME Typing, RowsAreHeld, NEW r \in Request, Alone(r), HoldsNothing(r), NEW u \in UserId,
           NEW row, NEW m, UpdatesNow(r, u, row),
           Recodes(row.confirmCode, {draft[u].confirmCode}, codes, m),
           Recodes(row.resetCode, {draft[u].resetCode}, codes, m)
    PROVE  /\ Exists(draft[u]) /\ db[u] = draft[u]
           /\ draft'[u] = row /\ \A k \in Key \ {u} : draft'[k] = draft[k]
           /\ db'[u] = row /\ \A k \in Key \ {u} : db'[k] = db[k]
           /\ Follows(draft, draft', u, codes, m) /\ Follows(db, db', u, codes, m)
<1>1. PICK rows : DOMAIN rows = {u} /\ rows[u] = row /\ PutNow(rows)
  BY DEF UpdatesNow
<1>2. Exists(draft[u]) /\ db[u] = draft[u]
  BY AloneSees, AccountKeys DEF UpdatesNow
<1>3. /\ draft'[u] = row /\ \A k \in Key \ {u} : draft'[k] = draft[k]
      /\ db'[u] = row /\ \A k \in Key \ {u} : db'[k] = db[k]
  BY <1>1, PutNowRow, AccountKeys
<1>4. /\ \A v \in UserId \ {u} : draft'[v] = draft[v] /\ db'[v] = db[v]
      /\ \A i \in InviteId : draft'[i] = draft[i] /\ db'[i] = db[i]
  BY <1>3, AccountKeys
<1>5. Recoded(draft, draft', u, codes, m) /\ Recoded(db, db', u, codes, m)
  BY <1>2, <1>3 DEF Recoded, Recodes
<1>6. QED
  BY <1>2, <1>3, <1>4, <1>5 DEF Follows

LEMMA SetBannedOrderly ==
    ASSUME IInv, Typing, RowsAreHeld, Orderly, NEW r \in Request, Alone(r),
           setBanned(r), ~Throw(r)
    PROVE  Orderly'
<1> DEFINE u == req[r].user
           row == [Now(r) EXCEPT !.banned = req[r].arg]
<1>1. req[r].op \in {"banUser", "unbanUser"} /\ req[r].pc = 1
  BY PlacesAre DEF setBanned, Execute
<1>2. u \in UserId
  BY <1>1 DEF Typing, HandlerOK, LearntOK, HasUser, Named
<1>3. Updates(r, u, row) /\ req' = Goes(r) /\ Stay
  BY SetBannedDoes
<1>4. Now(r) = draft[u] /\ draft[u] \in UserRow
  BY <1>2, <1>3, AloneSees, AccountKeys DEF Updates, Now, Typing, RowsTyped
<1>5. /\ row.confirmCode = draft[u].confirmCode /\ row.resetCode = draft[u].resetCode
      /\ row.email = draft[u].email
  BY <1>4 DEF UserRow
<1> HIDE DEF row
<1>c. /\ Recodes(row.confirmCode, {draft[u].confirmCode}, codes, codes)
      /\ Recodes(row.resetCode, {draft[u].resetCode}, codes, codes)
  BY <1>5 DEF Recodes
<1> HIDE DEF u
<1>6. /\ Exists(draft[u]) /\ draft'[u] = row /\ db' = db
      /\ Follows(draft, draft', u, codes, codes) /\ Follows(db, db', u, codes, codes)
  BY <1>2, <1>3, <1>c, UpdateFollows
<1> USE DEF u
<1>7. GoesOn(r, req[r].got, u, req[r].invite)
  BY <1>3, KnowsGoesOn DEF Goes
<1>8. UNCHANGED <<links, codes, spent, ended, world, proven>>
  BY <1>3 DEF Stay, ghostVars
<1>9. Upright({})
  BY <1>1, OnlyOne DEF HalfwayUser, Halfway, Upright
<1>10. /\ AddressTrue(db', u, Worlds[world].strategy, links, proven)
       /\ AddressTrue(draft', u, Worlds[world].strategy, links, proven)
  BY <1>2, <1>5, <1>6, <1>9, SameColumnsTrue DEF Upright
<1>11. Informed(r)'
  BY <1>1, <1>7 DEF GoesOn, Informed, ReadsHold, WritesHold, FollowedLinks, Mailing, Halfway,
     Accepting, Answering
<1>12. codes \in Nat /\ HalfwayUser(r) = {} /\ OthersWait(r)
  BY <1>1, <1>7 DEF Typing, Code, HalfwayUser, Halfway, GoesOn
<1>13. QED
  BY <1>6, <1>8, <1>10, <1>11, <1>12, WritingOrderly

LEMMA SetUserOrderly ==
    ASSUME IInv, Typing, RowsAreHeld, Orderly, NEW r \in Request, Alone(r),
           setUser(r), ~Throw(r)
    PROVE  Orderly'
<1> DEFINE u == req[r].user
           email == req[r].arg.email
           row == [Now(r) EXCEPT !.email = Lower[email], !.password = req[r].arg.password]
<1>1. req[r].op = "updateUser" /\ req[r].pc = 2
  BY PlacesAre DEF setUser, Execute
<1>2. u \in UserId /\ email \in Typed
  BY <1>1 DEF Typing, HandlerOK, ArgumentOK, LearntOK, HasUser, Named
<1>3. /\ Updates(r, u, row) /\ Stay
      /\ req' = IF req[r].got.email = email THEN Knows(r, row)
                ELSE [Knows(r, row) EXCEPT ![r].op = "changeEmail", ![r].pc = 1]
  BY SetUserDoes
<1>4. Now(r) = draft[u] /\ draft[u] \in UserRow
  BY <1>2, <1>3, AloneSees, AccountKeys DEF Updates, Now, Typing, RowsTyped
<1>5. /\ row.confirmCode = draft[u].confirmCode /\ row.resetCode = draft[u].resetCode
      /\ row.email = Lower[email]
  BY <1>4 DEF UserRow
<1>6. draft[u] = req[r].got
  BY <1>1, OnlyOne DEF Informed, WritesHold
<1>7. req[r].got.email = email => row.email = draft[u].email
  <2>1. draft[u].email \in Address \cup GhostEmail
    BY <1>4 DEF UserRow
  <2>2. QED
    BY <1>2, <1>5, <1>6, <2>1, Addresses
<1>t. DOMAIN req = Request /\ DOMAIN req[r] = DOMAIN Idle
  BY DEF IInv, RequestsOK, RequestOK
<1>d. DOMAIN Idle = {"op", "pc", "arg", "seen", "got", "user", "invite", "access", "refresh",
                     "late"}
  BY DEF Idle
<1> HIDE DEF row
<1>c. /\ Recodes(row.confirmCode, {draft[u].confirmCode}, codes, codes)
      /\ Recodes(row.resetCode, {draft[u].resetCode}, codes, codes)
  BY <1>5 DEF Recodes
<1> HIDE DEF u
<1>8. /\ Exists(draft[u]) /\ draft'[u] = row /\ db' = db
      /\ Follows(draft, draft', u, codes, codes) /\ Follows(db, db', u, codes, codes)
  BY <1>2, <1>3, <1>c, UpdateFollows
<1> USE DEF u
<1>9. UNCHANGED <<links, codes, spent, ended, world, proven>>
  BY <1>3 DEF Stay, ghostVars
<1>10. Upright({})
  BY <1>1, OnlyOne DEF HalfwayUser, Halfway, Upright
<1>11. AddressTrue(db', u, Worlds[world].strategy, links, proven)
  BY <1>2, <1>8, <1>10 DEF Upright
<1>12. codes \in Nat /\ HalfwayUser(r) = {}
  BY <1>1 DEF Typing, Code, HalfwayUser, Halfway
<1>13. CASE req[r].got.email = email
  <2>1. GoesOn(r, row, u, req[r].invite)
    BY <1>3, <1>13, KnowsGoesOn
  <2>2. AddressTrue(draft', u, Worlds[world].strategy, links, proven)
    BY <1>2, <1>5, <1>7, <1>8, <1>10, <1>13, SameColumnsTrue DEF Upright
  <2>3. Informed(r)' /\ OthersWait(r)
    BY <1>1, <2>1 DEF GoesOn, Informed, ReadsHold, WritesHold, FollowedLinks, Mailing, Halfway,
       Accepting, Answering
  <2>4. QED
    BY <1>8, <1>9, <1>11, <1>12, <2>2, <2>3, WritingOrderly
<1>14. CASE req[r].got.email # email
  <2>1. req' = [Knows(r, row) EXCEPT ![r].op = "changeEmail", ![r].pc = 1]
    BY <1>3, <1>14
  <2>2. /\ OthersWait(r) /\ req'[r].op = "changeEmail" /\ req'[r].pc = 1
        /\ req'[r].got = row /\ req'[r].user = u
    BY <1>t, <1>d, <2>1 DEF Knows, OthersWait
  <2>3. Informed(r)'
    BY <1>8, <2>2 DEF Informed, ReadsHold, WritesHold, FollowedLinks, Mailing, Halfway,
       Accepting, Answering
  <2>4. u \in (HalfwayUser(r))'
    BY <2>2 DEF HalfwayUser, Halfway
  <2>5. QED
    BY <1>8, <1>9, <1>11, <1>12, <2>2, <2>3, <2>4, WritingOrderly
<1>15. QED
  BY <1>13, <1>14

LEMMA SetConfirmCodeOrderly ==
    ASSUME IInv, Typing, RowsAreHeld, Orderly, NEW r \in Request, Alone(r),
           setConfirmCode(r), ~Throw(r)
    PROVE  Orderly'
<1> DEFINE u == req[r].user
           row == [Now(r) EXCEPT !.confirmCode = NewConfirmCode]
           got == [req[r].got EXCEPT !.confirmCode = NewConfirmCode]
<1>1. Halfway(req[r])
  BY PlacesAre DEF setConfirmCode, Execute, Halfway
<1>2. u \in UserId
  BY <1>1 DEF Halfway, Typing, HandlerOK, LearntOK, HasUser, Named
<1>3. Updates(r, u, row) /\ req' = ConfirmCodeSet(r) /\ NewCodes(1)
  BY SetConfirmCodeDoes
<1>4. Now(r) = draft[u] /\ draft[u] \in UserRow
  BY <1>2, <1>3, AloneSees, AccountKeys DEF Updates, Now, Typing, RowsTyped
<1>5. codes \in Nat /\ codes' = codes + 1
  BY <1>3 DEF Typing, Code, NewCodes
<1>6. Informed(r) /\ Upright({u})
  BY <1>1, OnlyOne DEF HalfwayUser
<1>7. draft[u] = req[r].got
  BY <1>1, <1>6 DEF Informed, WritesHold
<1>8. /\ row.confirmCode = NewConfirmCode /\ row.resetCode = draft[u].resetCode /\ got = row
  BY <1>4, <1>7 DEF UserRow
<1>9. NewConfirmCode = Null \/ NewConfirmCode = codes + 1
  BY DEF NewConfirmCode
<1>10. GoesOn(r, got, u, req[r].invite)
  BY <1>3, ConfirmCodeGoesOn
<1> HIDE DEF row, got
<1>c. /\ Recodes(row.confirmCode, {draft[u].confirmCode}, codes, codes')
      /\ Recodes(row.resetCode, {draft[u].resetCode}, codes, codes')
  BY <1>5, <1>8, <1>9 DEF Recodes
<1> HIDE DEF u
<1>11. /\ Exists(draft[u]) /\ draft'[u] = row /\ db' = db
       /\ Follows(draft, draft', u, codes, codes') /\ Follows(db, db', u, codes, codes')
  BY <1>2, <1>3, <1>c, UpdateFollows
<1> USE DEF u
<1>12. UNCHANGED <<links, spent, ended, world, proven>>
  BY <1>3 DEF NewCodes, ghostVars
<1>13. AddressTrue(db', u, Worlds[world].strategy, links, proven)
  BY <1>2, <1>6, <1>11 DEF Upright
<1>14. Worlds[world].strategy = "auto" \/ NewConfirmCode # Null
  <2>1. Worlds[world].strategy = "manual" \/ Worlds[world].strategy = "auto"
    BY WorldsAreSound DEF Typing
  <2>2. codes + 1 # Null
    BY <1>5, NullIsNoCode DEF Code
  <2>3. QED
    BY <2>1, <2>2 DEF NewConfirmCode
<1>15. AddressTrue(draft', u, Worlds[world].strategy, links, proven)
  <2>1. draft'[u].confirmCode = Null \/ draft'[u].confirmCode \in (codes + 1)..(codes + 2)
    BY <1>5, <1>8, <1>9, <1>11
  <2>2. Worlds[world].strategy = "auto" \/ draft'[u].confirmCode # Null
    BY <1>8, <1>11, <1>14
  <2>3. LinksCoded(links, codes)
    BY <1>6 DEF Upright
  <2>4. QED
    BY <1>5, <2>1, <2>2, <2>3, NewCodeTrue
<1>16. Exists(db[u]) => db[u].confirmCode # codes + 1
  BY <1>2, <1>5, <1>6, NullIsNoCode DEF Upright, Sound, CodesAreUnique, Code
<1>17. Mailing(req'[r]) /\ ~Halfway(req'[r]) /\ req'[r].op \in {"createUser", "changeEmail"}
  BY <1>1, <1>10 DEF Halfway, Mailing, GoesOn
<1>18. /\ req'[r].got.confirmCode = NewConfirmCode /\ req'[r].user = u
       /\ draft'[u].email = req'[r].got.email
  BY <1>8, <1>10, <1>11 DEF GoesOn
<1>19. ReadsHold(req'[r], db') /\ ReadsHold(req'[r], draft')
  BY <1>9, <1>11, <1>16, <1>17, <1>18 DEF ReadsHold
<1>20. FollowedLinks(req[r])'
  BY <1>5, <1>9, <1>17, <1>18 DEF FollowedLinks, Answering, Accepting
<1>21. WritesHold(r)'
  BY <1>17 DEF WritesHold, Accepting
<1>22. Informed(r)' /\ OthersWait(r)
  BY <1>10, <1>19, <1>20, <1>21 DEF Informed, GoesOn
<1>23. codes' \in Nat /\ codes <= codes' /\ HalfwayUser(r) \subseteq {u}
  BY <1>5 DEF HalfwayUser
<1>24. QED
  BY <1>11, <1>12, <1>13, <1>15, <1>22, <1>23, WritingOrderly

LEMMA BecomeUserOrderly ==
    ASSUME IInv, Typing, RowsAreHeld, Orderly, NEW r \in Request, Alone(r),
           becomeUser(r), ~Throw(r)
    PROVE  Orderly'
<1> DEFINE u == req[r].user
           row == [Now(r) EXCEPT !.confirmCode = Null, !.email = req[r].arg.to]
<1>1. req[r].op = "acceptByGhost" /\ req[r].pc = 1
  BY PlacesAre DEF becomeUser, Execute
<1>2. u \in UserId
  BY <1>1 DEF Typing, HandlerOK, LearntOK, HasUser, Named, Answering, Accepting
<1>3. Updates(r, u, row) /\ req' = Goes(r) /\ Stay
  BY BecomeUserDoes
<1>4. Now(r) = draft[u] /\ draft[u] \in UserRow
  BY <1>2, <1>3, AloneSees, AccountKeys DEF Updates, Now, Typing, RowsTyped
<1>5. /\ row.confirmCode = Null /\ row.resetCode = draft[u].resetCode
      /\ row.email = req[r].arg.to
  BY <1>4 DEF UserRow
<1>6. Upright({}) /\ Informed(r)
  BY <1>1, OnlyOne DEF HalfwayUser, Halfway, Upright
<1>7. <<u, req[r].arg.to>> \in proven
  BY <1>1, <1>6 DEF Informed, FollowedLinks, Answering, Accepting
<1> HIDE DEF row
<1>8. /\ Recodes(row.confirmCode, {draft[u].confirmCode}, codes, codes)
      /\ Recodes(row.resetCode, {draft[u].resetCode}, codes, codes)
  BY <1>5 DEF Recodes
<1> HIDE DEF u
<1>9. /\ Exists(draft[u]) /\ draft'[u] = row /\ db' = db
      /\ \A k \in Key \ {u} : draft'[k] = draft[k]
      /\ Follows(draft, draft', u, codes, codes) /\ Follows(db, db', u, codes, codes)
  BY <1>2, <1>3, <1>8, UpdateFollows
<1> USE DEF u
<1>10. GoesOn(r, req[r].got, u, req[r].invite)
  BY <1>3, KnowsGoesOn DEF Goes
<1>11. UNCHANGED <<links, codes, spent, ended, world, proven>>
  BY <1>3 DEF Stay, ghostVars
<1>12. codes \in Nat /\ HalfwayUser(r) = {} /\ OthersWait(r)
  BY <1>1, <1>10 DEF Typing, Code, HalfwayUser, Halfway, GoesOn
<1>13. AddressTrue(db', u, Worlds[world].strategy, links, proven)
  BY <1>2, <1>6, <1>9 DEF Upright
<1>14. AddressTrue(draft', u, Worlds[world].strategy, links, proven)
  <2>1. draft'[u].confirmCode = Null /\ <<u, draft'[u].email>> \in proven
    BY <1>5, <1>7, <1>9
  <2>2. LinksCoded(links, codes)
    BY <1>6 DEF Upright
  <2>3. QED
    BY <1>12, <2>1, <2>2, NewCodeTrue
<1>15. Informed(r)'
  BY <1>1, <1>6, <1>9, <1>10, <1>11 DEF GoesOn, Informed, ReadsHold, WritesHold, FollowedLinks,
     Mailing, Halfway, Accepting, Answering
<1>16. QED
  BY <1>9, <1>11, <1>12, <1>13, <1>14, <1>15, WritingOrderly

LEMMA RenewConfirmCodeOrderly ==
    ASSUME IInv, Typing, RowsAreHeld, Orderly, NEW r \in Request, Alone(r),
           renewConfirmCode(r), ~Throw(r)
    PROVE  Orderly'
<1> DEFINE u == req[r].user
           row == [Now(r) EXCEPT !.confirmCode = NewConfirmCode]
           got == [req[r].got EXCEPT !.confirmCode = NewConfirmCode]
<1>1. req[r].op = "resendConfirmEmail" /\ req[r].pc = 2
  BY PlacesAre DEF renewConfirmCode, ExecuteNow
<1>2. u \in UserId /\ HoldsNothing(r)
  BY <1>1 DEF Typing, HandlerOK, LearntOK, HasUser, Named, Untransacted
<1>3. UpdatesNow(r, u, row) /\ req' = ConfirmCodeSet(r) /\ NewCodes(1)
  BY RenewConfirmCodeDoes
<1>4. Now(r) = draft[u] /\ draft[u] \in UserRow
  BY <1>2, <1>3, AloneSees, AccountKeys DEF UpdatesNow, Now, Typing, RowsTyped
<1>5. codes \in Nat /\ codes' = codes + 1
  BY <1>3 DEF Typing, Code, NewCodes
<1>6. Upright({}) /\ Informed(r)
  BY <1>1, OnlyOne DEF HalfwayUser, Halfway, Upright
<1>7. draft[u] = req[r].got
  BY <1>1, <1>6 DEF Informed, ReadsHold
<1>8. /\ row.confirmCode = NewConfirmCode /\ row.resetCode = draft[u].resetCode /\ got = row
  BY <1>4, <1>7 DEF UserRow
<1>9. NewConfirmCode = Null \/ NewConfirmCode = codes + 1
  BY DEF NewConfirmCode
<1>10. GoesOn(r, got, u, req[r].invite)
  BY <1>3, ConfirmCodeGoesOn
<1> HIDE DEF row, got
<1>11. /\ Recodes(row.confirmCode, {draft[u].confirmCode}, codes, codes')
       /\ Recodes(row.resetCode, {draft[u].resetCode}, codes, codes')
  BY <1>5, <1>8, <1>9 DEF Recodes
<1> HIDE DEF u
<1>12. /\ Exists(draft[u]) /\ draft'[u] = row /\ db'[u] = row
       /\ Follows(draft, draft', u, codes, codes') /\ Follows(db, db', u, codes, codes')
  BY <1>2, <1>3, <1>11, UpdateNowFollows
<1> USE DEF u
<1>13. UNCHANGED <<links, spent, ended, world, proven>>
  BY <1>3 DEF NewCodes, ghostVars
<1>14. Worlds[world].strategy = "auto" \/ NewConfirmCode # Null
  <2>1. Worlds[world].strategy = "manual" \/ Worlds[world].strategy = "auto"
    BY WorldsAreSound DEF Typing
  <2>2. codes + 1 # Null
    BY <1>5, NullIsNoCode DEF Code
  <2>3. QED
    BY <2>1, <2>2 DEF NewConfirmCode
<1>15. /\ AddressTrue(draft', u, Worlds[world].strategy, links, proven)
       /\ AddressTrue(db', u, Worlds[world].strategy, links, proven)
  <2>1. row.confirmCode = Null \/ row.confirmCode \in (codes + 1)..(codes + 2)
    BY <1>5, <1>8, <1>9
  <2>2. Worlds[world].strategy = "auto" \/ row.confirmCode # Null
    BY <1>8, <1>14
  <2>3. LinksCoded(links, codes)
    BY <1>6 DEF Upright
  <2>4. QED
    BY <1>5, <1>12, <2>1, <2>2, <2>3, NewCodeTrue
<1>16. Mailing(req'[r]) /\ req'[r].op = "resendConfirmEmail" /\ req'[r].pc = 3
  BY <1>1, <1>10 DEF Mailing, GoesOn
<1>17. /\ req'[r].got.confirmCode = NewConfirmCode /\ req'[r].user = u
       /\ row.email = req'[r].got.email
  BY <1>8, <1>10 DEF GoesOn
<1>18. ReadsHold(req'[r], db') /\ ReadsHold(req'[r], draft')
  BY <1>12, <1>16, <1>17 DEF ReadsHold
<1>19. FollowedLinks(req[r])'
  BY <1>5, <1>9, <1>16, <1>17 DEF FollowedLinks, Answering, Accepting
<1>20. WritesHold(r)'
  BY <1>16 DEF WritesHold, Halfway, Accepting
<1>21. Informed(r)' /\ OthersWait(r)
  BY <1>10, <1>18, <1>19, <1>20 DEF Informed, GoesOn
<1>22. codes' \in Nat /\ codes <= codes' /\ HalfwayUser(r) \subseteq {u}
  BY <1>5 DEF HalfwayUser
<1>23. QED
  BY <1>12, <1>13, <1>15, <1>21, <1>22, WritingOrderly

LEMMA RenewResetCodeOrderly ==
    ASSUME IInv, Typing, RowsAreHeld, Orderly, NEW r \in Request, Alone(r),
           renewResetCode(r), ~Throw(r)
    PROVE  Orderly'
<1> DEFINE u == req[r].user
           row == [Now(r) EXCEPT !.resetCode = codes + 1]
<1>1. req[r].op = "forgotPassword" /\ req[r].pc = 2
  BY PlacesAre DEF renewResetCode, ExecuteNow
<1>2. u \in UserId /\ HoldsNothing(r)
  BY <1>1 DEF Typing, HandlerOK, LearntOK, HasUser, Looking, Untransacted
<1>3. UpdatesNow(r, u, row) /\ req' = Knows(r, row) /\ NewCodes(1)
  BY RenewResetCodeDoes
<1>4. Now(r) = draft[u] /\ draft[u] \in UserRow
  BY <1>2, <1>3, AloneSees, AccountKeys DEF UpdatesNow, Now, Typing, RowsTyped
<1>5. codes \in Nat /\ codes' = codes + 1
  BY <1>3 DEF Typing, Code, NewCodes
<1>6. Upright({})
  BY <1>1, OnlyOne DEF HalfwayUser, Halfway, Upright
<1>7. /\ row.confirmCode = draft[u].confirmCode /\ row.resetCode = codes + 1
      /\ row.email = draft[u].email
  BY <1>4 DEF UserRow
<1>8. GoesOn(r, row, u, req[r].invite)
  BY <1>3, KnowsGoesOn
<1> HIDE DEF row
<1>9. /\ Recodes(row.confirmCode, {draft[u].confirmCode}, codes, codes')
      /\ Recodes(row.resetCode, {draft[u].resetCode}, codes, codes')
  BY <1>5, <1>7 DEF Recodes
<1> HIDE DEF u
<1>10. /\ Exists(draft[u]) /\ db[u] = draft[u] /\ draft'[u] = row /\ db'[u] = row
       /\ Follows(draft, draft', u, codes, codes') /\ Follows(db, db', u, codes, codes')
  BY <1>2, <1>3, <1>9, UpdateNowFollows
<1> USE DEF u
<1>11. UNCHANGED <<links, spent, ended, world, proven>>
  BY <1>3 DEF NewCodes, ghostVars
<1>12. /\ AddressTrue(draft', u, Worlds[world].strategy, links, proven)
       /\ AddressTrue(db', u, Worlds[world].strategy, links, proven)
  BY <1>2, <1>6, <1>7, <1>10, SameColumnsTrue DEF Upright
<1>13. Informed(r)' /\ OthersWait(r)
  BY <1>1, <1>8 DEF GoesOn, Informed, ReadsHold, WritesHold, FollowedLinks, Mailing, Halfway,
     Accepting, Answering
<1>14. codes' \in Nat /\ codes <= codes' /\ HalfwayUser(r) = {}
  BY <1>1, <1>5 DEF HalfwayUser, Halfway
<1>15. QED
  BY <1>10, <1>11, <1>12, <1>13, <1>14, WritingOrderly

\* The last statement of a handler takes a code off a row.
LEMMA TakingOrderly ==
    ASSUME IInv, Typing, RowsAreHeld, Orderly, NEW r \in Request, Alone(r), HoldsNothing(r),
           ~Halfway(req[r]), NEW u \in UserId, NEW row, UpdatesNow(r, u, row), req' = Finished(r),
           Recodes(row.confirmCode, {draft[u].confirmCode}, codes, codes),
           Recodes(row.resetCode, {draft[u].resetCode}, codes, codes),
           AddressTrue(db', u, Worlds[world].strategy, links, proven),
           AddressTrue(draft', u, Worlds[world].strategy, links, proven),
           NEW kind \in {"confirm", "reset"}, NEW x \in 0..codes, Take(<<kind, x>>),
           kind = "confirm" => draft[u].confirmCode = x /\ row.confirmCode = Null,
           kind = "reset" => draft[u].resetCode = x /\ row.resetCode = Null
    PROVE  Orderly'
<1> DEFINE thing == <<kind, x>>
<1>1. /\ Exists(draft[u]) /\ db[u] = draft[u] /\ draft'[u] = row /\ db'[u] = row
      /\ \A k \in Key \ {u} : draft'[k] = draft[k]
      /\ \A k \in Key \ {u} : db'[k] = db[k]
      /\ Follows(draft, draft', u, codes, codes) /\ Follows(db, db', u, codes, codes)
  BY UpdateNowFollows
<1>2. codes \in Nat /\ LinksOK /\ x # Null
  BY NullIsNoCode DEF Typing, Code
<1>3. Upright({})
  BY OnlyOne DEF HalfwayUser, Upright
<1>4. /\ Sound(db', codes, links, DOMAIN spent) /\ Sound(draft', codes, links, DOMAIN spent)
  BY <1>1, <1>2, <1>3, SoundFollows DEF Upright, LinksOK
<1>5. thing \notin DOMAIN spent
  BY <1>1, <1>3 DEF Upright, Sound, Unspent
<1>6. ASSUME NEW v \in UserId
      PROVE  /\ kind = "confirm" => /\ Exists(draft'[v]) => draft'[v].confirmCode # x
                                    /\ Exists(db'[v]) => db'[v].confirmCode # x
             /\ kind = "reset" => /\ Exists(draft'[v]) => draft'[v].resetCode # x
                                  /\ Exists(db'[v]) => db'[v].resetCode # x
  <2>1. CASE v = u
    BY <1>1, <1>2, <2>1
  <2>2. CASE v # u
    <3>1. draft'[v] = draft[v] /\ db'[v] = db[v]
      BY <1>1, <2>2, AccountKeys
    <3>2. CodesAreUnique(db, codes) /\ CodesAreUnique(draft, codes)
      BY <1>3 DEF Upright, Sound
    <3>3. QED
      BY <1>1, <1>2, <2>2, <3>1, <3>2 DEF CodesAreUnique
  <2>3. QED
    BY <2>1, <2>2
<1>7. /\ Sound(db', codes, links, DOMAIN spent \cup {<<kind, x>>})
      /\ Sound(draft', codes, links, DOMAIN spent \cup {<<kind, x>>})
  BY <1>4, <1>6, SpendingSound
<1>8. /\ spent' = spent (+) SetToBag({thing})
      /\ UNCHANGED <<links, codes, world, proven, ended>>
  BY DEF Take
<1>9. /\ DOMAIN spent' = DOMAIN spent \cup {thing}
      /\ \A y \in DOMAIN spent' : spent'[y] = 1
  <2>1. \A y \in DOMAIN spent : spent[y] = 1
    BY <1>3 DEF Upright
  <2> HIDE DEF thing
  <2>2. QED
    BY <1>5, <1>8, <2>1 DEF (+), SetToBag
<1>10. ASSUME NEW v \in UserId
       PROVE  /\ AddressTrue(db', v, Worlds[world].strategy, links, proven)
              /\ AddressTrue(draft', v, Worlds[world].strategy, links, proven)
  <2>1. SUFFICES ASSUME v # u
                 PROVE  /\ AddressTrue(db', v, Worlds[world].strategy, links, proven)
                        /\ AddressTrue(draft', v, Worlds[world].strategy, links, proven)
    OBVIOUS
  <2>2. draft'[v] = draft[v] /\ db'[v] = db[v]
    BY <1>1, <2>1, AccountKeys
  <2>3. QED
    BY <1>3, <2>2, AddressFollows DEF Upright
<1>11. SpentCoded(DOMAIN spent', codes)
  BY <1>3, <1>9 DEF Upright, SpentCoded
<1>12. \A s : <<"refresh", s>> \in DOMAIN spent' => <<s, "refresh">> \in ended'
  BY <1>3, <1>8, <1>9 DEF Upright
<1>13. OthersWait(r) /\ req'[r] = Idle
  BY DEF Finished, OthersWait, IInv, RequestsOK
<1>14. LinksCoded(links', codes)
  BY <1>3, <1>8 DEF Upright
<1>15. QED
  BY <1>7, <1>8, <1>9, <1>10, <1>11, <1>12, <1>13, <1>14, EndingOrderly

LEMMA ClearConfirmCodeOrderly ==
    ASSUME IInv, Typing, RowsAreHeld, Orderly, NEW r \in Request, Alone(r),
           clearConfirmCode(r), ~Throw(r)
    PROVE  Orderly'
<1> DEFINE u == req[r].user
           row == [Now(r) EXCEPT !.confirmCode = Null]
<1>1. req[r].op = "confirmEmail" /\ req[r].pc = 2
  BY PlacesAre DEF clearConfirmCode, ExecuteNow
<1>2. u \in UserId /\ HoldsNothing(r)
  BY <1>1 DEF Typing, HandlerOK, LearntOK, HasUser, Named, Untransacted
<1>3. UpdatesNow(r, u, row) /\ req' = Finished(r) /\ Take(<<"confirm", req[r].arg>>)
  BY ClearConfirmCodeDoes
<1>4. Now(r) = draft[u] /\ draft[u] \in UserRow /\ Exists(draft[u]) /\ codes \in Nat
  BY <1>2, <1>3, AloneSees, AccountKeys DEF UpdatesNow, Now, Typing, RowsTyped, Code
<1>5. /\ row.confirmCode = Null /\ row.resetCode = draft[u].resetCode
      /\ row.email = draft[u].email
  BY <1>4 DEF UserRow
<1> HIDE DEF row
<1>6. Upright({}) /\ Informed(r) /\ ~Halfway(req[r])
  BY <1>1, OnlyOne DEF HalfwayUser, Halfway, Upright
<1>7. PICK l \in links : /\ l.kind = "confirm" /\ l.user = u /\ l.code = req[r].arg
                         /\ <<u, l.to>> \in proven
  BY <1>1, <1>6 DEF Informed, FollowedLinks
<1>8. draft[u].confirmCode = req[r].arg
  BY <1>1, <1>4, <1>6 DEF Informed, ReadsHold
<1>9. draft[u].email = l.to
  BY <1>2, <1>4, <1>6, <1>7, <1>8 DEF Upright, AddressTrue, ConfirmsMailed, Works
<1>10. req[r].arg \in 0..codes /\ LinksCoded(links, codes)
  BY <1>6, <1>7 DEF Upright, LinksCoded
<1>11. /\ Recodes(row.confirmCode, {draft[u].confirmCode}, codes, codes)
       /\ Recodes(row.resetCode, {draft[u].resetCode}, codes, codes)
  BY <1>5 DEF Recodes
<1>u. UpdatesNow(r, u, row)
  BY <1>3
<1> HIDE DEF u
<1>12. draft'[u] = row /\ db'[u] = row /\ Follows(db, db', u, codes, codes)
  BY <1>2, <1>u, <1>11, UpdateNowFollows
<1>13. /\ AddressTrue(db', u, Worlds[world].strategy, links, proven)
       /\ AddressTrue(draft', u, Worlds[world].strategy, links, proven)
  <2>1. <<u, row.email>> \in proven
    BY <1>5, <1>7, <1>9
  <2>2. QED
    BY <1>4, <1>5, <1>10, <1>12, <2>1, NewCodeTrue
<1>14. QED
  BY <1>2, <1>3, <1>5, <1>6, <1>8, <1>10, <1>11, <1>13, TakingOrderly

LEMMA SetPasswordOrderly ==
    ASSUME IInv, Typing, RowsAreHeld, Orderly, NEW r \in Request, Alone(r),
           setPassword(r), ~Throw(r)
    PROVE  Orderly'
<1> DEFINE u == req[r].user
           x == req[r].arg.code
           row == [Now(r) EXCEPT !.password = req[r].arg.password, !.resetCode = Null]
<1>1. req[r].op = "resetPassword" /\ req[r].pc = 2
  BY PlacesAre DEF setPassword, ExecuteNow
<1>2. u \in UserId /\ HoldsNothing(r)
  BY <1>1 DEF Typing, HandlerOK, LearntOK, HasUser, Named, Untransacted
<1>3. UpdatesNow(r, u, row) /\ req' = Finished(r) /\ Take(<<"reset", x>>)
  BY SetPasswordDoes
<1>4. Now(r) = draft[u] /\ draft[u] \in UserRow /\ Exists(draft[u]) /\ codes \in Nat
  BY <1>2, <1>3, AloneSees, AccountKeys DEF UpdatesNow, Now, Typing, RowsTyped, Code
<1>5. /\ row.confirmCode = draft[u].confirmCode /\ row.resetCode = Null
      /\ row.email = draft[u].email
  BY <1>4 DEF UserRow
<1> HIDE DEF row
<1>6. Upright({}) /\ Informed(r) /\ ~Halfway(req[r])
  BY <1>1, OnlyOne DEF HalfwayUser, Halfway, Upright
<1>7. draft[u].resetCode = x /\ x # Null
  BY <1>1, <1>4, <1>6 DEF Informed, ReadsHold, FollowedLinks
<1>8. x \in 0..codes
  BY <1>2, <1>4, <1>6, <1>7 DEF Upright, Sound, CodesAreUnique
<1>9. /\ Recodes(row.confirmCode, {draft[u].confirmCode}, codes, codes)
      /\ Recodes(row.resetCode, {draft[u].resetCode}, codes, codes)
  BY <1>5 DEF Recodes
<1>u. UpdatesNow(r, u, row)
  BY <1>3
<1> HIDE DEF u, x
<1>10. draft'[u] = row /\ db'[u] = row /\ db[u] = draft[u] /\ Follows(db, db', u, codes, codes)
  BY <1>2, <1>u, <1>9, UpdateNowFollows
<1>11. /\ AddressTrue(db', u, Worlds[world].strategy, links, proven)
       /\ AddressTrue(draft', u, Worlds[world].strategy, links, proven)
  BY <1>2, <1>4, <1>5, <1>6, <1>10, SameColumnsTrue DEF Upright
<1>12. QED
  BY <1>2, <1>3, <1>5, <1>6, <1>7, <1>8, <1>9, <1>11, TakingOrderly

-------------------------------------------------------------------------------
(* Inserts and deletions of the only handler.                                *)

LEMMA InsertFollows ==
    ASSUME RowsAreHeld, NEW r \in Request, NEW Ids, Ids = UserId \/ Ids = InviteId,
           Unused(Ids) # {}, NEW k, k = NextId(Ids), NEW row, Put(r, One(k, row)), NEW m,
           k \in UserId => /\ Recodes(row.confirmCode, {}, codes, m)
                           /\ Recodes(row.resetCode, {}, codes, m)
    PROVE  /\ k \in Ids /\ db[k] = Absent /\ draft[k] = Absent
           /\ draft'[k] = row /\ \A c \in Key \ {k} : draft'[c] = draft[c]
           /\ db' = db
           /\ Follows(draft, draft', k, codes, m) /\ Follows(db, db', k, codes, m)
<1>1. k \in Ids /\ k \in Key /\ draft[k] = Absent /\ db[k] = Absent
  <2>1. k \in Ids /\ k \in Unused(Ids)
    BY FreshIds
  <2>2. QED
    BY <2>1, AccountKeys DEF Unused, RowsAreHeld, FreeRowsAreCommitted
<1>2. draft'[k] = row /\ \A c \in Key \ {k} : draft'[c] = draft[c]
  <2>1. DOMAIN One(k, row) = {k} /\ One(k, row)[k] = row
    BY DEF One
  <2>2. QED
    BY <1>1, <2>1, PutRow
<1>3. db' = db
  BY DEF Put
<1>4. ~Exists(draft[k]) /\ ~Exists(db[k])
  BY <1>1 DEF Exists
<1>5. Follows(draft, draft', k, codes, m)
  <2>1. \A v \in UserId \ {k} : draft'[v] = draft[v]
    BY <1>2, AccountKeys
  <2>2. \A i \in InviteId : draft'[i] = draft[i] \/ draft[i] = Absent
    BY <1>1, <1>2, AccountKeys
  <2>3. k \in UserId => Recoded(draft, draft', k, codes, m)
    BY <1>2, <1>4 DEF Recoded, Recodes
  <2>4. QED
    BY <2>1, <2>2, <2>3 DEF Follows
<1>6. Follows(db, db', k, codes, m)
  BY <1>3, <1>4 DEF Follows, Recoded
<1>7. QED
  BY <1>1, <1>2, <1>3, <1>5, <1>6

LEMMA InsertUserOrderly ==
    ASSUME IInv, Typing, RowsAreHeld, Orderly, NEW r \in Request, Alone(r),
           insertUser(r), ~Throw(r)
    PROVE  Orderly'
<1> DEFINE u == NextId(UserId)
           row == [email |-> Lower[req[r].arg.email], password |-> req[r].arg.password,
                   confirmCode |-> Null, resetCode |-> Null, banned |-> FALSE]
<1>1. req[r].op = "createUser" /\ req[r].pc = 2
  BY PlacesAre DEF insertUser, InsertUser, Execute
<1>2. /\ Unused(UserId) # {} /\ Put(r, One(u, row))
      /\ req' = [Knows(r, row) EXCEPT ![r].user = u] /\ Stay
  BY InsertUserDoes
<1>3. row.confirmCode = Null /\ row.resetCode = Null
  OBVIOUS
<1> HIDE DEF row
<1>4. Recodes(row.confirmCode, {}, codes, codes) /\ Recodes(row.resetCode, {}, codes, codes)
  BY <1>3 DEF Recodes
<1>5. /\ u \in UserId /\ draft'[u] = row /\ db' = db
      /\ Follows(draft, draft', u, codes, codes) /\ Follows(db, db', u, codes, codes)
  BY <1>2, <1>4, InsertFollows
<1> HIDE DEF u
<1>6. GoesOn(r, row, u, req[r].invite)
  BY <1>2, KnowsGoesOn
<1>7. UNCHANGED <<links, codes, spent, ended, world, proven>>
  BY <1>2 DEF Stay, ghostVars
<1>8. Upright({})
  BY <1>1, OnlyOne DEF HalfwayUser, Halfway, Upright
<1>9. AddressTrue(db', u, Worlds[world].strategy, links, proven)
  BY <1>5, <1>8 DEF Upright
<1>10. u \in (HalfwayUser(r))'
  BY <1>1, <1>6 DEF GoesOn, HalfwayUser, Halfway
<1>11. Informed(r)'
  BY <1>1, <1>5, <1>6 DEF GoesOn, Informed, ReadsHold, WritesHold, FollowedLinks, Mailing,
     Halfway, Accepting, Answering
<1>12. codes \in Nat /\ HalfwayUser(r) = {} /\ OthersWait(r)
  BY <1>1, <1>6 DEF Typing, Code, HalfwayUser, Halfway, GoesOn
<1>13. QED
  BY <1>5, <1>7, <1>9, <1>10, <1>11, <1>12, WritingOrderly

LEMMA InsertGhostOrderly ==
    ASSUME IInv, Typing, RowsAreHeld, Orderly, NEW r \in Request, Alone(r),
           insertGhost(r), ~Throw(r)
    PROVE  Orderly'
<1> DEFINE g == NextId(UserId)
           row == [email |-> <<req[r].user, req[r].arg>>, password |-> Random,
                   confirmCode |-> codes + 1, resetCode |-> codes + 2, banned |-> FALSE]
           got == [inviter |-> req[r].user, invitee |-> g, row |-> row]
<1>1. req[r].op = "createInviteByEmail" /\ req[r].pc = 3
  BY PlacesAre DEF insertGhost, Execute
<1>2. /\ Unused(UserId) # {} /\ Put(r, One(g, row)) /\ req' = Knows(r, got) /\ NewCodes(2)
  BY InsertGhostDoes
<1>3. row.confirmCode = codes + 1 /\ row.resetCode = codes + 2 /\ got.invitee = g /\ got.row = row
  OBVIOUS
<1> HIDE DEF row, got
<1>4. codes \in Nat /\ codes' = codes + 2
  BY <1>2 DEF Typing, Code, NewCodes
<1>5. Recodes(row.confirmCode, {}, codes, codes') /\ Recodes(row.resetCode, {}, codes, codes')
  BY <1>3, <1>4 DEF Recodes
<1>6. /\ g \in UserId /\ draft'[g] = row /\ db' = db /\ db[g] = Absent
      /\ Follows(draft, draft', g, codes, codes') /\ Follows(db, db', g, codes, codes')
  BY <1>2, <1>5, InsertFollows
<1> HIDE DEF g
<1>7. GoesOn(r, got, req[r].user, req[r].invite)
  BY <1>2, KnowsGoesOn
<1>8. UNCHANGED <<links, spent, ended, world, proven>>
  BY <1>2 DEF NewCodes, ghostVars
<1>9. Upright({})
  BY <1>1, OnlyOne DEF HalfwayUser, Halfway, Upright
<1>10. AddressTrue(db', g, Worlds[world].strategy, links, proven)
  BY <1>6, <1>9 DEF Upright
<1>11. AddressTrue(draft', g, Worlds[world].strategy, links, proven)
  <2>1. /\ draft'[g].confirmCode \in (codes + 1)..(codes + 2)
        /\ draft'[g].confirmCode # Null
    BY <1>3, <1>4, <1>6, NullIsNoCode DEF Code
  <2>2. LinksCoded(links, codes)
    BY <1>9 DEF Upright
  <2>3. QED
    BY <1>4, <2>1, <2>2, NewCodeTrue
<1>12. draft'[g] = row /\ db'[g] = Absent /\ row.confirmCode \in 0..codes'
  BY <1>3, <1>4, <1>6
<1>13. Informed(r)'
  BY <1>1, <1>3, <1>7, <1>12 DEF GoesOn, Informed, ReadsHold, WritesHold, FollowedLinks, Mailing,
     Halfway, Accepting, Answering
<1>14. codes' \in Nat /\ codes <= codes' /\ HalfwayUser(r) = {} /\ OthersWait(r)
  BY <1>1, <1>4, <1>7 DEF HalfwayUser, Halfway, GoesOn
<1>15. QED
  BY <1>6, <1>8, <1>10, <1>11, <1>13, <1>14, WritingOrderly

LEMMA InsertInviteOrderly ==
    ASSUME IInv, Typing, RowsAreHeld, Orderly, NEW r \in Request, Alone(r),
           insertInvite(r), ~Throw(r)
    PROVE  Orderly'
<1> DEFINE i == NextId(InviteId)
           row == [inviter |-> req[r].got.inviter, invitee |-> req[r].got.invitee, status |-> "PENDING"]
<1>1. \/ req[r].op = "createInviteByEmail" /\ req[r].pc = 4
      \/ req[r].op = "createInvite" /\ req[r].pc = 2
  BY PlacesAre DEF insertInvite, Execute
<1>2. /\ Unused(InviteId) # {} /\ Put(r, One(i, row))
      /\ req' = [Goes(r) EXCEPT ![r].invite = i] /\ Stay
  BY InsertInviteDoes
<1>3. req[r].got.inviter \in UserId /\ req[r].got.invitee \in UserId
  BY <1>1 DEF Typing, HandlerOK, LearntOK, HasUser, Named
<1>4. Waiting(row) /\ row.invitee = req[r].got.invitee
  <2>1. row \in InviteRow
    BY <1>3 DEF InviteRow
  <2>2. QED
    BY <2>1, MissingRowsAreNoRows DEF Waiting, Exists
<1> HIDE DEF row
<1>5. i \in InviteId
  BY <1>2, FreshIds
<1>6. i \notin UserId
  BY <1>5, AccountKeys
<1>7. /\ draft'[i] = row /\ db' = db /\ \A c \in Key \ {i} : draft'[c] = draft[c]
      /\ Follows(draft, draft', i, codes, codes) /\ Follows(db, db', i, codes, codes)
  BY <1>2, <1>6, InsertFollows
<1> HIDE DEF i
<1>8. GoesOn(r, req[r].got, req[r].user, i)
  BY <1>2, KnowsGoesOn DEF Goes
<1>9. UNCHANGED <<links, codes, spent, ended, world, proven>>
  BY <1>2 DEF Stay, ghostVars
<1>10. Informed(r)
  BY OnlyOne
<1>11. draft'[req[r].got.invitee] = draft[req[r].got.invitee]
  BY <1>3, <1>5, <1>7, AccountKeys
<1>12. Informed(r)'
  BY <1>1, <1>4, <1>7, <1>8, <1>9, <1>10, <1>11 DEF GoesOn, Informed, ReadsHold, WritesHold,
     FollowedLinks, Mailing, Halfway, Accepting, Answering
<1>13. codes \in Nat /\ HalfwayUser(r) = {} /\ OthersWait(r)
  BY <1>1, <1>8 DEF Typing, Code, HalfwayUser, Halfway, GoesOn
<1>14. QED
  BY <1>6, <1>7, <1>9, <1>12, <1>13, WritingOrderly

\* The invite an answer is about is accepted.
LEMMA SetInviteOrderly ==
    ASSUME IInv, Typing, RowsAreHeld, Orderly, NEW r \in Request, Alone(r), ~Throw(r),
           redirectInvite(r) \/ setInviteAccepted(r)
    PROVE  Orderly'
<1> DEFINE i == req[r].invite
<1>1. req[r].op \in Accepting /\ req[r].pc = 2
  BY PlacesAre DEF redirectInvite, setInviteAccepted, SetInvite, Execute, Accepting
<1>2. i \in InviteId
  BY <1>1 DEF Typing, HandlerOK, ArgumentOK, Answering
<1>3. PICK row : /\ row.status = "ACCEPTED" /\ row \in InviteRow
                 /\ \E statement : SetInvite(r, statement, row)
  <2>1. req[r].got.invitee \in UserId
    BY <1>1 DEF Typing, HandlerOK, LearntOK
  <2>2. Exists(InviteNow(r)) => InviteNow(r) \in InviteRow
    BY <1>2, SeenRowsTyped DEF InviteNow
  <2> DEFINE redirected == [InviteNow(r) EXCEPT !.invitee = req[r].got.invitee,
                                                !.status = "ACCEPTED"]
             accepted == [InviteNow(r) EXCEPT !.status = "ACCEPTED"]
  <2>3. SetInvite(r, "redirectInvite", redirected) \/ SetInvite(r, "setInviteAccepted", accepted)
    BY DEF redirectInvite, setInviteAccepted
  <2>4. Exists(InviteNow(r)) => /\ redirected \in InviteRow /\ redirected.status = "ACCEPTED"
                                /\ accepted \in InviteRow /\ accepted.status = "ACCEPTED"
    BY <2>1, <2>2 DEF InviteRow
  <2> HIDE DEF redirected, accepted
  <2>5. Exists(InviteNow(r))
    BY <2>3, SetInviteDoes
  <2>6. QED
    BY <2>3, <2>4, <2>5
<1>4. /\ req' = Goes(r) /\ Stay
      /\ \E rows : DOMAIN rows = {i} /\ rows[i] = row /\ Put(r, rows)
  BY <1>3, SetInviteDoes
<1>5. PICK rows : DOMAIN rows = {i} /\ rows[i] = row /\ Put(r, rows)
  BY <1>4
<1> HIDE DEF i
<1>6. draft'[i] = row /\ db' = db /\ \A c \in Key \ {i} : draft'[c] = draft[c]
  BY <1>2, <1>5, PutRow, AccountKeys DEF Put
<1>7. Closed(row)
  BY <1>3, MissingRowsAreNoRows DEF Closed, Waiting
<1>8. i \notin UserId
  BY <1>2, AccountKeys
<1>9. Follows(draft, draft', i, codes, codes) /\ Follows(db, db', i, codes, codes)
  <2>1. \A v \in UserId : draft'[v] = draft[v]
    BY <1>6, <1>8, AccountKeys
  <2>2. \A c \in InviteId : draft'[c] = draft[c] \/ Closed(draft'[c])
    BY <1>6, <1>7, AccountKeys
  <2>3. QED
    BY <1>6, <1>8, <2>1, <2>2 DEF Follows
<1> USE DEF i
<1>10. GoesOn(r, req[r].got, req[r].user, i)
  BY <1>4, KnowsGoesOn DEF Goes
<1>11. UNCHANGED <<links, codes, spent, ended, world, proven>>
  BY <1>4 DEF Stay, ghostVars
<1>12. Informed(r)
  BY OnlyOne
<1>13. Informed(r)'
  BY <1>1, <1>6, <1>7, <1>10, <1>11, <1>12 DEF GoesOn, Informed, ReadsHold, WritesHold,
     FollowedLinks, Mailing, Halfway, Accepting, Answering
<1>14. codes \in Nat /\ HalfwayUser(r) = {} /\ OthersWait(r)
  BY <1>1, <1>10 DEF Typing, Code, HalfwayUser, Halfway, GoesOn, Accepting
<1>15. QED
  BY <1>8, <1>9, <1>11, <1>13, <1>14, WritingOrderly

LEMMA AnswerInviteOrderly ==
    ASSUME IInv, Typing, RowsAreHeld, Orderly, NEW r \in Request, Alone(r), ~Throw(r),
           answerInvite(r)
    PROVE  Orderly'
<1> DEFINE i == req[r].invite
           answer == IF req[r].op = "acceptInvite" THEN "ACCEPTED" ELSE "REJECTED"
           row == [InviteNow(r) EXCEPT !.status = answer]
<1>1. req[r].op \in {"acceptInvite", "rejectInvite"} /\ req[r].pc = 2
  BY PlacesAre DEF answerInvite, Execute
<1>2. i \in InviteId
  BY <1>1 DEF Typing, HandlerOK, ArgumentOK
<1>3. /\ Exists(InviteNow(r)) /\ req' = Knows(r, row) /\ Stay
      /\ \E rows : DOMAIN rows = {i} /\ rows[i] = row /\ Put(r, rows)
  BY AnswerInviteDoes
<1>4. row \in InviteRow /\ row.status # "PENDING"
  <2>1. InviteNow(r) \in InviteRow
    BY <1>2, <1>3, SeenRowsTyped DEF InviteNow
  <2>2. QED
    BY <2>1 DEF InviteRow
<1> HIDE DEF row
<1>5. PICK rows : DOMAIN rows = {i} /\ rows[i] = row /\ Put(r, rows)
  BY <1>3
<1> HIDE DEF i
<1>6. draft'[i] = row /\ db' = db /\ \A c \in Key \ {i} : draft'[c] = draft[c]
  BY <1>2, <1>5, PutRow, AccountKeys DEF Put
<1>7. Closed(draft'[i])
  BY <1>4, <1>6, MissingRowsAreNoRows DEF Closed, Waiting
<1>8. i \notin UserId
  BY <1>2, AccountKeys
<1>9. Follows(draft, draft', i, codes, codes) /\ Follows(db, db', i, codes, codes)
  <2>1. \A u \in UserId : draft'[u] = draft[u]
    BY <1>6, <1>8, AccountKeys
  <2>2. \A c \in InviteId : draft'[c] = draft[c] \/ Closed(draft'[c])
    BY <1>6, <1>7, AccountKeys
  <2>3. QED
    BY <1>6, <1>8, <2>1, <2>2 DEF Follows
<1> USE DEF i
<1>10. GoesOn(r, row, req[r].user, i)
  BY <1>3, KnowsGoesOn
<1>11. UNCHANGED <<links, codes, spent, ended, world, proven>>
  BY <1>3 DEF Stay, ghostVars
<1>12. Informed(r)'
  BY <1>1, <1>10 DEF GoesOn, Informed, ReadsHold, WritesHold, FollowedLinks, Mailing, Halfway,
     Accepting, Answering
<1>13. codes \in Nat /\ HalfwayUser(r) = {} /\ OthersWait(r)
  BY <1>1, <1>10 DEF Typing, Code, HalfwayUser, Halfway, GoesOn
<1>14. QED
  BY <1>8, <1>9, <1>11, <1>12, <1>13, WritingOrderly

LEMMA InsertContactsOrderly ==
    ASSUME IInv, Typing, RowsAreHeld, Orderly, NEW r \in Request, Alone(r),
           insertContacts(r), ~Throw(r)
    PROVE  Orderly'
<1> DEFINE a == req[r].got.inviter
           b == req[r].got.invitee
           rows == ContactsBetween(a, b, req[r].invite)
           i == req[r].invite
<1>1. req[r].op \in Accepting \cup {"acceptInvite"} /\ req[r].pc = 3
  BY PlacesAre DEF insertContacts, Execute, Accepting
<1>2. a \in UserId /\ b \in UserId /\ i \in InviteId
  BY <1>1 DEF Typing, HandlerOK, ArgumentOK, LearntOK, Answering, Accepting, InviteRow
<1>3. Put(r, rows) /\ req' = Goes(r) /\ Stay
  BY InsertContactsDoes
<1>4. DOMAIN rows \subseteq ContactKey
  BY <1>2 DEF ContactsBetween, ContactKey
<1> HIDE DEF rows
<1>5. db' = db /\ \A k \in UserId \cup InviteId : draft'[k] = draft[k]
  <2>1. \A k \in UserId \cup InviteId : k \in Key /\ k \notin DOMAIN rows
    BY <1>4, AccountKeys
  <2>2. QED
    BY <1>3, <2>1, PutRow DEF Put
<1>6. i \notin UserId
  BY <1>2, AccountKeys
<1>7. Follows(draft, draft', i, codes, codes) /\ Follows(db, db', i, codes, codes)
  BY <1>5, <1>6 DEF Follows
<1>8. GoesOn(r, req[r].got, req[r].user, i)
  BY <1>3, KnowsGoesOn DEF Goes
<1>9. UNCHANGED <<links, codes, spent, ended, world, proven>>
  BY <1>3 DEF Stay, ghostVars
<1>10. Informed(r)
  BY OnlyOne
<1>11. draft'[i] = draft[i]
  BY <1>2, <1>5
<1>12. Informed(r)'
  BY <1>1, <1>5, <1>8, <1>9, <1>10, <1>11 DEF GoesOn, Informed, ReadsHold, WritesHold,
     FollowedLinks, Mailing, Halfway, Accepting, Answering
<1>13. codes \in Nat /\ HalfwayUser(r) = {} /\ OthersWait(r)
  BY <1>1, <1>8 DEF Typing, Code, HalfwayUser, Halfway, GoesOn, Accepting
<1>14. QED
  BY <1>6, <1>7, <1>9, <1>12, <1>13, WritingOrderly

\* What goes with a user is gone: no user comes back, no invite begins to wait.
LEMMA DroppingOrderly ==
    ASSUME IInv, Typing, RowsAreHeld, Orderly, NEW r \in Request, Alone(r), ~Throw(r),
           dropUser(r) \/ deleteGhost(r)
    PROVE  Orderly'
<1> DEFINE u == req[r].user
           rows == Dropped(r, u)
           i == req[r].invite
<1>1. \/ req[r].op = "deleteUser" /\ req[r].pc = 1
      \/ req[r].op = "acceptByRealUser" /\ req[r].pc = 4
      \/ req[r].op = "rejectEmailInvite" /\ req[r].pc = 3
  BY PlacesAre DEF dropUser, deleteGhost, Execute
<1>2. u \in UserId /\ (req[r].op # "deleteUser" => i \in InviteId)
  BY <1>1 DEF Typing, HandlerOK, ArgumentOK, LearntOK, HasUser, Named, Answering, Accepting
<1>3. Put(r, rows) /\ req' = Goes(r) /\ Stay
  BY DEF dropUser, deleteGhost, Execute
<1>4. DOMAIN rows = Family(Visible(r), u) /\ u \in DOMAIN rows
  BY DEF Dropped, Family
<1>5. \A k \in DOMAIN rows : /\ k \in UserId => ~Exists(rows[k])
                             /\ k \in InviteId => Closed(rows[k])
  <2>1. \A k \in UserId \cup InviteId : Deleted(k) = Gone
    BY AccountKeys DEF Deleted
  <2>2. ~Exists(Gone) /\ Closed(Gone)
    BY MissingRowsAreNoRows DEF Exists, Closed, Waiting
  <2>3. QED
    BY <2>1, <2>2 DEF Dropped
<1> HIDE DEF rows
<1>6. db' = db /\ ~Exists(draft'[u])
  BY <1>2, <1>3, <1>4, <1>5, PutRow, AccountKeys DEF Put
<1>7. /\ \A v \in UserId : draft'[v] = draft[v] \/ ~Exists(draft'[v])
      /\ \A c \in InviteId : /\ draft'[c] = draft[c] \/ Closed(draft'[c])
                             /\ c \in DOMAIN rows => Closed(draft'[c])
  BY <1>3, <1>5, PutRow, AccountKeys
<1>8. Follows(draft, draft', u, codes, codes) /\ Follows(db, db', u, codes, codes)
  BY <1>6, <1>7 DEF Follows, Recoded, Recodes
<1>9. GoesOn(r, req[r].got, u, i)
  BY <1>3, KnowsGoesOn DEF Goes
<1>10. UNCHANGED <<links, codes, spent, ended, world, proven>>
  BY <1>3 DEF Stay, ghostVars
<1>11. Upright({}) /\ Informed(r)
  BY <1>1, OnlyOne DEF HalfwayUser, Halfway, Upright
<1>12. /\ AddressTrue(db', u, Worlds[world].strategy, links, proven)
       /\ AddressTrue(draft', u, Worlds[world].strategy, links, proven)
  <2>1. /\ AddressTrue(db, u, Worlds[world].strategy, links, proven)
        /\ AddressTrue(draft, u, Worlds[world].strategy, links, proven)
    BY <1>2, <1>11 DEF Upright
  <2>2. QED
    BY <1>6, <2>1, AddressFollows
<1>13. req[r].op = "rejectEmailInvite" => i \in DOMAIN rows
  <2>1. SUFFICES ASSUME req[r].op = "rejectEmailInvite"
                 PROVE  i \in DOMAIN rows
    OBVIOUS
  <2>2. Waiting(draft[i]) /\ draft[i].invitee = u
    BY <1>1, <1>11, <2>1 DEF Informed, ReadsHold
  <2>3. i \in Key /\ Visible(r)[i] = draft[i]
    BY <1>2, <2>1, AloneSees, AccountKeys
  <2>4. Exists(Visible(r)[i]) /\ u \in Parents(i, Visible(r)[i])
    <3>1. i \in InviteId /\ i \notin ContactKey
      BY <1>2, <2>1, AccountKeys
    <3>2. Parents(i, draft[i]) = {draft[i].inviter, draft[i].invitee}
      BY <3>1 DEF Parents
    <3>3. QED
      BY <2>2, <2>3, <3>2 DEF Waiting
  <2>5. QED
    BY <1>4, <2>3, <2>4 DEF Family
<1>14. Informed(r)'
  <2>1. CASE req[r].op = "deleteUser"
    BY <1>1, <1>9, <2>1 DEF GoesOn, Informed, ReadsHold, WritesHold, FollowedLinks, Mailing,
       Halfway, Accepting, Answering
  <2>2. CASE req[r].op = "acceptByRealUser"
    <3>1. Closed(draft[i]) /\ Waiting(db[i]) /\ req[r].pc = 4
      BY <1>1, <1>11, <2>2 DEF Informed, WritesHold, Accepting
    <3>2. Closed(draft'[i]) /\ Waiting(db'[i])
      BY <1>2, <1>6, <1>7, <2>2, <3>1
    <3>3. QED
      BY <1>9, <1>10, <1>11, <2>2, <3>1, <3>2 DEF GoesOn, Informed, ReadsHold, WritesHold,
         FollowedLinks, Mailing, Halfway, Accepting, Answering
  <2>3. CASE req[r].op = "rejectEmailInvite"
    <3>1. Waiting(db[i]) /\ req[r].pc = 3
      BY <1>1, <1>11, <2>3 DEF Informed, WritesHold
    <3>2. Closed(draft'[i]) /\ Waiting(db'[i])
      BY <1>2, <1>6, <1>7, <1>13, <2>3, <3>1
    <3>3. QED
      BY <1>9, <1>10, <1>11, <2>3, <3>1, <3>2 DEF GoesOn, Informed, ReadsHold, WritesHold,
         FollowedLinks, Mailing, Halfway, Accepting, Answering
  <2>4. QED
    BY <1>1, <2>1, <2>2, <2>3
<1>15. codes \in Nat /\ HalfwayUser(r) = {} /\ OthersWait(r)
  BY <1>1, <1>9 DEF Typing, Code, HalfwayUser, Halfway, GoesOn
<1>16. QED
  BY <1>8, <1>10, <1>12, <1>14, <1>15, WritingOrderly

-------------------------------------------------------------------------------
(* As long as requests come one after the other.                             *)

LEMMA StartOrderly ==
    ASSUME IInv, Typing, RowsAreHeld, Orderly, NEW r \in Request, Alone(r), NEW op, NEW known,
           NEW reached, Start(r, op, known, reached), DOMAIN known = DOMAIN Idle, known.pc = 1,
           op # "changeEmail", op \notin Accepting,
           op = "confirmEmail" =>
                \E l \in links : /\ l.kind = "confirm" /\ l.user = known.user /\ l.code = known.arg
                                 /\ <<known.user, l.to>> \in reached,
           op \in Answering =>
                /\ known.arg \in links /\ known.arg.kind = "invite" /\ known.arg.user = known.user
                /\ known.arg.invite = known.invite /\ <<known.user, known.arg.to>> \in reached
    PROVE  Orderly'
<1>1. OthersWait(r)
  BY DEF IInv, RequestsOK, RequestOK, Start, OthersWait
<1>2. req'[r] = [known EXCEPT !.op = op, !.late = Carried(known) \cap ended]
  BY DEF IInv, RequestsOK, RequestOK, Start
<1>3. /\ req'[r].op = op /\ req'[r].pc = 1 /\ req'[r].arg = known.arg
      /\ req'[r].user = known.user /\ req'[r].invite = known.invite
  BY <1>2 DEF Idle
<1>4. /\ UNCHANGED <<db, draft, holder, links, codes, spent, ended, world>>
      /\ proven' = proven \cup reached /\ req[r].op = "none"
  BY DEF Start, tables
<1>5. HoldsNothing(r)'
  BY <1>4 DEF Typing, HandlerOK, Untransacted, HoldsNothing
<1>6. WritesHold(r)' /\ ReadsHold(req[r], db)' /\ ReadsHold(req[r], draft)'
  BY <1>3, <1>5 DEF WritesHold, ReadsHold, Halfway, Mailing
<1>7. FollowedLinks(req[r])'
  BY <1>3, <1>4 DEF FollowedLinks, Mailing
<1>8. Informed(r)' /\ ~Halfway(req[r])
  BY <1>4, <1>6, <1>7 DEF Informed, Halfway
<1>9. QED
  BY <1>1, <1>4, <1>8, QuietOrderly

LEMMA BeginOrderly ==
    ASSUME IInv, Typing, RowsAreHeld, Orderly, NEW r \in Request, Begin(r), ~overlapped'
    PROVE  Orderly'
<1> USE DEF Answering, Accepting
<1>0. ASSUME NEW op, NEW known, NEW reached, Start(r, op, known, reached)
      PROVE  Alone(r)
  BY <1>0 DEF Start, Alone
<1>1. \A l : \A kind : l \in Received(kind) => l \in links /\ l.kind = kind
  BY DEF Received
<1>2. CASE \/ createUser(r) \/ updateUser(r) \/ deleteUser(r) \/ banUser(r) \/ unbanUser(r)
           \/ resendConfirmEmail(r) \/ forgotPassword(r) \/ resendForgotPasswordEmail(r)
           \/ resetPassword(r) \/ createInviteByEmail(r) \/ login(r) \/ refreshToken(r)
           \/ logout(r) \/ query(r) \/ createInvite(r) \/ acceptInvite(r) \/ rejectInvite(r)
  <2>1. ASSUME NEW op, NEW known, NEW reached, Start(r, op, known, reached),
               DOMAIN known = DOMAIN Idle, known.pc = 1,
               op # "changeEmail", op # "confirmEmail", op \notin Answering
        PROVE  Orderly'
    BY <1>0, <2>1, StartOrderly
  <2>2. CASE createUser(r)
    BY <2>1, <2>2 DEF createUser, Idle
  <2>3. CASE updateUser(r)
    BY <2>1, <2>3 DEF updateUser, Idle
  <2>4. CASE deleteUser(r)
    BY <2>1, <2>4 DEF deleteUser, Idle
  <2>5. CASE banUser(r)
    BY <2>1, <2>5 DEF banUser, Idle
  <2>6. CASE unbanUser(r)
    BY <2>1, <2>6 DEF unbanUser, Idle
  <2>7. CASE resendConfirmEmail(r)
    BY <2>1, <2>7 DEF resendConfirmEmail, Idle
  <2>8. CASE forgotPassword(r)
    BY <2>1, <2>8 DEF forgotPassword, Idle
  <2>9. CASE resendForgotPasswordEmail(r)
    BY <2>1, <2>9 DEF resendForgotPasswordEmail, Idle
  <2>10. CASE resetPassword(r)
    BY <2>1, <2>10 DEF resetPassword, Idle
  <2>11. CASE createInviteByEmail(r)
    BY <2>1, <2>11 DEF createInviteByEmail, Idle
  <2>12. CASE login(r)
    BY <2>1, <2>12 DEF login, Idle
  <2>13. CASE refreshToken(r)
    BY <2>1, <2>13 DEF refreshToken, Idle
  <2>14. CASE logout(r)
    BY <2>1, <2>14 DEF logout, Idle
  <2>15. CASE query(r)
    BY <2>1, <2>15 DEF query, Idle
  <2>16. CASE createInvite(r)
    BY <2>1, <2>16 DEF createInvite, Idle
  <2>17. CASE acceptInvite(r) \/ rejectInvite(r)
    BY <2>1, <2>17 DEF acceptInvite, rejectInvite, AnswerInvite, Idle
  <2>18. QED
    BY <1>2, <2>2, <2>3, <2>4, <2>5, <2>6, <2>7, <2>8, <2>9, <2>10, <2>11,
       <2>12, <2>13, <2>14, <2>15, <2>16, <2>17
<1>3. CASE confirmEmail(r)
  <2>1. PICK l \in Received("confirm") :
            Start(r, "confirmEmail", [Idle EXCEPT !.user = l.user, !.arg = l.code],
                  {<<l.user, l.to>>})
    BY <1>3 DEF confirmEmail
  <2> DEFINE known == [Idle EXCEPT !.user = l.user, !.arg = l.code]
             reached == {<<l.user, l.to>>}
  <2>2. /\ DOMAIN known = DOMAIN Idle /\ known.pc = 1
        /\ known.user = l.user /\ known.arg = l.code
    BY DEF Idle
  <2>3. Start(r, "confirmEmail", known, reached)
    BY <2>1
  <2> HIDE DEF known
  <2>4. l \in links /\ l.kind = "confirm"
    BY <1>1
  <2>5. Alone(r)
    BY <2>3 DEF Start, Alone
  <2>6. \E m \in links : /\ m.kind = "confirm" /\ m.user = known.user /\ m.code = known.arg
                         /\ <<known.user, m.to>> \in reached
    BY <2>2, <2>4
  <2> HIDE DEF reached
  <2>7. QED
    BY <2>2, <2>3, <2>5, <2>6, StartOrderly
<1>4. CASE acceptEmailInvite(r) \/ rejectEmailInvite(r)
  <2>1. PICK op \in {"acceptEmailInvite", "rejectEmailInvite"} : FollowInvite(r, op)
    BY <1>4 DEF acceptEmailInvite, rejectEmailInvite
  <2>2. PICK l \in Received("invite") :
            Start(r, op, [Idle EXCEPT !.user = l.user, !.invite = l.invite, !.arg = l],
                  {<<l.user, l.to>>})
    BY <2>1 DEF FollowInvite
  <2> DEFINE known == [Idle EXCEPT !.user = l.user, !.invite = l.invite, !.arg = l]
  <2>3. /\ DOMAIN known = DOMAIN Idle /\ known.pc = 1
        /\ known.user = l.user /\ known.invite = l.invite /\ known.arg = l
    BY DEF Idle
  <2>4. Start(r, op, known, {<<l.user, l.to>>})
    BY <2>2
  <2> HIDE DEF known
  <2>5. l \in links /\ l.kind = "invite" /\ Alone(r)
    BY <1>0, <1>1, <2>4
  <2>6. QED
    BY <2>3, <2>4, <2>5, StartOrderly
<1>5. QED
  BY <1>2, <1>3, <1>4 DEF Begin

\* Only a handler at work runs, and what it does overlaps with nothing new.
LEMMA ExecuteRuns ==
    ASSUME NEW r, NEW statement, NEW ok, NEW rows, NEW knows, NEW after,
           \/ Execute(r, statement, ok, rows, knows, after)
           \/ ExecuteNow(r, statement, ok, rows, knows, after),
           after => overlapped' = overlapped
    PROVE  At(r, statement) /\ overlapped' = overlapped
BY DEF Execute, ExecuteNow, Throw, Stay, ghostVars

LEMMA ReadRuns ==
    ASSUME NEW r, NEW statement, NEW ok, NEW got, Read(r, statement, ok, got)
    PROVE  At(r, statement) /\ overlapped' = overlapped
BY DEF Read, Throw, Stay, ghostVars

LEMMA RunsAtWork ==
    ASSUME IInv, NEW r \in Request, Run(r)
    PROVE  req[r].op # "none" /\ overlapped' = overlapped
<1>1. \A statement : At(r, statement) /\ statement # "idle" => req[r].op # "none"
  BY DEF IInv, RequestsOK, RequestOK, At, Script
<1>2. /\ Stay => overlapped' = overlapped
      /\ \A n : NewCodes(n) => overlapped' = overlapped
      /\ \A thing : Take(thing) => overlapped' = overlapped
  BY DEF Stay, NewCodes, Take, ghostVars
<1>3. SUFFICES \E statement : /\ statement # "idle" /\ At(r, statement)
                              /\ overlapped' = overlapped
  BY <1>1
<1>4. CASE \/ checkEmailFree(r) \/ readUser(r) \/ readUnconfirmed(r) \/ checkConfirmCode(r)
           \/ checkResetCode(r) \/ checkNoGhost(r) \/ findInvitee(r) \/ readGhost(r)
           \/ readInvite(r) \/ validateCreateInvite(r) \/ verifyRefreshToken(r) \/ AuthGuard(r)
           \/ validateAnswer(r)
  BY <1>4, ReadRuns DEF checkEmailFree, readUser, readUnconfirmed, checkConfirmCode,
     checkResetCode, checkNoGhost, findInvitee, readGhost, readInvite, validateCreateInvite,
     validateAnswer, verifyRefreshToken, AuthGuard
<1>5. CASE findActive(r) \/ findRealUser(r) \/ authenticate(r) \/ authenticateUser(r)
  BY <1>2, <1>5 DEF findActive, findRealUser, authenticate, authenticateUser, Throw
<1>6. CASE \/ mailConfirm(r) \/ mailReset(r) \/ mailInvite(r) \/ invalidateAccessToken(r)
           \/ invalidateRefreshToken(r) \/ deliver(r) \/ commit(r) \/ done(r)
  BY <1>2, <1>6 DEF mailConfirm, mailReset, mailInvite, Mail, invalidateAccessToken,
     invalidateRefreshToken, deliver, commit, done, Throw, ghostVars
<1>7. CASE \/ insertUser(r) \/ insertGhost(r) \/ insertInvite(r) \/ insertContacts(r)
           \/ redirectInvite(r) \/ setInviteAccepted(r) \/ answerInvite(r)
  BY <1>2, <1>7, ExecuteRuns DEF insertUser, InsertUser, insertGhost, insertInvite,
     insertContacts, redirectInvite, setInviteAccepted, SetInvite, answerInvite
<1>8. CASE \/ setUser(r) \/ setConfirmCode(r) \/ setBanned(r) \/ becomeUser(r) \/ dropUser(r)
           \/ deleteGhost(r)
  <2>1. CASE setUser(r) \/ setConfirmCode(r)
    <3>1. CASE setUser(r)
      BY <1>2, <3>1 DEF setUser, Execute, Throw
    <3>2. CASE setConfirmCode(r)
      BY <1>2, <3>2 DEF setConfirmCode, Execute, Throw
    <3>3. QED
      BY <2>1, <3>1, <3>2
  <2>2. CASE setBanned(r) \/ becomeUser(r)
    BY <1>2, <2>2, ExecuteRuns DEF setBanned, becomeUser
  <2>3. CASE dropUser(r) \/ deleteGhost(r)
    BY <1>2, <2>3, ExecuteRuns DEF dropUser, deleteGhost
  <2>4. QED
    BY <1>8, <2>1, <2>2, <2>3
<1>9. CASE \/ renewConfirmCode(r) \/ clearConfirmCode(r) \/ renewResetCode(r) \/ setPassword(r)
  BY <1>2, <1>9, ExecuteRuns DEF renewConfirmCode, clearConfirmCode, renewResetCode, setPassword
<1>10. QED
  BY <1>4, <1>5, <1>6, <1>7, <1>8, <1>9 DEF Run

LEMMA RunOrderly ==
    ASSUME IInv, Typing, RowsAreHeld, Orderly, NEW r \in Request, Run(r)
    PROVE  Orderly'
<1>1. Alone(r)
  BY RunsAtWork DEF Orderly
<1>2. CASE Throw(r)
  BY <1>1, <1>2, ThrowOrderly
<1>3. CASE ~Throw(r)
  BY <1>1, <1>3, ReadingOrderly, LookingUpOrderly, InvalidatingOrderly, MailingOrderly,
     DeliverOrderly, DoneOrderly, CommitOrderly, SetBannedOrderly, SetUserOrderly,
     SetConfirmCodeOrderly, BecomeUserOrderly, RenewConfirmCodeOrderly, RenewResetCodeOrderly,
     ClearConfirmCodeOrderly, SetPasswordOrderly, InsertUserOrderly, InsertGhostOrderly,
     InsertInviteOrderly, SetInviteOrderly, AnswerInviteOrderly, InsertContactsOrderly,
     DroppingOrderly DEF Run
<1>4. QED
  BY <1>2, <1>3

SerialInv == overlapped \/ Orderly

LEMMA NextKeepsSerialInv ==
    IInv /\ Typing /\ RowsAreHeld /\ SerialInv /\ [Next]_vars => SerialInv'
<1> SUFFICES ASSUME IInv, Typing, RowsAreHeld, SerialInv, [Next]_vars
             PROVE  SerialInv'
  OBVIOUS
<1>1. CASE UNCHANGED vars \/ Time
  <2>1. UNCHANGED <<tables, req, links, codes, ghostVars>>
    BY <1>1 DEF vars, Time
  <2>2. UNCHANGED <<db, draft, holder, req, links, codes, world, overlapped, proven, spent, ended>>
    BY <2>1 DEF tables, ghostVars
  <2>3. CASE overlapped
    BY <2>2, <2>3 DEF SerialInv
  <2>4. CASE Orderly
    <3>1. \A r \in Request : (Informed(r) <=> Informed(r)')
      BY <2>2 DEF Informed, ReadsHold, WritesHold, FollowedLinks, Mailing, Halfway, HoldsNothing
    <3>2. (UNION {HalfwayUser(r) : r \in Request})' = UNION {HalfwayUser(r) : r \in Request}
      BY <2>2 DEF HalfwayUser, Halfway
    <3>3. \A halfway : Upright(halfway) <=> Upright(halfway)'
      BY <2>2 DEF Upright
    <3>4. \A r \in Request : req'[r].op # "none" => Alone(r)'
      BY <2>2, <2>4 DEF Orderly, Alone
    <3>5. QED
      BY <2>4, <3>1, <3>2, <3>3, <3>4 DEF SerialInv, Orderly
  <2>5. QED
    BY <2>3, <2>4 DEF SerialInv
<1>2. ASSUME NEW r \in Request, Begin(r) \/ Run(r) \/ Abort(r)
      PROVE  SerialInv'
  <2>1. CASE overlapped
    <3>1. CASE Begin(r)
      BY <2>1, <3>1 DEF Begin, Start, createUser, updateUser, deleteUser, banUser, unbanUser,
         resendConfirmEmail, confirmEmail, forgotPassword, resendForgotPasswordEmail,
         resetPassword, createInviteByEmail, acceptEmailInvite, rejectEmailInvite, FollowInvite,
         createInvite, acceptInvite, rejectInvite, AnswerInvite, login, refreshToken, logout,
         query, SerialInv
    <3>2. CASE Run(r)
      BY <2>1, <3>2, RunsAtWork DEF SerialInv
    <3>3. CASE Abort(r)
      BY <2>1, <3>3 DEF Abort, Throw, Stay, ghostVars, SerialInv
    <3>4. QED
      BY <1>2, <3>1, <3>2, <3>3
  <2>2. CASE Orderly
    <3>1. CASE Begin(r)
      BY <2>2, <3>1, BeginOrderly DEF SerialInv
    <3>2. CASE Run(r)
      BY <2>2, <3>2, RunOrderly DEF SerialInv
    <3>3. CASE Abort(r)
      BY <2>2, <3>3, ThrowOrderly DEF Abort, Orderly, SerialInv
    <3>4. QED
      BY <1>2, <3>1, <3>2, <3>3
  <2>3. QED
    BY <2>1, <2>2 DEF SerialInv
<1>3. QED
  BY <1>1, <1>2 DEF Next

LEMMA InitialSerialInv == Init => SerialInv
<1> SUFFICES ASSUME Init
             PROVE  Orderly
  BY DEF SerialInv
<1>1. /\ world \in DOMAIN Worlds /\ db = Populated(world) /\ draft = db
      /\ links = Worlds[world].links /\ codes = Worlds[world].codes
      /\ proven = Worlds[world].proven
  BY DEF Init
<1>2. \A r \in Request : req[r].op = "none"
  BY DEF Init, Idle
<1>3. DOMAIN spent = {}
  BY DEF Init, EmptyBag, SetToBag
<1>4. /\ CodesAreUnique(db, codes) /\ LinksCoded(links, codes)
      /\ \A l \in links : ConfirmsMailed(db, l) /\ NamesItsInvite(db, l)
      /\ Worlds[world].strategy = "auto" \/ ConfirmedAreProven(db, proven)
  BY <1>1, WorldsAreSound
<1>5. Sound(db, codes, links, DOMAIN spent) /\ Sound(draft, codes, links, DOMAIN spent)
  BY <1>1, <1>3, <1>4 DEF Sound, Unspent
<1>6. SpentCoded(DOMAIN spent, codes)
  BY <1>3 DEF SpentCoded
<1>7. ASSUME NEW u \in UserId
      PROVE  /\ AddressTrue(db, u, Worlds[world].strategy, links, proven)
             /\ AddressTrue(draft, u, Worlds[world].strategy, links, proven)
  BY <1>1, <1>4 DEF AddressTrue, ConfirmedAreProven
<1>8. \A halfway : Upright(halfway)
  BY <1>3, <1>4, <1>5, <1>6, <1>7 DEF Upright
<1>9. \A r \in Request : Informed(r)
  BY <1>2, IdleIsInformed
<1>10. QED
  BY <1>2, <1>8, <1>9 DEF Orderly

\* As long as no two requests overlapped, the rows, the links and what was taken
\* agree, and the only handler at work knows them.
THEOREM SerialInvariantHolds == Spec => []SerialInv
BY InvariantHolds, TypingHolds, RowsStayHeld, InitialSerialInv, NextKeepsSerialInv, PTL DEF Spec

\* One request after the other, no code, e-mail invite or refresh token is taken
\* twice, whatever handlers fail on the way.
THEOREM CodesWorkOnce == Spec => []OneTimeMeansOnce
<1>1. SerialInv => OneTimeMeansOnce
  BY DEF SerialInv, Orderly, Upright, OneTimeMeansOnce, BagToSet
<1>2. QED
  BY <1>1, SerialInvariantHolds, PTL

\* One request after the other, where addresses are confirmed by hand, whoever is
\* confirmed has an address where somebody read the link.
THEOREM ConfirmedWereProven == Spec => []ConfirmedMeansProven
<1>1. SerialInv => ConfirmedMeansProven
  BY DEF SerialInv, Orderly, Upright, AddressTrue, ConfirmedMeansProven, ConfirmedAreProven
<1>2. QED
  BY <1>1, SerialInvariantHolds, PTL

-------------------------------------------------------------------------------
(* Ghosts and their invites, however requests interleave.                    *)

\* Foreign keys, in the committed rows and in the newest ones: a row is deleted
\* with its children, and not while somebody else holds one of them.
ChildrenHeld ==
    \A k \in Key : Exists(db[k]) =>
        \A p \in Parents(k, db[k]) : ~Exists(draft[p]) => holder[k] = holder[p]
ParentsSeen ==
    \A k \in Key : Exists(draft[k]) /\ holder[k] \in Request =>
        \A p \in Parents(k, draft[k]) : holder[p] = holder[k] \/ Exists(db[p])
\* Invites are deleted with one of their users only.
InvitesFollow ==
    \A i \in InviteId : Exists(db[i]) /\ ~Exists(draft[i]) =>
        ~Exists(draft[db[i].inviter]) \/ ~Exists(draft[db[i].invitee])
GoneForGood ==
    \A k \in UserId \cup InviteId : /\ db[k] # Absent => draft[k] # Absent
                                    /\ db[k] = Gone => draft[k] = Gone

Families ==
    /\ ParentsThere(db) /\ ParentsThere(draft)
    /\ ChildrenHeld /\ ParentsSeen /\ InvitesFollow /\ GoneForGood

IsUser(version) == Exists(version) /\ version.email \in Address

\* Nobody but who waits for the mailed invite i has an invite waiting for ghost g,
\* unless it was made or answered by hand.
Sole(g, i) == \A j \in InviteId \ (byHand \cup {i}) : Waiting(db[j]) => db[j].invitee # g

\* What r has written and nobody else has read.
WroteUser(r) ==
    /\ \A k \in Key : holder[k] = r =>
        /\ k = req[r].user /\ Exists(draft[k])
        /\ req[r].op = "createUser" => req[r].pc > 2 /\ db[k] = Absent /\ IsUser(draft[k])
        /\ req[r].op \in {"updateUser", "changeEmail"} => Exists(db[k]) /\ IsUser(draft[k])
        /\ req[r].op \in {"banUser", "unbanUser"} => Exists(db[k]) /\ draft[k].email = db[k].email
    /\ req[r].op = "createUser" /\ req[r].pc > 2 => holder[req[r].user] = r
    /\ req[r].op = "changeEmail" => holder[req[r].user] = r

WroteInvite(r) ==
    LET q == req[r]
        g == req[r].got.invitee
        i == req[r].invite
    IN /\ \A k \in Key : holder[k] = r => q.pc > 3 /\ (k = g \/ (q.pc > 4 /\ k = i))
       /\ q.pc > 3 => /\ holder[g] = r /\ db[g] = Absent
                      /\ Exists(draft[g]) /\ draft[g].email = <<q.user, q.arg>>
       /\ q.pc > 4 => /\ holder[i] = r /\ db[i] = Absent
                      /\ draft[i] = [inviter |-> q.user, invitee |-> g, status |-> "PENDING"]

WroteOpen(r) ==
    LET q == req[r]
        i == req[r].invite
    IN /\ \A k \in Key : holder[k] = r => q.pc > 2 /\ k = i
       /\ q.pc > 2 => holder[i] = r /\ db[i] = Absent

WroteAnswer(r) ==
    LET q == req[r]
        i == req[r].invite
    IN /\ \A k \in Key : holder[k] = r => q.pc > 2 /\ (k = i \/ k \in ContactKey)
       /\ q.pc > 2 => /\ holder[i] = r /\ Exists(db[i])
                      /\ draft[i].inviter = db[i].inviter /\ draft[i].invitee = db[i].invitee
                      /\ draft[i].status # "PENDING"

WroteAsGhost(r) ==
    LET q == req[r]
        g == req[r].user
        i == req[r].invite
    IN /\ \A k \in Key : holder[k] = r =>
            \/ q.pc > 1 /\ k = g
            \/ q.pc > 2 /\ k = i
            \/ q.pc > 3 /\ k \in ContactKey
       /\ q.pc > 1 => holder[g] = r /\ Exists(db[g]) /\ IsUser(draft[g])
       /\ q.pc > 2 => /\ holder[i] = r /\ Exists(db[i])
                      /\ draft[i] = [db[i] EXCEPT !.status = "ACCEPTED"]

WroteAsUser(r) ==
    LET q == req[r]
        g == req[r].user
        i == req[r].invite
        accepted == [db[i] EXCEPT !.invitee = q.got.invitee, !.status = "ACCEPTED"]
    IN /\ \A k \in Key : holder[k] = r =>
            /\ q.pc > 2
            /\ Exists(draft[k]) => k = i \/ (q.pc > 3 /\ k \in ContactKey)
       /\ q.pc > 2 => holder[i] = r /\ Exists(db[i]) /\ (Exists(draft[i]) => draft[i] = accepted)
       /\ q.pc \in 3..4 => Exists(draft[i])
       /\ q.pc > 4 => holder[g] = r /\ Exists(db[g]) /\ ~Exists(draft[g])

Wrote(r) ==
    /\ req[r].op \in {"createUser", "updateUser", "changeEmail", "banUser", "unbanUser"}
            => WroteUser(r)
    /\ req[r].op \in {"deleteUser", "rejectEmailInvite"}
            => \A k \in Key : holder[k] = r => ~Exists(draft[k])
    /\ req[r].op = "createInviteByEmail" => WroteInvite(r)
    /\ req[r].op = "createInvite" => WroteOpen(r)
    /\ req[r].op \in {"acceptInvite", "rejectInvite"} => WroteAnswer(r)
    /\ req[r].op = "acceptByGhost" => WroteAsGhost(r)
    /\ req[r].op = "acceptByRealUser" => WroteAsUser(r)

\* Ghost g waits for the answer to invite i, or is answered.
Names(g, i) ==
    /\ db[g] # Absent /\ db[i] # Absent
    /\ Waiting(db[i]) => db[i].invitee = g
    /\ Sole(g, i)

\* Invite i is still the one of g, unless a user accepted in the place of g.
Claimed(g, i) ==
    /\ db[g] # Absent /\ db[i] # Absent
    /\ Exists(db[i]) => db[i].invitee = g \/ db[g] = Gone
    /\ Sole(g, i)

Knowing(r) ==
    LET q == req[r]
    IN /\ q.op = "deleteUser" => Exists(q.seen)
       /\ q.op = "createInviteByEmail" => db[q.user] # Absent
       /\ q.op = "createInviteByEmail" /\ q.pc > 3 => q.got.row.confirmCode \in 0..codes
       /\ q.op = "acceptEmailInvite" => /\ q.arg \in links /\ q.arg.kind = "invite"
                                        /\ q.arg.user = q.user /\ q.arg.invite = q.invite
       /\ q.op = "acceptEmailInvite" /\ q.pc > 1 => Names(q.user, q.invite)
       /\ q.op = "acceptEmailInvite" /\ q.pc > 2 => Claimed(q.user, q.invite)
       /\ q.op \in Accepting => Claimed(q.user, q.invite)
       /\ q.op = "acceptByGhost" => q.got.invitee = q.user

\* A link names an invite of its ghost, or is of a transaction that is about to
\* commit, or was and is good for nothing.
Sending(l) ==
    \E s \in Request : /\ req[s].op = "createInviteByEmail" /\ req[s].pc = 6
                       /\ req[s].got.invitee = l.user /\ req[s].invite = l.invite
Dead(l) ==
    /\ Exists(db[l.user]) => db[l.user].confirmCode # l.code
    /\ Exists(draft[l.user]) => draft[l.user].confirmCode # l.code
InviteLinksOK ==
    \A l \in links : l.kind = "invite" =>
        l.code \in 0..codes /\ (Names(l.user, l.invite) \/ Sending(l) \/ Dead(l))

InvitersWereUsers ==
    \A g \in UserId : IsGhost(db[g]) => db[db[g].email[1]] # Absent

Haunted ==
    /\ Families
    /\ AwaitAnswer(db, byHand) /\ InvitersWereUsers
    /\ InviteLinksOK
    /\ \A r \in Request : Wrote(r) /\ Knowing(r)

-------------------------------------------------------------------------------
(* Foreign keys.                                                             *)

LEMMA ParentsAre ==
    ASSUME NEW k \in Key, NEW row, RowTyped(k, row), Exists(row)
    PROVE  /\ k \in UserId => Parents(k, row) = {}
           /\ k \in InviteId => /\ Parents(k, row) = {row.inviter, row.invitee}
                                /\ row.inviter \in UserId /\ row.invitee \in UserId
           /\ k \in ContactKey => /\ Parents(k, row) = {k[1], k[2], row.invite}
                                  /\ k[1] \in UserId /\ k[2] \in UserId /\ row.invite \in InviteId
           /\ Parents(k, row) \subseteq UserId \cup InviteId
<1>1. CASE k \in UserId
  BY <1>1, AccountKeys DEF Parents
<1>2. CASE k \in InviteId
  BY <1>2, AccountKeys DEF Parents, RowTyped, InviteRow
<1>3. CASE k \in ContactKey
  <2>1. k \notin InviteId /\ k \notin UserId
    BY <1>3, AccountKeys
  <2>2. row.invite \in InviteId
    BY <1>3 DEF RowTyped, ContactRow
  <2>3. k[1] \in UserId /\ k[2] \in UserId
    BY <1>3 DEF ContactKey
  <2>4. QED
    BY <1>3, <2>1, <2>2, <2>3 DEF Parents
<1>4. QED
  BY <1>1, <1>2, <1>3, AccountKeys

LEMMA RowsAreTyped ==
    ASSUME Typing, NEW r \in Request, NEW k \in Key
    PROVE  RowTyped(k, db[k]) /\ RowTyped(k, draft[k]) /\ RowTyped(k, Visible(r)[k])
BY RowsTypedIs, ReadsRow DEF Typing

\* The parents of a committed or newest row are users and invites.
LEMMA ParentKeys ==
    ASSUME Typing, NEW k \in Key
    PROVE  /\ Exists(db[k]) => Parents(k, db[k]) \subseteq (UserId \cup InviteId) \cap Key
           /\ Exists(draft[k]) => Parents(k, draft[k]) \subseteq (UserId \cup InviteId) \cap Key
BY ParentsAre, RowsTypedIs, AccountKeys DEF Typing

\* A parent that does not exist any more is held.
LEMMA MissingParentsAreHeld ==
    ASSUME Typing, RowsAreHeld, Families, NEW k \in Key, Exists(db[k]),
           NEW p \in Parents(k, db[k]), ~Exists(draft[p])
    PROVE  holder[k] = holder[p] /\ holder[p] \in Request
<1>1. p \in Key /\ Exists(db[p])
  BY ParentKeys DEF Families, ParentsThere
<1>2. draft[p] # db[p]
  BY <1>1
<1>3. QED
  BY <1>1, <1>2 DEF RowsAreHeld, FreeRowsAreCommitted, Families, ChildrenHeld

LEMMA RollbackKeepsFamilies ==
    ASSUME Typing, RowsAreHeld, Families, NEW r \in Request, RollbackTx(r)
    PROVE  Families'
<1> USE AccountKeys
<1>1. \A k \in Key : /\ db'[k] = db[k]
                     /\ holder[k] = r => draft'[k] = db[k] /\ holder'[k] = NoRequest
                     /\ holder[k] # r => draft'[k] = draft[k] /\ holder'[k] = holder[k]
  BY RollbackRow
<1>2. \A k \in Key : /\ Exists(db[k]) => Parents(k, db[k]) \subseteq Key
                     /\ Exists(draft[k]) => Parents(k, draft[k]) \subseteq Key
  BY ParentKeys
<1>3. ParentsThere(db)'
  BY <1>1, <1>2 DEF Families, ParentsThere
<1>4. ParentsThere(draft)'
  <2>1. SUFFICES ASSUME NEW k \in Key, Exists(draft'[k]), NEW p \in Parents(k, draft'[k])
                 PROVE  Exists(draft'[p])
    BY DEF ParentsThere
  <2>2. CASE holder[k] = r
    <3>1. Exists(db[k]) /\ p \in Parents(k, db[k]) /\ p \in Key /\ Exists(db[p])
      BY <1>1, <1>2, <2>1, <2>2 DEF Families, ParentsThere
    <3>2. CASE holder[p] = r
      BY <1>1, <3>1, <3>2
    <3>3. CASE holder[p] # r
      BY <1>1, <2>2, <3>1, <3>3, MissingParentsAreHeld
    <3>4. QED
      BY <3>2, <3>3
  <2>3. CASE holder[k] # r
    <3>1. Exists(draft[k]) /\ p \in Parents(k, draft[k]) /\ p \in Key /\ Exists(draft[p])
      BY <1>1, <1>2, <2>1, <2>3 DEF Families, ParentsThere
    <3>2. CASE holder[p] # r
      BY <1>1, <3>1, <3>2
    <3>3. CASE holder[p] = r
      <4>1. Exists(db[p])
        <5>1. CASE holder[k] \in Request
          BY <2>3, <3>1, <3>3, <5>1 DEF Families, ParentsSeen
        <5>2. CASE holder[k] = NoRequest
          BY <3>1, <5>2 DEF Families, ParentsThere, RowsAreHeld, FreeRowsAreCommitted
        <5>3. QED
          BY <5>1, <5>2 DEF RowsAreHeld
      <4>2. QED
        BY <1>1, <3>1, <3>3, <4>1
    <3>4. QED
      BY <3>2, <3>3
  <2>4. QED
    BY <2>2, <2>3
<1>5. ChildrenHeld'
  <2>1. SUFFICES ASSUME NEW k \in Key, Exists(db'[k]), NEW p \in Parents(k, db'[k]),
                        ~Exists(draft'[p])
                 PROVE  holder'[k] = holder'[p]
    BY DEF ChildrenHeld
  <2>2. Exists(db[k]) /\ p \in Parents(k, db[k]) /\ p \in Key /\ Exists(db[p])
    BY <1>1, <1>2, <2>1 DEF Families, ParentsThere
  <2>3. holder[p] # r /\ ~Exists(draft[p])
    BY <1>1, <2>1, <2>2
  <2>4. QED
    BY <1>1, <2>2, <2>3 DEF Families, ChildrenHeld
<1>6. ParentsSeen'
  <2>1. SUFFICES ASSUME NEW k \in Key, Exists(draft'[k]), holder'[k] \in Request,
                        NEW p \in Parents(k, draft'[k])
                 PROVE  holder'[p] = holder'[k] \/ Exists(db'[p])
    BY DEF ParentsSeen
  <2>2. holder[k] # r /\ holder[k] \in Request /\ Exists(draft[k]) /\ p \in Parents(k, draft[k])
    BY <1>1, <2>1, NoRequestIsNoRequest
  <2>3. QED
    BY <1>1, <1>2, <2>2 DEF Families, ParentsSeen
<1>7. InvitesFollow'
  <2>1. SUFFICES ASSUME NEW i \in InviteId, Exists(db'[i]), ~Exists(draft'[i])
                 PROVE  ~Exists(draft'[db'[i].inviter]) \/ ~Exists(draft'[db'[i].invitee])
    BY DEF InvitesFollow
  <2>2. holder[i] # r /\ Exists(db[i]) /\ ~Exists(draft[i]) /\ db'[i] = db[i] /\ i \in Key
    BY <1>1, <2>1
  <2>3. PICK p \in {db[i].inviter, db[i].invitee} : ~Exists(draft[p])
    BY <2>2 DEF Families, InvitesFollow
  <2>4. p \in Parents(i, db[i]) /\ p \in Key
    BY <1>2, <2>2, <2>3, ParentsAre, RowsTypedIs DEF Typing
  <2>5. holder[p] # r
    BY <2>2, <2>3, <2>4, MissingParentsAreHeld
  <2>6. QED
    BY <1>1, <2>2, <2>3, <2>4, <2>5
<1>8. GoneForGood'
  BY <1>1 DEF Families, GoneForGood
<1>9. QED
  BY <1>3, <1>4, <1>5, <1>6, <1>7, <1>8 DEF Families

LEMMA CommitKeepsFamilies ==
    ASSUME Typing, RowsAreHeld, Families, NEW r \in Request, CommitTx(r)
    PROVE  Families'
<1> USE AccountKeys
<1>1. \A k \in Key : /\ draft'[k] = draft[k]
                     /\ holder[k] = r => db'[k] = draft[k] /\ holder'[k] = NoRequest
                     /\ holder[k] # r => db'[k] = db[k] /\ holder'[k] = holder[k]
  BY CommitRow
<1>2. \A k \in Key : /\ Exists(db[k]) => Parents(k, db[k]) \subseteq Key
                     /\ Exists(draft[k]) => Parents(k, draft[k]) \subseteq Key
  BY ParentKeys
<1>3. ParentsThere(db)'
  <2>1. SUFFICES ASSUME NEW k \in Key, Exists(db'[k]), NEW p \in Parents(k, db'[k])
                 PROVE  Exists(db'[p])
    BY DEF ParentsThere
  <2>2. CASE holder[k] = r
    <3>1. Exists(draft[k]) /\ p \in Parents(k, draft[k]) /\ p \in Key /\ Exists(draft[p])
      BY <1>1, <1>2, <2>1, <2>2 DEF Families, ParentsThere
    <3>2. holder[p] = r \/ Exists(db[p])
      BY <2>2, <3>1 DEF Families, ParentsSeen
    <3>3. QED
      BY <1>1, <3>1, <3>2
  <2>3. CASE holder[k] # r
    <3>1. Exists(db[k]) /\ p \in Parents(k, db[k]) /\ p \in Key /\ Exists(db[p])
      BY <1>1, <1>2, <2>1, <2>3 DEF Families, ParentsThere
    <3>2. holder[p] = r => Exists(draft[p])
      BY <2>3, <3>1, MissingParentsAreHeld
    <3>3. QED
      BY <1>1, <3>1, <3>2
  <2>4. QED
    BY <2>2, <2>3
<1>4. ParentsThere(draft)'
  BY <1>1, <1>2 DEF Families, ParentsThere
<1>5. ChildrenHeld'
  <2>1. SUFFICES ASSUME NEW k \in Key, Exists(db'[k]), NEW p \in Parents(k, db'[k]),
                        ~Exists(draft'[p])
                 PROVE  holder'[k] = holder'[p]
    BY DEF ChildrenHeld
  <2>2. CASE holder[k] = r
    BY <1>1, <1>2, <2>1, <2>2 DEF Families, ParentsThere
  <2>3. CASE holder[k] # r
    BY <1>1, <1>2, <2>1, <2>3 DEF Families, ChildrenHeld
  <2>4. QED
    BY <2>2, <2>3
<1>6. ParentsSeen'
  <2>1. SUFFICES ASSUME NEW k \in Key, Exists(draft'[k]), holder'[k] \in Request,
                        NEW p \in Parents(k, draft'[k])
                 PROVE  holder'[p] = holder'[k] \/ Exists(db'[p])
    BY DEF ParentsSeen
  <2>2. /\ holder[k] # r /\ holder[k] \in Request /\ Exists(draft[k])
        /\ p \in Parents(k, draft[k]) /\ p \in Key /\ Exists(draft[p])
    BY <1>1, <1>2, <2>1, NoRequestIsNoRequest DEF Families, ParentsThere
  <2>3. QED
    BY <1>1, <2>2 DEF Families, ParentsSeen
<1>7. InvitesFollow'
  <2>1. SUFFICES ASSUME NEW i \in InviteId, Exists(db'[i]), ~Exists(draft'[i])
                 PROVE  ~Exists(draft'[db'[i].inviter]) \/ ~Exists(draft'[db'[i].invitee])
    BY DEF InvitesFollow
  <2>2. Exists(db[i]) /\ ~Exists(draft[i]) /\ db'[i] = db[i] /\ i \in Key
    BY <1>1, <2>1
  <2>3. db[i].inviter \in Key /\ db[i].invitee \in Key
    BY <2>2, ParentsAre, RowsTypedIs DEF Typing
  <2>4. QED
    BY <1>1, <2>2, <2>3 DEF Families, InvitesFollow
<1>8. GoneForGood'
  BY <1>1 DEF Families, GoneForGood
<1>9. QED
  BY <1>3, <1>4, <1>5, <1>6, <1>7, <1>8 DEF Families

\* What a write has waited for.
LEMMA WaitedFor ==
    ASSUME NEW r, NEW rows, WaitsFor(r, rows) = {}, NEW k \in DOMAIN rows
    PROVE  /\ Free(r, k)
           /\ Exists(rows[k]) => \A p \in Parents(k, rows[k]) : draft[p] = Gone => Free(r, p)
           /\ ~Exists(rows[k]) => \A c \in Family(draft, k) : Free(r, c)
<1> DEFINE kept == {c \in DOMAIN rows : Exists(rows[c])}
           parents == UNION {Parents(c, rows[c]) : c \in kept}
           children == UNION {Family(draft, c) : c \in DOMAIN rows \ kept}
           sameEmail == UNION {ByEmail(db, e) \cup ByEmail(draft, e) : e \in EmailsOf(rows)}
           sameInvite == UNION {SameOpen(db, row) \cup SameOpen(draft, row) : row \in OpenIn(rows)}
           all == DOMAIN rows \cup children \cup sameEmail \cup sameInvite
                    \cup {p \in parents : draft[p] = Gone}
<1>1. Blockers(r, all) = {}
  BY DEF WaitsFor
<1>2. Exists(rows[k]) => \A p \in Parents(k, rows[k]) : draft[p] = Gone => p \in all
  OBVIOUS
<1>3. ~Exists(rows[k]) => \A c \in Family(draft, k) : c \in all
  OBVIOUS
<1>4. k \in all
  OBVIOUS
<1> HIDE DEF all
<1>5. QED
  BY <1>1, <1>2, <1>3, <1>4, UnblockedRowsAreFree

\* Rows that stay or are new.
LEMMA PutKeepsFamilies ==
    ASSUME Typing, RowsAreHeld, Families, NEW r \in Request, NEW rows, Put(r, rows),
           WaitsFor(r, rows) = {}, Legal(r, rows), DOMAIN rows \subseteq Key,
           \A k \in DOMAIN rows :
                /\ Exists(rows[k]) /\ RowTyped(k, rows[k])
                /\ k \in UserId \cup InviteId => draft[k] # Gone
    PROVE  Families'
<1> USE AccountKeys
<1>1. \A k \in Key : /\ db'[k] = db[k]
                     /\ k \in DOMAIN rows => draft'[k] = rows[k] /\ holder'[k] = r
                     /\ k \notin DOMAIN rows => draft'[k] = draft[k] /\ holder'[k] = holder[k]
  BY PutRow
<1>2. \A k \in Key : /\ Exists(db[k]) => Parents(k, db[k]) \subseteq (UserId \cup InviteId) \cap Key
                     /\ Exists(draft[k]) =>
                            Parents(k, draft[k]) \subseteq (UserId \cup InviteId) \cap Key
  BY ParentKeys
<1>3. \A k \in DOMAIN rows : Free(r, k) /\ k \in Key
  BY WaitedFor
<1>4. ASSUME NEW p \in UserId \cup InviteId, Exists(db[p]), ~Exists(draft'[p])
      PROVE  p \notin DOMAIN rows /\ ~Exists(draft[p])
  BY <1>1, <1>4
<1>5. ASSUME NEW k \in DOMAIN rows, NEW p \in Parents(k, rows[k])
      PROVE  /\ p \in UserId \cup InviteId /\ p \in Key /\ Exists(draft'[p])
             /\ holder[p] = r \/ Exists(db[p])
  <2>1. p \in UserId \cup InviteId /\ p \in Key
    BY <1>5, ParentsAre
  <2>2. Exists(Visible(r)[p])
    BY <1>5 DEF Legal
  <2>3. draft[p] = Gone => Free(r, p)
    BY <1>5, WaitedFor
  <2>4. Exists(draft[p])
    <3>1. CASE holder[p] = r
      BY <2>1, <2>2, <3>1, ReadsRow
    <3>2. CASE holder[p] # r
      <4>1. Exists(db[p])
        BY <2>1, <2>2, <3>2, ReadsRow
      <4>2. draft[p] # Absent
        BY <2>1, <4>1 DEF Families, GoneForGood, Exists
      <4>3. draft[p] # Gone
        <5>1. holder[p] = NoRequest => draft[p] = db[p]
          BY <2>1 DEF RowsAreHeld, FreeRowsAreCommitted
        <5>2. QED
          BY <2>3, <3>2, <4>1, <5>1 DEF Free, Exists
      <4>4. QED
        BY <4>2, <4>3 DEF Exists
    <3>3. QED
      BY <3>1, <3>2
  <2>5. Exists(draft'[p])
    BY <1>1, <2>1, <2>4
  <2>6. QED
    BY <2>1, <2>2, <2>5, ReadsRow
<1>6. ParentsThere(db)'
  BY <1>1, <1>2 DEF Families, ParentsThere
<1>7. ParentsThere(draft)'
  <2>1. SUFFICES ASSUME NEW k \in Key, Exists(draft'[k]), NEW p \in Parents(k, draft'[k])
                 PROVE  Exists(draft'[p])
    BY DEF ParentsThere
  <2>2. CASE k \in DOMAIN rows
    BY <1>1, <1>5, <2>1, <2>2
  <2>3. CASE k \notin DOMAIN rows
    <3>1. p \in Key /\ Exists(draft[p])
      BY <1>1, <1>2, <2>1, <2>3 DEF Families, ParentsThere
    <3>2. QED
      BY <1>1, <3>1
  <2>4. QED
    BY <2>2, <2>3
<1>8. ChildrenHeld'
  <2>1. SUFFICES ASSUME NEW k \in Key, Exists(db'[k]), NEW p \in Parents(k, db'[k]),
                        ~Exists(draft'[p])
                 PROVE  holder'[k] = holder'[p]
    BY DEF ChildrenHeld
  <2>2. /\ Exists(db[k]) /\ p \in Parents(k, db[k]) /\ p \in Key /\ p \in UserId \cup InviteId
        /\ Exists(db[p])
    BY <1>1, <1>2, <2>1 DEF Families, ParentsThere
  <2>3. p \notin DOMAIN rows /\ ~Exists(draft[p])
    BY <1>4, <2>1, <2>2
  <2>4. holder[k] = holder[p] /\ holder[p] \in Request
    BY <2>2, <2>3, MissingParentsAreHeld
  <2>5. CASE k \in DOMAIN rows
    BY <1>1, <1>3, <2>2, <2>3, <2>4, <2>5, NoRequestIsNoRequest DEF Free
  <2>6. CASE k \notin DOMAIN rows
    BY <1>1, <2>2, <2>3, <2>4, <2>6
  <2>7. QED
    BY <2>5, <2>6
<1>9. ParentsSeen'
  <2>1. SUFFICES ASSUME NEW k \in Key, Exists(draft'[k]), holder'[k] \in Request,
                        NEW p \in Parents(k, draft'[k])
                 PROVE  holder'[p] = holder'[k] \/ Exists(db'[p])
    BY DEF ParentsSeen
  <2>2. CASE k \in DOMAIN rows
    <3>1. p \in Key /\ (holder[p] = r \/ Exists(db[p])) /\ holder'[k] = r
      BY <1>1, <1>5, <2>1, <2>2
    <3>2. QED
      BY <1>1, <3>1
  <2>3. CASE k \notin DOMAIN rows
    <3>1. /\ p \in Key /\ (holder[p] = holder[k] \/ Exists(db[p])) /\ holder'[k] = holder[k]
          /\ holder[k] \in Request
      BY <1>1, <1>2, <2>1, <2>3 DEF Families, ParentsSeen
    <3>2. QED
      BY <1>1, <1>3, <3>1, NoRequestIsNoRequest DEF Free
  <2>4. QED
    BY <2>2, <2>3
<1>10. InvitesFollow'
  <2>1. SUFFICES ASSUME NEW i \in InviteId, Exists(db'[i]), ~Exists(draft'[i])
                 PROVE  ~Exists(draft'[db'[i].inviter]) \/ ~Exists(draft'[db'[i].invitee])
    BY DEF InvitesFollow
  <2>2. i \notin DOMAIN rows /\ Exists(db[i]) /\ ~Exists(draft[i]) /\ db'[i] = db[i] /\ i \in Key
    BY <1>1, <2>1
  <2>3. PICK p \in {db[i].inviter, db[i].invitee} : ~Exists(draft[p])
    BY <2>2 DEF Families, InvitesFollow
  <2>4. p \in Parents(i, db[i]) /\ p \in Key /\ p \in UserId /\ Exists(db[p])
    BY <1>2, <2>2, <2>3, ParentsAre, RowsTypedIs DEF Typing, Families, ParentsThere
  <2>5. p \notin DOMAIN rows
    BY <2>3, <2>4 DEF Families, GoneForGood, Exists
  <2>6. QED
    BY <1>1, <2>2, <2>3, <2>4, <2>5
<1>11. GoneForGood'
  BY <1>1 DEF Families, GoneForGood, Exists
<1>12. QED
  BY <1>6, <1>7, <1>8, <1>9, <1>10, <1>11 DEF Families

\* Rows that are deleted, with those of their children that r sees.
LEMMA DropKeepsFamilies ==
    ASSUME Typing, RowsAreHeld, Families, NEW r \in Request, NEW rows, Put(r, rows),
           WaitsFor(r, rows) = {}, DOMAIN rows \subseteq Key,
           \A k \in DOMAIN rows :
                /\ ~Exists(rows[k])
                /\ k \in UserId \cup InviteId => rows[k] = Gone
                /\ \A c \in Key : Exists(Visible(r)[c]) /\ k \in Parents(c, Visible(r)[c])
                                    => c \in DOMAIN rows,
           \A i \in InviteId \cap DOMAIN rows : Exists(db[i]) =>
                \E p \in DOMAIN rows : p \in {db[i].inviter, db[i].invitee}
    PROVE  Families'
<1> USE AccountKeys
<1>1. \A k \in Key : /\ db'[k] = db[k]
                     /\ k \in DOMAIN rows => draft'[k] = rows[k] /\ holder'[k] = r
                     /\ k \notin DOMAIN rows => draft'[k] = draft[k] /\ holder'[k] = holder[k]
  BY PutRow
<1>2. \A k \in Key : /\ Exists(db[k]) => Parents(k, db[k]) \subseteq (UserId \cup InviteId) \cap Key
                     /\ Exists(draft[k]) =>
                            Parents(k, draft[k]) \subseteq (UserId \cup InviteId) \cap Key
  BY ParentKeys
<1>3. \A k \in DOMAIN rows : Free(r, k) /\ k \in Key /\ ~Exists(rows[k])
  BY WaitedFor
<1>4. ParentsThere(db)'
  BY <1>1, <1>2 DEF Families, ParentsThere
<1>5. ParentsThere(draft)'
  <2>1. SUFFICES ASSUME NEW k \in Key, Exists(draft'[k]), NEW p \in Parents(k, draft'[k])
                 PROVE  Exists(draft'[p])
    BY DEF ParentsThere
  <2>2. k \notin DOMAIN rows /\ Exists(draft[k]) /\ p \in Parents(k, draft[k])
    BY <1>1, <1>3, <2>1
  <2>3. p \in Key /\ Exists(draft[p])
    BY <1>2, <2>2 DEF Families, ParentsThere
  <2>4. p \notin DOMAIN rows
    <3>1. SUFFICES ASSUME p \in DOMAIN rows
                   PROVE  FALSE
      OBVIOUS
    <3>2. k \in Family(draft, p)
      BY <2>2 DEF Family
    <3>3. Free(r, k)
      BY <1>3, <3>1, <3>2, WaitedFor
    <3>4. Visible(r)[k] = draft[k]
      BY <3>3, FreeRowIsNewest DEF RowsAreHeld
    <3>5. QED
      BY <2>2, <3>1, <3>4
  <2>5. QED
    BY <1>1, <2>3, <2>4
<1>6. ChildrenHeld'
  <2>1. SUFFICES ASSUME NEW k \in Key, Exists(db'[k]), NEW p \in Parents(k, db'[k]),
                        ~Exists(draft'[p])
                 PROVE  holder'[k] = holder'[p]
    BY DEF ChildrenHeld
  <2>2. Exists(db[k]) /\ p \in Parents(k, db[k]) /\ p \in Key
    BY <1>1, <1>2, <2>1
  <2>3. CASE p \in DOMAIN rows
    <3>1. holder[k] # r => k \in DOMAIN rows
      BY <2>2, <2>3, ReadsRow
    <3>2. QED
      BY <1>1, <2>2, <2>3, <3>1
  <2>4. CASE p \notin DOMAIN rows
    <3>1. ~Exists(draft[p])
      BY <1>1, <2>1, <2>2, <2>4
    <3>2. holder[k] = holder[p] /\ holder[p] \in Request
      BY <2>2, <3>1, MissingParentsAreHeld
    <3>3. k \in DOMAIN rows => holder[k] = r
      BY <1>3, <3>2, NoRequestIsNoRequest DEF Free
    <3>4. QED
      BY <1>1, <2>2, <2>4, <3>2, <3>3
  <2>5. QED
    BY <2>3, <2>4
<1>7. ParentsSeen'
  <2>1. SUFFICES ASSUME NEW k \in Key, Exists(draft'[k]), holder'[k] \in Request,
                        NEW p \in Parents(k, draft'[k])
                 PROVE  holder'[p] = holder'[k] \/ Exists(db'[p])
    BY DEF ParentsSeen
  <2>2. k \notin DOMAIN rows /\ Exists(draft[k]) /\ p \in Parents(k, draft[k])
    BY <1>1, <1>3, <2>1
  <2>3. /\ p \in Key /\ (holder[p] = holder[k] \/ Exists(db[p])) /\ holder'[k] = holder[k]
        /\ holder[k] \in Request
    BY <1>1, <1>2, <2>1, <2>2 DEF Families, ParentsSeen
  <2>4. QED
    BY <1>1, <1>3, <2>3, NoRequestIsNoRequest DEF Free
<1>8. InvitesFollow'
  <2>1. SUFFICES ASSUME NEW i \in InviteId, Exists(db'[i]), ~Exists(draft'[i])
                 PROVE  \E p \in {db'[i].inviter, db'[i].invitee} : ~Exists(draft'[p])
    BY DEF InvitesFollow
  <2>2. Exists(db[i]) /\ db'[i] = db[i] /\ i \in Key
    BY <1>1, <2>1
  <2>3. CASE i \in DOMAIN rows
    <3>1. PICK p \in DOMAIN rows : p \in {db[i].inviter, db[i].invitee}
      BY <2>2, <2>3
    <3>2. QED
      BY <1>1, <1>3, <2>2, <3>1
  <2>4. CASE i \notin DOMAIN rows
    <3>1. ~Exists(draft[i])
      BY <1>1, <2>1, <2>2, <2>4
    <3>2. PICK p \in {db[i].inviter, db[i].invitee} : ~Exists(draft[p])
      BY <2>2, <3>1 DEF Families, InvitesFollow
    <3>3. p \in Key
      BY <2>2, <3>2, ParentsAre, RowsTypedIs DEF Typing
    <3>4. ~Exists(draft'[p])
      BY <1>1, <1>3, <3>2, <3>3
    <3>5. QED
      BY <2>2, <3>2, <3>4
  <2>5. QED
    BY <2>3, <2>4
<1>9. GoneForGood'
  BY <1>1, MissingRowsAreNoRows DEF Families, GoneForGood
<1>10. QED
  BY <1>4, <1>5, <1>6, <1>7, <1>8, <1>9 DEF Families

\* A new version of a user's row that nobody waits for.
LEMMA PutNowKeepsFamilies ==
    ASSUME Typing, RowsAreHeld, Families, NEW r \in Request, HoldsNothing(r),
           NEW u \in UserId, NEW row \in UserRow, UpdatesNow(r, u, row)
    PROVE  /\ Families'
           /\ Exists(db[u]) /\ draft[u] = db[u] /\ Visible(r)[u] = db[u]
           /\ db'[u] = row /\ draft'[u] = row /\ holder' = holder
           /\ \A k \in Key \ {u} : db'[k] = db[k] /\ draft'[k] = draft[k]
<1> USE AccountKeys
<1>1. PICK rows : DOMAIN rows = {u} /\ rows[u] = row /\ WaitsFor(r, rows) = {} /\ PutNow(rows)
  BY DEF UpdatesNow
<1>2. /\ db'[u] = row /\ draft'[u] = row /\ holder' = holder
      /\ \A k \in Key \ {u} : db'[k] = db[k] /\ draft'[k] = draft[k]
  BY <1>1, PutNowRow DEF PutNow
<1>3. holder[u] = NoRequest
  BY <1>1, WaitedFor DEF Free, HoldsNothing
<1>4. Exists(db[u]) /\ draft[u] = db[u] /\ Visible(r)[u] = db[u]
  BY <1>3, ReadsRow, NoRequestIsNoRequest DEF UpdatesNow, RowsAreHeld, FreeRowsAreCommitted
<1>5. Exists(row)
  BY MissingRowsAreNoRows DEF Exists
<1>6. \A k \in Key : /\ Exists(db'[k]) <=> Exists(db[k])
                     /\ Exists(draft'[k]) <=> Exists(draft[k])
  BY <1>2, <1>4, <1>5
<1>7. \A p : Parents(u, p) = {}
  BY DEF Parents
<1>8. \A k \in Key : /\ Parents(k, db'[k]) = Parents(k, db[k])
                     /\ Parents(k, draft'[k]) = Parents(k, draft[k])
  BY <1>2, <1>7
<1>9. \A k \in Key : /\ Exists(db[k]) => Parents(k, db[k]) \subseteq Key
                     /\ Exists(draft[k]) => Parents(k, draft[k]) \subseteq Key
  BY ParentKeys
<1>10. ParentsThere(db)' /\ ParentsThere(draft)'
  BY <1>6, <1>8, <1>9 DEF Families, ParentsThere
<1>11. ChildrenHeld'
  BY <1>2, <1>6, <1>8, <1>9 DEF Families, ChildrenHeld
<1>12. ParentsSeen'
  BY <1>2, <1>6, <1>8, <1>9 DEF Families, ParentsSeen
<1>13. InvitesFollow'
  <2>1. \A i \in InviteId : i \in Key /\ i # u /\ db'[i] = db[i]
    BY <1>2
  <2>2. \A i \in InviteId : Exists(db[i]) => db[i].inviter \in Key /\ db[i].invitee \in Key
    BY ParentsAre, RowsTypedIs DEF Typing
  <2>3. QED
    BY <1>6, <2>1, <2>2 DEF Families, InvitesFollow
<1>14. GoneForGood'
  BY <1>2, <1>4, <1>5, <1>6 DEF Families, GoneForGood, Exists
<1>15. Families'
  BY <1>10, <1>11, <1>12, <1>13, <1>14 DEF Families
<1>16. QED
  BY <1>2, <1>4, <1>15

\* The rows that go with a user.
LEMMA FamilyIs ==
    ASSUME Typing, NEW r \in Request, NEW root \in UserId, NEW rows, rows = Dropped(r, root)
    PROVE  /\ root \in DOMAIN rows /\ DOMAIN rows \subseteq Key
           /\ \A k \in DOMAIN rows : /\ ~Exists(rows[k])
                                     /\ k \in UserId \cup InviteId => rows[k] = Gone
                                     /\ k \in UserId => k = root
                                     /\ k # root => Exists(Visible(r)[k])
           /\ \A k \in DOMAIN rows, c \in Key :
                Exists(Visible(r)[c]) /\ k \in Parents(c, Visible(r)[c]) => c \in DOMAIN rows
           /\ \A i \in InviteId \cap DOMAIN rows :
                root \in {Visible(r)[i].inviter, Visible(r)[i].invitee}
<1> DEFINE V == Visible(r)
           Of(K) == {c \in Key : Exists(V[c]) /\ Parents(c, V[c]) \cap K # {}}
<1>1. DOMAIN rows = {root} \cup Of({root}) \cup Of(Of({root}))
  BY DEF Dropped, Family
<1>2. \A k \in DOMAIN rows : rows[k] = Deleted(k)
  BY DEF Dropped
<1>3. \A k \in Key : RowTyped(k, V[k])
  BY RowsAreTyped
<1>4. V = Visible(r)
  OBVIOUS
<1> HIDE DEF V
<1>5. \A k \in Key : Exists(V[k]) /\ Parents(k, V[k]) # {} => k \in InviteId \cup ContactKey
  BY <1>3, ParentsAre, AccountKeys
<1>6. \A k \in Of({root}) : k \in InviteId \cup ContactKey /\ Exists(V[k])
  BY <1>5
<1>7. \A k \in Of(Of({root})) : k \in ContactKey /\ Exists(V[k])
  <2>1. SUFFICES ASSUME NEW k \in Of(Of({root}))
                 PROVE  k \in ContactKey
    OBVIOUS
  <2>2. PICK p \in Of({root}) : p \in Parents(k, V[k])
    OBVIOUS
  <2>3. p \notin UserId /\ Exists(V[k]) /\ k \in Key
    BY <1>6, AccountKeys
  <2>4. k \in InviteId => p \in UserId
    BY <1>3, <2>2, <2>3, ParentsAre
  <2>5. QED
    BY <1>5, <2>2, <2>3, <2>4
<1>8. root \in DOMAIN rows /\ DOMAIN rows \subseteq Key
  BY <1>1, AccountKeys
<1>9. ASSUME NEW k \in DOMAIN rows
      PROVE  /\ ~Exists(rows[k])
             /\ k \in UserId \cup InviteId => rows[k] = Gone
             /\ k \in UserId => k = root
             /\ k # root => Exists(V[k])
  <2>1. k = root \/ k \in Of({root}) \/ k \in Of(Of({root}))
    BY <1>1
  <2>2. k # root => k \in InviteId \cup ContactKey /\ Exists(V[k])
    BY <1>6, <1>7, <2>1
  <2>3. rows[k] = Deleted(k)
    BY <1>2
  <2>4. k \in UserId \cup InviteId => Deleted(k) = Gone
    BY AccountKeys DEF Deleted
  <2>5. ~Exists(Deleted(k))
    BY DEF Deleted, Exists
  <2>6. QED
    BY <2>2, <2>3, <2>4, <2>5, AccountKeys
<1>10. ASSUME NEW k \in DOMAIN rows, NEW c \in Key, Exists(V[c]), k \in Parents(c, V[c])
       PROVE  c \in DOMAIN rows
  <2>1. k \in UserId \cup InviteId
    BY <1>3, <1>10, ParentsAre
  <2>2. k \notin Of(Of({root}))
    BY <1>7, <2>1, AccountKeys
  <2>3. CASE k = root
    <3>1. c \in Of({root})
      BY <1>10, <2>3
    <3>2. QED
      BY <1>1, <3>1
  <2>4. CASE k \in Of({root})
    <3>1. c \in Of(Of({root}))
      BY <1>10, <2>4
    <3>2. QED
      BY <1>1, <3>1
  <2>5. QED
    BY <1>1, <2>2, <2>3, <2>4
<1>11. ASSUME NEW i \in InviteId \cap DOMAIN rows
       PROVE  root \in {V[i].inviter, V[i].invitee}
  <2>1. i \in Of({root})
    BY <1>1, <1>7, AccountKeys
  <2>2. root \in Parents(i, V[i]) /\ Exists(V[i]) /\ i \in Key
    BY <2>1
  <2>3. QED
    BY <1>3, <2>2, ParentsAre
<1>12. QED
  BY <1>4, <1>8, <1>9, <1>10, <1>11

-------------------------------------------------------------------------------
(* What a step of r leaves to the others.                                    *)

\* r writes rows that nobody else holds, and takes nobody else's.
Frame(r) ==
    \A q \in Request \ {r}, k \in Key :
        /\ holder'[k] = q <=> holder[k] = q
        /\ holder[k] = q => draft'[k] = draft[k] /\ db'[k] = db[k]

LEMMA WaitingFrames ==
    ASSUME NEW r \in Request, NEW rows, WaitsFor(r, rows) = {}, Put(r, rows) \/ PutNow(rows)
    PROVE  Frame(r)
<1>1. ASSUME NEW q \in Request \ {r}, NEW k \in Key
      PROVE  /\ holder'[k] = q <=> holder[k] = q
             /\ holder[k] = q => draft'[k] = draft[k] /\ db'[k] = db[k]
  <2>1. k \in DOMAIN rows => Free(r, k)
    BY WaitedFor
  <2>2. k \in DOMAIN rows => holder[k] # q
    BY <2>1, NoRequestIsNoRequest DEF Free
  <2>3. QED
    BY <2>2, PutRow, PutNowRow
<1>2. QED
  BY <1>1 DEF Frame

LEMMA EndingFrames ==
    ASSUME NEW r \in Request, UNCHANGED tables \/ RollbackTx(r) \/ CommitTx(r)
    PROVE  Frame(r)
<1>1. ASSUME NEW q \in Request \ {r}, NEW k \in Key
      PROVE  /\ holder'[k] = q <=> holder[k] = q
             /\ holder[k] = q => draft'[k] = draft[k] /\ db'[k] = db[k]
  <2>1. q # NoRequest
    BY NoRequestIsNoRequest
  <2>2. CASE UNCHANGED tables
    BY <2>2 DEF tables
  <2>3. CASE RollbackTx(r)
    BY <2>1, <2>3, RollbackRow
  <2>4. CASE CommitTx(r)
    BY <2>1, <2>4, CommitRow
  <2>5. QED
    BY <2>2, <2>3, <2>4
<1>2. QED
  BY <1>1 DEF Frame

LEMMA PlacesAreNumbers ==
    ASSUME IInv, NEW r \in Request
    PROVE  req[r].pc \in Nat /\ req[r].pc > 0
BY DEF IInv, RequestsOK, RequestOK

LEMMA OthersWrote ==
    ASSUME IInv, Typing, NEW r \in Request, Frame(r), OthersWait(r),
           NEW q \in Request \ {r}, Wrote(q)
    PROVE  Wrote(q)'
<1>1. req'[q] = req[q] /\ HandlerOK(q)
  BY DEF OthersWait, Typing
<1>2. \A k \in Key : /\ holder'[k] = q <=> holder[k] = q
                     /\ holder[k] = q => draft'[k] = draft[k] /\ db'[k] = db[k]
  BY DEF Frame
<1>8. req[q].pc \in Nat
  BY PlacesAreNumbers
<1>3. CASE req[q].op \in {"createUser", "updateUser", "changeEmail", "banUser", "unbanUser"}
  <2>1. /\ req[q].op = "createUser" /\ req[q].pc > 2 => req[q].user \in Key
        /\ req[q].op = "changeEmail" => req[q].user \in Key
    BY <1>1, AccountKeys DEF HandlerOK, LearntOK, HasUser, Named
  <2>2. WroteUser(q)'
    BY <1>1, <1>2, <1>3, <2>1 DEF Wrote, WroteUser
  <2>3. QED
    BY <1>1, <1>3, <2>2 DEF Wrote
<1>4. CASE req[q].op \in {"deleteUser", "rejectEmailInvite"}
  BY <1>1, <1>2, <1>4 DEF Wrote
<1>5. CASE req[q].op = "createInviteByEmail"
  <2>1. /\ req[q].pc > 3 => req[q].got.invitee \in Key
        /\ req[q].pc > 4 => req[q].invite \in Key
    BY <1>1, <1>5, AccountKeys DEF HandlerOK, LearntOK
  <2>2. WroteInvite(q)
    BY <1>5 DEF Wrote
  <2>3. WroteInvite(q)'
    BY <1>1, <1>2, <2>1, <2>2 DEF WroteInvite
  <2>4. QED
    BY <1>1, <1>5, <2>3 DEF Wrote
<1>6. CASE req[q].op \in Accepting
  <2>1. req[q].user \in Key /\ req[q].invite \in Key
    BY <1>1, <1>6, AccountKeys DEF HandlerOK, LearntOK, ArgumentOK, HasUser, Named, Answering
  <2>2. CASE req[q].op = "acceptByGhost"
    <3>1. WroteAsGhost(q)
      BY <2>2 DEF Wrote
    <3>2. WroteAsGhost(q)'
      BY <1>1, <1>2, <2>1, <3>1 DEF WroteAsGhost
    <3>3. QED
      BY <1>1, <2>2, <3>2 DEF Wrote
  <2>3. CASE req[q].op = "acceptByRealUser"
    <3>1. WroteAsUser(q)
      BY <2>3 DEF Wrote
    <3> DEFINE w == req[q]
               i == req[q].invite
               g == req[q].user
    <3>2. \A k \in Key : holder'[k] = q =>
            /\ w.pc > 2
            /\ Exists(draft'[k]) => k = i \/ (w.pc > 3 /\ k \in ContactKey)
      BY <1>2, <3>1 DEF WroteAsUser
    <3>3. w.pc > 2 => /\ holder'[i] = q /\ Exists(db'[i])
                      /\ db'[i] = db[i] /\ draft'[i] = draft[i]
                      /\ Exists(draft'[i]) =>
                        draft'[i] =
                          [db'[i] EXCEPT !.invitee = w.got.invitee, !.status = "ACCEPTED"]
      BY <1>2, <2>1, <3>1 DEF WroteAsUser
    <3>4. w.pc \in 3..4 => Exists(draft'[i])
      BY <1>2, <2>1, <3>1, <3>3 DEF WroteAsUser
    <3>5. w.pc > 4 => holder'[g] = q /\ Exists(db'[g]) /\ ~Exists(draft'[g])
      BY <1>2, <2>1, <3>1 DEF WroteAsUser
    <3>6. WroteAsUser(q)'
      BY <1>1, <3>2, <3>3, <3>4, <3>5 DEF WroteAsUser
    <3>7. QED
      BY <1>1, <2>3, <3>6 DEF Wrote
  <2>4. QED
    BY <1>6, <2>2, <2>3 DEF Accepting
<1>7. CASE req[q].op \in {"createInvite", "acceptInvite", "rejectInvite"}
  <2>1. /\ req[q].op = "createInvite" /\ req[q].pc > 2 => req[q].invite \in Key
        /\ req[q].op # "createInvite" => req[q].invite \in Key
    BY <1>1, <1>7, AccountKeys DEF HandlerOK, LearntOK, ArgumentOK
  <2>2. CASE req[q].op = "createInvite"
    <3>1. WroteOpen(q)
      BY <2>2 DEF Wrote
    <3>2. WroteOpen(q)'
      BY <1>1, <1>2, <2>1, <2>2, <3>1 DEF WroteOpen
    <3>3. QED
      BY <1>1, <2>2, <3>2 DEF Wrote, Accepting
  <2>3. CASE req[q].op # "createInvite"
    <3>1. WroteAnswer(q)
      BY <1>7, <2>3 DEF Wrote
    <3>2. WroteAnswer(q)'
      BY <1>1, <1>2, <2>1, <2>3, <3>1 DEF WroteAnswer
    <3>3. QED
      BY <1>1, <1>7, <2>3, <3>2 DEF Wrote
  <2>4. QED
    BY <2>2, <2>3
<1>9. QED
  BY <1>1, <1>3, <1>4, <1>5, <1>6, <1>7 DEF Wrote, Accepting

\* What committed versions may become.
DbGrows ==
    /\ \A u \in UserId : db[u] # Absent => db'[u] # Absent
    /\ \A g \in UserId, i \in InviteId : /\ Names(g, i) => Names(g, i)'
                                         /\ Claimed(g, i) => Claimed(g, i)'

LEMMA SameDbGrows ==
    ASSUME UNCHANGED <<db, byHand>>
    PROVE  DbGrows
BY DEF DbGrows, Names, Claimed, Sole

LEMMA OthersKnow ==
    ASSUME IInv, Typing, NEW r \in Request, OthersWait(r), DbGrows, codes' \in Nat, codes <= codes',
           links \subseteq links', NEW q \in Request \ {r}, Knowing(q)
    PROVE  Knowing(q)'
<1>1. req'[q] = req[q] /\ HandlerOK(q)
  BY DEF OthersWait, Typing
<1>2. CASE req[q].op = "createInviteByEmail"
  <2>1. req[q].user \in UserId
    BY <1>1, <1>2 DEF HandlerOK, LearntOK, HasUser, Named
  <2>2. codes \in Nat /\ \A c \in 0..codes : c \in 0..codes'
    BY DEF Typing, Code
  <2>3. QED
    BY <1>1, <1>2, <2>1, <2>2 DEF Knowing, Accepting, DbGrows
<1>3. CASE req[q].op \in Accepting \cup {"acceptEmailInvite"}
  <2>1. req[q].user \in UserId /\ req[q].invite \in InviteId
    BY <1>1, <1>3 DEF HandlerOK, LearntOK, ArgumentOK, HasUser, Named, Answering
  <2>2. /\ Names(req[q].user, req[q].invite) => Names(req[q].user, req[q].invite)'
        /\ Claimed(req[q].user, req[q].invite) => Claimed(req[q].user, req[q].invite)'
    BY <1>1, <2>1 DEF DbGrows
  <2>3. QED
    BY <1>1, <1>3, <2>2 DEF Knowing, Accepting
<1>4. CASE req[q].op = "deleteUser"
  BY <1>1, <1>4 DEF Knowing, Accepting
<1>5. QED
  BY <1>1, <1>2, <1>3, <1>4 DEF Knowing, Accepting

\* Versions of users whose code is new or was there before.
CodesGo ==
    \A u \in UserId : \A version \in {db'[u], draft'[u]} :
        Exists(version) =>
            \/ version.confirmCode \notin 0..codes
            \/ \E old \in {db[u], draft[u]} :
                    Exists(old) /\ old.confirmCode = version.confirmCode

LEMMA LinksStayOK ==
    ASSUME IInv, Typing, Haunted, NEW r \in Request, OthersWait(r), DbGrows, CodesGo,
           codes' \in Nat, codes <= codes',
           \A l \in links : l.kind = "invite" /\ req[r].op = "createInviteByEmail" /\ req[r].pc = 6
                            /\ req[r].got.invitee = l.user /\ req[r].invite = l.invite
                                => Names(l.user, l.invite)' \/ Dead(l)',
           \A l \in links' \ links : l.kind = "invite" => l.code \in 0..codes' /\ Sending(l)'
    PROVE  InviteLinksOK'
<1>1. SUFFICES ASSUME NEW l \in links, l.kind = "invite"
               PROVE  l.code \in 0..codes' /\ (Names(l.user, l.invite) \/ Sending(l) \/ Dead(l))'
  BY DEF InviteLinksOK
<1>2. l.code \in 0..codes /\ (Names(l.user, l.invite) \/ Sending(l) \/ Dead(l))
  BY <1>1 DEF Haunted, InviteLinksOK
<1>3. l.user \in UserId /\ l.invite \in InviteId /\ codes \in Nat
  BY <1>1 DEF Typing, LinksOK, Link, Code
<1>4. l.code \in 0..codes'
  BY <1>2, <1>3
<1>5. CASE Names(l.user, l.invite)
  BY <1>3, <1>4, <1>5 DEF DbGrows
<1>6. CASE Sending(l)
  <2>1. PICK s \in Request : /\ req[s].op = "createInviteByEmail" /\ req[s].pc = 6
                             /\ req[s].got.invitee = l.user /\ req[s].invite = l.invite
    BY <1>6 DEF Sending
  <2>2. CASE s = r
    BY <1>1, <1>4, <2>1, <2>2
  <2>3. CASE s # r
    <3>1. req'[s] = req[s]
      BY <2>3 DEF OthersWait
    <3>2. Sending(l)'
      BY <2>1, <3>1 DEF Sending
    <3>3. QED
      BY <1>4, <3>2
  <2>4. QED
    BY <2>2, <2>3
<1>7. CASE Dead(l)
  <2>1. \A old \in {db[l.user], draft[l.user]} : Exists(old) => old.confirmCode # l.code
    BY <1>7 DEF Dead
  <2>2. \A version \in {db'[l.user], draft'[l.user]} :
            Exists(version) => version.confirmCode # l.code
    BY <1>2, <1>3, <2>1 DEF CodesGo
  <2>3. Dead(l)'
    BY <2>2 DEF Dead
  <2>4. QED
    BY <1>4, <2>3
<1>8. QED
  BY <1>2, <1>5, <1>6, <1>7

LEMMA StillHaunted ==
    ASSUME IInv, Typing, Haunted, NEW r \in Request, OthersWait(r), Frame(r), DbGrows,
           codes' \in Nat, codes <= codes', links \subseteq links',
           Families', AwaitAnswer(db', byHand'), InvitersWereUsers', InviteLinksOK',
           Wrote(r)', Knowing(r)'
    PROVE  Haunted'
<1>1. \A q \in Request : Wrote(q)' /\ Knowing(q)'
  BY OthersWrote, OthersKnow DEF Haunted
<1>2. QED
  BY <1>1 DEF Haunted

\* r commits nothing.
LEMMA UncommittedHaunted ==
    ASSUME IInv, Typing, Haunted, NEW r \in Request, OthersWait(r), Frame(r),
           UNCHANGED <<db, byHand>>, codes' \in Nat, codes <= codes', links \subseteq links',
           Families', InviteLinksOK', Wrote(r)', Knowing(r)'
    PROVE  Haunted'
<1>1. AwaitAnswer(db', byHand') /\ InvitersWereUsers'
  BY DEF Haunted, InvitersWereUsers
<1>2. QED
  BY <1>1, SameDbGrows, StillHaunted

-------------------------------------------------------------------------------
(* Steps that leave the rows alone.                                          *)

LEMMA SameRowsKeep ==
    ASSUME Families, NEW r \in Request, UNCHANGED <<db, draft, holder>>
    PROVE  Families' /\ Frame(r) /\ CodesGo
<1>1. Families'
  BY DEF Families, ParentsThere, ChildrenHeld, ParentsSeen, InvitesFollow, GoneForGood
<1>2. Frame(r)
  BY DEF Frame
<1>3. CodesGo
  BY DEF CodesGo
<1>4. QED
  BY <1>1, <1>2, <1>3

\* The handler goes on with what it has.
LEMMA QuietHaunted ==
    ASSUME IInv, Typing, Haunted, NEW r \in Request, OthersWait(r),
           UNCHANGED <<db, draft, holder, codes, byHand>>, links \subseteq links',
           \A l \in links' \ links : l.kind = "invite" => l.code \in 0..codes /\ Sending(l)',
           req[r].op = "createInviteByEmail" => req[r].pc # 6,
           Wrote(r)', Knowing(r)'
    PROVE  Haunted'
<1>1. Families' /\ Frame(r) /\ CodesGo
  BY SameRowsKeep DEF Haunted
<1>2. codes \in Nat
  BY DEF Typing, Code
<1>3. InviteLinksOK'
  BY <1>1, <1>2, SameDbGrows, LinksStayOK
<1>4. QED
  BY <1>1, <1>2, <1>3, UncommittedHaunted

LEMMA IdleIsHaunted ==
    ASSUME NEW r \in Request, req'[r].op \in {"none"}
    PROVE  Wrote(r)' /\ Knowing(r)'
BY DEF Wrote, Knowing, Accepting

LEMMA ThrowHaunted ==
    ASSUME IInv, Typing, RowsAreHeld, Haunted, NEW r \in Request, Throw(r)
    PROVE  Haunted'
<1>1. RollbackTx(r) /\ Stay /\ OthersWait(r) /\ req'[r].op = "none"
  BY DEF Throw, OthersWait, IInv, RequestsOK, Idle
<1>2. UNCHANGED <<db, links, codes, byHand>> /\ codes \in Nat
  BY <1>1 DEF RollbackTx, Stay, ghostVars, Typing, Code
<1>3. Families' /\ Frame(r)
  BY <1>1, RollbackKeepsFamilies, EndingFrames DEF Haunted
<1>4. \A k \in Key : draft'[k] \in {db[k], draft[k]}
  BY <1>1, RollbackRow
<1>5. CodesGo
  BY <1>2, <1>4, AccountKeys DEF CodesGo
<1>6. ASSUME NEW l \in links, l.kind = "invite", req[r].op = "createInviteByEmail", req[r].pc = 6,
             req[r].got.invitee = l.user
      PROVE  Dead(l)'
  <2>1. WroteInvite(r)
    BY <1>6 DEF Haunted, Wrote
  <2>2. holder[l.user] = r /\ db[l.user] = Absent
    BY <1>6, <2>1 DEF WroteInvite
  <2>3. l.user \in Key
    BY <1>6, AccountKeys DEF Typing, LinksOK, Link
  <2>4. draft'[l.user] = Absent
    BY <1>1, <2>2, <2>3, RollbackRow
  <2>5. QED
    BY <1>2, <2>2, <2>4 DEF Dead, Exists
<1>7. InviteLinksOK'
  BY <1>1, <1>2, <1>5, <1>6, SameDbGrows, LinksStayOK
<1>8. QED
  BY <1>1, <1>2, <1>3, <1>7, IdleIsHaunted, UncommittedHaunted

\* Requests that name an invite or an invitee by id.
Direct == {"createInvite", "acceptInvite", "rejectInvite"}

\* What a handler has written when it goes on without writing.
LEMMA StillWrote ==
    ASSUME IInv, Typing, Haunted, NEW r \in Request, UNCHANGED <<db, draft, holder>>,
           NEW got, GoesOn(r, got, req[r].user, req[r].invite),
           req[r].op \notin Accepting \/ (req[r].op = "acceptByRealUser" /\ req[r].pc = 1
                                          /\ got = req[r].got),
           req[r].op = "createUser" => req[r].pc # 2,
           req[r].op \in Direct => req[r].pc = 1,
           req[r].op = "createInviteByEmail" => req[r].pc # 3 /\ req[r].pc # 4
                                                /\ (req[r].pc > 3 => got = req[r].got)
    PROVE  Wrote(r)'
<1>1. Wrote(r) /\ req[r].pc \in Nat /\ req[r].pc > 0
  BY PlacesAreNumbers DEF Haunted
<1>2. /\ req'[r].op = req[r].op /\ req'[r].pc = req[r].pc + 1 /\ req'[r].user = req[r].user
      /\ req'[r].invite = req[r].invite /\ req'[r].got = got /\ req'[r].arg = req[r].arg
  BY DEF GoesOn
<1>3. CASE req[r].op \in {"createUser", "updateUser", "changeEmail", "banUser", "unbanUser"}
  <2>1. WroteUser(r)'
    BY <1>1, <1>2, <1>3 DEF Wrote, WroteUser
  <2>2. QED
    BY <1>2, <1>3, <2>1 DEF Wrote
<1>4. CASE req[r].op \in {"deleteUser", "rejectEmailInvite"}
  BY <1>1, <1>2, <1>4 DEF Wrote
<1>5. CASE req[r].op = "createInviteByEmail"
  <2>1. WroteInvite(r)
    BY <1>1, <1>5 DEF Wrote
  <2>2. CASE req[r].pc < 3
    BY <1>1, <1>2, <1>5, <2>1, <2>2 DEF Wrote, WroteInvite
  <2>3. CASE req[r].pc > 4
    BY <1>1, <1>2, <1>5, <2>1, <2>3 DEF Wrote, WroteInvite
  <2>4. QED
    BY <1>1, <1>5, <2>2, <2>3
<1>6. CASE req[r].op = "acceptByRealUser"
  <2>1. req'[r].pc = 2 /\ WroteAsUser(r) /\ req[r].pc = 1
    BY <1>1, <1>2, <1>6 DEF Wrote, Accepting
  <2>2. \A k \in Key : holder[k] # r
    BY <2>1 DEF WroteAsUser
  <2>3. WroteAsUser(r)'
    BY <1>1, <1>2, <2>1, <2>2 DEF WroteAsUser
  <2>4. QED
    BY <1>2, <1>6, <2>3 DEF Wrote
<1>7. CASE req[r].op \in Direct
  <2>1. req[r].pc = 1 /\ req'[r].pc = 2
    BY <1>1, <1>2, <1>7
  <2>2. \A k \in Key : holder[k] # r
    BY <1>1, <1>7, <2>1 DEF Wrote, WroteOpen, WroteAnswer, Direct
  <2>3. WroteOpen(r)' /\ WroteAnswer(r)'
    BY <2>1, <2>2 DEF WroteOpen, WroteAnswer
  <2>4. QED
    BY <1>2, <1>7, <2>3 DEF Wrote, Direct
<1>8. CASE req[r].op \notin {"createUser", "updateUser", "changeEmail", "banUser", "unbanUser",
                             "deleteUser", "rejectEmailInvite", "createInviteByEmail",
                             "acceptByRealUser"} \cup Direct
  BY <1>2, <1>8 DEF Wrote, Accepting, Direct
<1>9. QED
  BY <1>3, <1>4, <1>5, <1>6, <1>7, <1>8

LEMMA StillKnows ==
    ASSUME IInv, Typing, Haunted, NEW r \in Request, UNCHANGED <<db, codes, byHand>>,
           links \subseteq links',
           NEW got, GoesOn(r, got, req[r].user, req[r].invite),
           req[r].op # "acceptEmailInvite", req[r].op \in Accepting => got = req[r].got,
           req[r].op = "createInviteByEmail" => (req[r].pc > 2 => got = req[r].got /\ req[r].pc # 3)
    PROVE  Knowing(r)'
<1>1. Knowing(r) /\ req[r].pc \in Nat
  BY PlacesAreNumbers DEF Haunted
<1>2. /\ req'[r].op = req[r].op /\ req'[r].pc = req[r].pc + 1 /\ req'[r].user = req[r].user
      /\ req'[r].invite = req[r].invite /\ req'[r].got = got /\ req'[r].seen = req[r].seen
  BY DEF GoesOn
<1>3. CASE req[r].op = "deleteUser"
  BY <1>1, <1>2, <1>3 DEF Knowing, Accepting
<1>4. CASE req[r].op = "createInviteByEmail"
  BY <1>1, <1>2, <1>4 DEF Knowing, Accepting
<1>5. CASE req[r].op \in Accepting
  BY <1>1, <1>2, <1>5 DEF Knowing, Claimed, Sole, Accepting
<1>6. CASE req[r].op \notin Accepting \cup {"deleteUser", "createInviteByEmail",
                                            "acceptEmailInvite"}
  BY <1>2, <1>6 DEF Knowing, Accepting
<1>7. QED
  BY <1>3, <1>4, <1>5, <1>6

LEMMA ReadHaunted ==
    ASSUME IInv, Typing, RowsAreHeld, Haunted, NEW r \in Request, NEW statement, NEW ok, NEW got,
           Read(r, statement, ok, got), req[r].op # "acceptEmailInvite",
           req[r].op \in Accepting => req[r].op = "acceptByRealUser" /\ req[r].pc = 1
                                      /\ got = req[r].got,
           req[r].op = "createUser" => req[r].pc = 1,
           req[r].op \in Direct => req[r].pc = 1,
           req[r].op = "createInviteByEmail" => req[r].pc < 3
    PROVE  Haunted'
<1>1. CASE Throw(r)
  BY <1>1, ThrowHaunted
<1>2. CASE ~Throw(r)
  <2>1. req' = Knows(r, got) /\ Stay /\ UNCHANGED tables
    BY <1>2 DEF Read
  <2>2. GoesOn(r, got, req[r].user, req[r].invite)
    BY <2>1, KnowsGoesOn
  <2>3. UNCHANGED <<db, draft, holder, codes, links, byHand>> /\ OthersWait(r)
    BY <2>1, <2>2 DEF Stay, ghostVars, tables, GoesOn
  <2>4. req[r].pc \in Nat
    BY PlacesAreNumbers
  <2>5. Wrote(r)'
    BY <2>2, <2>3, <2>4, StillWrote
  <2>6. Knowing(r)'
    BY <2>2, <2>3, <2>4, StillKnows
  <2>7. QED
    BY <2>3, <2>4, <2>5, <2>6, QuietHaunted
<1>3. QED
  BY <1>1, <1>2

\* A handler that holds nothing sees what is committed.
LEMMA SeesCommitted ==
    ASSUME NEW r \in Request, HoldsNothing(r), NEW k \in Key
    PROVE  Visible(r)[k] = db[k]
BY ReadsRow DEF HoldsNothing

LEMMA ReadingGhostHaunted ==
    ASSUME IInv, Typing, RowsAreHeld, Haunted, NEW r \in Request, readGhost(r) \/ readInvite(r)
    PROVE  Haunted'
<1> DEFINE q == req[r]
           g == req[r].user
           i == req[r].invite
<1>1. CASE Throw(r)
  BY <1>1, ThrowHaunted
<1>2. CASE ~Throw(r) /\ req[r].op = "acceptEmailInvite"
  <2>1. Knowing(r) /\ HandlerOK(r)
    BY DEF Haunted, Typing
  <2>2. g \in UserId /\ i \in InviteId /\ HoldsNothing(r)
    BY <1>2, <2>1 DEF HandlerOK, LearntOK, ArgumentOK, HasUser, Named, Answering, Untransacted
  <2>3. \/ readGhost(r) /\ req[r].pc = 1
        \/ readInvite(r) /\ req[r].pc = 2
    BY <1>2, PlacesAre DEF readGhost, readInvite, Read
  <2>4. /\ q.arg \in links /\ q.arg.kind = "invite" /\ q.arg.user = g /\ q.arg.invite = i
    BY <1>2, <2>1 DEF Knowing
  <2>5. PICK got : /\ req' = Knows(r, got) /\ Stay /\ UNCHANGED tables
                   /\ readInvite(r) => got = InviteNow(r)
    BY <1>2, <2>3 DEF readGhost, readInvite, Read, At
  <2>6. GoesOn(r, got, g, i)
    BY <2>5, KnowsGoesOn
  <2>7. UNCHANGED <<db, draft, holder, codes, links, byHand>> /\ OthersWait(r)
    BY <2>5, <2>6 DEF Stay, ghostVars, tables, GoesOn
  <2>8. /\ req'[r].op = "acceptEmailInvite" /\ req'[r].pc = req[r].pc + 1 /\ req'[r].user = g
        /\ req'[r].invite = i /\ req'[r].got = got /\ req'[r].arg = q.arg
    BY <1>2, <2>6 DEF GoesOn
  <2>9. CASE readGhost(r) /\ req[r].pc = 1
    <3>1. Exists(Now(r)) /\ Now(r).confirmCode = q.arg.code
      BY <1>2, <2>9 DEF readGhost, Read
    <3>2. Exists(db[g]) /\ db[g].confirmCode = q.arg.code
      BY <2>2, <3>1, SeesCommitted, AccountKeys DEF Now
    <3>3. ~Dead(q.arg)
      BY <2>4, <3>2 DEF Dead
    <3>4. ~Sending(q.arg)
      <4>1. SUFFICES ASSUME NEW s \in Request, req[s].op = "createInviteByEmail", req[s].pc = 6,
                            req[s].got.invitee = g
                     PROVE  FALSE
        BY <2>4 DEF Sending
      <4>2. WroteInvite(s)
        BY <4>1 DEF Haunted, Wrote
      <4>3. db[g] = Absent
        BY <4>1, <4>2 DEF WroteInvite
      <4>4. QED
        BY <3>2, <4>3 DEF Exists
    <3>5. Names(g, i)
      BY <2>4, <3>3, <3>4 DEF Haunted, InviteLinksOK
    <3>6. Knowing(r)'
      BY <2>4, <2>7, <2>8, <2>9, <3>5 DEF Knowing, Names, Sole, Accepting
    <3>7. Wrote(r)'
      BY <2>8 DEF Wrote
    <3>8. QED
      BY <1>2, <2>7, <3>6, <3>7, QuietHaunted
  <2>10. CASE readInvite(r) /\ req[r].pc = 2
    <3>1. Waiting(InviteNow(r)) /\ got = InviteNow(r)
      BY <1>2, <2>5, <2>10 DEF readInvite, Read, Waiting
    <3>2. InviteNow(r) = db[i]
      BY <2>2, SeesCommitted, AccountKeys DEF InviteNow
    <3>3. Names(g, i)
      BY <1>2, <2>1, <2>10 DEF Knowing
    <3>4. Claimed(g, i)
      BY <3>1, <3>2, <3>3 DEF Names, Claimed
    <3>5. Knowing(r)'
      BY <2>4, <2>7, <2>8, <2>10, <3>3, <3>4 DEF Knowing, Names, Claimed, Sole, Accepting
    <3>6. Wrote(r)'
      BY <2>8 DEF Wrote
    <3>7. QED
      BY <1>2, <2>7, <3>5, <3>6, QuietHaunted
  <2>11. QED
    BY <2>3, <2>9, <2>10
<1>3. CASE ~Throw(r) /\ req[r].op # "acceptEmailInvite"
  <2>1. req[r].op = "rejectEmailInvite"
    BY <1>3, PlacesAre DEF readGhost, readInvite, Read
  <2>2. QED
    BY <2>1, ReadHaunted DEF readGhost, readInvite, Accepting, Direct
<1>4. QED
  BY <1>1, <1>2, <1>3

LEMMA ReadingHaunted ==
    ASSUME IInv, Typing, RowsAreHeld, Haunted, NEW r \in Request,
           \/ checkEmailFree(r) \/ readUser(r) \/ readUnconfirmed(r) \/ checkConfirmCode(r)
           \/ checkResetCode(r) \/ checkNoGhost(r) \/ findInvitee(r) \/ readGhost(r)
           \/ readInvite(r) \/ validateCreateInvite(r) \/ validateAnswer(r)
           \/ verifyRefreshToken(r) \/ AuthGuard(r)
    PROVE  Haunted'
<1>1. CASE readGhost(r) \/ readInvite(r)
  BY <1>1, ReadingGhostHaunted
<1>2. CASE checkEmailFree(r)
  <2>1. req[r].op = "createUser" /\ req[r].pc = 1
    BY <1>2, PlacesAre DEF checkEmailFree, Read
  <2>2. QED
    BY <1>2, <2>1, ReadHaunted DEF checkEmailFree, Accepting, Direct
<1>3. CASE readUser(r)
  <2>1. req[r].op = "updateUser"
    BY <1>3, PlacesAre DEF readUser, Read
  <2>2. QED
    BY <1>3, <2>1, ReadHaunted DEF readUser, Accepting, Direct
<1>4. CASE readUnconfirmed(r)
  <2>1. req[r].op = "resendConfirmEmail"
    BY <1>4, PlacesAre DEF readUnconfirmed, Read
  <2>2. QED
    BY <1>4, <2>1, ReadHaunted DEF readUnconfirmed, Accepting, Direct
<1>5. CASE checkConfirmCode(r)
  <2>1. req[r].op = "confirmEmail"
    BY <1>5, PlacesAre DEF checkConfirmCode, Read
  <2>2. QED
    BY <1>5, <2>1, ReadHaunted DEF checkConfirmCode, Accepting, Direct
<1>6. CASE checkResetCode(r)
  <2>1. req[r].op = "resetPassword"
    BY <1>6, PlacesAre DEF checkResetCode, Read
  <2>2. QED
    BY <1>6, <2>1, ReadHaunted DEF checkResetCode, Accepting, Direct
<1>7. CASE checkNoGhost(r)
  <2>1. req[r].op = "createInviteByEmail" /\ req[r].pc = 1
    BY <1>7, PlacesAre DEF checkNoGhost, Read
  <2>2. QED
    BY <1>7, <2>1, ReadHaunted DEF checkNoGhost, Accepting, Direct
<1>8. CASE findInvitee(r)
  <2>1. req[r].op = "createInviteByEmail" /\ req[r].pc = 2
    BY <1>8, PlacesAre DEF findInvitee, Read
  <2> DEFINE ok == \A v \in WithEmail(r, req[r].arg) :
                     NoBlockBetween(req[r].user, v) /\ NoContact(r, req[r].user, v)
  <2>2. Read(r, "findInvitee", ok, Null)
    BY <1>8 DEF findInvitee
  <2> HIDE DEF ok
  <2>3. QED
    BY <2>1, <2>2, ReadHaunted DEF Accepting, Direct
<1>9. CASE validateCreateInvite(r)
  <2>1. req[r].op \in {"acceptByRealUser", "createInvite"} /\ req[r].pc = 1
    BY <1>9, PlacesAre DEF validateCreateInvite, Read
  <2>2. PICK ok : Read(r, "validateCreateInvite", ok, req[r].got)
    BY <1>9 DEF validateCreateInvite
  <2>3. QED
    BY <2>1, <2>2, ReadHaunted DEF Accepting, Direct
<1>10. CASE verifyRefreshToken(r)
  <2>1. req[r].op \in {"refreshToken", "logout"}
    BY <1>10, PlacesAre DEF verifyRefreshToken, Read
  <2>2. QED
    BY <1>10, <2>1, ReadHaunted DEF verifyRefreshToken, Accepting, Direct
<1>11. CASE AuthGuard(r)
  <2>1. req[r].op \in {"query", "logout"}
    BY <1>11, PlacesAre DEF AuthGuard, Read
  <2>2. QED
    BY <1>11, <2>1, ReadHaunted DEF AuthGuard, Accepting, Direct
<1>12. CASE validateAnswer(r)
  <2>1. req[r].op \in {"acceptInvite", "rejectInvite"} /\ req[r].pc = 1
    BY <1>12, PlacesAre DEF validateAnswer, Read
  <2>2. PICK ok : Read(r, "validateAnswer", ok, Null)
    BY <1>12 DEF validateAnswer
  <2>3. QED
    BY <2>1, <2>2, ReadHaunted DEF Accepting, Direct
<1>13. QED
  BY <1>1, <1>2, <1>3, <1>4, <1>5, <1>6, <1>7, <1>8, <1>9, <1>10, <1>11, <1>12

\* Requests that are about neither ghosts nor transactions.
Apart == {"none", "resendConfirmEmail", "confirmEmail", "forgotPassword", "query",
          "resendForgotPasswordEmail", "resetPassword", "login", "refreshToken", "logout"}

LEMMA ApartHaunted ==
    ASSUME IInv, Typing, Haunted, NEW r \in Request, OthersWait(r), req[r].op \in Apart,
           req'[r].op \in Apart, UNCHANGED <<db, draft, holder, codes, byHand>>,
           links \subseteq links',
           \A l \in links' \ links : l.kind # "invite"
    PROVE  Haunted'
<1>1. Wrote(r)' /\ Knowing(r)'
  BY DEF Wrote, Knowing, Apart, Accepting
<1>2. QED
  BY <1>1, QuietHaunted DEF Apart

LEMMA LookingUpHaunted ==
    ASSUME IInv, Typing, RowsAreHeld, Haunted, NEW r \in Request,
           \/ findActive(r) \/ authenticate(r) \/ authenticateUser(r)
           \/ invalidateAccessToken(r) \/ invalidateRefreshToken(r) \/ deliver(r) \/ done(r)
    PROVE  Haunted'
<1>1. CASE Throw(r)
  BY <1>1, ThrowHaunted
<1>2. CASE ~Throw(r)
  <2>1. req[r].op \in Apart
    BY PlacesAre DEF findActive, authenticate, authenticateUser, invalidateAccessToken,
       invalidateRefreshToken, deliver, done, Apart
  <2>2. UNCHANGED <<tables, links, codes, byHand>>
    BY <1>2 DEF findActive, authenticate, authenticateUser, invalidateAccessToken,
       invalidateRefreshToken, deliver, done, Stay, ghostVars
  <2>3. DOMAIN req = Request /\ DOMAIN req[r] = DOMAIN Idle /\ "none" \in Apart
    BY DEF IInv, RequestsOK, RequestOK, Apart
  <2>4. \/ req' = Finished(r)
        \/ \E got : \/ req' = Knows(r, got)
                    \/ \E u : req' = [Knows(r, got) EXCEPT ![r].user = u]
    BY <1>2 DEF findActive, authenticate, authenticateUser, invalidateAccessToken,
       invalidateRefreshToken, deliver, done, Goes
  <2>5. OthersWait(r) /\ req'[r].op \in Apart
    <3>1. CASE req' = Finished(r)
      BY <2>3, <3>1 DEF Finished, OthersWait, Idle
    <3>2. ASSUME NEW got, \/ req' = Knows(r, got)
                          \/ \E u : req' = [Knows(r, got) EXCEPT ![r].user = u]
          PROVE  OthersWait(r) /\ req'[r].op \in Apart
      <4>1. \E u : GoesOn(r, got, u, req[r].invite)
        BY <3>2, KnowsGoesOn
      <4>2. QED
        BY <2>1, <4>1 DEF GoesOn
    <3>3. QED
      BY <2>4, <3>1, <3>2
  <2>6. QED
    BY <2>1, <2>2, <2>5, ApartHaunted DEF tables
<1>3. QED
  BY <1>1, <1>2

LEMMA FindRealUserHaunted ==
    ASSUME IInv, Typing, RowsAreHeld, Haunted, NEW r \in Request, findRealUser(r)
    PROVE  Haunted'
<1>1. req[r].op = "acceptEmailInvite" /\ req[r].pc = 3
  BY PlacesAre DEF findRealUser
<1>2. Claimed(req[r].user, req[r].invite) /\ HoldsNothing(r)
  BY <1>1 DEF Haunted, Knowing, Typing, HandlerOK, Untransacted
<1>3. Stay /\ UNCHANGED tables
  BY DEF findRealUser
<1> DEFINE Becomes(op, u, code) ==
             req' = [req EXCEPT ![r].op = op, ![r].pc = 1,
                        ![r].got = [inviter |-> req[r].got.inviter, invitee |-> u,
                                    resetCode |-> code]]
<1>4. PICK op, u, code :
        op \in Accepting /\ Becomes(op, u, code) /\ (op = "acceptByGhost" => u = req[r].user)
  <2>1. \/ \E u : Becomes("acceptByRealUser", u, Visible(r)[u].resetCode)
        \/ Becomes("acceptByGhost", req[r].user, req[r].arg.resetCode)
    BY DEF findRealUser
  <2> HIDE DEF Becomes
  <2>2. QED
    BY <2>1 DEF Accepting
<1>5. DOMAIN req = Request /\ DOMAIN req[r] = DOMAIN Idle
  BY DEF IInv, RequestsOK, RequestOK
<1>6. /\ OthersWait(r) /\ req'[r].op = op /\ req'[r].pc = 1 /\ req'[r].user = req[r].user
      /\ req'[r].invite = req[r].invite /\ req'[r].got.inviter = req[r].got.inviter
      /\ req'[r].got.invitee = u
  BY <1>4, <1>5 DEF OthersWait, Idle
<1>7. UNCHANGED <<db, draft, holder, codes, links, byHand>>
  BY <1>3 DEF Stay, ghostVars, tables
<1> HIDE DEF Becomes
<1>8. Knowing(r)'
  <2>1. Claimed(req[r].user, req[r].invite)'
    BY <1>2, <1>6, <1>7 DEF Claimed, Sole
  <2>2. req'[r].op \in Accepting /\ (req'[r].op = "acceptByGhost" => u = req[r].user)
    BY <1>4, <1>6
  <2>3. QED
    BY <1>6, <2>1, <2>2 DEF Knowing, Accepting
<1>9. Wrote(r)'
  <2>1. \A k \in Key : holder'[k] # r
    BY <1>2, <1>7 DEF HoldsNothing
  <2>2. WroteAsGhost(r)'
    BY <1>6, <2>1 DEF WroteAsGhost
  <2>3. WroteAsUser(r)'
    BY <1>6, <2>1 DEF WroteAsUser
  <2>4. req'[r].op \in Accepting
    BY <1>4, <1>6
  <2>5. QED
    BY <2>2, <2>3, <2>4 DEF Wrote, Accepting
<1>10. QED
  BY <1>1, <1>6, <1>7, <1>8, <1>9, QuietHaunted

-------------------------------------------------------------------------------
(* Mails and new requests.                                                   *)

LEMMA MailHaunted ==
    ASSUME IInv, Typing, Haunted, NEW r \in Request, NEW statement, NEW mail,
           Mail(r, statement, mail),
           req[r].op \notin Answering \cup Direct,
           req[r].op = "createUser" => req[r].pc = 4,
           req[r].op = "createInviteByEmail" => req[r].pc = 5,
           \A l \in mail : l.kind = "invite" => l.code \in 0..codes /\ Sending(l)'
    PROVE  Haunted'
<1>1. /\ req' = Goes(r) /\ links' = links \cup mail
      /\ UNCHANGED <<db, draft, holder, codes, byHand>>
  BY DEF Mail, ghostVars, tables
<1>2. GoesOn(r, req[r].got, req[r].user, req[r].invite)
  BY <1>1, KnowsGoesOn DEF Goes
<1>3. OthersWait(r)
  BY <1>2 DEF GoesOn
<1>4. Wrote(r)'
  BY <1>1, <1>2, StillWrote DEF Answering
<1>5. Knowing(r)'
  BY <1>1, <1>2, StillKnows DEF Answering
<1>6. QED
  BY <1>1, <1>3, <1>4, <1>5, QuietHaunted

LEMMA MailingHaunted ==
    ASSUME IInv, Typing, Haunted, NEW r \in Request, mailConfirm(r) \/ mailReset(r) \/ mailInvite(r)
    PROVE  Haunted'
<1>1. CASE mailConfirm(r)
  <2> DEFINE mail == IF req[r].got.confirmCode = Null THEN {}
                     ELSE {PlainLink(r, "confirm", req[r].got.confirmCode)}
  <2>1. /\ req[r].op \in {"createUser", "changeEmail", "resendConfirmEmail"}
        /\ req[r].op = "createUser" => req[r].pc = 4
    BY <1>1, PlacesAre DEF mailConfirm, Mail
  <2>2. Mail(r, "mailConfirm", mail) /\ \A l \in mail : l.kind # "invite"
    BY <1>1 DEF mailConfirm, PlainLink
  <2> HIDE DEF mail
  <2>3. QED
    BY <2>1, <2>2, MailHaunted DEF Answering, Accepting, Direct
<1>2. CASE mailReset(r)
  <2> DEFINE mail == {PlainLink(r, "reset", req[r].got.resetCode)}
  <2>1. req[r].op \in {"forgotPassword", "resendForgotPasswordEmail"}
    BY <1>2, PlacesAre DEF mailReset, Mail
  <2>2. Mail(r, "mailReset", mail) /\ \A l \in mail : l.kind # "invite"
    BY <1>2 DEF mailReset, PlainLink
  <2> HIDE DEF mail
  <2>3. QED
    BY <2>1, <2>2, MailHaunted DEF Answering, Accepting, Direct
<1>3. CASE mailInvite(r)
  <2>1. req[r].op = "createInviteByEmail" /\ req[r].pc = 5
    BY <1>3, PlacesAre DEF mailInvite, Mail
  <2>2. PICK l : l = [kind |-> "invite", user |-> req[r].got.invitee,
                      code |-> req[r].got.row.confirmCode, to |-> req[r].arg,
                      invite |-> req[r].invite, resetCode |-> req[r].got.row.resetCode]
    OBVIOUS
  <2>3. /\ l.code = req[r].got.row.confirmCode /\ l.user = req[r].got.invitee
        /\ l.invite = req[r].invite
        /\ Mail(r, "mailInvite", {l})
    BY <1>3, <2>2 DEF mailInvite
  <2>4. l.code \in 0..codes
    BY <2>1, <2>3 DEF Haunted, Knowing
  <2>5. GoesOn(r, req[r].got, req[r].user, req[r].invite)
    BY <2>3, KnowsGoesOn DEF Mail, Goes
  <2>6. Sending(l)'
    BY <2>1, <2>3, <2>5 DEF GoesOn, Sending
  <2>7. \A m \in {l} : m.code \in 0..codes /\ Sending(m)'
    BY <2>4, <2>6
  <2>8. QED
    BY <2>1, <2>3, <2>7, MailHaunted DEF Answering, Accepting, Direct
<1>4. QED
  BY <1>1, <1>2, <1>3

LEMMA StartHaunted ==
    ASSUME IInv, Typing, Haunted, NEW r \in Request, NEW op, NEW known, NEW reached,
           Start(r, op, known, reached), DOMAIN known = DOMAIN Idle, known.pc = 1,
           op # "changeEmail", op \notin Accepting,
           op = "deleteUser" => Exists(known.seen),
           op = "createInviteByEmail" => db[known.user] # Absent,
           op = "acceptEmailInvite" =>
                /\ known.arg \in links /\ known.arg.kind = "invite"
                /\ known.arg.user = known.user /\ known.arg.invite = known.invite
    PROVE  Haunted'
<1>1. OthersWait(r)
  BY DEF IInv, RequestsOK, RequestOK, Start, OthersWait
<1>2. req'[r] = [known EXCEPT !.op = op, !.late = Carried(known) \cap ended]
  BY DEF IInv, RequestsOK, RequestOK, Start
<1>3. /\ req'[r].op = op /\ req'[r].pc = 1 /\ req'[r].arg = known.arg
      /\ req'[r].user = known.user /\ req'[r].invite = known.invite /\ req'[r].seen = known.seen
  BY <1>2 DEF Idle
<1>4. UNCHANGED <<db, draft, holder, links, codes, byHand>> /\ req[r].op = "none"
  BY DEF Start, tables
<1>5. \A k \in Key : holder'[k] # r
  BY <1>4 DEF Typing, HandlerOK, Untransacted, HoldsNothing
<1>6. WroteUser(r)' /\ WroteInvite(r)' /\ WroteOpen(r)' /\ WroteAnswer(r)'
  BY <1>3, <1>5 DEF WroteUser, WroteInvite, WroteOpen, WroteAnswer
<1>7. Wrote(r)'
  BY <1>3, <1>5, <1>6 DEF Wrote, Accepting
<1>8. Knowing(r)'
  BY <1>3, <1>4 DEF Knowing, Accepting
<1>9. QED
  BY <1>1, <1>4, <1>7, <1>8, QuietHaunted

LEMMA BeginHaunted ==
    ASSUME IInv, Typing, Haunted, NEW r \in Request, Begin(r)
    PROVE  Haunted'
<1> USE DEF Accepting
<1>1. \A l : \A kind : l \in Received(kind) => l \in links /\ l.kind = kind
  BY DEF Received
<1>2. \A u \in Users : Exists(db[u]) /\ db[u] # Absent
  BY DEF Users, Exists
<1>3. CASE \/ createUser(r) \/ updateUser(r) \/ deleteUser(r) \/ banUser(r) \/ unbanUser(r)
           \/ resendConfirmEmail(r) \/ forgotPassword(r) \/ resendForgotPasswordEmail(r)
           \/ resetPassword(r) \/ createInviteByEmail(r) \/ login(r) \/ refreshToken(r)
           \/ logout(r) \/ query(r) \/ confirmEmail(r)
           \/ createInvite(r) \/ acceptInvite(r) \/ rejectInvite(r)
  <2>1. ASSUME NEW op, NEW known, NEW reached, Start(r, op, known, reached),
               DOMAIN known = DOMAIN Idle, known.pc = 1,
               op \notin {"changeEmail", "acceptEmailInvite", "deleteUser",
                          "createInviteByEmail"}, op \notin Accepting
        PROVE  Haunted'
    BY <2>1, StartHaunted
  <2>2. CASE createUser(r)
    BY <2>1, <2>2 DEF createUser, Idle
  <2>3. CASE updateUser(r)
    BY <2>1, <2>3 DEF updateUser, Idle
  <2>4. CASE deleteUser(r)
    <3>1. PICK u \in Users :
              Start(r, "deleteUser", [Idle EXCEPT !.user = u, !.seen = db[u]], {})
      BY <2>4 DEF deleteUser
    <3> DEFINE known == [Idle EXCEPT !.user = u, !.seen = db[u]]
    <3>2. DOMAIN known = DOMAIN Idle /\ known.pc = 1 /\ known.seen = db[u]
      BY DEF Idle
    <3>3. Start(r, "deleteUser", known, {})
      BY <3>1
    <3> HIDE DEF known
    <3>4. QED
      BY <1>2, <3>1, <3>2, <3>3, StartHaunted
  <2>5. CASE banUser(r)
    BY <2>1, <2>5 DEF banUser, Idle
  <2>6. CASE unbanUser(r)
    BY <2>1, <2>6 DEF unbanUser, Idle
  <2>7. CASE resendConfirmEmail(r)
    BY <2>1, <2>7 DEF resendConfirmEmail, Idle
  <2>8. CASE forgotPassword(r)
    BY <2>1, <2>8 DEF forgotPassword, Idle
  <2>9. CASE resendForgotPasswordEmail(r)
    BY <2>1, <2>9 DEF resendForgotPasswordEmail, Idle
  <2>10. CASE resetPassword(r)
    BY <2>1, <2>10 DEF resetPassword, Idle
  <2>11. CASE createInviteByEmail(r)
    <3>1. PICK u \in Users, e \in Typed :
              Start(r, "createInviteByEmail",
                    [Idle EXCEPT !.user = u, !.arg = Untagged[Lower[e]]], {})
      BY <2>11 DEF createInviteByEmail
    <3> DEFINE known == [Idle EXCEPT !.user = u, !.arg = Untagged[Lower[e]]]
    <3>2. DOMAIN known = DOMAIN Idle /\ known.pc = 1 /\ known.user = u
      BY DEF Idle
    <3>3. Start(r, "createInviteByEmail", known, {})
      BY <3>1
    <3> HIDE DEF known
    <3>4. QED
      BY <1>2, <3>1, <3>2, <3>3, StartHaunted
  <2>12. CASE login(r)
    BY <2>1, <2>12 DEF login, Idle
  <2>13. CASE refreshToken(r)
    BY <2>1, <2>13 DEF refreshToken, Idle
  <2>14. CASE logout(r)
    BY <2>1, <2>14 DEF logout, Idle
  <2>15. CASE query(r)
    BY <2>1, <2>15 DEF query, Idle
  <2>16. CASE confirmEmail(r)
    <3>1. PICK l \in Received("confirm") :
              Start(r, "confirmEmail", [Idle EXCEPT !.user = l.user, !.arg = l.code],
                    {<<l.user, l.to>>})
      BY <2>16 DEF confirmEmail
    <3> DEFINE known == [Idle EXCEPT !.user = l.user, !.arg = l.code]
    <3>2. DOMAIN known = DOMAIN Idle /\ known.pc = 1
      BY DEF Idle
    <3>3. Start(r, "confirmEmail", known, {<<l.user, l.to>>})
      BY <3>1
    <3> HIDE DEF known
    <3>4. QED
      BY <2>1, <3>2, <3>3
  <2>17. CASE createInvite(r)
    BY <2>1, <2>17 DEF createInvite, Idle
  <2>18. CASE acceptInvite(r) \/ rejectInvite(r)
    BY <2>1, <2>18 DEF acceptInvite, rejectInvite, AnswerInvite, Idle
  <2>19. QED
    BY <1>3, <2>2, <2>3, <2>4, <2>5, <2>6, <2>7, <2>8, <2>9, <2>10, <2>11,
       <2>12, <2>13, <2>14, <2>15, <2>16, <2>17, <2>18
<1>4. CASE acceptEmailInvite(r) \/ rejectEmailInvite(r)
  <2>1. PICK op \in {"acceptEmailInvite", "rejectEmailInvite"} : FollowInvite(r, op)
    BY <1>4 DEF acceptEmailInvite, rejectEmailInvite
  <2>2. PICK l \in Received("invite") :
            Start(r, op, [Idle EXCEPT !.user = l.user, !.invite = l.invite, !.arg = l],
                  {<<l.user, l.to>>})
    BY <2>1 DEF FollowInvite
  <2> DEFINE known == [Idle EXCEPT !.user = l.user, !.invite = l.invite, !.arg = l]
  <2>3. /\ DOMAIN known = DOMAIN Idle /\ known.pc = 1
        /\ known.user = l.user /\ known.invite = l.invite /\ known.arg = l
    BY DEF Idle
  <2>4. Start(r, op, known, {<<l.user, l.to>>})
    BY <2>2
  <2> HIDE DEF known
  <2>5. l \in links /\ l.kind = "invite"
    BY <1>1
  <2>6. QED
    BY <2>1, <2>3, <2>4, <2>5, StartHaunted
<1>5. QED
  BY <1>3, <1>4 DEF Begin

-------------------------------------------------------------------------------
(* Updates of users.                                                         *)

\* What an update inside a transaction leaves.
LEMMA UpdateDoes ==
    ASSUME Typing, RowsAreHeld, Haunted, NEW r \in Request, NEW u \in UserId, NEW row \in UserRow,
           Updates(r, u, row)
    PROVE  /\ UNCHANGED db /\ Families' /\ Frame(r)
           /\ Exists(draft[u]) /\ Visible(r)[u] = draft[u]
           /\ draft'[u] = row /\ holder'[u] = r /\ Exists(row)
           /\ \A k \in Key \ {u} : draft'[k] = draft[k] /\ holder'[k] = holder[k]
<1> USE AccountKeys
<1>1. PICK rows : /\ DOMAIN rows = {u} /\ rows[u] = row
                  /\ WaitsFor(r, rows) = {} /\ Legal(r, rows) /\ Put(r, rows)
  BY DEF Updates
<1>2. Free(r, u)
  BY <1>1, WaitedFor
<1>3. Visible(r)[u] = draft[u] /\ Exists(draft[u])
  BY <1>2, FreeRowIsNewest DEF Updates, RowsAreHeld
<1>4. Exists(row) /\ RowTyped(u, row)
  BY MissingRowsAreNoRows DEF Exists, RowTyped
<1>5. \A k \in DOMAIN rows :
          /\ Exists(rows[k]) /\ RowTyped(k, rows[k])
          /\ k \in UserId \cup InviteId => draft[k] # Gone
  BY <1>1, <1>3, <1>4 DEF Exists
<1>6. Families'
  BY <1>1, <1>5, PutKeepsFamilies DEF Haunted
<1>9. UNCHANGED db
  BY <1>1 DEF Put
<1>10. Frame(r)
  BY <1>1, WaitingFrames
<1>11. draft'[u] = row /\ holder'[u] = r
  BY <1>1, PutRow
<1>12. \A k \in Key \ {u} : draft'[k] = draft[k] /\ holder'[k] = holder[k]
  BY <1>1, PutRow
<1>13. QED
  BY <1>3, <1>4, <1>6, <1>9, <1>10, <1>11, <1>12

LEMMA UpdateHaunted ==
    ASSUME IInv, Typing, RowsAreHeld, Haunted, NEW r \in Request, NEW u \in UserId,
           NEW row \in UserRow, Updates(r, u, row), OthersWait(r),
           codes' \in Nat, codes <= codes', UNCHANGED <<links, byHand>>,
           row.confirmCode \notin 0..codes \/ row.confirmCode = Visible(r)[u].confirmCode,
           req[r].op # "createInviteByEmail", Wrote(r)', Knowing(r)'
    PROVE  Haunted'
<1>1. /\ UNCHANGED db /\ Families' /\ Frame(r)
      /\ Exists(draft[u]) /\ Visible(r)[u] = draft[u]
      /\ draft'[u] = row /\ holder'[u] = r /\ Exists(row)
      /\ \A k \in Key \ {u} : draft'[k] = draft[k] /\ holder'[k] = holder[k]
  BY UpdateDoes
<1>2. CodesGo
  BY <1>1, AccountKeys DEF CodesGo
<1>3. InviteLinksOK'
  BY <1>1, <1>2, SameDbGrows, LinksStayOK
<1>4. QED
  BY <1>1, <1>3, UncommittedHaunted

LEMMA SetBannedHaunted ==
    ASSUME IInv, Typing, RowsAreHeld, Haunted, NEW r \in Request, setBanned(r), ~Throw(r)
    PROVE  Haunted'
<1> DEFINE row == [Now(r) EXCEPT !.banned = req[r].arg]
           u == req[r].user
<1>1. req[r].op \in {"banUser", "unbanUser"} /\ req[r].pc = 1
  BY PlacesAre DEF setBanned, Execute
<1>2. u \in UserId /\ req[r].arg \in BOOLEAN
  BY <1>1 DEF Typing, HandlerOK, ArgumentOK, LearntOK, HasUser, Named
<1>3. Updates(r, u, row) /\ req' = Goes(r) /\ Stay
  BY SetBannedDoes
<1>4. Now(r) = Visible(r)[u] /\ Now(r) \in UserRow
  BY <1>2, <1>3, SeenRowsTyped DEF Updates, Now
<1>5. row \in UserRow /\ row.email = Now(r).email /\ row.confirmCode = Now(r).confirmCode
  BY <1>2, <1>4 DEF UserRow
<1> HIDE DEF row
<1>6. GoesOn(r, req[r].got, u, req[r].invite)
  BY <1>3, KnowsGoesOn DEF Goes
<1>7. /\ UNCHANGED <<db, codes, links, byHand>> /\ codes \in Nat /\ OthersWait(r)
      /\ req'[r].op = req[r].op /\ req'[r].user = u
  BY <1>3, <1>6, UpdateDoes, <1>2, <1>5 DEF GoesOn, Stay, ghostVars, Typing, Code
<1>8. /\ Exists(draft[u]) /\ Visible(r)[u] = draft[u]
      /\ draft'[u] = row /\ holder'[u] = r /\ Exists(row)
      /\ \A k \in Key \ {u} : draft'[k] = draft[k] /\ holder'[k] = holder[k]
  BY <1>2, <1>3, <1>5, UpdateDoes
<1>9. WroteUser(r)
  BY <1>1 DEF Haunted, Wrote
<1>10. Exists(db[u]) /\ row.email = db[u].email
  BY <1>1, <1>2, <1>4, <1>5, <1>8, <1>9, ReadsRow, AccountKeys DEF WroteUser
<1>11. WroteUser(r)'
  BY <1>1, <1>7, <1>8, <1>9, <1>10 DEF WroteUser
<1>12. Wrote(r)' /\ Knowing(r)'
  BY <1>1, <1>7, <1>11 DEF Wrote, Knowing, Accepting
<1>13. QED
  BY <1>1, <1>2, <1>3, <1>4, <1>5, <1>7, <1>12, UpdateHaunted

LEMMA SetUserHaunted ==
    ASSUME IInv, Typing, RowsAreHeld, Haunted, NEW r \in Request, setUser(r), ~Throw(r)
    PROVE  Haunted'
<1> DEFINE row == [Now(r) EXCEPT !.email = Lower[req[r].arg.email],
                                !.password = req[r].arg.password]
           u == req[r].user
<1>1. req[r].op = "updateUser" /\ req[r].pc = 2
  BY PlacesAre DEF setUser, Execute
<1>2. /\ u \in UserId /\ req[r].arg.password \in Password
      /\ Lower[req[r].arg.email] \in Address
  BY <1>1, Addresses DEF Typing, HandlerOK, ArgumentOK, LearntOK, HasUser, Named
<1>3. /\ Updates(r, u, row) /\ Stay
      /\ req' = IF req[r].got.email = req[r].arg.email THEN Knows(r, row)
                ELSE [Knows(r, row) EXCEPT ![r].op = "changeEmail", ![r].pc = 1]
  BY SetUserDoes
<1>4. Now(r) = Visible(r)[u] /\ Now(r) \in UserRow
  BY <1>2, <1>3, SeenRowsTyped DEF Updates, Now
<1>5. row \in UserRow /\ IsUser(row) /\ row.confirmCode = Now(r).confirmCode
  <2>1. row \in UserRow /\ row.email \in Address /\ row.confirmCode = Now(r).confirmCode
    BY <1>2, <1>4 DEF UserRow
  <2> HIDE DEF row
  <2>2. QED
    BY <2>1, MissingRowsAreNoRows DEF IsUser, Exists
<1> HIDE DEF row
<1>6. DOMAIN req = Request /\ DOMAIN req[r] = DOMAIN Idle
  BY DEF IInv, RequestsOK, RequestOK
<1>7. /\ OthersWait(r) /\ req'[r].op \in {"updateUser", "changeEmail"} /\ req'[r].user = u
  BY <1>1, <1>3, <1>6 DEF OthersWait, Knows, Idle
<1>8. /\ UNCHANGED db /\ Exists(draft[u]) /\ Visible(r)[u] = draft[u]
      /\ draft'[u] = row /\ holder'[u] = r /\ Exists(row)
      /\ \A k \in Key \ {u} : draft'[k] = draft[k] /\ holder'[k] = holder[k]
  BY <1>2, <1>3, <1>5, UpdateDoes
<1>9. UNCHANGED <<codes, links, byHand>> /\ codes \in Nat
  BY <1>3 DEF Stay, ghostVars, Typing, Code
<1>10. WroteUser(r)
  BY <1>1 DEF Haunted, Wrote
<1>11. Exists(db[u])
  BY <1>1, <1>2, <1>4, <1>8, <1>10, ReadsRow, AccountKeys DEF WroteUser
<1>12. WroteUser(r)'
  BY <1>1, <1>5, <1>7, <1>8, <1>10, <1>11 DEF WroteUser
<1>13. Wrote(r)' /\ Knowing(r)'
  BY <1>7, <1>12 DEF Wrote, Knowing, Accepting
<1>14. QED
  BY <1>1, <1>2, <1>3, <1>4, <1>5, <1>7, <1>9, <1>13, UpdateHaunted

LEMMA SetConfirmCodeHaunted ==
    ASSUME IInv, Typing, RowsAreHeld, Haunted, NEW r \in Request, setConfirmCode(r), ~Throw(r)
    PROVE  Haunted'
<1> DEFINE row == [Now(r) EXCEPT !.confirmCode = NewConfirmCode]
           got == [req[r].got EXCEPT !.confirmCode = NewConfirmCode]
           u == req[r].user
<1>1. \/ req[r].op = "createUser" /\ req[r].pc = 3
      \/ req[r].op = "changeEmail" /\ req[r].pc = 1
  BY PlacesAre DEF setConfirmCode, Execute
<1>2. u \in UserId /\ codes \in Nat
  BY <1>1 DEF Typing, HandlerOK, LearntOK, HasUser, Named, Code
<1>3. Updates(r, u, row) /\ req' = ConfirmCodeSet(r) /\ NewCodes(1)
  BY SetConfirmCodeDoes
<1>4. Now(r) = Visible(r)[u] /\ Now(r) \in UserRow
  BY <1>2, <1>3, SeenRowsTyped DEF Updates, Now
<1>5. NewConfirmCode \in Code \cup {Null} /\ NewConfirmCode \notin 0..codes
  BY <1>2, NullIsNoCode DEF NewConfirmCode, Code
<1>6. row \in UserRow /\ row.email = Now(r).email /\ row.confirmCode \notin 0..codes
  BY <1>4, <1>5 DEF UserRow
<1>7. GoesOn(r, got, u, req[r].invite)
  BY <1>3, ConfirmCodeGoesOn
<1> HIDE DEF row, got
<1>8. /\ OthersWait(r) /\ req'[r].op = req[r].op /\ req'[r].user = u /\ req'[r].pc = req[r].pc + 1
      /\ UNCHANGED <<links, byHand>> /\ codes' \in Nat /\ codes <= codes'
  BY <1>2, <1>3, <1>7 DEF GoesOn, NewCodes, ghostVars
<1>9. /\ UNCHANGED db /\ Exists(draft[u]) /\ Visible(r)[u] = draft[u]
      /\ draft'[u] = row /\ holder'[u] = r /\ Exists(row)
      /\ \A k \in Key \ {u} : draft'[k] = draft[k] /\ holder'[k] = holder[k]
  BY <1>2, <1>3, <1>6, UpdateDoes
<1>10. WroteUser(r) /\ holder[u] = r
  BY <1>1 DEF Haunted, Wrote, WroteUser
<1>11. /\ u \in Key /\ IsUser(row)
       /\ req[r].op = "createUser" => db[u] = Absent
       /\ req[r].op = "changeEmail" => Exists(db[u])
  BY <1>1, <1>2, <1>4, <1>6, <1>9, <1>10, AccountKeys DEF WroteUser, IsUser
<1>12. WroteUser(r)'
  BY <1>1, <1>8, <1>9, <1>10, <1>11 DEF WroteUser
<1>13. Wrote(r)' /\ Knowing(r)'
  BY <1>1, <1>8, <1>12 DEF Wrote, Knowing, Accepting
<1>14. QED
  BY <1>1, <1>2, <1>3, <1>6, <1>8, <1>13, UpdateHaunted

LEMMA BecomeUserHaunted ==
    ASSUME IInv, Typing, RowsAreHeld, Haunted, NEW r \in Request, becomeUser(r), ~Throw(r)
    PROVE  Haunted'
<1> DEFINE row == [Now(r) EXCEPT !.confirmCode = Null, !.email = req[r].arg.to]
           g == req[r].user
<1>1. req[r].op = "acceptByGhost" /\ req[r].pc = 1
  BY PlacesAre DEF becomeUser, Execute
<1>2. g \in UserId /\ req[r].arg.to \in Address
  BY <1>1 DEF Typing, HandlerOK, ArgumentOK, LearntOK, HasUser, Named, Answering, Accepting
<1>3. Updates(r, g, row) /\ req' = Goes(r) /\ Stay
  BY BecomeUserDoes
<1>4. Now(r) = Visible(r)[g] /\ Now(r) \in UserRow
  BY <1>2, <1>3, SeenRowsTyped DEF Updates, Now
<1>5. row \in UserRow /\ IsUser(row) /\ row.confirmCode \notin 0..codes
  <2>1. row \in UserRow /\ row.email \in Address /\ row.confirmCode = Null
    BY <1>2, <1>4 DEF UserRow
  <2> HIDE DEF row
  <2>2. QED
    BY <2>1, NullIsNoCode, MissingRowsAreNoRows DEF IsUser, Exists, Typing, Code
<1> HIDE DEF row
<1>6. GoesOn(r, req[r].got, g, req[r].invite)
  BY <1>3, KnowsGoesOn DEF Goes
<1>7. /\ UNCHANGED <<codes, links, byHand>> /\ codes \in Nat /\ OthersWait(r)
      /\ req'[r].op = req[r].op /\ req'[r].user = g /\ req'[r].pc = 2
      /\ req'[r].invite = req[r].invite /\ req'[r].got = req[r].got
  BY <1>1, <1>3, <1>6 DEF GoesOn, Stay, ghostVars, Typing, Code
<1>8. /\ UNCHANGED db /\ Exists(draft[g]) /\ Visible(r)[g] = draft[g]
      /\ draft'[g] = row /\ holder'[g] = r /\ Exists(row)
      /\ \A k \in Key \ {g} : draft'[k] = draft[k] /\ holder'[k] = holder[k]
  BY <1>2, <1>3, <1>5, UpdateDoes
<1>9. WroteAsGhost(r) /\ Knowing(r)
  BY <1>1 DEF Haunted, Wrote
<1>10. \A k \in Key : holder[k] # r
  BY <1>1, <1>9 DEF WroteAsGhost
<1>11. Exists(db[g])
  BY <1>2, <1>8, <1>10, ReadsRow, AccountKeys
<1>12. WroteAsGhost(r)'
  BY <1>5, <1>7, <1>8, <1>10, <1>11 DEF WroteAsGhost
<1>13. Wrote(r)'
  BY <1>1, <1>7, <1>12 DEF Wrote, Accepting
<1>14. Knowing(r)'
  BY <1>1, <1>7, <1>8, <1>9 DEF Knowing, Claimed, Sole, Accepting
<1>15. QED
  BY <1>1, <1>2, <1>3, <1>5, <1>7, <1>13, <1>14, UpdateHaunted

\* Outside any transaction: the user stays who it was.
LEMMA UpdateNowHaunted ==
    ASSUME IInv, Typing, RowsAreHeld, Haunted, NEW r \in Request, NEW u \in UserId,
           NEW row \in UserRow, UpdatesNow(r, u, row), OthersWait(r),
           codes' \in Nat, codes <= codes', UNCHANGED <<links, byHand>>,
           row.email = Visible(r)[u].email,
           row.confirmCode \notin 0..codes \/ row.confirmCode = Visible(r)[u].confirmCode,
           req[r].op \in Apart, req'[r].op \in Apart
    PROVE  Haunted'
<1> USE AccountKeys
<1>1. HoldsNothing(r)
  BY DEF Apart, Typing, HandlerOK, Untransacted
<1>2. /\ Families'
      /\ Exists(db[u]) /\ draft[u] = db[u] /\ Visible(r)[u] = db[u]
      /\ db'[u] = row /\ draft'[u] = row /\ holder' = holder
      /\ \A k \in Key \ {u} : db'[k] = db[k] /\ draft'[k] = draft[k]
  BY <1>1, PutNowKeepsFamilies DEF Haunted
<1>3. Exists(row) /\ row.email = db[u].email
  BY <1>2, MissingRowsAreNoRows DEF Exists
<1>4. /\ \A k \in Key : Exists(db'[k]) <=> Exists(db[k])
      /\ \A v \in UserId : Exists(db[v]) => db'[v].email = db[v].email
      /\ \A v \in UserId : (db'[v] = Gone <=> db[v] = Gone) /\ (db'[v] = Absent <=> db[v] = Absent)
      /\ \A k \in InviteId \cup ContactKey : db'[k] = db[k] /\ draft'[k] = draft[k]
  BY <1>2, <1>3 DEF Exists
<1>5. \A i \in InviteId : db'[i] = db[i] /\ i \notin UserId
  BY <1>4
<1>6. \A v \in UserId : /\ IsGhost(db'[v]) <=> IsGhost(db[v])
                       /\ \A a : GhostOf(db'[v], a) <=> GhostOf(db[v], a)
  BY <1>4 DEF IsGhost, GhostOf
<1>7. DbGrows
  <2>1. \A g \in UserId, i \in InviteId : Sole(g, i) => Sole(g, i)'
    BY <1>5 DEF Sole
  <2>2. QED
    BY <1>4, <1>5, <2>1 DEF DbGrows, Names, Claimed
<1>8. CodesGo
  BY <1>2 DEF CodesGo
<1>9. AwaitAnswer(db', byHand')
  <2>1. AwaitAnswer(db, byHand)
    BY DEF Haunted
  <2>2. \A i \in InviteId : Waiting(db[i]) => db[i].invitee \in UserId
    BY ParentsAre, RowsTypedIs DEF Typing, Waiting
  <2>3. ASSUME NEW g \in UserId, IsGhost(db'[g]), Exists(db'[db'[g].email[1]])
        PROVE  \E i \in InviteId :
                  /\ Exists(db'[i]) /\ db'[i].invitee = g /\ db'[i].inviter = db'[g].email[1]
                  /\ Waiting(db'[i]) \/ i \in byHand
    <3>1. IsGhost(db[g]) /\ db[g].email = db'[g].email /\ db[g].email[1] \in UserId
      BY <1>4, <1>6, <2>3 DEF IsGhost, GhostEmail
    <3>2. Exists(db[db[g].email[1]])
      BY <1>4, <2>3, <3>1
    <3>3. PICK i \in InviteId :
              /\ Exists(db[i]) /\ db[i].invitee = g /\ db[i].inviter = db[g].email[1]
              /\ Waiting(db[i]) \/ i \in byHand
      BY <2>1, <3>1, <3>2 DEF AwaitAnswer
    <3>4. QED
      BY <1>5, <3>1, <3>3
  <2>4. ASSUME NEW i \in InviteId \ byHand, Waiting(db'[i])
        PROVE  /\ GhostOf(db'[db'[i].invitee], db'[i].inviter) \/ db'[i].invitee \in byHand
               /\ \A j \in InviteId \ (byHand \cup {i}) :
                     Waiting(db'[j]) => db'[j].invitee # db'[i].invitee
    BY <1>5, <1>6, <2>1, <2>2, <2>4 DEF AwaitAnswer
  <2>5. QED
    BY <2>3, <2>4 DEF AwaitAnswer
<1>10. InvitersWereUsers'
  <2>1. SUFFICES ASSUME NEW g \in UserId, IsGhost(db'[g])
                 PROVE  db'[db'[g].email[1]] # Absent
    BY DEF InvitersWereUsers
  <2>2. IsGhost(db[g]) /\ db[g].email = db'[g].email /\ db[g].email[1] \in UserId
    BY <1>4, <1>6, <2>1 DEF IsGhost, GhostEmail
  <2>3. db[db[g].email[1]] # Absent
    BY <2>1, <2>2 DEF Haunted, InvitersWereUsers
  <2>4. QED
    BY <1>4, <2>2, <2>3
<1>11. Frame(r)
  BY WaitingFrames DEF UpdatesNow
<1>12. InviteLinksOK'
  BY <1>7, <1>8, LinksStayOK DEF Apart
<1>13. Wrote(r)' /\ Knowing(r)'
  BY DEF Wrote, Knowing, Apart, Accepting
<1>14. QED
  BY <1>2, <1>7, <1>9, <1>10, <1>11, <1>12, <1>13, StillHaunted

LEMMA UpdatingNowHaunted ==
    ASSUME IInv, Typing, RowsAreHeld, Haunted, NEW r \in Request, ~Throw(r),
           renewConfirmCode(r) \/ clearConfirmCode(r) \/ renewResetCode(r) \/ setPassword(r)
    PROVE  Haunted'
<1>1. codes \in Nat /\ codes + 1 \in Nat /\ HandlerOK(r)
  BY DEF Typing, Code
<1>2. \A u \in UserId : Exists(Visible(r)[u]) => Visible(r)[u] \in UserRow
  BY SeenRowsTyped
<1>3. /\ DOMAIN req = Request /\ DOMAIN req[r] = DOMAIN Idle
      /\ req' = Finished(r) => OthersWait(r) /\ req'[r].op = "none"
  BY DEF IInv, RequestsOK, RequestOK, OthersWait, Finished, Idle
<1>4. CASE renewConfirmCode(r)
  <2> DEFINE row == [Now(r) EXCEPT !.confirmCode = NewConfirmCode]
             got == [req[r].got EXCEPT !.confirmCode = NewConfirmCode]
  <2>1. req[r].op = "resendConfirmEmail"
    BY <1>4, PlacesAre DEF renewConfirmCode, ExecuteNow
  <2>2. req[r].user \in UserId
    BY <1>1, <2>1 DEF HandlerOK, LearntOK, HasUser, Named
  <2>3. UpdatesNow(r, req[r].user, row) /\ req' = ConfirmCodeSet(r) /\ NewCodes(1)
    BY <1>4, RenewConfirmCodeDoes
  <2>4. NewConfirmCode \in Code \cup {Null} /\ NewConfirmCode \notin 0..codes
    BY <1>1, NullIsNoCode DEF NewConfirmCode, Code
  <2>5. Now(r) = Visible(r)[req[r].user] /\ Now(r) \in UserRow
    BY <1>2, <2>2, <2>3 DEF UpdatesNow, Now
  <2>6. /\ row \in UserRow /\ row.email = Visible(r)[req[r].user].email
        /\ row.confirmCode \notin 0..codes
    BY <2>4, <2>5 DEF UserRow
  <2>7. GoesOn(r, got, req[r].user, req[r].invite)
    BY <2>3, ConfirmCodeGoesOn
  <2> HIDE DEF row, got
  <2>8. OthersWait(r) /\ req[r].op \in Apart /\ req'[r].op \in Apart
    BY <2>1, <2>7 DEF GoesOn, Apart
  <2>9. codes' \in Nat /\ codes <= codes' /\ UNCHANGED <<links, byHand>>
    BY <1>1, <2>3 DEF NewCodes, ghostVars
  <2>10. QED
    BY <2>2, <2>3, <2>6, <2>8, <2>9, UpdateNowHaunted
<1>5. CASE clearConfirmCode(r)
  <2> DEFINE row == [Now(r) EXCEPT !.confirmCode = Null]
  <2>1. req[r].op = "confirmEmail"
    BY <1>5, PlacesAre DEF clearConfirmCode, ExecuteNow
  <2>2. req[r].user \in UserId
    BY <1>1, <2>1 DEF HandlerOK, LearntOK, HasUser, Named
  <2>3. /\ UpdatesNow(r, req[r].user, row) /\ req' = Finished(r) /\ UNCHANGED <<links, codes, byHand>>
    BY <1>5, ClearConfirmCodeDoes DEF Take
  <2>4. Now(r) = Visible(r)[req[r].user] /\ Now(r) \in UserRow
    BY <1>2, <2>2, <2>3 DEF UpdatesNow, Now
  <2>5. row \in UserRow /\ row.email = Visible(r)[req[r].user].email /\ row.confirmCode = Null
    BY <2>4 DEF UserRow
  <2>6. Null \notin 0..codes
    BY <1>1, NullIsNoCode DEF Code
  <2> HIDE DEF row
  <2>7. OthersWait(r) /\ req[r].op \in Apart /\ req'[r].op \in Apart
    BY <1>3, <2>1, <2>3 DEF Apart
  <2>8. QED
    BY <1>1, <2>2, <2>3, <2>5, <2>6, <2>7, UpdateNowHaunted
<1>6. CASE renewResetCode(r)
  <2> DEFINE row == [Now(r) EXCEPT !.resetCode = codes + 1]
  <2>1. req[r].op = "forgotPassword" /\ req[r].pc = 2
    BY <1>6, PlacesAre DEF renewResetCode, ExecuteNow
  <2>2. req[r].user \in UserId
    BY <1>1, <2>1 DEF HandlerOK, LearntOK, HasUser, Looking
  <2>3. UpdatesNow(r, req[r].user, row) /\ req' = Knows(r, row) /\ NewCodes(1)
    BY <1>6, RenewResetCodeDoes
  <2>4. Now(r) = Visible(r)[req[r].user] /\ Now(r) \in UserRow
    BY <1>2, <2>2, <2>3 DEF UpdatesNow, Now
  <2>5. /\ row \in UserRow /\ row.email = Visible(r)[req[r].user].email
        /\ row.confirmCode = Visible(r)[req[r].user].confirmCode
    BY <1>1, <2>4 DEF UserRow, Code
  <2>6. GoesOn(r, row, req[r].user, req[r].invite)
    BY <2>3, KnowsGoesOn
  <2> HIDE DEF row
  <2>7. OthersWait(r) /\ req[r].op \in Apart /\ req'[r].op \in Apart
    BY <2>1, <2>6 DEF GoesOn, Apart
  <2>8. codes' \in Nat /\ codes <= codes' /\ UNCHANGED <<links, byHand>>
    BY <1>1, <2>3 DEF NewCodes, ghostVars
  <2>9. QED
    BY <2>2, <2>3, <2>5, <2>7, <2>8, UpdateNowHaunted
<1>7. CASE setPassword(r)
  <2> DEFINE row == [Now(r) EXCEPT !.password = req[r].arg.password, !.resetCode = Null]
  <2>1. req[r].op = "resetPassword"
    BY <1>7, PlacesAre DEF setPassword, ExecuteNow
  <2>2. req[r].user \in UserId /\ req[r].arg.password \in Password
    BY <1>1, <2>1 DEF HandlerOK, ArgumentOK, LearntOK, HasUser, Named
  <2>3. UpdatesNow(r, req[r].user, row) /\ req' = Finished(r) /\ UNCHANGED <<links, codes, byHand>>
    BY <1>7, SetPasswordDoes DEF Take
  <2>4. Now(r) = Visible(r)[req[r].user] /\ Now(r) \in UserRow
    BY <1>2, <2>2, <2>3 DEF UpdatesNow, Now
  <2>5. /\ row \in UserRow /\ row.email = Visible(r)[req[r].user].email
        /\ row.confirmCode = Visible(r)[req[r].user].confirmCode
    BY <2>2, <2>4 DEF UserRow
  <2> HIDE DEF row
  <2>6. OthersWait(r) /\ req[r].op \in Apart /\ req'[r].op \in Apart
    BY <1>3, <2>1, <2>3 DEF Apart
  <2>7. QED
    BY <1>1, <2>2, <2>3, <2>5, <2>6, UpdateNowHaunted
<1>8. QED
  BY <1>4, <1>5, <1>6, <1>7

-------------------------------------------------------------------------------
(* Inserts and updates of invites.                                           *)

\* A write inside a transaction.
LEMMA WriteHaunted ==
    ASSUME IInv, Typing, Haunted, NEW r \in Request, OthersWait(r),
           UNCHANGED <<db, links, byHand>>, Families', Frame(r), CodesGo, codes' \in Nat, codes <= codes',
           req[r].op = "createInviteByEmail" => req[r].pc # 6, Wrote(r)', Knowing(r)'
    PROVE  Haunted'
<1>1. InviteLinksOK'
  BY SameDbGrows, LinksStayOK
<1>2. QED
  BY <1>1, UncommittedHaunted

LEMMA InsertDoes ==
    ASSUME Typing, RowsAreHeld, Haunted, NEW r \in Request, NEW k \in UserId \cup InviteId, NEW row,
           RowTyped(k, row), Exists(row), NEW rows, rows = One(k, row),
           holder[k] = NoRequest, draft[k] = Absent,
           WaitsFor(r, rows) = {}, Legal(r, rows), Put(r, rows)
    PROVE  /\ UNCHANGED db /\ Families' /\ Frame(r)
           /\ db[k] = Absent /\ draft'[k] = row /\ holder'[k] = r
           /\ \A c \in Key \ {k} : draft'[c] = draft[c] /\ holder'[c] = holder[c]
<1> USE AccountKeys
<1>1. k \in Key /\ DOMAIN rows = {k} /\ rows[k] = row
  BY DEF One
<1>2. \A c \in DOMAIN rows :
          /\ Exists(rows[c]) /\ RowTyped(c, rows[c])
          /\ c \in UserId \cup InviteId => draft[c] # Gone
  BY <1>1, MissingRowsAreNoRows
<1>3. Families'
  BY <1>1, <1>2, PutKeepsFamilies DEF Haunted
<1>6. UNCHANGED db /\ db[k] = Absent
  BY <1>1 DEF Put, RowsAreHeld, FreeRowsAreCommitted
<1>7. Frame(r)
  BY <1>1, WaitingFrames
<1>8. draft'[k] = row /\ holder'[k] = r
  BY <1>1, PutRow
<1>9. \A c \in Key \ {k} : draft'[c] = draft[c] /\ holder'[c] = holder[c]
  BY <1>1, PutRow
<1>10. QED
  BY <1>3, <1>6, <1>7, <1>8, <1>9

LEMMA InsertUserHaunted ==
    ASSUME IInv, Typing, RowsAreHeld, Haunted, NEW r \in Request, insertUser(r), ~Throw(r)
    PROVE  Haunted'
<1> DEFINE u == NextId(UserId)
           row == [email |-> Lower[req[r].arg.email], password |-> req[r].arg.password,
                   confirmCode |-> Null, resetCode |-> Null, banned |-> FALSE]
           rows == One(u, row)
<1>1. req[r].op = "createUser" /\ req[r].pc = 2
  BY PlacesAre DEF insertUser, InsertUser, Execute
<1>2. Lower[req[r].arg.email] \in Address /\ req[r].arg.password \in Password
  BY <1>1, Addresses DEF Typing, HandlerOK, ArgumentOK
<1>3. row \in UserRow /\ row.email \in Address /\ row.confirmCode = Null
  BY <1>2 DEF UserRow
<1>4. /\ Unused(UserId) # {} /\ Legal(r, rows) /\ WaitsFor(r, rows) = {} /\ Put(r, rows)
      /\ req' = [Knows(r, row) EXCEPT ![r].user = u] /\ Stay
  BY InsertUserDoes
<1>5. u \in UserId /\ u \in Unused(UserId)
  BY <1>4, FreshIds
<1>6. rows = One(u, row)
  OBVIOUS
<1> HIDE DEF u, row, rows
<1>7. Exists(row) /\ IsUser(row) /\ row.confirmCode \notin 0..codes
  BY <1>3, MissingRowsAreNoRows, NullIsNoCode DEF Exists, IsUser, Typing, Code
<1>8. RowTyped(u, row)
  BY <1>3, <1>5, AccountKeys DEF RowTyped
<1>9. holder[u] = NoRequest /\ draft[u] = Absent
  BY <1>5 DEF Unused
<1>10. /\ UNCHANGED db /\ Families' /\ Frame(r)
       /\ db[u] = Absent /\ draft'[u] = row /\ holder'[u] = r
       /\ \A c \in Key \ {u} : draft'[c] = draft[c] /\ holder'[c] = holder[c]
  BY <1>4, <1>5, <1>6, <1>7, <1>8, <1>9, InsertDoes
<1>11. GoesOn(r, row, u, req[r].invite)
  BY <1>4, KnowsGoesOn
<1>12. /\ OthersWait(r) /\ req'[r].op = "createUser" /\ req'[r].pc = 3 /\ req'[r].user = u
  BY <1>1, <1>11 DEF GoesOn
<1>13. UNCHANGED <<codes, links, byHand>> /\ codes \in Nat
  BY <1>4 DEF Stay, ghostVars, Typing, Code
<1>14. CodesGo
  BY <1>7, <1>10, AccountKeys DEF CodesGo
<1>15. WroteUser(r)
  BY <1>1 DEF Haunted, Wrote
<1>16. WroteUser(r)'
  BY <1>1, <1>5, <1>7, <1>10, <1>12, <1>15 DEF WroteUser
<1>17. Wrote(r)' /\ Knowing(r)'
  BY <1>12, <1>16 DEF Wrote, Knowing, Accepting
<1>18. QED
  BY <1>1, <1>10, <1>12, <1>13, <1>14, <1>17, WriteHaunted

LEMMA InsertGhostHaunted ==
    ASSUME IInv, Typing, RowsAreHeld, Haunted, NEW r \in Request, insertGhost(r), ~Throw(r)
    PROVE  Haunted'
<1> DEFINE g == NextId(UserId)
           row == [email |-> <<req[r].user, req[r].arg>>, password |-> Random,
                   confirmCode |-> codes + 1, resetCode |-> codes + 2, banned |-> FALSE]
           rows == One(g, row)
           got == [inviter |-> req[r].user, invitee |-> g, row |-> row]
<1>1. req[r].op = "createInviteByEmail" /\ req[r].pc = 3
  BY PlacesAre DEF insertGhost, Execute
<1>2. <<req[r].user, req[r].arg>> \in GhostEmail /\ req[r].user \in UserId /\ codes \in Nat
  BY <1>1 DEF Typing, HandlerOK, ArgumentOK, LearntOK, HasUser, Named, GhostEmail, Code
<1>3. row \in UserRow /\ row.email = <<req[r].user, req[r].arg>> /\ row.confirmCode = codes + 1
  BY <1>2 DEF UserRow, Code
<1>4. /\ Unused(UserId) # {} /\ Legal(r, rows) /\ WaitsFor(r, rows) = {} /\ Put(r, rows)
      /\ req' = Knows(r, got) /\ NewCodes(2)
  BY InsertGhostDoes
<1>5. g \in UserId /\ g \in Unused(UserId)
  BY <1>4, FreshIds
<1>6. rows = One(g, row) /\ got.invitee = g /\ got.row = row
  OBVIOUS
<1> HIDE DEF g, row, rows, got
<1>7. Exists(row)
  BY <1>3, MissingRowsAreNoRows DEF Exists
<1>8. RowTyped(g, row)
  BY <1>3, <1>5, AccountKeys DEF RowTyped
<1>9. holder[g] = NoRequest /\ draft[g] = Absent
  BY <1>5 DEF Unused
<1>10. /\ UNCHANGED db /\ Families' /\ Frame(r)
       /\ db[g] = Absent /\ draft'[g] = row /\ holder'[g] = r
       /\ \A c \in Key \ {g} : draft'[c] = draft[c] /\ holder'[c] = holder[c]
  BY <1>4, <1>5, <1>6, <1>7, <1>8, <1>9, InsertDoes
<1>11. GoesOn(r, got, req[r].user, req[r].invite)
  BY <1>4, KnowsGoesOn
<1>12. /\ OthersWait(r) /\ req'[r].op = "createInviteByEmail" /\ req'[r].pc = 4
       /\ req'[r].user = req[r].user /\ req'[r].arg = req[r].arg /\ req'[r].got = got
  BY <1>1, <1>11 DEF GoesOn
<1>13. UNCHANGED <<links, byHand>> /\ codes' = codes + 2 /\ codes' \in Nat /\ codes <= codes'
  BY <1>2, <1>4 DEF NewCodes, ghostVars
<1>14. row.confirmCode \notin 0..codes /\ row.confirmCode \in 0..codes'
  BY <1>2, <1>3, <1>13
<1>15. CodesGo
  BY <1>10, <1>14, AccountKeys DEF CodesGo
<1>16. WroteInvite(r) /\ Knowing(r)
  BY <1>1 DEF Haunted, Wrote
<1>17. \A k \in Key : holder[k] # r
  BY <1>1, <1>16 DEF WroteInvite
<1>18. WroteInvite(r)'
  BY <1>3, <1>5, <1>6, <1>7, <1>10, <1>12, <1>17, AccountKeys DEF WroteInvite
<1>19. Wrote(r)'
  BY <1>12, <1>18 DEF Wrote
<1>20. Knowing(r)'
  BY <1>1, <1>6, <1>10, <1>12, <1>14, <1>16 DEF Knowing, Accepting
<1>21. QED
  BY <1>1, <1>10, <1>12, <1>13, <1>15, <1>19, <1>20, WriteHaunted

LEMMA InsertInviteHaunted ==
    ASSUME IInv, Typing, RowsAreHeld, Haunted, NEW r \in Request, insertInvite(r), ~Throw(r)
    PROVE  Haunted'
<1> DEFINE i == NextId(InviteId)
           row == [inviter |-> req[r].got.inviter, invitee |-> req[r].got.invitee,
                   status |-> "PENDING"]
           rows == One(i, row)
           g == req[r].got.invitee
<1>1. \/ req[r].op = "createInviteByEmail" /\ req[r].pc = 4
      \/ req[r].op = "createInvite" /\ req[r].pc = 2
  BY PlacesAre DEF insertInvite, Execute
<1>2. /\ g \in UserId /\ req[r].got.inviter \in UserId
      /\ req[r].op = "createInviteByEmail" => req[r].got.inviter = req[r].user
  BY <1>1 DEF Typing, HandlerOK, LearntOK, HasUser, Named
<1>3. row \in InviteRow /\ row = [inviter |-> req[r].got.inviter, invitee |-> g,
                                  status |-> "PENDING"]
  BY <1>2 DEF InviteRow
<1>4. /\ Unused(InviteId) # {} /\ Legal(r, rows) /\ WaitsFor(r, rows) = {} /\ Put(r, rows)
      /\ req' = [Goes(r) EXCEPT ![r].invite = i] /\ Stay
  BY InsertInviteDoes
<1>5. i \in InviteId /\ i \in Unused(InviteId)
  BY <1>4, FreshIds
<1>6. rows = One(i, row)
  OBVIOUS
<1> HIDE DEF i, row, rows, g
<1>7. Exists(row)
  BY <1>3, MissingRowsAreNoRows DEF Exists
<1>8. RowTyped(i, row)
  BY <1>3, <1>5, AccountKeys DEF RowTyped
<1>9. holder[i] = NoRequest /\ draft[i] = Absent
  BY <1>5 DEF Unused
<1>10. /\ UNCHANGED db /\ Families' /\ Frame(r)
       /\ db[i] = Absent /\ draft'[i] = row /\ holder'[i] = r
       /\ \A c \in Key \ {i} : draft'[c] = draft[c] /\ holder'[c] = holder[c]
  BY <1>4, <1>5, <1>6, <1>7, <1>8, <1>9, InsertDoes
<1>11. GoesOn(r, req[r].got, req[r].user, i)
  BY <1>4, KnowsGoesOn DEF Goes
<1>12. /\ OthersWait(r) /\ req'[r].op = req[r].op /\ req'[r].pc = req[r].pc + 1
       /\ req'[r].user = req[r].user /\ req'[r].arg = req[r].arg /\ req'[r].got = req[r].got
       /\ req'[r].invite = i
  BY <1>11 DEF GoesOn
<1>13. UNCHANGED <<codes, links, byHand>> /\ codes \in Nat
  BY <1>4 DEF Stay, ghostVars, Typing, Code
<1>14. \A u \in UserId : db'[u] = db[u] /\ draft'[u] = draft[u]
  BY <1>5, <1>10, AccountKeys
<1>15. CodesGo
  BY <1>14 DEF CodesGo
<1>16. Wrote(r) /\ Knowing(r) /\ i \in Key
  BY <1>5, AccountKeys DEF Haunted
<1>17. CASE req[r].op = "createInviteByEmail"
  <2>1. /\ \A k \in Key : holder[k] = r => k = g
        /\ holder[g] = r /\ db[g] = Absent
        /\ Exists(draft[g]) /\ draft[g].email = <<req[r].user, req[r].arg>>
    BY <1>1, <1>16, <1>17 DEF Wrote, WroteInvite, g
  <2>2. g \in Key /\ g # i /\ g = req[r].got.invitee
    BY <1>2, <1>5, AccountKeys DEF g
  <2>3. req'[r].pc = 5
    BY <1>1, <1>12, <1>17
  <2>4. WroteInvite(r)'
    BY <1>2, <1>3, <1>10, <1>12, <1>16, <1>17, <2>1, <2>2, <2>3 DEF WroteInvite
  <2>5. Wrote(r)'
    BY <1>12, <1>17, <2>4 DEF Wrote
  <2>6. Knowing(r)'
    BY <1>1, <1>10, <1>12, <1>13, <1>16, <1>17 DEF Knowing, Accepting
  <2>7. QED
    BY <1>1, <1>10, <1>12, <1>13, <1>15, <1>17, <2>5, <2>6, WriteHaunted
<1>18. CASE req[r].op = "createInvite"
  <2>1. \A k \in Key : holder[k] # r
    BY <1>1, <1>16, <1>18 DEF Wrote, WroteOpen
  <2>2. req'[r].pc = 3
    BY <1>1, <1>12, <1>18
  <2>3. WroteOpen(r)'
    BY <1>10, <1>12, <1>16, <2>1, <2>2 DEF WroteOpen
  <2>4. Wrote(r)' /\ Knowing(r)'
    BY <1>12, <1>18, <2>3 DEF Wrote, Knowing, Accepting
  <2>5. QED
    BY <1>10, <1>12, <1>13, <1>15, <1>18, <2>4, WriteHaunted
<1>19. QED
  BY <1>1, <1>17, <1>18

\* Both users of an invite accept it.
LEMMA SetInviteHaunted ==
    ASSUME IInv, Typing, RowsAreHeld, Haunted, NEW r \in Request,
           redirectInvite(r) \/ setInviteAccepted(r), ~Throw(r)
    PROVE  Haunted'
<1> USE AccountKeys
<1> DEFINE i == req[r].invite
           g == req[r].user
<1>1. \/ redirectInvite(r) /\ req[r].op = "acceptByRealUser" /\ req[r].pc = 2
      \/ setInviteAccepted(r) /\ req[r].op = "acceptByGhost" /\ req[r].pc = 2
  BY PlacesAre DEF redirectInvite, setInviteAccepted, SetInvite, Execute
<1>2. i \in InviteId /\ g \in UserId /\ req[r].got.invitee \in UserId
  BY <1>1 DEF Typing, HandlerOK, ArgumentOK, LearntOK, HasUser, Named, Answering, Accepting
<1>3. PICK statement, row :
        /\ SetInvite(r, statement, row)
        /\ redirectInvite(r) /\ req[r].op = "acceptByRealUser" =>
              row = [InviteNow(r) EXCEPT !.invitee = req[r].got.invitee, !.status = "ACCEPTED"]
        /\ setInviteAccepted(r) /\ req[r].op = "acceptByGhost" =>
              row = [InviteNow(r) EXCEPT !.status = "ACCEPTED"]
  BY <1>1 DEF redirectInvite, setInviteAccepted
<1>4. /\ Exists(InviteNow(r)) /\ req' = Goes(r) /\ Stay
      /\ \E rows : /\ DOMAIN rows = {i} /\ rows[i] = row
                   /\ WaitsFor(r, rows) = {} /\ Legal(r, rows) /\ Put(r, rows)
  BY <1>3, SetInviteDoes
<1>5. PICK rows : /\ DOMAIN rows = {i} /\ rows[i] = row
                  /\ WaitsFor(r, rows) = {} /\ Legal(r, rows) /\ Put(r, rows)
  BY <1>4
<1>6. Wrote(r) /\ Knowing(r)
  BY DEF Haunted
<1>7. holder[i] # r
  BY <1>1, <1>2, <1>6 DEF Wrote, WroteAsUser, WroteAsGhost
<1>8. InviteNow(r) = db[i] /\ Exists(db[i]) /\ db[i] \in InviteRow
  BY <1>2, <1>4, <1>7, ReadsRow, RowsTypedIs DEF InviteNow, Typing, RowTyped
<1>9. /\ row \in InviteRow
      /\ req[r].op = "acceptByRealUser" =>
            row = [db[i] EXCEPT !.invitee = req[r].got.invitee, !.status = "ACCEPTED"]
      /\ req[r].op = "acceptByGhost" => row = [db[i] EXCEPT !.status = "ACCEPTED"]
  BY <1>1, <1>2, <1>3, <1>8 DEF InviteRow
<1>10. Exists(row) /\ RowTyped(i, row)
  BY <1>2, <1>9, MissingRowsAreNoRows DEF Exists, RowTyped
<1>11. draft[i] # Gone
  <2>1. Free(r, i)
    BY <1>5, WaitedFor
  <2>2. draft[i] = Visible(r)[i]
    BY <1>2, <2>1, FreeRowIsNewest DEF RowsAreHeld
  <2>3. QED
    BY <1>4, <2>2 DEF InviteNow, Exists
<1>12. \A k \in DOMAIN rows :
          /\ Exists(rows[k]) /\ RowTyped(k, rows[k])
          /\ k \in UserId \cup InviteId => draft[k] # Gone
  BY <1>5, <1>10, <1>11
<1>13. Families'
  BY <1>2, <1>5, <1>12, PutKeepsFamilies DEF Haunted
<1>16. Frame(r) /\ UNCHANGED db
  BY <1>5, WaitingFrames DEF Put
<1>17. /\ draft'[i] = row /\ holder'[i] = r
       /\ \A k \in Key \ {i} : draft'[k] = draft[k] /\ holder'[k] = holder[k]
  BY <1>2, <1>5, PutRow
<1>18. GoesOn(r, req[r].got, g, i)
  BY <1>4, KnowsGoesOn DEF Goes
<1>19. /\ OthersWait(r) /\ req'[r].op = req[r].op /\ req'[r].pc = 3 /\ req'[r].user = g
       /\ req'[r].invite = i /\ req'[r].got = req[r].got
  BY <1>1, <1>18 DEF GoesOn
<1>20. UNCHANGED <<codes, links, byHand>> /\ codes \in Nat
  BY <1>4 DEF Stay, ghostVars, Typing, Code
<1>21. \A u \in UserId : db'[u] = db[u] /\ draft'[u] = draft[u]
  BY <1>2, <1>16, <1>17
<1>22. CodesGo
  BY <1>21 DEF CodesGo
<1>23. Knowing(r)'
  BY <1>1, <1>6, <1>16, <1>19, <1>20 DEF Knowing, Claimed, Sole, Accepting
<1>24. CASE req[r].op = "acceptByRealUser"
  <2>1. WroteAsUser(r)
    BY <1>6, <1>24 DEF Wrote
  <2>2. \A k \in Key : holder[k] # r
    BY <1>1, <1>24, <2>1 DEF WroteAsUser
  <2>3. \A k \in Key : holder'[k] = r => k = i
    BY <1>17, <2>2
  <2>4. WroteAsUser(r)'
    <3>1. /\ holder'[i] = r /\ Exists(db'[i]) /\ Exists(draft'[i])
          /\ draft'[i] = [db'[i] EXCEPT !.invitee = req'[r].got.invitee, !.status = "ACCEPTED"]
      BY <1>8, <1>9, <1>10, <1>16, <1>17, <1>19, <1>24
    <3>2. i = req'[r].invite /\ req'[r].pc = 3
      BY <1>19
    <3> HIDE DEF i
    <3>3. QED
      BY <2>3, <3>1, <3>2 DEF WroteAsUser
  <2>5. Wrote(r)'
    BY <1>19, <1>24, <2>4 DEF Wrote
  <2>6. QED
    BY <1>13, <1>16, <1>19, <1>20, <1>22, <1>23, <1>24, <2>5, WriteHaunted
<1>25. CASE req[r].op = "acceptByGhost"
  <2>1. WroteAsGhost(r)
    BY <1>6, <1>25 DEF Wrote
  <2>2. /\ \A k \in Key : holder[k] = r => k = g
        /\ holder[g] = r /\ Exists(db[g]) /\ IsUser(draft[g])
    BY <1>1, <1>25, <2>1 DEF WroteAsGhost
  <2>3. g # i /\ g \in Key
    BY <1>2
  <2>4. /\ \A k \in Key : holder'[k] = r => k = g \/ k = i
        /\ holder'[g] = r /\ draft'[g] = draft[g]
    BY <1>17, <2>2, <2>3
  <2>5. WroteAsGhost(r)'
    BY <1>2, <1>8, <1>9, <1>10, <1>16, <1>17, <1>19, <1>25, <2>2, <2>4 DEF WroteAsGhost, IsUser
  <2>6. Wrote(r)'
    BY <1>19, <1>25, <2>5 DEF Wrote
  <2>7. QED
    BY <1>13, <1>16, <1>19, <1>20, <1>22, <1>23, <1>25, <2>6, WriteHaunted
<1>26. QED
  BY <1>1, <1>24, <1>25

\* Somebody answers an invite by id.
LEMMA AnswerInviteHaunted ==
    ASSUME IInv, Typing, RowsAreHeld, Haunted, NEW r \in Request, answerInvite(r), ~Throw(r)
    PROVE  Haunted'
<1> USE AccountKeys
<1> DEFINE i == req[r].invite
           answer == IF req[r].op = "acceptInvite" THEN "ACCEPTED" ELSE "REJECTED"
           row == [InviteNow(r) EXCEPT !.status = answer]
<1>1. req[r].op \in {"acceptInvite", "rejectInvite"} /\ req[r].pc = 2
  BY PlacesAre DEF answerInvite, Execute
<1>2. i \in InviteId
  BY <1>1 DEF Typing, HandlerOK, ArgumentOK
<1>3. /\ Exists(InviteNow(r)) /\ req' = Knows(r, row) /\ Stay
      /\ \E rows : /\ DOMAIN rows = {i} /\ rows[i] = row
                   /\ WaitsFor(r, rows) = {} /\ Legal(r, rows) /\ Put(r, rows)
  BY AnswerInviteDoes
<1>4. PICK rows : /\ DOMAIN rows = {i} /\ rows[i] = row
                  /\ WaitsFor(r, rows) = {} /\ Legal(r, rows) /\ Put(r, rows)
  BY <1>3
<1>5. \A k \in Key : holder[k] # r
  BY <1>1 DEF Haunted, Wrote, WroteAnswer
<1>6. InviteNow(r) = db[i] /\ Exists(db[i]) /\ db[i] \in InviteRow
  BY <1>2, <1>3, <1>5, ReadsRow, RowsTypedIs DEF InviteNow, Typing, RowTyped
<1>7. answer \in {"ACCEPTED", "REJECTED"}
  OBVIOUS
<1> HIDE DEF answer
<1>8. /\ row \in InviteRow /\ row.inviter = db[i].inviter /\ row.invitee = db[i].invitee
      /\ row.status # "PENDING"
  BY <1>6, <1>7 DEF InviteRow
<1> HIDE DEF row
<1>9. Exists(row) /\ RowTyped(i, row)
  BY <1>2, <1>8, MissingRowsAreNoRows DEF Exists, RowTyped
<1>10. draft[i] # Gone
  <2>1. Free(r, i)
    BY <1>4, WaitedFor
  <2>2. draft[i] = Visible(r)[i]
    BY <1>2, <2>1, FreeRowIsNewest DEF RowsAreHeld
  <2>3. QED
    BY <1>3, <2>2 DEF InviteNow, Exists
<1>11. \A k \in DOMAIN rows :
          /\ Exists(rows[k]) /\ RowTyped(k, rows[k])
          /\ k \in UserId \cup InviteId => draft[k] # Gone
  BY <1>4, <1>9, <1>10
<1>12. Families'
  BY <1>2, <1>4, <1>11, PutKeepsFamilies DEF Haunted
<1>13. Frame(r) /\ UNCHANGED db
  BY <1>4, WaitingFrames DEF Put
<1>14. /\ draft'[i] = row /\ holder'[i] = r
       /\ \A k \in Key \ {i} : draft'[k] = draft[k] /\ holder'[k] = holder[k]
  BY <1>2, <1>4, PutRow
<1>15. GoesOn(r, row, req[r].user, i)
  BY <1>3, KnowsGoesOn
<1>16. /\ OthersWait(r) /\ req'[r].op = req[r].op /\ req'[r].pc = 3 /\ req'[r].invite = i
  BY <1>1, <1>15 DEF GoesOn
<1>17. UNCHANGED <<codes, links, byHand>> /\ codes \in Nat
  BY <1>3 DEF Stay, ghostVars, Typing, Code
<1>18. \A u \in UserId : db'[u] = db[u] /\ draft'[u] = draft[u]
  BY <1>2, <1>13, <1>14
<1>19. CodesGo
  BY <1>18 DEF CodesGo
<1>20. WroteAnswer(r)'
  BY <1>2, <1>5, <1>6, <1>8, <1>13, <1>14, <1>16 DEF WroteAnswer
<1>21. Wrote(r)' /\ Knowing(r)'
  BY <1>1, <1>16, <1>20 DEF Wrote, Knowing, Accepting
<1>22. QED
  BY <1>1, <1>12, <1>13, <1>16, <1>17, <1>19, <1>21, WriteHaunted

LEMMA InsertContactsHaunted ==
    ASSUME IInv, Typing, RowsAreHeld, Haunted, NEW r \in Request, insertContacts(r), ~Throw(r)
    PROVE  Haunted'
<1> USE AccountKeys
<1> DEFINE i == req[r].invite
           g == req[r].user
           pair == {<<req[r].got.inviter, req[r].got.invitee>>,
                    <<req[r].got.invitee, req[r].got.inviter>>}
           rows == ContactsBetween(req[r].got.inviter, req[r].got.invitee, i)
<1>1. req[r].op \in Accepting \cup {"acceptInvite"} /\ req[r].pc = 3
  BY PlacesAre DEF insertContacts, Execute, Accepting
<1>2. /\ i \in InviteId /\ (req[r].op \in Accepting => g \in UserId)
      /\ req[r].got.inviter \in UserId /\ req[r].got.invitee \in UserId
  BY <1>1 DEF Typing, HandlerOK, ArgumentOK, LearntOK, HasUser, Named, Answering, Accepting,
     InviteRow
<1>3. /\ WaitsFor(r, rows) = {} /\ Legal(r, rows) /\ Put(r, rows) /\ req' = Goes(r) /\ Stay
  BY InsertContactsDoes
<1>4. /\ DOMAIN rows = pair /\ \A k \in pair : rows[k] = [invite |-> i]
  BY DEF ContactsBetween
<1>5. pair \subseteq ContactKey
  BY <1>2 DEF ContactKey
<1>6. [invite |-> i] \in ContactRow
  BY <1>2 DEF ContactRow
<1> HIDE DEF rows, pair
<1>7. \A k \in DOMAIN rows :
          /\ Exists(rows[k]) /\ RowTyped(k, rows[k])
          /\ k \in UserId \cup InviteId => draft[k] # Gone
  BY <1>4, <1>5, <1>6, MissingRowsAreNoRows DEF Exists, RowTyped
<1>8. Families'
  BY <1>3, <1>4, <1>5, <1>7, PutKeepsFamilies DEF Haunted
<1>9. Frame(r) /\ UNCHANGED db
  BY <1>3, WaitingFrames DEF Put
<1>10. /\ \A k \in Key : holder'[k] = r => k \in ContactKey \/ holder[k] = r
       /\ \A k \in Key \ ContactKey : draft'[k] = draft[k] /\ holder'[k] = holder[k]
  <2>1. /\ \A k \in pair : holder'[k] = r
        /\ \A k \in Key \ pair : draft'[k] = draft[k] /\ holder'[k] = holder[k]
    BY <1>3, <1>4, <1>5, PutRow
  <2>2. QED
    BY <1>5, <2>1
<1>11. GoesOn(r, req[r].got, g, i)
  BY <1>3, KnowsGoesOn DEF Goes
<1>12. /\ OthersWait(r) /\ req'[r].op = req[r].op /\ req'[r].pc = 4 /\ req'[r].user = g
       /\ req'[r].invite = i /\ req'[r].got = req[r].got
  BY <1>1, <1>11 DEF GoesOn
<1>13. UNCHANGED <<codes, links, byHand>> /\ codes \in Nat
  BY <1>3 DEF Stay, ghostVars, Typing, Code
<1>14. \A u \in UserId : db'[u] = db[u] /\ draft'[u] = draft[u]
  BY <1>9, <1>10
<1>15. CodesGo
  BY <1>14 DEF CodesGo
<1>16. Wrote(r) /\ Knowing(r)
  BY DEF Haunted
<1>17. Knowing(r)'
  BY <1>1, <1>9, <1>12, <1>13, <1>16 DEF Knowing, Claimed, Sole, Accepting
<1>18. /\ i \in Key \ ContactKey /\ draft'[i] = draft[i] /\ holder'[i] = holder[i]
       /\ db'[i] = db[i]
       /\ req[r].op \in Accepting => g \in Key /\ draft'[g] = draft[g] /\ holder'[g] = holder[g]
                                       /\ db'[g] = db[g]
  BY <1>2, <1>9, <1>10
<1>19. CASE req[r].op = "acceptByRealUser"
  <2>1. WroteAsUser(r)
    BY <1>16, <1>19 DEF Wrote
  <2>2. /\ \A k \in Key \ ContactKey : holder[k] = r /\ Exists(draft[k]) => k = i
        /\ holder[i] = r /\ Exists(db[i]) /\ Exists(draft[i])
        /\ draft[i] = [db[i] EXCEPT !.invitee = req[r].got.invitee, !.status = "ACCEPTED"]
    BY <1>1, <1>19, <2>1 DEF WroteAsUser
  <2>3. \A k \in Key : holder'[k] = r /\ Exists(draft'[k]) => k = i \/ k \in ContactKey
    BY <1>10, <2>2
  <2>4. WroteAsUser(r)'
    BY <1>12, <1>18, <2>2, <2>3 DEF WroteAsUser
  <2>5. Wrote(r)'
    BY <1>12, <1>19, <2>4 DEF Wrote
  <2>6. QED
    BY <1>8, <1>9, <1>12, <1>13, <1>15, <1>17, <1>19, <2>5, WriteHaunted
<1>20. CASE req[r].op = "acceptByGhost"
  <2>1. WroteAsGhost(r)
    BY <1>16, <1>20 DEF Wrote
  <2>2. /\ \A k \in Key : holder[k] = r => k = g \/ k = i
        /\ holder[g] = r /\ Exists(db[g]) /\ IsUser(draft[g])
        /\ holder[i] = r /\ Exists(db[i]) /\ draft[i] = [db[i] EXCEPT !.status = "ACCEPTED"]
    BY <1>1, <1>20, <2>1 DEF WroteAsGhost
  <2>3. \A k \in Key : holder'[k] = r => k = g \/ k = i \/ k \in ContactKey
    BY <1>10, <2>2
  <2>4. WroteAsGhost(r)'
    BY <1>12, <1>18, <1>20, <2>2, <2>3 DEF WroteAsGhost, Accepting
  <2>5. Wrote(r)'
    BY <1>12, <1>20, <2>4 DEF Wrote
  <2>6. QED
    BY <1>8, <1>9, <1>12, <1>13, <1>15, <1>17, <1>20, <2>5, WriteHaunted
<1>21. CASE req[r].op = "acceptInvite"
  <2>1. WroteAnswer(r)
    BY <1>16, <1>21 DEF Wrote
  <2>2. WroteAnswer(r)'
    BY <1>1, <1>10, <1>12, <1>18, <2>1 DEF WroteAnswer
  <2>3. Wrote(r)'
    BY <1>12, <1>21, <2>2 DEF Wrote
  <2>4. QED
    BY <1>8, <1>9, <1>12, <1>13, <1>15, <1>17, <1>21, <2>3, WriteHaunted
<1>22. QED
  BY <1>1, <1>19, <1>20, <1>21 DEF Accepting

-------------------------------------------------------------------------------
(* Deletions.                                                                *)

LEMMA DropDoes ==
    ASSUME Typing, RowsAreHeld, Haunted, NEW r \in Request, NEW g \in UserId, NEW rows,
           rows = Dropped(r, g), WaitsFor(r, rows) = {}, Put(r, rows),
           \A i \in InviteId : Exists(db[i]) /\ holder[i] = r /\ Exists(draft[i])
                                /\ g \in {draft[i].inviter, draft[i].invitee}
                                    => g \in {db[i].inviter, db[i].invitee}
    PROVE  /\ UNCHANGED db /\ Families' /\ Frame(r) /\ CodesGo
           /\ holder'[g] = r /\ ~Exists(draft'[g])
           /\ \A k \in Key : \/ holder'[k] = r /\ ~Exists(draft'[k])
                             \/ draft'[k] = draft[k] /\ holder'[k] = holder[k]
<1> USE AccountKeys
<1>1. /\ g \in DOMAIN rows /\ DOMAIN rows \subseteq Key
      /\ \A k \in DOMAIN rows : /\ ~Exists(rows[k])
                                /\ k \in UserId \cup InviteId => rows[k] = Gone
                                /\ k \in UserId => k = g
                                /\ k # g => Exists(Visible(r)[k])
      /\ \A k \in DOMAIN rows, c \in Key :
           Exists(Visible(r)[c]) /\ k \in Parents(c, Visible(r)[c]) => c \in DOMAIN rows
      /\ \A i \in InviteId \cap DOMAIN rows :
           g \in {Visible(r)[i].inviter, Visible(r)[i].invitee}
  BY FamilyIs
<1>2. \A i \in InviteId \cap DOMAIN rows : Exists(db[i]) =>
        \E p \in DOMAIN rows : p \in {db[i].inviter, db[i].invitee}
  <2>1. SUFFICES ASSUME NEW i \in InviteId \cap DOMAIN rows, Exists(db[i])
                 PROVE  g \in {db[i].inviter, db[i].invitee}
    BY <1>1
  <2>2. Exists(Visible(r)[i]) /\ g \in {Visible(r)[i].inviter, Visible(r)[i].invitee}
    BY <1>1
  <2>3. QED
    BY <2>1, <2>2, ReadsRow
<1>3. Families'
  BY <1>1, <1>2, DropKeepsFamilies DEF Haunted
<1>6. Frame(r) /\ UNCHANGED db
  BY WaitingFrames DEF Put
<1>7. \A k \in Key : \/ holder'[k] = r /\ ~Exists(draft'[k])
                     \/ draft'[k] = draft[k] /\ holder'[k] = holder[k]
  <2>1. ASSUME NEW k \in Key
        PROVE  \/ holder'[k] = r /\ ~Exists(draft'[k])
               \/ draft'[k] = draft[k] /\ holder'[k] = holder[k]
    BY <1>1, PutRow
  <2>2. QED
    BY <2>1
<1>8. holder'[g] = r /\ ~Exists(draft'[g])
  BY <1>1, PutRow
<1>9. CodesGo
  BY <1>6, <1>7 DEF CodesGo
<1>10. QED
  BY <1>3, <1>6, <1>7, <1>8, <1>9

LEMMA DroppingHaunted ==
    ASSUME IInv, Typing, RowsAreHeld, Haunted, NEW r \in Request, dropUser(r) \/ deleteGhost(r),
           ~Throw(r)
    PROVE  Haunted'
<1> USE AccountKeys
<1> DEFINE g == req[r].user
           i == req[r].invite
           rows == Dropped(r, g)
<1>1. \/ dropUser(r) /\ req[r].op = "deleteUser" /\ req[r].pc = 1
      \/ deleteGhost(r) /\ req[r].op = "acceptByRealUser" /\ req[r].pc = 4
      \/ deleteGhost(r) /\ req[r].op = "rejectEmailInvite" /\ req[r].pc = 3
  BY PlacesAre DEF dropUser, deleteGhost, Execute
<1>2. g \in UserId /\ (req[r].op = "acceptByRealUser" => i \in InviteId)
  BY <1>1 DEF Typing, HandlerOK, ArgumentOK, LearntOK, HasUser, Named, Answering, Accepting
<1>3. /\ WaitsFor(r, rows) = {} /\ Put(r, rows) /\ req' = Goes(r) /\ Stay
      /\ deleteGhost(r) => Exists(Now(r))
  BY DEF dropUser, deleteGhost, Execute
<1>4. rows = Dropped(r, g)
  OBVIOUS
<1> HIDE DEF rows
<1>5. GoesOn(r, req[r].got, g, i)
  BY <1>3, KnowsGoesOn DEF Goes
<1>6. /\ OthersWait(r) /\ req'[r].op = req[r].op /\ req'[r].pc = req[r].pc + 1
      /\ req'[r].user = g /\ req'[r].invite = i /\ req'[r].got = req[r].got
      /\ req'[r].seen = req[r].seen
  BY <1>5 DEF GoesOn
<1>7. UNCHANGED <<codes, links, byHand>> /\ codes \in Nat
  BY <1>3 DEF Stay, ghostVars, Typing, Code
<1>8. Wrote(r) /\ Knowing(r)
  BY DEF Haunted
<1>9. CASE req[r].op \in {"deleteUser", "rejectEmailInvite"}
  <2>1. \A k \in Key : holder[k] = r => ~Exists(draft[k])
    BY <1>8, <1>9 DEF Wrote
  <2>2. \A c \in InviteId : Exists(db[c]) /\ holder[c] = r /\ Exists(draft[c])
                              /\ g \in {draft[c].inviter, draft[c].invitee}
                                  => g \in {db[c].inviter, db[c].invitee}
    BY <2>1
  <2>3. /\ UNCHANGED db /\ Families' /\ Frame(r) /\ CodesGo
        /\ \A k \in Key : \/ holder'[k] = r /\ ~Exists(draft'[k])
                          \/ draft'[k] = draft[k] /\ holder'[k] = holder[k]
    BY <1>2, <1>3, <1>4, <2>2, DropDoes
  <2>4. Wrote(r)'
    BY <1>6, <1>9, <2>1, <2>3 DEF Wrote, Accepting
  <2>5. Knowing(r)'
    BY <1>6, <1>8, <1>9 DEF Knowing, Accepting
  <2>6. QED
    BY <1>6, <1>7, <1>9, <2>3, <2>4, <2>5, WriteHaunted
<1>10. CASE req[r].op = "acceptByRealUser"
  <2>1. WroteAsUser(r) /\ deleteGhost(r) /\ req[r].pc = 4
    BY <1>1, <1>8, <1>10 DEF Wrote
  <2>2. Claimed(g, i)
    BY <1>8, <1>10 DEF Knowing, Accepting
  <2> DEFINE accepted == [db[i] EXCEPT !.invitee = req[r].got.invitee, !.status = "ACCEPTED"]
  <2>3. i \in Key /\ i \notin ContactKey /\ g \in Key /\ g # i /\ g \notin ContactKey
    BY <1>2, <1>10
  <2>4. /\ \A k \in Key : holder[k] = r /\ Exists(draft[k]) => k = i \/ k \in ContactKey
        /\ holder[i] = r /\ Exists(db[i]) /\ (Exists(draft[i]) => draft[i] = accepted)
    BY <2>1 DEF WroteAsUser
  <2>5. holder[g] # r /\ Exists(db[g])
    <3>1. Exists(Visible(r)[g])
      BY <1>3, <2>1 DEF Now
    <3>2. QED
      BY <2>3, <2>4, <3>1, ReadsRow
  <2>6. db[i] \in InviteRow
    BY <1>2, <1>10, <2>4 DEF Typing, RowsTyped
  <2>7. Exists(draft[i]) => draft[i].inviter = db[i].inviter
    BY <2>4, <2>6 DEF InviteRow
  <2>8. db[i].invitee = g
    BY <2>2, <2>4, <2>5 DEF Claimed, Exists
  <2>9. \A c \in InviteId : Exists(db[c]) /\ holder[c] = r /\ Exists(draft[c])
                               /\ g \in {draft[c].inviter, draft[c].invitee}
                                   => g \in {db[c].inviter, db[c].invitee}
    BY <2>4, <2>8
  <2>10. /\ UNCHANGED db /\ Families' /\ Frame(r) /\ CodesGo
         /\ holder'[g] = r /\ ~Exists(draft'[g])
         /\ \A k \in Key : \/ holder'[k] = r /\ ~Exists(draft'[k])
                           \/ draft'[k] = draft[k] /\ holder'[k] = holder[k]
    BY <1>2, <1>3, <1>4, <2>9, DropDoes
  <2>11. /\ holder'[i] = r /\ Exists(db'[i]) /\ (Exists(draft'[i]) => draft'[i] = accepted)
         /\ db'[i] = db[i]
    BY <2>3, <2>4, <2>10
  <2>12. \A k \in Key : holder'[k] = r /\ Exists(draft'[k]) => k = i \/ k \in ContactKey
    BY <2>4, <2>10
  <2>13. WroteAsUser(r)'
    <3>1. req'[r].pc = 5 /\ req'[r].invite = i /\ req'[r].user = g /\ req'[r].got = req[r].got
      BY <1>6, <2>1
    <3>2. Exists(db'[g]) /\ holder'[g] = r /\ ~Exists(draft'[g])
      BY <2>5, <2>10
    <3>3. Exists(draft'[i]) =>
            draft'[i] = [db'[i] EXCEPT !.invitee = req'[r].got.invitee, !.status = "ACCEPTED"]
      BY <2>11, <3>1
    <3> HIDE DEF i, g, accepted
    <3>4. \A k \in Key : holder'[k] = r =>
            /\ req'[r].pc > 2
            /\ Exists(draft'[k]) => k = i \/ (req'[r].pc > 3 /\ k \in ContactKey)
      BY <2>12, <3>1
    <3>5. req'[r].pc > 2 /\ req'[r].pc > 4 /\ req'[r].pc \notin 3..4
      BY <3>1
    <3>6. holder'[i] = r /\ Exists(db'[i])
      BY <2>11
    <3>7. QED
      BY ONLY <3>1, <3>2, <3>3, <3>4, <3>5, <3>6, Zenon DEF WroteAsUser
  <2>14. Wrote(r)'
    BY <1>6, <1>10, <2>13 DEF Wrote
  <2>15. Knowing(r)'
    BY <1>6, <1>7, <1>8, <1>10, <2>10 DEF Knowing, Claimed, Sole, Accepting
  <2>16. QED
    BY <1>6, <1>7, <1>10, <2>10, <2>14, <2>15, WriteHaunted
<1>11. QED
  BY <1>1, <1>9, <1>10

-------------------------------------------------------------------------------
(* Commits.                                                                  *)

\* A ghost and its invite are about to be committed.
Invites(r) ==
    LET q == req[r]
        g == req[r].got.invitee
        i == req[r].invite
    IN /\ q.op = "createInviteByEmail" /\ g \in UserId /\ i \in InviteId
       /\ q.user \in UserId /\ db[q.user] # Absent /\ q.arg \in Address
       /\ holder[g] = r /\ db[g] = Absent /\ Exists(draft[g]) /\ draft[g].email = <<q.user, q.arg>>
       /\ holder[i] = r /\ db[i] = Absent /\ Exists(draft[i])
       /\ draft[i] = [inviter |-> q.user, invitee |-> g, status |-> "PENDING"]

\* The answer of ghost g, or of the user in its place.
Accepts(r) ==
    LET q == req[r]
        g == req[r].user
        i == req[r].invite
    IN /\ q.op \in Accepting /\ g \in UserId /\ i \in InviteId
       /\ holder[g] = r /\ Exists(db[g])
       /\ IF q.op = "acceptByGhost" THEN IsUser(draft[g]) /\ q.got.invitee = g
          ELSE ~Exists(draft[g])
       /\ holder[i] = r /\ Exists(db[i]) /\ db[i].invitee = g /\ Sole(g, i)
       /\ Exists(draft[i]) => draft[i].status = "ACCEPTED" /\ draft[i].invitee = q.got.invitee

\* An invite that was made or answered without a mail.
Answers(r) ==
    LET i == req[r].invite
    IN /\ i \in InviteId /\ i \in ByHand(req[r])
       /\ db[i] = Absent \/ /\ draft[i].inviter = db[i].inviter
                            /\ draft[i].invitee = db[i].invitee
                            /\ ~Waiting(draft[i])

HeldUsers(r) ==
    \A u \in UserId : holder[u] = r /\ Exists(draft[u]) =>
        \/ IsUser(draft[u]) /\ (db[u] = Absent \/ u \in ByHand(req[r]))
        \/ Exists(db[u]) /\ draft[u].email = db[u].email
        \/ Invites(r) /\ u = req[r].got.invitee
        \/ Accepts(r) /\ u = req[r].user /\ IsUser(draft[u])
HeldInvites(r) ==
    \A i \in InviteId : holder[i] = r /\ Exists(draft[i]) =>
        (Invites(r) \/ Accepts(r) \/ Answers(r)) /\ i = req[r].invite
Held(r) == HeldUsers(r) /\ HeldInvites(r)

LEMMA HeldAtCommit ==
    ASSUME IInv, Typing, RowsAreHeld, Haunted, NEW r \in Request, At(r, "commit")
    PROVE  Held(r) /\ (req[r].op = "createInviteByEmail" => Invites(r) /\ req[r].pc = 6)
<1> USE AccountKeys DEF Held
<1>1. Wrote(r) /\ Knowing(r) /\ HandlerOK(r)
  BY DEF Haunted, Typing
<1>2. CASE req[r].op \in {"createUser", "updateUser", "changeEmail", "banUser", "unbanUser"}
  <2>1. WroteUser(r)
    BY <1>1, <1>2 DEF Wrote
  <2>2. req[r].user \in UserId
    BY <1>1, <1>2, PlacesAre DEF HandlerOK, LearntOK, HasUser, Named
  <2>3. \A k \in Key : holder[k] = r =>
            /\ k = req[r].user /\ Exists(draft[k])
            /\ req[r].op = "createUser" => db[k] = Absent /\ IsUser(draft[k])
            /\ req[r].op \in {"updateUser", "changeEmail"} => Exists(db[k]) /\ IsUser(draft[k])
            /\ req[r].op \in {"banUser", "unbanUser"} =>
                    Exists(db[k]) /\ draft[k].email = db[k].email
    BY <2>1 DEF WroteUser
  <2>4. HeldUsers(r)
    BY <1>2, <2>3 DEF HeldUsers, ByHand
  <2>5. HeldInvites(r)
    BY <2>2, <2>3 DEF HeldInvites
  <2>6. QED
    BY <1>2, <2>4, <2>5
<1>3. CASE req[r].op \in {"deleteUser", "rejectEmailInvite"}
  BY <1>1, <1>3 DEF Wrote, HeldUsers, HeldInvites
<1>4. CASE req[r].op = "createInviteByEmail"
  <2>1. WroteInvite(r) /\ req[r].pc = 6
    BY <1>1, <1>4, PlacesAre DEF Wrote
  <2> DEFINE g == req[r].got.invitee
             i == req[r].invite
  <2>2. g \in UserId /\ i \in InviteId /\ req[r].user \in UserId /\ req[r].arg \in Address
    BY <1>1, <1>4, <2>1 DEF HandlerOK, LearntOK, ArgumentOK, HasUser, Named
  <2>3. /\ \A k \in Key : holder[k] = r => k = g \/ k = i
        /\ holder[g] = r /\ db[g] = Absent
        /\ Exists(draft[g]) /\ draft[g].email = <<req[r].user, req[r].arg>>
        /\ holder[i] = r /\ db[i] = Absent
        /\ draft[i] = [inviter |-> req[r].user, invitee |-> g, status |-> "PENDING"]
    BY <2>1 DEF WroteInvite
  <2>4. draft[i] \in InviteRow
    BY <2>2, <2>3 DEF InviteRow
  <2>5. Exists(draft[i])
    BY <2>4, MissingRowsAreNoRows DEF Exists
  <2>6. db[req[r].user] # Absent
    BY <1>1, <1>4 DEF Knowing
  <2>7. Invites(r)
    BY <1>4, <2>2, <2>3, <2>5, <2>6 DEF Invites
  <2>8. QED
    BY <2>1, <2>2, <2>3, <2>7 DEF HeldUsers, HeldInvites
<1>5. CASE req[r].op \in Accepting
  <2> DEFINE g == req[r].user
             i == req[r].invite
             b == req[r].got.invitee
  <2>1. g \in UserId /\ i \in InviteId /\ b \in UserId
    BY <1>1, <1>5 DEF HandlerOK, LearntOK, ArgumentOK, HasUser, Named, Answering
  <2>2. Claimed(g, i) /\ (req[r].op = "acceptByGhost" => b = g)
    BY <1>1, <1>5 DEF Knowing
  <2>3. /\ holder[g] = r /\ Exists(db[g]) /\ holder[i] = r /\ Exists(db[i])
        /\ IF req[r].op = "acceptByGhost" THEN IsUser(draft[g]) ELSE ~Exists(draft[g])
        /\ Exists(draft[i]) => /\ draft[i].status = "ACCEPTED"
                               /\ IF req[r].op = "acceptByGhost"
                                  THEN draft[i].invitee = db[i].invitee
                                  ELSE draft[i].invitee = b
        /\ \A k \in Key : holder[k] = r /\ Exists(draft[k]) =>
              (k = g /\ req[r].op = "acceptByGhost") \/ k = i \/ k \in ContactKey
    <3>1. Exists(db[i]) => db[i] \in InviteRow
      BY <2>1 DEF Typing, RowsTyped
    <3>2. CASE req[r].op = "acceptByGhost"
      <4>1. WroteAsGhost(r) /\ req[r].pc = 4
        BY <1>1, <3>2, PlacesAre DEF Wrote
      <4>2. /\ holder[g] = r /\ Exists(db[g]) /\ IsUser(draft[g]) /\ holder[i] = r /\ Exists(db[i])
            /\ draft[i] = [db[i] EXCEPT !.status = "ACCEPTED"]
            /\ \A k \in Key : holder[k] = r => k = g \/ k = i \/ k \in ContactKey
        BY <4>1 DEF WroteAsGhost
      <4>3. QED
        BY <3>1, <3>2, <4>2 DEF InviteRow
    <3>3. CASE req[r].op = "acceptByRealUser"
      <4>1. WroteAsUser(r) /\ req[r].pc = 5
        BY <1>1, <3>3, PlacesAre DEF Wrote
      <4>2. /\ holder[g] = r /\ Exists(db[g]) /\ ~Exists(draft[g]) /\ holder[i] = r /\ Exists(db[i])
            /\ Exists(draft[i]) => draft[i] = [db[i] EXCEPT !.invitee = b, !.status = "ACCEPTED"]
            /\ \A k \in Key : holder[k] = r /\ Exists(draft[k]) => k = i \/ k \in ContactKey
        BY <4>1 DEF WroteAsUser
      <4>3. QED
        BY <3>1, <3>3, <4>2 DEF InviteRow
    <3>4. QED
      BY <1>5, <3>2, <3>3 DEF Accepting
  <2>4. db[i].invitee = g /\ Sole(g, i)
    BY <2>2, <2>3 DEF Claimed, Exists
  <2>5. Accepts(r)
    BY <1>5, <2>1, <2>2, <2>3, <2>4 DEF Accepts
  <2>6. HeldUsers(r)
    BY <2>1, <2>3, <2>5 DEF HeldUsers
  <2>7. HeldInvites(r)
    BY <2>1, <2>3, <2>5 DEF HeldInvites
  <2>8. QED
    BY <1>5, <2>6, <2>7 DEF Accepting
<1>6. CASE req[r].op \in Direct
  <2> DEFINE i == req[r].invite
  <2>1. req[r].pc \in 3..4
    BY <1>6, PlacesAre DEF Direct
  <2>2. i \in InviteId /\ i \in ByHand(req[r])
    BY <1>1, <1>6, <2>1 DEF Direct, HandlerOK, LearntOK, ArgumentOK, ByHand
  <2>3. /\ \A k \in Key : holder[k] = r => k = i \/ k \in ContactKey
        /\ \/ db[i] = Absent
           \/ /\ draft[i].inviter = db[i].inviter /\ draft[i].invitee = db[i].invitee
              /\ draft[i].status # "PENDING"
    <3>1. CASE req[r].op = "createInvite"
      BY <1>1, <2>1, <3>1 DEF Wrote, WroteOpen
    <3>2. CASE req[r].op \in {"acceptInvite", "rejectInvite"}
      BY <1>1, <2>1, <3>2 DEF Wrote, WroteAnswer
    <3>3. QED
      BY <1>6, <3>1, <3>2 DEF Direct
  <2>4. Answers(r)
    BY <2>2, <2>3 DEF Answers, Waiting
  <2>5. HeldUsers(r) /\ HeldInvites(r)
    BY <2>2, <2>3, <2>4 DEF HeldUsers, HeldInvites
  <2>6. QED
    BY <1>6, <2>5 DEF Direct
<1>7. QED
  BY <1>2, <1>3, <1>4, <1>5, <1>6, PlacesAre DEF Accepting, Direct

\* The invites that wait and are in nobody's hands are those that did, and the
\* one that is mailed.
LEMMA CommitKeepsWaiting ==
    ASSUME Typing, RowsAreHeld, Haunted, NEW r \in Request, Held(r), CommitTx(r),
           byHand' = byHand \cup ByHand(req[r]),
           NEW j \in InviteId \ byHand', Waiting(db'[j])
    PROVE  /\ j \notin byHand
           /\ \/ /\ holder[j] = r /\ Invites(r) /\ j = req[r].invite
                 /\ db'[j].invitee = req[r].got.invitee
              \/ /\ holder[j] # r /\ Waiting(db[j]) /\ db'[j] = db[j]
                 /\ db[j].inviter \in UserId /\ db[j].invitee \in UserId
                 /\ Exists(db[db[j].invitee]) /\ db[j].invitee \in Parents(j, db[j])
<1> USE AccountKeys
<1>1. /\ holder[j] = r => db'[j] = draft[j]
      /\ holder[j] # r => db'[j] = db[j]
  BY CommitRow
<1>2. CASE holder[j] = r
  <2>1. Exists(draft[j]) /\ draft[j].status = "PENDING"
    BY <1>1, <1>2 DEF Waiting
  <2>2. (Invites(r) \/ Accepts(r) \/ Answers(r)) /\ j = req[r].invite
    BY <1>2, <2>1 DEF Held, HeldInvites
  <2>3. ~Answers(r) /\ ~Accepts(r)
    BY <2>1, <2>2 DEF Answers, Accepts
  <2>4. QED
    BY <1>1, <1>2, <2>2, <2>3 DEF Invites
<1>3. CASE holder[j] # r
  BY <1>1, <1>3, ParentsAre, RowsTypedIs DEF Haunted, Families, ParentsThere, Typing, Waiting
<1>4. QED
  BY <1>2, <1>3

LEMMA CommitKeepsSole ==
    ASSUME Typing, RowsAreHeld, Haunted, NEW r \in Request, Held(r), CommitTx(r),
           byHand' = byHand \cup ByHand(req[r]),
           NEW g \in UserId, NEW i \in InviteId, db[g] # Absent, Sole(g, i)
    PROVE  Sole(g, i)'
<1>1. SUFFICES ASSUME NEW j \in InviteId \ (byHand' \cup {i}), Waiting(db'[j])
               PROVE  db'[j].invitee # g
  BY DEF Sole
<1>2. CASE Invites(r) /\ db'[j].invitee = req[r].got.invitee
  BY <1>2 DEF Invites
<1>3. CASE Waiting(db[j]) /\ db'[j] = db[j]
  BY <1>3 DEF Sole
<1>4. QED
  BY <1>1, <1>2, <1>3, CommitKeepsWaiting

LEMMA CommitGrows ==
    ASSUME Typing, RowsAreHeld, Haunted, NEW r \in Request, Held(r), CommitTx(r),
           byHand' = byHand \cup ByHand(req[r])
    PROVE  DbGrows
<1> USE AccountKeys
<1>1. \A k \in Key : /\ holder[k] = r => db'[k] = draft[k]
                     /\ holder[k] # r => db'[k] = db[k]
  BY CommitRow
<1>2. \A k \in UserId \cup InviteId : /\ db[k] # Absent => db'[k] # Absent
                                      /\ db[k] = Gone => db'[k] = Gone
  BY <1>1 DEF Haunted, Families, GoneForGood
<1>3. ASSUME NEW i \in InviteId, db[i] # Absent, holder[i] = r, Exists(draft[i])
      PROVE  (Accepts(r) \/ Answers(r)) /\ i = req[r].invite /\ ~Waiting(draft[i])
  BY <1>3 DEF Held, HeldInvites, Invites, Accepts, Answers, Waiting
<1>4. ASSUME NEW g \in UserId, NEW i \in InviteId, Names(g, i)
      PROVE  Names(g, i)'
  <2>1. db[i] # Absent /\ db'[i] # Absent /\ db[g] # Absent /\ db'[g] # Absent
    BY <1>2, <1>4 DEF Names
  <2>2. Sole(g, i)'
    BY <1>4, CommitKeepsSole DEF Names
  <2>3. CASE holder[i] # r
    BY <1>1, <1>4, <2>1, <2>2, <2>3 DEF Names
  <2>4. CASE holder[i] = r
    BY <1>1, <1>3, <2>1, <2>2, <2>4 DEF Names, Waiting
  <2>5. QED
    BY <2>3, <2>4
<1>5. ASSUME NEW g \in UserId, NEW i \in InviteId, Claimed(g, i)
      PROVE  Claimed(g, i)'
  <2>1. db[i] # Absent /\ db'[i] # Absent /\ db[g] # Absent /\ db'[g] # Absent
    BY <1>2, <1>5 DEF Claimed
  <2>2. Sole(g, i)'
    BY <1>5, CommitKeepsSole DEF Claimed
  <2>3. SUFFICES ASSUME Exists(db'[i])
                 PROVE  db'[i].invitee = g \/ db'[g] = Gone
    BY <2>1, <2>2 DEF Claimed
  <2>4. CASE holder[i] # r
    BY <1>1, <1>2, <1>5, <2>3, <2>4 DEF Claimed
  <2>5. CASE holder[i] = r
    <3>1. db'[i] = draft[i] /\ Exists(draft[i]) /\ Exists(db[i])
      BY <1>1, <1>2, <2>1, <2>3, <2>5 DEF Exists
    <3>2. (Accepts(r) \/ Answers(r)) /\ i = req[r].invite
      BY <1>3, <2>1, <2>5, <3>1
    <3>3. db[i].invitee = g \/ db'[g] = Gone
      BY <1>2, <1>5, <3>1 DEF Claimed
    <3>4. CASE Answers(r)
      BY <2>1, <3>1, <3>2, <3>3, <3>4 DEF Answers
    <3>5. CASE Accepts(r) /\ db[i].invitee = g
      <4>1. req[r].user = g /\ db'[g] = draft[g]
        BY <1>1, <3>2, <3>5 DEF Accepts
      <4>2. IF req[r].op = "acceptByGhost" THEN req[r].got.invitee = g ELSE db'[g] = Gone
        BY <2>1, <3>5, <4>1 DEF Accepts, Exists
      <4>3. QED
        BY <3>1, <3>2, <3>5, <4>2 DEF Accepts
    <3>6. QED
      BY <3>2, <3>3, <3>4, <3>5
  <2>6. QED
    BY <2>4, <2>5
<1>6. QED
  BY <1>2, <1>4, <1>5 DEF DbGrows

LEMMA CommitKeepsInvites ==
    ASSUME Typing, RowsAreHeld, Haunted, NEW r \in Request, Held(r), CommitTx(r),
           byHand' = byHand \cup ByHand(req[r]),
           NEW i \in InviteId \ byHand', Waiting(db'[i])
    PROVE  /\ GhostOf(db'[db'[i].invitee], db'[i].inviter) \/ db'[i].invitee \in byHand'
           /\ \A j \in InviteId \ (byHand' \cup {i}) :
                 Waiting(db'[j]) => db'[j].invitee # db'[i].invitee
<1> USE AccountKeys
<1>1. \A k \in Key : /\ holder[k] = r => db'[k] = draft[k]
                     /\ holder[k] # r => db'[k] = db[k]
  BY CommitRow
<1>2. \A j \in InviteId \ byHand' : Waiting(db'[j]) =>
        /\ j \notin byHand
        /\ \/ /\ holder[j] = r /\ Invites(r) /\ j = req[r].invite
              /\ db'[j].invitee = req[r].got.invitee
           \/ /\ holder[j] # r /\ Waiting(db[j]) /\ db'[j] = db[j]
              /\ db[j].inviter \in UserId /\ db[j].invitee \in UserId
              /\ Exists(db[db[j].invitee]) /\ db[j].invitee \in Parents(j, db[j])
  BY CommitKeepsWaiting
<1>3. Invites(r) => ~Exists(db[req[r].got.invitee])
  BY DEF Invites, Exists
<1>4. ASSUME NEW j \in InviteId \ (byHand' \cup {i}), Waiting(db'[j])
      PROVE  db'[j].invitee # db'[i].invitee
  <2>1. CASE holder[i] # r /\ holder[j] # r
    <3>1. Waiting(db[i]) /\ Waiting(db[j]) /\ db'[i] = db[i] /\ db'[j] = db[j]
          /\ i \notin byHand /\ j \notin byHand
      BY <1>2, <1>4, <2>1
    <3>2. QED
      BY <3>1 DEF Haunted, AwaitAnswer
  <2>2. CASE holder[i] = r \/ holder[j] = r
    BY <1>2, <1>3, <1>4, <2>2
  <2>3. QED
    BY <2>1, <2>2
<1>5. CASE holder[i] = r
  <2>1. Invites(r) /\ i = req[r].invite
    BY <1>2, <1>5
  <2>2. /\ db'[i].inviter = req[r].user /\ db'[i].invitee = req[r].got.invitee
        /\ Exists(db'[req[r].got.invitee])
        /\ db'[req[r].got.invitee].email = <<req[r].user, req[r].arg>>
        /\ req[r].user \in UserId /\ req[r].arg \in Address
    BY <1>1, <1>5, <2>1 DEF Invites
  <2>3. QED
    BY <1>4, <2>2 DEF GhostOf, IsGhost, GhostEmail
<1>6. CASE holder[i] # r
  <2>1. Waiting(db[i]) /\ db'[i] = db[i] /\ i \notin byHand
    BY <1>2, <1>6
  <2>2. PICK g \in UserId : g = db[i].invitee
    BY <1>2, <1>6
  <2>3. Exists(db[g]) /\ g \in Parents(i, db[i])
    BY <1>2, <1>6, <2>2
  <2>4. GhostOf(db[g], db[i].inviter) \/ g \in byHand
    BY <2>1, <2>2 DEF Haunted, AwaitAnswer
  <2>5. CASE holder[g] # r \/ g \in byHand
    BY <1>1, <1>4, <2>1, <2>2, <2>4, <2>5
  <2>6. CASE holder[g] = r /\ GhostOf(db[g], db[i].inviter)
    <3>1. Exists(draft[g])
      BY <1>6, <2>1, <2>3, <2>6, MissingParentsAreHeld DEF Haunted, Waiting
    <3>2. ~Accepts(r) \/ g # req[r].user
      BY <1>6, <2>1, <2>2 DEF Accepts, Sole
    <3>3. draft[g].email = db[g].email \/ g \in byHand'
      BY <2>3, <2>6, <3>1, <3>2 DEF Held, HeldUsers, Invites, Exists
    <3>4. QED
      BY <1>1, <1>4, <2>1, <2>2, <2>6, <3>1, <3>3 DEF GhostOf, IsGhost
  <2>7. QED
    BY <2>4, <2>5, <2>6
<1>7. QED
  BY <1>5, <1>6

LEMMA CommitKeepsGhosts ==
    ASSUME Typing, RowsAreHeld, Haunted, NEW r \in Request, Held(r), CommitTx(r),
           byHand' = byHand \cup ByHand(req[r]),
           NEW g \in UserId, IsGhost(db'[g])
    PROVE  /\ db'[db'[g].email[1]] # Absent
           /\ Exists(db'[db'[g].email[1]]) =>
                \E i \in InviteId : /\ Exists(db'[i]) /\ db'[i].invitee = g
                                    /\ db'[i].inviter = db'[g].email[1]
                                    /\ Waiting(db'[i]) \/ i \in byHand'
<1> USE AccountKeys
<1>1. \A k \in Key : /\ holder[k] = r => db'[k] = draft[k]
                     /\ holder[k] # r => db'[k] = db[k]
  BY CommitRow
<1>2. \A k \in UserId \cup InviteId : /\ db[k] # Absent => db'[k] # Absent
                                      /\ db[k] = Gone => db'[k] = Gone
  BY <1>1 DEF Haunted, Families, GoneForGood
<1>3. db'[g].email \notin Address /\ db'[g].email[1] \in UserId /\ Exists(db'[g])
  BY Addresses DEF GhostEmail, IsGhost
<1>4. CASE holder[g] = r /\ Invites(r) /\ g = req[r].got.invitee
  <2>1. db'[g].email[1] = req[r].user /\ db'[req[r].user] # Absent
    BY <1>1, <1>2, <1>4 DEF Invites
  <2>2. /\ req[r].invite \in InviteId /\ Waiting(db'[req[r].invite])
        /\ db'[req[r].invite].invitee = g /\ db'[req[r].invite].inviter = req[r].user
    BY <1>1, <1>4 DEF Invites, Waiting
  <2>3. QED
    BY <2>1, <2>2 DEF Waiting
<1>5. CASE ~(holder[g] = r /\ Invites(r) /\ g = req[r].got.invitee)
  <2>1. Exists(db[g]) /\ db'[g].email = db[g].email
    <3>1. CASE holder[g] # r
      BY <1>1, <1>3, <3>1
    <3>2. CASE holder[g] = r
      BY <1>1, <1>3, <1>5, <3>2 DEF Held, HeldUsers, IsUser
    <3>3. QED
      BY <3>1, <3>2
  <2>2. PICK a \in UserId : a = db[g].email[1]
    BY <1>3, <2>1
  <2>3. db[a] # Absent /\ db'[a] # Absent /\ IsGhost(db[g])
    BY <1>2, <2>1, <2>2 DEF Haunted, InvitersWereUsers, IsGhost
  <2>4. SUFFICES ASSUME Exists(db'[a])
                 PROVE  \E i \in InviteId : /\ Exists(db'[i]) /\ db'[i].invitee = g
                                            /\ db'[i].inviter = a
                                            /\ Waiting(db'[i]) \/ i \in byHand'
    BY <2>1, <2>2, <2>3
  <2>5. Exists(db[a])
    BY <1>2, <2>3, <2>4 DEF Exists
  <2>6. PICK i \in InviteId : /\ Exists(db[i]) /\ db[i].invitee = g /\ db[i].inviter = a
                              /\ Waiting(db[i]) \/ i \in byHand
    BY <2>2, <2>3, <2>5 DEF Haunted, AwaitAnswer
  <2>7. CASE holder[i] # r
    BY <1>1, <2>6, <2>7
  <2>8. CASE holder[i] = r
    <3>1. Parents(i, db[i]) = {a, g}
      BY <2>6, ParentsAre, RowsTypedIs DEF Typing
    <3>2. Exists(draft[g])
      <4>1. holder[g] = r => Exists(draft[g])
        BY <1>1, <1>3
      <4>2. holder[g] # r => Exists(draft[g])
        BY <2>6, <2>8, <3>1, MissingParentsAreHeld DEF Haunted
      <4>3. QED
        BY <4>1, <4>2
    <3>3. Exists(draft[a])
      <4>1. holder[a] = r => Exists(draft[a])
        BY <1>1, <2>4
      <4>2. holder[a] # r => Exists(draft[a])
        BY <2>6, <2>8, <3>1, MissingParentsAreHeld DEF Haunted
      <4>3. QED
        BY <4>1, <4>2
    <3>4. Exists(draft[i])
      BY <2>6, <3>2, <3>3 DEF Haunted, Families, InvitesFollow
    <3>5. (Accepts(r) \/ Answers(r)) /\ i = req[r].invite
      BY <2>6, <2>8, <3>4 DEF Held, HeldInvites, Invites, Exists
    <3>6. ~Accepts(r)
      BY <1>1, <1>3, <2>6, <3>2, <3>5 DEF Accepts, IsUser
    <3>7. i \in byHand' /\ draft[i].inviter = a /\ draft[i].invitee = g
      BY <2>6, <3>5, <3>6 DEF Answers, Exists
    <3>8. QED
      BY <1>1, <2>8, <3>4, <3>7
  <2>9. QED
    BY <2>7, <2>8
<1>6. QED
  BY <1>4, <1>5

LEMMA CommitHaunted ==
    ASSUME IInv, Typing, RowsAreHeld, Haunted, NEW r \in Request, commit(r)
    PROVE  Haunted'
<1> USE AccountKeys
<1>1. /\ CommitTx(r) /\ At(r, "commit") /\ req' = Finished(r) /\ codes' = codes
      /\ byHand' = byHand \cup ByHand(req[r])
  BY DEF commit
<1>2. OthersWait(r) /\ req'[r].op \in {"none"} /\ codes \in Nat
  BY <1>1 DEF Finished, OthersWait, IInv, RequestsOK, Idle, Typing, Code
<1>3. Held(r) /\ (req[r].op = "createInviteByEmail" => Invites(r) /\ req[r].pc = 6)
  BY <1>1, HeldAtCommit
<1>4. links \subseteq links' /\ \A l \in links' \ links : l.kind # "invite"
  <2> DEFINE reset == [kind |-> "reset", user |-> req[r].got.invitee,
                       code |-> req[r].got.resetCode, to |-> req[r].arg.to, invite |-> Null,
                       resetCode |-> Null]
             mail == IF req[r].op \in {"acceptByRealUser", "acceptByGhost"} THEN {reset} ELSE {}
  <2>1. links' = links \cup mail
    BY DEF commit
  <2>2. reset.kind # "invite"
    OBVIOUS
  <2> HIDE DEF reset
  <2>3. QED
    BY <2>1, <2>2
<1>5. DbGrows
  BY <1>1, <1>3, CommitGrows
<1>6. \A k \in Key : /\ draft'[k] = draft[k]
                     /\ holder[k] = r => db'[k] = draft[k]
                     /\ holder[k] # r => db'[k] = db[k]
  BY <1>1, CommitRow
<1>7. CodesGo
  BY <1>6 DEF CodesGo
<1>8. ASSUME NEW l \in links, req[r].op = "createInviteByEmail",
             req[r].got.invitee = l.user, req[r].invite = l.invite
      PROVE  Names(l.user, l.invite)'
  <2>1. Invites(r)
    BY <1>3, <1>8
  <2>2. /\ db'[l.invite] = draft[l.invite] /\ Exists(draft[l.invite])
        /\ draft[l.invite].invitee = l.user
        /\ db'[l.user] = draft[l.user] /\ Exists(draft[l.user]) /\ db[l.user] = Absent
    BY <1>6, <1>8, <2>1 DEF Invites
  <2>3. Sole(l.user, l.invite)'
    <3>1. SUFFICES ASSUME NEW j \in InviteId \ (byHand' \cup {l.invite}), Waiting(db'[j])
                   PROVE  db'[j].invitee # l.user
      BY DEF Sole
    <3>2. db'[j] = db[j] /\ Exists(db[db[j].invitee])
      BY <1>1, <1>3, <1>8, <3>1, CommitKeepsWaiting
    <3>3. QED
      BY <2>2, <3>2 DEF Exists
  <2>4. QED
    BY <2>2, <2>3 DEF Names, Exists
<1>9. InviteLinksOK'
  BY <1>1, <1>2, <1>4, <1>5, <1>7, <1>8, LinksStayOK
<1>10. Families' /\ Frame(r)
  BY <1>1, CommitKeepsFamilies, EndingFrames DEF Haunted
<1>11. InvitersWereUsers'
  BY <1>1, <1>3, CommitKeepsGhosts DEF InvitersWereUsers
<1>12. AwaitAnswer(db', byHand')
  BY <1>1, <1>3, CommitKeepsGhosts, CommitKeepsInvites DEF AwaitAnswer
<1>13. codes' \in Nat /\ codes <= codes' /\ Wrote(r)' /\ Knowing(r)' /\ links \subseteq links'
  BY <1>1, <1>2, <1>4, IdleIsHaunted
<1>14. QED
  BY <1>2, <1>5, <1>9, <1>10, <1>11, <1>12, <1>13, StillHaunted

-------------------------------------------------------------------------------
(* Every step, and the first state.                                          *)

LEMMA RunHaunted ==
    ASSUME IInv, Typing, RowsAreHeld, Haunted, NEW r \in Request, Run(r)
    PROVE  Haunted'
<1>1. CASE Throw(r)
  BY <1>1, ThrowHaunted
<1>2. CASE ~Throw(r)
  BY <1>2, ReadingHaunted, LookingUpHaunted, FindRealUserHaunted, MailingHaunted,
     SetBannedHaunted, SetUserHaunted, SetConfirmCodeHaunted, BecomeUserHaunted,
     UpdatingNowHaunted, InsertUserHaunted, InsertGhostHaunted, InsertInviteHaunted,
     SetInviteHaunted, AnswerInviteHaunted, InsertContactsHaunted, DroppingHaunted,
     CommitHaunted DEF Run
<1>3. QED
  BY <1>1, <1>2

LEMMA NextKeepsHaunted ==
    IInv /\ Typing /\ RowsAreHeld /\ Haunted /\ [Next]_vars => Haunted'
<1> SUFFICES ASSUME IInv, Typing, RowsAreHeld, Haunted, [Next]_vars
             PROVE  Haunted'
  OBVIOUS
<1>1. CASE UNCHANGED vars \/ Time
  <2>1. UNCHANGED <<db, draft, holder, req, links, codes, byHand>>
    BY <1>1 DEF vars, ghostVars, Time, tables
  <2>2. Families'
    <3>1. ParentsThere(db)' /\ ParentsThere(draft)' /\ ChildrenHeld' /\ ParentsSeen'
      BY <2>1 DEF Haunted, Families, ParentsThere, ChildrenHeld, ParentsSeen
    <3>2. InvitesFollow' /\ GoneForGood'
      BY <2>1 DEF Haunted, Families, InvitesFollow, GoneForGood
    <3>3. QED
      BY <3>1, <3>2 DEF Families
  <2>3. AwaitAnswer(db', byHand') /\ InvitersWereUsers'
    BY <2>1 DEF Haunted, InvitersWereUsers
  <2>4. InviteLinksOK'
    BY <2>1 DEF Haunted, InviteLinksOK, Names, Sole, Sending, Dead
  <2>5. ASSUME NEW r \in Request
        PROVE  Wrote(r)' /\ Knowing(r)'
    <3>1. Wrote(r) /\ Knowing(r)
      BY DEF Haunted
    <3>2. Wrote(r)'
      BY <2>1, <3>1 DEF Wrote, WroteUser, WroteInvite, WroteOpen, WroteAnswer, WroteAsGhost,
         WroteAsUser, IsUser
    <3>3. Knowing(r)'
      BY <2>1, <3>1 DEF Knowing, Names, Claimed, Sole
    <3>4. QED
      BY <3>2, <3>3
  <2>6. QED
    BY <2>2, <2>3, <2>4, <2>5 DEF Haunted
<1>2. ASSUME NEW r \in Request, Begin(r) \/ Run(r) \/ Abort(r)
      PROVE  Haunted'
  BY <1>2, BeginHaunted, RunHaunted, ThrowHaunted DEF Abort
<1>3. QED
  BY <1>1, <1>2 DEF Next

LEMMA InitialHaunted == Init => Haunted
<1> SUFFICES ASSUME Init
             PROVE  Haunted
  OBVIOUS
<1>1. /\ world \in DOMAIN Worlds /\ db = Populated(world) /\ draft = db
      /\ links = Worlds[world].links /\ codes = Worlds[world].codes /\ byHand = {}
      /\ \A k \in Key : holder[k] = NoRequest
      /\ \A r \in Request : req[r].op \in {"none"}
  BY DEF Init, Idle
<1>2. /\ ParentsThere(db) /\ AwaitAnswer(db, byHand) /\ InvitersWereUsers
      /\ \A l \in links, i \in InviteId :
            l.kind = "invite" /\ Waiting(db[i]) /\ db[i].invitee = l.user => i = l.invite
  BY <1>1, WorldsGoTogether DEF InvitersWereUsers
<1>3. /\ LinksCoded(links, codes) /\ \A l \in links : NamesItsInvite(db, l)
      /\ \A l \in links : l.kind = "invite" => l.invite \in InviteId
      /\ links \subseteq Link /\ RowsTyped(db)
  BY <1>1, WorldsAreTyped, WorldsAreSound
<1>4. Families
  <2>1. ChildrenHeld /\ ParentsSeen
    BY <1>1, <1>2, NoRequestIsNoRequest DEF ParentsThere, ChildrenHeld, ParentsSeen
  <2>2. InvitesFollow /\ GoneForGood
    BY <1>1 DEF InvitesFollow, GoneForGood
  <2>3. QED
    BY <1>1, <1>2, <2>1, <2>2 DEF Families
<1>5. InviteLinksOK
  <2>1. SUFFICES ASSUME NEW l \in links, l.kind = "invite"
                 PROVE  l.code \in 0..codes /\ (Names(l.user, l.invite) \/ Dead(l))
    BY DEF InviteLinksOK
  <2>2. l.code \in 0..codes
    BY <1>3, <2>1 DEF LinksCoded
  <2>3. CASE Works(db, l)
    <3>1. /\ db[l.user] # Absent /\ db[l.invite] # Absent
          /\ Waiting(db[l.invite]) => db[l.invite].invitee = l.user
      BY <1>3, <2>1, <2>3 DEF NamesItsInvite, Works, Exists
    <3>2. Sole(l.user, l.invite)
      BY <1>2, <2>1 DEF Sole
    <3>3. QED
      BY <2>2, <3>1, <3>2 DEF Names
  <2>4. CASE ~Works(db, l)
    BY <1>1, <2>2, <2>4 DEF Works, Dead
  <2>5. QED
    BY <2>3, <2>4
<1>6. \A r \in Request : Wrote(r) /\ Knowing(r)
  BY <1>1 DEF Wrote, Knowing, Accepting
<1>7. QED
  BY <1>2, <1>4, <1>5, <1>6 DEF Haunted

\* However requests interleave, fail and are rolled back: rows go with the rows
\* they refer to, a link that was mailed is about the one invite its ghost was
\* mailed, and everybody who is about to commit has written what its handler says
\* of a ghost and its invite.
THEOREM GhostsAreKnown == Spec => []Haunted
BY InvariantHolds, TypingHolds, RowsStayHeld, InitialHaunted, NextKeepsHaunted, PTL DEF Spec

\* However requests interleave, and whoever invites ghosts by id, updates them or
\* answers for them: a ghost has an invite of whoever invited it, open unless it was
\* made or answered by id, and an invite that was mailed and waits for its answer
\* has a ghost of its own, unless somebody gave it an address.
THEOREM GhostsAreAnswered == Spec => []GhostsAwaitAnswer
<1>1. Haunted => GhostsAwaitAnswer
  BY DEF Haunted, GhostsAwaitAnswer
<1>2. QED
  BY <1>1, GhostsAreKnown, PTL
===============================================================================
