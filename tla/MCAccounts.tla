------------------------------- MODULE MCAccounts -------------------------------
(* Instances of Accounts for TLC.                                              *)
EXTENDS Accounts

CONSTANTS u1, u2, u3, v1, v2, s1, s2, s3, atA, atB, atBplusX, AtB

MCUser == {u1, u2, u3}
MCKey == MCUser \cup {v1, v2} \cup (MCUser \X MCUser)
MCAddress == {atA, atB, atBplusX}
MCLower == atA :> atA @@ atB :> atB @@ AtB :> atB @@ atBplusX :> atBplusX
MCUntagged == atA :> atA @@ atB :> atB @@ atBplusX :> atB

Account(email, confirmCode) ==
    [email |-> email, password |-> "p", confirmCode |-> confirmCode, resetCode |-> Null,
     banned |-> FALSE]
Ann == u1 :> Account(atA, Null)
NoSessions == [s \in Session |-> Nobody]
\* Nothing was mailed yet.
Fresh(users, offered) ==
    [users |-> users, sessions |-> NoSessions, links |-> {}, codes |-> 0,
     proven |-> {<<u, users[u].email>> :
                    u \in {u \in DOMAIN users \cap MCUser : users[u].confirmCode = Null}},
     blocked |-> {}, passwords |-> {"p"}, strategy |-> "manual", offered |-> offered]
LoggedIn(offered) ==
    [Fresh(Ann, offered) EXCEPT !.sessions = [NoSessions EXCEPT ![s1] = u1]]
ConfirmLink(u, code, to) ==
    [kind |-> "confirm", user |-> u, code |-> code, to |-> to, invite |-> Null,
     resetCode |-> Null]

Invited ==
    LET ghost == Account(<<u1, atB>>, 1)
    IN [Fresh(Ann @@ u2 :> [ghost EXCEPT !.password = Random, !.resetCode = 2]
                  @@ v1 :> [inviter |-> u1, invitee |-> u2, status |-> "PENDING"],
              {"acceptEmailInvite", "rejectEmailInvite", "createUser", "deleteUser",
               "resendConfirmEmail", "resetPassword"})
        EXCEPT !.codes = 2,
               !.links = {[kind |-> "invite", user |-> u2, code |-> 1, to |-> atB,
                           invite |-> v1, resetCode |-> 2]}]

\* Somebody acts on the ghost and its invite without the mail.
ByHandToo == [Invited EXCEPT !.offered = {"acceptEmailInvite", "rejectEmailInvite", "updateUser",
                                          "rejectInvite"}]
InvitedByHand == [Invited EXCEPT !.offered = {"acceptEmailInvite", "createInvite",
                                              "acceptInvite", "rejectInvite", "deleteUser"}]

\* The invitee registered meanwhile.
Meanwhile ==
    [Invited EXCEPT !.users = @ @@ u3 :> Account(atB, Null),
                    !.proven = @ \cup {<<u3, atB>>},
                    !.offered = {"acceptEmailInvite", "acceptInvite", "rejectInvite",
                                 "createInvite"}]

MCWorlds == [
    registering |-> Fresh(Ann, {"createUser", "confirmEmail", "updateUser"}),
    resending |-> Fresh(Ann, {"createUser", "confirmEmail", "resendConfirmEmail",
                              "deleteUser"}),
    moving |-> [Fresh(u1 :> Account(atA, 1), {"updateUser", "confirmEmail", "resendConfirmEmail",
                                              "login"})
                EXCEPT !.codes = 1, !.links = {ConfirmLink(u1, 1, atA)}],
    automatic |-> [Fresh(Ann, {"createUser", "updateUser", "resendConfirmEmail", "login"})
                   EXCEPT !.strategy = "auto"],
    forgetting |-> [Fresh(Ann, {"forgotPassword", "resendForgotPasswordEmail", "resetPassword",
                                "banUser", "login"})
                    EXCEPT !.passwords = Password],
    inviting |-> Fresh(Ann @@ u2 :> Account(atBplusX, Null),
                       {"createInviteByEmail", "acceptEmailInvite", "rejectEmailInvite"}),
    invited |-> Invited,
    byHandToo |-> ByHandToo,
    invitedByHand |-> InvitedByHand,
    meanwhile |-> Meanwhile,
    mailedMeanwhile |-> [Meanwhile EXCEPT !.offered = {"acceptEmailInvite", "rejectEmailInvite",
                                                       "acceptInvite", "rejectInvite",
                                                       "createInviteByEmail"}],
    blocking |-> [Meanwhile EXCEPT !.blocked = {<<u1, u3>>},
                                   !.offered = {"acceptEmailInvite", "createInviteByEmail",
                                                "createInvite"}],
    banning |-> LoggedIn({"banUser", "unbanUser", "query"}),
    sessions |-> LoggedIn({"refreshToken", "logout", "query"})]

MCSymmetry == Permutations(Request)
===============================================================================
