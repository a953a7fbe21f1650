-------------------------------- MODULE Tokens --------------------------------
(***************************************************************************)
(* Access and refresh tokens (src/src/token, src/src/redis): signed        *)
(* records that expire by themselves, and a list of invalidated ones in    *)
(* Redis whose entries expire too.  A session is the pair of tokens one    *)
(* authentication hands out; the salt makes every pair a new one.          *)
(***************************************************************************)
CONSTANTS
    Session,  \* the pairs of tokens ever signed, a bound
    Nobody    \* the holder of a pair not signed yet

VARIABLES
    holderOf,     \* [Session -> the user a pair was signed for]
    expired,      \* the tokens whose exp is over
    invalidated   \* the tokens with an entry in Redis

tokenVars == <<holderOf, expired, invalidated>>

Token == Session \X {"access", "refresh"}

TokensInit == expired = {} /\ invalidated = {}

Unsigned == {s \in Session : holderOf[s] = Nobody}
Signed == {t \in Token : holderOf[t[1]] # Nobody}

\* verify, then EXISTS in Redis.  An answer of Redis that is later than the
\* second an entry outlives its token is not considered.
Verifies(t) == t \in Signed /\ t \notin expired /\ t \notin invalidated

createTokens(s, u) ==
    /\ holderOf' = [holderOf EXCEPT ![s] = u]
    /\ UNCHANGED <<expired, invalidated>>

\* SET with EX up to a second after exp; no entry for a token that is over.
invalidateToken(t) ==
    /\ invalidated' = IF t \in expired THEN invalidated ELSE invalidated \cup {t}
    /\ UNCHANGED <<holderOf, expired>>

\* The clock reaches exp.
Expire(t) ==
    /\ t \in Signed \ expired
    /\ expired' = expired \cup {t}
    /\ UNCHANGED <<holderOf, invalidated>>

\* Mutant: the entry is kept for less than the token's life.
ForgetEarly(t) ==
    /\ t \in invalidated
    /\ invalidated' = invalidated \ {t}
    /\ UNCHANGED <<holderOf, expired>>

\* Redis drops an entry, after the token it is about is over.
Forget(t) ==
    /\ t \in invalidated \cap expired
    /\ invalidated' = invalidated \ {t}
    /\ UNCHANGED <<holderOf, expired>>
===============================================================================
