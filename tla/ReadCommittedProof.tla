-------------------------- MODULE ReadCommittedProof --------------------------
(***************************************************************************)
(* What the operations of ReadCommitted do to one row, for the proofs of   *)
(* the modules that extend it, and the invariant all of them rely on.      *)
(***************************************************************************)
EXTENDS ReadCommitted, TLAPS

\* A row has an uncommitted version of its own only while somebody holds it.
FreeRowsAreCommitted == \A k \in Key : holder[k] = NoRequest => draft[k] = db[k]

Free(r, k) == holder[k] \in {r, NoRequest}

\* r writes rows it has waited for.
Writes(r, rows) == Put(r, rows) /\ \A k \in Key \cap DOMAIN rows : Free(r, k)

LEMMA ReadsRow ==
    ASSUME NEW r \in Request, NEW k \in Key
    PROVE  Visible(r)[k] = IF holder[k] = r THEN draft[k] ELSE db[k]
BY DEF Visible

\* Of a row it may write, r sees the newest version.
LEMMA FreeRowIsNewest ==
    ASSUME FreeRowsAreCommitted, NEW r \in Request, NEW k \in Key, Free(r, k)
    PROVE  Visible(r)[k] = draft[k]
BY DEF FreeRowsAreCommitted, Free, Visible

LEMMA UnblockedRowsAreFree ==
    ASSUME NEW r, NEW K, Blockers(r, K) = {}, NEW k \in K
    PROVE  Free(r, k)
BY DEF Blockers, Free

LEMMA PutRow ==
    ASSUME NEW r \in Request, NEW rows, Put(r, rows), NEW k \in Key
    PROVE  /\ db'[k] = db[k]
           /\ k \in DOMAIN rows => draft'[k] = rows[k] /\ holder'[k] = r
           /\ k \notin DOMAIN rows => draft'[k] = draft[k] /\ holder'[k] = holder[k]
BY DEF Put

LEMMA CommitRow ==
    ASSUME NEW r \in Request, CommitTx(r), NEW k \in Key
    PROVE  /\ draft'[k] = draft[k]
           /\ holder[k] = r => db'[k] = draft[k] /\ holder'[k] = NoRequest
           /\ holder[k] # r => db'[k] = db[k] /\ holder'[k] = holder[k]
BY DEF CommitTx, Released, Visible

LEMMA RollbackRow ==
    ASSUME NEW r \in Request, RollbackTx(r), NEW k \in Key
    PROVE  /\ db'[k] = db[k]
           /\ holder[k] = r => draft'[k] = db[k] /\ holder'[k] = NoRequest
           /\ holder[k] # r => draft'[k] = draft[k] /\ holder'[k] = holder[k]
BY DEF RollbackTx, Released

LEMMA FreeRowsStayCommitted ==
    ASSUME FreeRowsAreCommitted, NEW r \in Request,
           \/ UNCHANGED tables
           \/ \E rows : Put(r, rows)
           \/ CommitTx(r)
           \/ RollbackTx(r)
    PROVE  FreeRowsAreCommitted'
<1>1. CASE UNCHANGED tables
  BY <1>1 DEF tables, FreeRowsAreCommitted
<1>2. ASSUME NEW rows, Put(r, rows)
      PROVE  FreeRowsAreCommitted'
  BY <1>2, PutRow, NoRequestIsNoRequest DEF FreeRowsAreCommitted
<1>3. CASE CommitTx(r)
  BY <1>3, CommitRow DEF FreeRowsAreCommitted
<1>4. CASE RollbackTx(r)
  BY <1>4, RollbackRow DEF FreeRowsAreCommitted
<1>5. QED
  BY <1>1, <1>2, <1>3, <1>4

\* Whatever r does, a row that another request holds stays as it is.
LEMMA HeldRowsStay ==
    ASSUME NEW r \in Request, NEW k \in Key, ~Free(r, k),
           \/ UNCHANGED tables
           \/ \E rows : Writes(r, rows)
           \/ CommitTx(r)
           \/ RollbackTx(r)
    PROVE  db'[k] = db[k] /\ draft'[k] = draft[k] /\ holder'[k] = holder[k]
<1>1. CASE UNCHANGED tables
  BY <1>1 DEF tables
<1>2. ASSUME NEW rows, Writes(r, rows)
      PROVE  db'[k] = db[k] /\ draft'[k] = draft[k] /\ holder'[k] = holder[k]
  BY <1>2, PutRow DEF Writes
<1>3. CASE CommitTx(r)
  BY <1>3, CommitRow DEF Free
<1>4. CASE RollbackTx(r)
  BY <1>4, RollbackRow DEF Free
<1>5. QED
  BY <1>1, <1>2, <1>3, <1>4
===============================================================================
