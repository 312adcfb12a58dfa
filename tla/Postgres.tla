------------------------------ MODULE Postgres ------------------------------
(***************************************************************************)
(* What the processors rely on in PostgreSQL (external: pkg/processors     *)
(* reaches it through database/sql and pgx, db.go:17-75).                  *)
(*                                                                         *)
(* Transactions are READ COMMITTED.  The store is a set of row versions:   *)
(* the transaction that created a version, and the one that replaces or    *)
(* deletes it, keep everybody else who wants the same row waiting until    *)
(* they end.  Tables, views and their kind are relations, created inside   *)
(* a transaction like rows; of a name only one can exist.                  *)
(*                                                                         *)
(* A statement that fails leaves its transaction "aborted": it keeps its   *)
(* locks, refuses every later statement, and can only be rolled back; a    *)
(* COMMIT of it rolls back and reports an error.                           *)
(***************************************************************************)
EXTENDS FiniteSets

CONSTANTS
  Sessions,    \* database sessions, one per running batch
  Committed,   \* the creator of what is committed
  Nobody       \* the deleter of what is not being deleted

ASSUME PostgresAssumption ==
  /\ Committed \notin Sessions
  /\ Nobody \notin Sessions
  /\ Committed # Nobody

VARIABLES
  relations,   \* records [name, cols, by]
  versions,    \* records [row, doc, by, del]
  txn          \* txn[s]: "none", "open" or "aborted"

store == <<relations, versions, txn>>

StoreInit(existing) ==
  /\ relations = existing
  /\ versions = {}
  /\ txn = [s \in Sessions |-> "none"]

-----------------------------------------------------------------------------
(* What a transaction sees, and whom it must wait for.                     *)

(* The relations session s can use: committed ones and its own.            *)
Known(s, name) ==
  \E r \in relations : r.name = name /\ r.by \in {Committed, s}

Columns(s, name) ==
  UNION {r.cols : r \in {x \in relations : x.name = name /\ x.by \in {Committed, s}}}

Visible(s) == {v \in versions : v.by \in {Committed, s} /\ v.del # s}

Existing(s, row) == {v \in Visible(s) : v.row = row}

(* The transactions that hold row, resp. are creating name.                *)
RowHolders(s, row) ==
  (UNION {{v.by, v.del} : v \in {x \in versions : x.row = row}}) \ {s, Committed, Nobody}

NameHolders(s, name) ==
  {r.by : r \in {x \in relations : x.name = name}} \ {s, Committed}

-----------------------------------------------------------------------------
(* The store after a statement of s, and after its end.                    *)

Created(s, name, cols) == relations \cup {[name |-> name, cols |-> cols, by |-> s]}

Inserted(s, row, doc) ==
  versions \cup {[row |-> row, doc |-> doc, by |-> s, del |-> Nobody]}

(* s deletes the versions in old: its own vanish, committed ones wait for  *)
(* its end.                                                                *)
Deleted(s, old) ==
  (versions \ old) \cup {[v EXCEPT !.del = s] : v \in {x \in old : x.by = Committed}}

(* INSERT ... ON CONFLICT DO UPDATE: the existing version is replaced.     *)
Upserted(s, row, doc) ==
  Deleted(s, Existing(s, row))
    \cup {[row |-> row, doc |-> doc, by |-> s, del |-> Nobody]}

CommittedRelations(s) ==
  {[r EXCEPT !.by = IF @ = s THEN Committed ELSE @] : r \in relations}

CommittedVersions(s) ==
  {[v EXCEPT !.by = IF @ = s THEN Committed ELSE @] :
     v \in {x \in versions : x.del # s}}

EndByCommit(s) ==
  /\ relations' = CommittedRelations(s)
  /\ versions' = CommittedVersions(s)
  /\ txn' = [txn EXCEPT ![s] = "none"]

EndByRollback(s) ==
  /\ relations' = {r \in relations : r.by # s}
  /\ versions' = {[v EXCEPT !.del = IF @ = s THEN Nobody ELSE @] :
                    v \in {x \in versions : x.by # s}}
  /\ txn' = [txn EXCEPT ![s] = "none"]
=============================================================================
