--------------------------- MODULE BatchProcessor ---------------------------
(***************************************************************************)
(* ProcessBatch of the insert and upsert processors                        *)
(* (pkg/processors/processor.go), run by several workers against one       *)
(* database.                                                               *)
(*                                                                         *)
(* Every call to the database is a step of its own, so two batches         *)
(* interleave wherever PostgreSQL lets them.  Bento hands a batch to one   *)
(* worker at a time and hands it out again when ProcessBatch failed or the *)
(* process died, as it does with an input that redelivers; it may also     *)
(* hand out again a batch that succeeded, when the acknowledgement is lost.*)
(*                                                                         *)
(* A message is a record                                                   *)
(*   table   the table name header, raw                                    *)
(*   key     the value of the root primary key                             *)
(*   items   the length of its array, or Absent when the payload has none  *)
(*   cols    the columns planned from its schema                           *)
(*   fate    "fits"; "unplannable": a header is missing, its schema is     *)
(*           refused or cannot be planned; "misfit": its payload cannot be *)
(*           rendered (not JSON, no primary key, not an array)             *)
(* A document is a delivery of a message: its batch, its position there,   *)
(* and the number of faults so far, which tells deliveries apart (a stored *)
(* message is delivered again only after a fault).  The model has one      *)
(* child table; its rows are numbered from 1, the root row has number 0.   *)
(***************************************************************************)
EXTENDS Naturals, Sequences, Relation, Postgres

CONSTANTS
  Batches,      \* the batches Bento has to deliver
  Content,      \* Content[b]: the messages of b, in order
  Absent,       \* items of a payload without the array
  IdentName,    \* IdentName[t]: the SQL identifier of the raw name t
  Upsert,       \* the upsert processor, else the insert processor
  PerMessage,   \* on_error is per_message, else abort
  CreateModel,  \* create_model
  Earlier,      \* models an earlier run may have left: records [table, cols]
  MaxFaults     \* bound: failures of the environment in a behaviour

(* All the messages, and the SQL identifiers among the table names.        *)
Messages == UNION {{Content[b][i] : i \in 1..Len(Content[b])} : b \in Batches}

Identifiers ==
  {IdentName[t] : t \in DOMAIN IdentName} \cup {m.table : m \in Earlier}

(* An identifier is its own identifier (names.go:28-38, 60-63).            *)
ASSUME ProcessorAssumption ==
  /\ Upsert \in BOOLEAN /\ PerMessage \in BOOLEAN /\ CreateModel \in BOOLEAN
  /\ MaxFaults \in Nat
  /\ \A b \in Batches : Len(Content[b]) \in Nat
  /\ \A m \in Messages :
       m.table \in DOMAIN IdentName /\ m.items \in Nat \cup {Absent}
  /\ \A t \in DOMAIN IdentName \cap Identifiers : IdentName[t] = t

VARIABLES
  pc,        \* where each worker is in ProcessBatch
  batch,     \* the batch it works on
  next,      \* the position of the message it is storing
  ensured,   \* the raw table names ensureModel has settled
  rejected,  \* the positions whose message got an error (SetError)
  stmts,     \* the statements still to execute
  status,    \* Bento's view of each batch
  faults     \* failures of the environment so far

Workers == Sessions

locals == <<batch, next, ensured, rejected, stmts>>
vars == <<store, pc, locals, status, faults>>

Msg(b, i) == Content[b][i]
Current(w) == Msg(batch[w], next[w])

Items(m) == IF m.items = Absent THEN 0 ELSE m.items

-----------------------------------------------------------------------------
(* Statements.                                                             *)

(* The objects of a model, in the order ensureModel creates them.          *)
Phases == <<"tables", "views", "registry">>

(* Mutation: the registry is left for later.                               *)
DdlWithoutRegistry(m) ==
  [p \in 1..(Len(Phases) - 1) |->
     [op |-> "create", name |-> <<IdentName[m.table], Phases[p]>>, cols |-> m.cols]]

Ddl(m) ==
  [p \in 1..Len(Phases) |->
     [op |-> "create", name |-> <<IdentName[m.table], Phases[p]>>, cols |-> m.cols]]

RowOf(m, no) == [table |-> IdentName[m.table], key |-> m.key, no |-> no]

(* Mutation: a statement names only the key.                               *)
LineOfKey(op, m, doc, no) == [op |-> op, row |-> RowOf(m, no), doc |-> doc, cols |-> {}]

Line(op, m, doc, no) == [op |-> op, row |-> RowOf(m, no), doc |-> doc, cols |-> m.cols]

(* Mutation: the loop over the items stops one short.                      *)
ChildInsertsShort(m, doc) ==
  [no \in 1..(Items(m) - 1) |-> Line("insert", m, doc, no)]

ChildInserts(m, doc) == [no \in 1..Items(m) |-> Line("insert", m, doc, no)]

InsertStatements(m, doc) == <<Line("insert", m, doc, 0)>> \o ChildInserts(m, doc)

(* collectDeletes walks the new payload: without the array there is        *)
(* nothing to walk, and no DELETE.                                         *)
Deletes(m, doc) ==
  IF m.items = Absent THEN <<>> ELSE <<Line("delete", m, doc, 0)>>

(* Mutation: the old children are deleted last.                            *)
UpsertDeletesLast(m, doc) ==
  <<Line("upsert", m, doc, 0)>> \o ChildInserts(m, doc) \o Deletes(m, doc)

UpsertStatements(m, doc) ==
  Deletes(m, doc) \o <<Line("upsert", m, doc, 0)>> \o ChildInserts(m, doc)

(* Mutation: both processors replace what they find.                       *)
DmlAlwaysUpserts(w) ==
  UpsertStatements(Current(w), <<batch[w], next[w], faults>>)

Dml(w) ==
  LET doc == <<batch[w], next[w], faults>>
  IN IF Upsert THEN UpsertStatements(Current(w), doc)
               ELSE InsertStatements(Current(w), doc)

-----------------------------------------------------------------------------
(* The type of the state.                                                  *)

Names == Identifiers \X {Phases[p] : p \in 1..Len(Phases)}

ColumnSets == {m.cols : m \in Messages \cup Earlier}

Rows == [table : Identifiers, key : {m.key : m \in Messages}, no : Nat]

Docs == Batches \X Nat \X Nat

Relations == [name : Names, cols : ColumnSets, by : Workers \cup {Committed}]

RowVersions ==
  [row : Rows, doc : Docs, by : Workers \cup {Committed}, del : Workers \cup {Nobody}]

DdlLines == [op : {"create", "recreate"}, name : Names, cols : ColumnSets]

DmlLines ==
  [op : {"insert", "upsert", "delete"}, row : Rows, doc : Docs, cols : ColumnSets]
    \cup [op : {"deleting"}, rows : SUBSET RowVersions]

TypeOK ==
  /\ txn \in [Workers -> {"none", "open", "aborted"}]
  /\ relations \subseteq Relations
  /\ versions \subseteq RowVersions
  /\ stmts \in [Workers -> Seq(DdlLines \cup DmlLines)]
  /\ pc \in [Workers -> {"idle", "message", "ensure", "ddl", "render", "dml", "rollback"}]
  /\ batch \in [Workers -> Batches]
  /\ next \in [Workers -> Nat]
  /\ ensured \in [Workers -> SUBSET DOMAIN IdentName]
  /\ rejected \in [Workers -> SUBSET Nat]
  /\ status \in [Batches -> {"waiting", "running", "done"}]
  /\ faults \in 0..MaxFaults

(* The models in T have been created before, every object of them.         *)
LeftBehind(T) ==
  {[name |-> <<m.table, Phases[p]>>, cols |-> m.cols, by |-> Committed] :
     m \in T, p \in 1..Len(Phases)}

Init ==
  /\ \E T \in SUBSET Earlier : StoreInit(LeftBehind(T))
  /\ pc = [w \in Workers |-> "idle"]
  /\ batch \in [Workers -> Batches]
  /\ next = [w \in Workers |-> 1]
  /\ ensured = [w \in Workers |-> {}]
  /\ rejected = [w \in Workers |-> {}]
  /\ stmts = [w \in Workers |-> <<>>]
  /\ status = [b \in Batches |-> "waiting"]
  /\ faults = 0

Goto(w, place) == pc' = [pc EXCEPT ![w] = place]

Fault == faults < MaxFaults /\ faults' = faults + 1

(* ProcessBatch returns an error: the batch will be delivered again.       *)
ReturnError(w) ==
  /\ Goto(w, "idle")
  /\ status' = [status EXCEPT ![batch[w]] = "waiting"]

-----------------------------------------------------------------------------
(* ProcessBatch.                                                           *)

(* Mutation: ensured outlives the batch it was made for.                   *)
BeginKeepsEnsured(w, b) ==
  /\ pc[w] = "idle"
  /\ status[b] = "waiting"
  /\ status' = [status EXCEPT ![b] = "running"]
  /\ batch' = [batch EXCEPT ![w] = b]
  /\ next' = [next EXCEPT ![w] = 1]
  /\ rejected' = [rejected EXCEPT ![w] = {}]
  /\ stmts' = [stmts EXCEPT ![w] = <<>>]
  /\ txn' = [txn EXCEPT ![w] = "open"]
  /\ Goto(w, "message")
  /\ UNCHANGED <<relations, versions, ensured, faults>>

(* The connection is up and the transaction begins.  A connection that     *)
(* cannot be opened or begun changes nothing and the batch stays waiting.  *)
Begin(w, b) ==
  /\ pc[w] = "idle"
  /\ status[b] = "waiting"
  /\ status' = [status EXCEPT ![b] = "running"]
  /\ batch' = [batch EXCEPT ![w] = b]
  /\ next' = [next EXCEPT ![w] = 1]
  /\ ensured' = [ensured EXCEPT ![w] = {}]
  /\ rejected' = [rejected EXCEPT ![w] = {}]
  /\ stmts' = [stmts EXCEPT ![w] = <<>>]
  /\ txn' = [txn EXCEPT ![w] = "open"]
  /\ Goto(w, "message")
  /\ UNCHANGED <<relations, versions, faults>>

(* Mutation: on_error is ignored.                                          *)
PermanentErrorAborts(w) ==
  /\ Goto(w, "rollback")
  /\ UNCHANGED <<store, locals, status, faults>>

(* A permanent error: under per_message the message gets the error and the *)
(* loop goes on, otherwise the batch fails.                                *)
PermanentError(w) ==
  /\ IF PerMessage
       THEN /\ rejected' = [rejected EXCEPT ![w] = @ \cup {next[w]}]
            /\ next' = [next EXCEPT ![w] = @ + 1]
            /\ Goto(w, "message")
       ELSE /\ Goto(w, "rollback")
            /\ UNCHANGED <<rejected, next>>
  /\ UNCHANGED <<store, batch, ensured, stmts, status, faults>>

(* Any other error fails the batch; a failed statement has also put the    *)
(* transaction into the aborted state.                                     *)
RecoverableError(w) ==
  /\ Goto(w, "rollback")
  /\ txn' = [txn EXCEPT ![w] = "aborted"]
  /\ UNCHANGED <<relations, versions, locals, status, faults>>

More(w) == next[w] <= Len(Content[batch[w]])

(* Mutation: a payload that cannot be rendered is noticed at once.         *)
PlanJudgesPayload(w) ==
  /\ pc[w] = "message"
  /\ More(w)
  /\ IF Current(w).fate \in {"unplannable", "misfit"}
       THEN PermanentError(w)
       ELSE /\ Goto(w, "ensure")
            /\ UNCHANGED <<store, locals, status, faults>>

(* storeMessage up to the planned model.                                   *)
Plan(w) ==
  /\ pc[w] = "message"
  /\ More(w)
  /\ IF Current(w).fate = "unplannable"
       THEN PermanentError(w)
       ELSE /\ Goto(w, "ensure")
            /\ UNCHANGED <<store, locals, status, faults>>

(* The schema cannot be loaded now: a recoverable error, no statement.     *)
LoadFails(w) ==
  /\ pc[w] = "message"
  /\ More(w)
  /\ Fault
  /\ Goto(w, "rollback")
  /\ UNCHANGED <<store, locals, status>>

(* TableExists asks for the raw name.                                      *)
TableExists(w) == Known(w, <<Current(w).table, "tables">>)

(* Mutation: the created object is remembered, not the name it is for.     *)
ObjectEnsured(w) ==
  ensured' = [ensured EXCEPT ![w] = @ \cup {<<Current(w).table, "tables">>}]

NowEnsured(w) == ensured' = [ensured EXCEPT ![w] = @ \cup {Current(w).table}]

Ensure(w) ==
  /\ pc[w] = "ensure"
  /\ \/ /\ ~CreateModel \/ Current(w).table \in ensured[w]
        /\ Goto(w, "render")
        /\ UNCHANGED <<store, locals, status, faults>>
     \/ /\ CreateModel /\ Current(w).table \notin ensured[w]
        /\ txn[w] = "open"
        /\ IF TableExists(w)
             THEN NowEnsured(w) /\ Goto(w, "render") /\ UNCHANGED stmts
             ELSE /\ stmts' = [stmts EXCEPT ![w] = Ddl(Current(w))]
                  /\ Goto(w, "ddl")
                  /\ UNCHANGED ensured
        /\ UNCHANGED <<store, batch, next, rejected, status, faults>>
     \/ /\ CreateModel /\ Current(w).table \notin ensured[w]
        /\ txn[w] = "aborted"
        /\ RecoverableError(w)

(* One DDL statement is behind us: go on with the next, or the model is    *)
(* settled.                                                                *)
NextDdl(w) ==
  /\ stmts' = [stmts EXCEPT ![w] = Tail(@)]
  /\ IF Tail(stmts[w]) = <<>> THEN NowEnsured(w) /\ Goto(w, "render")
                              ELSE UNCHANGED <<ensured, pc>>
  /\ UNCHANGED <<batch, next, rejected, status, faults>>

(* execStatements.  A name that exists when the statement starts is        *)
(* "already exists", which the code skips although the transaction is now  *)
(* aborted; one that another transaction committed while the statement     *)
(* waited for it is a unique violation, which it does not skip.            *)
ExecDdl(w) ==
  /\ pc[w] = "ddl"
  /\ LET st == Head(stmts[w])
         others == NameHolders(w, st.name)
     IN \/ /\ txn[w] = "aborted"
           /\ RecoverableError(w)
        \/ /\ txn[w] = "open" /\ st.op = "create" /\ others # {}
           /\ stmts' = [stmts EXCEPT ![w][1].op = "recreate"]
           /\ UNCHANGED <<store, pc, batch, next, ensured, rejected, status, faults>>
        \/ /\ txn[w] = "open" /\ others = {} /\ ~Known(w, st.name)
           /\ relations' = Created(w, st.name, st.cols)
           /\ NextDdl(w)
           /\ UNCHANGED <<versions, txn>>
        \/ /\ txn[w] = "open" /\ st.op = "create" /\ others = {} /\ Known(w, st.name)
           /\ txn' = [txn EXCEPT ![w] = "aborted"]
           /\ NextDdl(w)
           /\ UNCHANGED <<relations, versions>>
        \/ /\ txn[w] = "open" /\ st.op = "recreate" /\ others = {} /\ Known(w, st.name)
           /\ RecoverableError(w)

(* The payload is rendered only once the model is there.                   *)
Render(w) ==
  /\ pc[w] = "render"
  /\ IF Current(w).fate = "misfit"
       THEN PermanentError(w)
       ELSE /\ stmts' = [stmts EXCEPT ![w] = Dml(w)]
            /\ Goto(w, "dml")
            /\ UNCHANGED <<store, batch, next, ensured, rejected, status, faults>>

(* The message's contents cannot be read: a recoverable error.             *)
ReadFails(w) ==
  /\ pc[w] = "render"
  /\ Fault
  /\ Goto(w, "rollback")
  /\ UNCHANGED <<store, locals, status>>

(* One DML statement is behind us.                                         *)
NextDml(w) ==
  /\ stmts' = [stmts EXCEPT ![w] = Tail(@)]
  /\ IF Tail(stmts[w]) = <<>>
       THEN next' = [next EXCEPT ![w] = @ + 1] /\ Goto(w, "message")
       ELSE UNCHANGED <<next, pc>>
  /\ UNCHANGED <<relations, txn, batch, ensured, rejected, status, faults>>

(* The table or one of the columns does not exist.                         *)
Unfit(w, st) ==
  LET name == <<st.row.table, "tables">>
  IN ~Known(w, name) \/ ~(st.cols \subseteq Columns(w, name))

(* A DELETE works on the child rows that are visible when it starts.       *)
Targets(w, row) ==
  {v \in Visible(w) : v.row.table = row.table /\ v.row.key = row.key /\ v.row.no > 0}

StillThere(st) == {v \in versions : \E x \in st.rows : v.row = x.row /\ v.doc = x.doc}

Awaited(w, st) ==
  CASE st.op = "delete" -> {}
    [] st.op = "deleting" -> {v.del : v \in StillThere(st)} \ {Nobody, w}
    [] st.op \in {"insert", "upsert"} -> RowHolders(w, st.row)
    [] OTHER -> NameHolders(w, st.name)

ExecDml(w) ==
  /\ pc[w] = "dml"
  /\ LET st == Head(stmts[w])
     IN \/ /\ txn[w] = "aborted"
           /\ RecoverableError(w)
        \/ /\ txn[w] = "open" /\ st.op # "deleting" /\ Unfit(w, st)
           /\ RecoverableError(w)
        \/ /\ txn[w] = "open" /\ st.op # "deleting" /\ ~Unfit(w, st)
           /\ Awaited(w, st) = {}
           /\ \/ /\ st.op = "delete"
                 /\ stmts' = [stmts EXCEPT ![w][1] =
                                [op |-> "deleting", rows |-> Targets(w, st.row)]]
                 /\ UNCHANGED <<store, pc, batch, next, ensured, rejected, status, faults>>
              \/ /\ st.op = "upsert"
                 /\ versions' = Upserted(w, st.row, st.doc)
                 /\ NextDml(w)
              \/ /\ st.op = "insert" /\ Existing(w, st.row) = {}
                 /\ versions' = Inserted(w, st.row, st.doc)
                 /\ NextDml(w)
              \/ /\ st.op = "insert" /\ Existing(w, st.row) # {}
                 /\ RecoverableError(w)
        \/ /\ txn[w] = "open" /\ st.op = "deleting" /\ Awaited(w, st) = {}
           /\ versions' = Deleted(w, StillThere(st))
           /\ NextDml(w)

(* Nobody waits for ever: of the transactions that wait for each other in  *)
(* a circle, PostgreSQL fails one.                                         *)
Waits ==
  [p \in Workers \X Workers |->
     /\ txn[p[1]] = "open" /\ pc[p[1]] \in {"ddl", "dml"}
     /\ p[2] \in Awaited(p[1], Head(stmts[p[1]]))]

DeadlockVictim(w) ==
  /\ pc[w] \in {"ddl", "dml"}
  /\ TransitiveClosure(Waits, Workers)[<<w, w>>]
  /\ RecoverableError(w)

Commit(w) ==
  /\ pc[w] = "message"
  /\ ~More(w)
  /\ txn[w] = "open"
  /\ EndByCommit(w)
  /\ Goto(w, "idle")
  /\ status' = [status EXCEPT ![batch[w]] = "done"]
  /\ UNCHANGED <<locals, faults>>

(* Mutation: the error of COMMIT is not looked at.                         *)
CommitErrorIgnored(w) ==
  /\ pc[w] = "message"
  /\ ~More(w)
  /\ IF txn[w] = "open" THEN Fault ELSE UNCHANGED faults
  /\ EndByRollback(w)
  /\ Goto(w, "idle")
  /\ status' = [status EXCEPT ![batch[w]] = "done"]
  /\ UNCHANGED locals

(* COMMIT is an error and nothing is committed: the connection breaks      *)
(* before it takes effect, or the transaction is aborted.                  *)
CommitFails(w) ==
  /\ pc[w] = "message"
  /\ ~More(w)
  /\ IF txn[w] = "open" THEN Fault ELSE UNCHANGED faults
  /\ EndByRollback(w)
  /\ ReturnError(w)
  /\ UNCHANGED locals

(* The connection breaks while COMMIT is under way: it took effect, but    *)
(* the worker learns of an error.                                          *)
CommitUnknown(w) ==
  /\ pc[w] = "message"
  /\ ~More(w)
  /\ txn[w] = "open"
  /\ Fault
  /\ EndByCommit(w)
  /\ ReturnError(w)
  /\ UNCHANGED locals

(* Mutation: an error return without the deferred Rollback.                *)
RollbackForgotten(w) ==
  /\ pc[w] = "rollback"
  /\ ReturnError(w)
  /\ UNCHANGED <<store, locals, faults>>

(* Mutation: what was done before the error is committed.                  *)
RollbackCommits(w) ==
  /\ pc[w] = "rollback"
  /\ IF txn[w] = "open" THEN EndByCommit(w) ELSE EndByRollback(w)
  /\ ReturnError(w)
  /\ UNCHANGED <<locals, faults>>

(* The deferred Rollback after an error.                                   *)
Rollback(w) ==
  /\ pc[w] = "rollback"
  /\ EndByRollback(w)
  /\ ReturnError(w)
  /\ UNCHANGED <<locals, faults>>

-----------------------------------------------------------------------------
(* The environment.                                                        *)

(* The process or its connection dies; the server ends its transaction.    *)
Crash(w) ==
  /\ pc[w] # "idle"
  /\ Fault
  /\ EndByRollback(w)
  /\ ReturnError(w)
  /\ UNCHANGED locals

(* The acknowledgement of a stored batch is lost.                          *)
Redeliver(b) ==
  /\ status[b] = "done"
  /\ Fault
  /\ status' = [status EXCEPT ![b] = "waiting"]
  /\ UNCHANGED <<store, pc, locals>>

Step(w) ==
  \/ Plan(w)
  \/ Ensure(w)
  \/ ExecDdl(w)
  \/ Render(w)
  \/ ExecDml(w)
  \/ DeadlockVictim(w)
  \/ Commit(w)
  \/ Rollback(w)

Next ==
  \/ \E w \in Workers, b \in Batches : Begin(w, b)
  \/ \E w \in Workers : Step(w)
  \/ \E w \in Workers : LoadFails(w) \/ ReadFails(w)
  \/ \E w \in Workers : CommitFails(w) \/ CommitUnknown(w) \/ Crash(w)
  \/ \E b \in Batches : Redeliver(b)

Spec == Init /\ [][Next]_vars

(* A worker goes on with its batch, the server answers it, and Bento       *)
(* delivers what waits; nothing is assumed of the faults.  PostgreSQL      *)
(* queues those who wait for a lock and wakes them when its holder ends:   *)
(* a statement that can go on again and again is not passed over for ever, *)
(* hence strong fairness.                                                  *)
Fairness ==
  /\ \A w \in Workers : SF_vars(Step(w))
  /\ \A b \in Batches : WF_vars(\E w \in Workers : Begin(w, b))

FairSpec == Spec /\ Fairness

-----------------------------------------------------------------------------
(* Properties.                                                             *)

(* The rows everybody can see.                                             *)
Stored ==
  {[row |-> v.row, doc |-> v.doc] : v \in {x \in versions : x.by = Committed}}

DocOf(b, i, x) == x.doc[1] = b /\ x.doc[2] = i

Accepted(w) == (1..Len(Content[batch[w]])) \ rejected[w]

SameKey(b, i, j) == RowOf(Msg(b, i), 0) = RowOf(Msg(b, j), 0)

(* The messages of the batch that no later one of it replaces.             *)
Lasting(w) ==
  {i \in Accepted(w) : \A j \in Accepted(w) : j > i => ~SameKey(batch[w], i, j)}

(* This step stored the batch of w: every row of every lasting message is  *)
(* there, and nothing has appeared that is not of an accepted message.     *)
StoresBatch(w) ==
  LET b == batch[w]
  IN /\ \A i \in Lasting(w) : \A no \in 0..Items(Msg(b, i)) :
          \E x \in Stored' : x.row = RowOf(Msg(b, i), no) /\ DocOf(b, i, x)
     /\ \A x \in Stored' \ Stored : \E i \in Accepted(w) : DocOf(b, i, x)

(* Whatever errors, waits, victims and crashes come between its            *)
(* statements, a batch is stored in one step, complete but for the         *)
(* messages it rejected; and ProcessBatch reports success only then        *)
(* (processor.go:85-132: one transaction, nothing partial).                *)
AllOrNothing ==
  [][/\ Stored' # Stored => \E w \in Workers : StoresBatch(w)
     /\ \A b \in Batches :
          status[b] # "done" /\ status'[b] = "done"
            => \E w \in Workers : batch[w] = b /\ StoresBatch(w)]_vars

RowsOf(x) == {y \in Stored : y.row.table = x.row.table /\ y.row.key = x.row.key}

(* What is stored under a key is one document: its root row and exactly    *)
(* the child rows of the same delivery (processor.go:185-189, and          *)
(* spec.go:128-130 for the upsert).                                        *)
WholeDocument ==
  \A x \in Stored :
    \E r \in RowsOf(x) :
      /\ r.row.no = 0
      /\ {y.row.no : y \in RowsOf(x)} = 0..Items(Msg(r.doc[1], r.doc[2]))
      /\ \A y \in RowsOf(x) : y.doc = r.doc

(* What the processors promise, of which every step of theirs is a step or *)
(* none: neither a reader nor Bento can tell the deliveries of a message   *)
(* apart.                                                                  *)
Fits(m) == m.fate \notin {"unplannable", "misfit"}

KeyOf(row) == <<row.table, row.key>>

KeyFor(m) == KeyOf(RowOf(m, 0))

RowsFor(m) == {RowOf(m, no) : no \in 0..Items(m)}

StoredMessages ==
  {[row |-> x.row, batch |-> x.doc[1], place |-> x.doc[2]] : x \in Stored}

Promise == INSTANCE AtomicBatches
             WITH stored <- StoredMessages, Key <- KeyFor, Rows <- RowsFor,
                  Replacing <- Upsert, Lenient <- PerMessage

(* However the statements of several workers interleave, wait, fail and    *)
(* are repeated, a batch that fits changes what is stored in one step, to  *)
(* its messages' rows under their keys and to nothing else under any other,*)
(* and the insert processor only where the keys were free                  *)
(* (processor.go:85-132, 179-189, spec.go:126-131).                        *)
ImplementsAtomicBatches == Promise!Spec

(* The root table guards the whole model (processor.go:195-196): when any  *)
(* part of a model is committed, all of it is.                             *)
ModelWhole ==
  \A r \in relations :
    r.by = Committed =>
      \A p \in 1..Len(Phases) :
        \E q \in relations : q.by = Committed /\ q.name = <<r.name[1], Phases[p]>>

(* The messages for which there is a model, those among them included that *)
(* are rejected afterwards because their payload cannot be rendered.       *)
Planned(b) == {i \in 1..Len(Content[b]) : Msg(b, i).fate # "unplannable"}

IsModelOf(r, m) == r.name[1] = IdentName[m.table] /\ r.cols = m.cols

(* Models come with the batches that need them, neither earlier nor later, *)
(* whoever creates them and whatever is rolled back or rejected: an object *)
(* of a model appears only where the end of a batch commits one of its     *)
(* messages' models, and when a batch is stored, each of its messages that *)
(* could be planned finds its root table, the rejected ones included       *)
(* (processor.go:166-183: the model comes before the payload).             *)
ModelsComeWithBatches ==
  [][/\ \A r \in relations' \ relations :
          r.by = Committed =>
            \E w \in Workers :
              /\ pc[w] = "message" /\ ~More(w) /\ pc'[w] = "idle"
              /\ \E i \in Planned(batch[w]) : IsModelOf(r, Msg(batch[w], i))
     /\ \A b \in Batches :
          CreateModel /\ status[b] # "done" /\ status'[b] = "done" =>
            \A i \in Planned(b) :
              \E r \in relations' :
                r.by = Committed /\ r.name = <<IdentName[Msg(b, i).table], "tables">>]_vars

(* A table that was created from an older schema is not altered            *)
(* (processor.go:202-209): no message is stored with fewer columns than    *)
(* its own schema gives it.  The batch fails instead, whoever created the  *)
(* table and whenever (dml.go:295-298: every column is named).             *)
ColumnsThere ==
  \A v \in versions :
    v.by = Committed =>
      Msg(v.doc[1], v.doc[2]).cols \subseteq Columns(Committed, <<v.row.table, "tables">>)

(* A table ensureModel need not look up again is really there for the      *)
(* transaction, although what created it may have been rolled back         *)
(* (processor.go:108, 202-220).                                            *)
EnsuredSound ==
  \A w \in Workers :
    pc[w] # "idle" /\ txn[w] = "open" =>
      \A t \in ensured[w] : Known(w, <<IdentName[t], "tables">>)

(* The model is created only where it does not exist (spec.go:71): no      *)
(* worker sets out to create a model it can already see.                   *)
CreatesOnlyAbsent ==
  [][\A w \in Workers :
       pc[w] = "ensure" /\ pc'[w] = "ddl"
         => ~Known(w, <<IdentName[Current(w).table], "tables">>)]_vars

(* A stream that finds a model created meanwhile by another skips the      *)
(* statement and goes on (processor.go:224-225, 232-235): no statement is  *)
(* refused because an earlier one of the batch was skipped.                *)
AlreadyExistsTolerated ==
  [][\A w \in Workers :
       pc[w] \in {"ensure", "ddl", "dml"} /\ pc'[w] = "rollback"
         => txn[w] = "open"]_vars

(* The insert processor never changes or removes what is stored, however   *)
(* often a batch is delivered (processor.go:179).                          *)
InsertKeeps == [][~Upsert => Stored \subseteq Stored']_vars

(* Two workers that wait for each other, for the same table name, row or   *)
(* both, do not wait for ever: every ProcessBatch returns and releases     *)
(* what it held (processor.go:101-106).                                    *)
BatchAnswered ==
  \A b \in Batches : status[b] = "running" ~> status[b] # "running"

(* Upserting is worth retrying: each batch is stored in the end, whatever  *)
(* races it lost before and whatever messages it has to reject under       *)
(* per_message (processor.go:111-117).                                     *)
EventuallyStored ==
  \A b \in Batches : <>(status[b] = "done")

=============================================================================
