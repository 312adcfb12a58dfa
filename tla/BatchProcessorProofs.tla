------------------------ MODULE BatchProcessorProofs ------------------------
(***************************************************************************)
(* Proofs about BatchProcessor, for any workers, batches, messages, table  *)
(* names, models left by earlier runs, options and number of faults: what  *)
(* is cached and created, what a failed batch leaves, what an insert adds, *)
(* and that a batch is stored in one step, complete, or not at all.        *)
(***************************************************************************)
EXTENDS BatchProcessor, TLAPS

(* A worker past the head of the loop has a message in hand, and while it  *)
(* executes statements there is one to execute.                            *)
InHand ==
  \A w \in Workers :
    /\ 1 <= next[w]
    /\ pc[w] \in {"ensure", "ddl", "render", "dml"} => More(w)
    /\ pc[w] = "ddl" => stmts[w] \in Seq(DdlLines) \ {<<>>}
    /\ pc[w] = "dml" => stmts[w] \in Seq(DmlLines) \ {<<>>}

TypeInv == TypeOK /\ InHand

(* The message a processor works on is one of its batch.                    *)
LEMMA CurrentMessage ==
  ASSUME TypeInv, NEW w \in Workers, More(w)
  PROVE  /\ Current(w) \in Messages
         /\ Current(w).table \in DOMAIN IdentName
<1>1. batch[w] \in Batches /\ next[w] \in 1..Len(Content[batch[w]])
  BY ProcessorAssumption DEF TypeInv, TypeOK, InHand, More
<1>2. Content[batch[w]][next[w]] \in Messages
  BY <1>1 DEF Messages
<1> QED
  BY <1>2, ProcessorAssumption DEF Current, Msg

(* The statements a message leads to.                                      *)
LEMMA DdlTyped ==
  ASSUME NEW m \in Messages
  PROVE  /\ Ddl(m) \in Seq(DdlLines) /\ Len(Ddl(m)) = 3
         /\ \A p \in 1..3 :
              /\ Ddl(m)[p].op = "create" /\ Ddl(m)[p].name = <<IdentName[m.table], Phases[p]>>
              /\ Ddl(m)[p].cols = m.cols
<1>1. Len(Phases) = 3
  BY DEF Phases
<1>2. m.table \in DOMAIN IdentName /\ m.cols \in ColumnSets
  BY ProcessorAssumption DEF ColumnSets
<1>3. IdentName[m.table] \in Identifiers
  BY <1>2 DEF Identifiers
<1>4. \A p \in 1..3 : <<IdentName[m.table], Phases[p]>> \in Names
  BY <1>1, <1>3 DEF Names
<1>5. Ddl(m) = [p \in 1..3 |-> [op |-> "create", name |-> <<IdentName[m.table], Phases[p]>>,
                                cols |-> m.cols]]
  BY <1>1 DEF Ddl
<1>6. Ddl(m) \in [1..3 -> DdlLines]
  BY <1>2, <1>4, <1>5 DEF DdlLines
<1> QED
  BY <1>5, <1>6

(* A rendered line is a DML line of the verb it was rendered for.           *)
LEMMA LineTyped ==
  ASSUME NEW m \in Messages, NEW doc \in Docs, NEW no \in Nat,
         NEW op \in {"insert", "upsert", "delete"}
  PROVE  /\ Line(op, m, doc, no) \in DmlLines
         /\ Line(op, m, doc, no).op = op
<1>1. m.table \in DOMAIN IdentName /\ m.cols \in ColumnSets
  BY ProcessorAssumption DEF ColumnSets
<1>2. IdentName[m.table] \in Identifiers
  BY <1>1 DEF Identifiers
<1>3. RowOf(m, no) \in Rows
  BY <1>2 DEF RowOf, Rows
<1> QED
  BY <1>1, <1>3 DEF Line, DmlLines

(* The lines rendered for the nested items are INSERT lines.                *)
LEMMA ChildrenTyped ==
  ASSUME NEW m \in Messages, NEW doc \in Docs
  PROVE  /\ ChildInserts(m, doc) \in Seq(DmlLines)
         /\ \A i \in 1..Len(ChildInserts(m, doc)) : ChildInserts(m, doc)[i].op = "insert"
<1>1. Items(m) \in Nat
  BY ProcessorAssumption DEF Items
<1>2. \A no \in 1..Items(m) :
        Line("insert", m, doc, no) \in DmlLines /\ Line("insert", m, doc, no).op = "insert"
  BY <1>1, LineTyped
<1>3. ChildInserts(m, doc) = [no \in 1..Items(m) |-> Line("insert", m, doc, no)]
  BY DEF ChildInserts
<1>4. ChildInserts(m, doc) \in [1..Items(m) -> DmlLines]
  BY <1>2, <1>3
<1> QED
  BY <1>1, <1>2, <1>3, <1>4

(* What a message renders to is a non-empty list of DML lines.              *)
LEMMA DmlTyped ==
  ASSUME TypeInv, NEW w \in Workers, More(w)
  PROVE  /\ Dml(w) \in Seq(DmlLines) \ {<<>>}
         /\ ~Upsert => \A i \in 1..Len(Dml(w)) : Dml(w)[i].op = "insert"
<1> DEFINE m == Current(w)
           doc == <<batch[w], next[w], faults>>
<1>1. m \in Messages /\ doc \in Docs
  BY CurrentMessage, ProcessorAssumption DEF TypeInv, TypeOK, Docs
<1> HIDE DEF m, doc
<1>2. Line("insert", m, doc, 0) \in DmlLines /\ Line("insert", m, doc, 0).op = "insert"
  BY <1>1, LineTyped
<1>3. Line("upsert", m, doc, 0) \in DmlLines /\ Line("delete", m, doc, 0) \in DmlLines
  BY <1>1, LineTyped
<1>4. /\ ChildInserts(m, doc) \in Seq(DmlLines)
      /\ \A i \in 1..Len(ChildInserts(m, doc)) : ChildInserts(m, doc)[i].op = "insert"
  BY <1>1, ChildrenTyped
<1>5. /\ InsertStatements(m, doc) \in Seq(DmlLines) \ {<<>>}
      /\ \A i \in 1..Len(InsertStatements(m, doc)) : InsertStatements(m, doc)[i].op = "insert"
  BY <1>2, <1>4 DEF InsertStatements
<1>6. Deletes(m, doc) \in Seq(DmlLines)
  BY <1>3 DEF Deletes
<1>7. UpsertStatements(m, doc) \in Seq(DmlLines) \ {<<>>}
  BY <1>3, <1>4, <1>6 DEF UpsertStatements
<1> QED
  BY <1>5, <1>7 DEF Dml, m, doc

-----------------------------------------------------------------------------
(* Type correctness.                                                       *)

(* What StoreInit, a statement and the end of a transaction leave is typed. *)
LEMMA LeftBehindTyped == ASSUME NEW T \in SUBSET Earlier PROVE LeftBehind(T) \subseteq Relations
<1>1. \A m \in T, p \in 1..Len(Phases) : <<m.table, Phases[p]>> \in Names /\ m.cols \in ColumnSets
  BY DEF Names, Identifiers, ColumnSets
<1> QED
  BY <1>1 DEF LeftBehind, Relations

(* CREATE TABLE leaves a set of well-formed relations.                      *)
LEMMA CreatedTyped ==
  ASSUME TypeOK, NEW w \in Workers, NEW name \in Names, NEW cols \in ColumnSets
  PROVE  Created(w, name, cols) \subseteq Relations
BY DEF TypeOK, Created, Relations

(* A DELETE leaves a set of well-formed row versions.                       *)
LEMMA DeletedTyped ==
  ASSUME TypeOK, NEW w \in Workers, NEW old \in SUBSET versions
  PROVE  Deleted(w, old) \subseteq RowVersions
<1>1. \A x \in RowVersions : [x EXCEPT !.del = w] \in RowVersions
  BY DEF RowVersions
<1> QED
  BY <1>1 DEF TypeOK, Deleted

(* An INSERT or upsert leaves a set of well-formed row versions.            *)
LEMMA WriteTyped ==
  ASSUME TypeOK, NEW w \in Workers, NEW row \in Rows, NEW doc \in Docs
  PROVE  /\ Inserted(w, row, doc) \subseteq RowVersions
         /\ Upserted(w, row, doc) \subseteq RowVersions
<1>1. \A x \in SUBSET versions : Deleted(w, x) \subseteq RowVersions
  BY DeletedTyped
<1>2. [row |-> row, doc |-> doc, by |-> w, del |-> Nobody] \in RowVersions
  BY DEF RowVersions
<1>3. Existing(w, row) \subseteq versions
  BY DEF Existing, Visible
<1> QED
  BY <1>1, <1>2, <1>3 DEF TypeOK, Inserted, Upserted

(* The end of a transaction leaves well-formed relations and row versions.  *)
LEMMA EndTyped ==
  ASSUME TypeOK, NEW w \in Workers, EndByCommit(w) \/ EndByRollback(w)
  PROVE  /\ txn' \in [Workers -> {"none", "open", "aborted"}]
         /\ relations' \subseteq Relations
         /\ versions' \subseteq RowVersions
<1>1. txn' = [txn EXCEPT ![w] = "none"]
  BY DEF EndByCommit, EndByRollback
<1>2. CASE EndByCommit(w)
  <2>1. \A r \in Relations : [r EXCEPT !.by = IF @ = w THEN Committed ELSE @] \in Relations
    BY DEF Relations
  <2>2. \A v \in RowVersions : [v EXCEPT !.by = IF @ = w THEN Committed ELSE @] \in RowVersions
    BY DEF RowVersions
  <2> QED
    BY <1>1, <1>2, <2>1, <2>2 DEF TypeOK, EndByCommit, CommittedRelations, CommittedVersions
<1>3. CASE EndByRollback(w)
  <2>1. \A v \in RowVersions : [v EXCEPT !.del = IF @ = w THEN Nobody ELSE @] \in RowVersions
    BY DEF RowVersions
  <2> QED
    BY <1>1, <1>3, <2>1 DEF TypeOK, EndByRollback
<1> QED
  BY <1>2, <1>3

(* The program starts well typed.                                           *)
LEMMA TypeInit == Init => TypeInv
<1> SUFFICES ASSUME Init PROVE TypeInv
  OBVIOUS
<1>1. PICK T \in SUBSET Earlier : StoreInit(LeftBehind(T))
  BY DEF Init
<1>2. /\ txn \in [Workers -> {"none", "open", "aborted"}]
      /\ versions = {} /\ relations \subseteq Relations
  BY <1>1, LeftBehindTyped DEF StoreInit, Workers
<1>3. stmts \in [Workers -> Seq(DdlLines \cup DmlLines)]
  BY DEF Init
<1> QED
  BY <1>2, <1>3, ProcessorAssumption DEF Init, TypeInv, TypeOK, InHand

(* Setting a message aside keeps the types.                                 *)
LEMMA TypePermanentError ==
  ASSUME TypeInv, NEW w \in Workers, PermanentError(w)
  PROVE  TypeInv'
<1> USE DEF TypeInv, TypeOK, InHand, More, store, Goto
<1>1. CASE PerMessage
  <2>1. /\ rejected' = [rejected EXCEPT ![w] = @ \cup {next[w]}]
        /\ next' = [next EXCEPT ![w] = @ + 1]
        /\ pc' = [pc EXCEPT ![w] = "message"]
        /\ UNCHANGED <<relations, versions, txn, batch, ensured, stmts, status, faults>>
    BY <1>1 DEF PermanentError
  <2>2. rejected' \in [Workers -> SUBSET Nat]
    BY <2>1
  <2>3. next' \in [Workers -> Nat] /\ \A x \in Workers : 1 <= next'[x]
    BY <2>1
  <2> QED
    BY <2>1, <2>2, <2>3
<1>2. CASE ~PerMessage
  BY <1>2 DEF PermanentError
<1> QED
  BY <1>1, <1>2

(* Every step but the DDL and DML statements.                              *)
LEMMA TypeControl ==
  ASSUME TypeInv, NEW w \in Workers,
         \/ Plan(w) \/ LoadFails(w) \/ ReadFails(w) \/ Render(w) \/ DeadlockVictim(w)
         \/ \E b \in Batches : Begin(w, b)
  PROVE  TypeInv'
<1> USE ProcessorAssumption DEF TypeInv, TypeOK, InHand, More, store, locals, Goto, Fault
<1>1. CASE Plan(w)
  <2>1. CASE PermanentError(w)
    BY <2>1, TypePermanentError
  <2>2. CASE ~PermanentError(w)
    BY <1>1, <2>2 DEF Plan
  <2> QED
    BY <2>1, <2>2
<1>2. CASE LoadFails(w) \/ ReadFails(w)
  <2>1. CASE LoadFails(w)
    BY <2>1 DEF LoadFails
  <2>2. CASE ReadFails(w)
    BY <2>2 DEF ReadFails
  <2> QED
    BY <1>2, <2>1, <2>2
<1>3. CASE Render(w)
  <2>1. CASE PermanentError(w)
    BY <2>1, TypePermanentError
  <2>2. CASE ~PermanentError(w)
    <3>1. Dml(w) \in Seq(DmlLines) \ {<<>>}
      BY <1>3, DmlTyped DEF Render
    <3>2. Dml(w) \in Seq(DdlLines \cup DmlLines)
      BY <3>1
    <3>3. /\ stmts' = [stmts EXCEPT ![w] = Dml(w)]
          /\ pc[w] = "render" /\ pc' = [pc EXCEPT ![w] = "dml"]
          /\ UNCHANGED <<store, batch, next, ensured, rejected, status, faults>>
      BY <1>3, <2>2 DEF Render
    <3> HIDE DEF Dml
    <3> QED
      BY <3>1, <3>2, <3>3
  <2> QED
    BY <2>1, <2>2
<1>4. CASE DeadlockVictim(w)
  BY <1>4 DEF DeadlockVictim, RecoverableError
<1>5. ASSUME NEW b \in Batches, Begin(w, b) PROVE TypeInv'
  BY <1>5 DEF Begin
<1> QED
  BY <1>1, <1>2, <1>3, <1>4, <1>5

(* The end of a batch keeps the types.                                      *)
LEMMA TypeEnd ==
  ASSUME TypeInv, NEW w \in Workers,
         Commit(w) \/ CommitFails(w) \/ CommitUnknown(w) \/ Rollback(w) \/ Crash(w)
  PROVE  TypeInv'
<1>1. EndByCommit(w) \/ EndByRollback(w)
  BY DEF Commit, CommitFails, CommitUnknown, Rollback, Crash
<1>2. /\ txn' \in [Workers -> {"none", "open", "aborted"}]
      /\ relations' \subseteq Relations /\ versions' \subseteq RowVersions
  BY <1>1, EndTyped DEF TypeInv
<1>3. pc' = [pc EXCEPT ![w] = "idle"] /\ UNCHANGED locals
  BY DEF Commit, CommitFails, CommitUnknown, Rollback, Crash, ReturnError, Goto
<1>4. status' \in [Batches -> {"waiting", "running", "done"}]
  BY DEF TypeInv, TypeOK, Commit, CommitFails, CommitUnknown, Rollback, Crash, ReturnError
<1>5. UNCHANGED faults \/ Fault
  BY DEF Commit, CommitFails, CommitUnknown, Rollback, Crash
<1>6. faults' \in 0..MaxFaults
  BY <1>5, ProcessorAssumption DEF TypeInv, TypeOK, Fault
<1> QED
  BY <1>2, <1>3, <1>4, <1>6 DEF TypeInv, TypeOK, InHand, More, locals

(* A statement of the DDL list keeps the types.                             *)
LEMMA TypeDdl ==
  ASSUME TypeInv, NEW w \in Workers, Ensure(w) \/ ExecDdl(w)
  PROVE  TypeInv'
<1> USE ProcessorAssumption DEF TypeInv, TypeOK, InHand, More, store, locals, Goto
<1>1. CASE RecoverableError(w)
  BY <1>1 DEF RecoverableError
<1>2. CASE Ensure(w) /\ ~RecoverableError(w)
  <2>1. Current(w) \in Messages /\ Current(w).table \in DOMAIN IdentName
    BY <1>2, CurrentMessage DEF Ensure
  <2>2. /\ Ddl(Current(w)) \in Seq(DdlLines) \ {<<>>}
        /\ Ddl(Current(w)) \in Seq(DdlLines \cup DmlLines)
    BY <2>1, DdlTyped
  <2>3. ASSUME NowEnsured(w), pc' = [pc EXCEPT ![w] = "render"], UNCHANGED stmts,
               UNCHANGED <<store, batch, next, rejected, status, faults>>
        PROVE  TypeInv'
    BY <1>2, <2>1, <2>3 DEF Ensure, NowEnsured
  <2>4. ASSUME stmts' = [stmts EXCEPT ![w] = Ddl(Current(w))],
               pc' = [pc EXCEPT ![w] = "ddl"],
               UNCHANGED <<store, batch, next, ensured, rejected, status, faults>>
        PROVE  TypeInv'
    BY <1>2, <2>2, <2>4 DEF Ensure
  <2>5. ASSUME pc' = [pc EXCEPT ![w] = "render"], UNCHANGED <<store, locals, status, faults>>
        PROVE  TypeInv'
    BY <1>2, <2>5 DEF Ensure
  <2> QED
    BY <1>2, <2>3, <2>4, <2>5 DEF Ensure
<1>3. CASE ExecDdl(w) /\ ~RecoverableError(w)
  <2> DEFINE st == Head(stmts[w])
  <2>1. Current(w).table \in DOMAIN IdentName
    BY <1>3, CurrentMessage DEF ExecDdl
  <2>2. /\ stmts[w] \in Seq(DdlLines) \ {<<>>} /\ st \in DdlLines
        /\ Tail(stmts[w]) \in Seq(DdlLines)
        /\ Tail(stmts[w]) \in Seq(DdlLines \cup DmlLines)
    BY <1>3 DEF ExecDdl
  <2>3. Created(w, st.name, st.cols) \subseteq Relations
    BY <2>2, CreatedTyped DEF DdlLines
  <2>4. ASSUME NextDdl(w), relations' \subseteq Relations, UNCHANGED versions,
               txn' = txn \/ txn' = [txn EXCEPT ![w] = "aborted"]
        PROVE  TypeInv'
    <3>1. CASE Tail(stmts[w]) = <<>>
      <4>1. ensured' = [ensured EXCEPT ![w] = @ \cup {Current(w).table}]
        BY <2>4, <3>1 DEF NextDdl, NowEnsured
      <4>2. ensured' \in [Workers -> SUBSET DOMAIN IdentName]
        BY <2>1, <4>1
      <4>3. /\ stmts' = [stmts EXCEPT ![w] = Tail(@)]
            /\ pc' = [pc EXCEPT ![w] = "render"]
            /\ UNCHANGED <<batch, next, rejected, status, faults>>
        BY <2>4, <3>1 DEF NextDdl
      <4> QED
        BY <1>3, <2>2, <2>4, <4>2, <4>3 DEF ExecDdl
    <3>2. CASE Tail(stmts[w]) # <<>>
      BY <1>3, <2>2, <2>4, <3>2 DEF ExecDdl, NextDdl
    <3> QED
      BY <3>1, <3>2
  <2>5. ASSUME stmts' = [stmts EXCEPT ![w][1].op = "recreate"],
               UNCHANGED <<store, pc, batch, next, ensured, rejected, status, faults>>
        PROVE  TypeInv'
    <3> DEFINE new == [stmts[w] EXCEPT ![1].op = "recreate"]
    <3>1. \A x \in DdlLines : [x EXCEPT !.op = "recreate"] \in DdlLines
      BY DEF DdlLines
    <3>2. stmts[w][1] \in DdlLines
      BY <2>2
    <3>3. new = [stmts[w] EXCEPT ![1] = [stmts[w][1] EXCEPT !.op = "recreate"]]
      OBVIOUS
    <3>4. new \in Seq(DdlLines) \ {<<>>}
      BY <2>2, <3>1, <3>2, <3>3
    <3>5. new \in Seq(DdlLines \cup DmlLines)
      BY <3>4
    <3>6. stmts' = [stmts EXCEPT ![w] = new]
      BY <2>5
    <3> HIDE DEF new
    <3>7. pc[w] = "ddl" /\ UNCHANGED <<pc, batch, next>>
      BY <1>3, <2>5 DEF ExecDdl
    <3>8. stmts' \in [Workers -> Seq(DdlLines \cup DmlLines)]
      BY <3>5, <3>6
    <3>9. stmts'[w] = new /\ \A x \in Workers \ {w} : stmts'[x] = stmts[x]
      BY <3>6
    <3>10. TypeOK'
      BY <2>5, <3>8
    <3>11. ASSUME NEW x \in Workers
           PROVE  /\ 1 <= next'[x]
                  /\ pc'[x] \in {"ensure", "ddl", "render", "dml"} => More(x)'
                  /\ pc'[x] = "ddl" => stmts'[x] \in Seq(DdlLines) \ {<<>>}
                  /\ pc'[x] = "dml" => stmts'[x] \in Seq(DmlLines) \ {<<>>}
      <4>1. CASE x = w
        BY <3>4, <3>7, <3>9, <4>1
      <4>2. CASE x # w
        BY <3>7, <3>9, <4>2
      <4> QED
        BY <4>1, <4>2
    <3> HIDE DEF TypeOK
    <3> QED
      BY <3>10, <3>11
  <2> QED
    BY <1>3, <2>3, <2>4, <2>5 DEF ExecDdl
<1> QED
  BY <1>1, <1>2, <1>3

(* A statement of the DML list keeps the types.                             *)
LEMMA TypeDml ==
  ASSUME TypeInv, NEW w \in Workers, ExecDml(w)
  PROVE  TypeInv'
<1> USE DEF TypeInv, TypeOK, InHand, More, store, Goto
<1> DEFINE st == Head(stmts[w])
<1>1. CASE RecoverableError(w)
  BY <1>1 DEF RecoverableError, locals
<1>2. /\ pc[w] = "dml" /\ More(w)
      /\ stmts[w] \in Seq(DmlLines) \ {<<>>} /\ st \in DmlLines
      /\ Tail(stmts[w]) \in Seq(DmlLines)
      /\ Tail(stmts[w]) \in Seq(DdlLines \cup DmlLines)
  BY DEF ExecDml
<1>3. ASSUME NextDml(w), versions' \subseteq RowVersions PROVE TypeInv'
  <2>1. CASE Tail(stmts[w]) = <<>>
    <3>1. /\ stmts' = [stmts EXCEPT ![w] = Tail(@)]
          /\ next' = [next EXCEPT ![w] = @ + 1] /\ pc' = [pc EXCEPT ![w] = "message"]
          /\ UNCHANGED <<relations, txn, batch, ensured, rejected, status, faults>>
      BY <1>3, <2>1 DEF NextDml
    <3>2. next' \in [Workers -> Nat] /\ \A x \in Workers : 1 <= next'[x]
      BY <3>1
    <3> QED
      BY <1>2, <1>3, <3>1, <3>2
  <2>2. CASE Tail(stmts[w]) # <<>>
    BY <1>2, <1>3, <2>2 DEF NextDml
  <2> QED
    BY <2>1, <2>2
<1>4. CASE st.op = "delete" /\ ~RecoverableError(w)
  <2> DEFINE new == [stmts[w] EXCEPT ![1] = [op |-> "deleting", rows |-> Targets(w, st.row)]]
  <2>1. Targets(w, st.row) \subseteq RowVersions
    BY DEF Targets, Visible
  <2>2. [op |-> "deleting", rows |-> Targets(w, st.row)] \in DmlLines
    BY <2>1 DEF DmlLines
  <2>3. new \in Seq(DmlLines) \ {<<>>}
    BY <1>2, <2>2
  <2>4. new \in Seq(DdlLines \cup DmlLines)
    BY <2>3
  <2>5. /\ stmts' = [stmts EXCEPT ![w] = new]
        /\ UNCHANGED <<store, pc, batch, next, ensured, rejected, status, faults>>
    BY <1>4 DEF ExecDml
  <2> HIDE DEF new
  <2> QED
    BY <1>2, <2>3, <2>4, <2>5
<1>5. CASE st.op \in {"insert", "upsert"} /\ ~RecoverableError(w)
  <2>1. st.row \in Rows /\ st.doc \in Docs
    BY <1>2, <1>5 DEF DmlLines
  <2>2. NextDml(w) /\ versions' \in {Upserted(w, st.row, st.doc), Inserted(w, st.row, st.doc)}
    BY <1>5 DEF ExecDml
  <2>3. versions' \subseteq RowVersions
    BY <2>1, <2>2, WriteTyped
  <2> QED
    BY <1>3, <2>2, <2>3
<1>6. CASE st.op = "deleting" /\ ~RecoverableError(w)
  <2>1. NextDml(w) /\ versions' = Deleted(w, StillThere(st))
    BY <1>6 DEF ExecDml
  <2>2. StillThere(st) \in SUBSET versions
    BY DEF StillThere
  <2>3. versions' \subseteq RowVersions
    BY <2>1, <2>2, DeletedTyped
  <2> QED
    BY <1>3, <2>1, <2>3
<1>7. st.op \in {"insert", "upsert", "delete", "deleting"}
  BY <1>2 DEF DmlLines
<1> QED
  BY <1>1, <1>4, <1>5, <1>6, <1>7

(* Every step of ProcessBatch keeps the types.                              *)
LEMMA TypeStep == TypeInv /\ [Next]_vars => TypeInv'
<1> SUFFICES ASSUME TypeInv, [Next]_vars PROVE TypeInv'
  OBVIOUS
<1>1. ASSUME NEW w \in Workers, NEW b \in Batches, Begin(w, b) PROVE TypeInv'
  BY <1>1, TypeControl
<1>2. ASSUME NEW w \in Workers, Step(w) PROVE TypeInv'
  <2>1. CASE Plan(w) \/ Render(w) \/ DeadlockVictim(w)
    BY <2>1, TypeControl
  <2>2. CASE Ensure(w) \/ ExecDdl(w)
    BY <2>2, TypeDdl
  <2>3. CASE ExecDml(w)
    BY <2>3, TypeDml
  <2>4. CASE Commit(w) \/ Rollback(w)
    BY <2>4, TypeEnd
  <2> QED
    BY <1>2, <2>1, <2>2, <2>3, <2>4 DEF Step
<1>3. ASSUME NEW w \in Workers, LoadFails(w) \/ ReadFails(w) \/ CommitFails(w) \/ CommitUnknown(w) \/ Crash(w)
      PROVE  TypeInv'
  BY <1>3, TypeControl, TypeEnd
<1>4. ASSUME NEW b \in Batches, Redeliver(b) PROVE TypeInv'
  BY <1>4, ProcessorAssumption DEF Redeliver, TypeInv, TypeOK, InHand, More, store, locals, Fault
<1>5. CASE UNCHANGED vars
  BY <1>5 DEF vars, store, locals, TypeInv, TypeOK, InHand, More
<1> QED
  BY <1>1, <1>2, <1>3, <1>4, <1>5 DEF Next

(* The state keeps its type: statements, rows and relations are those of   *)
(* the messages, and no counter runs away (processor.go:89-190).           *)
THEOREM TypeCorrect == Spec => []TypeOK
<1>1. TypeInv => TypeOK
  BY DEF TypeInv
<1> QED
  BY <1>1, TypeInit, TypeStep, PTL DEF Spec

-----------------------------------------------------------------------------
(* Models are whole, and what is ensured is there.                         *)

Part(t, p) == <<t, Phases[p]>>

ModelName(w) == IdentName[Current(w).table]

(* w is about to create part k of its model: the statements left are for   *)
(* the parts from k on, and unless one has failed w can see the others.    *)
Creating(w, k) ==
  /\ Len(stmts[w]) = 4 - k
  /\ \A j \in 1..(4 - k) : stmts[w][j].name = Part(ModelName(w), k + j - 1)
  /\ txn[w] = "open" => \A p \in 1..(k - 1) : Known(w, Part(ModelName(w), p))

(* Every relation has the other parts of its model beside it, committed or *)
(* of the same transaction, unless that transaction is at work on it or    *)
(* can no longer commit.                                                   *)
HasAllParts(r) == \A p \in 1..3 : Known(r.by, Part(r.name[1], p))

Unfinished(r) ==
  \/ txn[r.by] # "open"
  \/ pc[r.by] = "ddl" /\ r.name[1] = ModelName(r.by)

ModelInv ==
  /\ \A w \in Workers : pc[w] = "ddl" => \E k \in 1..3 : Creating(w, k)
  /\ \A w \in Workers : pc[w] = "idle" => \A r \in relations : r.by # w
  /\ \A r \in relations : r.by = Committed => HasAllParts(r)
  /\ \A r \in relations : r.by \in Workers => HasAllParts(r) \/ Unfinished(r)
  /\ EnsuredSound

(* A step of w leaves the local state of every other worker alone.         *)
OnlyMoves(w) ==
  \A x \in Workers \ {w} :
    /\ pc'[x] = pc[x] /\ batch'[x] = batch[x] /\ next'[x] = next[x]
    /\ stmts'[x] = stmts[x] /\ ensured'[x] = ensured[x] /\ txn'[x] = txn[x]

(* What w does not see disappear stays as it was.                          *)
LEMMA CreatingStays ==
  ASSUME NEW w, NEW k \in 1..3, Creating(w, k),
         stmts'[w] = stmts[w], batch'[w] = batch[w], next'[w] = next[w], txn'[w] = txn[w],
         \A n : Known(w, n) => Known(w, n)'
  PROVE  Creating(w, k)'
BY DEF Creating, ModelName, Current, Msg

(* What a worker can see, it sees until its transaction ends.              *)
LEMMA OthersKnow ==
  ASSUME PostgresAssumption, TypeOK, NEW w \in Workers,
         \/ relations \subseteq relations'
         \/ EndByCommit(w) \/ EndByRollback(w)
  PROVE  \A x \in (Workers \cup {Committed}) \ {w} : \A n : Known(x, n) => Known(x, n)'
<1> SUFFICES ASSUME NEW x \in (Workers \cup {Committed}) \ {w}, NEW n, Known(x, n)
             PROVE  Known(x, n)'
  OBVIOUS
<1>1. PICK r \in relations : r.name = n /\ r.by \in {Committed, x}
  BY DEF Known
<1>2. CASE relations \subseteq relations'
  BY <1>1, <1>2 DEF Known
<1>3. CASE EndByCommit(w)
  <2> DEFINE q == [r EXCEPT !.by = IF @ = w THEN Committed ELSE @]
  <2>1. q \in relations'
    BY <1>1, <1>3 DEF EndByCommit, CommittedRelations
  <2>2. q.name = n /\ q.by \in {Committed, x}
    BY <1>1 DEF TypeOK, Relations
  <2> QED
    BY <2>1, <2>2 DEF Known
<1>4. CASE EndByRollback(w)
  BY <1>1, <1>4, PostgresAssumption DEF EndByRollback, Known, Workers
<1> QED
  BY <1>2, <1>3, <1>4

(* An earlier process left behind all the parts of a model it created.      *)
LEMMA LeftBehindWhole ==
  ASSUME NEW T, NEW m \in T, NEW p \in 1..Len(Phases)
  PROVE  [name |-> <<m.table, Phases[p]>>, cols |-> m.cols, by |-> Committed] \in LeftBehind(T)
BY DEF LeftBehind

(* The tables there at the start are of whole models.                       *)
LEMMA ModelInit == Init => ModelInv
<1> SUFFICES ASSUME Init PROVE ModelInv
  OBVIOUS
<1>1. PICK T \in SUBSET Earlier : StoreInit(LeftBehind(T))
  BY DEF Init
<1>2. ASSUME NEW r \in relations PROVE r.by = Committed /\ HasAllParts(r)
  <2>1. Len(Phases) = 3
    BY DEF Phases
  <2>2. PICK m \in T, o \in 1..3 :
          r = [name |-> <<m.table, Phases[o]>>, cols |-> m.cols, by |-> Committed]
    BY <1>1, <1>2, <2>1 DEF StoreInit, LeftBehind
  <2>3. \A p \in 1..3 :
          [name |-> <<m.table, Phases[p]>>, cols |-> m.cols, by |-> Committed] \in relations
    BY <1>1, <2>1, LeftBehindWhole DEF StoreInit
  <2>4. \A p \in 1..3 : Known(r.by, Part(r.name[1], p))
    BY <2>2, <2>3 DEF Known, Part
  <2> QED
    BY <2>2, <2>4 DEF HasAllParts
<1> QED
  BY <1>2, PostgresAssumption DEF Init, ModelInv, EnsuredSound, Workers

(* Steps of w that create nothing and do not end its transaction.          *)
LEMMA ModelQuiet ==
  ASSUME PostgresAssumption, TypeOK, ModelInv, NEW w \in Workers, OnlyMoves(w),
         pc[w] # "idle", pc'[w] \notin {"idle", "ddl"}, UNCHANGED relations,
         txn'[w] = "open" =>
           /\ txn[w] = "open" /\ pc[w] # "ddl"
           /\ \A t \in ensured'[w] : t \in ensured[w] \/ Known(w, <<IdentName[t], "tables">>)
  PROVE  ModelInv'
<1> USE DEF Workers
<1>1. \A x, n : Known(x, n)' = Known(x, n)
  BY DEF Known
<1>2. ASSUME NEW x \in Workers, pc'[x] = "ddl" PROVE \E k \in 1..3 : Creating(x, k)'
  <2>1. x # w /\ pc[x] = "ddl"
    BY <1>2 DEF OnlyMoves
  <2>2. PICK k \in 1..3 : Creating(x, k)
    BY <2>1 DEF ModelInv
  <2>3. Creating(x, k)'
    BY <1>1, <2>1, <2>2, CreatingStays DEF OnlyMoves
  <2> QED
    BY <2>3
<1>3. ASSUME NEW x \in Workers, pc'[x] = "idle" PROVE \A r \in relations' : r.by # x
  BY <1>3 DEF ModelInv, OnlyMoves
<1>4. ASSUME NEW r \in relations' PROVE HasAllParts(r)' = HasAllParts(r)
  BY <1>1 DEF HasAllParts
<1>5. ASSUME NEW r \in relations', r.by \in Workers PROVE HasAllParts(r)' \/ Unfinished(r)'
  <2>1. HasAllParts(r) \/ Unfinished(r)
    BY <1>5 DEF ModelInv
  <2>2. CASE r.by = w
    BY <1>4, <1>5, <2>1, <2>2 DEF Unfinished
  <2>3. CASE r.by # w
    BY <1>4, <1>5, <2>1, <2>3 DEF Unfinished, OnlyMoves, ModelName, Current, Msg
  <2> QED
    BY <2>2, <2>3
<1>6. EnsuredSound'
  <2> SUFFICES ASSUME NEW x \in Workers, pc'[x] # "idle", txn'[x] = "open", NEW t \in ensured'[x]
               PROVE  Known(x, <<IdentName[t], "tables">>)
    BY <1>1 DEF EnsuredSound
  <2>1. CASE x = w
    BY <2>1 DEF ModelInv, EnsuredSound
  <2>2. CASE x # w
    BY <2>2 DEF ModelInv, EnsuredSound, OnlyMoves
  <2> QED
    BY <2>1, <2>2
<1>7. \A r \in relations' : r.by = Committed => HasAllParts(r)'
  BY <1>4 DEF ModelInv
<1> QED
  BY <1>2, <1>3, <1>5, <1>6, <1>7 DEF ModelInv

(* The end of a transaction: a commit comes only after the last message.   *)
LEMMA ModelEnd ==
  ASSUME PostgresAssumption, TypeOK, ModelInv, NEW w \in Workers, OnlyMoves(w),
         pc'[w] = "idle", UNCHANGED locals,
         \/ EndByCommit(w) /\ txn[w] = "open" /\ pc[w] = "message"
         \/ EndByRollback(w)
  PROVE  ModelInv'
<1> USE DEF Workers
<1>1. \A x \in (Workers \cup {Committed}) \ {w} : \A n : Known(x, n) => Known(x, n)'
  BY OthersKnow
<1>2. w \in Sessions /\ Committed # w
  BY PostgresAssumption
<1>3. ASSUME NEW x \in Workers, pc'[x] = "ddl" PROVE \E k \in 1..3 : Creating(x, k)'
  <2>1. x # w /\ pc[x] = "ddl"
    BY <1>3 DEF OnlyMoves
  <2>2. PICK k \in 1..3 : Creating(x, k)
    BY <2>1 DEF ModelInv
  <2>3. Creating(x, k)'
    BY <1>1, <2>1, <2>2, CreatingStays DEF OnlyMoves
  <2> QED
    BY <2>3
<1>4. \A r \in relations' : r.by # w
  <2>1. CASE EndByCommit(w)
    <3>1. ASSUME NEW r \in relations PROVE [r EXCEPT !.by = IF @ = w THEN Committed ELSE @].by # w
      BY <1>2, <3>1 DEF TypeOK, Relations
    <3> QED
      BY <2>1, <3>1 DEF EndByCommit, CommittedRelations
  <2>2. CASE EndByRollback(w)
    BY <2>2 DEF EndByRollback
  <2> QED
    BY <2>1, <2>2
<1>5. ASSUME NEW x \in Workers, pc'[x] = "idle" PROVE \A r \in relations' : r.by # x
  <2>1. CASE x = w
    BY <1>4, <2>1
  <2>2. CASE x # w
    <3>1. \A r \in relations : r.by # x
      BY <1>5, <2>2 DEF ModelInv, OnlyMoves
    <3>2. CASE EndByCommit(w)
      <4>1. ASSUME NEW r \in relations PROVE [r EXCEPT !.by = IF @ = w THEN Committed ELSE @].by # x
        BY <1>2, <3>1, <4>1, PostgresAssumption DEF TypeOK, Relations
      <4> QED
        BY <3>2, <4>1 DEF EndByCommit, CommittedRelations
    <3>3. CASE EndByRollback(w)
      BY <3>1, <3>3 DEF EndByRollback
    <3> QED
      BY <3>2, <3>3
  <2> QED
    BY <2>1, <2>2
<1>6. ASSUME NEW r \in relations, r.by # w PROVE HasAllParts(r) => HasAllParts(r)'
  BY <1>1, <1>6 DEF HasAllParts, TypeOK, Relations
<1>7. ASSUME NEW q \in relations'
      PROVE  \/ q \in relations /\ q.by # w
             \/ /\ q.by = Committed
                /\ EndByCommit(w) /\ txn[w] = "open" /\ pc[w] = "message"
                /\ \E r \in relations : r.by = w /\ r.name = q.name
  <2>1. CASE EndByCommit(w) /\ txn[w] = "open" /\ pc[w] = "message"
    <3>1. PICK r \in relations : q = [r EXCEPT !.by = IF @ = w THEN Committed ELSE @]
      BY <2>1 DEF EndByCommit, CommittedRelations
    <3>2. r = [name |-> r.name, cols |-> r.cols, by |-> r.by]
      BY DEF TypeOK, Relations
    <3> QED
      BY <2>1, <3>1, <3>2
  <2>2. CASE EndByRollback(w)
    BY <2>2 DEF EndByRollback
  <2> QED
    BY <2>1, <2>2
<1>8. ASSUME NEW q \in relations', q.by = Committed PROVE HasAllParts(q)'
  <2>1. CASE q \in relations /\ q.by # w
    BY <1>6, <1>8, <2>1 DEF ModelInv
  <2>2. CASE /\ EndByCommit(w) /\ txn[w] = "open" /\ pc[w] = "message"
             /\ \E r \in relations : r.by = w /\ r.name = q.name
    <3>1. PICK r \in relations : r.by = w /\ r.name = q.name
      BY <2>2
    <3>2. HasAllParts(r)
      BY <2>2, <3>1 DEF ModelInv, Unfinished
    <3>3. ASSUME NEW p \in 1..3 PROVE Known(Committed, Part(q.name[1], p))'
      <4>1. PICK o \in relations : o.name = Part(q.name[1], p) /\ o.by \in {Committed, w}
        BY <3>1, <3>2 DEF HasAllParts, Known
      <4> DEFINE z == [o EXCEPT !.by = IF @ = w THEN Committed ELSE @]
      <4>2. z \in relations'
        BY <2>2 DEF EndByCommit, CommittedRelations
      <4>3. z.name = Part(q.name[1], p) /\ z.by = Committed
        BY <4>1 DEF TypeOK, Relations
      <4> QED
        BY <4>2, <4>3 DEF Known
    <3> QED
      BY <1>8, <3>3 DEF HasAllParts
  <2> QED
    BY <1>7, <2>1, <2>2
<1>9. ASSUME NEW q \in relations', q.by \in Workers PROVE HasAllParts(q)' \/ Unfinished(q)'
  <2>1. q \in relations /\ q.by # w
    BY <1>7, <1>9, PostgresAssumption
  <2>2. HasAllParts(q) \/ Unfinished(q)
    BY <1>9, <2>1 DEF ModelInv
  <2>3. Unfinished(q) => Unfinished(q)'
    BY <1>9, <2>1 DEF Unfinished, OnlyMoves, ModelName, Current, Msg
  <2> QED
    BY <1>6, <2>1, <2>2, <2>3
<1>10. EnsuredSound'
  <2> SUFFICES ASSUME NEW x \in Workers, pc'[x] # "idle", txn'[x] = "open", NEW t \in ensured'[x]
               PROVE  Known(x, <<IdentName[t], "tables">>)'
    BY DEF EnsuredSound
  <2>1. x # w
    OBVIOUS
  <2>2. Known(x, <<IdentName[t], "tables">>)
    BY <2>1 DEF ModelInv, EnsuredSound, OnlyMoves
  <2> QED
    BY <1>1, <2>1, <2>2
<1> QED
  BY <1>3, <1>5, <1>8, <1>9, <1>10 DEF ModelInv

(* A new transaction has created nothing and settled nothing.              *)
LEMMA ModelBegin ==
  ASSUME PostgresAssumption, TypeOK, ModelInv, NEW w \in Workers, NEW b \in Batches, Begin(w, b)
  PROVE  ModelInv'
<1> USE DEF Workers
<1>1. /\ pc[w] = "idle" /\ pc' = [pc EXCEPT ![w] = "message"]
      /\ txn' = [txn EXCEPT ![w] = "open"] /\ ensured' = [ensured EXCEPT ![w] = {}]
      /\ batch' = [batch EXCEPT ![w] = b] /\ next' = [next EXCEPT ![w] = 1]
      /\ stmts' = [stmts EXCEPT ![w] = <<>>] /\ UNCHANGED relations
  BY DEF Begin, Goto
<1>2. /\ pc'[w] = "message" /\ ensured'[w] = {} /\ OnlyMoves(w)
  BY <1>1 DEF TypeOK, OnlyMoves
<1>3. \A x, n : Known(x, n)' = Known(x, n)
  BY <1>1 DEF Known
<1>4. \A r \in relations : r.by # w
  BY <1>1 DEF ModelInv
<1>5. ASSUME NEW x \in Workers, pc'[x] = "ddl" PROVE \E k \in 1..3 : Creating(x, k)'
  <2>1. x # w /\ pc[x] = "ddl"
    BY <1>2, <1>5 DEF OnlyMoves
  <2>2. PICK k \in 1..3 : Creating(x, k)
    BY <2>1 DEF ModelInv
  <2>3. Creating(x, k)'
    BY <1>2, <1>3, <2>1, <2>2, CreatingStays DEF OnlyMoves
  <2> QED
    BY <2>3
<1>6. ASSUME NEW r \in relations'
      PROVE  /\ r.by = Committed => HasAllParts(r)'
             /\ r.by \in Workers => HasAllParts(r)' \/ Unfinished(r)'
  <2>1. r \in relations /\ r.by # w
    BY <1>1, <1>4
  <2>2. HasAllParts(r)' = HasAllParts(r)
    BY <1>3 DEF HasAllParts
  <2>3. r.by \in Workers /\ Unfinished(r) => Unfinished(r)'
    BY <1>2, <2>1 DEF Unfinished, OnlyMoves, ModelName, Current, Msg
  <2> QED
    BY <2>1, <2>2, <2>3 DEF ModelInv
<1>7. EnsuredSound'
  <2> SUFFICES ASSUME NEW x \in Workers, pc'[x] # "idle", txn'[x] = "open", NEW t \in ensured'[x]
               PROVE  Known(x, <<IdentName[t], "tables">>)
    BY <1>3 DEF EnsuredSound
  <2>1. x # w
    BY <1>2
  <2> QED
    BY <1>2, <2>1 DEF ModelInv, EnsuredSound, OnlyMoves
<1>8. \A x \in Workers : pc'[x] = "idle" => \A r \in relations' : r.by # x
  BY <1>1, <1>2 DEF ModelInv, OnlyMoves
<1> QED
  BY <1>5, <1>6, <1>7, <1>8 DEF ModelInv

(* A step of w, at work on its model or about to be, which leaves it at    *)
(* work on it; the statement at hand may have created its part.            *)
LEMMA ModelCreates ==
  ASSUME PostgresAssumption, TypeOK, ModelInv, NEW w \in Workers, OnlyMoves(w),
         pc[w] \in {"ensure", "ddl"}, pc'[w] = "ddl",
         UNCHANGED <<batch, next, ensured>>,
         txn'[w] = "open" => txn[w] = "open",
         relations \subseteq relations',
         \A r \in relations' \ relations : r.by = w /\ r.name[1] = ModelName(w),
         NEW k \in 1..3, Creating(w, k)'
  PROVE  ModelInv'
<1> USE DEF Workers
<1>1. \A x \in Workers \cup {Committed} : \A n : Known(x, n) => Known(x, n)'
  BY DEF Known
<1>2. ModelName(w)' = ModelName(w)
  BY DEF ModelName, Current, Msg
<1>3. ASSUME NEW x \in Workers, pc'[x] = "ddl" PROVE \E o \in 1..3 : Creating(x, o)'
  <2>1. CASE x = w
    BY <2>1
  <2>2. CASE x # w
    <3>1. PICK o \in 1..3 : Creating(x, o)
      BY <1>3, <2>2 DEF ModelInv, OnlyMoves
    <3>2. Creating(x, o)'
      BY <1>1, <2>2, <3>1, CreatingStays DEF OnlyMoves
    <3> QED
      BY <3>2
  <2> QED
    BY <2>1, <2>2
<1>4. ASSUME NEW x \in Workers, pc'[x] = "idle" PROVE \A r \in relations' : r.by # x
  BY <1>4 DEF ModelInv, OnlyMoves
<1>5. ASSUME NEW r \in relations, HasAllParts(r) PROVE HasAllParts(r)'
  BY <1>1, <1>5 DEF HasAllParts, TypeOK, Relations
<1>6. ASSUME NEW r \in relations', r.by = Committed PROVE HasAllParts(r)'
  BY <1>5, <1>6, PostgresAssumption DEF ModelInv
<1>7. ASSUME NEW r \in relations', r.by \in Workers PROVE HasAllParts(r)' \/ Unfinished(r)'
  <2>1. CASE r \notin relations
    BY <1>2, <2>1 DEF Unfinished
  <2>2. CASE r \in relations /\ r.by = w
    <3>1. HasAllParts(r) \/ Unfinished(r)
      BY <2>2 DEF ModelInv
    <3>2. Unfinished(r) => Unfinished(r)'
      BY <1>2, <2>2 DEF Unfinished
    <3> QED
      BY <1>5, <2>2, <3>1, <3>2
  <2>3. CASE r \in relations /\ r.by # w
    <3>1. HasAllParts(r) \/ Unfinished(r)
      BY <1>7, <2>3 DEF ModelInv
    <3>2. Unfinished(r) => Unfinished(r)'
      BY <1>7, <2>3 DEF Unfinished, OnlyMoves, ModelName, Current, Msg
    <3> QED
      BY <1>5, <2>3, <3>1, <3>2
  <2> QED
    BY <2>1, <2>2, <2>3
<1>8. EnsuredSound'
  <2> SUFFICES ASSUME NEW x \in Workers, pc'[x] # "idle", txn'[x] = "open", NEW t \in ensured[x]
               PROVE  Known(x, <<IdentName[t], "tables">>)'
    BY DEF EnsuredSound
  <2>1. pc[x] # "idle" /\ txn[x] = "open"
    BY DEF OnlyMoves
  <2> QED
    BY <1>1, <2>1 DEF ModelInv, EnsuredSound
<1> QED
  BY <1>3, <1>4, <1>6, <1>7, <1>8 DEF ModelInv

(* The step of w that creates the last part of its model.                  *)
LEMMA ModelFinished ==
  ASSUME PostgresAssumption, TypeOK, ModelInv, NEW w \in Workers, OnlyMoves(w),
         pc[w] = "ddl", pc'[w] = "render", txn[w] = "open",
         UNCHANGED <<batch, next>>,
         ensured'[w] = ensured[w] \cup {Current(w).table},
         relations \subseteq relations',
         \A r \in relations' \ relations : r.by = w /\ r.name[1] = ModelName(w),
         \A p \in 1..3 : Known(w, Part(ModelName(w), p))'
  PROVE  ModelInv'
<1> USE DEF Workers
<1>1. \A x \in Workers \cup {Committed} : \A n : Known(x, n) => Known(x, n)'
  BY DEF Known
<1>2. ASSUME NEW x \in Workers, pc'[x] = "ddl" PROVE \E o \in 1..3 : Creating(x, o)'
  <2>1. x # w /\ pc[x] = "ddl"
    BY <1>2 DEF OnlyMoves
  <2>2. PICK o \in 1..3 : Creating(x, o)
    BY <2>1 DEF ModelInv
  <2>3. Creating(x, o)'
    BY <1>1, <2>1, <2>2, CreatingStays DEF OnlyMoves
  <2> QED
    BY <2>3
<1>3. ASSUME NEW x \in Workers, pc'[x] = "idle" PROVE \A r \in relations' : r.by # x
  BY <1>3 DEF ModelInv, OnlyMoves
<1>4. ASSUME NEW r \in relations, HasAllParts(r) PROVE HasAllParts(r)'
  BY <1>1, <1>4 DEF HasAllParts, TypeOK, Relations
<1>5. ASSUME NEW r \in relations', r.by = Committed PROVE HasAllParts(r)'
  BY <1>4, <1>5, PostgresAssumption DEF ModelInv
<1>6. ASSUME NEW r \in relations', r.by \in Workers PROVE HasAllParts(r)' \/ Unfinished(r)'
  <2>1. CASE r.by = w /\ r.name[1] = ModelName(w)
    <3>1. ModelName(w)' = ModelName(w)
      BY DEF ModelName, Current, Msg
    <3> QED
      BY <2>1, <3>1 DEF HasAllParts
  <2>2. CASE r \in relations /\ r.by = w /\ r.name[1] # ModelName(w)
    BY <1>4, <2>2 DEF ModelInv, Unfinished
  <2>3. CASE r \in relations /\ r.by # w
    <3>1. HasAllParts(r) \/ Unfinished(r)
      BY <1>6, <2>3 DEF ModelInv
    <3>2. Unfinished(r) => Unfinished(r)'
      BY <1>6, <2>3 DEF Unfinished, OnlyMoves, ModelName, Current, Msg
    <3> QED
      BY <1>4, <2>3, <3>1, <3>2
  <2> QED
    BY <2>1, <2>2, <2>3
<1>7. EnsuredSound'
  <2> SUFFICES ASSUME NEW x \in Workers, pc'[x] # "idle", txn'[x] = "open", NEW t \in ensured'[x]
               PROVE  Known(x, <<IdentName[t], "tables">>)'
    BY DEF EnsuredSound
  <2>1. CASE x # w \/ t \in ensured[w]
    <3>1. pc[x] # "idle" /\ txn[x] = "open" /\ t \in ensured[x]
      BY <2>1 DEF OnlyMoves
    <3> QED
      BY <1>1, <3>1 DEF ModelInv, EnsuredSound
  <2>2. CASE x = w /\ t = Current(w).table
    <3>1. Known(w, Part(ModelName(w), 1))'
      OBVIOUS
    <3>2. Part(ModelName(w), 1)' = <<IdentName[t], "tables">>
      BY <2>2 DEF Part, ModelName, Current, Msg, Phases
    <3> QED
      BY <2>2, <3>1, <3>2
  <2> QED
    BY <2>1, <2>2
<1> QED
  BY <1>2, <1>3, <1>5, <1>6, <1>7 DEF ModelInv

(* A statement later, w is about to create the next part of its model.      *)
LEMMA ModelAdvances ==
  ASSUME NEW w, NEW k \in 1..3, k # 3, Creating(w, k), UNCHANGED <<batch, next>>,
         Len(stmts'[w]) = 3 - k, \A j \in 1..(3 - k) : stmts'[w][j] = stmts[w][j + 1],
         txn'[w] = "open" => \A p \in 1..k : Known(w, Part(ModelName(w), p))'
  PROVE  Creating(w, k + 1)'
<1>1. ModelName(w)' = ModelName(w)
  BY DEF ModelName, Current, Msg
<1>2. Len(stmts'[w]) = 4 - (k + 1)
  OBVIOUS
<1>3. ASSUME NEW j \in 1..(4 - (k + 1))
      PROVE  stmts'[w][j].name = Part(ModelName(w)', (k + 1) + j - 1)
  <2>1. j \in 1..(3 - k) /\ j + 1 \in 1..(4 - k) /\ k + (j + 1) - 1 = (k + 1) + j - 1
    OBVIOUS
  <2>2. stmts'[w][j] = stmts[w][j + 1]
    BY <2>1
  <2>3. stmts[w][j + 1].name = Part(ModelName(w), k + (j + 1) - 1)
    BY <2>1 DEF Creating
  <2> QED
    BY <1>1, <2>1, <2>2, <2>3
<1>4. ASSUME txn'[w] = "open", NEW p \in 1..((k + 1) - 1)
      PROVE  Known(w, Part(ModelName(w), p))'
  <2>1. p \in 1..k
    OBVIOUS
  <2> QED
    BY <1>4, <2>1
<1> QED
  BY <1>2, <1>3, <1>4 DEF Creating

(* A statement of the DDL list keeps models whole.                          *)
LEMMA ModelDdl ==
  ASSUME TypeInv, TypeInv', ModelInv, NEW w \in Workers, ExecDdl(w)
  PROVE  ModelInv'
<1> USE PostgresAssumption
<1> DEFINE st == Head(stmts[w])
           tail == Tail(stmts[w])
<1>1. TypeOK /\ pc[w] = "ddl" /\ More(w) /\ stmts[w] \in Seq(DdlLines) \ {<<>>}
  BY DEF ExecDdl, TypeInv, InHand
<1>2. PICK k \in 1..3 : Creating(w, k)
  BY <1>1 DEF ModelInv
<1>3. /\ Len(stmts[w]) = 4 - k /\ st = stmts[w][1]
      /\ tail \in Seq(DdlLines) /\ Len(tail) = 3 - k
      /\ \A j \in 1..(3 - k) : tail[j] = stmts[w][j + 1]
      /\ IF k = 3 THEN tail = <<>> ELSE tail # <<>>
  <2>1. Len(stmts[w]) = 4 - k
    BY <1>2 DEF Creating
  <2>2. /\ st = stmts[w][1] /\ tail \in Seq(DdlLines) /\ Len(tail) = Len(stmts[w]) - 1
        /\ \A j \in 1..(Len(stmts[w]) - 1) : tail[j] = stmts[w][j + 1]
    BY <1>1
  <2>3. IF k = 3 THEN tail = <<>> ELSE tail # <<>>
    <3>1. \A x \in Seq(DdlLines) : x = <<>> <=> Len(x) = 0
      OBVIOUS
    <3>2. tail \in Seq(DdlLines) /\ Len(tail) = 3 - k
      BY <2>1, <2>2
    <3> HIDE DEF tail
    <3>3. tail = <<>> <=> 3 - k = 0
      BY <3>1, <3>2
    <3> QED
      BY <3>3
  <2> QED
    BY <2>1, <2>2, <2>3
<1>4. st.name = Part(ModelName(w), k)
  <2>1. 1 \in 1..(4 - k) /\ k + 1 - 1 = k
    OBVIOUS
  <2>2. stmts[w][1].name = Part(ModelName(w), k + 1 - 1)
    BY <1>2, <2>1 DEF Creating
  <2> QED
    BY <1>3, <2>1, <2>2
<1>5. CASE RecoverableError(w)
  <2>1. /\ OnlyMoves(w) /\ pc'[w] = "rollback" /\ txn'[w] = "aborted" /\ UNCHANGED relations
    BY <1>1, <1>5 DEF RecoverableError, Goto, locals, OnlyMoves, TypeOK
  <2> QED
    BY <1>1, <2>1, ModelQuiet
<1>6. ASSUME stmts' = [stmts EXCEPT ![w][1].op = "recreate"],
             UNCHANGED <<store, pc, batch, next, ensured, rejected, status, faults>>
      PROVE  ModelInv'
  <2>1. /\ stmts'[w] = [stmts[w] EXCEPT ![1] = [stmts[w][1] EXCEPT !.op = "recreate"]]
        /\ \A x \in Workers \ {w} : stmts'[x] = stmts[x]
    BY <1>1, <1>6 DEF TypeOK
  <2>2. Len(stmts'[w]) = Len(stmts[w])
    BY <1>1, <2>1
  <2>3. \A j \in 1..Len(stmts[w]) : stmts'[w][j].name = stmts[w][j].name
    <3>1. \A x \in DdlLines : [x EXCEPT !.op = "recreate"].name = x.name
      BY DEF DdlLines
    <3>2. \A j \in 1..Len(stmts[w]) : stmts[w][j] \in DdlLines
      BY <1>1
    <3> QED
      BY <1>1, <2>1, <3>1, <3>2
  <2>4. OnlyMoves(w) /\ UNCHANGED <<relations, txn, pc, batch, next, ensured>>
    BY <1>6, <2>1 DEF OnlyMoves, store
  <2>5. Creating(w, k)'
    BY <1>2, <1>3, <2>2, <2>3, <2>4 DEF Creating, ModelName, Current, Msg, Known
  <2> QED
    BY <1>1, <2>4, <2>5, ModelCreates
<1>7. ASSUME relations' = Created(w, st.name, st.cols), NextDdl(w), txn[w] = "open",
             UNCHANGED <<versions, txn>>
      PROVE  ModelInv'
  <2>1. stmts'[w] = tail /\ OnlyMoves(w)
    BY <1>1, <1>7 DEF NextDdl, NowEnsured, Goto, OnlyMoves, TypeOK
  <2>2. /\ relations \subseteq relations'
        /\ \A r \in relations' \ relations : r.by = w /\ r.name = st.name
        /\ \E r \in relations' : r.by = w /\ r.name = st.name
    <3> DEFINE new == [name |-> st.name, cols |-> st.cols, by |-> w]
    <3>1. relations' = relations \cup {new} /\ new.by = w /\ new.name = st.name
      BY <1>7 DEF Created
    <3> QED
      BY <3>1
  <2>3. \A r \in relations' \ relations : r.by = w /\ r.name[1] = ModelName(w)
    BY <1>4, <2>2 DEF Part
  <2>4. \A p \in 1..k : Known(w, Part(ModelName(w), p))'
    <3>1. ASSUME NEW p \in 1..(k - 1) PROVE Known(w, Part(ModelName(w), p))'
      <4>1. Known(w, Part(ModelName(w), p))
        BY <1>2, <1>7 DEF Creating
      <4>2. ModelName(w)' = ModelName(w)
        BY <1>7 DEF NextDdl, ModelName, Current, Msg
      <4> QED
        BY <2>2, <4>1, <4>2 DEF Known
    <3>2. Known(w, Part(ModelName(w), k))'
      BY <1>4, <1>7, <2>2 DEF Known, NextDdl, ModelName, Current, Msg
    <3> QED
      BY <3>1, <3>2
  <2>5. CASE k = 3
    <3>1. /\ pc'[w] = "render" /\ UNCHANGED <<batch, next>>
          /\ ensured'[w] = ensured[w] \cup {Current(w).table}
      BY <1>1, <1>3, <1>7, <2>5 DEF NextDdl, NowEnsured, Goto, TypeOK
    <3> QED
      BY <1>1, <1>7, <2>1, <2>2, <2>3, <2>4, <2>5, <3>1, ModelFinished
  <2>6. CASE k # 3
    <3>1. UNCHANGED <<pc, batch, next, ensured, txn>>
      BY <1>3, <1>7, <2>6 DEF NextDdl
    <3>2. Creating(w, k + 1)'
      BY <1>2, <1>3, <2>1, <2>4, <2>6, <3>1, ModelAdvances
    <3> QED
      BY <1>1, <2>1, <2>2, <2>3, <2>6, <3>1, <3>2, ModelCreates
  <2> QED
    BY <2>5, <2>6
<1>8. ASSUME txn' = [txn EXCEPT ![w] = "aborted"], NextDdl(w), UNCHANGED <<relations, versions>>
      PROVE  ModelInv'
  <2>1. stmts'[w] = tail /\ OnlyMoves(w) /\ txn'[w] = "aborted"
    BY <1>1, <1>8 DEF NextDdl, NowEnsured, Goto, OnlyMoves, TypeOK
  <2>2. CASE k = 3
    <3>1. pc'[w] = "render"
      BY <1>1, <1>3, <1>8, <2>2 DEF NextDdl, Goto, TypeOK
    <3> QED
      BY <1>1, <1>8, <2>1, <3>1, ModelQuiet
  <2>3. CASE k # 3
    <3>1. UNCHANGED <<pc, batch, next, ensured>>
      BY <1>3, <1>8, <2>3 DEF NextDdl
    <3>2. Creating(w, k + 1)'
      BY <1>2, <1>3, <2>1, <2>3, <3>1, ModelAdvances
    <3> QED
      BY <1>1, <1>8, <2>1, <2>3, <3>1, <3>2, ModelCreates
  <2> QED
    BY <2>2, <2>3
<1> QED
  BY <1>5, <1>6, <1>7, <1>8 DEF ExecDdl

(* A table found under its raw name is found under its identifier.         *)
LEMMA ModelEnsure ==
  ASSUME TypeInv, ModelInv, NEW w \in Workers, Ensure(w)
  PROVE  ModelInv'
<1> USE PostgresAssumption
<1> DEFINE t == Current(w).table
<1>1. /\ TypeOK /\ pc[w] = "ensure" /\ More(w)
      /\ Current(w) \in Messages /\ t \in DOMAIN IdentName
  BY CurrentMessage DEF Ensure, TypeInv, InHand
<1>2. CASE RecoverableError(w)
  <2>1. /\ OnlyMoves(w) /\ pc'[w] = "rollback" /\ txn'[w] = "aborted" /\ UNCHANGED relations
    BY <1>1, <1>2 DEF RecoverableError, Goto, locals, OnlyMoves, TypeOK
  <2> QED
    BY <1>1, <2>1, ModelQuiet
<1>3. ASSUME Goto(w, "render"), UNCHANGED <<store, locals, status, faults>> PROVE ModelInv'
  <2>1. /\ OnlyMoves(w) /\ pc'[w] = "render" /\ UNCHANGED <<relations, txn, ensured>>
    BY <1>1, <1>3 DEF Goto, store, locals, OnlyMoves, TypeOK
  <2> QED
    BY <1>1, <2>1, ModelQuiet
<1>4. ASSUME TableExists(w), NowEnsured(w), Goto(w, "render"),
             UNCHANGED <<store, batch, next, stmts, rejected, status, faults>>
      PROVE  ModelInv'
  <2>1. Known(w, <<t, "tables">>)
    BY <1>4 DEF TableExists
  <2>2. t \in Identifiers
    BY <1>1, <2>1 DEF Known, TypeOK, Relations, Names
  <2>3. IdentName[t] = t
    BY <1>1, <2>2, ProcessorAssumption
  <2>4. /\ OnlyMoves(w) /\ pc'[w] = "render" /\ UNCHANGED <<relations, txn>>
        /\ ensured'[w] = ensured[w] \cup {t}
    BY <1>1, <1>4 DEF NowEnsured, Goto, store, OnlyMoves, TypeOK
  <2> QED
    BY <1>1, <2>1, <2>3, <2>4, ModelQuiet
<1>5. ASSUME stmts' = [stmts EXCEPT ![w] = Ddl(Current(w))], Goto(w, "ddl"),
             UNCHANGED <<store, batch, next, ensured, rejected, status, faults>>
      PROVE  ModelInv'
  <2>1. /\ OnlyMoves(w) /\ pc'[w] = "ddl" /\ stmts'[w] = Ddl(Current(w))
        /\ UNCHANGED <<relations, txn, batch, next, ensured>>
    BY <1>1, <1>5 DEF Goto, store, OnlyMoves, TypeOK
  <2>2. Len(stmts'[w]) = 3 /\ \A j \in 1..3 : stmts'[w][j].name = Part(ModelName(w), j)
    BY <1>1, <2>1, DdlTyped DEF Part, ModelName
  <2>3. ModelName(w)' = ModelName(w)
    BY <2>1 DEF ModelName, Current, Msg
  <2>4. Creating(w, 1)'
    BY <2>2, <2>3 DEF Creating
  <2> QED
    BY <1>1, <2>1, <2>4, ModelCreates
<1> QED
  BY <1>2, <1>3, <1>4, <1>5 DEF Ensure

(* Every step of ProcessBatch keeps models whole.                           *)
LEMMA ModelStep == TypeInv /\ TypeInv' /\ ModelInv /\ [Next]_vars => ModelInv'
<1> SUFFICES ASSUME TypeInv, TypeInv', ModelInv, [Next]_vars PROVE ModelInv'
  OBVIOUS
<1> USE PostgresAssumption
<1>1. TypeOK
  BY DEF TypeInv
<1>2. ASSUME NEW w \in Workers, NEW b \in Batches, Begin(w, b) PROVE ModelInv'
  BY <1>1, <1>2, ModelBegin
<1>3. ASSUME NEW w \in Workers, PermanentError(w), pc[w] \in {"message", "render"} PROVE ModelInv'
  <2>1. /\ OnlyMoves(w) /\ pc'[w] \in {"message", "rollback"}
        /\ UNCHANGED <<relations, txn, ensured>>
    BY <1>1, <1>3 DEF PermanentError, Goto, store, OnlyMoves, TypeOK
  <2> QED
    BY <1>1, <1>3, <2>1, ModelQuiet
<1>4. ASSUME NEW w \in Workers, RecoverableError(w), pc[w] \in {"ddl", "dml"} PROVE ModelInv'
  <2>1. /\ OnlyMoves(w) /\ pc'[w] = "rollback" /\ txn'[w] = "aborted" /\ UNCHANGED relations
    BY <1>1, <1>4 DEF RecoverableError, Goto, locals, OnlyMoves, TypeOK
  <2> QED
    BY <1>1, <1>4, <2>1, ModelQuiet
<1>5. ASSUME NEW w \in Workers, Plan(w) \/ LoadFails(w) \/ ReadFails(w) PROVE ModelInv'
  <2>1. CASE PermanentError(w)
    BY <1>3, <1>5, <2>1 DEF Plan, LoadFails, ReadFails
  <2>2. CASE ~PermanentError(w)
    <3>1. /\ OnlyMoves(w) /\ pc[w] \in {"message", "render"} /\ pc'[w] \in {"ensure", "rollback"}
          /\ UNCHANGED <<relations, txn, ensured>>
      BY <1>1, <1>5, <2>2 DEF Plan, LoadFails, ReadFails, Goto, store, locals, OnlyMoves, TypeOK
    <3> QED
      BY <1>1, <3>1, ModelQuiet
  <2> QED
    BY <2>1, <2>2
<1>6. ASSUME NEW w \in Workers, Render(w) PROVE ModelInv'
  <2>1. CASE PermanentError(w)
    BY <1>3, <1>6, <2>1 DEF Render
  <2>2. CASE ~PermanentError(w)
    <3>1. /\ OnlyMoves(w) /\ pc[w] = "render" /\ pc'[w] = "dml"
          /\ UNCHANGED <<relations, txn, ensured>>
      BY <1>1, <1>6, <2>2 DEF Render, Goto, store, OnlyMoves, TypeOK
    <3> QED
      BY <1>1, <3>1, ModelQuiet
  <2> QED
    BY <2>1, <2>2
<1>7. ASSUME NEW w \in Workers, ExecDml(w) PROVE ModelInv'
  <2>1. CASE RecoverableError(w)
    BY <1>4, <1>7, <2>1 DEF ExecDml
  <2>2. ASSUME NextDml(w) PROVE ModelInv'
    <3>1. /\ OnlyMoves(w) /\ pc[w] = "dml" /\ pc'[w] \in {"dml", "message"}
          /\ UNCHANGED <<relations, txn, ensured>>
      BY <1>1, <1>7, <2>2 DEF ExecDml, NextDml, Goto, OnlyMoves, TypeOK
    <3> QED
      BY <1>1, <3>1, ModelQuiet
  <2>3. ASSUME NEW new, stmts' = [stmts EXCEPT ![w][1] = new],
               UNCHANGED <<store, pc, batch, next, ensured, rejected, status, faults>>
        PROVE  ModelInv'
    <3>1. OnlyMoves(w) /\ pc[w] = "dml" /\ UNCHANGED <<pc, relations, txn, ensured>>
      BY <1>1, <1>7, <2>3 DEF ExecDml, store, OnlyMoves, TypeOK
    <3> QED
      BY <1>1, <3>1, ModelQuiet
  <2> QED
    BY <1>7, <2>1, <2>2, <2>3 DEF ExecDml
<1>8. ASSUME NEW w \in Workers,
             Commit(w) \/ CommitFails(w) \/ CommitUnknown(w) \/ Rollback(w) \/ Crash(w)
      PROVE  ModelInv'
  <2>1. \/ EndByCommit(w) /\ txn[w] = "open" /\ pc[w] = "message"
        \/ EndByRollback(w)
    BY <1>8 DEF Commit, CommitFails, CommitUnknown, Rollback, Crash
  <2>2. pc' = [pc EXCEPT ![w] = "idle"] /\ UNCHANGED locals
    BY <1>8 DEF Commit, CommitFails, CommitUnknown, Rollback, Crash, ReturnError, Goto
  <2>3. txn' = [txn EXCEPT ![w] = "none"]
    BY <2>1 DEF EndByCommit, EndByRollback
  <2>4. OnlyMoves(w) /\ pc'[w] = "idle"
    BY <1>1, <2>2, <2>3 DEF locals, OnlyMoves, TypeOK
  <2> QED
    BY <1>1, <2>1, <2>2, <2>4, ModelEnd
<1>9. ASSUME UNCHANGED <<store, pc, locals>> PROVE ModelInv'
  <2>1. UNCHANGED <<relations, txn, pc, batch, next, stmts, ensured>>
    BY <1>9 DEF store, locals
  <2>2. \A x, n : Known(x, n)' = Known(x, n)
    BY <2>1 DEF Known
  <2>3. \A x : ModelName(x)' = ModelName(x)
    BY <2>1 DEF ModelName, Current, Msg
  <2>4. \A x, k : Creating(x, k)' = Creating(x, k)
    BY <2>1, <2>2, <2>3 DEF Creating
  <2>5. \A r : HasAllParts(r)' = HasAllParts(r) /\ Unfinished(r)' = Unfinished(r)
    BY <2>1, <2>2, <2>3 DEF HasAllParts, Unfinished
  <2>6. EnsuredSound'
    BY <2>1, <2>2 DEF ModelInv, EnsuredSound
  <2> QED
    BY <2>1, <2>4, <2>5, <2>6 DEF ModelInv
<1>10. ASSUME NEW w \in Workers, Step(w) PROVE ModelInv'
  <2>1. CASE Ensure(w)
    BY <2>1, ModelEnsure
  <2>2. CASE ExecDdl(w)
    BY <2>2, ModelDdl
  <2>3. CASE DeadlockVictim(w)
    BY <1>4, <2>3 DEF DeadlockVictim
  <2> QED
    BY <1>5, <1>6, <1>7, <1>8, <1>10, <2>1, <2>2, <2>3 DEF Step
<1> QED
  BY <1>2, <1>5, <1>8, <1>9, <1>10 DEF Next, Redeliver, vars

(* The types and the wholeness of models hold at all times.                 *)
LEMMA ModelAlways == Spec => [](TypeInv /\ ModelInv)
<1>1. Init => TypeInv /\ ModelInv
  BY TypeInit, ModelInit
<1>2. TypeInv /\ ModelInv /\ [Next]_vars => (TypeInv /\ ModelInv)'
  BY TypeStep, ModelStep
<1> QED
  BY <1>1, <1>2, PTL DEF Spec

(* A model is committed with all its parts or not at all, whoever creates  *)
(* it and whatever fails (processor.go:195-196, 209-218).                  *)
THEOREM ModelsAreWhole == Spec => []ModelWhole
<1>1. TypeInv /\ ModelInv => ModelWhole
  <2> SUFFICES ASSUME ModelInv, NEW r \in relations, r.by = Committed, NEW p \in 1..Len(Phases)
               PROVE  \E q \in relations : q.by = Committed /\ q.name = <<r.name[1], Phases[p]>>
    BY DEF ModelWhole
  <2>1. p \in 1..3
    BY DEF Phases
  <2>2. Known(r.by, Part(r.name[1], p))
    BY <2>1 DEF ModelInv, HasAllParts
  <2> QED
    BY <2>2 DEF Known, Part
<1> QED
  BY <1>1, ModelAlways, PTL

(* What ensured holds is there for its transaction, for any table names,   *)
(* as identifiers are their own identifiers (processor.go:202-220).        *)
THEOREM EnsuredIsSound == Spec => []EnsuredSound
<1>1. ModelInv => EnsuredSound
  BY DEF ModelInv
<1> QED
  BY <1>1, ModelAlways, PTL

-----------------------------------------------------------------------------
(* The insert processor only adds.                                         *)

(* No row is being deleted and every DML statement is an INSERT.           *)
OnlyInserts(w) == \A i \in 1..Len(stmts[w]) : stmts[w][i].op = "insert"

InsertInv ==
  ~Upsert =>
    /\ \A v \in versions : v.del = Nobody
    /\ \A w \in Workers : pc[w] = "dml" => OnlyInserts(w)

CommittedStay == \A v \in versions : v.by = Committed => v \in versions'

(* What is stored stays stored if the committed row versions stay.          *)
LEMMA StoredGrows == CommittedStay => Stored \subseteq Stored'
BY DEF CommittedStay, Stored

(* The end of a transaction leaves what is committed and being deleted by  *)
(* nobody.                                                                 *)
LEMMA InsertEnd ==
  ASSUME TypeOK, NEW w \in Workers, \A v \in versions : v.del = Nobody,
         EndByCommit(w) \/ EndByRollback(w)
  PROVE  CommittedStay /\ \A v \in versions' : v.del = Nobody
<1>1. w # Committed /\ w # Nobody
  BY PostgresAssumption DEF Workers
<1>2. ASSUME NEW v \in versions
      PROVE  /\ v.by = Committed => [v EXCEPT !.by = IF @ = w THEN Committed ELSE @] = v
             /\ [v EXCEPT !.by = IF @ = w THEN Committed ELSE @].del = Nobody
             /\ [v EXCEPT !.del = IF @ = w THEN Nobody ELSE @] = v
  <2>1. v \in RowVersions /\ v.del = Nobody
    BY DEF TypeOK
  <2> QED
    BY <1>1, <2>1 DEF RowVersions
<1>3. CASE EndByCommit(w)
  <2>1. versions' = {[v EXCEPT !.by = IF @ = w THEN Committed ELSE @] : v \in versions}
    BY <1>1, <1>3 DEF EndByCommit, CommittedVersions
  <2> QED
    BY <1>2, <2>1 DEF CommittedStay
<1>4. CASE EndByRollback(w)
  <2>1. versions' = {v \in versions : v.by # w}
    BY <1>2, <1>4 DEF EndByRollback
  <2> QED
    BY <1>1, <2>1 DEF CommittedStay
<1> QED
  BY <1>3, <1>4

(* In insert mode no DML line deletes a committed row version.              *)
LEMMA InsertDml ==
  ASSUME TypeInv, ~Upsert, InsertInv, NEW w \in Workers, ExecDml(w)
  PROVE  InsertInv' /\ CommittedStay
<1> USE DEF CommittedStay
<1>1. /\ TypeOK /\ pc[w] = "dml" /\ OnlyInserts(w)
      /\ stmts[w] \in Seq(DmlLines) \ {<<>>} /\ Head(stmts[w]).op = "insert"
  <2>1. TypeOK /\ pc[w] = "dml" /\ stmts[w] \in Seq(DmlLines) \ {<<>>}
    BY DEF ExecDml, TypeInv, InHand
  <2>2. OnlyInserts(w)
    BY <2>1 DEF InsertInv
  <2>3. 1 \in 1..Len(stmts[w]) /\ Head(stmts[w]) = stmts[w][1]
    BY <2>1
  <2> QED
    BY <2>1, <2>2, <2>3 DEF OnlyInserts
<1>2. CASE RecoverableError(w)
  <2>1. pc' = [pc EXCEPT ![w] = "rollback"] /\ UNCHANGED <<versions, stmts>>
    BY <1>2 DEF RecoverableError, Goto, locals
  <2> QED
    BY <1>1, <2>1 DEF InsertInv, OnlyInserts, TypeOK
<1>3. CASE ~RecoverableError(w)
  <2>1. /\ NextDml(w)
        /\ versions' = Inserted(w, Head(stmts[w]).row, Head(stmts[w]).doc)
    BY <1>1, <1>3 DEF ExecDml
  <2>2. CommittedStay /\ \A v \in versions' : v.del = Nobody
    BY <2>1 DEF Inserted, InsertInv
  <2>3. stmts' = [stmts EXCEPT ![w] = Tail(@)] /\ \A x \in Workers : pc'[x] \in {pc[x], "message"}
    BY <1>1, <2>1 DEF NextDml, Goto, TypeOK
  <2>4. \A i \in 1..Len(Tail(stmts[w])) : Tail(stmts[w])[i].op = "insert"
    BY <1>1 DEF OnlyInserts
  <2>5. ASSUME NEW x \in Workers, pc'[x] = "dml" PROVE OnlyInserts(x)'
    <3>1. pc[x] = "dml"
      BY <2>3, <2>5
    <3>2. OnlyInserts(x)
      BY <3>1 DEF InsertInv
    <3> QED
      BY <1>1, <2>3, <2>4, <3>2 DEF OnlyInserts, TypeOK
  <2> QED
    BY <2>2, <2>5 DEF InsertInv
<1> QED
  BY <1>2, <1>3

(* In insert mode no step of ProcessBatch deletes a committed row version.  *)
LEMMA InsertStep ==
  ASSUME TypeInv, ~Upsert, InsertInv, [Next]_vars
  PROVE  InsertInv' /\ CommittedStay
<1>1. TypeOK
  BY DEF TypeInv
<1>2. ASSUME UNCHANGED versions,
             \A x \in Workers : pc'[x] = "dml" => pc[x] = "dml" /\ stmts'[x] = stmts[x]
      PROVE  InsertInv' /\ CommittedStay
  BY <1>2 DEF InsertInv, OnlyInserts, CommittedStay
<1>3. ASSUME NEW w \in Workers, UNCHANGED versions, pc'[w] # "dml",
             \A x \in Workers \ {w} : pc'[x] = pc[x] /\ stmts'[x] = stmts[x]
      PROVE  InsertInv' /\ CommittedStay
  BY <1>2, <1>3
<1>4. ASSUME NEW w \in Workers, NEW b \in Batches, Begin(w, b)
      PROVE  InsertInv' /\ CommittedStay
  BY <1>1, <1>3, <1>4 DEF Begin, Goto, TypeOK
<1>5. ASSUME NEW w \in Workers, PermanentError(w) \/ RecoverableError(w)
      PROVE  InsertInv' /\ CommittedStay
  BY <1>1, <1>3, <1>5 DEF PermanentError, RecoverableError, Goto, store, locals, TypeOK
<1>6. ASSUME NEW w \in Workers, Plan(w) \/ LoadFails(w) \/ ReadFails(w)
      PROVE  InsertInv' /\ CommittedStay
  <2>1. CASE PermanentError(w)
    BY <1>5, <2>1
  <2>2. CASE ~PermanentError(w)
    BY <1>1, <1>3, <1>6, <2>2 DEF Plan, LoadFails, ReadFails, Goto, store, locals, TypeOK
  <2> QED
    BY <2>1, <2>2
<1>7. ASSUME NEW w \in Workers, Ensure(w) PROVE InsertInv' /\ CommittedStay
  <2>1. CASE RecoverableError(w)
    BY <1>5, <2>1
  <2>2. CASE ~RecoverableError(w)
    BY <1>1, <1>3, <1>7, <2>2 DEF Ensure, Goto, store, locals, TypeOK
  <2> QED
    BY <2>1, <2>2
<1>8. ASSUME NEW w \in Workers, ExecDdl(w) PROVE InsertInv' /\ CommittedStay
  <2>1. CASE RecoverableError(w)
    BY <1>5, <2>1
  <2>2. CASE ~RecoverableError(w)
    <3>1. /\ UNCHANGED versions
          /\ \A x \in Workers : pc'[x] \in {pc[x], "render"}
          /\ \A x \in Workers \ {w} : stmts'[x] = stmts[x]
      BY <1>1, <1>8, <2>2 DEF ExecDdl, NextDdl, Goto, store, TypeOK
    <3>2. pc[w] = "ddl"
      BY <1>8 DEF ExecDdl
    <3> QED
      BY <1>2, <3>1, <3>2
  <2> QED
    BY <2>1, <2>2
<1>9. ASSUME NEW w \in Workers, Render(w) PROVE InsertInv' /\ CommittedStay
  <2>1. CASE PermanentError(w)
    BY <1>5, <2>1
  <2>2. CASE ~PermanentError(w)
    <3>1. /\ stmts' = [stmts EXCEPT ![w] = Dml(w)] /\ pc' = [pc EXCEPT ![w] = "dml"]
          /\ pc[w] = "render" /\ UNCHANGED versions
      BY <1>9, <2>2 DEF Render, Goto, store
    <3>2. \A i \in 1..Len(Dml(w)) : Dml(w)[i].op = "insert"
      BY <3>1, DmlTyped DEF TypeInv, InHand
    <3>3. ASSUME NEW x \in Workers, pc'[x] = "dml" PROVE OnlyInserts(x)'
      <4>1. CASE x = w
        BY <1>1, <3>1, <3>2, <4>1 DEF OnlyInserts, TypeOK
      <4>2. CASE x # w
        BY <1>1, <3>1, <3>3, <4>2 DEF InsertInv, OnlyInserts, TypeOK
      <4> QED
        BY <4>1, <4>2
    <3> QED
      BY <3>1, <3>3 DEF InsertInv, CommittedStay
  <2> QED
    BY <2>1, <2>2
<1>10. ASSUME NEW w \in Workers,
              Commit(w) \/ CommitFails(w) \/ CommitUnknown(w) \/ Rollback(w) \/ Crash(w)
       PROVE  InsertInv' /\ CommittedStay
  <2>1. EndByCommit(w) \/ EndByRollback(w)
    BY <1>10 DEF Commit, CommitFails, CommitUnknown, Rollback, Crash
  <2>2. pc' = [pc EXCEPT ![w] = "idle"] /\ UNCHANGED locals
    BY <1>10 DEF Commit, CommitFails, CommitUnknown, Rollback, Crash, ReturnError, Goto
  <2>3. CommittedStay /\ \A v \in versions' : v.del = Nobody
    BY <1>1, <2>1, InsertEnd DEF InsertInv
  <2>4. \A x \in Workers : pc'[x] = "dml" => OnlyInserts(x)'
    BY <1>1, <2>2 DEF InsertInv, OnlyInserts, locals, TypeOK
  <2> QED
    BY <2>3, <2>4 DEF InsertInv
<1>11. ASSUME NEW w \in Workers, DeadlockVictim(w) PROVE InsertInv' /\ CommittedStay
  BY <1>5, <1>11 DEF DeadlockVictim
<1>12. ASSUME UNCHANGED <<store, pc, locals>> PROVE InsertInv' /\ CommittedStay
  BY <1>2, <1>12 DEF store, locals
<1>13. ASSUME NEW w \in Workers, Step(w) PROVE InsertInv' /\ CommittedStay
  <2>1. CASE ExecDml(w)
    BY <2>1, InsertDml
  <2> QED
    BY <1>6, <1>7, <1>8, <1>9, <1>10, <1>11, <1>13, <2>1 DEF Step
<1> QED
  BY <1>4, <1>6, <1>10, <1>12, <1>13 DEF Next, Redeliver, vars

(* There are no rows and nothing in hand at the start.                      *)
LEMMA InsertInit == Init => InsertInv
BY DEF Init, StoreInit, InsertInv

(* What the insert processor has stored stays, however batches interleave, *)
(* fail and come again (processor.go:179).                                 *)
THEOREM InsertsKeep == Spec => InsertKeeps
<1>1. Init => TypeInv /\ InsertInv
  BY TypeInit, InsertInit
<1>2. TypeInv /\ InsertInv /\ [Next]_vars => (TypeInv /\ InsertInv)'
  <2>1. CASE Upsert
    BY <2>1, TypeStep DEF InsertInv
  <2>2. CASE ~Upsert
    BY <2>2, TypeStep, InsertStep
  <2> QED
    BY <2>1, <2>2
<1>3. TypeInv /\ InsertInv /\ [Next]_vars => [~Upsert => Stored \subseteq Stored']_vars
  BY InsertStep, StoredGrows
<1> QED
  BY <1>1, <1>2, <1>3, PTL DEF Spec, InsertKeeps

-----------------------------------------------------------------------------
(* The invariant, in four parts.                                           *)

(* A running batch is in the hands of one worker, which alone writes its   *)
(* documents; outside ProcessBatch a worker has nothing uncommitted.       *)
RunInv ==
  /\ \A w \in Workers :
       /\ pc[w] # "idle" => status[batch[w]] = "running"
       /\ next[w] <= Len(Content[batch[w]]) + 1
       /\ rejected[w] \subseteq 1..(next[w] - 1)
  /\ \A w, x \in Workers :
       w # x /\ pc[w] # "idle" /\ pc[x] # "idle" => batch[w] # batch[x]
  /\ \A v \in versions :
       v.by \in Workers => v.del = Nobody /\ pc[v.by] # "idle" /\ v.doc[1] = batch[v.by]

OfMessage(row, m) == row.table = IdentName[m.table] /\ row.key = m.key

LineFor(st, m) == OfMessage(st.row, m) /\ st.cols = m.cols

(* The rows w is about to delete, as they were when its DELETE started.    *)
Remembered(w) ==
  IF pc[w] = "dml" /\ stmts[w][1].op = "deleting" THEN stmts[w][1].rows ELSE {}

(* The statements w has left are of its current message, and only the      *)
(* first can be a DELETE.                                                  *)
LineOf(w, st) ==
  st.op # "deleting" =>
    st.doc[1] = batch[w] /\ st.doc[2] = next[w] /\ LineFor(st, Current(w))

Lines(w) ==
  /\ pc[w] = "dml" =>
       \A k \in 1..Len(stmts[w]) :
         /\ LineOf(w, stmts[w][k])
         /\ stmts[w][k].op \in {"delete", "deleting"} => k = 1
  /\ \A t \in Remembered(w) :
       /\ OfMessage(t.row, Current(w)) /\ t.row.no > 0
       /\ t.by = Committed \/ (t.by = w /\ t.doc[1] = batch[w])

LineInv == \A w \in Workers : Lines(w)

(* The deliveries that are, or were when a DELETE started, committed.      *)
PastDocs ==
  {v.doc : v \in {u \in versions : u.by = Committed}}
    \cup {t.doc : t \in {u \in UNION {Remembered(w) : w \in Workers} : u.by = Committed}}

(* A batch is delivered again only after a fault, so no delivery under way *)
(* is one of the past.                                                     *)
NotPast(w) ==
  pc[w] = "dml" =>
    \A k \in 1..Len(stmts[w]) :
      stmts[w][k].op # "deleting" =>
        stmts[w][k].doc[3] <= faults /\ stmts[w][k].doc \notin PastDocs

FreshInv ==
  /\ \A v \in versions : v.doc[3] <= faults
  /\ \A d \in PastDocs : d[3] <= faults /\ (status[d[1]] # "done" => d[3] < faults)
  /\ \A v \in versions : v.by \in Workers => v.doc \notin PastDocs
  /\ \A w \in Workers : NotPast(w)

(* The messages stored so far, up to the one whose statements are under    *)
(* way, and those of them that no later one replaces.                      *)
Begun(w) == (1..(IF pc[w] = "dml" THEN next[w] ELSE next[w] - 1)) \ rejected[w]

Standing(w) ==
  {i \in Begun(w) : \A j \in Begun(w) : j > i => ~SameKey(batch[w], i, j)}

Has(w, i, no) ==
  \E v \in versions :
    v.by = w /\ v.row = RowOf(Msg(batch[w], i), no) /\ v.doc[2] = i

Pending(w, i, no) ==
  /\ pc[w] = "dml" /\ i = next[w]
  /\ \E k \in 1..Len(stmts[w]) :
       stmts[w][k].op \in {"insert", "upsert"} /\ stmts[w][k].row = RowOf(Current(w), no)

(* What an open transaction has written is of the messages begun, and of   *)
(* those that stand every row is there or still to be written.             *)
Carries(w) ==
  txn[w] = "open" =>
    /\ \A v \in versions : v.by = w => v.doc[2] \in Begun(w)
    /\ \A i \in Standing(w) : \A no \in 0..Items(Msg(batch[w], i)) :
         Has(w, i, no) \/ Pending(w, i, no)
    /\ pc[w] = "dml" /\ stmts[w][1].op \in {"delete", "deleting"} =>
         \A v \in versions : v.by = w => v.doc[2] # next[w]

RowInv == \A w \in Workers : Carries(w)

StoreInv == RunInv /\ LineInv /\ FreshInv /\ RowInv

-----------------------------------------------------------------------------
(* The steps of a worker, by what they do to rows, batches and messages.   *)

Alone(w) == OnlyMoves(w) /\ \A x \in Workers \ {w} : rejected'[x] = rejected[x]

Begins(w, b) ==
  /\ Alone(w)
  /\ pc[w] = "idle" /\ pc'[w] = "message"
  /\ status[b] = "waiting" /\ status' = [status EXCEPT ![b] = "running"]
  /\ batch'[w] = b /\ next'[w] = 1 /\ rejected'[w] = {}
  /\ UNCHANGED <<versions, faults>>

(* w goes on to a place where it has no DML statement, or fails there.     *)
GoesOn(w) ==
  /\ Alone(w)
  /\ pc[w] # "idle" /\ pc'[w] \notin {"idle", "dml"}
  /\ txn'[w] = "open" => txn[w] = "open" /\ pc[w] # "dml"
  /\ faults <= faults'
  /\ UNCHANGED <<versions, batch, next, rejected, status>>

Rejects(w) ==
  /\ Alone(w)
  /\ pc[w] \in {"message", "render"} /\ More(w) /\ pc'[w] = "message"
  /\ next'[w] = next[w] + 1 /\ rejected'[w] = rejected[w] \cup {next[w]}
  /\ UNCHANGED <<versions, txn, batch, status, faults>>

Renders(w) ==
  /\ Alone(w)
  /\ pc[w] = "render" /\ More(w) /\ pc'[w] = "dml" /\ stmts'[w] = Dml(w)
  /\ UNCHANGED <<versions, txn, batch, next, rejected, status, faults>>

Remembers(w) ==
  /\ Alone(w)
  /\ pc[w] = "dml" /\ txn[w] = "open" /\ stmts[w][1].op = "delete"
  /\ stmts'[w] = [stmts[w] EXCEPT ![1] =
                    [op |-> "deleting", rows |-> Targets(w, stmts[w][1].row)]]
  /\ UNCHANGED <<versions, pc, txn, batch, next, rejected, status, faults>>

Writes(w, st) ==
  \/ /\ st.op = "insert" /\ RowHolders(w, st.row) = {} /\ Existing(w, st.row) = {}
     /\ versions' = Inserted(w, st.row, st.doc)
  \/ /\ st.op = "upsert" /\ RowHolders(w, st.row) = {}
     /\ versions' = Upserted(w, st.row, st.doc)
  \/ /\ st.op = "deleting" /\ {v.del : v \in StillThere(st)} \subseteq {Nobody, w}
     /\ versions' = Deleted(w, StillThere(st))

Executes(w) ==
  /\ Alone(w)
  /\ pc[w] = "dml" /\ txn[w] = "open" /\ Writes(w, stmts[w][1])
  /\ stmts'[w] = Tail(stmts[w])
  /\ IF Tail(stmts[w]) = <<>> THEN next'[w] = next[w] + 1 /\ pc'[w] = "message"
                              ELSE next'[w] = next[w] /\ pc'[w] = "dml"
  /\ UNCHANGED <<txn, batch, rejected, status, faults>>

(* COMMIT takes effect, and w may or may not learn of it.                  *)
Commits(w) ==
  /\ Alone(w)
  /\ pc[w] = "message" /\ ~More(w) /\ txn[w] = "open" /\ pc'[w] = "idle"
  /\ EndByCommit(w)
  /\ \/ status' = [status EXCEPT ![batch[w]] = "done"] /\ faults' = faults
     \/ status' = [status EXCEPT ![batch[w]] = "waiting"] /\ faults' = faults + 1
  /\ UNCHANGED locals

RollsBack(w) ==
  /\ Alone(w)
  /\ pc[w] # "idle" /\ pc'[w] = "idle"
  /\ EndByRollback(w)
  /\ status' = [status EXCEPT ![batch[w]] = "waiting"] /\ faults <= faults'
  /\ UNCHANGED locals

Redelivers(b) ==
  /\ status[b] = "done" /\ status' = [status EXCEPT ![b] = "waiting"]
  /\ faults' = faults + 1
  /\ UNCHANGED <<store, pc, locals>>

Kind(w) ==
  \/ \E b \in Batches : Begins(w, b)
  \/ GoesOn(w) \/ Rejects(w) \/ Renders(w) \/ Remembers(w) \/ Executes(w)
  \/ Commits(w) \/ RollsBack(w)

(* A permanent error rejects the message, or fails the batch.              *)
LEMMA PermanentErrorKind ==
  ASSUME TypeInv, NEW w \in Workers, PermanentError(w),
         pc[w] \in {"message", "render"}, More(w)
  PROVE  Rejects(w) \/ GoesOn(w)
<1> USE DEF TypeInv, TypeOK, Goto, Alone, OnlyMoves, store
<1>1. CASE PerMessage
  BY <1>1 DEF PermanentError, Rejects
<1>2. CASE ~PerMessage
  BY <1>2 DEF PermanentError, GoesOn
<1> QED
  BY <1>1, <1>2

(* Any other error fails the batch.                                        *)
LEMMA RecoverableErrorKind ==
  ASSUME TypeInv, NEW w \in Workers, RecoverableError(w), pc[w] # "idle"
  PROVE  GoesOn(w)
BY DEF TypeInv, TypeOK, Goto, Alone, OnlyMoves, store, locals, RecoverableError, GoesOn

(* A statement of the DML list.                                            *)
LEMMA DmlKind ==
  ASSUME TypeInv, NEW w \in Workers, ExecDml(w)
  PROVE  Kind(w)
<1> DEFINE st == Head(stmts[w])
<1>1. /\ TypeOK /\ pc[w] = "dml" /\ stmts[w] \in Seq(DmlLines) \ {<<>>}
      /\ st = stmts[w][1]
  BY DEF ExecDml, TypeInv, InHand
<1>2. CASE RecoverableError(w)
  BY <1>1, <1>2, RecoverableErrorKind DEF Kind
<1>3. ASSUME NextDml(w), txn[w] = "open", Writes(w, st) PROVE Executes(w)
  BY <1>1, <1>3 DEF TypeOK, NextDml, Goto, Alone, OnlyMoves, Executes
<1>4. CASE txn[w] = "open" /\ st.op = "deleting" /\ ~RecoverableError(w)
  <2>1. /\ NextDml(w) /\ versions' = Deleted(w, StillThere(st))
        /\ {v.del : v \in StillThere(st)} \ {Nobody, w} = {}
    BY <1>4 DEF ExecDml, Awaited
  <2>2. Writes(w, st)
    BY <1>4, <2>1 DEF Writes
  <2> QED
    BY <1>3, <1>4, <2>1, <2>2 DEF Kind
<1>5. CASE txn[w] = "open" /\ st.op \in {"insert", "upsert"} /\ ~RecoverableError(w)
  <2>1. NextDml(w) /\ RowHolders(w, st.row) = {}
    BY <1>5 DEF ExecDml, Awaited
  <2>2. Writes(w, st)
    BY <1>5, <2>1 DEF ExecDml, Writes
  <2> QED
    BY <1>3, <1>5, <2>1, <2>2 DEF Kind
<1>6. CASE txn[w] = "open" /\ st.op = "delete" /\ ~RecoverableError(w)
  <2>1. /\ stmts' = [stmts EXCEPT ![w][1] =
                       [op |-> "deleting", rows |-> Targets(w, st.row)]]
        /\ UNCHANGED <<store, pc, batch, next, ensured, rejected, status, faults>>
    BY <1>6 DEF ExecDml
  <2>2. Remembers(w)
    BY <1>1, <1>6, <2>1 DEF TypeOK, Alone, OnlyMoves, store, Remembers
  <2> QED
    BY <2>2 DEF Kind
<1>7. st.op \in {"insert", "upsert", "delete", "deleting"}
  BY <1>1 DEF DmlLines
<1> QED
  BY <1>1, <1>2, <1>4, <1>5, <1>6, <1>7 DEF ExecDml, TypeOK

(* The existence check and the statements of the DDL list.                 *)
LEMMA DdlKind ==
  ASSUME TypeInv, NEW w \in Workers, Ensure(w) \/ ExecDdl(w)
  PROVE  GoesOn(w)
<1> USE DEF TypeInv, TypeOK, Goto, Alone, OnlyMoves, store, locals
<1>1. CASE RecoverableError(w)
  BY <1>1, RecoverableErrorKind DEF Ensure, ExecDdl
<1>2. CASE Ensure(w) /\ ~RecoverableError(w)
  BY <1>2 DEF Ensure, NowEnsured, GoesOn
<1>3. CASE ExecDdl(w) /\ ~RecoverableError(w)
  BY <1>3 DEF ExecDdl, NextDdl, NowEnsured, GoesOn
<1> QED
  BY <1>1, <1>2, <1>3

(* Every other step of ProcessBatch.                                       *)
LEMMA ControlKind ==
  ASSUME TypeInv, NEW w \in Workers,
         Plan(w) \/ LoadFails(w) \/ ReadFails(w) \/ Render(w) \/ DeadlockVictim(w)
  PROVE  Kind(w)
<1> USE DEF TypeInv, TypeOK, InHand
<1>1. CASE PermanentError(w) /\ (Plan(w) \/ Render(w))
  BY <1>1, PermanentErrorKind DEF Plan, Render, Kind
<1>2. CASE Plan(w) /\ ~PermanentError(w)
  BY <1>2 DEF Plan, Goto, Alone, OnlyMoves, store, locals, GoesOn, Kind
<1>3. CASE LoadFails(w) \/ ReadFails(w)
  BY <1>3 DEF LoadFails, ReadFails, Fault, Goto, Alone, OnlyMoves, store, locals, GoesOn, Kind
<1>4. CASE Render(w) /\ ~PermanentError(w)
  BY <1>4 DEF Render, Goto, Alone, OnlyMoves, store, Renders, Kind
<1>5. CASE DeadlockVictim(w)
  BY <1>5, RecoverableErrorKind DEF DeadlockVictim, Kind
<1> QED
  BY <1>1, <1>2, <1>3, <1>4, <1>5

(* The end of a batch commits or takes back.                               *)
LEMMA EndKind ==
  ASSUME TypeInv, NEW w \in Workers,
         Commit(w) \/ CommitFails(w) \/ CommitUnknown(w) \/ Rollback(w) \/ Crash(w)
  PROVE  Commits(w) \/ RollsBack(w)
<1> USE DEF TypeInv, TypeOK, Goto, ReturnError, Fault, Alone, OnlyMoves, locals
<1>1. CASE Commit(w) \/ CommitUnknown(w)
  BY <1>1 DEF Commit, CommitUnknown, EndByCommit, Commits
<1>2. CASE CommitFails(w) \/ Rollback(w) \/ Crash(w)
  BY <1>2 DEF CommitFails, Rollback, Crash, EndByRollback, RollsBack
<1> QED
  BY <1>1, <1>2

(* The start of a batch.                                                   *)
LEMMA BeginKind ==
  ASSUME TypeInv, NEW w \in Workers, NEW b \in Batches, Begin(w, b)
  PROVE  Begins(w, b)
BY DEF TypeInv, TypeOK, Goto, Alone, OnlyMoves, Begin, Begins

(* There are no other steps.                                               *)
LEMMA StepKind ==
  ASSUME TypeInv, [Next]_vars
  PROVE  (\E w \in Workers : Kind(w)) \/ (\E b \in Batches : Redelivers(b)) \/ UNCHANGED vars
<1>1. ASSUME NEW w \in Workers, NEW b \in Batches, Begin(w, b) PROVE Kind(w)
  BY <1>1, BeginKind DEF Kind
<1>2. ASSUME NEW w \in Workers, Step(w) PROVE Kind(w)
  <2>1. CASE Plan(w) \/ Render(w) \/ DeadlockVictim(w)
    BY <2>1, ControlKind
  <2>2. CASE Ensure(w) \/ ExecDdl(w)
    BY <2>2, DdlKind DEF Kind
  <2>3. CASE ExecDml(w)
    BY <2>3, DmlKind
  <2>4. CASE Commit(w) \/ Rollback(w)
    BY <2>4, EndKind DEF Kind
  <2> QED
    BY <1>2, <2>1, <2>2, <2>3, <2>4 DEF Step
<1>3. ASSUME NEW w \in Workers, LoadFails(w) \/ ReadFails(w) \/ CommitFails(w) \/ CommitUnknown(w) \/ Crash(w)
      PROVE  Kind(w)
  BY <1>3, ControlKind, EndKind DEF Kind
<1>4. ASSUME NEW b \in Batches, Redeliver(b) PROVE Redelivers(b)
  BY <1>4 DEF Redeliver, Fault, Redelivers
<1> QED
  BY <1>1, <1>2, <1>3, <1>4 DEF Next

-----------------------------------------------------------------------------
(* What the steps do to the row versions.                                  *)

(* v says the same of its row as a committed version in V.                 *)
CommittedIn(v, V) == \E u \in V : u.by = Committed /\ u.row = v.row /\ u.doc = v.doc

NewVersion(w, st) == [row |-> st.row, doc |-> st.doc, by |-> w, del |-> Nobody]

(* A deleted version vanishes, or stays to be seen by others.              *)
LEMMA DeletedRows ==
  ASSUME TypeOK, NEW w \in Workers, NEW old \in SUBSET versions
  PROVE  /\ versions \ old \subseteq Deleted(w, old)
         /\ \A v \in Deleted(w, old) \ versions :
              v.by = Committed /\ v.del = w /\ CommittedIn(v, old)
         /\ \A v \in versions : v.by = Committed => CommittedIn(v, Deleted(w, old))
<1>1. \A v \in old : v.by = Committed =>
        /\ [v EXCEPT !.del = w].by = Committed /\ [v EXCEPT !.del = w].del = w
        /\ [v EXCEPT !.del = w].row = v.row /\ [v EXCEPT !.del = w].doc = v.doc
        /\ [v EXCEPT !.del = w] \in Deleted(w, old)
  BY DEF TypeOK, RowVersions, Deleted
<1>2. ASSUME NEW v \in Deleted(w, old) \ versions
      PROVE  \E x \in old : x.by = Committed /\ v = [x EXCEPT !.del = w]
  BY DEF Deleted
<1>3. ASSUME NEW v \in Deleted(w, old) \ versions
      PROVE  v.by = Committed /\ v.del = w /\ CommittedIn(v, old)
  BY <1>1, <1>2 DEF CommittedIn
<1>4. ASSUME NEW v \in versions, v.by = Committed PROVE CommittedIn(v, Deleted(w, old))
  <2>1. CASE v \in old
    BY <1>1, <1>4, <2>1 DEF CommittedIn
  <2>2. CASE v \notin old
    BY <1>4, <2>2 DEF CommittedIn, Deleted
  <2> QED
    BY <2>1, <2>2
<1> QED
  BY <1>3, <1>4 DEF Deleted

(* The rows a DELETE finds again are committed, or its own.                *)
LEMMA StillThereOwn ==
  ASSUME TypeInv, RunInv, LineInv, FreshInv, NEW w \in Workers, pc[w] = "dml",
         stmts[w][1].op = "deleting", NEW v \in StillThere(stmts[w][1])
  PROVE  /\ v \in versions /\ v.by \in {Committed, w}
         /\ \E t \in Remembered(w) : v.row = t.row /\ v.doc = t.doc
<1>1. v \in versions /\ v.by \in Workers \cup {Committed}
  BY DEF StillThere, TypeInv, TypeOK, RowVersions
<1>2. PICK t \in Remembered(w) : v.row = t.row /\ v.doc = t.doc
  BY DEF StillThere, Remembered
<1>3. CASE t.by = Committed
  <2>1. v.doc \in PastDocs
    BY <1>2, <1>3 DEF PastDocs
  <2> QED
    BY <1>1, <1>2, <2>1 DEF FreshInv
<1>4. CASE t.by = w /\ t.doc[1] = batch[w]
  <2>1. CASE v.by \in Workers \ {w}
    BY <1>1, <1>2, <1>4, <2>1 DEF RunInv
  <2> QED
    BY <1>1, <1>2, <2>1
<1> QED
  BY <1>2, <1>3, <1>4 DEF LineInv, Lines

(* A DML statement of w writes its line, replaces or deletes what is under *)
(* it, and leaves alone what others have written and what is committed.    *)
LEMMA WrittenRows ==
  ASSUME TypeInv, RunInv, LineInv, FreshInv, NEW w \in Workers, pc[w] = "dml",
         NEW st, st = stmts[w][1], Writes(w, st)
  PROVE  /\ \A v \in versions : v.by \in Workers \ {w} => v \in versions'
         /\ \A v \in versions : v.by = Committed => CommittedIn(v, versions')
         /\ \A v \in versions : v.by = w =>
              \/ v \in versions'
              \/ st.op = "upsert" /\ v.row = st.row
              \/ st.op = "deleting" /\ \E t \in Remembered(w) : v.row = t.row /\ v.doc = t.doc
         /\ \A v \in versions' :
              \/ v \in versions
              \/ v.by = Committed /\ CommittedIn(v, versions)
              \/ st.op \in {"insert", "upsert"} /\ v = NewVersion(w, st)
         /\ st.op \in {"insert", "upsert"} => NewVersion(w, st) \in versions'
<1>1. TypeOK /\ w # Committed /\ Committed \notin Workers
  BY PostgresAssumption DEF TypeInv, Workers
<1>2. CASE st.op = "insert"
  <2>1. versions' = versions \cup {NewVersion(w, st)}
    BY <1>2 DEF Writes, Inserted, NewVersion
  <2> QED
    BY <1>2, <2>1 DEF CommittedIn
<1>3. CASE st.op = "upsert"
  <2> DEFINE old == Existing(w, st.row)
  <2>1. versions' = Deleted(w, old) \cup {NewVersion(w, st)}
    BY <1>3 DEF Writes, Upserted, NewVersion
  <2>2. old \in SUBSET versions /\ \A v \in old : v.by \in {Committed, w} /\ v.row = st.row
    BY DEF Existing, Visible
  <2>3. /\ versions \ old \subseteq Deleted(w, old)
        /\ \A v \in Deleted(w, old) \ versions : v.by = Committed /\ CommittedIn(v, versions)
        /\ \A v \in versions : v.by = Committed => CommittedIn(v, Deleted(w, old))
    BY <1>1, <2>2, DeletedRows DEF CommittedIn
  <2> HIDE DEF old
  <2>4. \A v : CommittedIn(v, Deleted(w, old)) => CommittedIn(v, versions')
    BY <2>1 DEF CommittedIn
  <2>5. ASSUME NEW v \in versions
        PROVE  /\ v.by \in Workers \ {w} => v \in versions'
               /\ v.by = w => v \in versions' \/ v.row = st.row
    BY <1>1, <2>1, <2>2, <2>3
  <2>6. ASSUME NEW v \in versions'
        PROVE  \/ v \in versions
               \/ v.by = Committed /\ CommittedIn(v, versions)
               \/ v = NewVersion(w, st)
    BY <2>1, <2>3
  <2> QED
    BY <1>3, <2>1, <2>3, <2>4, <2>5, <2>6
<1>4. CASE st.op = "deleting"
  <2> DEFINE old == StillThere(st)
  <2>1. versions' = Deleted(w, old)
    BY <1>4 DEF Writes
  <2>2. /\ old \in SUBSET versions
        /\ \A v \in old :
             /\ v.by \in {Committed, w}
             /\ \E t \in Remembered(w) : v.row = t.row /\ v.doc = t.doc
    BY <1>4, StillThereOwn DEF StillThere
  <2>3. /\ versions \ old \subseteq Deleted(w, old)
        /\ \A v \in Deleted(w, old) \ versions : v.by = Committed /\ CommittedIn(v, versions)
        /\ \A v \in versions : v.by = Committed => CommittedIn(v, Deleted(w, old))
    BY <1>1, <2>2, DeletedRows DEF CommittedIn
  <2> HIDE DEF old
  <2>4. ASSUME NEW v \in versions
        PROVE  /\ v.by \in Workers \ {w} => v \in versions'
               /\ \/ v \in versions'
                  \/ \E t \in Remembered(w) : v.row = t.row /\ v.doc = t.doc
    BY <1>1, <2>1, <2>2, <2>3
  <2>5. ASSUME NEW v \in versions'
        PROVE  v \in versions \/ (v.by = Committed /\ CommittedIn(v, versions))
    BY <2>1, <2>3
  <2> QED
    BY <1>4, <2>1, <2>3, <2>4, <2>5
<1> QED
  BY <1>2, <1>3, <1>4 DEF Writes

(* COMMIT makes the versions of w everybody's.                             *)
LEMMA CommittedRows ==
  ASSUME TypeInv, RunInv, NEW w \in Workers, EndByCommit(w)
  PROVE  /\ \A v \in versions : v.by \in Workers \ {w} => v \in versions'
         /\ \A v \in versions : v.by = w => CommittedIn(v, versions')
         /\ \A v \in versions' :
              /\ v.by # w
              /\ v \in versions \/ (v.by = Committed /\ \E u \in versions :
                                      u.by = w /\ u.row = v.row /\ u.doc = v.doc)
<1> DEFINE Given(v) == [v EXCEPT !.by = IF @ = w THEN Committed ELSE @]
<1>1. w # Committed /\ w # Nobody
  BY PostgresAssumption DEF Workers
<1>2. versions' = {Given(v) : v \in {x \in versions : x.del # w}}
  BY DEF EndByCommit, CommittedVersions
<1>3. ASSUME NEW v \in versions
      PROVE  /\ v.by # w => Given(v) = v
             /\ v.by = w => Given(v).by = Committed
             /\ Given(v).row = v.row /\ Given(v).doc = v.doc
  BY DEF TypeInv, TypeOK, RowVersions
<1>4. \A v \in versions : v.by \in Workers => v.del = Nobody
  BY DEF RunInv
<1> HIDE DEF Given
<1>5. \A v \in versions : v.by \in Workers \ {w} => v \in versions'
  BY <1>1, <1>2, <1>3, <1>4
<1>6. \A v \in versions : v.by = w => CommittedIn(v, versions')
  BY <1>1, <1>2, <1>3, <1>4 DEF CommittedIn
<1>7. ASSUME NEW v \in versions'
      PROVE  /\ v.by # w
             /\ v \in versions \/ (v.by = Committed /\ \E u \in versions :
                                     u.by = w /\ u.row = v.row /\ u.doc = v.doc)
  <2>1. PICK u \in versions : v = Given(u)
    BY <1>2
  <2> QED
    BY <1>1, <1>3, <2>1
<1> QED
  BY <1>5, <1>6, <1>7

(* ROLLBACK takes back what w has written, and nothing else.               *)
LEMMA RolledRows ==
  ASSUME TypeInv, RunInv, NEW w \in Workers, EndByRollback(w)
  PROVE  /\ \A v \in versions : v.by \in Workers \ {w} => v \in versions'
         /\ \A v \in versions : v.by = Committed => CommittedIn(v, versions')
         /\ \A v \in versions' :
              /\ v.by # w
              /\ v \in versions \/ (v.by = Committed /\ CommittedIn(v, versions))
<1> DEFINE Freed(v) == [v EXCEPT !.del = IF @ = w THEN Nobody ELSE @]
<1>1. w # Committed /\ w # Nobody
  BY PostgresAssumption DEF Workers
<1>2. versions' = {Freed(v) : v \in {x \in versions : x.by # w}}
  BY DEF EndByRollback
<1>3. ASSUME NEW v \in versions
      PROVE  /\ v.del # w => Freed(v) = v
             /\ Freed(v).by = v.by /\ Freed(v).row = v.row /\ Freed(v).doc = v.doc
             /\ v.by \in Workers \cup {Committed}
  BY DEF TypeInv, TypeOK, RowVersions
<1>4. \A v \in versions : v.by \in Workers => v.del = Nobody
  BY DEF RunInv
<1> HIDE DEF Freed
<1>5. \A v \in versions : v.by \in Workers \ {w} => v \in versions'
  BY <1>1, <1>2, <1>3, <1>4
<1>6. \A v \in versions : v.by = Committed => CommittedIn(v, versions')
  BY <1>1, <1>2, <1>3 DEF CommittedIn
<1>7. ASSUME NEW v \in versions'
      PROVE  /\ v.by # w
             /\ v \in versions \/ (v.by = Committed /\ CommittedIn(v, versions))
  <2>1. PICK u \in versions : u.by # w /\ v = Freed(u)
    BY <1>2
  <2>2. CASE u.by = Committed
    BY <1>1, <1>3, <2>1, <2>2 DEF CommittedIn
  <2>3. CASE u.by \in Workers
    BY <1>1, <1>3, <1>4, <2>1, <2>3
  <2> QED
    BY <1>3, <2>1, <2>2, <2>3
<1> QED
  BY <1>5, <1>6, <1>7

-----------------------------------------------------------------------------
(* The invariant is kept: who runs what.                                   *)

(* A version of an open transaction is of the batch its worker is at.      *)
OwnRuns(v) == v.by \in Workers => v.del = Nobody /\ pc[v.by] # "idle" /\ v.doc[1] = batch[v.by]

(* A waiting batch is in nobody else's hands.                              *)
LEMMA RunBegins ==
  ASSUME TypeInv, RunInv, NEW w \in Workers, NEW b \in Batches, Begins(w, b)
  PROVE  RunInv'
<1>1. /\ pc[w] = "idle" /\ batch'[w] = b /\ next'[w] = 1 /\ rejected'[w] = {}
      /\ status[b] = "waiting" /\ status'[b] = "running"
      /\ \A c \in Batches \ {b} : status'[c] = status[c]
      /\ UNCHANGED versions
      /\ \A x \in Workers \ {w} :
           /\ pc'[x] = pc[x] /\ batch'[x] = batch[x] /\ next'[x] = next[x]
           /\ rejected'[x] = rejected[x]
  BY DEF Begins, Alone, OnlyMoves, TypeInv, TypeOK
<1>2. \A x \in Workers : pc[x] # "idle" => batch[x] \in Batches \ {b} /\ x # w
  BY <1>1 DEF RunInv, TypeInv, TypeOK
<1>3. ASSUME NEW x \in Workers
      PROVE  /\ pc'[x] # "idle" => status'[batch'[x]] = "running"
             /\ next'[x] <= Len(Content[batch'[x]]) + 1
             /\ rejected'[x] \subseteq 1..(next'[x] - 1)
  <2>1. CASE x = w
    BY <1>1, <2>1, ProcessorAssumption
  <2>2. CASE x # w
    BY <1>1, <1>2, <2>2 DEF RunInv
  <2> QED
    BY <2>1, <2>2
<1>4. ASSUME NEW x \in Workers, NEW y \in Workers, x # y, pc'[x] # "idle", pc'[y] # "idle"
      PROVE  batch'[x] # batch'[y]
  BY <1>1, <1>2, <1>4 DEF RunInv
<1>5. ASSUME NEW v \in versions PROVE OwnRuns(v)'
  BY <1>1 DEF RunInv, OwnRuns
<1> QED
  BY <1>1, <1>3, <1>4, <1>5 DEF RunInv, OwnRuns

(* A step inside a batch writes rows of that batch only.                   *)
LEMMA RunStep ==
  ASSUME TypeInv, TypeInv', RunInv, LineInv, FreshInv, NEW w \in Workers,
         \/ GoesOn(w) \/ Rejects(w) \/ Renders(w) \/ Remembers(w) \/ Executes(w)
  PROVE  RunInv'
<1> USE DEF Alone, OnlyMoves
<1>1. /\ pc[w] # "idle" /\ pc'[w] # "idle" /\ Alone(w)
      /\ UNCHANGED <<batch, status>>
      /\ next'[w] = next[w] \/ (next'[w] = next[w] + 1 /\ More(w))
      /\ \/ rejected'[w] = rejected[w]
         \/ rejected'[w] = rejected[w] \cup {next[w]} /\ next'[w] = next[w] + 1
  BY DEF GoesOn, Rejects, Renders, Remembers, Executes, TypeInv, InHand
<1>2. ASSUME NEW x \in Workers
      PROVE  /\ pc'[x] # "idle" => status'[batch'[x]] = "running"
             /\ next'[x] <= Len(Content[batch'[x]]) + 1
             /\ rejected'[x] \subseteq 1..(next'[x] - 1)
  <2>1. CASE x # w
    BY <1>1, <2>1 DEF RunInv
  <2>2. CASE x = w
    <3>1. next[w] \in Nat /\ Len(Content[batch[w]]) \in Nat /\ 1 <= next[w]
      BY ProcessorAssumption DEF TypeInv, TypeOK, InHand
    <3>2. rejected[w] \subseteq 1..(next[w] - 1) /\ next[w] <= Len(Content[batch[w]]) + 1
      BY DEF RunInv
    <3> QED
      BY <1>1, <2>2, <3>1, <3>2 DEF RunInv, More
  <2> QED
    BY <2>1, <2>2
<1>3. ASSUME NEW x \in Workers, NEW y \in Workers, x # y, pc'[x] # "idle", pc'[y] # "idle"
      PROVE  batch'[x] # batch'[y]
  BY <1>1, <1>3 DEF RunInv
<1>4. \A v \in versions : OwnRuns(v)'
  BY <1>1 DEF RunInv, OwnRuns
<1>5. ASSUME NEW v \in versions' PROVE OwnRuns(v)'
  <2>1. CASE ~Executes(w)
    BY <1>4, <1>5, <2>1 DEF GoesOn, Rejects, Renders, Remembers
  <2>2. CASE Executes(w)
    <3>1. PICK st : st = stmts[w][1] /\ Writes(w, st) /\ pc[w] = "dml"
      BY <2>2 DEF Executes
    <3>2. \/ v \in versions
          \/ v.by = Committed
          \/ st.op \in {"insert", "upsert"} /\ v = NewVersion(w, st)
      BY <1>5, <3>1, WrittenRows
    <3>3. CASE st.op \in {"insert", "upsert"} /\ v = NewVersion(w, st)
      <4>1. 1 \in 1..Len(stmts[w])
        BY <3>1 DEF TypeInv, InHand
      <4>2. st.doc[1] = batch[w]
        BY <3>1, <3>3, <4>1 DEF LineInv, Lines, LineOf, LineFor
      <4> QED
        BY <1>1, <3>3, <4>2 DEF NewVersion, OwnRuns
    <3> QED
      BY <1>4, <3>2, <3>3, PostgresAssumption DEF OwnRuns, Workers
  <2> QED
    BY <2>1, <2>2
<1> QED
  BY <1>2, <1>3, <1>5 DEF RunInv, OwnRuns

(* The end of a batch leaves nothing uncommitted of it.                    *)
LEMMA RunEnd ==
  ASSUME TypeInv, RunInv, NEW w \in Workers, Commits(w) \/ RollsBack(w)
  PROVE  RunInv'
<1>1. /\ pc'[w] = "idle" /\ UNCHANGED <<batch, next, rejected>>
      /\ \A x \in Workers \ {w} : pc'[x] = pc[x]
      /\ \A b \in Batches \ {batch[w]} : status'[b] = status[b]
      /\ pc[w] # "idle"
  BY DEF Commits, RollsBack, Alone, OnlyMoves, locals, TypeInv, TypeOK
<1>2. ASSUME NEW x \in Workers, pc'[x] # "idle"
      PROVE  status'[batch'[x]] = "running"
  <2>1. x # w /\ pc[x] # "idle" /\ batch[x] \in Batches /\ batch'[x] = batch[x]
    BY <1>1, <1>2 DEF TypeInv, TypeOK
  <2>2. batch[x] # batch[w] /\ status[batch[x]] = "running"
    BY <1>1, <2>1 DEF RunInv
  <2> QED
    BY <1>1, <2>1, <2>2
<1>3. \A v \in versions' : v.by # w /\ (v \in versions \/ v.by = Committed)
  BY CommittedRows, RolledRows DEF Commits, RollsBack
<1>4. ASSUME NEW v \in versions' PROVE OwnRuns(v)'
  BY <1>1, <1>3, PostgresAssumption DEF RunInv, OwnRuns, Workers
<1>5. ASSUME NEW x \in Workers, NEW y \in Workers, x # y, pc'[x] # "idle", pc'[y] # "idle"
      PROVE  batch'[x] # batch'[y]
  BY <1>1, <1>5 DEF RunInv
<1>6. ASSUME NEW x \in Workers
      PROVE  /\ pc'[x] # "idle" => status'[batch'[x]] = "running"
             /\ next'[x] <= Len(Content[batch'[x]]) + 1
             /\ rejected'[x] \subseteq 1..(next'[x] - 1)
  BY <1>1, <1>2 DEF RunInv
<1> QED
  BY <1>4, <1>5, <1>6 DEF RunInv, OwnRuns

-----------------------------------------------------------------------------
(* The invariant is kept: the statements left.                             *)

(* What a message renders to: one line for each of its rows, before them   *)
(* at most one DELETE, all of the same delivery.                           *)
LEMMA DmlShape ==
  ASSUME TypeInv, NEW w \in Workers, More(w)
  PROVE  /\ \A k \in 1..Len(Dml(w)) :
              /\ Dml(w)[k].op \in {"insert", "upsert", "delete"}
              /\ Dml(w)[k].op = "delete" => k = 1
              /\ Dml(w)[k].doc = <<batch[w], next[w], faults>>
              /\ LineFor(Dml(w)[k], Current(w))
         /\ \A no \in 0..Items(Current(w)) : \E k \in 1..Len(Dml(w)) :
              Dml(w)[k].op \in {"insert", "upsert"} /\ Dml(w)[k].row = RowOf(Current(w), no)
<1> DEFINE m == Current(w)
           doc == <<batch[w], next[w], faults>>
           Good(s) ==
             /\ \A k \in 1..Len(s) :
                  /\ s[k].op \in {"insert", "upsert", "delete"}
                  /\ s[k].op = "delete" => k = 1
                  /\ s[k].doc = doc /\ LineFor(s[k], m)
             /\ \A no \in 0..Items(m) : \E k \in 1..Len(s) :
                  s[k].op \in {"insert", "upsert"} /\ s[k].row = RowOf(m, no)
<1>1. m \in Messages /\ doc \in Docs
  BY CurrentMessage, ProcessorAssumption DEF TypeInv, TypeOK, Docs
<1>2. Items(m) \in Nat
  BY <1>1, ProcessorAssumption DEF Items
<1> HIDE DEF m, doc
<1>3. \A op \in {"insert", "upsert", "delete"}, no \in Nat :
        /\ Line(op, m, doc, no).op = op /\ Line(op, m, doc, no).doc = doc
        /\ Line(op, m, doc, no).row = RowOf(m, no) /\ LineFor(Line(op, m, doc, no), m)
        /\ Line(op, m, doc, no) \in DmlLines
  BY <1>1, LineTyped DEF Line, LineFor, OfMessage, RowOf
<1>4. /\ Len(ChildInserts(m, doc)) = Items(m) /\ ChildInserts(m, doc) \in Seq(DmlLines)
      /\ \A no \in 1..Items(m) : ChildInserts(m, doc)[no] = Line("insert", m, doc, no)
  BY <1>1, <1>2, ChildrenTyped DEF ChildInserts
<1>5. ASSUME NEW op \in {"insert", "upsert"}
      PROVE  Good(<<Line(op, m, doc, 0)>> \o ChildInserts(m, doc))
  <2> DEFINE s == <<Line(op, m, doc, 0)>> \o ChildInserts(m, doc)
  <2>1. /\ Len(s) = 1 + Items(m) /\ s[1] = Line(op, m, doc, 0)
        /\ \A no \in 1..Items(m) : s[no + 1] = Line("insert", m, doc, no)
    BY <1>2, <1>3, <1>4
  <2> HIDE DEF s
  <2>2. \A k \in 1..Len(s) :
          \/ k = 1 /\ s[k] = Line(op, m, doc, 0)
          \/ k - 1 \in 1..Items(m) /\ s[k] = Line("insert", m, doc, k - 1)
    <3> SUFFICES ASSUME NEW k \in 1..Len(s), k # 1
                 PROVE  k - 1 \in 1..Items(m) /\ s[k] = Line("insert", m, doc, k - 1)
      BY <2>1
    <3>1. k - 1 \in 1..Items(m) /\ (k - 1) + 1 = k
      BY <1>2, <2>1
    <3> QED
      BY <2>1, <3>1
  <2>3. \A no \in 0..Items(m) : no + 1 \in 1..Len(s) /\ s[no + 1].row = RowOf(m, no)
                                /\ s[no + 1].op \in {"insert", "upsert"}
    BY <1>2, <1>3, <2>1
  <2>4. ASSUME NEW k \in 1..Len(s)
        PROVE  /\ s[k].op \in {"insert", "upsert", "delete"} /\ s[k].op # "delete"
               /\ s[k].doc = doc /\ LineFor(s[k], m)
    <3>1. PICK o \in {"insert", "upsert", "delete"}, no \in Nat :
            o # "delete" /\ s[k] = Line(o, m, doc, no)
      BY <1>2, <2>2
    <3> QED
      BY <1>3, <3>1
  <2>5. Good(s)
    BY <2>3, <2>4
  <2> QED
    BY <2>5 DEF s
<1>6. Good(InsertStatements(m, doc))
  BY <1>5 DEF InsertStatements
<1>7. Good(UpsertStatements(m, doc))
  <2> DEFINE s == <<Line("upsert", m, doc, 0)>> \o ChildInserts(m, doc)
             d == Line("delete", m, doc, 0)
             u == <<d>> \o s
  <2>1. /\ Good(s) /\ s \in Seq(DmlLines) /\ d \in DmlLines
        /\ d.op = "delete" /\ d.doc = doc /\ LineFor(d, m)
    <3>1. Good(s)
      BY <1>5
    <3>2. d \in DmlLines /\ Line("upsert", m, doc, 0) \in DmlLines
      BY <1>3
    <3>3. s \in Seq(DmlLines)
      BY <1>4, <3>2
    <3>4. d.op = "delete" /\ d.doc = doc /\ LineFor(d, m)
      BY <1>3
    <3> QED
      BY <3>1, <3>2, <3>3, <3>4
  <2>2. \A k \in 1..Len(s) : s[k].op # "delete"
    <3>1. \A k \in 1..Len(s) : k = 1 => s[k].op = "upsert"
      BY <1>3, <1>4
    <3> QED
      BY <2>1, <3>1
  <2>3. UpsertStatements(m, doc) = s \/ UpsertStatements(m, doc) = u
    <3>1. UpsertStatements(m, doc) = Deletes(m, doc) \o s
      BY <1>3, <1>4 DEF UpsertStatements, Deletes
    <3>2. <<>> \o s = s
      BY <2>1
    <3> QED
      BY <3>1, <3>2 DEF Deletes
  <2> HIDE DEF s, d
  <2>4. /\ Len(u) = Len(s) + 1 /\ u[1] = d /\ Len(s) \in Nat
        /\ \A k \in 1..Len(s) : u[k + 1] = s[k]
    BY <2>1
  <2> HIDE DEF u
  <2>5. \A k \in 1..Len(u) : k = 1 \/ (k - 1 \in 1..Len(s) /\ u[k] = s[k - 1])
    <3> SUFFICES ASSUME NEW k \in 1..Len(u), k # 1
                 PROVE  k - 1 \in 1..Len(s) /\ u[k] = s[k - 1]
      OBVIOUS
    <3>1. k - 1 \in 1..Len(s) /\ (k - 1) + 1 = k
      BY <2>4
    <3> QED
      BY <2>4, <3>1
  <2>6. \A k \in 1..Len(s) : k + 1 \in 1..Len(u)
    BY <2>4
  <2>7. ASSUME NEW k \in 1..Len(u)
        PROVE  /\ u[k].op \in {"insert", "upsert", "delete"}
               /\ u[k].op = "delete" => k = 1
               /\ u[k].doc = doc /\ LineFor(u[k], m)
    <3>1. CASE k = 1
      BY <2>1, <2>4, <3>1
    <3>2. CASE k # 1
      <4>1. k - 1 \in 1..Len(s) /\ u[k] = s[k - 1]
        BY <2>5, <3>2
      <4> QED
        BY <2>1, <2>2, <4>1
    <3> QED
      BY <3>1, <3>2
  <2>8. ASSUME NEW no \in 0..Items(m)
        PROVE  \E k \in 1..Len(u) : u[k].op \in {"insert", "upsert"} /\ u[k].row = RowOf(m, no)
    <3>1. PICK k \in 1..Len(s) : s[k].op \in {"insert", "upsert"} /\ s[k].row = RowOf(m, no)
      BY <2>1
    <3>2. k + 1 \in 1..Len(u) /\ u[k + 1] = s[k]
      BY <2>4, <2>6
    <3> QED
      BY <3>1, <3>2
  <2>9. Good(u)
    BY <2>7, <2>8
  <2> QED
    BY <2>1, <2>3, <2>9
<1>8. Good(Dml(w))
  BY <1>6, <1>7 DEF Dml, m, doc
<1> QED
  BY <1>8 DEF m, doc

(* A worker that does not move, or leaves its statements, keeps to them.    *)
LEMMA LinesQuiet ==
  ASSUME NEW w, Lines(w),
         \/ pc'[w] # "dml"
         \/ pc'[w] = pc[w] /\ batch'[w] = batch[w] /\ next'[w] = next[w] /\ stmts'[w] = stmts[w]
  PROVE  Lines(w)'
<1>1. CASE pc'[w] # "dml"
  BY <1>1 DEF Lines, Remembered
<1>2. CASE pc'[w] = pc[w] /\ batch'[w] = batch[w] /\ next'[w] = next[w] /\ stmts'[w] = stmts[w]
  <2>1. Remembered(w)' = Remembered(w) /\ Current(w)' = Current(w)
    BY <1>2 DEF Remembered, Current, Msg
  <2> QED
    BY <1>2, <2>1 DEF Lines, LineOf, LineFor
<1> QED
  BY <1>1, <1>2

(* The lines of a message just rendered are its own.                       *)
LEMMA LinesRender ==
  ASSUME TypeInv, NEW w \in Workers, Renders(w)
  PROVE  Lines(w)'
<1>1. /\ pc'[w] = "dml" /\ stmts'[w] = Dml(w) /\ batch'[w] = batch[w] /\ next'[w] = next[w]
      /\ Current(w)' = Current(w)
  BY DEF Renders, Current, Msg
<1>2. \A k \in 1..Len(Dml(w)) :
        /\ Dml(w)[k].op \in {"insert", "upsert", "delete"}
        /\ Dml(w)[k].op = "delete" => k = 1
        /\ Dml(w)[k].doc = <<batch[w], next[w], faults>>
        /\ LineFor(Dml(w)[k], Current(w))
  BY DmlShape DEF Renders
<1>3. Len(Dml(w)) >= 1
  BY DmlTyped DEF Renders
<1>4. Remembered(w)' = {}
  BY <1>1, <1>2, <1>3 DEF Remembered
<1>5. \A st : LineOf(w, st) => LineOf(w, st)'
  BY <1>1 DEF LineOf, LineFor, OfMessage
<1>6. \A k \in 1..Len(Dml(w)) : LineOf(w, Dml(w)[k])
  BY <1>2 DEF LineOf, LineFor
<1>7. ASSUME NEW k \in 1..Len(stmts'[w])
      PROVE  LineOf(w, stmts[w][k])' /\ (stmts'[w][k].op \in {"delete", "deleting"} => k = 1)
  BY <1>1, <1>2, <1>5, <1>6
<1> QED
  BY <1>4, <1>7 DEF Lines

(* A DELETE remembers rows of the current message.                         *)
LEMMA LinesRemember ==
  ASSUME TypeInv, RunInv, LineInv, NEW w \in Workers, Remembers(w)
  PROVE  Lines(w)'
<1> DEFINE first == [op |-> "deleting", rows |-> Targets(w, stmts[w][1].row)]
<1>1. /\ pc[w] = "dml" /\ pc'[w] = "dml" /\ stmts[w][1].op = "delete"
      /\ stmts'[w] = [stmts[w] EXCEPT ![1] = first]
      /\ stmts[w] \in Seq(DmlLines) \ {<<>>}
      /\ batch'[w] = batch[w] /\ next'[w] = next[w] /\ Current(w)' = Current(w)
  BY DEF Remembers, Current, Msg, TypeInv, InHand
<1>2. /\ Len(stmts'[w]) = Len(stmts[w]) /\ stmts'[w][1] = first
      /\ \A k \in 2..Len(stmts[w]) : stmts'[w][k] = stmts[w][k]
      /\ 1 \in 1..Len(stmts[w])
  BY <1>1
<1>3. first.op = "deleting" /\ first.rows = Targets(w, stmts[w][1].row)
  OBVIOUS
<1>4. Remembered(w)' = Targets(w, stmts[w][1].row)
  BY <1>1, <1>2, <1>3 DEF Remembered
<1>5. OfMessage(stmts[w][1].row, Current(w))
  BY <1>1, <1>2 DEF LineInv, Lines, LineOf, LineFor
<1>6. ASSUME NEW t \in Targets(w, stmts[w][1].row)
      PROVE  /\ OfMessage(t.row, Current(w)) /\ t.row.no > 0
             /\ t.by = Committed \/ (t.by = w /\ t.doc[1] = batch[w])
  <2>1. t \in versions /\ t.by \in {Committed, w} /\ t.row.no > 0
        /\ t.row.table = stmts[w][1].row.table /\ t.row.key = stmts[w][1].row.key
    BY DEF Targets, Visible
  <2>2. t.by = w => t.doc[1] = batch[w]
    BY <2>1 DEF RunInv
  <2> QED
    BY <1>5, <2>1, <2>2 DEF OfMessage
<1>7. ASSUME NEW k \in 1..Len(stmts'[w])
      PROVE  LineOf(w, stmts[w][k])' /\ (stmts'[w][k].op \in {"delete", "deleting"} => k = 1)
  <2>1. CASE k = 1
    BY <1>2, <1>3, <2>1 DEF LineOf, LineFor
  <2>2. CASE k # 1
    BY <1>1, <1>2, <2>2 DEF LineInv, Lines, LineOf, LineFor, OfMessage
  <2> QED
    BY <2>1, <2>2
<1>8. \A t \in Remembered(w)' :
        /\ OfMessage(t.row, Current(w))' /\ t.row.no > 0
        /\ t.by = Committed \/ (t.by = w /\ t.doc[1] = batch'[w])
  BY <1>1, <1>4, <1>6 DEF OfMessage
<1> QED
  BY <1>7, <1>8 DEF Lines

(* The statements after the first are the first of what is left.            *)
LEMMA TailLines ==
  ASSUME NEW S, NEW s \in Seq(S) \ {<<>>}
  PROVE  /\ Tail(s) \in Seq(S) /\ Len(Tail(s)) = Len(s) - 1
         /\ \A k \in 1..Len(Tail(s)) : k + 1 \in 2..Len(s) /\ Tail(s)[k] = s[k + 1]
         /\ \A k \in 2..Len(s) : k - 1 \in 1..Len(Tail(s)) /\ Tail(s)[k - 1] = s[k]
OBVIOUS

(* The lines behind the executed one are of the same message.              *)
LEMMA LinesExecute ==
  ASSUME TypeInv, LineInv, NEW w \in Workers, Executes(w), pc'[w] = "dml"
  PROVE  Lines(w)'
<1>1. /\ pc[w] = "dml" /\ stmts'[w] = Tail(stmts[w]) /\ Tail(stmts[w]) # <<>>
      /\ stmts[w] \in Seq(DmlLines) \ {<<>>}
      /\ batch'[w] = batch[w] /\ next'[w] = next[w] /\ Current(w)' = Current(w)
  BY DEF Executes, Current, Msg, TypeInv, InHand
<1>2. \A k \in 1..Len(stmts'[w]) : k + 1 \in 2..Len(stmts[w]) /\ stmts'[w][k] = stmts[w][k + 1]
  BY <1>1, TailLines
<1>3. \A k \in 2..Len(stmts[w]) :
        LineOf(w, stmts[w][k]) /\ stmts[w][k].op \notin {"delete", "deleting"}
  BY <1>1 DEF LineInv, Lines
<1>4. \A k \in 1..Len(stmts'[w]) :
        LineOf(w, stmts'[w][k]) /\ stmts'[w][k].op \notin {"delete", "deleting"}
  BY <1>2, <1>3
<1>5. 1 \in 1..Len(stmts'[w])
  BY <1>1, TailLines
<1>6. Remembered(w)' = {}
  BY <1>4, <1>5 DEF Remembered
<1>7. \A st : LineOf(w, st) => LineOf(w, st)'
  BY <1>1 DEF LineOf, LineFor, OfMessage
<1>8. \A k \in 1..Len(stmts'[w]) : LineOf(w, stmts[w][k])'
  BY <1>4, <1>7
<1> QED
  BY <1>4, <1>6, <1>8 DEF Lines

(* A step of w leaves everybody the lines of his message.                  *)
LEMMA LineStep ==
  ASSUME TypeInv, RunInv, LineInv, NEW w \in Workers, Kind(w)
  PROVE  LineInv'
<1>1. ASSUME NEW x \in Workers, x # w PROVE Lines(x)'
  <2>1. Alone(w)
    BY DEF Kind, Begins, GoesOn, Rejects, Renders, Remembers, Executes, Commits, RollsBack
  <2> QED
    BY <1>1, <2>1, LinesQuiet DEF LineInv, Alone, OnlyMoves
<1>2. Lines(w)'
  <2>1. CASE pc'[w] # "dml"
    BY <2>1, LinesQuiet DEF LineInv
  <2>2. CASE pc'[w] = "dml"
    <3>1. Renders(w) \/ Remembers(w) \/ Executes(w)
      BY <2>2 DEF Kind, Begins, GoesOn, Rejects, Commits, RollsBack
    <3> QED
      BY <2>2, <3>1, LinesRender, LinesRemember, LinesExecute
  <2> QED
    BY <2>1, <2>2
<1> QED
  BY <1>1, <1>2 DEF LineInv

-----------------------------------------------------------------------------
(* The invariant is kept: no delivery under way is one of the past.        *)

(* No step of w moves another worker.                                      *)
LEMMA KindAlone == ASSUME NEW w \in Workers, Kind(w) PROVE Alone(w)
BY DEF Kind, Begins, GoesOn, Rejects, Renders, Remembers, Executes, Commits, RollsBack

(* Past deliveries are deliveries.                                         *)
LEMMA PastTyped == ASSUME TypeInv PROVE PastDocs \subseteq Docs
<1>1. \A v \in versions : v.doc \in Docs
  BY DEF TypeInv, TypeOK, RowVersions
<1>2. ASSUME NEW w \in Workers, NEW t \in Remembered(w) PROVE t.doc \in Docs
  <2>1. /\ pc[w] = "dml" /\ stmts[w][1].op = "deleting" /\ t \in stmts[w][1].rows
        /\ stmts[w] \in Seq(DmlLines) \ {<<>>}
    BY <1>2 DEF Remembered, TypeInv, InHand
  <2>2. stmts[w][1] \in DmlLines
    BY <2>1
  <2>3. stmts[w][1].rows \subseteq RowVersions
    BY <2>1, <2>2 DEF DmlLines
  <2> QED
    BY <2>1, <2>3 DEF RowVersions
<1> QED
  BY <1>1, <1>2 DEF PastDocs

(* Only the start of a DELETE makes a worker remember rows.                *)
LEMMA RememberedStep ==
  ASSUME TypeInv, RunInv, LineInv, NEW w \in Workers, Kind(w), NEW x \in Workers
  PROVE  \A t \in Remembered(x)' :
           t \in Remembered(x) \/ (x = w /\ Remembers(w) /\ t \in versions)
<1>1. CASE x # w
  <2>1. Remembered(x)' = Remembered(x)
    BY <1>1, KindAlone DEF Alone, OnlyMoves, Remembered
  <2> QED
    BY <2>1
<1>2. CASE x = w
  <2>1. CASE Remembers(w)
    <3> DEFINE first == [op |-> "deleting", rows |-> Targets(w, stmts[w][1].row)]
    <3>1. stmts'[w] = [stmts[w] EXCEPT ![1] = first] /\ 1 \in DOMAIN stmts[w]
      BY <2>1 DEF Remembers, TypeInv, InHand
    <3>2. stmts'[w][1].rows = Targets(w, stmts[w][1].row)
      BY <3>1
    <3> QED
      BY <1>2, <2>1, <3>2 DEF Remembered, Targets, Visible
  <2>2. CASE Renders(w)
    <3>1. stmts'[w][1] = Dml(w)[1] /\ 1 \in 1..Len(Dml(w))
      BY <2>2, DmlTyped DEF Renders
    <3>2. Dml(w)[1].op # "deleting"
      BY <2>2, <3>1, DmlShape DEF Renders
    <3> QED
      BY <1>2, <3>1, <3>2 DEF Remembered
  <2>3. CASE Executes(w) /\ pc'[w] = "dml"
    <3>1. /\ pc[w] = "dml" /\ stmts'[w] = Tail(stmts[w]) /\ Tail(stmts[w]) # <<>>
          /\ stmts[w] \in Seq(DmlLines) \ {<<>>}
      BY <2>3 DEF Executes, TypeInv, InHand
    <3>2. 2 \in 1..Len(stmts[w]) /\ stmts'[w][1] = stmts[w][2]
      BY <3>1, TailLines
    <3>3. stmts[w][2].op # "deleting"
      BY <3>1, <3>2 DEF LineInv, Lines
    <3> QED
      BY <1>2, <3>2, <3>3 DEF Remembered
  <2>4. CASE pc'[w] # "dml"
    BY <1>2, <2>4 DEF Remembered
  <2> QED
    BY <2>1, <2>2, <2>3, <2>4
       DEF Kind, Begins, GoesOn, Rejects, Renders, Remembers, Executes, Commits, RollsBack
<1> QED
  BY <1>1, <1>2

(* Rows of the others stay; w may write its line, or give away its rows.   *)
LEMMA VersionStep ==
  ASSUME TypeInv, RunInv, LineInv, FreshInv, NEW w \in Workers, Kind(w)
  PROVE  /\ \A v \in versions : v.by \in Workers \ {w} => v \in versions'
         /\ ~Commits(w) => \A v \in versions : v.by = Committed => CommittedIn(v, versions')
         /\ \A v \in versions' :
              \/ v \in versions
              \/ v.by = Committed /\ CommittedIn(v, versions)
              \/ /\ Executes(w) /\ v = NewVersion(w, stmts[w][1])
                 /\ stmts[w][1].op \in {"insert", "upsert"}
              \/ /\ Commits(w) /\ v.by = Committed
                 /\ \E u \in versions : u.by = w /\ u.row = v.row /\ u.doc = v.doc
<1>1. CASE UNCHANGED versions
  BY <1>1 DEF CommittedIn
<1>2. CASE Executes(w)
  BY <1>2, WrittenRows DEF Executes
<1>3. CASE Commits(w)
  BY <1>3, CommittedRows DEF Commits
<1>4. CASE RollsBack(w)
  BY <1>4, RolledRows DEF RollsBack
<1> QED
  BY <1>1, <1>2, <1>3, <1>4 DEF Kind, Begins, GoesOn, Rejects, Renders, Remembers

(* The past grows by what is committed.                                    *)
LEMMA PastStep ==
  ASSUME TypeInv, RunInv, LineInv, FreshInv, NEW w \in Workers, Kind(w), NEW d \in PastDocs'
  PROVE  d \in PastDocs \/ (Commits(w) /\ \E u \in versions : u.by = w /\ u.doc = d)
<1>1. Committed \notin Workers
  BY PostgresAssumption DEF Workers
<1>2. ASSUME NEW v \in versions', v.by = Committed, v.doc = d
      PROVE  d \in PastDocs \/ (Commits(w) /\ \E u \in versions : u.by = w /\ u.doc = d)
  <2>1. \/ v \in versions
        \/ CommittedIn(v, versions)
        \/ v = NewVersion(w, stmts[w][1])
        \/ Commits(w) /\ \E u \in versions : u.by = w /\ u.doc = v.doc
    BY VersionStep
  <2> QED
    BY <1>1, <1>2, <2>1 DEF PastDocs, CommittedIn, NewVersion
<1>3. ASSUME NEW x \in Workers, NEW t \in Remembered(x)', t.by = Committed, t.doc = d
      PROVE  d \in PastDocs
  <2>1. t \in Remembered(x) \/ t \in versions
    BY RememberedStep
  <2> QED
    BY <1>3, <2>1 DEF PastDocs
<1> QED
  BY <1>2, <1>3 DEF PastDocs

(* Faults are counted up, and only the end of a batch or the start of a    *)
(* waiting one changes its status.                                         *)
LEMMA StatusStep ==
  ASSUME TypeInv, TypeInv', RunInv, NEW w \in Workers, Kind(w)
  PROVE  /\ faults \in Nat /\ faults' \in Nat /\ faults <= faults'
         /\ \A b \in Batches :
              \/ status'[b] = status[b]
              \/ status[b] # "done"
         /\ Commits(w) => status'[batch[w]] = "done" \/ faults' = faults + 1
<1>1. faults \in Nat /\ faults' \in Nat
  BY ProcessorAssumption DEF TypeInv, TypeOK
<1>2. faults <= faults'
  BY <1>1 DEF Kind, Begins, GoesOn, Rejects, Renders, Remembers, Executes, Commits, RollsBack
<1>3. ASSUME NEW b \in Batches PROVE status'[b] = status[b] \/ status[b] # "done"
  <2>1. \/ UNCHANGED status
        \/ \E c \in Batches : status[c] = "waiting" /\ status' = [status EXCEPT ![c] = "running"]
        \/ \E s : pc[w] # "idle" /\ status' = [status EXCEPT ![batch[w]] = s]
    BY DEF Kind, Begins, GoesOn, Rejects, Renders, Remembers, Executes, Commits, RollsBack
  <2> QED
    BY <2>1 DEF RunInv, TypeInv, TypeOK
<1>4. Commits(w) => status'[batch[w]] = "done" \/ faults' = faults + 1
  BY DEF Commits, TypeInv, TypeOK
<1> QED
  BY <1>1, <1>2, <1>3, <1>4

(* No step makes a delivery under way one of the past.                     *)
LEMMA FreshStep ==
  ASSUME TypeInv, TypeInv', RunInv, LineInv, FreshInv, NEW w \in Workers, Kind(w)
  PROVE  FreshInv'
<1>1. /\ faults \in Nat /\ faults' \in Nat /\ faults <= faults'
      /\ \A b \in Batches : status'[b] = status[b] \/ status[b] # "done"
      /\ Commits(w) => status'[batch[w]] = "done" \/ faults' = faults + 1
  BY StatusStep
<1>2. Committed \notin Workers
  BY PostgresAssumption DEF Workers
<1>3. PastDocs \subseteq Docs /\ \A v \in versions : v.doc \in Docs
  BY PastTyped DEF TypeInv, TypeOK, RowVersions
<1>4. Executes(w) /\ stmts[w][1].op \in {"insert", "upsert"} =>
        /\ stmts[w][1].doc[3] <= faults /\ stmts[w][1].doc \notin PastDocs
        /\ stmts[w][1].doc[1] = batch[w]
  <2> SUFFICES ASSUME Executes(w), stmts[w][1].op \in {"insert", "upsert"}
               PROVE  /\ stmts[w][1].doc[3] <= faults /\ stmts[w][1].doc \notin PastDocs
                      /\ stmts[w][1].doc[1] = batch[w]
    OBVIOUS
  <2>1. pc[w] = "dml" /\ 1 \in 1..Len(stmts[w])
    BY DEF Executes, TypeInv, InHand
  <2> QED
    BY <2>1 DEF FreshInv, NotPast, LineInv, Lines, LineOf, LineFor
<1>5. ASSUME NEW v \in versions' PROVE v.doc[3] <= faults'
  <2>1. PICK u \in versions \cup {v} :
          /\ u.doc = v.doc
          /\ u \in versions \/ (Executes(w) /\ stmts[w][1].op \in {"insert", "upsert"}
                                /\ v = NewVersion(w, stmts[w][1]))
    BY <1>5, VersionStep DEF CommittedIn
  <2>2. v.doc \in Docs /\ v.doc[3] \in Nat
    BY <1>5 DEF TypeInv, TypeOK, RowVersions, Docs
  <2>3. v.doc[3] <= faults
    BY <1>4, <2>1 DEF FreshInv, NewVersion
  <2> QED
    BY <1>1, <2>2, <2>3
<1>6. ASSUME NEW d \in PastDocs'
      PROVE  d[3] <= faults' /\ (status'[d[1]] # "done" => d[3] < faults')
  <2>1. d \in Docs /\ d[1] \in Batches /\ d[3] \in Nat
    BY <1>3, <1>6, PastStep DEF Docs
  <2>2. CASE d \in PastDocs
    BY <1>1, <2>1, <2>2 DEF FreshInv
  <2>3. CASE Commits(w) /\ \E u \in versions : u.by = w /\ u.doc = d
    <3>1. d[3] <= faults /\ d[1] = batch[w]
      BY <2>3 DEF FreshInv, RunInv
    <3> QED
      BY <1>1, <2>1, <2>3, <3>1
  <2> QED
    BY <1>6, <2>2, <2>3, PastStep
<1>7. ASSUME NEW x \in Workers \ {w}, NEW d, pc[x] # "idle", d[1] = batch[x], d \in PastDocs'
      PROVE  d \in PastDocs
  <2>1. CASE Commits(w) /\ \E u \in versions : u.by = w /\ u.doc = d
    <3>1. pc[w] # "idle" /\ d[1] = batch[w]
      BY <2>1 DEF Commits, RunInv
    <3> QED
      BY <1>7, <3>1 DEF RunInv
  <2> QED
    BY <1>7, <2>1, PastStep
<1>8. ASSUME ~Commits(w) PROVE PastDocs' \subseteq PastDocs
  BY <1>8, PastStep
<1>9. ASSUME NEW v \in versions', v.by \in Workers PROVE v.doc \notin PastDocs'
  <2>1. CASE v \in versions /\ v.by # w
    BY <1>7, <1>9, <2>1 DEF FreshInv, RunInv
  <2>2. CASE v \in versions /\ v.by = w
    <3>1. ~Commits(w)
      BY <2>2, CommittedRows DEF Commits
    <3> QED
      BY <1>8, <1>9, <2>2, <3>1 DEF FreshInv
  <2>3. CASE /\ Executes(w) /\ stmts[w][1].op \in {"insert", "upsert"}
             /\ v = NewVersion(w, stmts[w][1])
    <3>1. ~Commits(w)
      BY <2>3 DEF Commits, Executes
    <3> QED
      BY <1>4, <1>8, <2>3, <3>1 DEF NewVersion
  <2> QED
    BY <1>2, <1>9, <2>1, <2>2, <2>3, VersionStep
<1>10. ASSUME NEW x \in Workers \ {w} PROVE NotPast(x)'
  <2>1. pc'[x] = pc[x] /\ stmts'[x] = stmts[x] /\ batch'[x] = batch[x]
    BY <1>10, KindAlone DEF Alone, OnlyMoves
  <2> SUFFICES ASSUME pc[x] = "dml", NEW k \in 1..Len(stmts[x]), stmts[x][k].op # "deleting"
               PROVE  stmts[x][k].doc[3] <= faults' /\ stmts[x][k].doc \notin PastDocs'
    BY <2>1 DEF NotPast
  <2>2. /\ stmts[x][k].doc[3] <= faults /\ stmts[x][k].doc \notin PastDocs
        /\ stmts[x][k].doc[1] = batch[x]
    BY DEF FreshInv, NotPast, LineInv, Lines, LineOf, LineFor
  <2>3. stmts[x][k].doc \in Docs
    <3>1. stmts[x][k] \in DmlLines
      BY DEF TypeInv, InHand
    <3> QED
      BY <3>1 DEF DmlLines
  <2>4. stmts[x][k].doc[3] \in Nat
    BY <2>3 DEF Docs
  <2> QED
    BY <1>1, <1>7, <2>2, <2>4
<1>11. NotPast(w)'
  <2>1. CASE Renders(w)
    <3>1. /\ stmts'[w] = Dml(w) /\ faults' = faults /\ pc[w] # "idle" /\ ~Commits(w)
          /\ \A k \in 1..Len(Dml(w)) : Dml(w)[k].doc = <<batch[w], next[w], faults>>
      BY <2>1, DmlShape DEF Renders, Commits
    <3>2. <<batch[w], next[w], faults>> \notin PastDocs
      <4>1. status[batch[w]] # "done"
        BY <3>1 DEF RunInv
      <4> QED
        BY <1>1, <4>1 DEF FreshInv
    <3> QED
      BY <1>1, <1>8, <3>1, <3>2 DEF NotPast
  <2>2. CASE Remembers(w)
    <3>1. /\ pc[w] = "dml" /\ faults' = faults /\ ~Commits(w)
          /\ stmts[w] \in Seq(DmlLines) \ {<<>>}
          /\ stmts'[w] = [stmts[w] EXCEPT ![1] =
                           [op |-> "deleting", rows |-> Targets(w, stmts[w][1].row)]]
      BY <2>2 DEF Remembers, Commits, TypeInv, InHand
    <3>2. /\ Len(stmts'[w]) = Len(stmts[w]) /\ stmts'[w][1].op = "deleting"
          /\ \A k \in 2..Len(stmts[w]) : stmts'[w][k] = stmts[w][k]
      BY <3>1
    <3>3. ASSUME NEW k \in 1..Len(stmts'[w]), stmts'[w][k].op # "deleting"
          PROVE  k \in 1..Len(stmts[w]) /\ stmts'[w][k] = stmts[w][k]
      BY <3>1, <3>2, <3>3
    <3> QED
      BY <1>8, <3>1, <3>3 DEF NotPast, FreshInv
  <2>3. CASE Executes(w) /\ pc'[w] = "dml"
    <3>1. /\ pc[w] = "dml" /\ faults' = faults /\ stmts'[w] = Tail(stmts[w]) /\ ~Commits(w)
          /\ stmts[w] \in Seq(DmlLines) \ {<<>>}
      BY <2>3 DEF Executes, Commits, TypeInv, InHand
    <3>2. \A k \in 1..Len(stmts'[w]) : k + 1 \in 1..Len(stmts[w]) /\ stmts'[w][k] = stmts[w][k + 1]
      BY <3>1, TailLines
    <3> QED
      BY <1>8, <3>1, <3>2 DEF NotPast, FreshInv
  <2>4. CASE pc'[w] # "dml"
    BY <2>4 DEF NotPast
  <2> QED
    BY <2>1, <2>2, <2>3, <2>4 DEF Kind, Begins, GoesOn, Rejects, Commits, RollsBack
<1> QED
  BY <1>5, <1>6, <1>9, <1>10, <1>11 DEF FreshInv

-----------------------------------------------------------------------------
(* The invariant is kept: what an open transaction has written.            *)

(* What the others have written is their own affair.                       *)
LEMMA CarriesOther ==
  ASSUME TypeInv, RunInv, LineInv, FreshInv, RowInv, NEW w \in Workers, Kind(w),
         NEW x \in Workers \ {w}
  PROVE  Carries(x)'
<1>1. /\ pc'[x] = pc[x] /\ batch'[x] = batch[x] /\ next'[x] = next[x]
      /\ stmts'[x] = stmts[x] /\ rejected'[x] = rejected[x] /\ txn'[x] = txn[x]
  BY KindAlone DEF Alone, OnlyMoves
<1>2. \A v : v.by = x => (v \in versions' <=> v \in versions)
  BY VersionStep, PostgresAssumption DEF NewVersion, Workers
<1>3. Begun(x)' = Begun(x) /\ Standing(x)' = Standing(x)
  BY <1>1 DEF Begun, Standing
<1>4. \A i, no : Has(x, i, no) => Has(x, i, no)'
  BY <1>1, <1>2 DEF Has
<1>5. \A i, no : Pending(x, i, no)' = Pending(x, i, no)
  BY <1>1 DEF Pending, Current, Msg
<1>6. Carries(x)
  BY DEF RowInv
<1> QED
  BY <1>1, <1>2, <1>3, <1>4, <1>5, <1>6 DEF Carries

(* The next message is not yet rejected, nor is it one of those before.     *)
LEMMA NextNotRejected ==
  ASSUME TypeInv, RunInv, NEW w \in Workers
  PROVE  /\ next[w] \in Nat /\ 1 <= next[w] /\ next[w] \notin rejected[w]
         /\ \A i \in rejected[w] : i \in Nat
BY DEF TypeInv, TypeOK, InHand, RunInv

(* The steps of w that write nothing.                                      *)
LEMMA CarriesControl ==
  ASSUME TypeInv, RunInv, LineInv, RowInv, NEW w \in Workers,
         \/ \E b \in Batches : Begins(w, b)
         \/ GoesOn(w) \/ Rejects(w)
  PROVE  Carries(w)'
<1> USE NextNotRejected
<1>1. ASSUME NEW b \in Batches, Begins(w, b) PROVE Carries(w)'
  <2>1. \A v \in versions' : v.by # w
    BY <1>1 DEF Begins, RunInv
  <2>2. Begun(w)' = {}
    BY <1>1 DEF Begins, Begun
  <2>3. pc'[w] # "dml" /\ Standing(w)' = {}
    BY <1>1, <2>2 DEF Begins, Standing
  <2> QED
    BY <2>1, <2>3 DEF Carries
<1>2. ASSUME txn'[w] = "open" => txn[w] = "open", pc[w] # "dml", pc'[w] # "dml",
             Begun(w)' = Begun(w), UNCHANGED <<versions, batch>>
      PROVE  Carries(w)'
  <2>1. Standing(w)' = Standing(w)
    BY <1>2 DEF Standing
  <2>2. \A i, no : Has(w, i, no)' = Has(w, i, no)
    BY <1>2 DEF Has
  <2>3. \A i, no : ~Pending(w, i, no)
    BY <1>2 DEF Pending
  <2>4. Carries(w)
    BY DEF RowInv
  <2> QED
    BY <1>2, <2>1, <2>2, <2>3, <2>4 DEF Carries
<1>3. CASE GoesOn(w) /\ txn'[w] = "open"
  <2>1. Begun(w)' = Begun(w)
    BY <1>3 DEF GoesOn, Begun
  <2> QED
    BY <1>2, <1>3, <2>1 DEF GoesOn
<1>4. CASE GoesOn(w) /\ txn'[w] # "open"
  BY <1>4 DEF Carries
<1>5. CASE Rejects(w)
  <2>1. Begun(w)' = (1..(next[w] + 1 - 1)) \ (rejected[w] \cup {next[w]})
    BY <1>5 DEF Rejects, Begun
  <2>2. Begun(w) = (1..(next[w] - 1)) \ rejected[w]
    BY <1>5 DEF Rejects, Begun
  <2>3. Begun(w)' = Begun(w)
    BY <2>1, <2>2
  <2> QED
    BY <1>2, <1>5, <2>3 DEF Rejects
<1> QED
  BY <1>1, <1>3, <1>4, <1>5

(* A message just rendered has its rows still to write.                    *)
LEMMA CarriesRender ==
  ASSUME TypeInv, RunInv, LineInv, RowInv, NEW w \in Workers, Renders(w)
  PROVE  Carries(w)'
<1> USE NextNotRejected
<1>1. /\ pc[w] = "render" /\ pc'[w] = "dml" /\ stmts'[w] = Dml(w)
      /\ UNCHANGED <<versions, txn, batch, next, rejected>>
  BY DEF Renders
<1>2. Begun(w)' = Begun(w) \cup {next[w]} /\ next[w] \notin Begun(w)
  BY <1>1 DEF Begun
<1>3. Standing(w)' \subseteq Standing(w) \cup {next[w]}
  BY <1>1, <1>2 DEF Standing
<1>4. Carries(w)
  BY DEF RowInv
<1>5. \A i, no : Has(w, i, no)' = Has(w, i, no) /\ ~Pending(w, i, no)
  BY <1>1 DEF Has, Pending
<1>6. \A no \in 0..Items(Msg(batch[w], next[w])) : Pending(w, next[w], no)'
  <2>1. \A no \in 0..Items(Current(w)) : \E k \in 1..Len(Dml(w)) :
          Dml(w)[k].op \in {"insert", "upsert"} /\ Dml(w)[k].row = RowOf(Current(w), no)
    BY DmlShape DEF Renders
  <2> QED
    BY <1>1, <2>1 DEF Pending, Current, Msg
<1> QED
  BY <1>1, <1>2, <1>3, <1>4, <1>5, <1>6 DEF Carries

(* A DELETE that has started leaves the rows to write as they were.        *)
LEMMA CarriesRemember ==
  ASSUME TypeInv, RunInv, LineInv, RowInv, NEW w \in Workers, Remembers(w)
  PROVE  Carries(w)'
<1>1. /\ pc[w] = "dml" /\ txn[w] = "open" /\ stmts[w][1].op = "delete"
      /\ stmts[w] \in Seq(DmlLines) \ {<<>>}
      /\ stmts'[w] = [stmts[w] EXCEPT ![1] =
                       [op |-> "deleting", rows |-> Targets(w, stmts[w][1].row)]]
      /\ UNCHANGED <<versions, pc, txn, batch, next, rejected>>
  BY DEF Remembers, TypeInv, InHand
<1>2. /\ Len(stmts'[w]) = Len(stmts[w])
      /\ \A k \in 2..Len(stmts[w]) : stmts'[w][k] = stmts[w][k]
  BY <1>1
<1>3. Begun(w)' = Begun(w) /\ Standing(w)' = Standing(w)
  BY <1>1 DEF Begun, Standing
<1>4. \A i, no : Has(w, i, no)' = Has(w, i, no)
  BY <1>1 DEF Has
<1>5. ASSUME NEW i, NEW no, Pending(w, i, no) PROVE Pending(w, i, no)'
  <2>1. PICK k \in 1..Len(stmts[w]) :
          stmts[w][k].op \in {"insert", "upsert"} /\ stmts[w][k].row = RowOf(Current(w), no)
    BY <1>5 DEF Pending
  <2>2. k \in 2..Len(stmts[w])
    BY <1>1, <2>1
  <2>3. k \in 1..Len(stmts'[w]) /\ stmts'[w][k] = stmts[w][k]
    BY <1>2, <2>2
  <2> QED
    BY <1>1, <1>5, <2>1, <2>3 DEF Pending, Current, Msg
<1>6. Carries(w)
  BY DEF RowInv
<1> QED
  BY <1>1, <1>3, <1>4, <1>5, <1>6 DEF Carries

(* A row under the key of the current message is, among the messages that  *)
(* stand, the row of the current one.                                      *)
LEMMA StandingKey ==
  ASSUME TypeInv, RunInv, NEW w \in Workers, pc[w] = "dml",
         NEW i \in Standing(w), NEW no, OfMessage(RowOf(Msg(batch[w], i), no), Current(w))
  PROVE  i = next[w]
<1>1. SameKey(batch[w], i, next[w])
  BY DEF OfMessage, RowOf, SameKey, Current
<1>2. next[w] \in Begun(w) /\ i \in Begun(w) /\ i \in Nat /\ i <= next[w] /\ next[w] \in Nat
  BY NextNotRejected DEF Begun, Standing
<1>3. ~(next[w] > i)
  BY <1>1, <1>2 DEF Standing
<1> QED
  BY <1>2, <1>3

(* A DML statement writes the next row of the current message, or takes    *)
(* rows that a message to come, or the current one, replaces.              *)
LEMMA CarriesExecute ==
  ASSUME TypeInv, RunInv, LineInv, FreshInv, RowInv, NEW w \in Workers, Executes(w)
  PROVE  Carries(w)'
<1> USE NextNotRejected
<1>1. PICK st : st = stmts[w][1] /\ Writes(w, st)
  BY DEF Executes
<1>2. /\ pc[w] = "dml" /\ txn[w] = "open" /\ stmts[w] \in Seq(DmlLines) \ {<<>>}
      /\ stmts'[w] = Tail(stmts[w]) /\ 1 \in 1..Len(stmts[w])
      /\ IF Tail(stmts[w]) = <<>> THEN next'[w] = next[w] + 1 /\ pc'[w] = "message"
                                  ELSE next'[w] = next[w] /\ pc'[w] = "dml"
      /\ UNCHANGED <<txn, batch, rejected>>
  BY DEF Executes, TypeInv, InHand
<1>3. Begun(w)' = Begun(w) /\ next[w] \in Begun(w)
  <2>1. Begun(w) = (1..next[w]) \ rejected[w]
    BY <1>2 DEF Begun
  <2>2. Begun(w)' = (1..next[w]) \ rejected[w]
    BY <1>2 DEF Begun
  <2> QED
    BY <2>1, <2>2
<1>4. Standing(w)' = Standing(w)
  BY <1>2, <1>3 DEF Standing
<1>5. /\ \A v \in versions : v.by = w =>
           \/ v \in versions'
           \/ st.op = "upsert" /\ v.row = st.row
           \/ st.op = "deleting" /\ \E t \in Remembered(w) : v.row = t.row /\ v.doc = t.doc
      /\ \A v \in versions' : v.by = w =>
           \/ v \in versions
           \/ st.op \in {"insert", "upsert"} /\ v = NewVersion(w, st)
      /\ st.op \in {"insert", "upsert"} => NewVersion(w, st) \in versions'
  BY <1>1, <1>2, WrittenRows, PostgresAssumption DEF Workers
<1>6. st.op # "deleting" =>
        st.doc[1] = batch[w] /\ st.doc[2] = next[w] /\ LineFor(st, Current(w))
  BY <1>1, <1>2 DEF LineInv, Lines, LineOf, LineFor
<1>7. Carries(w)
  BY DEF RowInv
<1>8. ASSUME NEW v \in versions', v.by = w PROVE v.doc[2] \in Begun(w)
  BY <1>2, <1>3, <1>5, <1>6, <1>7, <1>8 DEF Carries, NewVersion
<1>9. ASSUME NEW i \in Standing(w), NEW no \in 0..Items(Msg(batch[w], i)), Has(w, i, no)
      PROVE  Has(w, i, no)'
  <2>1. PICK v \in versions : v.by = w /\ v.row = RowOf(Msg(batch[w], i), no) /\ v.doc[2] = i
    BY <1>9 DEF Has
  <2>2. CASE v \in versions'
    BY <1>2, <2>1, <2>2 DEF Has
  <2>3. CASE st.op = "upsert" /\ v.row = st.row
    <3>1. i = next[w]
      BY <1>2, <1>6, <2>1, <2>3, StandingKey DEF LineFor
    <3>2. NewVersion(w, st) \in versions' /\ st.doc[2] = i
      BY <1>5, <1>6, <2>3, <3>1
    <3> QED
      BY <1>2, <2>1, <2>3, <3>2 DEF Has, NewVersion
  <2>4. CASE st.op = "deleting" /\ \E t \in Remembered(w) : v.row = t.row /\ v.doc = t.doc
    <3>1. OfMessage(v.row, Current(w))
      BY <2>4 DEF LineInv, Lines
    <3>2. i = next[w]
      BY <1>2, <2>1, <3>1, StandingKey
    <3> QED
      BY <1>1, <1>2, <1>7, <2>1, <2>4, <3>2 DEF Carries
  <2> QED
    BY <1>5, <2>1, <2>2, <2>3, <2>4
<1>10. ASSUME NEW i \in Standing(w), NEW no \in 0..Items(Msg(batch[w], i)), Pending(w, i, no)
       PROVE  Has(w, i, no)' \/ Pending(w, i, no)'
  <2>1. PICK k \in 1..Len(stmts[w]) :
          stmts[w][k].op \in {"insert", "upsert"} /\ stmts[w][k].row = RowOf(Current(w), no)
    BY <1>10 DEF Pending
  <2>2. i = next[w]
    BY <1>10 DEF Pending
  <2>3. CASE k = 1
    <3>1. NewVersion(w, st) \in versions' /\ st.doc[2] = i /\ st.row = RowOf(Current(w), no)
      BY <1>1, <1>5, <1>6, <2>1, <2>2, <2>3
    <3> QED
      BY <1>2, <2>2, <3>1 DEF Has, NewVersion, Current
  <2>4. CASE k # 1
    <3>1. k \in 2..Len(stmts[w])
      BY <1>2, <2>1, <2>4
    <3>2. k - 1 \in 1..Len(Tail(stmts[w])) /\ Tail(stmts[w])[k - 1] = stmts[w][k]
      BY <1>2, <3>1, TailLines
    <3>3. Tail(stmts[w]) # <<>>
      <4>1. \A s : s = <<>> => 1..Len(s) = {}
        OBVIOUS
      <4> QED
        BY <3>2, <4>1, Zenon
    <3> QED
      BY <1>2, <2>1, <2>2, <3>2, <3>3 DEF Pending, Current, Msg
  <2> QED
    BY <2>3, <2>4
<1>11. pc'[w] = "dml" => stmts'[w][1].op \notin {"delete", "deleting"}
  <2> SUFFICES ASSUME Tail(stmts[w]) # <<>> PROVE stmts'[w][1].op \notin {"delete", "deleting"}
    BY <1>2
  <2>1. 2 \in 1..Len(stmts[w]) /\ stmts'[w][1] = stmts[w][2]
    BY <1>2, TailLines
  <2>2. stmts[w][2].op \in {"delete", "deleting"} => 2 = 1
    BY <1>2, <2>1 DEF LineInv, Lines
  <2> QED
    BY <2>1, <2>2
<1>12. \A v \in versions' : v.by = w => v.doc[2] \in Begun(w)'
  BY <1>3, <1>8
<1>13. ASSUME NEW i \in Standing(w)', NEW no \in 0..Items(Msg(batch'[w], i))
       PROVE  Has(w, i, no)' \/ Pending(w, i, no)'
  BY <1>2, <1>4, <1>7, <1>9, <1>10 DEF Carries
<1> QED
  BY <1>11, <1>12, <1>13 DEF Carries, Msg

(* What a step of w leaves an open transaction with is still complete.     *)
LEMMA RowStep ==
  ASSUME TypeInv, RunInv, LineInv, FreshInv, RowInv, NEW w \in Workers, Kind(w)
  PROVE  RowInv'
<1>1. Carries(w)'
  <2>1. CASE Commits(w) \/ RollsBack(w)
    <3>1. txn'[w] = "none"
      BY <2>1 DEF Commits, RollsBack, EndByCommit, EndByRollback, TypeInv, TypeOK
    <3> QED
      BY <3>1 DEF Carries
  <2> QED
    BY <2>1, CarriesControl, CarriesRender, CarriesRemember, CarriesExecute DEF Kind
<1>2. \A x \in Workers \ {w} : Carries(x)'
  BY CarriesOther
<1> QED
  BY <1>1, <1>2 DEF RowInv

-----------------------------------------------------------------------------
(* The invariant holds.                                                    *)

(* Every step of a worker keeps the invariant.                             *)
LEMMA KindKeeps ==
  ASSUME TypeInv, TypeInv', StoreInv, NEW w \in Workers, Kind(w)
  PROVE  StoreInv'
<1>1. RunInv'
  BY RunBegins, RunStep, RunEnd DEF Kind, StoreInv
<1> QED
  BY <1>1, LineStep, FreshStep, RowStep DEF StoreInv

(* A delivery of a stored batch makes its documents documents of the past. *)
LEMMA RedeliverKeeps ==
  ASSUME TypeInv, TypeInv', StoreInv, NEW b \in Batches, Redelivers(b)
  PROVE  StoreInv'
<1>1. /\ status[b] = "done" /\ \A c \in Batches \ {b} : status'[c] = status[c]
      /\ faults' = faults + 1 /\ faults \in Nat
      /\ UNCHANGED <<relations, versions, txn, pc, batch, next, ensured, rejected, stmts>>
  BY ProcessorAssumption DEF Redelivers, store, locals, TypeInv, TypeOK
<1>2. RunInv'
  <2>1. ASSUME NEW w \in Workers, pc[w] # "idle" PROVE batch[w] \in Batches \ {b}
    BY <1>1, <2>1 DEF StoreInv, RunInv, TypeInv, TypeOK
  <2> QED
    BY <1>1, <2>1 DEF StoreInv, RunInv
<1>3. \A w \in Workers : /\ Remembered(w)' = Remembered(w) /\ Current(w)' = Current(w)
                         /\ Begun(w)' = Begun(w) /\ Standing(w)' = Standing(w)
  BY <1>1 DEF Remembered, Current, Msg, Begun, Standing
<1>4. LineInv'
  BY <1>1, <1>3 DEF StoreInv, LineInv, Lines, LineOf, LineFor
<1>5. PastDocs' = PastDocs
  BY <1>1, <1>3 DEF PastDocs
<1>6. \A v \in versions : v.doc[3] \in Nat
  BY DEF TypeInv, TypeOK, RowVersions, Docs
<1>7. \A d \in PastDocs : d[3] \in Nat
  BY PastTyped DEF Docs
<1>8. ASSUME NEW w \in Workers PROVE NotPast(w)'
  <2> SUFFICES ASSUME pc[w] = "dml", NEW k \in 1..Len(stmts[w]), stmts[w][k].op # "deleting"
               PROVE  stmts[w][k].doc[3] <= faults' /\ stmts[w][k].doc \notin PastDocs'
    BY <1>1 DEF NotPast
  <2>1. stmts[w][k].doc[3] <= faults /\ stmts[w][k].doc \notin PastDocs
    BY DEF StoreInv, FreshInv, NotPast
  <2>2. stmts[w][k] \in DmlLines
    BY DEF TypeInv, InHand
  <2>3. stmts[w][k].doc \in Docs
    BY <2>2 DEF DmlLines
  <2>4. stmts[w][k].doc[3] \in Nat
    BY <2>3 DEF Docs
  <2> QED
    BY <1>1, <1>5, <2>1, <2>4
<1>9. FreshInv'
  BY <1>1, <1>5, <1>6, <1>7, <1>8 DEF StoreInv, FreshInv
<1>10. RowInv'
  BY <1>1, <1>3 DEF StoreInv, RowInv, Carries, Has, Pending
<1> QED
  BY <1>2, <1>4, <1>9, <1>10 DEF StoreInv

(* Nothing happens.                                                        *)
LEMMA StutterKeeps == ASSUME StoreInv, UNCHANGED vars PROVE StoreInv'
<1>1. UNCHANGED <<relations, versions, txn, pc, batch, next, ensured, rejected, stmts,
                  status, faults>>
  BY DEF vars, store, locals
<1>2. \A w \in Workers : /\ Remembered(w)' = Remembered(w) /\ Current(w)' = Current(w)
                         /\ Begun(w)' = Begun(w) /\ Standing(w)' = Standing(w)
  BY <1>1 DEF Remembered, Current, Msg, Begun, Standing
<1>3. RunInv'
  BY <1>1 DEF StoreInv, RunInv
<1>4. LineInv'
  BY <1>1, <1>2 DEF StoreInv, LineInv, Lines, LineOf, LineFor
<1>5. PastDocs' = PastDocs
  BY <1>1, <1>2 DEF PastDocs
<1>6. FreshInv'
  BY <1>1, <1>5 DEF StoreInv, FreshInv, NotPast
<1>7. RowInv'
  BY <1>1, <1>2 DEF StoreInv, RowInv, Carries, Has, Pending
<1> QED
  BY <1>3, <1>4, <1>6, <1>7 DEF StoreInv

(* Every step keeps the invariant.                                         *)
LEMMA StoreStep == TypeInv /\ TypeInv' /\ StoreInv /\ [Next]_vars => StoreInv'
BY StepKind, KindKeeps, RedeliverKeeps, StutterKeeps

(* Nothing is stored, and nobody works, to begin with.                     *)
LEMMA StoreBegins == Init => StoreInv
<1> SUFFICES ASSUME Init PROVE StoreInv
  OBVIOUS
<1>1. /\ versions = {} /\ \A w \in Workers : pc[w] = "idle" /\ txn[w] = "none"
      /\ \A w \in Workers : next[w] = 1 /\ rejected[w] = {} /\ batch[w] \in Batches
  BY DEF Init, StoreInit, Workers
<1>2. RunInv
  BY <1>1, ProcessorAssumption DEF RunInv
<1>3. \A w \in Workers : Remembered(w) = {}
  BY <1>1 DEF Remembered
<1>4. LineInv
  BY <1>1, <1>3 DEF LineInv, Lines
<1>5. PastDocs = {}
  BY <1>1, <1>3 DEF PastDocs
<1>6. FreshInv
  BY <1>1, <1>5 DEF FreshInv, NotPast
<1>7. RowInv
  BY <1>1 DEF RowInv, Carries
<1> QED
  BY <1>2, <1>4, <1>6, <1>7 DEF StoreInv

(* The invariant of the store.                                             *)
LEMMA StoreAlways == Spec => [](TypeInv /\ StoreInv)
<1>1. Init => TypeInv /\ StoreInv
  BY TypeInit, StoreBegins
<1>2. TypeInv /\ StoreInv /\ [Next]_vars => (TypeInv /\ StoreInv)'
  BY TypeStep, StoreStep
<1> QED
  BY <1>1, <1>2, PTL DEF Spec

-----------------------------------------------------------------------------
(* A batch is stored in one step.                                          *)

(* Nothing but a COMMIT changes what everybody sees.                       *)
LEMMA StoredStays ==
  ASSUME TypeInv, StoreInv, NEW w \in Workers, Kind(w), ~Commits(w)
  PROVE  Stored' = Stored
<1>1. Committed \notin Workers
  BY PostgresAssumption DEF Workers
<1>2. ASSUME NEW v \in versions, v.by = Committed PROVE CommittedIn(v, versions')
  BY <1>2, VersionStep DEF StoreInv
<1>3. ASSUME NEW v \in versions', v.by = Committed PROVE CommittedIn(v, versions)
  BY <1>1, <1>3, VersionStep DEF StoreInv, CommittedIn, NewVersion
<1> QED
  BY <1>2, <1>3 DEF Stored, CommittedIn

(* COMMIT comes after the last message: the messages begun are the         *)
(* accepted ones, and every row of those that last has been written.       *)
LEMMA CommitStoresBatch ==
  ASSUME TypeInv, StoreInv, NEW w \in Workers, Commits(w)
  PROVE  StoresBatch(w)
<1>1. /\ pc[w] = "message" /\ ~More(w) /\ txn[w] = "open" /\ EndByCommit(w) /\ Carries(w)
  BY DEF Commits, StoreInv, RowInv
<1>2. Begun(w) = Accepted(w)
  <2>1. /\ next[w] \in Nat /\ Len(Content[batch[w]]) \in Nat
        /\ next[w] <= Len(Content[batch[w]]) + 1 /\ ~(next[w] <= Len(Content[batch[w]]))
    BY <1>1, ProcessorAssumption DEF TypeInv, TypeOK, StoreInv, RunInv, More
  <2>2. next[w] - 1 = Len(Content[batch[w]])
    BY <2>1
  <2> QED
    BY <1>1, <2>2 DEF Begun, Accepted
<1>3. Standing(w) = Lasting(w)
  BY <1>2 DEF Standing, Lasting
<1>4. /\ \A v \in versions : v.by = w => CommittedIn(v, versions')
      /\ \A v \in versions' :
           v \in versions \/ (v.by = Committed /\ \E u \in versions :
                                u.by = w /\ u.row = v.row /\ u.doc = v.doc)
  BY <1>1, CommittedRows DEF StoreInv
<1>5. \A v \in versions : v.by = w => v.doc[1] = batch[w]
  BY DEF StoreInv, RunInv
<1>6. ASSUME NEW i \in Lasting(w), NEW no \in 0..Items(Msg(batch[w], i))
      PROVE  \E x \in Stored' : x.row = RowOf(Msg(batch[w], i), no) /\ DocOf(batch[w], i, x)
  <2>1. Has(w, i, no)
    BY <1>1, <1>3 DEF Carries, Pending
  <2>2. PICK v \in versions : v.by = w /\ v.row = RowOf(Msg(batch[w], i), no) /\ v.doc[2] = i
    BY <2>1 DEF Has
  <2>3. PICK u \in versions' : u.by = Committed /\ u.row = v.row /\ u.doc = v.doc
    BY <1>4, <2>2 DEF CommittedIn
  <2>4. [row |-> u.row, doc |-> u.doc] \in Stored'
    BY <2>3 DEF Stored
  <2> QED
    BY <1>5, <2>2, <2>3, <2>4 DEF DocOf
<1>7. ASSUME NEW x \in Stored' \ Stored PROVE \E i \in Accepted(w) : DocOf(batch[w], i, x)
  <2>1. PICK v \in versions' : v.by = Committed /\ x = [row |-> v.row, doc |-> v.doc]
    BY <1>7 DEF Stored
  <2>2. v \notin versions
    BY <1>7, <2>1 DEF Stored
  <2>3. PICK u \in versions : u.by = w /\ u.doc = v.doc
    BY <1>4, <2>2
  <2>4. u.doc[2] \in Accepted(w) /\ u.doc[1] = batch[w]
    BY <1>1, <1>2, <1>5, <2>3 DEF Carries
  <2> QED
    BY <2>1, <2>3, <2>4 DEF DocOf
<1> QED
  BY <1>6, <1>7 DEF StoresBatch

(* A batch becomes done in the COMMIT of its worker only.                  *)
LEMMA DoneByCommit ==
  ASSUME TypeInv, NEW w \in Workers, Kind(w), NEW b \in Batches,
         status[b] # "done", status'[b] = "done"
  PROVE  Commits(w) /\ batch[w] = b
<1>1. \/ UNCHANGED status
      \/ \E c \in Batches, s \in {"running", "waiting"} : status' = [status EXCEPT ![c] = s]
      \/ Commits(w) /\ status' = [status EXCEPT ![batch[w]] = "done"]
  BY DEF Kind, Begins, GoesOn, Rejects, Renders, Remembers, Executes, Commits, RollsBack,
         TypeInv, TypeOK
<1> QED
  BY <1>1 DEF TypeInv, TypeOK

(* Whatever errors, waits, victims, crashes and deliveries come between    *)
(* its statements, a batch is stored in one step, complete but for the     *)
(* messages it rejected, and success is reported only then                 *)
(* (processor.go:85-132).                                                  *)
THEOREM BatchesAreAtomic == Spec => AllOrNothing
<1> DEFINE Step1 ==
      /\ Stored' # Stored => \E w \in Workers : StoresBatch(w)
      /\ \A b \in Batches :
           status[b] # "done" /\ status'[b] = "done"
             => \E w \in Workers : batch[w] = b /\ StoresBatch(w)
<1>1. ASSUME TypeInv, StoreInv, [Next]_vars PROVE Step1
  <2>1. CASE \E w \in Workers : Kind(w)
    <3>1. PICK w \in Workers : Kind(w)
      BY <2>1
    <3>2. Stored' # Stored => StoresBatch(w)
      BY <1>1, <3>1, StoredStays, CommitStoresBatch
    <3>3. \A b \in Batches :
            status[b] # "done" /\ status'[b] = "done" => batch[w] = b /\ StoresBatch(w)
      BY <1>1, <3>1, DoneByCommit, CommitStoresBatch
    <3> QED
      BY <3>2, <3>3
  <2>2. CASE \E b \in Batches : Redelivers(b)
    <3>1. PICK b \in Batches : Redelivers(b)
      BY <2>2
    <3>2. Stored' = Stored
      BY <3>1 DEF Redelivers, store, Stored
    <3>3. \A c \in Batches : status'[c] = status[c] \/ status'[c] = "waiting"
      BY <1>1, <3>1 DEF Redelivers, TypeInv, TypeOK
    <3> QED
      BY <3>2, <3>3
  <2>3. CASE UNCHANGED vars
    BY <2>3 DEF vars, store, Stored
  <2> QED
    BY <1>1, <2>1, <2>2, <2>3, StepKind
<1>2. TypeInv /\ StoreInv /\ [Next]_vars => [Step1]_vars
  BY <1>1
<1>3. Spec => []([Step1]_vars)
  BY <1>2, StoreAlways, PTL DEF Spec
<1> QED
  BY <1>3 DEF AllOrNothing

-----------------------------------------------------------------------------
(* Models, and the batches that need them.                                 *)

(* Worker w takes a step of its own.                                       *)
Moves(w) ==
  \/ \E b \in Batches : Begin(w, b)
  \/ Step(w) \/ LoadFails(w) \/ ReadFails(w)
  \/ CommitFails(w) \/ CommitUnknown(w) \/ Crash(w)

(* It is one of the steps of before.                                       *)
LEMMA MovesKind == ASSUME TypeInv, NEW w \in Workers, Moves(w) PROVE Kind(w)
BY BeginKind, ControlKind, DdlKind, DmlKind, EndKind DEF Moves, Step, Kind

(* Nobody else but Bento does anything.                                    *)
LEMMA NextMoves ==
  ASSUME [Next]_vars
  PROVE  \/ \E w \in Workers : Moves(w)
         \/ \E b \in Batches : Redeliver(b)
         \/ UNCHANGED vars
BY DEF Next, Moves

(* Relations come from CREATE statements, and change hands or go at the    *)
(* end of a batch.                                                         *)
LEMMA RelationStep ==
  ASSUME TypeInv, NEW w \in Workers, Moves(w)
  PROVE  \/ UNCHANGED relations
         \/ /\ pc[w] = "ddl" /\ stmts[w] # <<>>
            /\ relations' = Created(w, stmts[w][1].name, stmts[w][1].cols)
         \/ Commits(w) \/ RollsBack(w)
<1>1. ASSUME PermanentError(w) \/ RecoverableError(w) PROVE UNCHANGED relations
  BY <1>1 DEF PermanentError, RecoverableError, store
<1>2. ASSUME NEW b \in Batches, Begin(w, b) PROVE UNCHANGED relations
  BY <1>2 DEF Begin
<1>3. CASE Plan(w) \/ LoadFails(w) \/ ReadFails(w) \/ Render(w) \/ DeadlockVictim(w)
  BY <1>1, <1>3 DEF Plan, LoadFails, ReadFails, Render, DeadlockVictim, store
<1>4. CASE Ensure(w)
  BY <1>1, <1>4 DEF Ensure, store
<1>5. CASE ExecDdl(w)
  <2>1. pc[w] = "ddl" /\ stmts[w] # <<>> /\ Head(stmts[w]) = stmts[w][1]
    BY <1>5 DEF ExecDdl, TypeInv, InHand
  <2> QED
    BY <1>1, <1>5, <2>1 DEF ExecDdl, store
<1>6. CASE ExecDml(w)
  BY <1>1, <1>6 DEF ExecDml, NextDml, store
<1>7. CASE Commit(w) \/ CommitFails(w) \/ CommitUnknown(w) \/ Rollback(w) \/ Crash(w)
  BY <1>7, EndKind
<1> QED
  BY <1>2, <1>3, <1>4, <1>5, <1>6, <1>7 DEF Moves, Step

(* What w creates is of the message it works on, which can be planned.     *)
AtWork(w) ==
  /\ pc[w] \in {"ensure", "ddl"} => Current(w).fate # "unplannable"
  /\ pc[w] = "ddl" =>
       \A k \in 1..Len(stmts[w]) : IsModelOf(stmts[w][k], Current(w))

(* What w has created is of a message of its batch.                        *)
Creations(w) ==
  \A r \in relations :
    r.by = w => \E i \in Planned(batch[w]) : IsModelOf(r, Msg(batch[w], i))

(* Every message behind w, and the one whose payload is next, has its      *)
(* model.                                                                  *)
Reached(w) == IF pc[w] \in {"render", "dml"} THEN next[w] ELSE next[w] - 1

Provided(w) ==
  CreateModel /\ pc[w] # "idle" =>
    \A i \in Planned(batch[w]) : i <= Reached(w) => Msg(batch[w], i).table \in ensured[w]

BringInv == \A w \in Workers : AtWork(w) /\ Creations(w) /\ Provided(w)

(* What another worker does, does not concern x.                           *)
LEMMA BringOther ==
  ASSUME TypeInv, BringInv, NEW w \in Workers, Moves(w), NEW x \in Workers, x # w
  PROVE  (AtWork(x) /\ Creations(x) /\ Provided(x))'
<1>1. /\ pc'[x] = pc[x] /\ batch'[x] = batch[x] /\ next'[x] = next[x]
      /\ stmts'[x] = stmts[x] /\ ensured'[x] = ensured[x]
  BY MovesKind, KindAlone DEF Alone, OnlyMoves
<1>2. Current(x)' = Current(x) /\ Reached(x)' = Reached(x)
  BY <1>1 DEF Current, Msg, Reached
<1>3. ASSUME NEW r \in relations', r.by = x PROVE r \in relations
  <2>1. CASE EndByCommit(w)
    <3>1. PICK q \in relations : r = [q EXCEPT !.by = IF @ = w THEN Committed ELSE @]
      BY <2>1 DEF EndByCommit, CommittedRelations
    <3>2. x # Committed
      BY PostgresAssumption DEF Workers
    <3> QED
      BY <1>3, <3>1, <3>2 DEF TypeInv, TypeOK, Relations
  <2> QED
    BY <1>3, <2>1, RelationStep DEF Created, Commits, RollsBack, EndByRollback
<1>4. AtWork(x)'
  BY <1>1, <1>2 DEF BringInv, AtWork, IsModelOf
<1>5. Creations(x)'
  BY <1>1, <1>3 DEF BringInv, Creations, Planned, IsModelOf, Msg
<1>6. Provided(x)'
  BY <1>1, <1>2 DEF BringInv, Provided, Planned, Msg
<1> QED
  BY <1>4, <1>5, <1>6

(* A step of w that creates nothing and settles what it passes.            *)
LEMMA BringPasses ==
  ASSUME TypeInv, BringInv, NEW w \in Workers, pc[w] # "idle", pc'[w] \notin {"ensure", "ddl"},
         UNCHANGED <<relations, batch>>, ensured[w] \subseteq ensured'[w],
         CreateModel =>
           \A i \in Planned(batch[w]) :
             i <= Reached(w)' => i <= Reached(w) \/ Msg(batch[w], i).table \in ensured'[w]
  PROVE  (AtWork(w) /\ Creations(w) /\ Provided(w))'
<1>1. AtWork(w)' /\ Creations(w)'
  BY DEF BringInv, AtWork, Creations, Planned, IsModelOf, Msg
<1>2. Provided(w)'
  BY DEF BringInv, Provided, Planned, Msg
<1> QED
  BY <1>1, <1>2

(* An error leaves the batch at its message, or goes on behind one that    *)
(* has its model or none.                                                  *)
LEMMA BringError ==
  ASSUME TypeInv, BringInv, NEW w \in Workers, pc[w] # "idle",
         \/ RecoverableError(w)
         \/ pc'[w] = "rollback" /\ UNCHANGED <<relations, locals>>
         \/ PermanentError(w) /\ (pc[w] = "render" \/ next[w] \notin Planned(batch[w]))
  PROVE  (AtWork(w) /\ Creations(w) /\ Provided(w))'
<1> USE DEF TypeInv, TypeOK
<1>1. /\ pc'[w] \in {"rollback", "message"} /\ UNCHANGED <<relations, batch>>
      /\ ensured'[w] = ensured[w] /\ next[w] \in Nat
  BY DEF RecoverableError, PermanentError, Goto, store, locals
<1>2. \/ next'[w] = next[w] /\ pc'[w] = "rollback"
      \/ /\ next'[w] = next[w] + 1
         /\ pc[w] = "render" \/ next[w] \notin Planned(batch[w])
  BY DEF RecoverableError, PermanentError, Goto, locals
<1>3. ASSUME NEW i \in Planned(batch[w]), i <= Reached(w)' PROVE i <= Reached(w)
  <2>1. i \in Nat
    BY ProcessorAssumption DEF Planned
  <2> QED
    BY <1>1, <1>2, <1>3, <2>1 DEF Reached
<1> QED
  BY <1>1, <1>3, BringPasses

(* The existence check leads to the model's statements, or to the payload. *)
LEMMA BringEnsure ==
  ASSUME TypeInv, BringInv, NEW w \in Workers, Ensure(w)
  PROVE  (AtWork(w) /\ Creations(w) /\ Provided(w))'
<1> USE DEF TypeInv, TypeOK
<1>1. pc[w] = "ensure" /\ Current(w).fate # "unplannable" /\ More(w)
  BY DEF Ensure, BringInv, AtWork, InHand
<1>2. CASE RecoverableError(w)
  BY <1>1, <1>2, BringError
<1>3. CASE pc'[w] = "render" /\ ~RecoverableError(w)
  <2>1. /\ UNCHANGED <<relations, batch, next>> /\ ensured[w] \subseteq ensured'[w]
        /\ CreateModel => Current(w).table \in ensured'[w]
    BY <1>1, <1>3 DEF Ensure, NowEnsured, Goto, store, locals
  <2>2. ASSUME NEW i \in Planned(batch[w]), i <= Reached(w)'
        PROVE  i <= Reached(w) \/ i = next[w]
    <3>1. i \in Nat /\ next[w] \in Nat
      BY ProcessorAssumption DEF Planned
    <3> QED
      BY <1>1, <1>3, <2>1, <2>2, <3>1 DEF Reached
  <2> QED
    BY <1>1, <1>3, <2>1, <2>2, BringPasses DEF Current
<1>4. CASE pc'[w] = "ddl"
  <2>1. /\ UNCHANGED <<relations, batch, next, ensured>> /\ stmts'[w] = Ddl(Current(w))
    BY <1>1, <1>4 DEF Ensure, RecoverableError, Goto, store, locals
  <2>2. Current(w) \in Messages /\ Current(w)' = Current(w)
    BY <1>1, <2>1, CurrentMessage DEF Current, Msg
  <2>3. ASSUME NEW k \in 1..Len(Ddl(Current(w))) PROVE IsModelOf(Ddl(Current(w))[k], Current(w))
    <3> DEFINE m == Current(w)
               st == Ddl(m)[k]
    <3>1. m \in Messages /\ k \in 1..Len(Ddl(m))
      BY <2>2
    <3> HIDE DEF m
    <3>2. k \in 1..3 /\ st.name = <<IdentName[m.table], Phases[k]>> /\ st.cols = m.cols
      BY <3>1, DdlTyped
    <3>3. IsModelOf(st, m)
      BY <3>2 DEF IsModelOf
    <3> QED
      BY <3>3 DEF m
  <2>4. AtWork(w)'
    BY <1>1, <2>1, <2>2, <2>3 DEF AtWork, IsModelOf
  <2>5. Creations(w)'
    BY <2>1 DEF BringInv, Creations, Planned, IsModelOf, Msg
  <2>6. Reached(w)' = Reached(w)
    BY <1>1, <1>4, <2>1 DEF Reached
  <2>7. Provided(w)'
    BY <1>1, <2>1, <2>6 DEF BringInv, Provided, Planned, Msg
  <2> QED
    BY <2>4, <2>5, <2>7
<1> QED
  BY <1>1, <1>2, <1>3, <1>4 DEF Ensure, Goto

(* A DDL statement is of the current message; the last one settles it.     *)
LEMMA BringDdl ==
  ASSUME TypeInv, BringInv, NEW w \in Workers, ExecDdl(w)
  PROVE  (AtWork(w) /\ Creations(w) /\ Provided(w))'
<1> USE DEF TypeInv, TypeOK
<1>1. /\ pc[w] = "ddl" /\ Current(w).fate # "unplannable" /\ More(w)
      /\ stmts[w] \in Seq(DdlLines) \ {<<>>} /\ Head(stmts[w]) = stmts[w][1]
      /\ \A k \in 1..Len(stmts[w]) : IsModelOf(stmts[w][k], Current(w))
      /\ next[w] \in Nat
  BY DEF ExecDdl, BringInv, AtWork, InHand
<1>2. next[w] \in Planned(batch[w]) /\ IsModelOf(stmts[w][1], Current(w))
  <2>1. next[w] \in 1..Len(Content[batch[w]])
    BY <1>1, ProcessorAssumption DEF InHand, More
  <2> QED
    BY <1>1, <2>1 DEF Planned, Current
<1>3. CASE RecoverableError(w)
  BY <1>1, <1>3, BringError
<1>4. CASE stmts' = [stmts EXCEPT ![w][1].op = "recreate"]
           /\ UNCHANGED <<store, pc, batch, next, ensured, rejected, status, faults>>
  <2>1. /\ Len(stmts'[w]) = Len(stmts[w])
        /\ \A k \in 1..Len(stmts[w]) :
             stmts'[w][k].name = stmts[w][k].name /\ stmts'[w][k].cols = stmts[w][k].cols
    BY <1>1, <1>4 DEF DdlLines
  <2>2. Current(w)' = Current(w) /\ Reached(w)' = Reached(w)
    BY <1>4 DEF Current, Msg, Reached
  <2>3. AtWork(w)'
    BY <1>1, <1>4, <2>1, <2>2 DEF AtWork, IsModelOf
  <2> QED
    BY <1>4, <2>2, <2>3 DEF BringInv, Creations, Provided, Planned, IsModelOf, Msg, store
<1>5. CASE /\ NextDdl(w)
           /\ \/ relations' = Created(w, stmts[w][1].name, stmts[w][1].cols)
              \/ UNCHANGED relations
  <2>1. /\ stmts'[w] = Tail(stmts[w]) /\ UNCHANGED <<batch, next>>
        /\ Current(w)' = Current(w)
    BY <1>5 DEF NextDdl, Current, Msg
  <2>2. Creations(w)'
    <3>1. ASSUME NEW r \in relations', r.by = w
          PROVE  r \in relations \/ IsModelOf(r, Current(w))
      BY <1>2, <1>5, <3>1 DEF Created, IsModelOf
    <3>2. ASSUME NEW r \in relations', r.by = w
          PROVE  \E i \in Planned(batch[w]) : IsModelOf(r, Msg(batch[w], i))
      BY <1>2, <3>1, <3>2 DEF BringInv, Creations, Current
    <3> QED
      BY <2>1, <3>2 DEF Creations, Planned, IsModelOf, Msg
  <2>3. CASE Tail(stmts[w]) # <<>>
    <3>1. pc'[w] = "ddl" /\ ensured' = ensured /\ Reached(w)' = Reached(w)
      BY <1>1, <1>5, <2>1, <2>3 DEF NextDdl, Reached
    <3>2. \A k \in 1..Len(stmts'[w]) : IsModelOf(stmts'[w][k], Current(w))
      <4>1. \A k \in 1..Len(stmts'[w]) :
              k + 1 \in 2..Len(stmts[w]) /\ stmts'[w][k] = stmts[w][k + 1]
        BY <1>1, <2>1, TailLines
      <4>2. ASSUME NEW k \in 2..Len(stmts[w]) PROVE IsModelOf(stmts[w][k], Current(w))
        BY <1>1
      <4> QED
        BY <4>1, <4>2
    <3>3. AtWork(w)'
      BY <1>1, <2>1, <3>1, <3>2 DEF AtWork, IsModelOf
    <3>4. Provided(w)'
      BY <1>1, <2>1, <3>1 DEF BringInv, Provided, Planned, Msg
    <3> QED
      BY <2>2, <3>3, <3>4
  <2>4. CASE Tail(stmts[w]) = <<>>
    <3>1. /\ pc'[w] = "render" /\ ensured'[w] = ensured[w] \cup {Current(w).table}
      BY <1>5, <2>4 DEF NextDdl, NowEnsured, Goto
    <3>2. ASSUME NEW i \in Planned(batch[w]), i <= Reached(w)'
          PROVE  i <= Reached(w) \/ i = next[w]
      <4>1. i \in Nat
        BY ProcessorAssumption DEF Planned
      <4> QED
        BY <1>1, <2>1, <3>1, <3>2, <4>1 DEF Reached
    <3>3. AtWork(w)'
      BY <3>1 DEF AtWork
    <3>4. Provided(w)'
      BY <1>1, <2>1, <3>1, <3>2 DEF BringInv, Provided, Planned, Msg, Current
    <3> QED
      BY <2>2, <3>3, <3>4
  <2> QED
    BY <2>3, <2>4
<1> QED
  BY <1>1, <1>3, <1>4, <1>5 DEF ExecDdl

(* The payload is rendered, and its statements executed, behind the model. *)
LEMMA BringStatement ==
  ASSUME TypeInv, BringInv, NEW w \in Workers, Render(w) \/ ExecDml(w) \/ DeadlockVictim(w)
  PROVE  (AtWork(w) /\ Creations(w) /\ Provided(w))'
<1> USE DEF TypeInv, TypeOK
<1>1. pc[w] # "idle" /\ next[w] \in Nat
  BY DEF Render, ExecDml, DeadlockVictim
<1>2. CASE RecoverableError(w)
  BY <1>1, <1>2, BringError
<1>3. CASE Render(w) /\ PermanentError(w)
  BY <1>1, <1>3, BringError DEF Render
<1>4. CASE /\ pc[w] \in {"render", "dml"} /\ UNCHANGED <<relations, batch>> /\ ensured'[w] = ensured[w]
           /\ \/ next'[w] = next[w] /\ pc'[w] = "dml"
              \/ next'[w] = next[w] + 1 /\ pc'[w] = "message"
  <2>1. Reached(w) = next[w] /\ pc'[w] \in {"dml", "message"}
    BY <1>4 DEF Reached
  <2>2. Reached(w)' = next[w]
    <3>1. CASE next'[w] = next[w] /\ pc'[w] = "dml"
      BY <3>1 DEF Reached
    <3>2. CASE next'[w] = next[w] + 1 /\ pc'[w] = "message"
      <4>1. Reached(w)' = (next[w] + 1) - 1
        BY <3>2 DEF Reached
      <4> QED
        BY <1>1, <4>1
    <3> QED
      BY <1>4, <3>1, <3>2
  <2> QED
    BY <1>1, <1>4, <2>1, <2>2, BringPasses
<1>5. CASE Render(w) /\ ~PermanentError(w)
  BY <1>1, <1>4, <1>5 DEF Render, Goto, store
<1>6. CASE ExecDml(w) /\ ~RecoverableError(w)
  BY <1>1, <1>4, <1>6 DEF ExecDml, NextDml, Goto, store
<1> QED
  BY <1>2, <1>3, <1>5, <1>6 DEF DeadlockVictim

(* A message that cannot be planned is passed over; an end leaves nothing. *)
LEMMA BringControl ==
  ASSUME TypeInv, ModelInv, BringInv, NEW w \in Workers, Moves(w),
         ~Ensure(w), ~ExecDdl(w), ~Render(w), ~ExecDml(w), ~DeadlockVictim(w)
  PROVE  (AtWork(w) /\ Creations(w) /\ Provided(w))'
<1> USE DEF TypeInv, TypeOK
<1>1. ASSUME NEW b \in Batches, Begin(w, b) PROVE (AtWork(w) /\ Creations(w) /\ Provided(w))'
  <2>1. /\ pc[w] = "idle" /\ pc'[w] = "message" /\ next'[w] = 1 /\ UNCHANGED relations
    BY <1>1 DEF Begin, Goto
  <2>2. AtWork(w)' /\ Creations(w)'
    BY <2>1 DEF ModelInv, AtWork, Creations
  <2>3. \A i \in Planned(batch[w])' : ~(i <= Reached(w)')
    BY <2>1, ProcessorAssumption DEF Planned, Reached
  <2> QED
    BY <2>2, <2>3 DEF Provided
<1>2. CASE Plan(w) /\ Current(w).fate = "unplannable"
  <2>1. PermanentError(w) /\ pc[w] # "idle" /\ next[w] \notin Planned(batch[w])
    BY <1>2 DEF Plan, Planned, Current
  <2> QED
    BY <2>1, BringError
<1>3. CASE Plan(w) /\ Current(w).fate # "unplannable"
  <2>1. /\ pc[w] = "message" /\ pc'[w] = "ensure" /\ UNCHANGED <<relations, locals>>
        /\ Current(w)' = Current(w)
    BY <1>3 DEF Plan, Goto, store, locals, Current, Msg
  <2>2. AtWork(w)'
    BY <1>3, <2>1 DEF AtWork
  <2>3. Reached(w)' = Reached(w)
    BY <2>1 DEF Reached, locals
  <2> QED
    <3>1. Creations(w)'
      BY <2>1 DEF BringInv, Creations, Planned, IsModelOf, Msg, locals
    <3>2. Provided(w)'
      BY <2>1, <2>3 DEF BringInv, Provided, Planned, Msg, locals
    <3> QED
      BY <2>2, <3>1, <3>2
<1>4. CASE LoadFails(w) \/ ReadFails(w)
  BY <1>4, BringError DEF LoadFails, ReadFails, Goto, store
<1>5. CASE Commit(w) \/ CommitFails(w) \/ CommitUnknown(w) \/ Rollback(w) \/ Crash(w)
  <2>1. pc'[w] = "idle" /\ (EndByCommit(w) \/ EndByRollback(w))
    BY <1>5, EndKind DEF Commits, RollsBack
  <2>2. ASSUME NEW r \in relations' PROVE r.by # w
    <3>1. CASE EndByCommit(w)
      <4>1. PICK q \in relations : r = [q EXCEPT !.by = IF @ = w THEN Committed ELSE @]
        BY <3>1 DEF EndByCommit, CommittedRelations
      <4>2. w # Committed
        BY PostgresAssumption DEF Workers
      <4> QED
        BY <4>1, <4>2 DEF Relations
    <3> QED
      BY <2>1, <3>1 DEF EndByRollback
  <2> QED
    BY <2>1, <2>2 DEF AtWork, Creations, Provided
<1> QED
  BY <1>1, <1>2, <1>3, <1>4, <1>5 DEF Moves, Step

(* Every step keeps the models with their messages.                        *)
LEMMA BringStep == TypeInv /\ ModelInv /\ BringInv /\ [Next]_vars => BringInv'
<1> SUFFICES ASSUME TypeInv, ModelInv, BringInv, [Next]_vars, NEW x \in Workers
             PROVE  (AtWork(x) /\ Creations(x) /\ Provided(x))'
  BY DEF BringInv
<1>1. CASE Moves(x)
  BY <1>1, BringEnsure, BringDdl, BringStatement, BringControl
<1>2. ASSUME NEW w \in Workers, Moves(w), x # w PROVE (AtWork(x) /\ Creations(x) /\ Provided(x))'
  BY <1>2, BringOther
<1>3. CASE UNCHANGED <<store, pc, locals>>
  BY <1>3 DEF BringInv, AtWork, Creations, Provided, Planned, Reached, IsModelOf, Current, Msg,
              store, locals
<1> QED
  BY <1>1, <1>2, <1>3, NextMoves DEF Redeliver, vars

(* Nobody has created anything to begin with.                              *)
LEMMA BringBegins == Init => BringInv
<1> SUFFICES ASSUME Init, NEW w \in Workers PROVE AtWork(w) /\ Creations(w) /\ Provided(w)
  BY DEF BringInv
<1>1. pc[w] = "idle" /\ \A r \in relations : r.by = Committed
  BY DEF Init, StoreInit, LeftBehind
<1>2. w # Committed
  BY PostgresAssumption DEF Workers
<1> QED
  BY <1>1, <1>2 DEF AtWork, Creations, Provided

(* What a step commits of a model, the end of a batch commits with one of  *)
(* its messages.                                                           *)
LEMMA ModelsAtCommit ==
  ASSUME TypeInv, BringInv, [Next]_vars, NEW r \in relations' \ relations, r.by = Committed
  PROVE  \E w \in Workers :
           /\ pc[w] = "message" /\ ~More(w) /\ pc'[w] = "idle"
           /\ \E i \in Planned(batch[w]) : IsModelOf(r, Msg(batch[w], i))
<1>1. PICK w \in Workers : Moves(w)
  BY NextMoves DEF Redeliver, vars, store
<1>2. w # Committed
  BY PostgresAssumption DEF Workers
<1>3. Commits(w)
  BY <1>1, <1>2, RelationStep DEF Created, RollsBack, EndByRollback
<1>4. PICK q \in relations : r = [q EXCEPT !.by = IF @ = w THEN Committed ELSE @]
  BY <1>3 DEF Commits, EndByCommit, CommittedRelations
<1>5. q.by = w /\ r.name = q.name /\ r.cols = q.cols
  BY <1>4 DEF TypeInv, TypeOK, Relations
<1>6. PICK i \in Planned(batch[w]) : IsModelOf(q, Msg(batch[w], i))
  BY <1>5 DEF BringInv, Creations
<1>7. IsModelOf(r, Msg(batch[w], i))
  BY <1>5, <1>6 DEF IsModelOf
<1> QED
  BY <1>3, <1>7 DEF Commits

(* The COMMIT of a batch leaves each of its messages its table.            *)
LEMMA StoredWithModels ==
  ASSUME TypeInv, ModelInv, BringInv, CreateModel, NEW w \in Workers, Commits(w),
         NEW i \in Planned(batch[w])
  PROVE  \E r \in relations' :
           r.by = Committed /\ r.name = <<IdentName[Msg(batch[w], i).table], "tables">>
<1> DEFINE name == <<IdentName[Msg(batch[w], i).table], "tables">>
<1>1. pc[w] = "message" /\ ~More(w) /\ txn[w] = "open" /\ EndByCommit(w)
  BY DEF Commits
<1>2. i <= Reached(w)
  <2>1. /\ i \in Nat /\ i <= Len(Content[batch[w]]) /\ next[w] \in Nat
        /\ Len(Content[batch[w]]) \in Nat
    BY ProcessorAssumption DEF Planned, TypeInv, TypeOK
  <2> QED
    BY <1>1, <2>1 DEF More, Reached
<1>3. Msg(batch[w], i).table \in ensured[w]
  BY <1>1, <1>2 DEF BringInv, Provided
<1>4. PICK q \in relations : q.name = name /\ q.by \in {Committed, w}
  BY <1>1, <1>3 DEF ModelInv, EnsuredSound, Known
<1> HIDE DEF name
<1> DEFINE r == [q EXCEPT !.by = IF @ = w THEN Committed ELSE @]
<1>5. r \in relations'
  BY <1>1 DEF EndByCommit, CommittedRelations
<1>6. r.by = Committed /\ r.name = name
  BY <1>4 DEF TypeInv, TypeOK, Relations
<1> QED
  BY <1>5, <1>6 DEF name

(* Whatever errors, rejections, rivals and rollbacks come between, what is *)
(* committed of a model is committed with a batch that has a message of it,*)
(* and a stored batch leaves every message that could be planned its table,*)
(* the rejected ones included (processor.go:108, 166-183, 202-220).        *)
THEOREM ModelsWithBatches == Spec => ModelsComeWithBatches
<1> DEFINE Step1 ==
      /\ \A r \in relations' \ relations :
           r.by = Committed =>
             \E w \in Workers :
               /\ pc[w] = "message" /\ ~More(w) /\ pc'[w] = "idle"
               /\ \E i \in Planned(batch[w]) : IsModelOf(r, Msg(batch[w], i))
      /\ \A b \in Batches :
           CreateModel /\ status[b] # "done" /\ status'[b] = "done" =>
             \A i \in Planned(b) :
               \E r \in relations' :
                 r.by = Committed /\ r.name = <<IdentName[Msg(b, i).table], "tables">>
<1>1. ASSUME TypeInv, ModelInv, BringInv, [Next]_vars PROVE Step1
  <2>1. ASSUME NEW b \in Batches, CreateModel, status[b] # "done", status'[b] = "done",
               NEW i \in Planned(b)
        PROVE  \E r \in relations' :
                 r.by = Committed /\ r.name = <<IdentName[Msg(b, i).table], "tables">>
    <3>1. \A c \in Batches : ~Redelivers(c)
      BY <1>1, <2>1 DEF Redelivers, TypeInv, TypeOK
    <3>2. PICK w \in Workers : Kind(w)
      BY <1>1, <2>1, <3>1, StepKind DEF vars
    <3>3. Commits(w) /\ batch[w] = b
      BY <1>1, <2>1, <3>2, DoneByCommit
    <3> QED
      BY <1>1, <2>1, <3>3, StoredWithModels
  <2> QED
    BY <1>1, <2>1, ModelsAtCommit
<1>2. Init => TypeInv /\ ModelInv /\ BringInv
  BY TypeInit, ModelInit, BringBegins
<1>3. /\ TypeInv /\ ModelInv /\ BringInv /\ [Next]_vars => (TypeInv /\ ModelInv /\ BringInv)'
      /\ TypeInv /\ ModelInv /\ BringInv /\ [Next]_vars => [Step1]_vars
  BY <1>1, TypeStep, ModelStep, BringStep
<1>4. Spec => []([Step1]_vars)
  BY <1>2, <1>3, PTL DEF Spec
<1> QED
  BY <1>4 DEF ModelsComeWithBatches

-----------------------------------------------------------------------------
(* Rows, and the columns of their tables.                                  *)

TableOf(v) == <<v.row.table, "tables">>

Fitting(v) == Msg(v.doc[1], v.doc[2]).cols \subseteq Columns(v.by, TableOf(v))

ColumnInv == \A v \in versions : Fitting(v)

(* A column of a table is one of a relation of its name.                   *)
LEMMA InColumns ==
  ASSUME NEW s, NEW n, NEW c
  PROVE  /\ c \in Columns(s, n) <=>
              \E r \in relations : r.name = n /\ r.by \in {Committed, s} /\ c \in r.cols
         /\ c \in Columns(s, n)' <=>
              \E r \in relations' : r.name = n /\ r.by \in {Committed, s} /\ c \in r.cols
BY DEF Columns

(* No step takes columns from what anybody sees, but the end of a          *)
(* transaction, which gives them to everybody or takes them from its own.  *)
LEMMA ColumnsStay ==
  ASSUME TypeInv, NEW w \in Workers, Moves(w), NEW n
  PROVE  /\ \A x \in (Workers \cup {Committed}) \ {w} : Columns(x, n) \subseteq Columns(x, n)'
         /\ ~Commits(w) /\ ~RollsBack(w) => Columns(w, n) \subseteq Columns(w, n)'
         /\ Commits(w) => Columns(w, n) \subseteq Columns(Committed, n)'
<1>1. w # Committed
  BY PostgresAssumption DEF Workers
<1>2. CASE Commits(w)
  <2>1. ASSUME NEW r \in relations
        PROVE  \E q \in relations' :
                 /\ q.name = r.name /\ q.cols = r.cols
                 /\ q.by = (IF r.by = w THEN Committed ELSE r.by)
    <3> DEFINE q == [r EXCEPT !.by = IF @ = w THEN Committed ELSE @]
    <3>1. q \in relations'
      BY <1>2 DEF Commits, EndByCommit, CommittedRelations
    <3>2. q.name = r.name /\ q.cols = r.cols /\ q.by = (IF r.by = w THEN Committed ELSE r.by)
      BY DEF TypeInv, TypeOK, Relations
    <3> QED
      BY <3>1, <3>2
  <2>2. ASSUME NEW x \in (Workers \cup {Committed}) \ {w}, NEW c \in Columns(x, n)
        PROVE  c \in Columns(x, n)'
    BY <1>1, <2>1, InColumns
  <2>3. ASSUME NEW c \in Columns(w, n) PROVE c \in Columns(Committed, n)'
    BY <1>1, <2>1, InColumns
  <2> QED
    BY <1>2, <2>2, <2>3
<1>3. CASE RollsBack(w) /\ ~Commits(w)
  <2>1. relations' = {r \in relations : r.by # w}
    BY <1>3 DEF RollsBack, EndByRollback
  <2>2. ASSUME NEW x \in (Workers \cup {Committed}) \ {w}, NEW c \in Columns(x, n)
        PROVE  c \in Columns(x, n)'
    BY <1>1, <2>1, InColumns
  <2> QED
    BY <1>3, <2>2
<1>4. CASE ~RollsBack(w) /\ ~Commits(w)
  <2>1. relations \subseteq relations'
    BY <1>4, RelationStep DEF Created
  <2>2. ASSUME NEW x, NEW c \in Columns(x, n) PROVE c \in Columns(x, n)'
    BY <2>1, InColumns
  <2> QED
    BY <1>4, <2>2
<1> QED
  BY <1>2, <1>3, <1>4

(* A line is executed only when the table has the columns it names.        *)
LEMMA WrittenFits ==
  ASSUME TypeInv, LineInv, NEW w \in Workers, Moves(w), Executes(w),
         stmts[w][1].op \in {"insert", "upsert"}, NEW v, v = NewVersion(w, stmts[w][1])
  PROVE  Fitting(v)'
<1> DEFINE st == stmts[w][1]
<1>1. /\ pc[w] = "dml" /\ pc'[w] \in {"dml", "message"} /\ txn[w] = "open"
      /\ stmts[w] \in Seq(DmlLines) \ {<<>>} /\ Head(stmts[w]) = st
  BY DEF Executes, TypeInv, InHand
<1>2. ExecDml(w) /\ ~RecoverableError(w)
  BY <1>1 DEF Moves, Step, Begin, Plan, Ensure, ExecDdl, Render, DeadlockVictim, Commit, Rollback,
              LoadFails, ReadFails, CommitFails, CommitUnknown, Crash, ReturnError,
              RecoverableError, Goto, TypeInv, TypeOK
<1>3. ~Unfit(w, st) /\ UNCHANGED relations
  BY <1>1, <1>2 DEF ExecDml, NextDml, store
<1>4. LineOf(w, st)
  BY <1>1 DEF LineInv, Lines
<1>5. Msg(st.doc[1], st.doc[2]).cols = st.cols
  BY <1>4 DEF LineOf, LineFor, Current
<1>6. v.by = w /\ v.doc = st.doc /\ v.row = st.row
  BY DEF NewVersion
<1>7. Fitting(v)
  BY <1>3, <1>5, <1>6 DEF Unfit, Fitting, TableOf
<1>8. \A s, n : Columns(s, n)' = Columns(s, n)
  BY <1>3 DEF Columns
<1> QED
  BY <1>7, <1>8 DEF Fitting, TableOf, Msg

(* Every step keeps rows to the columns of their tables.                   *)
LEMMA ColumnStep == TypeInv /\ StoreInv /\ ColumnInv /\ [Next]_vars => ColumnInv'
<1> SUFFICES ASSUME TypeInv, StoreInv, ColumnInv, [Next]_vars, NEW v \in versions'
             PROVE  Fitting(v)'
  BY DEF ColumnInv
<1>1. CASE UNCHANGED store
  BY <1>1 DEF store, ColumnInv, Fitting, Columns, TableOf, Msg
<1>2. ASSUME NEW w \in Workers, Moves(w) PROVE Fitting(v)'
  <2>1. Kind(w) /\ Committed # w
    BY <1>2, MovesKind, PostgresAssumption DEF Workers
  <2>2. CASE v \in versions
    <3>1. v.by \in Workers \cup {Committed}
      BY <2>2 DEF TypeInv, TypeOK, RowVersions
    <3>2. Commits(w) \/ RollsBack(w) => v.by # w
      BY CommittedRows, RolledRows DEF Commits, RollsBack, StoreInv
    <3> QED
      BY <1>2, <2>2, <3>1, <3>2, ColumnsStay DEF ColumnInv, Fitting
  <2>3. ASSUME NEW u \in versions, u.by = Committed, u.row = v.row, u.doc = v.doc, v.by = Committed
        PROVE  Fitting(v)'
    BY <1>2, <2>1, <2>3, ColumnsStay DEF ColumnInv, Fitting, TableOf
  <2>4. ASSUME NEW u \in versions, Commits(w), u.by = w, u.row = v.row, u.doc = v.doc,
               v.by = Committed
        PROVE  Fitting(v)'
    BY <1>2, <2>1, <2>4, ColumnsStay DEF ColumnInv, Fitting, TableOf
  <2> QED
    BY <1>2, <2>1, <2>2, <2>3, <2>4, WrittenFits, VersionStep DEF StoreInv, CommittedIn
<1> QED
  BY <1>1, <1>2, NextMoves DEF Redeliver, vars

(* However old the table is and whoever created it, no message is stored   *)
(* with fewer columns than its own schema gives it (processor.go:202-209). *)
THEOREM ColumnsAreThere == Spec => []ColumnsThere
<1>1. Init => ColumnInv
  BY DEF Init, StoreInit, ColumnInv
<1>2. ColumnInv => ColumnsThere
  <2>1. ASSUME ColumnInv, NEW v \in versions, v.by = Committed
        PROVE  Msg(v.doc[1], v.doc[2]).cols
                 \subseteq Columns(Committed, <<v.row.table, "tables">>)
    <3>1. Fitting(v)
      BY <2>1 DEF ColumnInv
    <3> QED
      BY <2>1, <3>1 DEF Fitting, TableOf
  <2> QED
    BY <2>1, Zenon DEF ColumnsThere
<1> QED
  BY <1>1, <1>2, StoreAlways, ColumnStep, PTL DEF Spec
=============================================================================
