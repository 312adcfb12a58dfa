----------------------------- MODULE Statements -----------------------------
(***************************************************************************)
(* The statements of a normalized model and of a landing table, put        *)
(* together from what the planner and the renderers compute, and what      *)
(* PostgreSQL does with each.                                              *)
(*                                                                         *)
(* A model is a record [root, tables]: its root table, with its arrays,    *)
(* and all its tables, the root first and parents before children.  A      *)
(* rendering is what a document gives: a record [key, row, children,       *)
(* deletes, updates].  A row is a record [table, parent, at, vals]: parent *)
(* is the table its foreign key refers to (<<>>: none), at the value of    *)
(* its key, the root key and the row numbers down to it, vals the other    *)
(* columns that are not NULL; in a landing table, all columns.             *)
(*                                                                         *)
(* Nothing here recurses: NormalizedPlan, NormalizedDml and LandingTable   *)
(* do.                                                                     *)
(***************************************************************************)
EXTENDS Naturals, FiniteSets, Sequences, SequencesExt

Nil == [type |-> "nil"]
Leaf(v) == [type |-> "leaf", value |-> v]

RowNo == <<"row", "no">>
Header == <<"header", "source">>

(* Where rendering fails: something else is found where an array belongs.  *)
Bad == [op |-> "bad"]

-----------------------------------------------------------------------------
(* DDL.                                                                    *)

AllColumns(t, headers) == headers \o t.fkCols
                          \o (IF t.fkCols = <<>> THEN <<>> ELSE <<RowNo>>) \o t.columns

(* The columns of the i-th table: the root has the headers too.            *)
TableColumns(model, headers, i) ==
  AllColumns(model.tables[i], IF i = 1 THEN headers ELSE <<>>)

CreateStatements(model, headers) ==
  [i \in DOMAIN model.tables |->
     [op |-> "create", kind |-> "table", name |-> model.tables[i].name,
      uses |-> {model.tables[i].parent} \ {<<>>},
      columns |-> TableColumns(model, headers, i)]]

(* Mutation: the names of root columns are used again.                     *)
ViewColumnsPlain(root, headers, child) ==
  headers \o root.columns \o AllColumns(child, <<>>)

(* A child column whose name is used gets the child's key in front.        *)
ViewColumns(root, headers, child) ==
  FoldLeft(LAMBDA used, c : Append(used, IF c \in ToSet(used) THEN Last(child.path) \o c
                                                              ELSE c),
           headers \o root.columns, AllColumns(child, <<>>))

(* A view is named after the path of the child, not after its table.       *)
ViewName(root, child) == <<"v">> \o root.name \o FlattenSeq(child.path)

ViewStatements(model, headers) ==
  LET root == model.root
  IN [i \in DOMAIN root.arrays |->
        [op |-> "create", kind |-> "view", name |-> ViewName(root, root.arrays[i]),
         uses |-> {root.name, root.arrays[i].name},
         columns |-> ViewColumns(root, headers, root.arrays[i])]]

RegistryStatements(model) ==
  <<[op |-> "create", kind |-> "table", name |-> Append(model.root.name, "registry"),
     uses |-> {}, columns |-> <<>>]>>

Ddl(model, headers) ==
  CreateStatements(model, headers) \o ViewStatements(model, headers)
    \o RegistryStatements(model)

(* CREATE statements in their order: every name and column is new, what is *)
(* used is there (PostgreSQL; external).                                   *)
Installs(ddl) ==
  \A i \in DOMAIN ddl :
    LET earlier == {ddl[j].name : j \in 1..(i - 1)}
    IN /\ ddl[i].name \notin earlier
       /\ ddl[i].uses \subseteq earlier
       /\ Cardinality(ToSet(ddl[i].columns)) = Len(ddl[i].columns)

-----------------------------------------------------------------------------
(* What is planned and rendered, whoever computes it.                      *)

IsSequence(s) == s \in Seq(ToSet(s))

IsFunction(f, S) == f = [x \in S |-> f[x]]

IsRow(r) == r = [table |-> r.table, parent |-> r.parent, at |-> r.at, vals |-> r.vals]

(* A plan has its root table first, under the name it was given.           *)
IsModel(model, tableName) ==
  /\ model.fails \in BOOLEAN
  /\ ~model.fails =>
       /\ IsSequence(model.tables) /\ model.tables # <<>>
       /\ model.tables[1] = model.root /\ model.root.name = tableName
       /\ IsSequence(model.root.arrays)
       /\ \A t \in ToSet(model.tables) :
            t.name # <<>> /\ IsSequence(t.fkCols) /\ IsSequence(t.columns)

(* What is rendered for a planned table: a row with its columns, under its *)
(* parent, or a DELETE; rows of children have more than the root's key.    *)
IsRowOf(row, model) ==
  \E i \in DOMAIN model.tables :
    /\ IsRow(row) /\ IsFunction(row.vals, DOMAIN row.vals)
    /\ row.table = model.tables[i].name /\ row.parent = model.tables[i].parent
    /\ DOMAIN row.vals \subseteq ToSet(TableColumns(model, <<Header>>, i))

IsRendering(r, model, tableName) ==
  /\ IsRowOf(r.row, model)
  /\ r.row.table = tableName /\ r.row.parent = <<>> /\ r.row.at = <<r.key>>
  /\ IsSequence(r.children) /\ IsSequence(r.deletes) /\ r.updates \in BOOLEAN
  /\ \A st \in ToSet(r.children) \ {Bad} :
       /\ st = [op |-> "insert", row |-> st.row]
       /\ IsRowOf(st.row, model) /\ Len(st.row.at) > 1
  /\ \A st \in ToSet(r.deletes) \ {Bad} :
       /\ st = [op |-> "delete", table |-> st.table, at |-> st.at]
       /\ \E t \in ToSet(model.tables) : st.table = t.name

-----------------------------------------------------------------------------
(* The statements of a document in a normalized model.                     *)

InsertStatements(r) == <<[op |-> "insert", row |-> r.row]>> \o r.children

(* Mutation: the root row comes after its children.                        *)
UpsertRootLast(r) ==
  r.deletes \o (IF r.updates THEN <<>> ELSE <<Bad>>)
    \o r.children \o <<[op |-> "upsert", row |-> r.row]>>

(* It fails when there is nothing to update besides the key.               *)
UpsertStatements(r) ==
  r.deletes \o (IF r.updates THEN <<>> ELSE <<Bad>>)
    \o <<[op |-> "upsert", row |-> r.row]>> \o r.children

(* Without a value for the primary key, or with Bad among the statements,  *)
(* there is an error and no statement.                                     *)
Rendered(r, stmts) == r.key # Nil /\ Bad \notin ToSet(stmts)

-----------------------------------------------------------------------------
(* Executing them (PostgreSQL; external).                                  *)

Same(r, q) == r.table = q.table /\ r.at = q.at

ParentThere(db, r) ==
  r.parent = <<>> \/ \E q \in db : q.table = r.parent /\ q.at = Front(r.at)

Refers(r, q) == r.parent # <<>> /\ r.parent = q.table /\ Front(r.at) = q.at

(* ON CONFLICT (pk) DO UPDATE sets the planned columns of the root, which  *)
(* do not include the header columns.                                      *)
Merged(old, new) ==
  [new EXCEPT !.vals = [c \in (DOMAIN new.vals \ {Header}) \cup (DOMAIN old.vals \cap {Header}) |->
                          IF c = Header THEN old.vals[c] ELSE new.vals[c]]]

(* One statement on the rows db; its answer is a record [db, ok].          *)
ExecInsert(db, row) ==
  [db |-> db \cup {row}, ok |-> ParentThere(db, row) /\ ~\E r \in db : Same(r, row)]

ExecUpsert(db, row) ==
  LET old == {r \in db : Same(r, row)}
  IN [db |-> (db \ old) \cup (IF old = {} THEN {row} ELSE {Merged(r, row) : r \in old}),
      ok |-> TRUE]

ExecDelete(db, table, at) ==
  LET deleted == {r \in db : r.table = table /\ Front(r.at) = at}
  IN [db |-> db \ deleted, ok |-> ~\E r \in db \ deleted, q \in deleted : Refers(r, q)]

Exec(db, st) ==
  CASE st.op = "insert" -> ExecInsert(db, st.row)
    [] st.op = "upsert" -> ExecUpsert(db, st.row)
    [] st.op = "delete" -> ExecDelete(db, st.table, st.at)

(* Statements in one transaction: none is executed after one has failed.   *)
Execute(db, stmts) ==
  LET result[i \in 0..Len(stmts)] ==
        IF i = 0 THEN [db |-> db, ok |-> TRUE]
        ELSE IF result[i - 1].ok THEN Exec(result[i - 1].db, stmts[i]) ELSE result[i - 1]
  IN result[Len(stmts)]

-----------------------------------------------------------------------------
(* The statement of a document in a landing table.                         *)

LandingCreate(tableName, columns) ==
  [op |-> "create", kind |-> "table", name |-> tableName, uses |-> {}, columns |-> columns]

LandingInsert(tableName, vals) == [op |-> "insert", table |-> tableName, vals |-> vals]

(* Mutation: the SET list forgets the columns of the header.               *)
SetListPayload(columns, conflict) == ToSet(columns) \ {conflict, Header}

(* DO UPDATE SET: every column but the one in conflict.                    *)
SetList(columns, conflict) == ToSet(columns) \ {conflict}

LandingUpsert(tableName, columns, vals, conflict) ==
  IF conflict \notin ToSet(columns) \/ SetList(columns, conflict) = {} THEN Bad
  ELSE [op |-> "upsert", table |-> tableName, vals |-> vals,
        conflict |-> conflict, set |-> SetList(columns, conflict)]

(* Executing one on a table with the primary key pk, a sequence of columns *)
(* or <<>> (PostgreSQL; external).  In a table without a key, at is the    *)
(* number of the row's arrival.                                            *)
RowAt(pk, rows, vals) ==
  IF pk = <<>> THEN <<[arrival |-> Cardinality(rows) + 1]>> ELSE [i \in DOMAIN pk |-> vals[pk[i]]]

LandingExec(pk, rows, st) ==
  LET at == RowAt(pk, rows, st.vals)
      old == {r \in rows : r.at = at}
      updated(r) ==
        [r EXCEPT !.vals = [c \in DOMAIN @ \cup st.set |-> IF c \in st.set THEN st.vals[c] ELSE @[c]]]
      notNull == pk = <<>> \/ Nil \notin ToSet(at)
      row == [table |-> st.table, parent |-> <<>>, at |-> at, vals |-> st.vals]
  IN IF st.op = "insert"
       THEN [db |-> rows \cup {row}, ok |-> notNull /\ old = {}]
       ELSE [db |-> IF old = {} THEN rows \cup {row}
                    ELSE (rows \ old) \cup {updated(r) : r \in old},
             ok |-> notNull /\ pk = <<st.conflict>>]

-----------------------------------------------------------------------------
(* The cells of stored rows: in a normalized model each leaf has its       *)
(* column, and a row is itself a cell without a column; in a landing table *)
(* each column that is not NULL is one.                                    *)

Cell(table, at, column, value) ==
  [table |-> table, at |-> at, column |-> column, value |-> value]

RowCell(table, at) == Cell(table, at, <<>>, Nil)

KeyIn(cell) == cell.at[1]

CellsIn(rows) ==
  UNION {{RowCell(r.table, r.at)}
           \cup {Cell(r.table, r.at, c, r.vals[c]) : c \in DOMAIN r.vals} : r \in rows}

LandingCellsIn(rows) ==
  UNION {{Cell(r.table, r.at, c, r.vals[c]) : c \in {x \in DOMAIN r.vals : r.vals[x] # Nil}} :
           r \in rows}
-----------------------------------------------------------------------------
(* Whole documents.                                                        *)

RowsOf(r) == {r.row} \cup {r.children[i].row : i \in DOMAIN r.children}

(* A document has all its arrays, and those are at the root of its schema: *)
(* each item has a row under the root row, each child table its DELETE;    *)
(* and the rows are what the document means to its reader.                 *)
IsWhole(r, model, tableName, key, cells) ==
  /\ r.updates /\ key = r.key
  /\ Header \in DOMAIN r.row.vals
  /\ \A i \in DOMAIN r.children :
       LET row == r.children[i].row
       IN /\ r.children[i].op = "insert"
          /\ row.table # tableName /\ row.parent = tableName
          /\ row.at = <<r.key, row.at[2]>>
          /\ \A j \in DOMAIN r.children : Same(row, r.children[j].row) => i = j
  /\ \A st \in ToSet(r.deletes) :
       st.op = "delete" /\ st.table # tableName /\ st.at = <<r.key>>
  /\ \A t \in ToSet(model.tables) :
       t.name # tableName => \E st \in ToSet(r.deletes) : st.table = t.name
  /\ CellsIn(RowsOf(r)) = cells
=============================================================================
