----------------------------- MODULE CommandLine ----------------------------
(***************************************************************************)
(* The command line tool (internal/cli): one run after the other on one    *)
(* database.  A run renders all its statements first; then -drop removes   *)
(* what the model's names say is there, and the statements are executed    *)
(* one by one, each on its own, until one fails.  A run may be cut off     *)
(* anywhere: by its timeout, the connection, or the user.                  *)
(*                                                                         *)
(* The planner and the renderers are constants here, functions of schemas  *)
(* and documents; MCCommandLine gives them their values.                   *)
(*                                                                         *)
(* In the database a relation is a record [name, kind, uses, columns, pk]. *)
(* Names are short, lower case words: they are their own SQL identifiers.  *)
(***************************************************************************)
EXTENDS Statements

CONSTANTS
  Schemas,              \* Schemas[m]: the schemas of runs with -model=m
  Directories,          \* Directories[m]: what their data directories may hold,
                        \* sequences of documents in the order of their names
  TableName,            \* -table
  Pk,                   \* -pk and -conflict
  Models,               \* Models[s]: what Plan makes of a schema, [fails, root, tables]
  Renderings,           \* Renderings[d]: what the DML makes of a document
  Columns,              \* Columns[s]: the columns of a landing table
  Values,               \* Values[d]: the values of a document, by column
  KeyOf(_),             \* the primary key of a document
  CellsOf(_, _),        \* CellsOf(m, d): what a document means to its reader
  MaxRuns, MaxFaults    \* bounds: runs, and how many of them are cut off

RenderingAssumption(d) == IsRendering(Renderings[d], Models[d.schema], TableName)

(* The schemas that can be planned.                                        *)
Planned == {s \in Schemas[TRUE] : ~Models[s].fails}

(* The documents of schemas that are run with -model=m.                    *)
DocumentsOf(m) ==
  {d \in UNION {ToSet(f) : f \in Directories[m]} :
     d.schema \in IF m THEN Planned ELSE Schemas[FALSE]}

ASSUME RunAssumption ==
  /\ MaxRuns \in Nat /\ MaxFaults \in Nat /\ IsSequence(TableName)
  /\ \A m \in BOOLEAN : \A f \in Directories[m] :
       IsSequence(f) /\ f # <<>> /\ \A d \in ToSet(f) : d.schema = f[1].schema
  /\ \A s \in Schemas[TRUE] : IsModel(Models[s], TableName)
  /\ \A d \in DocumentsOf(TRUE) : RenderingAssumption(d)
  /\ \A s \in Schemas[FALSE] : IsSequence(Columns[s])
  /\ \A d \in DocumentsOf(FALSE) : IsFunction(Values[d], ToSet(Columns[d.schema]))

VARIABLES
  modelMode,   \* -model, the same in all runs: a normalized model, or a table
  run,         \* the run under way: its flags, and how far it has got
  relations,   \* the relations of the database
  rows,        \* the rows of its tables
  last,        \* the last run, when it has ended: [flags, result, op]
  used,        \* the schemas of runs since the last -drop that did its work
  runs, faults

vars == <<modelMode, run, relations, rows, last, used, runs, faults>>

(* Create does not read the files.                                         *)
FilesFor(model, schema, mode) ==
  IF mode = "create" THEN {<<>>} ELSE {f \in Directories[model] : f[1].schema = schema}

Flags(model) ==
  UNION {[model : {model}, mode : {m}, drop : BOOLEAN, schema : {s},
          files : FilesFor(model, s, m)] :
           m \in {"create", "insert", "upsert", "all"}, s \in Schemas[model]}

-----------------------------------------------------------------------------
(* The statements of a run.                                                *)

Creates(flags) == flags.mode \in {"create", "all"}
Inserts(flags) == flags.mode \in {"insert", "all"}
Upserts(flags) == flags.mode \in {"upsert", "all"}

When(condition, stmts) == IF condition THEN stmts ELSE <<>>

ModelDdl(schema) == Ddl(Models[schema], <<Header>>)

LandingDdl(schema) ==
  <<LandingCreate(TableName, Columns[schema]),
    [op |-> "alter", table |-> TableName, pk |-> <<Pk>>]>>

CreateAll(flags) ==
  When(Creates(flags),
       IF flags.model THEN ModelDdl(flags.schema) ELSE LandingDdl(flags.schema))

(* Mutation: the child rows of the document that is replaced are kept.     *)
ModelFileKeeping(flags, doc) ==
  LET r == Renderings[doc]
  IN When(Inserts(flags), InsertStatements(r))
       \o When(Upserts(flags),
               SelectSeq(UpsertStatements(r), LAMBDA st : st.op # "delete"))

(* Mutation: the root row of an upsert has no ON CONFLICT.                 *)
ModelFilePlain(flags, doc) ==
  LET r == Renderings[doc]
      plain(st) == [st EXCEPT !.op = IF @ = "upsert" THEN "insert" ELSE @]
      upserts == UpsertStatements(r)
  IN When(Inserts(flags), InsertStatements(r))
       \o When(Upserts(flags), [i \in DOMAIN upserts |-> plain(upserts[i])])

(* What is executed for one file.                                          *)
ModelFile(flags, doc) ==
  When(Inserts(flags), InsertStatements(Renderings[doc]))
    \o When(Upserts(flags), UpsertStatements(Renderings[doc]))

LandingFile(flags, doc) ==
  When(Inserts(flags), <<LandingInsert(TableName, Values[doc])>>)
    \o When(Upserts(flags),
            <<LandingUpsert(TableName, Columns[flags.schema], Values[doc], Pk)>>)

File(flags, i) ==
  IF flags.model THEN ModelFile(flags, flags.files[i]) ELSE LandingFile(flags, flags.files[i])

(* A schema that cannot be planned, or a file that cannot be rendered.     *)
RenderFails(flags) ==
  \/ flags.model /\ Models[flags.schema].fails
  \/ \E i \in DOMAIN flags.files :
       IF flags.model THEN ~Rendered(Renderings[flags.files[i]], File(flags, i))
                      ELSE Bad \in ToSet(File(flags, i))

-----------------------------------------------------------------------------
(* The statements of -drop, with names put together anew.                  *)

Drop(kind, name) == [op |-> "drop", kind |-> kind, name |-> name]

(* "v_" + root + "_" + the child's name without the root's.                *)
DropViewName(root, child) ==
  <<"v">> \o root.name \o SubSeq(child.name, Len(root.name) + 1, Len(child.name))

(* Mutation: the registry stays.                                           *)
DropStatementsModelOnly(flags) ==
  LET tables == Reverse(Models[flags.schema].tables)
  IN IF ~flags.drop THEN <<>>
     ELSE IF ~flags.model THEN <<Drop("table", TableName)>>
     ELSE [i \in DOMAIN tables |-> Drop("table", tables[i].name)]

(* Views, then tables from the last to the first, then the registry.       *)
DropStatements(flags) ==
  LET root == Models[flags.schema].root
      tables == Reverse(Models[flags.schema].tables)
  IN IF ~flags.drop THEN <<>>
     ELSE IF ~flags.model THEN <<Drop("table", TableName)>>
     ELSE [i \in DOMAIN root.arrays |-> Drop("view", DropViewName(root, root.arrays[i]))]
            \o [i \in DOMAIN tables |-> Drop("table", tables[i].name)]
            \o <<Drop("table", Append(TableName, "registry"))>>

(* What is executed before the files.                                      *)
Prelude(flags) == DropStatements(flags) \o CreateAll(flags)

-----------------------------------------------------------------------------
(* PostgreSQL executing one statement by itself (external).  Its answer is *)
(* a record [relations, rows, ok].                                         *)

Named(name) == {r \in relations : r.name = name}

There(name) == Named(name) # {}

TheRelation(name) == CHOOSE r \in relations : r.name = name

(* What a refused statement leaves: everything as it was.                  *)
Answer(ok, relations2, rows2) ==
  [ok |-> ok, relations |-> IF ok THEN relations2 ELSE relations,
   rows |-> IF ok THEN rows2 ELSE rows]

ExecCreate(st) ==
  LET new == [name |-> st.name, kind |-> st.kind, columns |-> st.columns,
              uses |-> st.uses, pk |-> <<>>]
      ok == /\ ~There(st.name)
            /\ \A n \in st.uses : There(n)
            /\ Cardinality(ToSet(st.columns)) = Len(st.columns)
  IN Answer(ok, relations \cup {new}, rows)

(* ADD PRIMARY KEY on a table that has rows does not occur: its CREATE has *)
(* just been executed.                                                     *)
ExecAlter(st) ==
  LET table == TheRelation(st.table)
  IN Answer(There(st.table) /\ table.pk = <<>> /\ ToSet(st.pk) \subseteq ToSet(table.columns),
            (relations \ {table}) \cup {[table EXCEPT !.pk = st.pk]}, rows)

(* DROP ... IF EXISTS ... CASCADE takes views with it, and foreign keys.   *)
ExecDrop(st) ==
  LET name == st.name
      gone == Named(name) \cup {r \in relations : r.kind = "view" /\ name \in r.uses}
      row(r) == IF r.parent = name THEN [r EXCEPT !.parent = <<>>] ELSE r
  IN IF ~There(name) THEN Answer(TRUE, relations, rows)
     ELSE Answer(\A r \in Named(name) : r.kind = st.kind,
                 {[r EXCEPT !.uses = @ \ {name}] : r \in relations \ gone},
                 {row(r) : r \in {q \in rows : q.table # name}})

(* The table a statement of the model is for, and the columns it names.    *)
Target(st) == IF st.op = "delete" THEN st.table ELSE st.row.table

(* Mutation: the statements name no columns.                               *)
NamedColumnsNone(model, st) == {}

NamedColumns(model, st) ==
  LET i == CHOOSE j \in DOMAIN model.tables : model.tables[j].name = Target(st)
  IN IF st.op = "delete" THEN ToSet(model.tables[i].fkCols)
                         ELSE ToSet(TableColumns(model, <<Header>>, i))

(* The foreign key of a row's table may have gone with its parent.         *)
Referring(st) ==
  IF st.op = "delete" \/ st.row.parent \in TheRelation(st.row.table).uses THEN st
  ELSE [st EXCEPT !.row.parent = <<>>]

(* A DML statement needs its table and the columns it names.               *)
ExecModelDml(model, st) ==
  LET there == There(Target(st))
               /\ NamedColumns(model, st) \subseteq ToSet(TheRelation(Target(st)).columns)
      result == Exec(rows, Referring(st))
  IN IF ~there THEN Answer(FALSE, relations, rows)
     ELSE Answer(result.ok, relations, result.db)

ExecLandingDml(st) ==
  LET there == There(st.table)
               /\ DOMAIN st.vals \subseteq ToSet(TheRelation(st.table).columns)
      result == LandingExec(TheRelation(st.table).pk, rows, st)
  IN IF ~there THEN Answer(FALSE, relations, rows)
     ELSE Answer(result.ok, relations, result.db)

ExecStatement(flags, st) ==
  CASE st.op = "create" -> ExecCreate(st)
    [] st.op = "alter" -> ExecAlter(st)
    [] st.op = "drop" -> ExecDrop(st)
    [] st.op \in {"insert", "upsert", "delete"} /\ flags.model ->
         ExecModelDml(Models[flags.schema], st)
    [] st.op \in {"insert", "upsert", "delete"} /\ ~flags.model -> ExecLandingDml(st)

-----------------------------------------------------------------------------
(* How far a run has got: so many statements of its prelude are executed,  *)
(* and it is at a line of the statements of a file.                        *)

Nobody == [flags |-> <<>>, prelude |-> 0, file |-> 1, line |-> 1]

InPrelude == run.prelude < Len(Prelude(run.flags))

AtEnd == ~InPrelude /\ run.file > Len(run.flags.files)

Current ==
  IF InPrelude THEN Prelude(run.flags)[run.prelude + 1]
               ELSE File(run.flags, run.file)[run.line]

Advanced ==
  IF InPrelude THEN [run EXCEPT !.prelude = @ + 1]
  ELSE IF run.line < Len(File(run.flags, run.file)) THEN [run EXCEPT !.line = @ + 1]
  ELSE [run EXCEPT !.file = @ + 1, !.line = 1]

NoRun == [result |-> "none"]

Init ==
  /\ modelMode \in BOOLEAN
  /\ run = Nobody
  /\ relations = {} /\ rows = {}
  /\ last = NoRun
  /\ used = {}
  /\ runs = 0 /\ faults = 0

End(result, op) ==
  /\ last' = [flags |-> run.flags, result |-> result, op |-> op]
  /\ run' = Nobody

(* A run executes nothing when its schema, headers, directory or files     *)
(* cannot be read, when the directory has no *.json, which -mode create    *)
(* does not read but looks for, when rendering fails, or when the database *)
(* cannot be reached.                                                      *)
Start(flags) ==
  /\ run = Nobody /\ runs < MaxRuns
  /\ \/ /\ last' = [flags |-> flags, result |-> "refused", op |-> "render"]
        /\ UNCHANGED <<run, used>>
     \/ /\ ~RenderFails(flags)
        /\ last' = NoRun
        /\ used' = used \cup {flags.schema}
        /\ run' = [Nobody EXCEPT !.flags = flags]
  /\ runs' = runs + 1
  /\ UNCHANGED <<modelMode, relations, rows, faults>>

ExecNext ==
  /\ run # Nobody /\ ~AtEnd
  /\ LET answer == ExecStatement(run.flags, Current)
     IN /\ relations' = answer.relations
        /\ rows' = answer.rows
        /\ IF answer.ok THEN run' = Advanced /\ UNCHANGED last
                        ELSE End("refused", Current.op)
  /\ UNCHANGED <<modelMode, used, runs, faults>>

Finish ==
  /\ run # Nobody /\ AtEnd
  /\ End("done", "none")
  /\ used' = IF run.flags.drop THEN {run.flags.schema} ELSE used
  /\ UNCHANGED <<modelMode, relations, rows, runs, faults>>

(* The statement under way may or may not take effect.                     *)
CutOff ==
  /\ run # Nobody /\ ~AtEnd /\ faults < MaxFaults
  /\ LET answer == ExecStatement(run.flags, Current)
     IN \/ relations' = answer.relations /\ rows' = answer.rows
        \/ UNCHANGED <<relations, rows>>
  /\ End("cut off", "none")
  /\ faults' = faults + 1
  /\ UNCHANGED <<modelMode, used, runs>>

Next ==
  \/ \E flags \in Flags(modelMode) : Start(flags)
  \/ ExecNext
  \/ Finish
  \/ CutOff

Spec == Init /\ [][Next]_vars

-----------------------------------------------------------------------------
(* What the properties below take of schemas and documents.                *)

TableNames(s) ==
  {t.name : t \in ToSet(Models[s].tables)} \cup {Append(TableName, "registry")}

ViewNames(s) ==
  LET root == Models[s].root
  IN {ViewName(root, a) : a \in ToSet(root.arrays)}
       \cup {DropViewName(root, a) : a \in ToSet(root.arrays)}

(* No table is called like a view.                                         *)
NamesApart == \A s \in Planned, q \in Planned : TableNames(s) \cap ViewNames(q) = {}

(* On an empty database each model and landing table can be created.       *)
SchemasInstall ==
  /\ \A s \in Planned : Installs(ModelDdl(s))
  /\ \A s \in Schemas[FALSE] :
       Cardinality(ToSet(Columns[s])) = Len(Columns[s]) /\ Pk \in ToSet(Columns[s])

(* A document with a key has all its arrays, at the root of its schema;    *)
(* and all documents have one source.                                      *)
WholeRendering(d) ==
  IsWhole(Renderings[d], Models[d.schema], TableName, KeyOf(d), CellsOf(TRUE, d))

WholeValues(d) ==
  LET at == <<KeyOf(d)>>
      row == [table |-> TableName, parent |-> <<>>, at |-> at, vals |-> Values[d]]
  IN /\ KeyOf(d) # Nil /\ KeyOf(d) = Values[d][Pk]
     /\ SetList(Columns[d.schema], Pk) # {}
     /\ LandingCellsIn({row}) = CellsOf(FALSE, d)

DocumentsAreWhole ==
  /\ \A d \in DocumentsOf(TRUE) : Renderings[d].key # Nil =>
       /\ WholeRendering(d)
       /\ \A e \in DocumentsOf(TRUE) : Renderings[e].key # Nil =>
            Renderings[e].row.vals[Header] = Renderings[d].row.vals[Header]
  /\ \A d \in DocumentsOf(FALSE) : WholeValues(d)

-----------------------------------------------------------------------------
(* Properties.                                                             *)

Documents == UNION {ToSet(f) : f \in Directories[modelMode]}

Keys == {KeyOf(d) : d \in Documents}

(* The names a run creates, and what is stored under a key in its tables.  *)
NamesOf(schema) ==
  IF modelMode THEN {st.name : st \in ToSet(ModelDdl(schema))} ELSE {TableName}

Own(schema) == {r \in rows : r.table \in NamesOf(schema)}

Under(schema, k) ==
  {c \in (IF modelMode THEN CellsIn(Own(schema)) ELSE LandingCellsIn(Own(schema))) :
     KeyIn(c) = k}

TypeOK ==
  /\ modelMode \in BOOLEAN
  /\ run # Nobody => run.flags \in Flags(modelMode)
  /\ \A r \in relations : r.kind \in {"table", "view"}
  /\ \A r \in relations, q \in relations : r.name = q.name => r = q
  /\ \A r \in rows : \E table \in relations :
       /\ table.name = r.table /\ table.kind = "table"
       /\ r.at # <<Nil>>
       /\ DOMAIN r.vals \subseteq ToSet(table.columns)
  /\ last.result \in {"none", "done", "refused", "cut off"}

(* The last run has ended after runs of its own schema only, since the     *)
(* last -drop that did its work; and a landing table has got its key: the  *)
(* ALTER was not cut off.                                                  *)
Settled ==
  /\ last # NoRun
  /\ used = {last.flags.schema}
  /\ ~modelMode => There(TableName) /\ TheRelation(TableName).pk = <<Pk>>

(* The files of a key, by their place in the run.                          *)
FilesOf(flags, k) == {i \in DOMAIN flags.files : KeyOf(flags.files[i]) = k}

(* A run that ends well has stored its documents, of several with one key  *)
(* the last, exactly: whatever runs before it were cut off between two     *)
(* statements of a document, nothing of theirs is left under its keys      *)
(* (dml.go:19-27, cli.go:180-184).                                         *)
StoredWhenDone ==
  Settled /\ last.result = "done" /\ last.flags.mode # "create" =>
    \A k \in Keys :
      LET is == FilesOf(last.flags, k)
      IN is # {} =>
           \E i \in is : /\ \A j \in is : j <= i
                         /\ Under(last.flags.schema, k) = CellsOf(modelMode, last.flags.files[i])

(* An upsert is never refused by a model that is there, whatever earlier   *)
(* runs left of its documents: running it again repairs them               *)
(* (dml.go:25-27).                                                         *)
UpsertsRepair ==
  Settled /\ last.result = "refused" /\ last.flags.mode = "upsert" /\ last.op # "render" =>
    \E name \in NamesOf(last.flags.schema) : ~There(name)

(* After -drop the names of the model are free: no CREATE of the run is    *)
(* refused, whatever part of this or another schema's model earlier runs   *)
(* installed or dropped (README.md:80, cli.go:150-179).                    *)
DropMakesRoom ==
  last.result = "refused" /\ last.flags.drop => last.op \notin {"drop", "create", "alter"}

(* As long as no run is cut off, each key holds one document or none: of   *)
(* the statements of a document only one that comes before anything of it  *)
(* is written or deleted is ever refused, though each is committed by      *)
(* itself (dml.go:11-27, "an atomic upsert batch for one document").       *)
RefusedInTime ==
  Settled /\ faults = 0 =>
    \A k \in Keys :
      LET stored == Under(last.flags.schema, k)
      IN stored = {} \/ \E d \in Documents : KeyOf(d) = k /\ stored = CellsOf(modelMode, d)
=============================================================================
