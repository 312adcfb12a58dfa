-------------------------- MODULE NormalizedModel ---------------------------
(***************************************************************************)
(* A normalized model in use: documents are inserted and upserted, each    *)
(* with its statements in one transaction, and what is stored is compared  *)
(* with what the documents mean.                                           *)
(*                                                                         *)
(* The planner and the renderers are constants here, functions of schemas  *)
(* and documents; MCNormalizedModel gives them their values.               *)
(***************************************************************************)
EXTENDS Statements

CONSTANTS
  Schemas,        \* the schemas to plan
  Documents,      \* the documents users may send, each with its schema
  TableName,      \* the root table
  Models,         \* Models[s]: what Plan makes of a schema, [fails, root, tables]
  Renderings,     \* Renderings[d]: what the DML makes of a document
  KeyOf(_),       \* the primary key of a document
  CellsOf(_)      \* what a document means to its reader

Planned == {s \in Schemas : ~Models[s].fails}

Sent == {d \in Documents : d.schema \in Planned}

ASSUME ModelsAssumption ==
  /\ \A s \in Schemas : IsModel(Models[s], TableName)
  /\ \A d \in Sent : IsRendering(Renderings[d], Models[d.schema], TableName)

VARIABLES
  schema,    \* the schema in use
  rows,      \* the rows of all tables of its model
  last       \* the last request and its answer: a record [op, doc, ok]

vars == <<schema, rows, last>>

-----------------------------------------------------------------------------
Init ==
  /\ schema \in Planned
  /\ rows = {}
  /\ last = [op |-> "none"]

(* A document that is not rendered changes nothing, nor does one of which  *)
(* a statement fails.                                                      *)
Store(doc, op, stmts) ==
  LET result == Execute(rows, stmts)
      ok == Rendered(Renderings[doc], stmts) /\ result.ok
  IN /\ rows' = IF ok THEN result.db ELSE rows
     /\ last' = [op |-> op, doc |-> doc, ok |-> ok]
     /\ UNCHANGED schema

InsertDocument(doc) == Store(doc, "insert", InsertStatements(Renderings[doc]))

UpsertDocument(doc) == Store(doc, "upsert", UpsertStatements(Renderings[doc]))

Next ==
  \E doc \in Documents :
    /\ doc.schema = schema
    /\ InsertDocument(doc) \/ UpsertDocument(doc)

Spec == Init /\ [][Next]_vars

-----------------------------------------------------------------------------
(* The store of documents it implements.                                   *)

StoredCells == CellsIn(rows)

Docs == INSTANCE DocumentStore
          WITH cells <- StoredCells, Keys <- {KeyOf(d) : d \in Documents}

ASSUME DocumentAssumption == Docs!DocumentAssumption

(* A document has its key and all its arrays, at the root of its schema;   *)
(* and documents of one key have one source.                               *)
DocumentsAreWhole ==
  /\ \A d \in Sent :
       /\ IsWhole(Renderings[d], Models[d.schema], TableName, KeyOf(d), CellsOf(d))
       /\ KeyOf(d) # Nil
  /\ \A d, e \in Sent :
       d.schema = e.schema /\ KeyOf(d) = KeyOf(e) =>
         Renderings[d].row.vals[Header] = Renderings[e].row.vals[Header]

-----------------------------------------------------------------------------
(* Properties.                                                             *)

TypeOK ==
  /\ last.op \in {"none", "insert", "upsert"}
  /\ \A r \in rows : \E t \in ToSet(Models[schema].tables) :
       /\ r.table = t.name
       /\ Len(r.at) = Len(t.keyCols)
       /\ DOMAIN r.vals \subseteq ToSet(t.columns) \cup {Header}

(* The statements of a document store exactly its cells: each leaf in the  *)
(* row and column of its path, each array item in its row, nothing left    *)
(* from the document that was there, nothing of another one touched; and   *)
(* they come in an order no key or foreign key forbids, so that a document *)
(* can always be upserted, and inserted under a new key (dml.go:11-30,     *)
(* 85-88, 166-169; spec.go:128-130).                                       *)
ImplementsStore == Docs!Spec

(* The DDL of a plan can be executed in its order: no table, view or       *)
(* column comes twice, each refers to what is already there (ddl.go:10-12, *)
(* 46-48, 72-79).                                                          *)
Installable == Installs(Ddl(Models[schema], <<Header>>))

(* An upsert of a document under a key that holds another leaves exactly   *)
(* the new one: "each document replaces the previous rows sharing the same *)
(* pk value, including its child rows" (spec.go:128-130).                  *)
Replaced ==
  [][/\ last'.op = "upsert" /\ last'.ok
     /\ \E r \in rows : r.at = <<KeyOf(last'.doc)>> /\ last.doc # last'.doc
     => {c \in StoredCells' : KeyIn(c) = KeyOf(last'.doc)} = CellsOf(last'.doc)]_vars
=============================================================================
