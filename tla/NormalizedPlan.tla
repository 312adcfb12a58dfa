--------------------------- MODULE NormalizedPlan ---------------------------
(***************************************************************************)
(* Plan: from a JSON Schema to the typed tables of a normalized model      *)
(* (internal/normalized/model.go).                                         *)
(*                                                                         *)
(* A schema is a tree with its $refs followed.  A node is                  *)
(*   Scalar                      a leaf                                    *)
(*   Untyped                     {}: no type, no properties                *)
(*   Object(variants, props)     variants: its allOf, oneOf and anyOf      *)
(*                               branches in this order; props: records    *)
(*                               [key, node] in the order of their keys    *)
(*   Array(items)                NoItems: no items definition              *)
(* A name is the sequence of its words: ToSnake splits "postalCode" and    *)
(* "postal_code" alike into <<"postal", "code">>, and joining two names by *)
(* an underscore is \o.  So different paths can have one name, as in the   *)
(* code.  Names here are short, and IdentName leaves short ones alone.     *)
(*                                                                         *)
(* Operators here recurse over schemas; TLC only.                          *)
(***************************************************************************)
EXTENDS Statements

Scalar == [kind |-> "scalar"]
Untyped == [kind |-> "untyped"]
Object(variants, props) == [kind |-> "object", variants |-> variants, props |-> props]
Array(items) == [kind |-> "array", items |-> items]
NoItems == [kind |-> "none"]
Prop(key, node) == [key |-> key, node |-> node]

Value == <<"value">>

Variants(node) == IF node.kind = "object" THEN node.variants ELSE <<>>
Props(node) == IF node.kind = "object" THEN node.props ELSE <<>>

-----------------------------------------------------------------------------
(* Phase 1: columns and child tables.                                      *)

Blank(name, path, schema) ==
  [name |-> name, columns |-> <<>>, path |-> path, schema |-> schema,
   arrays |-> <<>>, failed |-> FALSE]

Failed(tbl) == [tbl EXCEPT !.failed = TRUE]

(* A name that is taken is not added again.                                *)
AddModelColumn(tbl, name) ==
  IF name \in ToSet(tbl.columns) THEN tbl ELSE [tbl EXCEPT !.columns = Append(@, name)]

RECURSIVE PlanNode(_, _, _)

(* The path of a child extends the path of its parent by the last key.     *)
(* Items that are neither scalars nor objects get no column.               *)
PlanChildTable(parent, prefix, key, items) ==
  LET blank == Blank(parent.name \o prefix, Append(parent.path, key), items)
      child == IF items.kind = "scalar" THEN AddModelColumn(blank, Value)
                                        ELSE PlanNode(blank, <<>>, items)
  IN IF items = NoItems THEN Failed(parent)
     ELSE IF \E t \in ToSet(parent.arrays) : t.name = blank.name THEN parent
     ELSE [parent EXCEPT !.arrays = Append(@, child), !.failed = @ \/ child.failed]

(* An object without properties and variants has no type.                  *)
Untypable(node) == node.kind = "object" /\ node.variants = <<>> /\ node.props = <<>>

PlanProperty(tbl, prefix, p) ==
  CASE p.node.kind = "array" -> PlanChildTable(tbl, prefix \o p.key, p.key, p.node.items)
    [] Untypable(p.node) -> Failed(tbl)
    [] p.node.kind = "object" /\ ~Untypable(p.node) -> PlanNode(tbl, prefix \o p.key, p.node)
    [] p.node.kind \in {"scalar", "untyped"} -> AddModelColumn(tbl, prefix \o p.key)

PlanNode(tbl, prefix, node) ==
  FoldLeft(LAMBDA t, p : PlanProperty(t, prefix, p),
           FoldLeft(LAMBDA t, v : PlanNode(t, prefix, v), tbl, Variants(node)),
           Props(node))

-----------------------------------------------------------------------------
(* Phase 2: keys.  A child's key is its parent's, each column under the    *)
(* parent's name, and row_no; payload columns of these names are dropped.  *)

ChildFkCols(parent) == [i \in DOMAIN parent.keyCols |-> parent.name \o parent.keyCols[i]]

(* Mutation: the key of a child is that of its parent alone.               *)
KeyColsParent(fkCols) == fkCols

KeyCols(fkCols) == Append(fkCols, RowNo)

RECURSIVE Keyed(_, _)
Keyed(t, parent) ==
  LET fkCols == ChildFkCols(parent)
      keyCols == KeyCols(fkCols)
      table == [name |-> t.name, path |-> t.path, schema |-> t.schema,
                parent |-> parent.name, fkCols |-> fkCols, keyCols |-> keyCols,
                columns |-> SelectSeq(t.columns, LAMBDA c : c \notin ToSet(keyCols))]
  IN [arrays |-> [i \in DOMAIN t.arrays |-> Keyed(t.arrays[i], table)]] @@ table

(* Plan fails when the schema does or the pk is not among the columns.     *)
PlanFails(schema, tableName, pk) ==
  LET t == PlanNode(Blank(tableName, <<>>, schema), <<>>, schema)
  IN t.failed \/ pk \notin ToSet(t.columns)

Plan(schema, tableName, pk) ==
  LET t == PlanNode(Blank(tableName, <<>>, schema), <<>>, schema)
      root == [name |-> t.name, path |-> <<>>, schema |-> schema, parent |-> <<>>,
               fkCols |-> <<>>, keyCols |-> <<pk>>, columns |-> t.columns]
  IN [arrays |-> [i \in DOMAIN t.arrays |-> Keyed(t.arrays[i], root)]] @@ root

(* Every table below t, parents first.                                     *)
RECURSIVE TableOrder(_)
TableOrder(t) == <<t>> \o FlattenSeq([i \in DOMAIN t.arrays |-> TableOrder(t.arrays[i])])

(* What Plan returns.                                                      *)
Model(root) == [root |-> root, tables |-> TableOrder(root)]
=============================================================================
