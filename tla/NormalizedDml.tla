---------------------------- MODULE NormalizedDml ---------------------------
(***************************************************************************)
(* The DML of a normalized model (internal/normalized/dml.go and           *)
(* schema.CollectValues): what the statements of a document are rendered   *)
(* from, given the planned root table.                                     *)
(*                                                                         *)
(* A payload is Nil (absent or null), a Leaf, a Record of payloads by key, *)
(* or a List of payloads.  A document is a record [schema, header, data];  *)
(* the model has one header column.                                        *)
(*                                                                         *)
(* Operators here recurse over schemas and payloads; TLC only.             *)
(***************************************************************************)
EXTENDS NormalizedPlan

Record(at) == [type |-> "record", at |-> at]
List(items) == [type |-> "list", items |-> items]

-----------------------------------------------------------------------------
(* Reading a payload.                                                      *)

GetChild(data, key) ==
  IF data.type = "record" /\ key \in DOMAIN data.at THEN data.at[key] ELSE Nil

NavigatePath(data, path) == FoldLeft(GetChild, data, path)

(* CollectValues: every leaf below node, by column name; of two leaves     *)
(* with one name the later wins.  An array or untypable object is a value  *)
(* too, its JSON text.                                                     *)
RECURSIVE CollectValues(_, _, _)
CollectValues(prefix, node, data) ==
  LET variant(out, v) == CollectValues(prefix, v, data) @@ out
      property(out, p) ==
        LET name == prefix \o p.key
            child == GetChild(data, p.key)
        IN IF p.node.kind = "object" /\ ~Untypable(p.node)
             THEN CollectValues(name, p.node, child) @@ out
             ELSE [c \in {name} |-> child] @@ out
  IN FoldLeft(property, FoldLeft(variant, <<>>, Variants(node)), Props(node))

(* The planned columns of t that are not NULL.                             *)
RowVals(t, values) ==
  LET set == {c \in ToSet(t.columns) \cap DOMAIN values : values[c] # Nil}
  IN [c \in set |-> values[c]]

-----------------------------------------------------------------------------
(* Rows and statements.                                                    *)

Row(t, at, vals) == [table |-> t.name, parent |-> t.parent, at |-> at, vals |-> vals]

ItemVals(t, item) ==
  IF t.schema.kind = "scalar" THEN RowVals(t, [c \in {Value} |-> item])
                              ELSE RowVals(t, CollectValues(<<>>, t.schema, item))

(* walk of renderChildren: parents before children.                        *)
RECURSIVE RenderChildren(_, _, _)
RenderChildren(t, subject, at) ==
  LET item(child, i, data) ==
        <<[op |-> "insert", row |-> Row(child, Append(at, i), ItemVals(child, data))]>>
          \o RenderChildren(child, data, Append(at, i))
      array(child) ==
        LET arr == NavigatePath(subject, child.path)
        IN CASE arr.type = "nil" -> <<>>
             [] arr.type = "list" ->
                  FlattenSeq([i \in DOMAIN arr.items |-> item(child, i, arr.items[i])])
             [] OTHER -> <<Bad>>
  IN FlattenSeq([c \in DOMAIN t.arrays |-> array(t.arrays[c])])

(* walk of collectDeletes: descendants before the rows they belong to.     *)
RECURSIVE CollectDeletes(_, _, _)
CollectDeletes(t, subject, at) ==
  LET array(child) ==
        LET arr == NavigatePath(subject, child.path)
            below(i) == CollectDeletes(child, arr.items[i], Append(at, i))
        IN CASE arr.type = "nil" -> <<>>
             [] arr.type = "list" ->
                  Append(FlattenSeq([i \in DOMAIN arr.items |-> below(i)]),
                         [op |-> "delete", table |-> child.name, at |-> at])
             [] OTHER -> <<Bad>>
  IN FlattenSeq([c \in DOMAIN t.arrays |-> array(t.arrays[c])])

RootVals(root, doc) == CollectValues(<<>>, root.schema, doc.data)

RootKey(root, doc) == RootVals(root, doc)[root.keyCols[1]]

RootRow(root, doc) ==
  Row(root, <<RootKey(root, doc)>>,
      RowVals(root, RootVals(root, doc)) @@ [c \in {Header} |-> Leaf(doc.header)])

(* What insert() makes of a document: the value of its primary key, the    *)
(* root row, the statements for its children and for the deletion of what  *)
(* they replace, and whether there is something to update besides the key. *)
Rendering(root, doc) ==
  LET key == RootKey(root, doc)
  IN [key |-> key, row |-> RootRow(root, doc),
      children |-> RenderChildren(root, doc.data, <<key>>),
      deletes |-> CollectDeletes(root, doc.data, <<key>>),
      updates |-> ToSet(root.columns) # ToSet(root.keyCols)]
=============================================================================
