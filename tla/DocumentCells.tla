--------------------------- MODULE DocumentCells ----------------------------
(***************************************************************************)
(* What a document means, defined from the schema and the payload alone,   *)
(* without the planner and the DML: in a normalized model, where each      *)
(* array item has its row and each leaf its column, a row being itself a   *)
(* cell without a column; in a landing table, where each leaf has its      *)
(* column.                                                                 *)
(*                                                                         *)
(* Operators here recurse over schemas and payloads; TLC only.             *)
(***************************************************************************)
EXTENDS NormalizedDml

RECURSIVE Leaves(_, _, _, _, _)
Leaves(node, data, table, at, prefix) ==
  LET branch(v) == Leaves(v, data, table, at, prefix)
      item(name, items, list, i) ==
        {RowCell(name, Append(at, i))} \cup
          (IF items.kind = "object" THEN Leaves(items, list[i], name, Append(at, i), <<>>)
           ELSE IF list[i] = Nil THEN {}
           ELSE {Cell(name, Append(at, i), Value, list[i])})
      property(p) ==
        LET name == prefix \o p.key
            child == GetChild(data, p.key)
        IN CASE child = Nil -> {}
             [] p.node.kind = "object" /\ child # Nil -> Leaves(p.node, child, table, at, name)
             [] p.node.kind \in {"scalar", "untyped"} /\ child # Nil -> {Cell(table, at, name, child)}
             [] p.node.kind = "array" /\ child # Nil ->
                  UNION {item(table \o name, p.node.items, child.items, i) :
                           i \in DOMAIN child.items}
  IN (UNION {branch(v) : v \in ToSet(Variants(node))})
       \cup (UNION {property(p) : p \in ToSet(Props(node))})

DocumentKey(doc, pk) == GetChild(doc.data, pk)

DocumentCells(doc, tableName, pk) ==
  LET at == <<DocumentKey(doc, pk)>>
  IN {RowCell(tableName, at), Cell(tableName, at, Header, Leaf(doc.header))}
       \cup Leaves(doc.schema, doc.data, tableName, at, <<>>)

(* In a landing table an array or untypable object is a leaf.              *)
RECURSIVE Fields(_, _, _, _, _)
Fields(node, data, table, at, prefix) ==
  LET property(p) ==
        LET name == prefix \o p.key
            child == GetChild(data, p.key)
        IN IF child = Nil THEN {}
           ELSE IF p.node.kind = "object" /\ ~Untypable(p.node)
                  THEN Fields(p.node, child, table, at, name)
                  ELSE {Cell(table, at, name, child)}
  IN (UNION {Fields(v, data, table, at, prefix) : v \in ToSet(Variants(node))})
       \cup (UNION {property(p) : p \in ToSet(Props(node))})

LandingCells(doc, tableName, pk) ==
  LET at == <<DocumentKey(doc, pk)>>
  IN {Cell(tableName, at, Header, Leaf(doc.header))}
       \cup Fields(doc.schema, doc.data, tableName, at, <<>>)
=============================================================================
