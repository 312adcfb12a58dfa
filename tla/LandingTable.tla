---------------------------- MODULE LandingTable ----------------------------
(***************************************************************************)
(* The flat landing mode (internal/landing): one table for a schema, with  *)
(* a column for every leaf below the root; arrays and untypable objects    *)
(* are columns too, of JSON text.  One statement stores a document.        *)
(*                                                                         *)
(* Nodes, names and payloads are those of NormalizedPlan and               *)
(* NormalizedDml.                                                          *)
(*                                                                         *)
(* Operators here recurse over schemas; TLC only.                          *)
(***************************************************************************)
EXTENDS NormalizedDml

(* A name that is taken is not added again.                                *)
AddColumn(cols, name) == IF name \in ToSet(cols) THEN cols ELSE Append(cols, name)

(* All variants are walked: a table has one shape of row.                  *)
RECURSIVE WalkSchema(_, _, _)
WalkSchema(cols, prefix, node) ==
  LET variant(cs, v) == WalkSchema(cs, prefix, v)
      property(cs, p) ==
        IF p.node.kind = "object" /\ ~Untypable(p.node)
          THEN WalkSchema(cs, prefix \o p.key, p.node)
          ELSE AddColumn(cs, prefix \o p.key)
  IN FoldLeft(property, FoldLeft(variant, cols, Variants(node)), Props(node))

LandingColumns(schema) == WalkSchema(<<Header>>, <<>>, schema)

(* renderValues: the values by column, NULL where the payload has none.    *)
RenderValues(schema, doc) ==
  LET values == CollectValues(<<>>, schema, doc.data) @@ [c \in {Header} |-> Leaf(doc.header)]
  IN [c \in ToSet(LandingColumns(schema)) |->
        IF c \in DOMAIN values THEN values[c] ELSE Nil]
=============================================================================
