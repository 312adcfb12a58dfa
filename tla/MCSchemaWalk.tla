---------------------------- MODULE MCSchemaWalk ----------------------------
(* SchemaWalk for TLC: every schema of a root with two properties and one  *)
(* variant at most, a definition with one of each, and a scalar.           *)
EXTENDS SchemaWalk

CONSTANTS a, b, c, p, q

SmallSeq(S) == {<<>>} \cup {<<x>> : x \in S}

PropsOf(key) == [kind : Kinds, key : {key}, node : {a, b, c}]

NodesOf(props) == [variants : SmallSeq({a, b, c}), props : props]

SmallGraphs ==
  {(a :> x) @@ (b :> y) @@ (c :> [variants |-> <<>>, props |-> <<>>]) :
     x \in NodesOf({<<>>} \cup {<<s>> : s \in PropsOf(p)}
                     \cup {<<s, t>> : s \in PropsOf(p), t \in PropsOf(q)}),
     y \in NodesOf(SmallSeq(PropsOf(p)))}
=============================================================================
