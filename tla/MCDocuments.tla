----------------------------- MODULE MCDocuments ----------------------------
(* Schemas for TLC, and the documents that match them.                     *)
EXTENDS DocumentCells

Id == <<"id">>
Root == <<"orders">>

Lists(S) == {List(s) : s \in {<<>>} \cup {<<x>> : x \in S} \cup {<<x, y>> : x, y \in S}}

Docs2(s, headers, payloads) ==
  {[schema |-> s, header |-> h, data |-> Record(p)] : h \in headers, p \in payloads}

Ids == {Leaf("k1"), Leaf("k2")}

-----------------------------------------------------------------------------
(* An array of scalars and a nested object with two levels.                *)
Flat ==
  Object(<<>>, <<Prop(Id, Scalar),
                 Prop(<<"tags">>, Array(Scalar)),
                 Prop(<<"to">>, Object(<<>>, <<Prop(<<"city">>, Scalar),
                    Prop(<<"geo">>, Object(<<>>, <<Prop(<<"lat">>, Scalar)>>))>>))>>)

To == {Record(<<"city">> :> Leaf("x")), Record(<<"geo">> :> Record(<<"lat">> :> Leaf("x")))}

Tags == {List(<<>>), List(<<Leaf("x")>>), List(<<Nil, Leaf("y")>>)}

FlatPayloads ==
  {(Id :> k) @@ (<<"tags">> :> t) @@ (<<"to">> :> o) :
     k \in Ids, t \in Tags, o \in To}

(* Two variants with a field and an array in common; the items repeat the  *)
(* name of a root column.                                                  *)
Lines == Array(Object(<<>>, <<Prop(Id, Scalar),
                              Prop(<<"unit">>, Object(<<>>, <<Prop(<<"price">>, Scalar)>>))>>))

Variant(own) == Object(<<>>, <<Prop(Id, Scalar), Prop(<<"lines">>, Lines), Prop(own, Scalar)>>)

Variants2 == Object(<<Variant(<<"phone">>), Variant(<<"rate">>)>>, <<>>)

LineData == {Record(Id :> Leaf("x")),
             Record((Id :> Leaf("y")) @@ (<<"unit">> :> Record(<<"price">> :> Leaf("x"))))}

VariantPayloads ==
  {(Id :> k) @@ (<<"lines">> :> l) @@ (own :> Leaf("x")) :
     k \in Ids, l \in {List(<<>>)} \cup {List(<<x, y>>) : x, y \in LineData},
     own \in {<<"phone">>}}
  \cup {(Id :> k) @@ (<<"lines">> :> List(<<>>)) @@ (<<"rate">> :> Leaf("x")) : k \in Ids}

(* Two arrays at the root.                                                 *)
TwoArrays ==
  Object(<<>>, <<Prop(Id, Scalar), Prop(<<"lines">>, Lines), Prop(<<"note">>, Scalar),
                 Prop(<<"tags">>, Array(Scalar))>>)

TwoArraysPayloads ==
  {(Id :> k) @@ (<<"lines">> :> l) @@ (<<"tags">> :> t) :
     k \in Ids, l \in {List(<<>>), List(<<Record(Id :> Leaf("x"))>>)},
     t \in {List(<<>>), List(<<Leaf("x")>>)}}

-----------------------------------------------------------------------------
(* Objects with one or two properties whose nodes are in S.                *)
Objects(S) ==
  {Object(<<>>, <<Prop(<<"a">>, x)>>) : x \in S}
    \cup {Object(<<>>, <<Prop(<<"a">>, x), Prop(<<"b">>, y)>>) : x, y \in S}

Small == {Scalar, Array(Scalar)}

(* Every root object with one or two properties besides its key, each a    *)
(* leaf, an array of leaves, an object of such, or an array of such        *)
(* objects.                                                                *)
Roots ==
  {Object(<<>>, Append(o.props, Prop(Id, Scalar))) :
     o \in Objects(Small \cup Objects(Small) \cup {Array(o) : o \in Objects(Small)})}

RECURSIVE ArrayKeys(_)
ArrayKeys(node) ==
  FlattenSeq([i \in DOMAIN Props(node) |->
    CASE Props(node)[i].node.kind = "array" -> <<Props(node)[i].key>>
      [] Props(node)[i].node.kind = "object" -> ArrayKeys(Props(node)[i].node)
      [] OTHER -> <<>>])

Distinct(seq) == Cardinality(ToSet(seq)) = Len(seq)

(* Of the roots, the ones with arrays at the root only and something to update *)
(* get two documents: one with everything there, one with empty arrays.    *)
Plain == {Scalar} \cup Objects({Scalar})

Rows == {Array(n) : n \in Plain}

Tame ==
  {s \in Roots : /\ \A p \in ToSet(s.props) : p.node \in Plain \cup Rows
                 /\ \E p \in ToSet(s.props) : p.key # Id /\ p.node \in Plain}

RECURSIVE Full(_, _)
Full(node, length) ==
  CASE node.kind = "scalar" -> Leaf("k1")
    [] node.kind = "array" -> List([i \in 1..length |-> Full(node.items, length)])
    [] node.kind = "object" ->
         Record([k \in {p.key : p \in ToSet(node.props)} |->
                   LET p == CHOOSE q \in ToSet(node.props) : q.key = k
                   IN Full(p.node, length)])

FullDocuments ==
  {[schema |-> s, header |-> "h", data |-> Full(s, n)] : s \in Tame, n \in {0, 2}}

WholeDocuments ==
  Docs2(Flat, {"h"}, FlatPayloads)
    \cup Docs2(Variants2, {"h"}, VariantPayloads)
    \cup Docs2(TwoArrays, {"h"}, TwoArraysPayloads)
    \cup FullDocuments

SchemasOf(documents) == {d.schema : d \in documents}

(* All the roots are planned and installed, but for those with one array   *)
(* key twice outside arrays: their views would have one name.              *)
WholeSchemas ==
  SchemasOf(WholeDocuments) \cup {s \in Roots : Distinct(ArrayKeys(s))}

-----------------------------------------------------------------------------
(* Two documents of one key: each lacks an array that the other has, and   *)
(* has its own source, an array in the items of an array, and an array     *)
(* whose items have no type.                                               *)
Mixed ==
  Object(<<>>, <<Prop(Id, Scalar),
                 Prop(<<"lines">>, Array(Object(<<>>, <<Prop(<<"sku">>, Scalar),
                                                        Prop(<<"tags">>, Array(Scalar))>>))),
                 Prop(<<"misc">>, Array(Untyped)), Prop(<<"note">>, Scalar),
                 Prop(<<"phones">>, Array(Scalar)), Prop(<<"tags">>, Array(Scalar))>>)

MixedPayload(own) ==
  (Id :> Leaf("k1")) @@ (own :> List(<<Leaf("x")>>)) @@ (<<"misc">> :> List(<<Leaf("y")>>))
    @@ (<<"lines">> :> List(<<Record(<<"tags">> :> List(<<Leaf("x")>>))>>))

ReplacedDocuments ==
  Docs2(Mixed, {"g"}, {MixedPayload(<<"tags">>)})
    \cup Docs2(Mixed, {"h"}, {MixedPayload(<<"phones">>)})

ReplacedSchemas == SchemasOf(ReplacedDocuments)
=============================================================================
