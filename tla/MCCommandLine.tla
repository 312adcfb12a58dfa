---------------------------- MODULE MCCommandLine ---------------------------
(* CommandLine for TLC.                                                    *)
EXTENDS CommandLine, LandingTable, MCDocuments

Doc(s, header, payload) == [schema |-> s, header |-> header, data |-> Record(payload)]

Prior(k, note) == (Id :> Leaf(k)) @@ (<<"note">> :> Leaf(note))

(* A root column and an array; with arrays deeper down; without arrays and *)
(* with another column.                                                    *)
Noted == <<Prop(Id, Scalar), Prop(<<"note">>, Scalar)>>

Tagged == Object(<<>>, Append(Noted, Prop(<<"tags">>, Array(Scalar))))

Deep ==
  Object(<<>>, Append(Noted,
    Prop(<<"to">>, Object(<<>>, <<Prop(<<"tags">>,
      Array(Object(<<>>, <<Prop(<<"tags">>, Array(Scalar))>>)))>>))))

Bare == Object(<<>>, Append(Noted, Prop(<<"state">>, Scalar)))

Payload(k, note, tags) == Prior(k, note) @@ (<<"tags">> :> List(tags))

TaggedDoc(k, note, tags) == Doc(Tagged, "h", Payload(k, note, tags))

(* One key again and again, with arrays that grow and shrink, or another   *)
(* key in between; a document without a key.                               *)
ModelDirectories ==
  LET long == TaggedDoc("k1", "x", <<Leaf("x"), Leaf("y")>>)
      short == TaggedDoc("k1", "y", <<Leaf("y")>>)
      other == TaggedDoc("k2", "x", <<>>)
      bare == Doc(Bare, "h", Prior("k1", "x") @@ (<<"state">> :> Leaf("y")))
  IN {<<long>>, <<short, long>>, <<other, short>>,
      <<bare>>, <<bare, Doc(Bare, "h", <<"note">> :> Leaf("x"))>>}

(* Two sources, values that come and go, variants, and properties that may *)
(* hold anything.                                                          *)
Anything ==
  Object(<<>>, <<Prop(Id, Scalar), Prop(<<"extra">>, Object(<<>>, <<>>)),
                 Prop(<<"misc">>, Array(NoItems)), Prop(<<"note">>, Untyped)>>)

LandingDirectories ==
  LET full(source) == Doc(Tagged, source, Payload("k1", "x", <<Leaf("x")>>))
      key == Doc(Tagged, "h", Id :> Leaf("k1"))
      phone == Doc(Variants2, "g", (Id :> Leaf("k1")) @@ (<<"phone">> :> Leaf("x")))
      rate == Doc(Variants2, "g", (Id :> Leaf("k1")) @@ (<<"rate">> :> Leaf("x")))
      extra == Doc(Anything, "g", (Id :> Leaf("k1"))
                 @@ (<<"extra">> :> Record(<<"a">> :> Leaf("x"))) @@ (<<"misc">> :> List(<<>>)))
  IN {<<full("g")>>, <<full("h")>>, <<full("h"), key>>,
      <<phone, rate>>, <<phone>>, <<extra>>, <<Doc(Anything, "h", Prior("k2", "x")), extra>>}

TheDirectories == [m \in BOOLEAN |-> IF m THEN ModelDirectories ELSE LandingDirectories]

TheSchemas ==
  [m \in BOOLEAN |-> IF m THEN {Tagged, Bare, Deep} ELSE {Tagged, Variants2, Anything}]

-----------------------------------------------------------------------------
(* What the planner and the renderers compute, each once.                  *)

ThePlan(s) == Plan(s, Root, Id)

TheModels ==
  [s \in TheSchemas[TRUE] |->
     [fails |-> PlanFails(s, Root, Id), root |-> ThePlan(s), tables |-> TableOrder(ThePlan(s))]]

AllDocuments(m) == UNION {ToSet(f) : f \in TheDirectories[m]}

TheRenderings == [d \in AllDocuments(TRUE) |-> Rendering(ThePlan(d.schema), d)]

TheColumns == [s \in TheSchemas[FALSE] |-> LandingColumns(s)]

TheValues == [d \in AllDocuments(FALSE) |-> RenderValues(d.schema, d)]

TheKeyOf(d) == DocumentKey(d, Id)

TheCells ==
  [m \in BOOLEAN |-> [d \in AllDocuments(m) |->
     IF m THEN DocumentCells(d, Root, Id) ELSE LandingCells(d, Root, Id)]]

TheCellsOf(m, d) == TheCells[m][d]

ASSUME SchemasAssumption == NamesApart /\ SchemasInstall

ASSUME DocumentsAssumption == DocumentsAreWhole
=============================================================================
