----------------------------- MODULE SchemaWalk -----------------------------
(***************************************************************************)
(* The walks over a schema whose $refs may form cycles: planNode and       *)
(* planChildTable of the normalized planner, and walkSchema of the landing *)
(* mode, which CollectValues follows step by step.                         *)
(*                                                                         *)
(* A schema is a graph of nodes, the pointers of the program once $refs    *)
(* are resolved.  A node has variants (allOf, oneOf and anyOf branches)    *)
(* and properties in the order of their keys; one without either is a      *)
(* scalar.  Each step of the recursion is a step here; its stack is a      *)
(* sequence of frames                                                      *)
(*   node     the node being walked                                        *)
(*   nest     the number of the table it is walked for, among those that   *)
(*            are being planned                                            *)
(*   table    the name of that table: its arrays from the root             *)
(*   prefix   the keys from the table's row to the node                    *)
(*   todo     the edges still to follow                                    *)
(***************************************************************************)
EXTENDS Naturals, FiniteSets, Sequences, SequencesExt

CONSTANTS
  Nodes, Root,
  Keys,       \* the keys of properties
  Graphs,     \* the schemas: functions from Nodes to [variants, props]
  MaxDepth    \* bound: calls under way, where the program runs out of stack

Kinds == {"one", "array"}

ASSUME WalkAssumption ==
  /\ IsFiniteSet(Nodes) /\ Root \in Nodes
  /\ MaxDepth \in Nat
  /\ Graphs \subseteq [Nodes -> [variants : Seq(Nodes),
                                 props : Seq([kind : Kinds, key : Keys, node : Nodes])]]

VARIABLES
  graph,     \* the schema
  flat,      \* a landing table, without child tables
  stack,     \* the calls under way
  visited,   \* the cycle guard of each table being planned
  columns,   \* the columns planned: records [table, path]
  tables     \* the child tables planned

vars == <<graph, flat, stack, visited, columns, tables>>

EdgeType ==
  [kind : {"variant"}, node : Nodes] \cup [kind : Kinds, key : Keys, node : Nodes]

FrameType ==
  [node : Nodes, nest : Nat \ {0}, table : Seq(Seq(Keys)), prefix : Seq(Keys),
   todo : Seq(EdgeType)]

(* The edges of a node in the order in which they are followed.            *)
Edges(n) ==
  [i \in DOMAIN graph[n].variants |->
     [kind |-> "variant", node |-> graph[n].variants[i]]] \o graph[n].props

Scalar(n) == graph[n].variants = <<>> /\ graph[n].props = <<>>

Frame(n, nest, table, prefix) ==
  [node |-> n, nest |-> nest, table |-> table, prefix |-> prefix, todo |-> Edges(n)]

Init ==
  /\ graph \in Graphs
  /\ flat \in BOOLEAN
  /\ stack = <<Frame(Root, 1, <<>>, <<>>)>>
  /\ visited = <<{Root}>>
  /\ columns = {} /\ tables = {}

-----------------------------------------------------------------------------
(* The call under way, the edge it is at, and the stack past this edge.    *)
Top == stack[Len(stack)]

Edge == Top.todo[1]

At(kinds) == stack # <<>> /\ Top.todo # <<>> /\ Edge.kind \in kinds

Past == [stack EXCEPT ![Len(stack)].todo = Tail(@)]

(* Mutation: the key is forgotten.                                         *)
PathShort == Top.prefix

Path == Append(Top.prefix, Edge.key)

(* An object is flattened, a variant joined: planNode calls itself.        *)
Flattened == At({"variant"}) \/ (At({"one"}) /\ ~Scalar(Edge.node))

(* Mutation: the cycle guard is not asked.                                 *)
VisitedNever == FALSE

Visited == Edge.node \in visited[Len(visited)]

Enter ==
  /\ Flattened /\ ~Visited
  /\ Len(stack) < MaxDepth
  /\ stack' = Append(Past, Frame(Edge.node, Top.nest, Top.table,
                                 IF Edge.kind = "variant" THEN Top.prefix ELSE Path))
  /\ visited' = [visited EXCEPT ![Len(visited)] = @ \cup {Edge.node}]
  /\ UNCHANGED <<graph, flat, columns, tables>>

(* A node that is visited already is passed over in silence.               *)
Cut ==
  /\ Flattened /\ Visited
  /\ stack' = Past
  /\ UNCHANGED <<graph, flat, visited, columns, tables>>

(* A scalar is a column; so is an array in a landing table.                *)
AddColumn ==
  /\ (At({"one"}) /\ Scalar(Edge.node)) \/ (At({"array"}) /\ flat)
  /\ stack' = Past
  /\ columns' = columns \cup {[table |-> Top.table, path |-> Path]}
  /\ UNCHANGED <<graph, flat, visited, tables>>

(* Mutation: the name of a child table is made of the last key only.       *)
ChildShort == Append(Top.table, <<Edge.key>>)

Child == Append(Top.table, Path)

(* The array is registered already, through another variant.               *)
KnownArray ==
  /\ At({"array"}) /\ ~flat /\ Child \in tables
  /\ stack' = Past
  /\ UNCHANGED <<graph, flat, visited, columns, tables>>

(* Items that are scalars have one column, value.                          *)
ArrayOfScalars ==
  /\ At({"array"}) /\ ~flat /\ Child \notin tables /\ Scalar(Edge.node)
  /\ stack' = Past
  /\ tables' = tables \cup {Child}
  /\ columns' = columns \cup {[table |-> Child, path |-> <<>>]}
  /\ UNCHANGED <<graph, flat, visited>>

(* The items of an array are planned with a cycle guard of their own.      *)
PlanChildTable ==
  /\ At({"array"}) /\ ~flat /\ Child \notin tables /\ ~Scalar(Edge.node)
  /\ Len(stack) < MaxDepth
  /\ stack' = Append(Past, Frame(Edge.node, Top.nest + 1, Child, <<>>))
  /\ visited' = Append(visited, {Edge.node})
  /\ UNCHANGED <<graph, flat, columns, tables>>

(* Does this return end the planning of a table?                           *)
EndsTable == Len(stack) = 1 \/ stack[Len(stack) - 1].nest # Top.nest

(* Mutation: the node stays visited.                                       *)
LeaveVisited == IF EndsTable THEN Front(visited) ELSE visited

(* The deferred delete; the guard of a table goes with the table.          *)
Leave ==
  IF EndsTable THEN Front(visited)
  ELSE [visited EXCEPT ![Len(visited)] = @ \ {Top.node}]

(* A child table is registered once it is planned.                         *)
Return ==
  /\ stack # <<>> /\ Top.todo = <<>>
  /\ stack' = Front(stack)
  /\ visited' = Leave
  /\ tables' = IF EndsTable /\ Len(stack) > 1 THEN tables \cup {Top.table} ELSE tables
  /\ UNCHANGED <<graph, flat, columns>>

Next ==
  \/ Enter \/ Cut \/ AddColumn
  \/ KnownArray \/ ArrayOfScalars \/ PlanChildTable
  \/ Return

Spec == Init /\ [][Next]_vars

(* The planner computes as long as it can.                                 *)
FairSpec == Spec /\ WF_vars(Next)

Done == stack = <<>>

-----------------------------------------------------------------------------
(* What there is to plan: the places the rows of tables have values, by    *)
(* the way that leads there.  A way repeats no node between two arrays.    *)

Place(n, table, prefix, seen) ==
  [node |-> n, table |-> table, prefix |-> prefix, seen |-> seen]

EdgesAt(n) == {Edges(n)[i] : i \in DOMAIN Edges(n)}

Beyond(p, e) ==
  CASE Scalar(e.node) -> {}
    [] ~Scalar(e.node) /\ e.kind = "array" ->
         IF flat THEN {} ELSE {Place(e.node, Append(p.table, Append(p.prefix, e.key)), <<>>, {e.node})}
    [] ~Scalar(e.node) /\ e.kind # "array" ->
         IF e.node \in p.seen THEN {}
         ELSE {Place(e.node, p.table,
                     IF e.kind = "variant" THEN p.prefix ELSE Append(p.prefix, e.key),
                     p.seen \cup {e.node})}

PlacesAfter[n \in Nat] ==
  IF n = 0 THEN {Place(Root, <<>>, <<>>, {Root})}
  ELSE UNION {UNION {Beyond(p, e) : e \in EdgesAt(p.node)} : p \in PlacesAfter[n - 1]}

Places == UNION {PlacesAfter[n] : n \in 0..MaxDepth}

ColumnsAt(p) ==
  LET leaf(e) ==
        CASE e.kind = "one" /\ Scalar(e.node) ->
               {[table |-> p.table, path |-> Append(p.prefix, e.key)]}
          [] e.kind = "array" /\ flat ->
               {[table |-> p.table, path |-> Append(p.prefix, e.key)]}
          [] e.kind = "array" /\ ~flat /\ Scalar(e.node) ->
               {[table |-> Append(p.table, Append(p.prefix, e.key)), path |-> <<>>]}
          [] OTHER -> {}
  IN UNION {leaf(e) : e \in EdgesAt(p.node)}

(* The arrays there are, with their items.                                 *)
Arrays ==
  UNION {{<<Append(p.table, Append(p.prefix, e.key)), e.node>> :
            e \in {x \in EdgesAt(p.node) : x.kind = "array"}} : p \in Places}

(* No array leads to where it comes from.                                  *)
ArraysEnd == flat \/ PlacesAfter[MaxDepth] = {}

-----------------------------------------------------------------------------
(* Properties.                                                             *)

TypeOK ==
  /\ graph \in Graphs /\ flat \in BOOLEAN
  /\ stack \in Seq(FrameType)
  /\ visited \in Seq(SUBSET Nodes)
  /\ columns \subseteq [table : Seq(Seq(Keys)), path : Seq(Keys)]
  /\ tables \subseteq Seq(Seq(Keys))
  /\ \A x \in columns : x.path = <<>> => x.table \in tables

(* The cycle guard of a table is exactly the nodes on the way from its row *)
(* to the node being walked, each there once: nothing is cut that is only  *)
(* shared, and no cycle is followed but through an array                   *)
(* (model.go:233-247, landing/table.go:70-87, values.go:25-29).            *)
GuardIsPath ==
  /\ \A k \in DOMAIN visited :
       visited[k] = {n \in Nodes : \E i \in DOMAIN stack : stack[i].nest = k /\ stack[i].node = n}
  /\ \A i, j \in DOMAIN stack :
       i # j /\ stack[i].nest = stack[j].nest => stack[i].node # stack[j].node

(* The walk of a landing table never has more calls under way than the     *)
(* schema has nodes, however they refer to each other                      *)
(* (landing/table.go:68-87).                                               *)
LandingBounded == flat => Len(stack) <= Cardinality(Nodes)

(* Planning ends when no array leads back to itself; a landing table is    *)
(* always planned (model.go:231-234, 339).                                 *)
Ends == <>(ArraysEnd => Done)

(* A plan that ends has every column there is and no other, whatever is    *)
(* shared or cyclic: no variant, and no second use of a definition, is     *)
(* left out, unless two arrays with different items have one name          *)
(* (model.go:16-29, 313-319).                                              *)
PlansEverything ==
  Done =>
    LET all == UNION {ColumnsAt(p) : p \in Places}
    IN /\ columns \subseteq all
       /\ (\A a, b \in Arrays : a[1] = b[1] => a = b) => columns = all
=============================================================================
