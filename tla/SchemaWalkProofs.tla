-------------------------- MODULE SchemaWalkProofs --------------------------
(***************************************************************************)
(* Proofs about SchemaWalk, for every set of schemas, however deep, shared *)
(* or cyclic, and for any bound on the calls under way.                    *)
(***************************************************************************)
EXTENDS SchemaWalk, SequenceTheorems, FiniteSetTheorems, WellFoundedInduction, TLAPS

(* The tables being planned are on the stack in the order in which their   *)
(* planning began, and each has its guard.                                 *)
Nested ==
  /\ stack = <<>> => visited = <<>>
  /\ stack # <<>> => stack[1].nest = 1 /\ Len(visited) = Top.nest
  /\ \A i \in DOMAIN stack : i + 1 \in DOMAIN stack =>
       stack[i + 1].nest \in {stack[i].nest, stack[i].nest + 1}
  /\ \A i, j \in DOMAIN stack : i <= j => stack[i].nest <= stack[j].nest

IInv == TypeOK /\ Nested /\ GuardIsPath

(* The edges of a node are edges.                                          *)
LEMMA EdgesType ==
  ASSUME graph \in Graphs, NEW n \in Nodes
  PROVE  Edges(n) \in Seq(EdgeType)
<1> DEFINE v == graph[n].variants
           e == [i \in DOMAIN v |-> [kind |-> "variant", node |-> v[i]]]
<1>1. /\ v \in Seq(Nodes)
      /\ graph[n].props \in Seq([kind : Kinds, key : Keys, node : Nodes])
  BY WalkAssumption
<1>2. e \in Seq(EdgeType)
  <2>1. Len(v) \in Nat /\ DOMAIN v = 1..Len(v) /\ \A i \in 1..Len(v) : v[i] \in Nodes
    BY <1>1, LenProperties, ElementOfSeq
  <2>2. \A i \in 1..Len(v) : [kind |-> "variant", node |-> v[i]] \in EdgeType
    BY <2>1 DEF EdgeType
  <2>3. [i \in 1..Len(v) |-> [kind |-> "variant", node |-> v[i]]] \in Seq(EdgeType)
    BY <2>1, <2>2, IsASeq
  <2> QED BY <2>1, <2>3
<1>3. graph[n].props \in Seq(EdgeType)
  <2>1. [kind : Kinds, key : Keys, node : Nodes] \subseteq EdgeType
    BY DEF EdgeType
  <2>2. Seq([kind : Kinds, key : Keys, node : Nodes]) \subseteq Seq(EdgeType)
    BY <2>1, SeqMonotonic
  <2> QED BY <1>1, <2>2
<1> QED BY <1>2, <1>3, ConcatProperties DEF Edges

(* The edge that is followed, and what is left when it is done: the same   *)
(* nodes for the same tables.                                              *)
LEMMA PastEdge ==
  ASSUME TypeOK, NEW kinds, At(kinds)
  PROVE  /\ Len(stack) \in Nat \ {0} /\ Top \in FrameType
         /\ Edge \in EdgeType /\ Edge.kind \in kinds
         /\ Past \in Seq(FrameType) /\ Len(Past) = Len(stack)
         /\ \A i \in 1..Len(stack) :
              Past[i].node = stack[i].node /\ Past[i].nest = stack[i].nest
<1>1. stack \in Seq(FrameType) /\ stack # <<>> /\ Top.todo # <<>> /\ Edge.kind \in kinds
  BY DEF TypeOK, At
<1>2. Len(stack) \in Nat \ {0} /\ DOMAIN stack = 1..Len(stack)
  BY <1>1, EmptySeq, LenProperties
<1>3. Top \in FrameType
  BY <1>1, <1>2, ElementOfSeq DEF Top
<1>4. Top.todo \in Seq(EdgeType)
  BY <1>3 DEF FrameType
<1>5. Edge \in EdgeType /\ Tail(Top.todo) \in Seq(EdgeType)
  BY <1>1, <1>4, HeadTailProperties, EmptySeq, ElementOfSeq DEF Edge
<1> DEFINE f == [Top EXCEPT !.todo = Tail(@)]
<1>6. f \in FrameType /\ f.node = Top.node /\ f.nest = Top.nest
  BY <1>3, <1>5 DEF FrameType
<1>7. Past = [stack EXCEPT ![Len(stack)] = f]
  BY <1>1, <1>2 DEF Past, Top
<1>8. /\ Past \in Seq(FrameType) /\ Len(Past) = Len(stack)
      /\ \A i \in 1..Len(stack) : Past[i] = IF i = Len(stack) THEN f ELSE stack[i]
  BY <1>1, <1>2, <1>6, <1>7, ExceptSeq
<1> QED BY <1>1, <1>2, <1>3, <1>5, <1>6, <1>8 DEF Top

(* What a step that passes the edge over leaves as it is.                  *)
LEMMA PassedOver ==
  ASSUME IInv, NEW kinds, At(kinds), stack' = Past, visited' = visited
  PROVE  Nested' /\ GuardIsPath'
<1>1. /\ Len(stack) \in Nat \ {0} /\ stack' \in Seq(FrameType)
      /\ Len(stack') = Len(stack)
      /\ \A i \in 1..Len(stack) :
           stack'[i].node = stack[i].node /\ stack'[i].nest = stack[i].nest
  BY PastEdge DEF IInv
<1>2. DOMAIN stack = 1..Len(stack) /\ DOMAIN stack' = 1..Len(stack)
      /\ stack # <<>> /\ stack' # <<>>
  BY <1>1, LenProperties, EmptySeq DEF IInv, TypeOK, At
<1>3. Nested'
  BY <1>1, <1>2 DEF IInv, Nested, Top
<1>4. GuardIsPath'
  <2>1. ASSUME NEW k \in DOMAIN visited
        PROVE  visited'[k] = {x \in Nodes : \E i \in DOMAIN stack' :
                                stack'[i].nest = k /\ stack'[i].node = x}
    BY <1>1, <1>2 DEF IInv, GuardIsPath
  <2> QED BY <1>1, <1>2, <2>1 DEF IInv, GuardIsPath
<1> QED BY <1>3, <1>4

(* A call: a frame on top, for the table under way or for a new one.       *)
LEMMA Called ==
  ASSUME IInv, NEW kinds, At(kinds), NEW f \in FrameType, stack' = Append(Past, f),
         \/ /\ f.nest = Top.nest /\ f.node \notin visited[Len(visited)]
            /\ visited' = [visited EXCEPT ![Len(visited)] = @ \cup {f.node}]
         \/ /\ f.nest = Top.nest + 1
            /\ visited' = Append(visited, {f.node})
  PROVE  /\ stack' \in Seq(FrameType) /\ visited' \in Seq(SUBSET Nodes)
         /\ Nested' /\ GuardIsPath'
<1> DEFINE n == Len(stack)
<1>1. /\ n \in Nat \ {0} /\ Past \in Seq(FrameType) /\ Len(Past) = n
      /\ \A i \in 1..n : Past[i].node = stack[i].node /\ Past[i].nest = stack[i].nest
  BY PastEdge DEF IInv
<1>2. /\ stack' \in Seq(FrameType) /\ stack' # <<>> /\ Len(stack') = n + 1
      /\ \A i \in 1..n : stack'[i].node = stack[i].node /\ stack'[i].nest = stack[i].nest
      /\ stack'[n + 1] = f
  BY <1>1, AppendProperties
<1>3. /\ DOMAIN stack = 1..n /\ DOMAIN stack' = 1..(n + 1) /\ stack # <<>>
      /\ Top = stack[n] /\ Top' = f
  BY <1>1, <1>2, LenProperties DEF IInv, TypeOK, At, Top
<1>4. /\ \A i \in 1..n : stack[i].nest \in Nat \ {0} /\ stack[i].nest <= stack[n].nest
      /\ Len(visited) = stack[n].nest /\ visited \in Seq(SUBSET Nodes)
      /\ DOMAIN visited = 1..stack[n].nest /\ f.node \in Nodes
  <2>1. \A i \in 1..n : stack[i] \in FrameType
    BY <1>1, ElementOfSeq DEF IInv, TypeOK
  <2>2. Len(visited) = stack[n].nest /\ visited \in Seq(SUBSET Nodes)
    BY <1>3 DEF IInv, Nested, TypeOK
  <2>3. \A i \in 1..n : stack[i].nest \in Nat \ {0} /\ stack[i].nest <= stack[n].nest
    <3>1. TAKE i \in 1..n
    <3>2. i \in DOMAIN stack /\ n \in DOMAIN stack /\ i <= n
      BY <1>1, <1>3
    <3> QED BY <2>1, <3>2 DEF IInv, Nested, FrameType
  <2>4. f.node \in Nodes
    BY DEF FrameType
  <2> QED BY <2>2, <2>3, <2>4, LenProperties
<1>a. /\ \A i, j \in 1..n : i <= j => stack[i].nest <= stack[j].nest
      /\ \A i \in 1..n : i + 1 \in 1..n =>
           stack[i + 1].nest \in {stack[i].nest, stack[i].nest + 1}
      /\ stack[1].nest = 1
  BY <1>3 DEF IInv, Nested
<1>b. /\ \A k \in 1..Len(visited) :
           visited[k] = {x \in Nodes : \E i \in 1..n : stack[i].nest = k /\ stack[i].node = x}
      /\ \A i, j \in 1..n :
           i # j /\ stack[i].nest = stack[j].nest => stack[i].node # stack[j].node
  <2>1. DOMAIN visited = 1..Len(visited) /\ DOMAIN stack = 1..n
    BY <1>3, <1>4
  <2>2. ASSUME NEW k \in 1..Len(visited)
        PROVE  visited[k] = {x \in Nodes : \E i \in DOMAIN stack :
                               stack[i].nest = k /\ stack[i].node = x}
    BY <2>1 DEF IInv, GuardIsPath
  <2>3. \A i, j \in DOMAIN stack :
          i # j /\ stack[i].nest = stack[j].nest => stack[i].node # stack[j].node
    BY DEF IInv, GuardIsPath
  <2> QED BY <2>1, <2>2, <2>3
<1>c. \A i \in 1..n : stack[i].node \in Nodes
  <2>1. \A i \in 1..n : stack[i] \in FrameType
    BY <1>1, ElementOfSeq DEF IInv, TypeOK
  <2> QED BY <2>1 DEF FrameType
<1> HIDE DEF n
<1>5. CASE /\ f.nest = Top.nest /\ f.node \notin visited[Len(visited)]
           /\ visited' = [visited EXCEPT ![Len(visited)] = @ \cup {f.node}]
  <2>1. /\ visited' \in Seq(SUBSET Nodes) /\ Len(visited') = Len(visited)
        /\ \A k \in 1..Len(visited) :
             visited'[k] = IF k = Len(visited) THEN visited[k] \cup {f.node} ELSE visited[k]
    <3>1. Len(visited) \in 1..Len(visited) /\ visited[Len(visited)] \in SUBSET Nodes
      BY <1>1, <1>3, <1>4, ElementOfSeq
    <3>2. visited[Len(visited)] \cup {f.node} \in SUBSET Nodes
      BY <1>4, <3>1
    <3>3. visited' = [visited EXCEPT ![Len(visited)] = visited[Len(visited)] \cup {f.node}]
      BY <1>5
    <3>4. /\ visited' \in Seq(SUBSET Nodes) /\ Len(visited') = Len(visited)
          /\ \A k \in 1..Len(visited) :
               visited'[k] = IF k = Len(visited) THEN visited[Len(visited)] \cup {f.node}
                                                 ELSE visited[k]
      BY <1>4, <3>1, <3>2, <3>3, ExceptSeq
    <3> QED BY <3>4
  <2>2. Nested'
    <3>1. stack'[1].nest = 1 /\ Len(visited') = Top'.nest
      BY <1>1, <1>2, <1>3, <1>4, <1>a, <1>5, <2>1
    <3>2. ASSUME NEW i \in 1..(n + 1), i + 1 \in 1..(n + 1)
          PROVE  stack'[i + 1].nest \in {stack'[i].nest, stack'[i].nest + 1}
      <4>1. CASE i = n
        BY <1>1, <1>2, <1>3, <1>5, <4>1
      <4>2. CASE i # n
        <5>1. i \in 1..n /\ i + 1 \in 1..n
          BY <1>1, <3>2, <4>2
        <5> QED BY <1>2, <1>a, <5>1
      <4> QED BY <4>1, <4>2
    <3>3. ASSUME NEW i \in 1..(n + 1), NEW j \in 1..(n + 1), i <= j
          PROVE  stack'[i].nest <= stack'[j].nest
      <4>1. CASE j \in 1..n
        <5>1. i \in 1..n
          BY <1>1, <3>3, <4>1
        <5> QED BY <1>2, <1>a, <3>3, <4>1, <5>1
      <4>2. CASE j = n + 1 /\ i \in 1..n
        BY <1>1, <1>2, <1>3, <1>4, <1>5, <4>2
      <4>3. CASE j = n + 1 /\ i = n + 1
        BY <1>1, <1>2, <1>3, <1>4, <1>5, <4>3
      <4> QED BY <1>1, <3>3, <4>1, <4>2, <4>3
    <3> QED BY <1>2, <1>3, <3>1, <3>2, <3>3 DEF Nested
  <2>3. ASSUME NEW k \in DOMAIN visited'
        PROVE  visited'[k] = {x \in Nodes : \E i \in DOMAIN stack' :
                                stack'[i].nest = k /\ stack'[i].node = x}
    <3>1. k \in DOMAIN visited /\ k \in 1..Len(visited)
      BY <1>4, <2>1, LenProperties
    <3>2. ASSUME NEW x \in Nodes
          PROVE  x \in visited'[k] <=>
                   \E i \in 1..(n + 1) : stack'[i].nest = k /\ stack'[i].node = x
      <4>1. x \in visited[k] <=> \E i \in 1..n : stack'[i].nest = k /\ stack'[i].node = x
        <5>1. x \in visited[k] <=> \E i \in 1..n : stack[i].nest = k /\ stack[i].node = x
          BY <1>b, <3>1
        <5> QED BY <1>2, <5>1
      <4>2. (stack'[n + 1].nest = k /\ stack'[n + 1].node = x) <=> (k = Len(visited) /\ x = f.node)
        BY <1>2, <1>3, <1>4, <1>5
      <4>3. x \in visited'[k] <=> x \in visited[k] \/ (k = Len(visited) /\ x = f.node)
        BY <2>1, <3>1
      <4>4. (\E i \in 1..(n + 1) : stack'[i].nest = k /\ stack'[i].node = x) <=>
              \/ \E i \in 1..n : stack'[i].nest = k /\ stack'[i].node = x
              \/ stack'[n + 1].nest = k /\ stack'[n + 1].node = x
        BY <1>1
      <4> QED BY <4>1, <4>2, <4>3, <4>4
    <3>3. visited'[k] \in SUBSET Nodes
      BY <2>1, <2>3, <3>1, ElementOfSeq
    <3> QED BY <1>3, <3>2, <3>3
  <2>4. ASSUME NEW i \in 1..n, stack[i].nest = f.nest
        PROVE  stack[i].node # f.node
    <3>1. Len(visited) \in DOMAIN visited /\ stack[i].nest = Len(visited)
      BY <1>1, <1>3, <1>4, <1>5, <2>4
    <3>2. stack[i].node \in visited[Len(visited)]
      BY <1>4, <1>b, <1>c, <3>1
    <3> QED BY <1>5, <3>2
  <2>5. \A i, j \in DOMAIN stack' :
          i # j /\ stack'[i].nest = stack'[j].nest => stack'[i].node # stack'[j].node
    BY <1>1, <1>2, <1>3, <2>4 DEF IInv, GuardIsPath
  <2> QED BY <1>2, <2>1, <2>2, <2>3, <2>5 DEF GuardIsPath
<1>6. CASE f.nest = Top.nest + 1 /\ visited' = Append(visited, {f.node})
  <2>1. /\ visited' \in Seq(SUBSET Nodes) /\ Len(visited') = Len(visited) + 1
        /\ \A k \in 1..Len(visited) : visited'[k] = visited[k]
        /\ visited'[Len(visited) + 1] = {f.node}
    <3>1. {f.node} \in SUBSET Nodes
      BY <1>4
    <3> QED BY <1>4, <1>6, <3>1, AppendProperties
  <2>2. Nested'
    <3>1. stack'[1].nest = 1 /\ Len(visited') = Top'.nest
      BY <1>1, <1>2, <1>3, <1>4, <1>a, <1>6, <2>1
    <3>2. ASSUME NEW i \in 1..(n + 1), i + 1 \in 1..(n + 1)
          PROVE  stack'[i + 1].nest \in {stack'[i].nest, stack'[i].nest + 1}
      <4>1. CASE i = n
        BY <1>1, <1>2, <1>3, <1>6, <4>1
      <4>2. CASE i # n
        <5>1. i \in 1..n /\ i + 1 \in 1..n
          BY <1>1, <3>2, <4>2
        <5> QED BY <1>2, <1>a, <5>1
      <4> QED BY <4>1, <4>2
    <3>3. ASSUME NEW i \in 1..(n + 1), NEW j \in 1..(n + 1), i <= j
          PROVE  stack'[i].nest <= stack'[j].nest
      <4>1. CASE j \in 1..n
        <5>1. i \in 1..n
          BY <1>1, <3>3, <4>1
        <5> QED BY <1>2, <1>a, <3>3, <4>1, <5>1
      <4>2. CASE j = n + 1 /\ i \in 1..n
        <5>1. /\ stack'[i].nest = stack[i].nest /\ stack'[j].nest = stack[n].nest + 1
              /\ stack[i].nest \in Nat /\ stack[n].nest \in Nat
              /\ stack[i].nest <= stack[n].nest
          BY <1>1, <1>2, <1>3, <1>4, <1>6, <4>2
        <5> QED BY <5>1
      <4>3. CASE j = n + 1 /\ i = n + 1
        BY <1>1, <1>2, <1>3, <1>4, <1>6, <4>3
      <4> QED BY <1>1, <3>3, <4>1, <4>2, <4>3
    <3> QED BY <1>2, <1>3, <3>1, <3>2, <3>3 DEF Nested
  <2>3. ASSUME NEW k \in DOMAIN visited'
        PROVE  visited'[k] = {x \in Nodes : \E i \in DOMAIN stack' :
                                stack'[i].nest = k /\ stack'[i].node = x}
    <3>1. k \in 1..(Len(visited) + 1)
      BY <1>4, <2>1, <2>3, LenProperties
    <3>2. ASSUME NEW x \in Nodes
          PROVE  x \in visited'[k] <=>
                   \E i \in 1..(n + 1) : stack'[i].nest = k /\ stack'[i].node = x
      <4>1. CASE k = Len(visited) + 1
        <5>1. x \in visited'[k] <=> x = f.node
          BY <2>1, <4>1
        <5>2. \A i \in 1..n : stack'[i].nest # k
          BY <1>1, <1>2, <1>4, <4>1
        <5>3. stack'[n + 1].nest = k /\ stack'[n + 1].node = f.node
          BY <1>2, <1>3, <1>4, <1>6, <4>1
        <5> QED BY <1>1, <5>1, <5>2, <5>3
      <4>2. CASE k \in 1..Len(visited)
        <5>1. x \in visited'[k] <=> \E i \in 1..n : stack'[i].nest = k /\ stack'[i].node = x
          <6>1. x \in visited[k] <=> \E i \in 1..n : stack[i].nest = k /\ stack[i].node = x
            BY <1>b, <4>2
          <6> QED BY <1>2, <2>1, <4>2, <6>1
        <5>2. stack'[n + 1].nest # k
          BY <1>1, <1>2, <1>3, <1>4, <1>6, <4>2
        <5> QED BY <1>1, <5>1, <5>2
      <4>3. Len(visited) \in Nat
        BY <1>4, LenProperties
      <4>4. k = Len(visited) + 1 \/ k \in 1..Len(visited)
        BY <3>1, <4>3
      <4> QED BY <4>1, <4>2, <4>4
    <3>3. visited'[k] \in SUBSET Nodes
      BY <2>1, <3>1, ElementOfSeq
    <3> QED BY <1>3, <3>2, <3>3
  <2>4. \A i, j \in DOMAIN stack' :
          i # j /\ stack'[i].nest = stack'[j].nest => stack'[i].node # stack'[j].node
    BY <1>1, <1>2, <1>3, <1>4, <1>6 DEF IInv, GuardIsPath
  <2> QED BY <1>2, <2>1, <2>2, <2>3, <2>4 DEF GuardIsPath
<1> QED BY <1>5, <1>6

(* A return: the node is no longer on the way to anything; the guard of a  *)
(* table that is done goes with it.                                        *)
LEMMA Returned ==
  ASSUME IInv, stack # <<>>, stack' = Front(stack), visited' = Leave
  PROVE  /\ stack' \in Seq(FrameType) /\ visited' \in Seq(SUBSET Nodes)
         /\ Nested' /\ GuardIsPath'
<1> DEFINE n == Len(stack)
           m == Len(visited)
<1>1. n \in Nat \ {0} /\ DOMAIN stack = 1..n /\ Top = stack[n]
  BY EmptySeq, LenProperties DEF IInv, TypeOK, Top
<1>2. /\ stack' \in Seq(FrameType) /\ Len(stack') = n - 1 /\ DOMAIN stack' = 1..(n - 1)
      /\ \A i \in 1..(n - 1) : stack'[i] = stack[i]
  <2>1. \A i \in 1..(n - 1) : stack[i] \in FrameType
    BY <1>1, ElementOfSeq DEF IInv, TypeOK
  <2>2. stack' = SubSeq(stack, 1, n - 1)
    BY DEF Front
  <2> QED BY <1>1, <2>1, <2>2, SubSeqProperties, LenProperties
<1>3. /\ \A i \in 1..n : stack[i].nest \in Nat \ {0} /\ stack[i].node \in Nodes
      /\ m \in Nat \ {0} /\ m = stack[n].nest
      /\ visited \in Seq(SUBSET Nodes) /\ DOMAIN visited = 1..m
  <2>1. \A i \in 1..n : stack[i] \in FrameType
    BY <1>1, ElementOfSeq DEF IInv, TypeOK
  <2>2. m = stack[n].nest /\ visited \in Seq(SUBSET Nodes)
    BY <1>1 DEF IInv, Nested, TypeOK
  <2> QED BY <1>1, <2>1, <2>2, LenProperties DEF FrameType
<1>4. /\ \A i, j \in 1..n : i <= j => stack[i].nest <= stack[j].nest
      /\ \A i \in 1..n : i + 1 \in 1..n =>
           stack[i + 1].nest \in {stack[i].nest, stack[i].nest + 1}
      /\ stack[1].nest = 1
  BY <1>1 DEF IInv, Nested
<1>5. \A k \in 1..m :
        visited[k] = {x \in Nodes : \E i \in 1..n : stack[i].nest = k /\ stack[i].node = x}
  <2>1. ASSUME NEW k \in 1..m
        PROVE  visited[k] = {x \in Nodes : \E i \in DOMAIN stack :
                               stack[i].nest = k /\ stack[i].node = x}
    BY <1>3 DEF IInv, GuardIsPath
  <2> QED BY <1>1, <2>1
<1>6. \A i, j \in 1..n :
        i # j /\ stack[i].nest = stack[j].nest => stack[i].node # stack[j].node
  BY <1>1 DEF IInv, GuardIsPath
<1> HIDE DEF n, m
<1>7. (\A i, j \in DOMAIN stack' :
         i # j /\ stack'[i].nest = stack'[j].nest => stack'[i].node # stack'[j].node)
      /\ (\A i, j \in DOMAIN stack' : i <= j => stack'[i].nest <= stack'[j].nest)
  <2> SUFFICES ASSUME NEW i \in 1..(n - 1), NEW j \in 1..(n - 1)
               PROVE  /\ i # j /\ stack'[i].nest = stack'[j].nest
                            => stack'[i].node # stack'[j].node
                      /\ i <= j => stack'[i].nest <= stack'[j].nest
    BY <1>2
  <2>1. i \in 1..n /\ j \in 1..n
    BY <1>1
  <2>2. stack'[i] = stack[i] /\ stack'[j] = stack[j]
    BY <1>2
  <2> QED BY <1>4, <1>6, <2>1, <2>2
<1>8. \A i \in DOMAIN stack' : i + 1 \in DOMAIN stack' =>
        stack'[i + 1].nest \in {stack'[i].nest, stack'[i].nest + 1}
  <2> SUFFICES ASSUME NEW i \in 1..(n - 1), i + 1 \in 1..(n - 1)
               PROVE  stack'[i + 1].nest \in {stack'[i].nest, stack'[i].nest + 1}
    BY <1>2
  <2>1. i \in 1..n /\ i + 1 \in 1..n
    BY <1>1
  <2>2. stack'[i] = stack[i] /\ stack'[i + 1] = stack[i + 1]
    BY <1>2
  <2> QED BY <1>4, <2>1, <2>2
(* What is left of a guard that stays as it was.                           *)
<1>9. ASSUME NEW k \in 1..m, k # m
      PROVE  visited[k] = {x \in Nodes : \E i \in 1..(n - 1) :
                             stack'[i].nest = k /\ stack'[i].node = x}
  <2>1. ASSUME NEW x \in Nodes
        PROVE  (\E i \in 1..n : stack[i].nest = k /\ stack[i].node = x) <=>
                 \E i \in 1..(n - 1) : stack'[i].nest = k /\ stack'[i].node = x
    <3>1. \A i \in 1..n : stack[i].nest = k => i \in 1..(n - 1)
      BY <1>1, <1>3, <1>9
    <3>2. \A i \in 1..(n - 1) : i \in 1..n
      BY <1>1
    <3> QED BY <1>2, <3>1, <3>2
  <2> QED BY <1>5, <2>1
<1>10. CASE EndsTable
  <2>1. /\ visited' \in Seq(SUBSET Nodes) /\ Len(visited') = m - 1
        /\ DOMAIN visited' = 1..(m - 1) /\ \A k \in 1..(m - 1) : visited'[k] = visited[k]
    <3>1. \A k \in 1..(m - 1) : visited[k] \in SUBSET Nodes
      BY <1>3, ElementOfSeq DEF m
    <3>2. visited' = SubSeq(visited, 1, m - 1)
      BY <1>10 DEF Leave, Front, m
    <3> QED BY <1>3, <3>1, <3>2, SubSeqProperties, LenProperties
  <2>2. GuardIsPath'
    <3>1. ASSUME NEW k \in DOMAIN visited'
          PROVE  visited'[k] = {x \in Nodes : \E i \in DOMAIN stack' :
                                  stack'[i].nest = k /\ stack'[i].node = x}
      <4>1. k \in 1..m /\ k # m /\ visited'[k] = visited[k]
        BY <1>3, <2>1
      <4> QED BY <1>2, <1>9, <4>1
    <3> QED BY <1>7, <3>1 DEF GuardIsPath
  <2>3. CASE n = 1
    <3>1. stack' = <<>>
      BY <1>2, <2>3, EmptySeq
    <3>2. visited' = <<>>
      BY <1>3, <1>4, <2>1, <2>3, EmptySeq
    <3>3. stack' # <<>> => stack'[1].nest = 1 /\ Len(visited') = Top'.nest
      BY <3>1
    <3> QED BY <1>2, <1>7, <1>8, <2>1, <2>2, <3>2, <3>3 DEF Nested
  <2>4. CASE n # 1
    <3>1. n - 1 \in 1..n /\ n \in 1..n /\ n - 1 \in 1..(n - 1) /\ 1 \in 1..(n - 1)
          /\ stack' # <<>>
      BY <1>1, <1>2, <2>4, EmptySeq
    <3>2. stack[n - 1].nest # stack[n].nest
      BY <1>1, <1>10, <2>4 DEF EndsTable, n
    <3>3. stack[n].nest \in {stack[n - 1].nest, stack[n - 1].nest + 1}
      <4>1. (n - 1) + 1 = n
        BY <1>1
      <4> QED BY <1>4, <3>1, <4>1
    <3>4. stack[n - 1].nest = m - 1
      BY <1>3, <3>1, <3>2, <3>3
    <3>5. Top' = stack[n - 1] /\ stack'[1] = stack[1]
      BY <1>2, <3>1 DEF Top
    <3> QED BY <1>2, <1>4, <1>7, <1>8, <2>1, <2>2, <3>1, <3>4, <3>5 DEF Nested
  <2> QED BY <2>3, <2>4
<1>11. CASE ~EndsTable
  <2>1. n # 1 /\ stack[n - 1].nest = m
    BY <1>1, <1>3, <1>11 DEF EndsTable, n
  <2>2. n - 1 \in 1..n /\ n \in 1..n /\ n - 1 \in 1..(n - 1) /\ 1 \in 1..(n - 1)
        /\ stack' # <<>> /\ m \in 1..m
    BY <1>1, <1>2, <1>3, <2>1, EmptySeq
  <2>3. /\ visited' \in Seq(SUBSET Nodes) /\ Len(visited') = m /\ DOMAIN visited' = 1..m
        /\ \A k \in 1..m :
             visited'[k] = IF k = m THEN visited[m] \ {stack[n].node} ELSE visited[k]
    <3>1. visited[m] \ {stack[n].node} \in SUBSET Nodes
      BY <1>3, <2>2, ElementOfSeq DEF m
    <3>2. visited' = [visited EXCEPT ![m] = visited[m] \ {stack[n].node}]
      BY <1>1, <1>11 DEF Leave, m
    <3>3. m \in 1..Len(visited)
      BY <2>2 DEF m
    <3>4. visited' \in Seq(SUBSET Nodes) /\ Len(visited') = Len(visited)
          /\ \A k \in 1..Len(visited) :
               visited'[k] = IF k = m THEN visited[m] \ {stack[n].node} ELSE visited[k]
      BY <1>3, <3>1, <3>2, <3>3, ExceptSeq
    <3> QED BY <3>4, LenProperties DEF m
  <2>4. ASSUME NEW k \in DOMAIN visited'
        PROVE  visited'[k] = {x \in Nodes : \E i \in DOMAIN stack' :
                                stack'[i].nest = k /\ stack'[i].node = x}
    <3>1. CASE k # m
      BY <1>2, <1>9, <2>3, <2>4, <3>1
    <3>2. CASE k = m
      <4>1. ASSUME NEW x \in Nodes
            PROVE  x \in visited'[m] <=>
                     \E i \in 1..(n - 1) : stack'[i].nest = m /\ stack'[i].node = x
        <5>1. x \in visited'[m] <=>
                x # stack[n].node /\ \E i \in 1..n : stack[i].nest = m /\ stack[i].node = x
          BY <1>5, <2>2, <2>3
        <5>2. \A i \in 1..(n - 1) : i \in 1..n /\ i # n /\ stack'[i] = stack[i]
          BY <1>1, <1>2
        <5>3. \A i \in 1..n : i # n => i \in 1..(n - 1)
          BY <1>1
        <5>4. \A i \in 1..(n - 1) : stack[i].nest = m => stack[i].node # stack[n].node
          BY <1>3, <1>6, <2>2, <5>2
        <5> QED BY <5>1, <5>2, <5>3, <5>4
      <4>2. visited'[m] \in SUBSET Nodes
        BY <2>2, <2>3, ElementOfSeq
      <4> QED BY <1>2, <3>2, <4>1, <4>2
    <3> QED BY <3>1, <3>2
  <2>5. Top' = stack[n - 1] /\ stack'[1] = stack[1]
    BY <1>2, <2>2 DEF Top
  <2>6. Nested'
    BY <1>2, <1>4, <1>7, <1>8, <2>1, <2>2, <2>3, <2>5 DEF Nested
  <2> QED BY <1>2, <1>7, <2>3, <2>4, <2>6 DEF GuardIsPath
<1> QED BY <1>10, <1>11

(* The walk starts at the root, which alone is visited.                    *)
LEMMA InitIInv == Init => IInv
<1> SUFFICES ASSUME Init PROVE IInv
  OBVIOUS
<1>1. graph \in Graphs /\ flat \in BOOLEAN /\ Root \in Nodes
  BY WalkAssumption DEF Init
<1> DEFINE f == Frame(Root, 1, <<>>, <<>>)
<1>2. f \in FrameType
  BY <1>1, EdgesType DEF Frame, FrameType
<1>3. stack = <<f>> /\ visited = <<{Root}>> /\ columns = {} /\ tables = {}
  BY DEF Init
<1>4. f.nest = 1 /\ f.node = Root
  BY DEF Frame
<1> HIDE DEF f
<1>5. /\ stack \in Seq(FrameType) /\ Len(stack) = 1 /\ DOMAIN stack = 1..1 /\ stack[1] = f
      /\ visited \in Seq(SUBSET Nodes) /\ Len(visited) = 1 /\ DOMAIN visited = 1..1
      /\ visited[1] = {Root}
  BY <1>1, <1>2, <1>3
<1>6. TypeOK
  BY <1>1, <1>3, <1>5 DEF TypeOK
<1>7. Nested
  BY <1>3, <1>4, <1>5 DEF Nested, Top
<1>8. GuardIsPath
  BY <1>1, <1>4, <1>5 DEF GuardIsPath
<1> QED BY <1>6, <1>7, <1>8 DEF IInv

(* Where a property of an object leads: the key is there.                  *)
LEMMA PathType ==
  ASSUME TypeOK, NEW kinds \in SUBSET Kinds, At(kinds)
  PROVE  /\ Path \in Seq(Keys) /\ Path # <<>> /\ Child \in Seq(Seq(Keys))
         /\ Top.table \in Seq(Seq(Keys)) /\ Edge.node \in Nodes
<1>1. Top \in FrameType /\ Edge \in EdgeType /\ Edge.kind \in kinds
  BY PastEdge
<1>2. Edge.key \in Keys /\ Edge.node \in Nodes
  BY <1>1 DEF EdgeType, Kinds
<1>3. Top.prefix \in Seq(Keys) /\ Top.table \in Seq(Seq(Keys))
  BY <1>1 DEF FrameType
<1>4. Path \in Seq(Keys) /\ Path # <<>>
  BY <1>2, <1>3, AppendProperties DEF Path
<1> QED BY <1>2, <1>3, <1>4, AppendProperties DEF Child

(* Every step keeps the guards the ways to the nodes walked.               *)
LEMMA NextIInv == IInv /\ [Next]_vars => IInv'
<1> SUFFICES ASSUME IInv, [Next]_vars PROVE IInv'
  OBVIOUS
<1>a. TypeOK
  BY DEF IInv
(* What is left of TypeOK once the stack and the guards are typed.         *)
<1>b. ASSUME stack' \in Seq(FrameType), visited' \in Seq(SUBSET Nodes),
             UNCHANGED <<graph, flat, columns, tables>>
      PROVE  TypeOK'
  BY <1>a, <1>b DEF TypeOK
<1>1. CASE Enter
  <2>1. PICK kinds \in {{"variant"}, {"one"}} : At(kinds)
    BY <1>1 DEF Enter, Flattened
  <2> DEFINE f == Frame(Edge.node, Top.nest, Top.table,
                        IF Edge.kind = "variant" THEN Top.prefix ELSE Path)
  <2>2. Top \in FrameType /\ Edge \in EdgeType /\ Edge.kind \in kinds
    BY <1>a, <2>1, PastEdge
  <2>3. /\ Edge.node \in Nodes /\ Top.nest \in Nat \ {0}
        /\ Top.table \in Seq(Seq(Keys)) /\ Top.prefix \in Seq(Keys)
    BY <2>2 DEF EdgeType, FrameType
  <2>4. Edge.kind # "variant" => Path \in Seq(Keys)
    <3>1. Edge.kind # "variant" => kinds = {"one"}
      BY <2>1, <2>2
    <3>2. {"one"} \in SUBSET Kinds
      BY DEF Kinds
    <3> QED BY <1>a, <2>1, <3>1, <3>2, PathType
  <2>5. f \in FrameType
    <3>1. graph \in Graphs
      BY <1>a DEF TypeOK
    <3> QED BY <2>3, <2>4, <3>1, EdgesType DEF Frame, FrameType
  <2>6. f.nest = Top.nest /\ f.node = Edge.node
    BY DEF Frame
  <2>7. /\ stack' = Append(Past, f)
        /\ visited' = [visited EXCEPT ![Len(visited)] = @ \cup {f.node}]
        /\ f.node \notin visited[Len(visited)]
        /\ UNCHANGED <<graph, flat, columns, tables>>
    BY <1>1, <2>6 DEF Enter, Visited
  <2> HIDE DEF f
  <2>8. /\ stack' \in Seq(FrameType) /\ visited' \in Seq(SUBSET Nodes)
        /\ Nested' /\ GuardIsPath'
    BY <2>1, <2>5, <2>6, <2>7, Called
  <2> QED BY <1>b, <2>7, <2>8 DEF IInv
<1>2. CASE Cut
  <2>1. PICK kinds \in {{"variant"}, {"one"}} : At(kinds)
    BY <1>2 DEF Cut, Flattened
  <2>2. Nested' /\ GuardIsPath' /\ Past \in Seq(FrameType)
    BY <1>2, <1>a, <2>1, PastEdge, PassedOver DEF Cut
  <2>3. TypeOK'
    BY <1>2, <1>a, <2>2 DEF Cut, TypeOK
  <2> QED BY <2>2, <2>3 DEF IInv
<1>3. CASE AddColumn
  <2>1. PICK kinds \in {{"one"}, {"array"}} : At(kinds)
    BY <1>3 DEF AddColumn
  <2>2. kinds \in SUBSET Kinds
    BY <2>1 DEF Kinds
  <2>3. Nested' /\ GuardIsPath' /\ Past \in Seq(FrameType)
    BY <1>3, <1>a, <2>1, PastEdge, PassedOver DEF AddColumn
  <2>4. /\ Path \in Seq(Keys) /\ Path # <<>> /\ Top.table \in Seq(Seq(Keys))
    BY <1>a, <2>1, <2>2, PathType
  <2>5. /\ stack' = Past /\ columns' = columns \cup {[table |-> Top.table, path |-> Path]}
        /\ UNCHANGED <<graph, flat, visited, tables>>
    BY <1>3 DEF AddColumn
  <2>6. /\ [table |-> Top.table, path |-> Path] \in [table : Seq(Seq(Keys)), path : Seq(Keys)]
        /\ [table |-> Top.table, path |-> Path].path # <<>>
    BY <2>4
  <2> HIDE DEF Path, Top
  <2>7. TypeOK'
    BY <1>a, <2>3, <2>5, <2>6 DEF TypeOK
  <2> QED BY <2>3, <2>7 DEF IInv
<1>4. CASE KnownArray
  <2>1. At({"array"}) /\ stack' = Past /\ UNCHANGED <<graph, flat, visited, columns, tables>>
    BY <1>4 DEF KnownArray
  <2>2. Nested' /\ GuardIsPath' /\ Past \in Seq(FrameType)
    BY <1>a, <2>1, PastEdge, PassedOver
  <2>3. visited' \in Seq(SUBSET Nodes)
    BY <1>a, <2>1 DEF TypeOK
  <2> QED BY <1>b, <2>1, <2>2, <2>3 DEF IInv
<1>5. CASE ArrayOfScalars
  <2>1. /\ At({"array"}) /\ stack' = Past
        /\ tables' = tables \cup {Child}
        /\ columns' = columns \cup {[table |-> Child, path |-> <<>>]}
        /\ UNCHANGED <<graph, flat, visited>>
    BY <1>5 DEF ArrayOfScalars
  <2>2. Nested' /\ GuardIsPath' /\ Past \in Seq(FrameType)
    BY <1>a, <2>1, PastEdge, PassedOver
  <2>3. Child \in Seq(Seq(Keys))
    BY <1>a, <2>1, PathType DEF Kinds
  <2>4. /\ [table |-> Child, path |-> <<>>] \in [table : Seq(Seq(Keys)), path : Seq(Keys)]
        /\ [table |-> Child, path |-> <<>>].table \in tables'
    BY <2>1, <2>3, EmptySeq
  <2>5. TypeOK'
    BY <1>a, <2>1, <2>2, <2>3, <2>4 DEF TypeOK
  <2> QED BY <2>2, <2>5 DEF IInv
<1>6. CASE PlanChildTable
  <2> DEFINE f == Frame(Edge.node, Top.nest + 1, Child, <<>>)
  <2>1. At({"array"}) /\ {"array"} \in SUBSET Kinds
    BY <1>6 DEF PlanChildTable, Kinds
  <2>2. Top \in FrameType /\ Child \in Seq(Seq(Keys)) /\ Edge.node \in Nodes
    BY <1>a, <2>1, PastEdge, PathType
  <2>3. Top.nest + 1 \in Nat \ {0}
    BY <2>2 DEF FrameType
  <2>4. f \in FrameType
    <3>1. graph \in Graphs
      BY <1>a DEF TypeOK
    <3> QED BY <2>2, <2>3, <3>1, EdgesType, EmptySeq DEF Frame, FrameType
  <2>5. f.nest = Top.nest + 1 /\ f.node = Edge.node
    BY DEF Frame
  <2>6. /\ stack' = Append(Past, f) /\ visited' = Append(visited, {f.node})
        /\ UNCHANGED <<graph, flat, columns, tables>>
    BY <1>6, <2>5 DEF PlanChildTable
  <2> HIDE DEF f
  <2>7. /\ stack' \in Seq(FrameType) /\ visited' \in Seq(SUBSET Nodes)
        /\ Nested' /\ GuardIsPath'
    BY <2>1, <2>4, <2>5, <2>6, Called
  <2> QED BY <1>b, <2>6, <2>7 DEF IInv
<1>7. CASE Return
  <2>1. /\ stack # <<>> /\ stack' = Front(stack) /\ visited' = Leave
        /\ tables' = IF EndsTable /\ Len(stack) > 1 THEN tables \cup {Top.table} ELSE tables
        /\ UNCHANGED <<graph, flat, columns>>
    BY <1>7 DEF Return
  <2>2. /\ stack' \in Seq(FrameType) /\ visited' \in Seq(SUBSET Nodes)
        /\ Nested' /\ GuardIsPath'
    BY <2>1, Returned
  <2>3. Top.table \in Seq(Seq(Keys))
    <3>1. Len(stack) \in 1..Len(stack)
      BY <1>a, <2>1, EmptySeq DEF TypeOK
    <3>2. Top \in FrameType
      BY <1>a, <3>1, ElementOfSeq DEF TypeOK, Top
    <3> QED BY <3>2 DEF FrameType
  <2>4. tables \subseteq tables' /\ tables' \subseteq Seq(Seq(Keys))
    BY <1>a, <2>1, <2>3 DEF TypeOK
  <2>5. TypeOK'
    BY <1>a, <2>1, <2>2, <2>4 DEF TypeOK
  <2> QED BY <2>2, <2>5 DEF IInv
<1>8. CASE UNCHANGED vars
  BY <1>8 DEF IInv, vars, TypeOK, Nested, GuardIsPath, Top
<1> QED BY <1>1, <1>2, <1>3, <1>4, <1>5, <1>6, <1>7, <1>8 DEF Next

(* The inductive invariant holds in every behaviour.                       *)
LEMMA Inductive == Spec => []IInv
<1> QED BY InitIInv, NextIInv, PTL DEF Spec

(* Every variable keeps its type; a column without a path is the value of  *)
(* an array of scalars (model.go:330-337).                                 *)
THEOREM TypeCorrect == Spec => []TypeOK
<1>1. IInv => TypeOK
  BY DEF IInv
<1> QED BY <1>1, Inductive, PTL

(* However schemas share and repeat definitions, the cycle guard of every  *)
(* table being planned is exactly the way to the node being walked, without*)
(* a repetition: the deferred delete removes what the entry added, and no  *)
(* more (model.go:235-247, landing/table.go:82-86, values.go:25-29).       *)
THEOREM GuardsArePaths == Spec => []GuardIsPath
<1>1. IInv => GuardIsPath
  BY DEF IInv
<1> QED BY <1>1, Inductive, PTL

(* A landing table has no tables under it.                                 *)
LEMMA OneTable == Spec => [](flat => Len(visited) <= 1)
<1> DEFINE One == flat => Len(visited) <= 1
<1>1. Init => One
  <2> SUFFICES ASSUME Init PROVE One
    OBVIOUS
  <2>1. visited = <<{Root}>>
    BY DEF Init
  <2> QED BY <2>1
<1>2. IInv /\ One /\ [Next]_vars => One'
  <2> SUFFICES ASSUME IInv, One, [Next]_vars PROVE One'
    OBVIOUS
  <2>1. visited \in Seq(SUBSET Nodes)
    BY DEF IInv, TypeOK
  <2>2. CASE Enter
    <3>1. Len(visited') = Len(visited) /\ flat' = flat
      BY <2>1, <2>2 DEF Enter
    <3> QED BY <3>1
  <2>3. CASE PlanChildTable
    BY <2>3 DEF PlanChildTable
  <2>4. CASE Return
    <3>1. flat' = flat /\ visited' = Leave /\ stack # <<>>
      BY <2>4 DEF Return
    <3>2. Len(visited) \in Nat /\ \A i \in 1..Len(visited) : visited[i] \in SUBSET Nodes
      BY <2>1, LenProperties, ElementOfSeq
    <3>3. CASE EndsTable
      <4>1. visited' = SubSeq(visited, 1, Len(visited) - 1)
        BY <3>1, <3>3 DEF Leave, Front
      <4>2. \A i \in 1..(Len(visited) - 1) : visited[i] \in SUBSET Nodes
        BY <3>2
      <4>3. Len(visited') = IF 1 <= Len(visited) - 1 THEN Len(visited) - 1 ELSE 0
        BY <3>2, <4>1, <4>2, SubSeqProperties
      <4> QED BY <3>1, <3>2, <4>3
    <3>4. CASE ~EndsTable
      <4>1. Len(visited') = Len(visited)
        BY <2>1, <3>1, <3>4 DEF Leave
      <4> QED BY <3>1, <4>1
    <3> QED BY <3>3, <3>4
  <2>5. CASE Cut \/ AddColumn \/ KnownArray \/ ArrayOfScalars
    BY <2>5 DEF Cut, AddColumn, KnownArray, ArrayOfScalars
  <2>6. CASE UNCHANGED vars
    BY <2>6 DEF vars
  <2> QED BY <2>2, <2>3, <2>4, <2>5, <2>6 DEF Next
<1> QED BY <1>1, <1>2, Inductive, PTL DEF Spec

(* More calls than nodes would walk a node twice for the same table.       *)
LEMMA Bounded == IInv /\ (flat => Len(visited) <= 1) => LandingBounded
<1> SUFFICES ASSUME IInv, flat, Len(visited) <= 1, Len(stack) > Cardinality(Nodes)
             PROVE  FALSE
  <2>1. Len(stack) \in Nat /\ Cardinality(Nodes) \in Nat
    BY WalkAssumption, LenProperties, FS_CardinalityType DEF IInv, TypeOK
  <2> QED BY <2>1 DEF LandingBounded
<1> DEFINE n == Len(stack)
           f == [i \in 1..n |-> stack[i].node]
<1>1. n \in Nat /\ DOMAIN stack = 1..n /\ \A i \in 1..n : stack[i] \in FrameType
  BY LenProperties, ElementOfSeq DEF IInv, TypeOK
<1>2. f \in [1..n -> Nodes] /\ IsFiniteSet(1..n) /\ Cardinality(1..n) = n
  <2>1. f \in [1..n -> Nodes]
    BY <1>1 DEF FrameType
  <2>2. IsFiniteSet(1..n) /\ Cardinality(1..n) = IF 1 > n THEN 0 ELSE n - 1 + 1
    <3>1. 1 \in Int /\ n \in Int
      BY <1>1
    <3> HIDE DEF n
    <3> QED BY <3>1, FS_Interval
  <2> QED BY <1>1, <2>1, <2>2
<1>3. PICK i \in 1..n, j \in 1..n : i # j /\ f[i] = f[j]
  <2>1. IsFiniteSet(Nodes) /\ Cardinality(Nodes) < Cardinality(1..n)
    BY <1>1, <1>2, WalkAssumption, FS_CardinalityType
  <2> HIDE DEF f
  <2>2. \E x, y \in 1..n : x # y /\ f[x] = f[y]
    BY <1>2, <2>1, FS_PigeonHole
  <2> QED BY <2>2
<1>4. n \in 1..n /\ stack # <<>>
  BY <1>1, <1>3, EmptySeq
<1>5. stack[n].nest = Len(visited) /\ stack[i].nest <= stack[n].nest /\ stack[j].nest <= stack[n].nest
  BY <1>1, <1>4 DEF IInv, Nested, Top
<1>6. stack[i].nest = stack[j].nest
  <2>1. \A x \in 1..n : stack[x].nest \in Nat \ {0}
    BY <1>1 DEF FrameType
  <2>2. stack[n].nest \in Nat /\ stack[n].nest <= 1
    BY <1>4, <1>5, <2>1
  <2>3. \A x \in {i, j} : stack[x].nest = 1
    <3> SUFFICES ASSUME NEW x \in {i, j} PROVE stack[x].nest = 1
      OBVIOUS
    <3>1. stack[x].nest \in Nat \ {0} /\ stack[x].nest <= stack[n].nest
      BY <1>5, <2>1
    <3> QED BY <2>2, <3>1
  <2> QED BY <2>3
<1> QED BY <1>1, <1>3, <1>6 DEF IInv, GuardIsPath

(* Recursive schemas included, the walk of a landing table is no deeper    *)
(* than its schema has nodes (landing/table.go:68-87).                     *)
THEOREM LandingIsBounded == Spec => []LandingBounded
<1> QED BY Inductive, OneTable, Bounded, PTL

-----------------------------------------------------------------------------
(* The columns of a plan: what is still to do on the stack, and the places *)
(* of the calls that have returned, make up all there is to plan.         *)

(* A nonempty set of numbers has a least one.                              *)
LEMMA Least ==
  ASSUME NEW S \in SUBSET Nat, S # {}
  PROVE  \E m \in S : \A j \in S : m <= j
<1> DEFINE R == {p \in Nat \X Nat : p[1] < p[2]}
<1>1. IsWellFoundedOn(R, Nat)
  <2>1. R = OpToRel(<, Nat)
    BY DEF OpToRel
  <2> QED
    BY <2>1, NatLessThanWellFounded
<1>2. PICK m \in S : \A j \in S : ~(<<j, m>> \in R)
  BY <1>1, WFMin
<1>3. ASSUME NEW j \in S PROVE m <= j
  <2>1. <<j, m>> \in Nat \X Nat /\ <<j, m>>[1] = j /\ <<j, m>>[2] = m
    OBVIOUS
  <2>2. ~(j < m)
    BY <1>2, <2>1
  <2> QED
    BY <2>2
<1> QED
  BY <1>3

(* The places one edge beyond those in P.                                  *)
OneBeyond(P) == UNION {UNION {Beyond(p, e) : e \in EdgesAt(p.node)} : p \in P}

Start == {Place(Root, <<>>, <<>>, {Root})}

(* f follows the edges as far as n.                                        *)
Follows(f, n) == f = [i \in 0..n |-> IF i = 0 THEN Start ELSE OneBeyond(f[i - 1])]

(* What it means to follow the edges.                                      *)
LEMMA FollowsAt ==
  ASSUME NEW n \in Nat, NEW f, Follows(f, n)
  PROVE  f[0] = Start /\ \A i \in 0..n : i # 0 => f[i] = OneBeyond(f[i - 1])
BY DEF Follows

(* Two that follow the edges agree as far as both go.                      *)
LEMMA FollowsSame ==
  ASSUME NEW m \in Nat, NEW n \in Nat, NEW f, NEW g, Follows(f, m), Follows(g, n)
  PROVE  \A i \in 0..m : i \in 0..n => f[i] = g[i]
<1> SUFFICES ASSUME \E i \in 0..m : i \in 0..n /\ f[i] # g[i] PROVE FALSE
  OBVIOUS
<1> DEFINE S == {i \in 0..m : i \in 0..n /\ f[i] # g[i]}
<1>1. S \in SUBSET Nat /\ S # {}
  OBVIOUS
<1>2. PICK i \in S : \A j \in S : i <= j
  BY <1>1, Least
<1>3. CASE i = 0
  BY <1>2, <1>3, FollowsAt
<1>4. CASE i # 0
  <2>1. i - 1 \in 0..m /\ i - 1 \in 0..n /\ ~(i <= i - 1)
    BY <1>4
  <2>2. f[i - 1] = g[i - 1]
    BY <1>2, <2>1
  <2>3. f[i] = OneBeyond(f[i - 1]) /\ g[i] = OneBeyond(g[i - 1])
    BY <1>4, FollowsAt
  <2> QED
    BY <2>2, <2>3
<1> QED
  BY <1>3, <1>4

(* The edges can be followed any number of times.                          *)
LEMMA FollowsSome == \A n \in Nat : \E f : Follows(f, n)
<1> SUFFICES ASSUME \E n \in Nat : ~\E f : Follows(f, n) PROVE FALSE
  OBVIOUS
<1> DEFINE S == {n \in Nat : ~\E f : Follows(f, n)}
<1>1. S \in SUBSET Nat /\ S # {}
  OBVIOUS
<1>2. PICK n \in S : \A j \in S : n <= j
  BY <1>1, Least
<1>3. CASE n = 0
  <2> DEFINE f == [i \in 0..0 |-> Start]
  <2>1. f = [i \in 0..0 |-> IF i = 0 THEN Start ELSE OneBeyond(f[i - 1])]
    OBVIOUS
  <2>2. Follows(f, 0)
    BY <2>1 DEF Follows
  <2> QED
    BY <1>3, <2>2
<1>4. CASE n # 0
  <2>1. n - 1 \in Nat /\ ~(n <= n - 1)
    BY <1>4
  <2>2. PICK f : Follows(f, n - 1)
    BY <1>2, <2>1
  <2> DEFINE g == [i \in 0..n |-> IF i = n THEN OneBeyond(f[n - 1]) ELSE f[i]]
  <2>3. f[0] = Start /\ \A i \in 0..(n - 1) : i # 0 => f[i] = OneBeyond(f[i - 1])
    BY <2>1, <2>2, FollowsAt
  <2>4. ASSUME NEW i \in 0..n PROVE g[i] = IF i = 0 THEN Start ELSE OneBeyond(g[i - 1])
    <3>1. CASE i = 0
      BY <1>4, <2>3, <3>1
    <3>2. CASE i = n
      <4>1. i - 1 \in 0..n /\ i - 1 # n
        BY <1>4, <3>2
      <4> QED
        BY <1>4, <3>2, <4>1
    <3>3. CASE i # 0 /\ i # n
      <4>1. i - 1 \in 0..n /\ i - 1 # n /\ i \in 0..(n - 1)
        BY <3>3
      <4> QED
        BY <2>3, <3>3, <4>1
    <3> QED
      BY <3>1, <3>2, <3>3
  <2>5. g = [i \in 0..n |-> IF i = 0 THEN Start ELSE OneBeyond(g[i - 1])]
    <3> HIDE DEF g
    <3>1. g = [i \in 0..n |-> g[i]]
      BY DEF g
    <3> QED
      BY <2>4, <3>1
  <2>6. Follows(g, n)
    BY <2>5 DEF Follows
  <2> QED
    BY <1>2, <2>6
<1> QED
  BY <1>3, <1>4

(* The definition of PlacesAfter does what it says.                        *)
LEMMA PlacesFollow ==
  /\ PlacesAfter[0] = Start
  /\ \A n \in Nat : PlacesAfter[n + 1] = OneBeyond(PlacesAfter[n])
<1> DEFINE Upto(n) == CHOOSE f : Follows(f, n)
           F == [n \in Nat |-> Upto(n)[n]]
           Is(f) == f = [n \in Nat |-> IF n = 0 THEN Start ELSE OneBeyond(f[n - 1])]
<1>1. \A n \in Nat : Follows(Upto(n), n)
  BY FollowsSome
<1> HIDE DEF Upto
<1>2. ASSUME NEW n \in Nat PROVE F[n] = IF n = 0 THEN Start ELSE OneBeyond(F[n - 1])
  <2>1. CASE n = 0
    BY <1>1, <2>1, FollowsAt
  <2>2. CASE n # 0
    <3>1. n - 1 \in Nat /\ n - 1 \in 0..n /\ n - 1 \in 0..(n - 1) /\ n \in 0..n
      BY <2>2
    <3>2. Upto(n)[n - 1] = Upto(n - 1)[n - 1]
      BY <1>1, <3>1, FollowsSame
    <3>3. Upto(n)[n] = OneBeyond(Upto(n)[n - 1])
      BY <1>1, <2>2, <3>1, FollowsAt
    <3> QED
      BY <2>2, <3>1, <3>2, <3>3
  <2> QED
    BY <2>1, <2>2
<1>3. Is(F)
  <2>1. F = [n \in Nat |-> F[n]]
    OBVIOUS
  <2> HIDE DEF F
  <2> QED
    BY <1>2, <2>1
<1>4. PlacesAfter = CHOOSE f : Is(f)
  BY DEF PlacesAfter, Start, OneBeyond
<1>5. Is(PlacesAfter)
  <2> HIDE DEF F, Is
  <2> QED
    BY <1>3, <1>4
<1> HIDE DEF F
<1>6. PlacesAfter[0] = Start
  BY <1>5
<1>7. ASSUME NEW n \in Nat PROVE PlacesAfter[n + 1] = OneBeyond(PlacesAfter[n])
  <2>1. n + 1 \in Nat /\ n + 1 # 0 /\ (n + 1) - 1 = n
    OBVIOUS
  <2> QED
    BY <1>5, <2>1
<1> QED
  BY <1>6, <1>7

-----------------------------------------------------------------------------
(* The walk and the places.                                                *)

(* The nodes on the way from the row of its table to the node of frame i,  *)
(* and the place this frame walks.                                         *)
Seen(i) == {stack[j].node : j \in {k \in 1..i : stack[k].nest = stack[i].nest}}

FramePlace(i) == Place(stack[i].node, stack[i].table, stack[i].prefix, Seen(i))

TopPlace == FramePlace(Len(stack))

Todo(i) == {stack[i].todo[k] : k \in 1..Len(stack[i].todo)}

(* The columns an edge gives.                                              *)
Leaf(p, e) ==
  CASE e.kind = "one" /\ Scalar(e.node) ->
         {[table |-> p.table, path |-> Append(p.prefix, e.key)]}
    [] e.kind = "array" /\ flat ->
         {[table |-> p.table, path |-> Append(p.prefix, e.key)]}
    [] e.kind = "array" /\ ~flat /\ Scalar(e.node) ->
         {[table |-> Append(p.table, Append(p.prefix, e.key)), path |-> <<>>]}
    [] OTHER -> {}

(* Where the rows of a child table start, and its column when it is one of *)
(* scalars.                                                                *)
ItemsPlace(t, n) == Place(n, t, <<>>, {n})

ValueColumn(t) == [table |-> t, path |-> <<>>]

(* The call for frame i is one of the walk; the first frame of a child     *)
(* table is at its items.                                                  *)
FrameInv ==
  /\ Len(stack) <= MaxDepth + 1
  /\ \A i \in 1..Len(stack) :
       /\ Todo(i) \subseteq EdgesAt(stack[i].node)
       /\ Scalar(stack[i].node) \/ FramePlace(i) \in PlacesAfter[i - 1]
       /\ i > 1 /\ stack[i - 1].nest # stack[i].nest =>
            /\ stack[i].prefix = <<>> /\ ~Scalar(stack[i].node)
            /\ <<stack[i].table, stack[i].node>> \in Arrays

AllColumns == UNION {ColumnsAt(p) : p \in Places}

Followed(p, e, S) == Leaf(p, e) \subseteq columns /\ Beyond(p, e) \subseteq S

(* S is places that are walked: from those whose call has returned every   *)
(* edge has been followed, from the others those not left to do.  A table  *)
(* is registered when its items are among them.                            *)
Covers(S) ==
  /\ Start \subseteq S
  /\ \A i \in 1..Len(stack) :
       /\ FramePlace(i) \in S
       /\ \A e \in EdgesAt(stack[i].node) \ Todo(i) : Followed(FramePlace(i), e, S)
  /\ \A p \in S :
       \/ \E i \in 1..Len(stack) : p = FramePlace(i)
       \/ \A e \in EdgesAt(p.node) : Followed(p, e, S)
  /\ \A t \in tables : \E n \in Nodes :
       /\ <<t, n>> \in Arrays
       /\ IF Scalar(n) THEN ValueColumn(t) \in columns ELSE ItemsPlace(t, n) \in S

(* No two arrays with different items have one name.                       *)
Distinct == \A a, b \in Arrays : a[1] = b[1] => a = b

PlanInv ==
  /\ FrameInv
  /\ columns \subseteq AllColumns
  /\ Distinct => \E S : Covers(S)

(* What is said of the schema alone does not change.                       *)
LEMMA SchemaStays ==
  ASSUME UNCHANGED <<graph, flat>>
  PROVE  /\ \A n : EdgesAt(n)' = EdgesAt(n) /\ Scalar(n)' = Scalar(n)
         /\ \A p, e : Beyond(p, e)' = Beyond(p, e) /\ Leaf(p, e)' = Leaf(p, e)
         /\ PlacesAfter' = PlacesAfter /\ Arrays' = Arrays /\ AllColumns' = AllColumns
<1>1. \A n : EdgesAt(n)' = EdgesAt(n) /\ Scalar(n)' = Scalar(n)
  BY DEF EdgesAt, Edges, Scalar
<1>2. \A p, e : Beyond(p, e)' = Beyond(p, e) /\ Leaf(p, e)' = Leaf(p, e)
  BY DEF Beyond, Leaf, Scalar, Place
<1>3. PlacesAfter' = PlacesAfter
  BY DEF PlacesAfter, EdgesAt, Edges, Beyond, Scalar, Place
<1>4. Places' = Places
  BY <1>3 DEF Places
<1>5. Arrays' = Arrays
  BY <1>1, <1>4 DEF Arrays
<1>6. \A p : ColumnsAt(p)' = ColumnsAt(p)
  BY DEF ColumnsAt, EdgesAt, Edges, Scalar
<1>7. AllColumns' = AllColumns
  BY <1>4, <1>6 DEF AllColumns
<1> QED
  BY <1>1, <1>2, <1>3, <1>5, <1>7

(* The columns at a place are those its edges give.                        *)
LEMMA ColumnsLeaf == \A p : ColumnsAt(p) = UNION {Leaf(p, e) : e \in EdgesAt(p.node)}
BY DEF ColumnsAt, Leaf

(* The edges of a node, and there are none at a scalar.                    *)
LEMMA NodeEdges ==
  ASSUME graph \in Graphs, NEW n \in Nodes
  PROVE  /\ EdgesAt(n) = {Edges(n)[k] : k \in 1..Len(Edges(n))}
         /\ Scalar(n) => EdgesAt(n) = {}
<1>1. Edges(n) \in Seq(EdgeType) /\ DOMAIN Edges(n) = 1..Len(Edges(n))
  BY EdgesType, LenProperties
<1>2. ASSUME Scalar(n) PROVE Len(Edges(n)) = 0
  <2> DEFINE v == graph[n].variants
             e == [i \in DOMAIN v |-> [kind |-> "variant", node |-> v[i]]]
  <2>1. v = <<>> /\ graph[n].props = <<>> /\ Edges(n) = e \o graph[n].props
    BY <1>2 DEF Scalar, Edges
  <2>2. DOMAIN v = {}
    BY <2>1
  <2>3. e = <<>>
    BY <2>2
  <2> QED
    BY <2>1, <2>3
<1> QED
  BY <1>1, <1>2 DEF EdgesAt

(* Following an edge leaves every frame at its place, with one edge less   *)
(* to do at the top.                                                       *)
LEMMA FramesStay ==
  ASSUME TypeOK, NEW kinds, At(kinds), NEW m, m = Len(stack),
         stack' \in Seq(FrameType), Len(stack') \in {m, m + 1},
         \A i \in 1..m : stack'[i] = Past[i]
  PROVE  \A i \in 1..m :
           /\ FramePlace(i)' = FramePlace(i)
           /\ stack'[i].node = stack[i].node /\ stack'[i].nest = stack[i].nest
           /\ stack'[i].table = stack[i].table /\ stack'[i].prefix = stack[i].prefix
           /\ Todo(i)' \subseteq Todo(i)
           /\ Todo(i) \subseteq Todo(i)' \cup (IF i = m THEN {Edge} ELSE {})
<1>1. /\ stack \in Seq(FrameType) /\ m \in Nat \ {0} /\ Top \in FrameType
      /\ Top = stack[m] /\ Top.todo # <<>>
  BY PastEdge DEF TypeOK, At, Top
<1>2. \A i \in 1..m : stack[i] \in FrameType
  BY <1>1, ElementOfSeq
<1> DEFINE rest == Tail(Top.todo)
<1>3. /\ Top.todo \in Seq(EdgeType) /\ rest \in Seq(EdgeType)
      /\ Len(Top.todo) \in Nat \ {0} /\ Len(rest) = Len(Top.todo) - 1
      /\ \A k \in 1..Len(rest) : rest[k] = Top.todo[k + 1]
  <2>1. Top.todo \in Seq(EdgeType)
    BY <1>1 DEF FrameType
  <2>2. Len(Top.todo) \in Nat \ {0}
    BY <1>1, <2>1, EmptySeq, LenProperties
  <2> QED
    BY <1>1, <2>1, <2>2, HeadTailProperties
<1>4. \A i \in 1..m : Past[i] = IF i = m THEN [Top EXCEPT !.todo = rest] ELSE stack[i]
  <2>1. Past = [stack EXCEPT ![m] = [Top EXCEPT !.todo = rest]]
    BY <1>1 DEF Past
  <2>2. DOMAIN stack = 1..m
    BY <1>1, LenProperties
  <2> QED
    BY <2>1, <2>2
<1>5. \A i \in 1..m :
        /\ stack'[i].node = stack[i].node /\ stack'[i].nest = stack[i].nest
        /\ stack'[i].table = stack[i].table /\ stack'[i].prefix = stack[i].prefix
        /\ stack'[i].todo = IF i = m THEN rest ELSE stack[i].todo
  <2> SUFFICES ASSUME NEW i \in 1..m
               PROVE  /\ stack'[i].node = stack[i].node /\ stack'[i].nest = stack[i].nest
                      /\ stack'[i].table = stack[i].table /\ stack'[i].prefix = stack[i].prefix
                      /\ stack'[i].todo = IF i = m THEN rest ELSE stack[i].todo
    OBVIOUS
  <2> HIDE DEF rest
  <2>1. CASE i = m
    <3>1. stack'[i] = [Top EXCEPT !.todo = rest]
      BY <1>4, <2>1
    <3> QED
      BY <1>1, <2>1, <3>1 DEF FrameType
  <2>2. CASE i # m
    BY <1>4, <2>2
  <2> QED
    BY <2>1, <2>2
<1> HIDE DEF rest
<1>6. ASSUME NEW i \in 1..m PROVE Seen(i)' = Seen(i)
  <2>1. \A k \in 1..i : k \in 1..m
    BY <1>1
  <2>2. {k \in 1..i : stack'[k].nest = stack'[i].nest} = {k \in 1..i : stack[k].nest = stack[i].nest}
    BY <1>5, <2>1
  <2>3. \A k \in 1..i : stack'[k].node = stack[k].node
    BY <1>5, <2>1
  <2> QED
    BY <2>2, <2>3 DEF Seen
<1>7. ASSUME NEW i \in 1..m PROVE FramePlace(i)' = FramePlace(i)
  BY <1>5, <1>6 DEF FramePlace
<1>8. ASSUME NEW i \in 1..m
      PROVE  /\ Todo(i)' \subseteq Todo(i)
             /\ Todo(i) \subseteq Todo(i)' \cup (IF i = m THEN {Edge} ELSE {})
  <2>1. CASE i = m
    <3>1. \A k \in 1..Len(rest) : k + 1 \in 1..Len(Top.todo)
      BY <1>3
    <3>2. Todo(i)' = {rest[k] : k \in 1..Len(rest)} /\ Todo(i) = {Top.todo[k] : k \in 1..Len(Top.todo)}
      BY <1>1, <1>5, <2>1 DEF Todo
    <3>3. Todo(i)' \subseteq Todo(i)
      <4> SUFFICES ASSUME NEW k \in 1..Len(rest) PROVE rest[k] \in Todo(i)
        BY <3>2
      <4>1. rest[k] = Top.todo[k + 1] /\ k + 1 \in 1..Len(Top.todo)
        BY <1>3, <3>1
      <4> QED
        BY <3>2, <4>1
    <3>4. ASSUME NEW k \in 1..Len(Top.todo) PROVE Top.todo[k] \in Todo(i)' \cup {Edge}
      <4>1. CASE k = 1
        BY <4>1 DEF Edge
      <4>2. CASE k # 1
        <5>1. k - 1 \in 1..Len(rest) /\ (k - 1) + 1 = k
          BY <1>3, <4>2
        <5>2. Top.todo[k] = rest[k - 1]
          BY <1>3, <5>1
        <5>3. rest[k - 1] \in {rest[j] : j \in 1..Len(rest)}
          BY <5>1
        <5> QED
          BY <3>2, <5>2, <5>3
      <4> QED
        BY <4>1, <4>2
    <3> QED
      BY <2>1, <3>2, <3>3, <3>4
  <2>2. CASE i # m
    BY <1>5, <2>2 DEF Todo
  <2> QED
    BY <2>1, <2>2
<1> QED
  BY <1>5, <1>7, <1>8

(* The walk of the top: its node is no scalar, its place one of the        *)
(* places, and the cycle guard is what was seen on the way to it.          *)
LEMMA AtPlace ==
  ASSUME IInv, FrameInv, NEW kinds, At(kinds), NEW m, m = Len(stack)
  PROVE  /\ m \in 1..(MaxDepth + 1) /\ Edge \in EdgesAt(Top.node) /\ ~Scalar(Top.node)
         /\ TopPlace = Place(Top.node, Top.table, Top.prefix, visited[Len(visited)])
         /\ TopPlace \in PlacesAfter[m - 1] /\ TopPlace \in Places
<1>1. /\ stack \in Seq(FrameType) /\ m \in Nat \ {0} /\ Top \in FrameType
      /\ Top = stack[m] /\ Top.todo # <<>> /\ DOMAIN stack = 1..m
  BY PastEdge, LenProperties DEF IInv, TypeOK, At, Top
<1>2. \A i \in 1..m : stack[i] \in FrameType
  BY <1>1, ElementOfSeq
<1>3. MaxDepth \in Nat /\ m <= MaxDepth + 1
  BY WalkAssumption DEF FrameInv
<1>a. m \in 1..m /\ Todo(m) \subseteq EdgesAt(stack[m].node)
      /\ (Scalar(stack[m].node) \/ FramePlace(m) \in PlacesAfter[m - 1])
  <2>1. \A i \in 1..m : Todo(i) \subseteq EdgesAt(stack[i].node)
                      /\ (Scalar(stack[i].node) \/ FramePlace(i) \in PlacesAfter[i - 1])
    BY DEF FrameInv
  <2>2. m \in 1..m
    BY <1>1
  <2> QED
    BY <2>1, <2>2
<1>4. Edge \in EdgesAt(Top.node)
  <2>1. Top.todo \in Seq(EdgeType)
    BY <1>1 DEF FrameType
  <2>2. 1 \in 1..Len(Top.todo)
    BY <1>1, <2>1, EmptySeq, LenProperties
  <2>3. Edge \in Todo(m)
    BY <1>1, <2>2 DEF Edge, Todo
  <2> QED
    BY <1>1, <1>a, <2>3
<1>5. ~Scalar(Top.node)
  <2>1. Top.node \in Nodes /\ graph \in Graphs
    BY <1>1 DEF IInv, TypeOK, FrameType
  <2>2. Scalar(Top.node) => EdgesAt(Top.node) = {}
    BY <2>1, NodeEdges
  <2> QED
    BY <1>4, <2>2
<1>6. Seen(m) = visited[Len(visited)]
  <2>1. Len(visited) = stack[m].nest /\ visited \in Seq(SUBSET Nodes) /\ stack[m].nest \in Nat \ {0}
    BY <1>1 DEF IInv, Nested, TypeOK, FrameType, At
  <2>2. Len(visited) \in DOMAIN visited
    BY <2>1, LenProperties
  <2>3. visited[Len(visited)] = {x \in Nodes : \E i \in 1..m : stack[i].nest = stack[m].nest /\ stack[i].node = x}
    <3>1. \A k \in DOMAIN visited :
            visited[k] = {x \in Nodes : \E i \in DOMAIN stack : stack[i].nest = k /\ stack[i].node = x}
      BY DEF IInv, GuardIsPath
    <3> QED
      BY <1>1, <2>1, <2>2, <3>1
  <2>4. \A i \in 1..m : stack[i].node \in Nodes
    BY <1>2 DEF FrameType
  <2>5. \A x : x \in Seen(m) <=> \E i \in 1..m : stack[i].nest = stack[m].nest /\ stack[i].node = x
    BY DEF Seen
  <2> QED
    BY <2>3, <2>4, <2>5
<1>7. TopPlace = Place(Top.node, Top.table, Top.prefix, visited[Len(visited)])
  BY <1>1, <1>6 DEF TopPlace, FramePlace
<1>8. TopPlace \in PlacesAfter[m - 1]
  BY <1>1, <1>5, <1>a DEF TopPlace
<1>9. TopPlace \in Places
  <2>1. m - 1 \in 0..MaxDepth
    BY <1>1, <1>3
  <2> QED
    BY <1>8, <2>1 DEF Places
<1> QED
  BY <1>1, <1>3, <1>4, <1>5, <1>7, <1>8, <1>9

(* Where the edge under way leads is a place of the walk, one edge further;*)
(* the columns it gives are columns there are, and an array is an array    *)
(* there is.                                                               *)
LEMMA Leads ==
  ASSUME IInv, FrameInv, NEW kinds, At(kinds), NEW m, m = Len(stack)
  PROVE  /\ Beyond(TopPlace, Edge) \subseteq PlacesAfter[m]
         /\ Leaf(TopPlace, Edge) \subseteq AllColumns
         /\ Edge.kind = "array" => <<Child, Edge.node>> \in Arrays
<1>1. /\ m \in 1..(MaxDepth + 1) /\ Edge \in EdgesAt(Top.node)
      /\ TopPlace = Place(Top.node, Top.table, Top.prefix, visited[Len(visited)])
      /\ TopPlace \in PlacesAfter[m - 1] /\ TopPlace \in Places
  BY AtPlace
<1>2. /\ TopPlace.node = Top.node /\ TopPlace.table = Top.table /\ TopPlace.prefix = Top.prefix
  BY <1>1 DEF Place
<1>3. Beyond(TopPlace, Edge) \subseteq OneBeyond(PlacesAfter[m - 1])
  BY <1>1, <1>2 DEF OneBeyond
<1>4. PlacesAfter[m] = OneBeyond(PlacesAfter[m - 1])
  <2>1. m - 1 \in Nat /\ (m - 1) + 1 = m
    BY <1>1, WalkAssumption
  <2>2. PlacesAfter[(m - 1) + 1] = OneBeyond(PlacesAfter[m - 1])
    BY <2>1, PlacesFollow
  <2> QED
    BY <2>1, <2>2
<1>5. Leaf(TopPlace, Edge) \subseteq ColumnsAt(TopPlace)
  BY <1>1, <1>2, ColumnsLeaf
<1>6. Leaf(TopPlace, Edge) \subseteq AllColumns
  BY <1>1, <1>5 DEF AllColumns
<1>7. ASSUME Edge.kind = "array" PROVE <<Child, Edge.node>> \in Arrays
  <2>1. Child = Append(TopPlace.table, Append(TopPlace.prefix, Edge.key))
    BY <1>2 DEF Child, Path
  <2>2. Edge \in {x \in EdgesAt(TopPlace.node) : x.kind = "array"}
    BY <1>1, <1>2, <1>7
  <2>3. PICK q \in Places : q = TopPlace
    BY <1>1
  <2>4. \A p \in Places : \A e \in {x \in EdgesAt(p.node) : x.kind = "array"} :
          <<Append(p.table, Append(p.prefix, e.key)), e.node>> \in Arrays
    BY DEF Arrays
  <2> QED
    BY <2>1, <2>2, <2>3, <2>4
<1> QED
  BY <1>3, <1>4, <1>6, <1>7

(* A step along an edge keeps the frames calls of the walk, if a frame it  *)
(* adds is one.                                                            *)
LEMMA FramesStep ==
  ASSUME TypeOK, FrameInv, NEW kinds, At(kinds), UNCHANGED <<graph, flat>>,
         NEW m, m = Len(stack),
         stack' \in Seq(FrameType), Len(stack') \in {m, m + 1},
         \A i \in 1..m : stack'[i] = Past[i],
         Len(stack') = m + 1 =>
           /\ m < MaxDepth
           /\ Todo(m + 1)' \subseteq EdgesAt(stack'[m + 1].node)
           /\ Scalar(stack'[m + 1].node) \/ FramePlace(m + 1)' \in PlacesAfter[m]
           /\ stack[m].nest # stack'[m + 1].nest =>
                /\ stack'[m + 1].prefix = <<>> /\ ~Scalar(stack'[m + 1].node)
                /\ <<stack'[m + 1].table, stack'[m + 1].node>> \in Arrays
  PROVE  FrameInv'
<1>1. m \in Nat \ {0} /\ MaxDepth \in Nat
  BY PastEdge, WalkAssumption
<1>2. /\ \A n : EdgesAt(n)' = EdgesAt(n) /\ Scalar(n)' = Scalar(n)
      /\ PlacesAfter' = PlacesAfter /\ Arrays' = Arrays
  BY SchemaStays
<1>3. \A i \in 1..m :
        /\ FramePlace(i)' = FramePlace(i)
        /\ stack'[i].node = stack[i].node /\ stack'[i].nest = stack[i].nest
        /\ stack'[i].table = stack[i].table /\ stack'[i].prefix = stack[i].prefix
        /\ Todo(i)' \subseteq Todo(i)
  BY FramesStay
<1>4. Len(stack') <= MaxDepth + 1
  <2>1. Len(stack) <= MaxDepth + 1
    BY DEF FrameInv
  <2> QED
    BY <1>1, <2>1
<1>5. ASSUME NEW i \in 1..Len(stack')
      PROVE  /\ Todo(i)' \subseteq EdgesAt(stack'[i].node)
             /\ Scalar(stack'[i].node) \/ FramePlace(i)' \in PlacesAfter[i - 1]
             /\ i > 1 /\ stack'[i - 1].nest # stack'[i].nest =>
                  /\ stack'[i].prefix = <<>> /\ ~Scalar(stack'[i].node)
                  /\ <<stack'[i].table, stack'[i].node>> \in Arrays
  <2>1. CASE i \in 1..m
    <3>1. /\ Todo(i) \subseteq EdgesAt(stack[i].node)
          /\ Scalar(stack[i].node) \/ FramePlace(i) \in PlacesAfter[i - 1]
          /\ i > 1 /\ stack[i - 1].nest # stack[i].nest =>
               /\ stack[i].prefix = <<>> /\ ~Scalar(stack[i].node)
               /\ <<stack[i].table, stack[i].node>> \in Arrays
      BY <2>1 DEF FrameInv
    <3>2. i > 1 => i - 1 \in 1..m
      BY <1>1, <2>1
    <3>3. /\ FramePlace(i)' = FramePlace(i)
          /\ stack'[i].node = stack[i].node /\ stack'[i].nest = stack[i].nest
          /\ stack'[i].table = stack[i].table /\ stack'[i].prefix = stack[i].prefix
          /\ Todo(i)' \subseteq Todo(i)
      BY <1>3, <2>1
    <3>4. i > 1 => stack'[i - 1].nest = stack[i - 1].nest
      BY <1>3, <3>2
    <3> QED
      BY <3>1, <3>3, <3>4
  <2>2. CASE i = m + 1
    <3>1. Len(stack') = m + 1 /\ (m + 1) - 1 = m /\ m \in 1..m
      BY <1>1, <2>2
    <3>2. stack'[m].nest = stack[m].nest
      BY <1>3, <3>1
    <3> QED
      BY <2>2, <3>1, <3>2
  <2> QED
    BY <1>1, <2>1, <2>2
<1> QED
  BY <1>2, <1>4, <1>5 DEF FrameInv

(* A step along an edge keeps S, with the place of a frame it adds, the    *)
(* places that are walked, if the columns of the edge are planned and the  *)
(* place it leads to is walked.                                            *)
LEMMA CoversStep ==
  ASSUME TypeOK, NEW kinds, At(kinds), UNCHANGED <<graph, flat>>,
         NEW m, m = Len(stack),
         stack' \in Seq(FrameType), Len(stack') \in {m, m + 1},
         \A i \in 1..m : stack'[i] = Past[i],
         NEW S, NEW N, Covers(S),
         columns \subseteq columns', Leaf(TopPlace, Edge) \subseteq columns',
         Beyond(TopPlace, Edge) \subseteq S \cup N,
         \A p \in N : Len(stack') = m + 1 /\ p = FramePlace(m + 1)',
         Len(stack') = m + 1 =>
           FramePlace(m + 1)' \in N /\ EdgesAt(stack'[m + 1].node) \subseteq Todo(m + 1)',
         \A t \in tables' \ tables : \E n \in Nodes :
           /\ <<t, n>> \in Arrays
           /\ IF Scalar(n) THEN ValueColumn(t) \in columns' ELSE ItemsPlace(t, n) \in S \cup N
  PROVE  \E T : Covers(T)'
<1> DEFINE T == S \cup N
<1>1. m \in Nat \ {0}
  BY PastEdge
<1>2. /\ \A n : EdgesAt(n)' = EdgesAt(n) /\ Scalar(n)' = Scalar(n)
      /\ \A p, e : Beyond(p, e)' = Beyond(p, e) /\ Leaf(p, e)' = Leaf(p, e)
      /\ Arrays' = Arrays
  BY SchemaStays
<1>3. \A i \in 1..m :
        /\ FramePlace(i)' = FramePlace(i) /\ stack'[i].node = stack[i].node
        /\ Todo(i) \subseteq Todo(i)' \cup (IF i = m THEN {Edge} ELSE {})
  BY FramesStay
<1>4. \A p, e : Followed(p, e, S) => Followed(p, e, T)'
  BY <1>2 DEF Followed
<1>5. PICK P, E : P = TopPlace /\ E = Edge
  OBVIOUS
<1>6. Followed(P, E, T)'
  <2>1. \A p, e : (Leaf(p, e) \subseteq columns' /\ Beyond(p, e) \subseteq T) => Followed(p, e, T)'
    BY <1>2 DEF Followed
  <2>2. Leaf(P, E) \subseteq columns' /\ Beyond(P, E) \subseteq T
    BY <1>5
  <2> QED
    BY <2>1, <2>2
<1>7. /\ Start \subseteq S
      /\ \A i \in 1..m :
           /\ FramePlace(i) \in S
           /\ \A e \in EdgesAt(stack[i].node) \ Todo(i) : Followed(FramePlace(i), e, S)
      /\ \A p \in S :
           \/ \E i \in 1..m : p = FramePlace(i)
           \/ \A e \in EdgesAt(p.node) : Followed(p, e, S)
      /\ \A t \in tables : \E n \in Nodes :
           /\ <<t, n>> \in Arrays
           /\ IF Scalar(n) THEN ValueColumn(t) \in columns ELSE ItemsPlace(t, n) \in S
  BY DEF Covers
<1>8. ASSUME NEW i \in 1..Len(stack')
      PROVE  /\ FramePlace(i)' \in T
             /\ \A e \in (EdgesAt(stack[i].node) \ Todo(i))' : Followed(FramePlace(i), e, T)'
  <2>1. CASE i \in 1..m
    <3>1. PICK Q, R, D : Q = FramePlace(i) /\ R = EdgesAt(stack[i].node) /\ D = Todo(i)'
      OBVIOUS
    <3>2. FramePlace(i)' = Q /\ Q \in T /\ EdgesAt(stack[i].node)' = R
      BY <1>2, <1>3, <1>7, <2>1, <3>1
    <3>3. ASSUME NEW e \in R \ D PROVE Followed(Q, e, T)'
      <4>1. CASE e \in Todo(i)
        <5>1. i = m /\ e = E
          BY <1>3, <1>5, <2>1, <3>1, <3>3, <4>1
        <5>2. Q = P
          BY <1>5, <3>1, <5>1 DEF TopPlace
        <5> QED
          BY <1>6, <5>1, <5>2
      <4>2. CASE e \notin Todo(i)
        <5>1. Followed(Q, e, S)
          BY <1>7, <2>1, <3>1, <3>3, <4>2
        <5> QED
          BY <1>4, <5>1
      <4> QED
        BY <4>1, <4>2
    <3>4. ASSUME NEW e \in (EdgesAt(stack[i].node) \ Todo(i))' PROVE Followed(FramePlace(i), e, T)'
      <4>1. e \in R \ D
        BY <3>1, <3>2
      <4>2. Followed(Q, e, T)'
        BY <3>3, <4>1
      <4> QED
        BY <3>2, <4>2 DEF Followed
    <3> QED
      BY <3>2, <3>4
  <2>2. CASE i = m + 1
    <3>1. Len(stack') = m + 1
      BY <1>1, <2>2
    <3>2. FramePlace(i)' \in T /\ EdgesAt(stack'[i].node) \subseteq Todo(i)'
      BY <2>2, <3>1
    <3>3. EdgesAt(stack[i].node)' = EdgesAt(stack'[i].node)
      BY <1>2
    <3> QED
      BY <3>2, <3>3
  <2>3. i \in 1..m \/ i = m + 1
    BY <1>1
  <2> QED
    BY <2>1, <2>2, <2>3
<1>9. ASSUME NEW p \in T
      PROVE  \/ \E i \in 1..Len(stack') : p = FramePlace(i)'
             \/ \A e \in EdgesAt(p.node)' : Followed(p, e, T)'
  <2>1. CASE p \in N
    <3>1. Len(stack') = m + 1 /\ p = FramePlace(m + 1)' /\ m + 1 \in 1..Len(stack')
      BY <1>1, <2>1
    <3> QED
      BY <3>1
  <2>2. CASE \E i \in 1..m : p = FramePlace(i)
    <3>1. PICK i \in 1..m : p = FramePlace(i)
      BY <2>2
    <3>2. i \in 1..Len(stack') /\ p = FramePlace(i)'
      BY <1>1, <1>3, <3>1
    <3> QED
      BY <3>2
  <2>3. CASE \A e \in EdgesAt(p.node) : Followed(p, e, S)
    BY <1>2, <1>4, <2>3
  <2> QED
    BY <1>7, <2>1, <2>2, <2>3
<1>10. ASSUME NEW t \in tables'
       PROVE  \E n \in Nodes :
                /\ <<t, n>> \in Arrays
                /\ IF Scalar(n) THEN ValueColumn(t) \in columns' ELSE ItemsPlace(t, n) \in T
  <2>1. CASE t \in tables
    <3>1. PICK n \in Nodes : /\ <<t, n>> \in Arrays
                             /\ IF Scalar(n) THEN ValueColumn(t) \in columns ELSE ItemsPlace(t, n) \in S
      BY <1>7, <2>1
    <3> QED
      BY <3>1
  <2>2. CASE t \notin tables
    BY <2>2, <1>10
  <2> QED
    BY <2>1, <2>2
<1>11. Start \subseteq T /\ Start' = Start
  BY <1>7 DEF Start, Place
<1> HIDE DEF T
<1>12. Covers(T)'
  BY <1>2, <1>8, <1>9, <1>10, <1>11 DEF Covers, ValueColumn, ItemsPlace, Place
<1> QED
  BY <1>12

(* The frame of a call has all its edges to do; what it has seen is what   *)
(* its caller has, and its node, or its node alone in a new table.         *)
LEMMA CalledFrame ==
  ASSUME IInv, FrameInv, NEW kinds, At(kinds), NEW m, m = Len(stack),
         UNCHANGED graph,
         NEW f, f \in FrameType, f = Frame(f.node, f.nest, f.table, f.prefix),
         f.nest \in {Top.nest, Top.nest + 1}, stack' = Append(Past, f)
  PROVE  /\ Len(stack') = m + 1 /\ stack' \in Seq(FrameType)
         /\ \A i \in 1..m : stack'[i] = Past[i]
         /\ stack'[m + 1] = f
         /\ Todo(m + 1)' = EdgesAt(f.node)
         /\ FramePlace(m + 1)' =
              Place(f.node, f.table, f.prefix,
                    IF f.nest = Top.nest THEN TopPlace.seen \cup {f.node} ELSE {f.node})
<1>1. /\ stack \in Seq(FrameType) /\ m \in Nat \ {0} /\ Top \in FrameType
      /\ Top = stack[m] /\ DOMAIN stack = 1..m
      /\ Past \in Seq(FrameType) /\ Len(Past) = m
      /\ \A i \in 1..m : Past[i].node = stack[i].node /\ Past[i].nest = stack[i].nest
  BY PastEdge, LenProperties DEF IInv, TypeOK, At, Top
<1>2. /\ Len(stack') = m + 1 /\ stack' \in Seq(FrameType)
      /\ \A i \in 1..m : stack'[i] = Past[i]
      /\ stack'[m + 1] = f
  BY <1>1, AppendProperties
<1>3. \A i \in 1..m : stack'[i].node = stack[i].node /\ stack'[i].nest = stack[i].nest
  BY <1>1, <1>2
<1>4. Todo(m + 1)' = EdgesAt(f.node)
  <2>1. f.todo = Edges(f.node) /\ f.node \in Nodes /\ graph \in Graphs
    BY DEF Frame, FrameType, IInv, TypeOK
  <2>2. Todo(m + 1)' = {f.todo[k] : k \in 1..Len(f.todo)}
    BY <1>2 DEF Todo
  <2>3. EdgesAt(f.node) = {Edges(f.node)[k] : k \in 1..Len(Edges(f.node))}
    BY <2>1, NodeEdges
  <2> QED
    BY <2>1, <2>2, <2>3
<1>5. \A i \in 1..m : stack[i].nest \in Nat /\ stack[i].nest <= Top.nest
  <2> SUFFICES ASSUME NEW i \in 1..m PROVE stack[i].nest \in Nat /\ stack[i].nest <= Top.nest
    OBVIOUS
  <2>1. stack[i] \in FrameType
    BY <1>1, ElementOfSeq
  <2>2. i \in DOMAIN stack /\ m \in DOMAIN stack /\ i <= m
    BY <1>1
  <2> QED
    BY <1>1, <2>1, <2>2 DEF IInv, Nested, FrameType
<1>6. Top.nest \in Nat
  BY <1>1 DEF FrameType
<1>7. TopPlace.seen = Seen(m)
  BY DEF TopPlace, FramePlace, Place
<1>8. \A x : x \in Seen(m + 1)' <=>
        \/ x = f.node
        \/ \E k \in 1..m : stack[k].nest = f.nest /\ stack[k].node = x
  <2>1. \A x : x \in Seen(m + 1)' <=>
          \E k \in 1..(m + 1) : stack'[k].nest = stack'[m + 1].nest /\ stack'[k].node = x
    BY DEF Seen
  <2>2. 1..(m + 1) = (1..m) \cup {m + 1}
    BY <1>1
  <2> QED
    BY <1>2, <1>3, <2>1, <2>2
<1>9. \A x : x \in Seen(m) <=> \E k \in 1..m : stack[k].nest = Top.nest /\ stack[k].node = x
  BY <1>1 DEF Seen
<1>10. Seen(m + 1)' = IF f.nest = Top.nest THEN TopPlace.seen \cup {f.node} ELSE {f.node}
  <2>1. CASE f.nest = Top.nest
    BY <1>7, <1>8, <1>9, <2>1
  <2>2. CASE f.nest # Top.nest
    <3>1. \A k \in 1..m : stack[k].nest # f.nest
      BY <1>5, <1>6, <2>2
    <3>2. \A x : x \in Seen(m + 1)' <=> x \in {f.node}
      BY <1>8, <3>1
    <3> QED
      BY <2>2, <3>2
  <2> QED
    BY <2>1, <2>2
<1>11. FramePlace(m + 1)' = Place(f.node, f.table, f.prefix, Seen(m + 1)')
  BY <1>2 DEF FramePlace
<1> QED
  BY <1>2, <1>4, <1>10, <1>11

(* A step along an edge keeps the plan right.                              *)
LEMMA EdgeStep ==
  ASSUME IInv, PlanInv, NEW kinds, At(kinds), UNCHANGED <<graph, flat>>,
         NEW m, m = Len(stack),
         stack' \in Seq(FrameType), Len(stack') \in {m, m + 1},
         \A i \in 1..m : stack'[i] = Past[i],
         Len(stack') = m + 1 =>
           /\ m < MaxDepth
           /\ Todo(m + 1)' = EdgesAt(stack'[m + 1].node)
           /\ Scalar(stack'[m + 1].node) \/ FramePlace(m + 1)' \in PlacesAfter[m]
           /\ stack[m].nest # stack'[m + 1].nest =>
                /\ stack'[m + 1].prefix = <<>> /\ ~Scalar(stack'[m + 1].node)
                /\ <<stack'[m + 1].table, stack'[m + 1].node>> \in Arrays,
         columns \subseteq columns', columns' \subseteq columns \cup Leaf(TopPlace, Edge),
         Distinct => \A S : Covers(S) =>
           /\ Leaf(TopPlace, Edge) \subseteq columns'
           /\ \A p \in Beyond(TopPlace, Edge) :
                p \in S \/ (Len(stack') = m + 1 /\ p = FramePlace(m + 1)'),
         \A t \in tables' \ tables : \E n \in Nodes :
           <<t, n>> \in Arrays /\ Scalar(n) /\ ValueColumn(t) \in columns'
  PROVE  PlanInv'
<1>1. TypeOK /\ FrameInv /\ columns \subseteq AllColumns /\ (Distinct => \E S : Covers(S))
  BY DEF IInv, PlanInv
<1>2. FrameInv'
  BY <1>1, FramesStep
<1>3. AllColumns' = AllColumns /\ Arrays' = Arrays
  BY SchemaStays
<1>4. columns' \subseteq AllColumns
  BY <1>1, Leads
<1>5. ASSUME Distinct PROVE \E T : Covers(T)'
  <2>1. PICK S : Covers(S)
    BY <1>1, <1>5
  <2>2. PICK N : N = IF Len(stack') = m + 1 THEN {FramePlace(m + 1)'} ELSE {}
    OBVIOUS
  <2>3. \A p \in N : Len(stack') = m + 1 /\ p = FramePlace(m + 1)'
    BY <2>2
  <2>4. Len(stack') = m + 1 =>
          FramePlace(m + 1)' \in N /\ EdgesAt(stack'[m + 1].node) \subseteq Todo(m + 1)'
    BY <2>2
  <2>5. Beyond(TopPlace, Edge) \subseteq S \cup N
    BY <1>5, <2>1, <2>2
  <2>6. \A t \in tables' \ tables : \E n \in Nodes :
          /\ <<t, n>> \in Arrays
          /\ IF Scalar(n) THEN ValueColumn(t) \in columns' ELSE ItemsPlace(t, n) \in S \cup N
    OBVIOUS
  <2>7. columns \subseteq columns' /\ Leaf(TopPlace, Edge) \subseteq columns'
    BY <1>5, <2>1
  <2> QED
    BY <1>1, <2>1, <2>3, <2>4, <2>5, <2>6, <2>7, CoversStep
<1>6. Distinct' = Distinct
  BY <1>3 DEF Distinct
<1> QED
  BY <1>2, <1>3, <1>4, <1>5, <1>6 DEF PlanInv

(* A node that is entered, or cut: no column, and the place of the call, or*)
(* none.                                                                   *)
LEMMA FlattenedEdge ==
  ASSUME IInv, FrameInv, NEW kinds, kinds \in {{"variant"}, {"one"}}, At(kinds),
         kinds = {"one"} => ~Scalar(Edge.node)
  PROVE  /\ Leaf(TopPlace, Edge) = {}
         /\ Beyond(TopPlace, Edge) =
              IF Scalar(Edge.node) \/ Visited THEN {}
              ELSE {Place(Edge.node, Top.table,
                          IF Edge.kind = "variant" THEN Top.prefix ELSE Path,
                          TopPlace.seen \cup {Edge.node})}
<1>1. Edge.kind \in {"variant", "one"} /\ (Edge.kind = "one" => ~Scalar(Edge.node))
  BY DEF At
<1>2. /\ TopPlace.table = Top.table /\ TopPlace.prefix = Top.prefix
      /\ TopPlace.seen = visited[Len(visited)]
  BY AtPlace DEF Place
<1>3. Leaf(TopPlace, Edge) = {}
  BY <1>1 DEF Leaf
<1>4. Visited <=> Edge.node \in TopPlace.seen
  BY <1>2 DEF Visited
<1>5. CASE Scalar(Edge.node)
  <2>1. Beyond(TopPlace, Edge) = {}
    BY <1>5 DEF Beyond
  <2> QED
    BY <1>3, <1>5, <2>1
<1>6. CASE ~Scalar(Edge.node)
  <2>1. Edge.kind # "array"
    BY <1>1
  <2>2. Beyond(TopPlace, Edge) =
          IF Edge.node \in TopPlace.seen THEN {}
          ELSE {Place(Edge.node, TopPlace.table,
                      IF Edge.kind = "variant" THEN TopPlace.prefix
                      ELSE Append(TopPlace.prefix, Edge.key),
                      TopPlace.seen \cup {Edge.node})}
    BY <1>6, <2>1 DEF Beyond
  <2> QED
    BY <1>2, <1>3, <1>4, <1>6, <2>2 DEF Path
<1> QED
  BY <1>5, <1>6

(* An array gives its child table, at its items; in a landing table it is a*)
(* column.                                                                 *)
LEMMA ArrayEdge ==
  ASSUME IInv, FrameInv, At({"array"})
  PROVE  /\ <<Child, Edge.node>> \in Arrays
         /\ Leaf(TopPlace, Edge) =
              IF flat THEN {[table |-> Top.table, path |-> Path]}
              ELSE IF Scalar(Edge.node) THEN {ValueColumn(Child)} ELSE {}
         /\ Beyond(TopPlace, Edge) =
              IF flat \/ Scalar(Edge.node) THEN {} ELSE {ItemsPlace(Child, Edge.node)}
<1>1. Edge.kind = "array"
  BY DEF At
<1>2. TopPlace.table = Top.table /\ TopPlace.prefix = Top.prefix
  BY AtPlace DEF Place
<1>3. <<Child, Edge.node>> \in Arrays
  BY <1>1, Leads
<1>4. Leaf(TopPlace, Edge) =
        IF flat THEN {[table |-> Top.table, path |-> Path]}
        ELSE IF Scalar(Edge.node) THEN {ValueColumn(Child)} ELSE {}
  BY <1>1, <1>2 DEF Leaf, Child, Path, ValueColumn
<1>5. Beyond(TopPlace, Edge) =
        IF flat \/ Scalar(Edge.node) THEN {} ELSE {ItemsPlace(Child, Edge.node)}
  BY <1>1, <1>2 DEF Beyond, Child, Path, ItemsPlace
<1> QED
  BY <1>3, <1>4, <1>5

(* Passing over an edge: the frames are those there were.                  *)
LEMMA PassPlan ==
  ASSUME IInv, PlanInv, NEW kinds, At(kinds), UNCHANGED <<graph, flat>>,
         stack' = Past,
         columns \subseteq columns', columns' \subseteq columns \cup Leaf(TopPlace, Edge),
         Distinct => \A S : Covers(S) =>
           /\ Leaf(TopPlace, Edge) \subseteq columns'
           /\ Beyond(TopPlace, Edge) \subseteq S,
         \A t \in tables' \ tables : \E n \in Nodes :
           <<t, n>> \in Arrays /\ Scalar(n) /\ ValueColumn(t) \in columns'
  PROVE  PlanInv'
<1>1. PICK m : m = Len(stack)
  OBVIOUS
<1>2. m \in Nat /\ stack' \in Seq(FrameType) /\ Len(stack') = m
  BY <1>1, PastEdge DEF IInv
<1>3. \A i \in 1..m : stack'[i] = Past[i]
  OBVIOUS
<1>4. Len(stack') \in {m, m + 1} /\ Len(stack') # m + 1
  BY <1>2
<1>5. Distinct => \A S : Covers(S) =>
        /\ Leaf(TopPlace, Edge) \subseteq columns'
        /\ \A p \in Beyond(TopPlace, Edge) :
             p \in S \/ (Len(stack') = m + 1 /\ p = FramePlace(m + 1)')
  OBVIOUS
<1> QED
  BY <1>1, <1>2, <1>3, <1>4, <1>5, EdgeStep

(* A call: the new frame is at the place the edge leads to.                *)
LEMMA CallPlan ==
  ASSUME IInv, PlanInv, NEW kinds, At(kinds), UNCHANGED <<graph, flat, columns, tables>>,
         Len(stack) < MaxDepth,
         NEW f, f \in FrameType, f = Frame(f.node, f.nest, f.table, f.prefix),
         f.nest \in {Top.nest, Top.nest + 1}, stack' = Append(Past, f),
         f.nest # Top.nest =>
           f.prefix = <<>> /\ ~Scalar(f.node) /\ <<f.table, f.node>> \in Arrays,
         Leaf(TopPlace, Edge) = {},
         Beyond(TopPlace, Edge) =
           IF Scalar(f.node) THEN {}
           ELSE {Place(f.node, f.table, f.prefix,
                       IF f.nest = Top.nest THEN TopPlace.seen \cup {f.node} ELSE {f.node})}
  PROVE  PlanInv'
<1>1. PICK m : m = Len(stack)
  OBVIOUS
<1>2. FrameInv
  BY DEF PlanInv
<1>3. /\ Len(stack') = m + 1 /\ stack' \in Seq(FrameType)
      /\ \A i \in 1..m : stack'[i] = Past[i]
      /\ stack'[m + 1] = f
      /\ Todo(m + 1)' = EdgesAt(f.node)
      /\ FramePlace(m + 1)' =
           Place(f.node, f.table, f.prefix,
                 IF f.nest = Top.nest THEN TopPlace.seen \cup {f.node} ELSE {f.node})
  BY <1>1, <1>2, CalledFrame
<1>4. \A p \in Beyond(TopPlace, Edge) : p = FramePlace(m + 1)'
  BY <1>3
<1>5. Scalar(f.node) \/ FramePlace(m + 1)' \in PlacesAfter[m]
  <2>1. Beyond(TopPlace, Edge) \subseteq PlacesAfter[m]
    BY <1>1, <1>2, Leads
  <2> QED
    BY <1>3, <2>1
<1>6. stack[m].nest # stack'[m + 1].nest =>
        /\ stack'[m + 1].prefix = <<>> /\ ~Scalar(stack'[m + 1].node)
        /\ <<stack'[m + 1].table, stack'[m + 1].node>> \in Arrays
  BY <1>1, <1>3 DEF Top
<1>7. Len(stack') = m + 1 =>
        /\ m < MaxDepth
        /\ Todo(m + 1)' = EdgesAt(stack'[m + 1].node)
        /\ Scalar(stack'[m + 1].node) \/ FramePlace(m + 1)' \in PlacesAfter[m]
        /\ stack[m].nest # stack'[m + 1].nest =>
             /\ stack'[m + 1].prefix = <<>> /\ ~Scalar(stack'[m + 1].node)
             /\ <<stack'[m + 1].table, stack'[m + 1].node>> \in Arrays
  BY <1>1, <1>3, <1>5, <1>6
<1>8. Distinct => \A S : Covers(S) =>
        /\ Leaf(TopPlace, Edge) \subseteq columns'
        /\ \A p \in Beyond(TopPlace, Edge) :
             p \in S \/ (Len(stack') = m + 1 /\ p = FramePlace(m + 1)')
  BY <1>3, <1>4
<1>9. Len(stack') \in {m, m + 1}
  BY <1>3
<1> QED
  BY <1>1, <1>3, <1>7, <1>8, <1>9, EdgeStep

(* What a return leaves on the stack is as it was; a table that ends has   *)
(* its items among the places walked.                                      *)
LEMMA ReturnPlan ==
  ASSUME IInv, PlanInv, Return
  PROVE  PlanInv'
<1>1. PICK m : m = Len(stack)
  OBVIOUS
<1>2. /\ stack # <<>> /\ Top.todo = <<>> /\ stack' = Front(stack)
      /\ tables' = IF EndsTable /\ Len(stack) > 1 THEN tables \cup {Top.table} ELSE tables
      /\ UNCHANGED <<graph, flat, columns>>
  BY DEF Return
<1>3. /\ stack \in Seq(FrameType) /\ m \in Nat \ {0} /\ DOMAIN stack = 1..m
      /\ Top = stack[m] /\ m \in 1..m
      /\ \A i \in 1..m : stack[i] \in FrameType
  <2>1. stack \in Seq(FrameType)
    BY DEF IInv, TypeOK
  <2>2. m \in Nat \ {0}
    BY <1>1, <1>2, <2>1, EmptySeq, LenProperties
  <2> QED
    BY <1>1, <2>1, <2>2, LenProperties, ElementOfSeq DEF Top
<1>4. Len(stack') = m - 1 /\ \A i \in 1..(m - 1) : stack'[i] = stack[i]
  <2>1. stack' = SubSeq(stack, 1, m - 1)
    BY <1>1, <1>2 DEF Front
  <2>2. \A i \in 1..(m - 1) : stack[i] \in FrameType
    BY <1>3
  <2>3. Len(stack') = IF 1 <= m - 1 THEN m - 1 ELSE 0
    BY <1>1, <1>3, <2>1, <2>2, SubSeqProperties
  <2>4. \A i \in 1..(m - 1) : stack'[i] = stack[i]
    BY <1>1, <1>3, <2>1, <2>2, SubSeqProperties
  <2> QED
    BY <1>3, <2>3, <2>4
<1>5. /\ \A n : EdgesAt(n)' = EdgesAt(n) /\ Scalar(n)' = Scalar(n)
      /\ \A p, e : Beyond(p, e)' = Beyond(p, e) /\ Leaf(p, e)' = Leaf(p, e)
      /\ PlacesAfter' = PlacesAfter /\ Arrays' = Arrays /\ AllColumns' = AllColumns
  BY <1>2, SchemaStays
<1>6. ASSUME NEW i \in 1..(m - 1)
      PROVE  FramePlace(i)' = FramePlace(i) /\ Todo(i)' = Todo(i)
  <2>1. \A k \in 1..i : k \in 1..(m - 1)
    BY <1>3
  <2>2. stack'[i] = stack[i] /\ \A k \in 1..i : stack'[k] = stack[k]
    BY <1>4, <2>1
  <2>3. {k \in 1..i : stack'[k].nest = stack'[i].nest} = {k \in 1..i : stack[k].nest = stack[i].nest}
    BY <2>2
  <2>4. Seen(i)' = Seen(i)
    BY <2>2, <2>3 DEF Seen
  <2> QED
    BY <2>2, <2>4 DEF FramePlace, Todo
<1>7. FrameInv'
  <2>1. /\ m <= MaxDepth + 1
        /\ \A i \in 1..m :
             /\ Todo(i) \subseteq EdgesAt(stack[i].node)
             /\ Scalar(stack[i].node) \/ FramePlace(i) \in PlacesAfter[i - 1]
             /\ i > 1 /\ stack[i - 1].nest # stack[i].nest =>
                  /\ stack[i].prefix = <<>> /\ ~Scalar(stack[i].node)
                  /\ <<stack[i].table, stack[i].node>> \in Arrays
    BY <1>1 DEF PlanInv, FrameInv
  <2>2. Len(stack') <= MaxDepth + 1
    BY <1>3, <1>4, <2>1, WalkAssumption
  <2>3. ASSUME NEW i \in 1..Len(stack')
        PROVE  /\ Todo(i)' \subseteq EdgesAt(stack'[i].node)
               /\ Scalar(stack'[i].node) \/ FramePlace(i)' \in PlacesAfter[i - 1]
               /\ i > 1 /\ stack'[i - 1].nest # stack'[i].nest =>
                    /\ stack'[i].prefix = <<>> /\ ~Scalar(stack'[i].node)
                    /\ <<stack'[i].table, stack'[i].node>> \in Arrays
    <3>1. i \in 1..(m - 1) /\ i \in 1..m /\ (i > 1 => i - 1 \in 1..(m - 1))
      BY <1>3, <1>4
    <3>2. stack'[i] = stack[i] /\ (i > 1 => stack'[i - 1] = stack[i - 1])
      BY <1>4, <3>1
    <3> QED
      BY <1>6, <2>1, <3>1, <3>2
  <2> QED
    BY <1>5, <2>2, <2>3 DEF FrameInv
<1>8. ASSUME NEW S, Covers(S) PROVE Covers(S)'
  <2>1. /\ Start \subseteq S
        /\ \A i \in 1..m :
             /\ FramePlace(i) \in S
             /\ \A e \in EdgesAt(stack[i].node) \ Todo(i) : Followed(FramePlace(i), e, S)
        /\ \A p \in S :
             \/ \E i \in 1..m : p = FramePlace(i)
             \/ \A e \in EdgesAt(p.node) : Followed(p, e, S)
        /\ \A t \in tables : \E n \in Nodes :
             /\ <<t, n>> \in Arrays
             /\ IF Scalar(n) THEN ValueColumn(t) \in columns ELSE ItemsPlace(t, n) \in S
    BY <1>1, <1>8 DEF Covers
  <2>2. \A p, e : Followed(p, e, S)' = Followed(p, e, S)
    BY <1>2, <1>5 DEF Followed
  <2>3. \A e \in EdgesAt(Top.node) : Followed(FramePlace(m), e, S)
    <3>1. Todo(m) = {}
      BY <1>2, <1>3 DEF Todo
    <3> QED
      BY <1>3, <2>1, <3>1
  <2>4. ASSUME NEW i \in 1..Len(stack')
        PROVE  /\ FramePlace(i)' \in S
               /\ \A e \in (EdgesAt(stack[i].node) \ Todo(i))' : Followed(FramePlace(i), e, S)'
    <3>1. i \in 1..(m - 1) /\ i \in 1..m
      BY <1>3, <1>4
    <3>2. PICK Q, R : Q = FramePlace(i) /\ R = EdgesAt(stack[i].node) \ Todo(i)
      OBVIOUS
    <3>3. FramePlace(i)' = Q /\ (EdgesAt(stack[i].node) \ Todo(i))' = R
      BY <1>4, <1>5, <1>6, <3>1, <3>2
    <3>4. Q \in S /\ \A e \in R : Followed(Q, e, S)
      BY <2>1, <3>1, <3>2
    <3>5. \A e \in R : Followed(Q, e, S)'
      BY <2>2, <3>4
    <3>6. \A e \in R : Followed(FramePlace(i), e, S)'
      BY <3>3, <3>5 DEF Followed
    <3> QED
      BY <3>3, <3>4, <3>6
  <2>5. ASSUME NEW p \in S
        PROVE  \/ \E i \in 1..Len(stack') : p = FramePlace(i)'
               \/ \A e \in EdgesAt(p.node)' : Followed(p, e, S)'
    <3>1. CASE \E i \in 1..m : p = FramePlace(i)
      <4>1. PICK i \in 1..m : p = FramePlace(i)
        BY <3>1
      <4>2. CASE i = m
        <5>1. p.node = Top.node
          BY <1>3, <4>1, <4>2 DEF FramePlace, Place
        <5> QED
          BY <1>5, <2>2, <2>3, <4>1, <4>2, <5>1
      <4>3. CASE i # m
        <5>1. i \in 1..(m - 1)
          BY <1>3, <4>3
        <5> QED
          BY <1>4, <1>6, <4>1, <5>1
      <4> QED
        BY <4>2, <4>3
    <3>2. CASE \A e \in EdgesAt(p.node) : Followed(p, e, S)
      BY <1>5, <2>2, <3>2
    <3> QED
      BY <2>1, <3>1, <3>2
  <2>6. ASSUME NEW t \in tables'
        PROVE  \E n \in Nodes :
                 /\ <<t, n>> \in Arrays
                 /\ IF Scalar(n) THEN ValueColumn(t) \in columns ELSE ItemsPlace(t, n) \in S
    <3>1. CASE t \in tables
      BY <2>1, <3>1
    <3>2. CASE t \notin tables
      <4>1. EndsTable /\ Len(stack) > 1 /\ t = Top.table
        BY <1>2, <2>6, <3>2
      <4>2. m > 1 /\ stack[m - 1].nest # stack[m].nest
        BY <1>1, <1>3, <4>1 DEF EndsTable
      <4>3. stack[m].prefix = <<>> /\ ~Scalar(stack[m].node)
            /\ <<stack[m].table, stack[m].node>> \in Arrays
        BY <1>1, <1>3, <4>2 DEF PlanInv, FrameInv
      <4>4. Seen(m) = {stack[m].node}
        <5>1. \A i, j \in 1..m : i <= j => stack[i].nest <= stack[j].nest
          BY <1>3 DEF IInv, Nested
        <5>2. \A i \in 1..m : stack[i].nest \in Nat
          BY <1>3 DEF FrameType
        <5>3. ASSUME NEW k \in 1..m, stack[k].nest = stack[m].nest PROVE k = m
          <6>1. m - 1 \in 1..m
            BY <1>3, <4>2
          <6>2. stack[m - 1].nest <= stack[m].nest /\ stack[m - 1].nest < stack[m].nest
            BY <1>3, <4>2, <5>1, <5>2, <6>1
          <6>3. k <= m - 1 => stack[k].nest <= stack[m - 1].nest
            BY <5>1, <6>1
          <6>4. ~(k <= m - 1)
            BY <5>2, <5>3, <6>1, <6>2, <6>3
          <6> QED
            BY <1>3, <6>4
        <5>4. {k \in 1..m : stack[k].nest = stack[m].nest} = {m}
          BY <1>3, <5>3
        <5> QED
          BY <5>4 DEF Seen
      <4>5. FramePlace(m) = ItemsPlace(t, stack[m].node)
        BY <1>3, <4>1, <4>3, <4>4 DEF FramePlace, ItemsPlace
      <4>6. stack[m].node \in Nodes /\ ItemsPlace(t, stack[m].node) \in S
        BY <1>3, <2>1, <4>5 DEF FrameType
      <4> QED
        BY <1>3, <4>1, <4>3, <4>6
    <3> QED
      BY <3>1, <3>2
  <2>7. Start \subseteq S /\ Start' = Start
    BY <2>1 DEF Start, Place
  <2> QED
    BY <1>2, <1>5, <2>4, <2>5, <2>6, <2>7 DEF Covers, ValueColumn, ItemsPlace, Place
<1>9. Distinct' = Distinct
  BY <1>5 DEF Distinct
<1>10. columns' \subseteq AllColumns /\ (Distinct => \E S : Covers(S))
  BY <1>2 DEF PlanInv
<1>11. Distinct => \E S : Covers(S)'
  BY <1>8, <1>10
<1> QED
  BY <1>5, <1>7, <1>9, <1>10, <1>11 DEF PlanInv

(* A flattened edge is a variant, or a property that is no scalar.         *)
LEMMA FlattenedKind ==
  ASSUME Flattened
  PROVE  \E kinds \in {{"variant"}, {"one"}} :
           At(kinds) /\ (kinds = {"one"} => ~Scalar(Edge.node))
<1>1. CASE At({"variant"})
  <2>1. {"variant"} # {"one"}
    OBVIOUS
  <2> QED
    BY <1>1, <2>1
<1>2. CASE At({"one"}) /\ ~Scalar(Edge.node)
  BY <1>2
<1> QED
  BY <1>1, <1>2 DEF Flattened

(* Every step keeps the plan right.                                        *)
LEMMA NextPlan ==
  ASSUME IInv, PlanInv, [Next]_vars
  PROVE  PlanInv'
<1>1. FrameInv /\ TypeOK
  BY DEF PlanInv, IInv
<1>2. CASE Enter
  <2>1. PICK kinds : kinds \in {{"variant"}, {"one"}} /\ At(kinds) /\ (kinds = {"one"} => ~Scalar(Edge.node))
    BY <1>2, FlattenedKind DEF Enter
  <2>2. PICK f : f = Frame(Edge.node, Top.nest, Top.table,
                           IF Edge.kind = "variant" THEN Top.prefix ELSE Path)
    OBVIOUS
  <2>3. /\ f.node = Edge.node /\ f.nest = Top.nest /\ f.table = Top.table
        /\ f.prefix = (IF Edge.kind = "variant" THEN Top.prefix ELSE Path)
    BY <2>2 DEF Frame
  <2>4. f = Frame(f.node, f.nest, f.table, f.prefix)
    BY <2>2, <2>3
  <2>5. /\ stack' = Append(Past, f) /\ ~Visited /\ Len(stack) < MaxDepth
        /\ UNCHANGED <<graph, flat, columns, tables>>
    BY <1>2, <2>2 DEF Enter
  <2>6. f \in FrameType
    <3>1. Past \in Seq(FrameType) /\ stack' \in Seq(FrameType)
      BY <1>1, <2>1, NextIInv, PastEdge DEF IInv, TypeOK
    <3>2. stack'[Len(Past) + 1] = f /\ Len(stack') = Len(Past) + 1
      BY <2>5, <3>1
    <3> QED
      BY <3>1, <3>2, ElementOfSeq
  <2>7. /\ Leaf(TopPlace, Edge) = {}
        /\ Beyond(TopPlace, Edge) =
             IF Scalar(f.node) THEN {}
             ELSE {Place(f.node, f.table, f.prefix, TopPlace.seen \cup {f.node})}
    BY <1>1, <2>1, <2>3, <2>5, FlattenedEdge
  <2> QED
    BY <2>1, <2>3, <2>4, <2>5, <2>6, <2>7, CallPlan
<1>3. CASE Cut
  <2>1. PICK kinds : kinds \in {{"variant"}, {"one"}} /\ At(kinds) /\ (kinds = {"one"} => ~Scalar(Edge.node))
    BY <1>3, FlattenedKind DEF Cut
  <2>2. Leaf(TopPlace, Edge) = {} /\ Beyond(TopPlace, Edge) = {}
    BY <1>1, <1>3, <2>1, FlattenedEdge DEF Cut
  <2> QED
    BY <1>3, <2>1, <2>2, PassPlan DEF Cut
<1>4. CASE AddColumn
  <2>1. PICK kinds : kinds \in {{"one"}, {"array"}} /\ At(kinds)
          /\ (kinds = {"one"} => Scalar(Edge.node)) /\ (kinds = {"array"} => flat)
    BY <1>4 DEF AddColumn
  <2>2. Edge.kind \in kinds
    BY <2>1 DEF At
  <2>3. /\ TopPlace.table = Top.table /\ TopPlace.prefix = Top.prefix
    BY <1>1, <2>1, AtPlace DEF Place
  <2>4. /\ Leaf(TopPlace, Edge) = {[table |-> Top.table, path |-> Path]}
        /\ Beyond(TopPlace, Edge) = {}
    BY <2>1, <2>2, <2>3 DEF Leaf, Beyond, Path
  <2> QED
    BY <1>4, <2>1, <2>4, PassPlan DEF AddColumn
<1>5. CASE KnownArray
  <2>1. /\ At({"array"}) /\ ~flat /\ Child \in tables /\ stack' = Past
        /\ UNCHANGED <<graph, flat, columns, tables>>
    BY <1>5 DEF KnownArray
  <2>2. /\ <<Child, Edge.node>> \in Arrays
        /\ Leaf(TopPlace, Edge) = (IF Scalar(Edge.node) THEN {ValueColumn(Child)} ELSE {})
        /\ Beyond(TopPlace, Edge) =
             IF Scalar(Edge.node) THEN {} ELSE {ItemsPlace(Child, Edge.node)}
    BY <1>1, <2>1, ArrayEdge
  <2>3. ASSUME Distinct, NEW S, Covers(S)
        PROVE  /\ Leaf(TopPlace, Edge) \subseteq columns'
               /\ Beyond(TopPlace, Edge) \subseteq S
    <3>1. PICK n \in Nodes :
            /\ <<Child, n>> \in Arrays
            /\ IF Scalar(n) THEN ValueColumn(Child) \in columns ELSE ItemsPlace(Child, n) \in S
      BY <2>1, <2>3 DEF Covers
    <3>2. <<Child, n>> = <<Child, Edge.node>>
      BY <2>2, <2>3, <3>1 DEF Distinct
    <3>3. n = Edge.node
      BY <3>2
    <3> QED
      BY <2>1, <2>2, <3>1, <3>3
  <2> QED
    BY <2>1, <2>3, PassPlan
<1>6. CASE ArrayOfScalars
  <2>1. /\ At({"array"}) /\ ~flat /\ Scalar(Edge.node) /\ stack' = Past
        /\ tables' = tables \cup {Child} /\ columns' = columns \cup {ValueColumn(Child)}
        /\ UNCHANGED <<graph, flat>>
    BY <1>6 DEF ArrayOfScalars, ValueColumn
  <2>2. /\ <<Child, Edge.node>> \in Arrays
        /\ Leaf(TopPlace, Edge) = {ValueColumn(Child)} /\ Beyond(TopPlace, Edge) = {}
    BY <1>1, <2>1, ArrayEdge
  <2>3. Edge.node \in Nodes
    BY <1>1, <2>1, PathType DEF Kinds
  <2>4. \A t \in tables' \ tables : \E n \in Nodes :
          <<t, n>> \in Arrays /\ Scalar(n) /\ ValueColumn(t) \in columns'
    BY <2>1, <2>2, <2>3
  <2> QED
    BY <2>1, <2>2, <2>4, PassPlan
<1>7. CASE PlanChildTable
  <2>1. /\ At({"array"}) /\ ~flat /\ ~Scalar(Edge.node) /\ Len(stack) < MaxDepth
        /\ UNCHANGED <<graph, flat, columns, tables>>
    BY <1>7 DEF PlanChildTable
  <2>2. PICK f : f = Frame(Edge.node, Top.nest + 1, Child, <<>>)
    OBVIOUS
  <2>3. f.node = Edge.node /\ f.nest = Top.nest + 1 /\ f.table = Child /\ f.prefix = <<>>
    BY <2>2 DEF Frame
  <2>4. f = Frame(f.node, f.nest, f.table, f.prefix) /\ stack' = Append(Past, f)
    BY <1>7, <2>2, <2>3 DEF PlanChildTable
  <2>5. f \in FrameType
    <3>1. Past \in Seq(FrameType) /\ stack' \in Seq(FrameType)
      BY <1>1, <2>1, NextIInv, PastEdge DEF IInv, TypeOK
    <3>2. stack'[Len(Past) + 1] = f /\ Len(stack') = Len(Past) + 1
      BY <2>4, <3>1
    <3> QED
      BY <3>1, <3>2, ElementOfSeq
  <2>6. /\ <<Child, Edge.node>> \in Arrays
        /\ Leaf(TopPlace, Edge) = {}
        /\ Beyond(TopPlace, Edge) = {ItemsPlace(Child, Edge.node)}
    BY <1>1, <2>1, ArrayEdge
  <2>7. f.nest # Top.nest
    <3>1. Top.nest \in Nat
      BY <1>1, <2>1, PastEdge DEF FrameType
    <3> QED
      BY <2>3, <3>1
  <2>8. Beyond(TopPlace, Edge) =
          IF Scalar(f.node) THEN {}
          ELSE {Place(f.node, f.table, f.prefix,
                      IF f.nest = Top.nest THEN TopPlace.seen \cup {f.node} ELSE {f.node})}
    BY <2>1, <2>3, <2>6, <2>7 DEF ItemsPlace
  <2> QED
    BY <2>1, <2>3, <2>4, <2>5, <2>6, <2>8, CallPlan
<1>8. CASE Return
  BY <1>8, ReturnPlan
<1>9. CASE UNCHANGED vars
  <2>1. /\ \A n : EdgesAt(n)' = EdgesAt(n) /\ Scalar(n)' = Scalar(n)
        /\ \A p, e : Beyond(p, e)' = Beyond(p, e) /\ Leaf(p, e)' = Leaf(p, e)
        /\ PlacesAfter' = PlacesAfter /\ Arrays' = Arrays /\ AllColumns' = AllColumns
    BY <1>9, SchemaStays DEF vars
  <2>2. stack' = stack /\ columns' = columns /\ tables' = tables
    BY <1>9 DEF vars
  <2>3. \A i : FramePlace(i)' = FramePlace(i) /\ Todo(i)' = Todo(i)
    BY <2>2 DEF FramePlace, Todo, Seen, Place
  <2>4. FrameInv'
    BY <1>1, <2>1, <2>2, <2>3 DEF FrameInv
  <2>5. \A p, e, S : Followed(p, e, S)' = Followed(p, e, S)
    BY <2>1, <2>2 DEF Followed
  <2>6. \A S : Covers(S) => Covers(S)'
    <3> SUFFICES ASSUME NEW S, Covers(S) PROVE Covers(S)'
      OBVIOUS
    <3>1. PICK m : m = Len(stack)
      OBVIOUS
    <3>2. ASSUME NEW i \in 1..m
          PROVE  /\ FramePlace(i)' \in S
                 /\ \A e \in (EdgesAt(stack[i].node) \ Todo(i))' : Followed(FramePlace(i), e, S)'
      <4>1. PICK Q, R : Q = FramePlace(i) /\ R = EdgesAt(stack[i].node) \ Todo(i)
        OBVIOUS
      <4>2. FramePlace(i)' = Q /\ (EdgesAt(stack[i].node) \ Todo(i))' = R
        BY <2>1, <2>2, <2>3, <4>1
      <4>3. Q \in S /\ \A e \in R : Followed(Q, e, S)
        BY <3>1, <4>1 DEF Covers
      <4>4. \A e \in R : Followed(Q, e, S)'
        BY <2>5, <4>3
      <4> QED
        BY <4>2, <4>3, <4>4 DEF Followed
    <3>3. ASSUME NEW p \in S
          PROVE  \/ \E i \in 1..m : p = FramePlace(i)'
                 \/ \A e \in EdgesAt(p.node)' : Followed(p, e, S)'
      BY <2>1, <2>3, <2>5, <3>1 DEF Covers
    <3>4. \A t \in tables : \E n \in Nodes :
            /\ <<t, n>> \in Arrays
            /\ IF Scalar(n) THEN ValueColumn(t) \in columns ELSE ItemsPlace(t, n) \in S
      BY DEF Covers
    <3>5. Start \subseteq S /\ Start' = Start
      BY DEF Covers, Start, Place
    <3> QED
      BY <2>1, <2>2, <3>1, <3>2, <3>3, <3>4, <3>5 DEF Covers, ValueColumn, ItemsPlace, Place
  <2>7. Distinct' = Distinct
    BY <2>1 DEF Distinct
  <2> QED
    BY <2>1, <2>2, <2>4, <2>6, <2>7 DEF PlanInv
<1> QED
  BY <1>2, <1>3, <1>4, <1>5, <1>6, <1>7, <1>8, <1>9 DEF Next

(* At first the root is all there is to walk.                              *)
LEMMA InitPlan ==
  ASSUME Init
  PROVE  PlanInv
<1>1. graph \in Graphs /\ Root \in Nodes /\ MaxDepth \in Nat
  BY WalkAssumption DEF Init
<1>2. /\ Len(stack) = 1 /\ stack[1] = Frame(Root, 1, <<>>, <<>>)
      /\ columns = {} /\ tables = {}
  BY DEF Init
<1>3. /\ stack[1].node = Root /\ stack[1].nest = 1 /\ stack[1].table = <<>>
      /\ stack[1].prefix = <<>> /\ stack[1].todo = Edges(Root)
  BY <1>2 DEF Frame
<1>4. Todo(1) = EdgesAt(Root)
  BY <1>1, <1>3, NodeEdges DEF Todo
<1>5. Seen(1) = {Root}
  <2>1. {k \in 1..1 : stack[k].nest = stack[1].nest} = {1}
    OBVIOUS
  <2> QED
    BY <1>3, <2>1 DEF Seen
<1>6. FramePlace(1) = Place(Root, <<>>, <<>>, {Root})
  BY <1>3, <1>5 DEF FramePlace
<1>7. PlacesAfter[0] = Start
  BY PlacesFollow
<1>8. \A i \in 1..1 : i = 1
  OBVIOUS
<1>9. FrameInv
  <2>1. FramePlace(1) \in PlacesAfter[0]
    BY <1>6, <1>7 DEF Start
  <2>2. Len(stack) <= MaxDepth + 1 /\ 1 - 1 = 0 /\ ~(1 > 1)
    BY <1>1, <1>2
  <2>3. Todo(1) \subseteq EdgesAt(stack[1].node)
    BY <1>3, <1>4
  <2> QED
    BY <1>2, <1>8, <2>1, <2>2, <2>3 DEF FrameInv
<1>10. Covers(Start)
  <2>1. EdgesAt(stack[1].node) \ Todo(1) = {}
    BY <1>3, <1>4
  <2>2. Start = {FramePlace(1)}
    BY <1>6 DEF Start
  <2>3. 1 \in 1..1
    OBVIOUS
  <2> QED
    BY <1>2, <1>8, <2>1, <2>2, <2>3 DEF Covers
<1> QED
  BY <1>2, <1>9, <1>10 DEF PlanInv

(* When no call is under way, all the places are walked.                   *)
LEMMA DonePlan ==
  ASSUME PlanInv
  PROVE  PlansEverything
<1> SUFFICES ASSUME Done
             PROVE  columns \subseteq AllColumns /\ (Distinct => columns = AllColumns)
  BY DEF PlansEverything, AllColumns, Distinct
<1>1. columns \subseteq AllColumns
  BY DEF PlanInv
<1>2. ASSUME Distinct PROVE AllColumns \subseteq columns
  <2>1. PICK S : Covers(S)
    BY <1>2 DEF PlanInv
  <2>2. ~\E i \in 1..Len(stack) : TRUE
    BY DEF Done
  <2>3. Start \subseteq S /\ \A p \in S : \A e \in EdgesAt(p.node) : Followed(p, e, S)
    BY <2>1, <2>2 DEF Covers
  <2>4. OneBeyond(S) \subseteq S
    BY <2>3 DEF OneBeyond, Followed
  <2>5. \A n \in Nat : PlacesAfter[n] \subseteq S
    <3> SUFFICES ASSUME \E n \in Nat : ~(PlacesAfter[n] \subseteq S) PROVE FALSE
      OBVIOUS
    <3> DEFINE Out == {n \in Nat : ~(PlacesAfter[n] \subseteq S)}
    <3>1. PICK n \in Out : \A j \in Out : n <= j
      <4>1. Out \in SUBSET Nat /\ Out # {}
        OBVIOUS
      <4> HIDE DEF Out
      <4> QED
        BY <4>1, Least
    <3>2. CASE n = 0
      BY <2>3, <3>1, <3>2, PlacesFollow
    <3>3. CASE n # 0
      <4>1. n - 1 \in Nat /\ (n - 1) + 1 = n /\ ~(n <= n - 1)
        BY <3>1, <3>3
      <4>2. PlacesAfter[n - 1] \subseteq S
        BY <3>1, <4>1
      <4>3. PlacesAfter[(n - 1) + 1] = OneBeyond(PlacesAfter[n - 1])
        BY <4>1, PlacesFollow
      <4>4. OneBeyond(PlacesAfter[n - 1]) \subseteq OneBeyond(S)
        BY <4>2 DEF OneBeyond
      <4> QED
        BY <2>4, <3>1, <4>1, <4>3, <4>4
    <3> QED
      BY <3>2, <3>3
  <2>6. Places \subseteq S
    BY <2>5, WalkAssumption DEF Places
  <2>7. ASSUME NEW p \in Places PROVE ColumnsAt(p) \subseteq columns
    BY <2>3, <2>6, ColumnsLeaf DEF Followed
  <2> QED
    BY <2>7 DEF AllColumns
<1> QED
  BY <1>1, <1>2

(* A plan that ends has the columns of every place there is, and no other, *)
(* whatever is shared or cyclic, unless two arrays with different items    *)
(* have one name (model.go:16-29, 313-319).                                *)
THEOREM PlansAreWhole == Spec => []PlansEverything
<1>1. Init => PlanInv
  BY InitPlan
<1>2. IInv /\ PlanInv /\ [Next]_vars => PlanInv'
  BY NextPlan
<1>3. PlanInv => PlansEverything
  BY DonePlan
<1> QED
  BY <1>1, <1>2, <1>3, Inductive, PTL DEF Spec
=============================================================================
