----------------------- MODULE NormalizedModelProofs ------------------------
(***************************************************************************)
(* Proofs about NormalizedModel, for any schemas, documents, plans and     *)
(* renderings: it implements DocumentStore.                                *)
(***************************************************************************)
EXTENDS NormalizedModel, SequenceTheorems, WellFoundedInduction, TLAPS

-----------------------------------------------------------------------------
(***************************************************************************)
(* Executing statements.                                                   *)
(***************************************************************************)
(* A set of numbers has a least one.                                       *)
LEMMA Least ==
  ASSUME NEW S \in SUBSET Nat, S # {}
  PROVE  \E m \in S : \A j \in S : m <= j
<1> DEFINE R == {p \in Nat \X Nat : p[1] < p[2]}
<1>1. IsWellFoundedOn(R, Nat)
  <2>1. R = OpToRel(<, Nat)
    BY DEF OpToRel
  <2> QED
    BY <2>1, NatLessThanWellFounded
<1>2. PICK m \in S : \A j \in S : ~(<<j, m>> \in R)
  BY <1>1, WFMin
<1>3. ASSUME NEW j \in S PROVE m <= j
  <2>1. <<j, m>> \in Nat \X Nat /\ <<j, m>>[1] = j /\ <<j, m>>[2] = m
    OBVIOUS
  <2>2. ~(j < m)
    BY <1>2, <2>1
  <2> QED
    BY <2>2
<1> QED
  BY <1>3

(* What a transaction has come to after each of its statements.            *)
Executes(db, stmts, f) ==
  f = [i \in 0..Len(stmts) |->
         IF i = 0 THEN [db |-> db, ok |-> TRUE]
         ELSE IF f[i - 1].ok THEN Exec(f[i - 1].db, stmts[i]) ELSE f[i - 1]]

LEMMA ExecuteIs ==
  ASSUME NEW db, NEW stmts, Len(stmts) \in Nat, NEW f, Executes(db, stmts, f)
  PROVE  Execute(db, stmts) = f[Len(stmts)]
<1> DEFINE n == Len(stmts)
           Is(g) == g = [i \in 0..n |->
                           IF i = 0 THEN [db |-> db, ok |-> TRUE]
                           ELSE IF g[i - 1].ok THEN Exec(g[i - 1].db, stmts[i]) ELSE g[i - 1]]
           g0 == CHOOSE g : Is(g)
<1>1. Execute(db, stmts) = g0[n]
  BY DEF Execute
<1>2. Is(f)
  BY DEF Executes
<1>3. Is(g0)
  <2> HIDE DEF Is
  <2> QED BY <1>2
<1>4. n \in Nat
  OBVIOUS
<1> HIDE DEF g0, n
<1>5. ASSUME NEW i \in 0..n, f[i] # g0[i] PROVE FALSE
  <2> DEFINE S == {j \in 0..n : f[j] # g0[j]}
  <2>1. S \in SUBSET Nat /\ S # {}
    BY <1>5, <1>4
  <2>2. PICK m \in S : \A j \in S : m <= j
    BY <2>1, Least
  <2>3. CASE m = 0
    BY <1>2, <1>3, <1>4, <2>2, <2>3
  <2>4. CASE m # 0
    <3>1. m - 1 \in 0..n /\ ~(m <= m - 1)
      BY <1>4, <2>2, <2>4
    <3>2. f[m - 1] = g0[m - 1]
      BY <2>2, <3>1
    <3>3. f[m] = IF f[m - 1].ok THEN Exec(f[m - 1].db, stmts[m]) ELSE f[m - 1]
      BY <1>2, <2>2, <2>4
    <3>4. g0[m] = IF g0[m - 1].ok THEN Exec(g0[m - 1].db, stmts[m]) ELSE g0[m - 1]
      BY <1>3, <2>2, <2>4
    <3> QED BY <2>2, <3>2, <3>3, <3>4
  <2> QED BY <2>3, <2>4
<1>6. n \in 0..n
  BY <1>4
<1> QED BY <1>1, <1>5, <1>6 DEF n

(* Statements that succeed one after the other, with the rows that each    *)
(* leaves.                                                                 *)
LEMMA ExecuteAll ==
  ASSUME NEW stmts, Len(stmts) \in Nat, NEW dbs,
         \A i \in 1..Len(stmts) : Exec(dbs[i - 1], stmts[i]) = [db |-> dbs[i], ok |-> TRUE]
  PROVE  Execute(dbs[0], stmts) = [db |-> dbs[Len(stmts)], ok |-> TRUE]
<1> DEFINE n == Len(stmts)
           f == [i \in 0..n |-> [db |-> dbs[i], ok |-> TRUE]]
<1>1. n \in Nat /\ n \in 0..n
  OBVIOUS
<1>2. ASSUME NEW i \in 0..n
      PROVE  f[i] = IF i = 0 THEN [db |-> dbs[0], ok |-> TRUE]
                    ELSE IF f[i - 1].ok THEN Exec(f[i - 1].db, stmts[i]) ELSE f[i - 1]
  <2>1. CASE i = 0
    BY <2>1
  <2>2. CASE i # 0
    <3>1. i \in 1..n /\ i - 1 \in 0..n
      BY <2>2
    <3>2. f[i - 1].ok /\ f[i - 1].db = dbs[i - 1]
      BY <3>1
    <3> QED BY <2>2, <3>1, <3>2
  <2> QED BY <2>1, <2>2
<1>3. f[n] = [db |-> dbs[n], ok |-> TRUE]
  BY <1>1
<1>4. f = [i \in 0..n |-> f[i]]
  OBVIOUS
<1> HIDE DEF f
<1>5. Executes(dbs[0], stmts, f)
  BY <1>2, <1>4 DEF Executes
<1> QED BY <1>3, <1>5, ExecuteIs

(* A transaction whose first statement fails.                              *)
LEMMA ExecuteNone ==
  ASSUME NEW db, NEW stmts, Len(stmts) \in Nat \ {0}, ~Exec(db, stmts[1]).ok
  PROVE  ~Execute(db, stmts).ok
<1> DEFINE n == Len(stmts)
           first == Exec(db, stmts[1])
           f == [i \in 0..n |-> IF i = 0 THEN [db |-> db, ok |-> TRUE] ELSE first]
<1>1. n \in Nat /\ n \in 0..n /\ n # 0 /\ ~first.ok
  OBVIOUS
<1> HIDE DEF first
<1>2. ASSUME NEW i \in 0..n
      PROVE  f[i] = IF i = 0 THEN [db |-> db, ok |-> TRUE]
                    ELSE IF f[i - 1].ok THEN Exec(f[i - 1].db, stmts[i]) ELSE f[i - 1]
  <2>1. CASE i = 0
    BY <2>1
  <2>2. CASE i = 1
    BY <1>1, <2>2 DEF first
  <2>3. CASE i # 0 /\ i # 1
    <3>1. i - 1 \in 0..n /\ i - 1 # 0
      BY <2>3
    <3> QED BY <1>1, <2>3, <3>1
  <2> QED BY <2>1, <2>2, <2>3
<1>3. f[n] = first
  BY <1>1
<1>4. f = [i \in 0..n |-> f[i]]
  OBVIOUS
<1> HIDE DEF f
<1>5. Executes(db, stmts, f)
  BY <1>2, <1>4 DEF Executes
<1> QED BY <1>1, <1>3, <1>5, ExecuteIs

-----------------------------------------------------------------------------
(***************************************************************************)
(* Sequences.                                                              *)
(***************************************************************************)
LEMMA SequenceFacts ==
  ASSUME NEW s, IsSequence(s)
  PROVE  /\ Len(s) \in Nat /\ DOMAIN s = 1..Len(s)
         /\ \A i \in 1..Len(s) : s[i] \in ToSet(s)
         /\ s # <<>> => Len(s) # 0
<1>1. s \in Seq(ToSet(s))
  BY DEF IsSequence
<1> QED BY <1>1, LenProperties, EmptySeq DEF ToSet

LEMMA SequenceOf ==
  ASSUME NEW s, NEW n \in Nat, IsFunction(s, 1..n)
  PROVE  IsSequence(s) /\ Len(s) = n /\ DOMAIN s = 1..n
<1>1. \A i \in 1..n : s[i] \in ToSet(s)
  BY DEF ToSet, IsFunction
<1>2. [i \in 1..n |-> s[i]] \in Seq(ToSet(s))
  BY <1>1, IsASeq
<1>3. s \in Seq(ToSet(s)) /\ DOMAIN s = 1..n
  BY <1>2 DEF IsFunction
<1> QED BY <1>3, LenProperties DEF IsSequence

LEMMA Concatenated ==
  ASSUME NEW s, IsSequence(s), NEW t, IsSequence(t)
  PROVE  /\ IsSequence(s \o t) /\ Len(s \o t) = Len(s) + Len(t)
         /\ \A i \in 1..Len(s) : (s \o t)[i] = s[i]
         /\ \A i \in 1..Len(t) : (s \o t)[Len(s) + i] = t[i]
         /\ \A i \in (Len(s) + 1)..(Len(s) + Len(t)) : (s \o t)[i] = t[i - Len(s)]
<1> DEFINE T == ToSet(s) \cup ToSet(t)
<1>1. s \in Seq(T) /\ t \in Seq(T)
  BY SeqMonotonic DEF IsSequence
<1>2. Len(s) \in Nat /\ Len(t) \in Nat
  BY SequenceFacts
<1>3. /\ s \o t \in Seq(T) /\ Len(s \o t) = Len(s) + Len(t)
      /\ \A i \in 1..(Len(s) + Len(t)) :
           (s \o t)[i] = IF i <= Len(s) THEN s[i] ELSE t[i - Len(s)]
  BY <1>1, ConcatProperties
<1>4. IsFunction(s \o t, 1..(Len(s) + Len(t)))
  BY <1>3, LenProperties DEF IsFunction
<1>5. IsSequence(s \o t)
  BY <1>2, <1>4, SequenceOf
<1> QED BY <1>2, <1>3, <1>5

LEMMA FrontOfPair ==
  ASSUME NEW x, NEW y
  PROVE  Front(<<x>>) = <<>> /\ Front(<<x, y>>) = <<x>>
<1>1. Front(<<x>>) = SubSeq(<<x>>, 1, 0) /\ Front(<<x, y>>) = SubSeq(<<x, y>>, 1, 1)
  BY DEF Front
<1> QED BY <1>1

-----------------------------------------------------------------------------
(***************************************************************************)
(* The rows and the statements of whole documents.                         *)
(***************************************************************************)
RowsFor(d) == RowsOf(Renderings[d])

(* The rows of a document in the order of their INSERTs.                   *)
NthRow(d, i) == IF i = 1 THEN Renderings[d].row ELSE Renderings[d].children[i - 1].row

Children(d) == Len(Renderings[d].children)

Deletes(d) == Len(Renderings[d].deletes)

InsertOf(row) == [op |-> "insert", row |-> row]

LEMMA Lines ==
  ASSUME DocumentsAreWhole, NEW d \in Sent
  PROVE  LET r == Renderings[d]
         IN /\ IsModel(Models[d.schema], TableName) /\ IsRendering(r, Models[d.schema], TableName)
            /\ IsWhole(r, Models[d.schema], TableName, KeyOf(d), CellsOf(d))
            /\ KeyOf(d) = r.key /\ r.key # Nil /\ r.updates = TRUE
            /\ IsSequence(r.children) /\ IsSequence(r.deletes)
            /\ Children(d) \in Nat /\ DOMAIN r.children = 1..Children(d)
            /\ Deletes(d) \in Nat /\ DOMAIN r.deletes = 1..Deletes(d)
            /\ \A j \in 1..Children(d) :
                 /\ r.children[j] \in ToSet(r.children) /\ r.children[j] # Bad
                 /\ r.children[j] = InsertOf(r.children[j].row)
                 /\ IsRowOf(r.children[j].row, Models[d.schema])
            /\ \A j \in 1..Deletes(d) :
                 /\ r.deletes[j] # Bad
                 /\ r.deletes[j] = [op |-> "delete", table |-> r.deletes[j].table, at |-> <<KeyOf(d)>>]
                 /\ r.deletes[j].table # TableName
<1> DEFINE r == Renderings[d]
           model == Models[d.schema]
<1>1. IsModel(model, TableName) /\ IsRendering(r, model, TableName)
  BY ModelsAssumption DEF Sent, Planned
<1>2. IsWhole(r, model, TableName, KeyOf(d), CellsOf(d)) /\ KeyOf(d) # Nil
  BY DEF DocumentsAreWhole
<1> HIDE DEF r, model
<1>3. /\ IsSequence(r.children) /\ IsSequence(r.deletes) /\ r.updates \in BOOLEAN
      /\ \A st \in ToSet(r.children) \ {Bad} :
           st = [op |-> "insert", row |-> st.row] /\ IsRowOf(st.row, model)
      /\ \A st \in ToSet(r.deletes) \ {Bad} : st = [op |-> "delete", table |-> st.table, at |-> st.at]
  BY <1>1 DEF IsRendering
<1>4. /\ KeyOf(d) = r.key /\ r.updates
      /\ \A i \in DOMAIN r.children : r.children[i].op = "insert"
      /\ \A st \in ToSet(r.deletes) : st.op = "delete" /\ st.table # TableName /\ st.at = <<r.key>>
  BY <1>2 DEF IsWhole
<1>5. /\ Len(r.children) \in Nat /\ DOMAIN r.children = 1..Len(r.children)
      /\ \A j \in 1..Len(r.children) : r.children[j] \in ToSet(r.children)
      /\ Len(r.deletes) \in Nat /\ DOMAIN r.deletes = 1..Len(r.deletes)
      /\ \A j \in 1..Len(r.deletes) : r.deletes[j] \in ToSet(r.deletes)
  BY <1>3, SequenceFacts
<1>6. ASSUME NEW j \in 1..Len(r.children)
      PROVE  /\ r.children[j] # Bad
             /\ r.children[j] = InsertOf(r.children[j].row)
             /\ IsRowOf(r.children[j].row, model)
  <2>1. r.children[j] # Bad
    BY <1>4, <1>5 DEF Bad
  <2> QED BY <1>3, <1>5, <2>1 DEF InsertOf
<1>7. ASSUME NEW j \in 1..Len(r.deletes)
      PROVE  /\ r.deletes[j] # Bad
             /\ r.deletes[j] = [op |-> "delete", table |-> r.deletes[j].table, at |-> <<KeyOf(d)>>]
             /\ r.deletes[j].table # TableName
  <2>1. r.deletes[j] # Bad
    BY <1>4, <1>5 DEF Bad
  <2>2. r.deletes[j] = [op |-> "delete", table |-> r.deletes[j].table, at |-> r.deletes[j].at]
    BY <1>3, <1>5, <2>1
  <2>3. r.deletes[j].at = <<KeyOf(d)>> /\ r.deletes[j].table # TableName
    BY <1>4, <1>5
  <2> QED BY <2>1, <2>2, <2>3
<1> QED BY <1>1, <1>2, <1>3, <1>4, <1>5, <1>6, <1>7 DEF r, model, Children, Deletes

(* The first is the root row, the others refer to it.                      *)
LEMMA DocumentRows ==
  ASSUME DocumentsAreWhole, NEW d \in Sent
  PROVE  LET k == KeyOf(d)
             root == NthRow(d, 1)
         IN /\ IsRow(root) /\ IsFunction(root.vals, DOMAIN root.vals) /\ Header \in DOMAIN root.vals
            /\ root.table = TableName /\ root.parent = <<>> /\ root.at = <<k>>
            /\ \A i \in 2..(Children(d) + 1) :
                 LET row == NthRow(d, i)
                 IN /\ Renderings[d].children[i - 1] = InsertOf(row)
                    /\ row.table # TableName /\ row.parent = TableName /\ row.at = <<k, row.at[2]>>
                    /\ \E t \in ToSet(Models[d.schema].tables) : row.table = t.name
            /\ \A i, j \in 1..(Children(d) + 1) : Same(NthRow(d, i), NthRow(d, j)) => i = j
<1> DEFINE r == Renderings[d]
           k == KeyOf(d)
           n == Children(d)
           model == Models[d.schema]
<1>1. /\ IsModel(model, TableName) /\ IsRendering(r, model, TableName)
      /\ IsWhole(r, model, TableName, k, CellsOf(d)) /\ k = r.key
      /\ n \in Nat /\ DOMAIN r.children = 1..n
      /\ \A j \in 1..n : r.children[j] = InsertOf(r.children[j].row) /\ IsRowOf(r.children[j].row, model)
  BY Lines
<1>2. \A i : NthRow(d, i) = IF i = 1 THEN r.row ELSE r.children[i - 1].row
  BY DEF NthRow
<1>3. model.tables = <<>> \/ IsSequence(model.tables)
  BY <1>1, ModelsAssumption DEF IsModel, Sent, Planned
<1> HIDE DEF r, k, n, model
<1>4. /\ IsRowOf(r.row, model) /\ r.row.table = TableName /\ r.row.parent = <<>> /\ r.row.at = <<k>>
  BY <1>1 DEF IsRendering
<1>5. /\ Header \in DOMAIN r.row.vals
      /\ \A i \in 1..n :
           LET row == r.children[i].row
           IN /\ row.table # TableName /\ row.parent = TableName
              /\ row.at = <<k, row.at[2]>>
              /\ \A j \in 1..n : Same(row, r.children[j].row) => i = j
  BY <1>1 DEF IsWhole
<1>6. IsRow(r.row) /\ IsFunction(r.row.vals, DOMAIN r.row.vals)
  BY <1>4 DEF IsRowOf
<1>7. ASSUME NEW i \in 2..(n + 1)
      PROVE  LET row == NthRow(d, i)
             IN /\ i - 1 \in 1..n /\ row = r.children[i - 1].row
                /\ r.children[i - 1] = InsertOf(row)
                /\ row.table # TableName /\ row.parent = TableName /\ row.at = <<k, row.at[2]>>
                /\ \E t \in ToSet(model.tables) : row.table = t.name
  <2>1. i - 1 \in 1..n /\ i # 1
    BY <1>1
  <2>2. NthRow(d, i) = r.children[i - 1].row
    BY <1>2, <2>1
  <2>3. \E t \in ToSet(model.tables) : r.children[i - 1].row.table = t.name
    BY <1>1, <2>1 DEF IsRowOf, ToSet
  <2> QED BY <1>1, <1>5, <2>1, <2>2, <2>3
<1>8. ASSUME NEW i \in 1..(n + 1), NEW j \in 1..(n + 1), Same(NthRow(d, i), NthRow(d, j))
      PROVE  i = j
  <2>1. NthRow(d, 1).table = TableName
    BY <1>2, <1>4
  <2>2. \/ i = j
        \/ i \in 2..(n + 1) /\ j \in 2..(n + 1)
        \/ i = 1 /\ j \in 2..(n + 1)
        \/ j = 1 /\ i \in 2..(n + 1)
    BY <1>1
  <2>3. ASSUME i \in 2..(n + 1), j \in 2..(n + 1) PROVE i = j
    <3>1. i - 1 \in 1..n /\ j - 1 \in 1..n /\ Same(r.children[i - 1].row, r.children[j - 1].row)
      BY <1>7, <1>8, <2>3
    <3>2. i - 1 = j - 1
      BY <1>5, <3>1
    <3> QED BY <1>1, <3>2
  <2> QED BY <1>7, <1>8, <2>1, <2>2, <2>3 DEF Same
<1>9. NthRow(d, 1) = r.row
  BY <1>2
<1> QED BY <1>4, <1>5, <1>6, <1>7, <1>8, <1>9 DEF r, k, n, model

Written(d, i) == {NthRow(d, j) : j \in 1..i}

LEMMA AllWritten ==
  ASSUME DocumentsAreWhole, NEW d \in Sent
  PROVE  RowsFor(d) = Written(d, Children(d) + 1) /\ Written(d, 0) = {}
<1> DEFINE r == Renderings[d]
           n == Children(d)
<1>1. n \in Nat /\ DOMAIN r.children = 1..n
  BY Lines
<1>2. \A i : NthRow(d, i) = IF i = 1 THEN r.row ELSE r.children[i - 1].row
  BY DEF NthRow
<1>3. RowsFor(d) = {r.row} \cup {r.children[i].row : i \in 1..n}
  BY <1>1 DEF RowsFor, RowsOf
<1> HIDE DEF r, n
<1>4. ASSUME NEW i \in 1..(n + 1) PROVE NthRow(d, i) \in {r.row} \cup {r.children[j].row : j \in 1..n}
  <2>1. i # 1 => i - 1 \in 1..n
    BY <1>1
  <2> QED BY <1>2, <2>1
<1>5. ASSUME NEW i \in 1..n PROVE r.children[i].row \in {NthRow(d, j) : j \in 1..(n + 1)}
  <2>1. i + 1 \in 1..(n + 1) /\ i + 1 # 1 /\ i + 1 - 1 = i
    BY <1>1
  <2> QED BY <1>2, <2>1
<1>6. 1 \in 1..(n + 1) /\ NthRow(d, 1) = r.row
  BY <1>1, <1>2
<1>7. RowsFor(d) = {NthRow(d, j) : j \in 1..(n + 1)}
  BY <1>3, <1>4, <1>5, <1>6
<1> QED BY <1>7 DEF Written, n

(* What is under a key of the root table, with all its child rows.         *)
At(R, k) == {q \in R : q.at[1] = k}

(* The rows of a document are under its key, and of its root or its        *)
(* child tables.                                                           *)
LEMMA RowsUnderKey ==
  ASSUME DocumentsAreWhole, NEW d \in Sent, NEW q \in RowsFor(d)
  PROVE  /\ q.at[1] = KeyOf(d)
         /\ \/ q = NthRow(d, 1) /\ q.table = TableName /\ q.parent = <<>> /\ Front(q.at) = <<>>
            \/ /\ q.table # TableName /\ q.parent = TableName /\ Front(q.at) = <<KeyOf(d)>>
               /\ \E t \in ToSet(Models[d.schema].tables) : q.table = t.name
<1> DEFINE k == KeyOf(d)
<1>1. PICK i \in 1..(Children(d) + 1) : q = NthRow(d, i)
  BY AllWritten DEF Written
<1>2. CASE i = 1
  <2>1. q.table = TableName /\ q.parent = <<>> /\ q.at = <<k>>
    BY <1>1, <1>2, DocumentRows
  <2>2. <<k>>[1] = k /\ Front(<<k>>) = <<>>
    BY FrontOfPair
  <2> QED BY <1>1, <1>2, <2>1, <2>2
<1>3. CASE i # 1
  <2>1. i \in 2..(Children(d) + 1)
    BY <1>3, Lines
  <2>2. /\ q.table # TableName /\ q.parent = TableName /\ q.at = <<k, q.at[2]>>
        /\ \E t \in ToSet(Models[d.schema].tables) : q.table = t.name
    BY <1>1, <2>1, DocumentRows
  <2>3. <<k, q.at[2]>>[1] = k /\ Front(<<k, q.at[2]>>) = <<k>>
    BY FrontOfPair
  <2> QED BY <2>2, <2>3
<1> QED BY <1>2, <1>3

(* Where nothing is under a document's key, its rows are inserted one      *)
(* after the other.                                                        *)
LEMMA RowInserted ==
  ASSUME DocumentsAreWhole, NEW d \in Sent, NEW R, At(R, KeyOf(d)) = {},
         NEW i \in 1..(Children(d) + 1)
  PROVE  Exec(R \cup Written(d, i - 1), InsertOf(NthRow(d, i)))
           = [db |-> R \cup Written(d, i), ok |-> TRUE]
<1> DEFINE k == KeyOf(d)
           n == Children(d)
           row == NthRow(d, i)
           db == R \cup Written(d, i - 1)
<1>1. n \in Nat
  BY Lines
<1>2. Written(d, i) = Written(d, i - 1) \cup {row}
  <2>1. 1..i = 1..(i - 1) \cup {i}
    BY <1>1
  <2> QED BY <2>1 DEF Written
<1>3. Exec(db, InsertOf(row)) = ExecInsert(db, row)
  <2>1. InsertOf(row).op = "insert" /\ InsertOf(row).row = row
    BY DEF InsertOf
  <2> QED BY <2>1 DEF Exec
<1>4. row \in RowsFor(d)
  BY AllWritten DEF Written
<1>5. row.at[1] = k
  BY <1>4, RowsUnderKey
<1>6. ASSUME NEW q \in db, Same(q, row) PROVE FALSE
  <2>1. CASE q \in R
    BY <1>5, <1>6, <2>1 DEF At, Same
  <2>2. CASE q \in Written(d, i - 1)
    <3>1. PICK j \in 1..(i - 1) : q = NthRow(d, j)
      BY <2>2 DEF Written
    <3>2. j \in 1..(n + 1) /\ j # i
      BY <1>1, <3>1
    <3> QED BY <1>6, <3>1, <3>2, DocumentRows
  <2> QED BY <1>6, <2>1, <2>2
<1>7. ParentThere(db, row)
  <2>1. CASE i = 1
    <3>1. row.parent = <<>>
      BY <2>1, DocumentRows
    <3> QED BY <3>1 DEF ParentThere
  <2>2. CASE i # 1
    <3>1. i \in 2..(n + 1) /\ 1 \in 1..(i - 1)
      BY <1>1, <2>2
    <3>2. NthRow(d, 1) \in db
      BY <3>1 DEF Written
    <3>3. row.parent = TableName /\ row.at = <<k, row.at[2]>>
      BY <3>1, DocumentRows
    <3>4. NthRow(d, 1).table = TableName /\ NthRow(d, 1).at = <<k>>
      BY DocumentRows
    <3>5. Front(row.at) = <<k>>
      BY <3>3, FrontOfPair
    <3> QED BY <3>2, <3>3, <3>4, <3>5 DEF ParentThere
  <2> QED BY <2>1, <2>2
<1>8. ExecInsert(db, row) = [db |-> db \cup {row}, ok |-> TRUE]
  BY <1>6, <1>7 DEF ExecInsert
<1> QED BY <1>2, <1>3, <1>8

LEMMA InsertLines ==
  ASSUME DocumentsAreWhole, NEW d \in Sent
  PROVE  LET stmts == InsertStatements(Renderings[d])
         IN /\ Len(stmts) = Children(d) + 1 /\ IsSequence(stmts)
            /\ \A i \in 1..(Children(d) + 1) : stmts[i] = InsertOf(NthRow(d, i))
            /\ Rendered(Renderings[d], stmts)
<1> DEFINE r == Renderings[d]
           n == Children(d)
           first == <<[op |-> "insert", row |-> r.row]>>
           stmts == first \o r.children
<1>1. /\ n \in Nat /\ IsSequence(r.children) /\ n = Len(r.children) /\ r.key # Nil
      /\ DOMAIN r.children = 1..n
  BY Lines DEF Children
<1>2. NthRow(d, 1) = r.row
  BY DEF NthRow
<1>3. first[1] = InsertOf(NthRow(d, 1))
  BY <1>2 DEF InsertOf
<1>4. IsSequence(first) /\ Len(first) = 1
  <2>1. IsFunction(first, 1..1)
    BY DEF IsFunction
  <2> QED BY <2>1, SequenceOf
<1>5. InsertStatements(r) = stmts
  BY DEF InsertStatements
<1>6. \A i \in 2..(n + 1) : r.children[i - 1] = InsertOf(NthRow(d, i))
  BY DocumentRows
<1> HIDE DEF r, n, first
<1>7. /\ IsSequence(stmts) /\ Len(stmts) = 1 + n /\ stmts[1] = first[1]
      /\ \A i \in 2..(1 + n) : stmts[i] = r.children[i - 1]
  <2>1. /\ IsSequence(stmts) /\ Len(stmts) = 1 + n
        /\ \A i \in 1..1 : stmts[i] = first[i]
        /\ \A i \in (1 + 1)..(1 + n) : stmts[i] = r.children[i - 1]
    <3>1. Len(first) = 1 /\ Len(r.children) = n
      BY <1>1, <1>4
    <3>2. /\ IsSequence(stmts) /\ Len(stmts) = Len(first) + Len(r.children)
          /\ \A i \in 1..Len(first) : stmts[i] = first[i]
          /\ \A i \in (Len(first) + 1)..(Len(first) + Len(r.children)) :
               stmts[i] = r.children[i - Len(first)]
      BY <1>1, <1>4, Concatenated
    <3> HIDE DEF stmts
    <3> QED BY <3>1, <3>2
  <2> HIDE DEF stmts
  <2>2. 1 \in 1..1 /\ 1 + 1 = 2
    OBVIOUS
  <2> QED BY <2>1, <2>2
<1> HIDE DEF stmts
<1>8. ASSUME NEW i \in 1..(n + 1) PROVE stmts[i] = InsertOf(NthRow(d, i))
  <2>1. i = 1 \/ i \in 2..(1 + n)
    BY <1>1
  <2> QED BY <1>3, <1>6, <1>7, <2>1
<1>9. Bad \notin ToSet(stmts)
  <2>1. DOMAIN stmts = 1..(n + 1)
    BY <1>1, <1>7, SequenceFacts
  <2>2. \A row : InsertOf(row) # Bad
    BY DEF InsertOf, Bad
  <2> QED BY <1>8, <2>1, <2>2 DEF ToSet
<1> QED BY <1>1, <1>5, <1>7, <1>8, <1>9 DEF r, n, Rendered

(* Under a free key an INSERT stores the document.                         *)
LEMMA Inserted ==
  ASSUME DocumentsAreWhole, NEW d \in Sent, NEW R, At(R, KeyOf(d)) = {}
  PROVE  Execute(R, InsertStatements(Renderings[d])) = [db |-> R \cup RowsFor(d), ok |-> TRUE]
<1> DEFINE n == Children(d)
           stmts == InsertStatements(Renderings[d])
           dbs == [i \in 0..(n + 1) |-> R \cup Written(d, i)]
<1>1. /\ n \in Nat /\ Len(stmts) = n + 1
      /\ \A i \in 1..(n + 1) : stmts[i] = InsertOf(NthRow(d, i))
  BY Lines, InsertLines
<1> HIDE DEF stmts, n
<1>2. ASSUME NEW i \in 1..(n + 1) PROVE Exec(dbs[i - 1], stmts[i]) = [db |-> dbs[i], ok |-> TRUE]
  <2>1. i - 1 \in 0..(n + 1) /\ i \in 0..(n + 1)
    BY <1>1
  <2>2. dbs[i - 1] = R \cup Written(d, i - 1) /\ dbs[i] = R \cup Written(d, i)
    BY <2>1
  <2>3. Exec(R \cup Written(d, i - 1), InsertOf(NthRow(d, i)))
          = [db |-> R \cup Written(d, i), ok |-> TRUE]
    BY RowInserted DEF n
  <2>4. stmts[i] = InsertOf(NthRow(d, i))
    BY <1>1
  <2> HIDE DEF dbs
  <2> QED BY <2>2, <2>3, <2>4
<1>3. dbs[0] = R \cup Written(d, 0) /\ dbs[n + 1] = R \cup Written(d, n + 1)
  BY <1>1
<1>4. dbs[0] = R /\ dbs[n + 1] = R \cup RowsFor(d)
  BY <1>3, AllWritten DEF n
<1> HIDE DEF dbs
<1>5. \A i \in 1..Len(stmts) : Exec(dbs[i - 1], stmts[i]) = [db |-> dbs[i], ok |-> TRUE]
  BY <1>1, <1>2
<1>6. Len(stmts) \in Nat
  BY <1>1
<1>7. Execute(dbs[0], stmts) = [db |-> dbs[Len(stmts)], ok |-> TRUE]
  BY <1>5, <1>6, ExecuteAll
<1>8. dbs[Len(stmts)] = R \cup RowsFor(d)
  BY <1>1, <1>4
<1> QED BY <1>4, <1>7, <1>8 DEF stmts

(* Under a key that is taken it fails at its first statement.              *)
LEMMA NotInserted ==
  ASSUME DocumentsAreWhole, NEW d \in Sent, NEW R, NEW e \in Sent, KeyOf(e) = KeyOf(d),
         At(R, KeyOf(d)) = RowsFor(e)
  PROVE  ~Execute(R, InsertStatements(Renderings[d])).ok
<1> DEFINE n == Children(d)
           stmts == InsertStatements(Renderings[d])
           row == NthRow(d, 1)
           q == NthRow(e, 1)
<1>1. n \in Nat /\ Len(stmts) = n + 1 /\ \A i \in 1..(n + 1) : stmts[i] = InsertOf(NthRow(d, i))
  BY Lines, InsertLines
<1>2. Len(stmts) \in Nat \ {0} /\ stmts[1] = InsertOf(row)
  BY <1>1
<1>3. q \in RowsFor(e)
  <2>1. Children(e) \in Nat
    BY Lines
  <2>2. 1 \in 1..(Children(e) + 1)
    BY <2>1
  <2> QED BY <2>2, AllWritten DEF Written
<1>4. q \in R /\ Same(q, row)
  BY <1>3, DocumentRows DEF At, Same
<1>5. ~Exec(R, InsertOf(row)).ok
  <2>1. InsertOf(row).op = "insert" /\ InsertOf(row).row = row
    BY DEF InsertOf
  <2>2. Exec(R, InsertOf(row)) = ExecInsert(R, row)
    BY <2>1 DEF Exec
  <2>3. ExecInsert(R, row).ok <=> ParentThere(R, row) /\ ~\E p \in R : Same(p, row)
    BY DEF ExecInsert
  <2> HIDE DEF q, row
  <2> QED BY <1>4, <2>2, <2>3
<1> HIDE DEF stmts, row
<1> QED BY <1>2, <1>5, ExecuteNone DEF stmts

-----------------------------------------------------------------------------
(***************************************************************************)
(* Upserts.                                                                *)
(***************************************************************************)
(* Under every key there is one whole document of schema s, or nothing.    *)
Whole(s, R) ==
  \A k : At(R, k) = {} \/ \E e \in Sent : e.schema = s /\ KeyOf(e) = k /\ At(R, k) = RowsFor(e)

LEMMA StoredRow ==
  ASSUME NEW s, NEW R, Whole(s, R), NEW q \in R
  PROVE  \E e \in Sent : e.schema = s /\ KeyOf(e) = q.at[1] /\ At(R, q.at[1]) = RowsFor(e)
                         /\ q \in RowsFor(e)
<1>1. q \in At(R, q.at[1])
  BY DEF At
<1> QED BY <1>1 DEF Whole

UpsertOf(row) == [op |-> "upsert", row |-> row]

LEMMA UpsertLines ==
  ASSUME DocumentsAreWhole, NEW d \in Sent
  PROVE  LET stmts == UpsertStatements(Renderings[d])
             n == Children(d)
             nd == Deletes(d)
         IN /\ Len(stmts) = nd + 1 + n /\ IsSequence(stmts)
            /\ \A i \in 1..nd : stmts[i] = Renderings[d].deletes[i]
            /\ stmts[nd + 1] = UpsertOf(NthRow(d, 1))
            /\ \A i \in 2..(n + 1) : stmts[nd + i] = InsertOf(NthRow(d, i))
            /\ Rendered(Renderings[d], stmts)
<1> DEFINE r == Renderings[d]
           n == Children(d)
           nd == Deletes(d)
           root == <<[op |-> "upsert", row |-> r.row]>>
           front == r.deletes \o root
           stmts == front \o r.children
<1>1. /\ n \in Nat /\ IsSequence(r.children) /\ n = Len(r.children) /\ r.key # Nil
      /\ nd \in Nat /\ IsSequence(r.deletes) /\ nd = Len(r.deletes) /\ r.updates = TRUE
      /\ \A j \in 1..nd : r.deletes[j] # Bad
  BY Lines DEF Children, Deletes
<1>2. root[1] = UpsertOf(NthRow(d, 1))
  BY DEF NthRow, UpsertOf
<1>3. IsSequence(root) /\ Len(root) = 1
  <2>1. IsFunction(root, 1..1)
    BY DEF IsFunction
  <2> QED BY <2>1, SequenceOf
<1>4. UpsertStatements(r) = stmts
  <2>1. r.deletes \o <<>> = r.deletes
    <3>1. r.deletes \in Seq(ToSet(r.deletes))
      BY <1>1 DEF IsSequence
    <3> QED BY <3>1, ConcatEmptySeq
  <2> QED BY <1>1, <2>1 DEF UpsertStatements
<1>5. \A i \in 2..(n + 1) : r.children[i - 1] = InsertOf(NthRow(d, i))
  BY DocumentRows
<1> HIDE DEF r, n, nd, root
<1>6. /\ IsSequence(front) /\ Len(front) = nd + 1
      /\ \A i \in 1..nd : front[i] = r.deletes[i]
      /\ front[nd + 1] = root[1]
  <2>1. /\ IsSequence(front) /\ Len(front) = Len(r.deletes) + Len(root)
        /\ \A i \in 1..Len(r.deletes) : front[i] = r.deletes[i]
        /\ \A i \in 1..Len(root) : front[Len(r.deletes) + i] = root[i]
    <3>1. IsSequence(r.deletes) /\ IsSequence(root)
      BY <1>1, <1>3
    <3> QED BY <3>1, Concatenated
  <2> HIDE DEF front
  <2>2. Len(r.deletes) = nd /\ Len(root) = 1 /\ 1 \in 1..Len(root)
    BY <1>1, <1>3
  <2>3. front[Len(r.deletes) + 1] = root[1]
    BY <2>1, <2>2
  <2> QED BY <2>1, <2>2, <2>3
<1> HIDE DEF front
<1>7. /\ IsSequence(stmts) /\ Len(stmts) = nd + 1 + n
      /\ \A i \in 1..(nd + 1) : stmts[i] = front[i]
      /\ \A i \in 1..n : stmts[nd + 1 + i] = r.children[i]
  <2>1. /\ IsSequence(stmts) /\ Len(stmts) = Len(front) + Len(r.children)
        /\ \A i \in 1..Len(front) : stmts[i] = front[i]
        /\ \A i \in 1..Len(r.children) : stmts[Len(front) + i] = r.children[i]
    <3>1. IsSequence(front) /\ IsSequence(r.children)
      BY <1>1, <1>6
    <3> QED BY <3>1, Concatenated
  <2> HIDE DEF stmts
  <2>2. Len(front) = nd + 1 /\ Len(r.children) = n
    BY <1>1, <1>6
  <2> QED BY <2>1, <2>2
<1> HIDE DEF stmts
<1>12. n \in Nat /\ nd \in Nat
  BY <1>1
<1>8. ASSUME NEW i \in 1..nd PROVE stmts[i] = r.deletes[i]
  <2>1. i \in 1..(nd + 1)
    BY <1>12
  <2> QED BY <1>6, <1>7, <2>1
<1>9. stmts[nd + 1] = UpsertOf(NthRow(d, 1))
  <2>1. nd + 1 \in 1..(nd + 1)
    BY <1>1
  <2> QED BY <1>2, <1>6, <1>7, <2>1
<1>10. ASSUME NEW i \in 2..(n + 1) PROVE stmts[nd + i] = InsertOf(NthRow(d, i))
  <2>1. i - 1 \in 1..n /\ nd + 1 + (i - 1) = nd + i
    BY <1>1
  <2> QED BY <1>5, <1>7, <2>1
<1>11. Bad \notin ToSet(stmts)
  <2>1. DOMAIN stmts = 1..(nd + 1 + n)
    BY <1>7, SequenceFacts
  <2>2. \A row : InsertOf(row) # Bad /\ UpsertOf(row) # Bad
    BY DEF InsertOf, UpsertOf, Bad
  <2>3. ASSUME NEW i \in 1..(nd + 1 + n) PROVE stmts[i] # Bad
    <3>1. CASE i \in 1..nd
      BY <1>1, <1>8, <3>1
    <3>2. CASE i = nd + 1
      BY <1>9, <2>2, <3>2
    <3>3. CASE i > nd + 1
      <4>1. i - nd \in 2..(n + 1) /\ nd + (i - nd) = i
        BY <1>12, <3>3
      <4>2. stmts[i] = InsertOf(NthRow(d, i - nd))
        BY <1>10, <4>1
      <4> QED BY <2>2, <4>2
    <3> QED BY <1>1, <3>1, <3>2, <3>3
  <2> QED BY <2>1, <2>3 DEF ToSet
<1> QED BY <1>1, <1>4, <1>7, <1>8, <1>9, <1>10, <1>11 DEF r, n, nd, Rendered

(* What the first i DELETEs of a document leave.                           *)
Cleared(d, R, i) ==
  {q \in R : ~\E j \in 1..i : q.table = Renderings[d].deletes[j].table /\ Front(q.at) = <<KeyOf(d)>>}

(* No DELETE is refused: no row refers to a row of a child table.          *)
LEMMA RowsDeleted ==
  ASSUME DocumentsAreWhole, NEW d \in Sent, NEW R, Whole(d.schema, R), NEW i \in 1..Deletes(d)
  PROVE  Exec(Cleared(d, R, i - 1), Renderings[d].deletes[i]) = [db |-> Cleared(d, R, i), ok |-> TRUE]
<1> DEFINE k == KeyOf(d)
           st == Renderings[d].deletes[i]
           db == Cleared(d, R, i - 1)
           deleted == {q \in db : q.table = st.table /\ Front(q.at) = <<k>>}
<1>1. Deletes(d) \in Nat /\ st.op = "delete" /\ st.at = <<k>> /\ st.table # TableName
  <2>1. /\ Deletes(d) \in Nat
        /\ st = [op |-> "delete", table |-> st.table, at |-> <<k>>] /\ st.table # TableName
    BY Lines
  <2> QED BY <2>1
<1>2. Exec(db, st) = ExecDelete(db, st.table, <<k>>)
  BY <1>1 DEF Exec
<1>3. db \ deleted = Cleared(d, R, i)
  <2>1. 1..i = 1..(i - 1) \cup {i}
    BY <1>1
  <2> QED BY <2>1 DEF Cleared
<1>4. ASSUME NEW q \in db, NEW p \in deleted, Refers(q, p) PROVE FALSE
  <2>1. q \in R
    BY DEF Cleared
  <2>2. PICK e \in Sent : q \in RowsFor(e)
    BY <2>1, StoredRow
  <2>3. q.parent = <<>> \/ q.parent = TableName
    BY <2>2, RowsUnderKey
  <2> QED BY <1>1, <1>4, <2>3 DEF Refers
<1>5. ExecDelete(db, st.table, <<k>>) = [db |-> db \ deleted, ok |-> TRUE]
  <2>1. ~\E q \in db \ deleted, p \in deleted : Refers(q, p)
    BY <1>4
  <2> QED BY <2>1 DEF ExecDelete
<1> QED BY <1>2, <1>3, <1>5

(* After all of them at most the root row is left under the key.           *)
LEMMA AllDeleted ==
  ASSUME DocumentsAreWhole, NEW d \in Sent, NEW R, Whole(d.schema, R)
  PROVE  /\ Cleared(d, R, 0) = R
         /\ Cleared(d, R, Deletes(d))
              = (R \ At(R, KeyOf(d))) \cup {q \in At(R, KeyOf(d)) : q.table = TableName}
<1> DEFINE k == KeyOf(d)
           nd == Deletes(d)
           dels == Renderings[d].deletes
<1>1. /\ nd \in Nat /\ DOMAIN dels = 1..nd
      /\ \A j \in 1..nd : dels[j].table # TableName
      /\ IsWhole(Renderings[d], Models[d.schema], TableName, k, CellsOf(d))
  BY Lines
<1>2. ASSUME NEW t \in ToSet(Models[d.schema].tables), t.name # TableName
      PROVE  \E j \in 1..nd : dels[j].table = t.name
  <2>1. PICK st \in ToSet(dels) : st.table = t.name
    BY <1>1, <1>2 DEF IsWhole
  <2> QED BY <1>1, <2>1 DEF ToSet
<1>3. Cleared(d, R, 0) = R
  BY DEF Cleared
<1>4. ASSUME NEW q \in R
      PROVE  (\E j \in 1..nd : q.table = dels[j].table /\ Front(q.at) = <<k>>)
               <=> q \in At(R, k) /\ q.table # TableName
  <2>1. PICK e \in Sent : e.schema = d.schema /\ KeyOf(e) = q.at[1] /\ q \in RowsFor(e)
    BY StoredRow
  <2>2. \/ q.table = TableName /\ Front(q.at) = <<>>
        \/ /\ q.table # TableName /\ Front(q.at) = <<KeyOf(e)>>
           /\ \E t \in ToSet(Models[d.schema].tables) : q.table = t.name
    BY <2>1, RowsUnderKey
  <2>3. <<k>> = <<KeyOf(e)>> <=> k = KeyOf(e)
    OBVIOUS
  <2> QED BY <1>1, <1>2, <2>1, <2>2, <2>3 DEF At
<1> HIDE DEF dels
<1>5. Cleared(d, R, nd) = (R \ At(R, k)) \cup {q \in At(R, k) : q.table = TableName}
  <2>1. Cleared(d, R, nd) = {q \in R : ~\E j \in 1..nd : q.table = dels[j].table /\ Front(q.at) = <<k>>}
    BY DEF Cleared, dels
  <2>2. At(R, k) \subseteq R
    BY DEF At
  <2> QED BY <1>4, <2>1, <2>2
<1> QED BY <1>3, <1>5

(* Two root rows of one key differ in their values only, not in the header.*)
LEMMA RootMerged ==
  ASSUME DocumentsAreWhole, NEW d \in Sent, NEW e \in Sent,
         e.schema = d.schema, KeyOf(e) = KeyOf(d)
  PROVE  Merged(NthRow(e, 1), NthRow(d, 1)) = NthRow(d, 1)
<1> DEFINE new == NthRow(d, 1)
           old == NthRow(e, 1)
<1>1. /\ IsRow(new) /\ IsFunction(new.vals, DOMAIN new.vals)
      /\ Header \in DOMAIN new.vals /\ Header \in DOMAIN old.vals
  BY DocumentRows
<1>2. old.vals[Header] = new.vals[Header]
  BY DEF DocumentsAreWhole, NthRow
<1> HIDE DEF new, old
<1> DEFINE vals == [c \in (DOMAIN new.vals \ {Header}) \cup (DOMAIN old.vals \cap {Header}) |->
                      IF c = Header THEN old.vals[c] ELSE new.vals[c]]
<1>3. vals = new.vals
  <2>1. (DOMAIN new.vals \ {Header}) \cup (DOMAIN old.vals \cap {Header}) = DOMAIN new.vals
    BY <1>1
  <2>2. vals = [c \in DOMAIN new.vals |-> new.vals[c]]
    BY <1>2, <2>1
  <2> QED BY <1>1, <2>2 DEF IsFunction
<1>4. Merged(old, new) = [new EXCEPT !.vals = vals]
  BY DEF Merged
<1> HIDE DEF vals
<1>5. [new EXCEPT !.vals = new.vals] = new
  BY <1>1 DEF IsRow
<1> QED BY <1>3, <1>4, <1>5 DEF new, old

(* The root row replaces the one that is left.                             *)
LEMMA RootUpserted ==
  ASSUME DocumentsAreWhole, NEW d \in Sent, NEW R, Whole(d.schema, R)
  PROVE  Exec(Cleared(d, R, Deletes(d)), UpsertOf(NthRow(d, 1)))
           = [db |-> (R \ At(R, KeyOf(d))) \cup Written(d, 1), ok |-> TRUE]
<1> DEFINE k == KeyOf(d)
           row == NthRow(d, 1)
           others == R \ At(R, k)
           db == Cleared(d, R, Deletes(d))
           left == {q \in At(R, k) : q.table = TableName}
           old == {q \in db : Same(q, row)}
<1>1. db = others \cup left
  BY AllDeleted
<1>2. row.table = TableName /\ row.at = <<k>> /\ row.at[1] = k
  <2>1. row.table = TableName /\ row.at = <<k>>
    BY DocumentRows
  <2> QED BY <2>1
<1>3. Written(d, 1) = {row}
  <2>1. 1..1 = {1}
    OBVIOUS
  <2> QED BY <2>1 DEF Written
<1>4. Exec(db, UpsertOf(row)) = ExecUpsert(db, row)
  <2>1. UpsertOf(row).op = "upsert" /\ UpsertOf(row).row = row
    BY DEF UpsertOf
  <2> QED BY <2>1 DEF Exec
<1>5. left = {} \/ \E e \in Sent : e.schema = d.schema /\ KeyOf(e) = k /\ left = {NthRow(e, 1)}
  <2>1. CASE At(R, k) = {}
    BY <2>1
  <2>2. CASE At(R, k) # {}
    <3>1. PICK e \in Sent : e.schema = d.schema /\ KeyOf(e) = k /\ At(R, k) = RowsFor(e)
      BY <2>2 DEF Whole
    <3>2. \A q \in RowsFor(e) : q.table = TableName => q = NthRow(e, 1)
      BY RowsUnderKey
    <3>3. NthRow(e, 1) \in RowsFor(e)
      BY DEF RowsFor, RowsOf, NthRow
    <3>4. NthRow(e, 1).table = TableName
      BY DocumentRows
    <3> QED BY <3>1, <3>2, <3>3, <3>4
  <2> QED BY <2>1, <2>2
<1>6. old = left
  <2>1. \A q \in left : Same(q, row)
    <3>1. \A e \in Sent : KeyOf(e) = k => Same(NthRow(e, 1), row)
      BY <1>2, DocumentRows DEF Same
    <3> HIDE DEF left, row
    <3> QED BY <1>5, <3>1
  <2>2. \A q \in others : ~Same(q, row)
    BY <1>2 DEF At, Same
  <2> HIDE DEF db, left, others, row
  <2> QED BY <1>1, <2>1, <2>2
<1>7. {Merged(q, row) : q \in left} = IF left = {} THEN {} ELSE {row}
  <2>1. \A e \in Sent : e.schema = d.schema /\ KeyOf(e) = k => Merged(NthRow(e, 1), row) = row
    BY RootMerged
  <2> HIDE DEF left, row
  <2> QED BY <1>5, <2>1
<1>8. db \ left = others
  BY <1>1
<1>9. ExecUpsert(db, row) = [db |-> (db \ old) \cup (IF old = {} THEN {row} ELSE {Merged(q, row) : q \in old}),
                             ok |-> TRUE]
  BY DEF ExecUpsert
<1> HIDE DEF db, left, others, row, old
<1>10. ExecUpsert(db, row) = [db |-> others \cup {row}, ok |-> TRUE]
  BY <1>6, <1>7, <1>8, <1>9
<1> QED BY <1>3, <1>4, <1>10 DEF db, others, row

(* An upsert replaces what is under the key of the document by its rows.   *)
LEMMA Upserted ==
  ASSUME DocumentsAreWhole, NEW d \in Sent, NEW R, Whole(d.schema, R)
  PROVE  Execute(R, UpsertStatements(Renderings[d]))
           = [db |-> (R \ At(R, KeyOf(d))) \cup RowsFor(d), ok |-> TRUE]
<1> DEFINE n == Children(d)
           nd == Deletes(d)
           others == R \ At(R, KeyOf(d))
           stmts == UpsertStatements(Renderings[d])
           after(i) == IF i <= nd THEN Cleared(d, R, i) ELSE others \cup Written(d, i - nd)
           dbs == [i \in 0..(nd + 1 + n) |-> after(i)]
<1>1. /\ n \in Nat /\ nd \in Nat /\ Len(stmts) = nd + 1 + n
      /\ \A i \in 1..nd : stmts[i] = Renderings[d].deletes[i]
      /\ stmts[nd + 1] = UpsertOf(NthRow(d, 1))
      /\ \A i \in 2..(n + 1) : stmts[nd + i] = InsertOf(NthRow(d, i))
  BY Lines, UpsertLines
<1>2. /\ \A i \in 1..nd :
           Exec(Cleared(d, R, i - 1), Renderings[d].deletes[i]) = [db |-> Cleared(d, R, i), ok |-> TRUE]
      /\ Exec(Cleared(d, R, nd), UpsertOf(NthRow(d, 1))) = [db |-> others \cup Written(d, 1), ok |-> TRUE]
  BY RowsDeleted, RootUpserted
<1>3. \A i \in 2..(n + 1) :
        Exec(others \cup Written(d, i - 1), InsertOf(NthRow(d, i)))
          = [db |-> others \cup Written(d, i), ok |-> TRUE]
  <2>1. At(others, KeyOf(d)) = {}
    BY DEF At
  <2>2. \A i \in 2..(n + 1) : i \in 1..(n + 1)
    OBVIOUS
  <2> HIDE DEF others
  <2> QED BY <2>1, <2>2, RowInserted
<1>4. Cleared(d, R, 0) = R /\ Written(d, n + 1) = RowsFor(d)
  BY AllDeleted, AllWritten
<1> HIDE DEF n, nd, others, stmts
<1>5. ASSUME NEW i \in 1..(nd + 1 + n)
      PROVE  Exec(after(i - 1), stmts[i]) = [db |-> after(i), ok |-> TRUE]
  <2>1. CASE i \in 1..nd
    <3>1. i - 1 <= nd /\ i <= nd
      BY <1>1, <2>1
    <3> QED BY <1>1, <1>2, <2>1, <3>1
  <2>2. CASE i = nd + 1
    <3>1. i - 1 = nd /\ ~(i <= nd) /\ nd <= nd /\ i - nd = 1
      BY <1>1, <2>2
    <3> QED BY <1>1, <1>2, <2>2, <3>1
  <2>3. CASE i > nd + 1
    <3>1. i - nd \in 2..(n + 1) /\ nd + (i - nd) = i /\ ~(i - 1 <= nd) /\ ~(i <= nd)
          /\ (i - 1) - nd = (i - nd) - 1
      BY <1>1, <2>3
    <3>2. stmts[i] = InsertOf(NthRow(d, i - nd))
      BY <1>1, <3>1
    <3> QED BY <1>3, <3>1, <3>2
  <2> QED BY <1>1, <2>1, <2>2, <2>3
<1>6. after(0) = R /\ after(nd + 1 + n) = others \cup RowsFor(d)
  <2>1. 0 <= nd /\ ~(nd + 1 + n <= nd) /\ (nd + 1 + n) - nd = n + 1
    BY <1>1
  <2> QED BY <1>4, <2>1
<1> HIDE DEF after
<1>7. \A i \in 0..(nd + 1 + n) : dbs[i] = after(i)
  OBVIOUS
<1> HIDE DEF dbs
<1>8. ASSUME NEW i \in 1..Len(stmts) PROVE Exec(dbs[i - 1], stmts[i]) = [db |-> dbs[i], ok |-> TRUE]
  <2>1. i \in 1..(nd + 1 + n) /\ i \in 0..(nd + 1 + n) /\ i - 1 \in 0..(nd + 1 + n)
    BY <1>1
  <2>2. dbs[i] = after(i) /\ dbs[i - 1] = after(i - 1)
    BY <1>7, <2>1
  <2> QED BY <1>5, <2>1, <2>2
<1>9. Len(stmts) \in Nat
  BY <1>1
<1>10. Execute(dbs[0], stmts) = [db |-> dbs[Len(stmts)], ok |-> TRUE]
  BY <1>8, <1>9, ExecuteAll
<1>11. dbs[0] = R /\ dbs[Len(stmts)] = others \cup RowsFor(d)
  <2>1. 0 \in 0..(nd + 1 + n) /\ nd + 1 + n \in 0..(nd + 1 + n)
    BY <1>1
  <2> QED BY <1>1, <1>6, <1>7, <2>1
<1> QED BY <1>10, <1>11 DEF stmts, others

-----------------------------------------------------------------------------
(***************************************************************************)
(* The store of documents.                                                 *)
(***************************************************************************)
LEMMA CellsOfBoth ==
  ASSUME NEW R, NEW Q
  PROVE  CellsIn(R \cup Q) = CellsIn(R) \cup CellsIn(Q)
BY DEF CellsIn

LEMMA CellsUnder ==
  ASSUME NEW R, NEW k
  PROVE  /\ {c \in CellsIn(R) : KeyIn(c) = k} = CellsIn(At(R, k))
         /\ {c \in CellsIn(R) : KeyIn(c) # k} = CellsIn(R \ At(R, k))
         /\ CellsIn(At(R, k)) = {} <=> At(R, k) = {}
<1> DEFINE cells(q) == {RowCell(q.table, q.at)}
                         \cup {Cell(q.table, q.at, c, q.vals[c]) : c \in DOMAIN q.vals}
<1>1. \A Q : CellsIn(Q) = UNION {cells(q) : q \in Q}
  BY DEF CellsIn
<1>2. ASSUME NEW q PROVE cells(q) # {} /\ \A c \in cells(q) : KeyIn(c) = q.at[1]
  <2>1. \A x, v : Cell(q.table, q.at, x, v).at = q.at
    BY DEF Cell
  <2>2. RowCell(q.table, q.at) = Cell(q.table, q.at, <<>>, Nil)
    BY DEF RowCell
  <2>3. RowCell(q.table, q.at) \in cells(q)
    OBVIOUS
  <2>4. ASSUME NEW c \in cells(q) PROVE c.at = q.at
    <3>1. c = RowCell(q.table, q.at) \/ \E x : c = Cell(q.table, q.at, x, q.vals[x])
      OBVIOUS
    <3> HIDE DEF cells
    <3> QED BY <2>1, <2>2, <3>1
  <2> QED BY <2>3, <2>4 DEF KeyIn
<1> HIDE DEF cells
<1>3. {c \in CellsIn(R) : KeyIn(c) = k} = CellsIn(At(R, k))
  BY <1>1, <1>2 DEF At
<1>4. {c \in CellsIn(R) : KeyIn(c) # k} = CellsIn(R \ At(R, k))
  BY <1>1, <1>2 DEF At
<1>5. CellsIn(At(R, k)) = {} <=> At(R, k) = {}
  BY <1>1, <1>2
<1> QED BY <1>3, <1>4, <1>5

LEMMA CellsOfDocument ==
  ASSUME DocumentsAreWhole, NEW d \in Sent
  PROVE  CellsIn(RowsFor(d)) = CellsOf(d)
<1>1. IsWhole(Renderings[d], Models[d.schema], TableName, KeyOf(d), CellsOf(d))
  BY Lines
<1> QED BY <1>1 DEF IsWhole, RowsFor

(* One document replaced leaves the others, and each key whole.            *)
LEMMA StaysWhole ==
  ASSUME DocumentsAreWhole, NEW d \in Sent, NEW R, Whole(d.schema, R)
  PROVE  Whole(d.schema, (R \ At(R, KeyOf(d))) \cup RowsFor(d))
<1> DEFINE k == KeyOf(d)
           Q == (R \ At(R, k)) \cup RowsFor(d)
<1>1. \A q \in RowsFor(d) : q.at[1] = k
  BY RowsUnderKey
<1>2. At(Q, k) = RowsFor(d)
  BY <1>1 DEF At
<1>3. ASSUME NEW j, j # k PROVE At(Q, j) = At(R, j)
  BY <1>1, <1>3 DEF At
<1> HIDE DEF Q
<1>4. Whole(d.schema, Q)
  BY <1>2, <1>3 DEF Whole
<1> QED BY <1>4 DEF Q

StoreInv == schema \in Planned /\ Whole(schema, rows)

LEMMA Inserts ==
  ASSUME DocumentsAreWhole, StoreInv, NEW d \in Sent, d.schema = schema, InsertDocument(d)
  PROVE  StoreInv' /\ Docs!Insert(d)
<1> DEFINE k == KeyOf(d)
           stmts == InsertStatements(Renderings[d])
           result == Execute(rows, stmts)
           ok == Rendered(Renderings[d], stmts) /\ result.ok
           free == {c \in StoredCells : KeyIn(c) = k} = {}
<1>1. /\ rows' = IF ok THEN result.db ELSE rows
      /\ last' = [op |-> "insert", doc |-> d, ok |-> ok]
      /\ schema' = schema
  BY DEF InsertDocument, Store
<1>2. Rendered(Renderings[d], stmts)
  BY InsertLines
<1>3. free <=> At(rows, k) = {}
  BY CellsUnder DEF StoredCells
<1>4. Docs!Insert(d) <=>
        /\ StoredCells' = IF free THEN StoredCells \cup CellsOf(d) ELSE StoredCells
        /\ last' = [op |-> "insert", doc |-> d, ok |-> free]
  BY DEF Docs!Insert, Docs!Under
<1>5. schema' \in Planned
  BY <1>1 DEF StoreInv
<1>6. StoredCells = CellsIn(rows) /\ StoredCells' = CellsIn(rows')
  BY DEF StoredCells
<1>7. CASE At(rows, k) = {}
  <2>1. result = [db |-> rows \cup RowsFor(d), ok |-> TRUE]
    BY <1>7, Inserted
  <2>2. result.ok = TRUE /\ result.db = rows \cup RowsFor(d)
    BY <2>1
  <2> HIDE DEF stmts, result
  <2>3. rows' = rows \cup RowsFor(d) /\ last' = [op |-> "insert", doc |-> d, ok |-> TRUE]
    BY <1>1, <1>2, <2>2
  <2>4. rows' = (rows \ At(rows, k)) \cup RowsFor(d)
    BY <1>7, <2>3
  <2>5. Whole(schema, rows')
    BY <2>4, StaysWhole DEF StoreInv
  <2>6. StoredCells' = StoredCells \cup CellsOf(d)
    BY <1>6, <2>3, CellsOfBoth, CellsOfDocument
  <2>7. free = TRUE
    BY <1>3, <1>7
  <2>8. StoreInv'
    BY <1>1, <1>5, <2>5 DEF StoreInv
  <2> HIDE DEF free
  <2> QED BY <1>4, <2>3, <2>6, <2>7, <2>8
<1>8. CASE At(rows, k) # {}
  <2>1. PICK e \in Sent : KeyOf(e) = k /\ At(rows, k) = RowsFor(e)
    BY <1>8 DEF StoreInv, Whole
  <2>2. ~result.ok
    BY <2>1, NotInserted
  <2> HIDE DEF stmts, result
  <2>3. rows' = rows /\ last' = [op |-> "insert", doc |-> d, ok |-> FALSE]
    BY <1>1, <2>2
  <2>4. free = FALSE
    BY <1>3, <1>8
  <2>5. StoredCells' = StoredCells
    BY <1>6, <2>3
  <2>6. StoreInv'
    BY <1>1, <1>5, <2>3 DEF StoreInv
  <2> HIDE DEF free
  <2> QED BY <1>4, <2>3, <2>4, <2>5, <2>6
<1> QED BY <1>7, <1>8

LEMMA Upserts ==
  ASSUME DocumentsAreWhole, StoreInv, NEW d \in Sent, d.schema = schema, UpsertDocument(d)
  PROVE  StoreInv' /\ Docs!Replace(d)
<1> DEFINE k == KeyOf(d)
           stmts == UpsertStatements(Renderings[d])
           result == Execute(rows, stmts)
           ok == Rendered(Renderings[d], stmts) /\ result.ok
<1>1. /\ rows' = IF ok THEN result.db ELSE rows
      /\ last' = [op |-> "upsert", doc |-> d, ok |-> ok]
      /\ schema' = schema
  BY DEF UpsertDocument, Store
<1>2. Rendered(Renderings[d], stmts)
  BY UpsertLines
<1>3. Docs!Replace(d) <=>
        /\ StoredCells' = (StoredCells \ {c \in StoredCells : KeyIn(c) = k}) \cup CellsOf(d)
        /\ last' = [op |-> "upsert", doc |-> d, ok |-> TRUE]
  BY DEF Docs!Replace, Docs!Under
<1>4. result = [db |-> (rows \ At(rows, k)) \cup RowsFor(d), ok |-> TRUE]
  BY Upserted DEF StoreInv
<1>5. result.ok = TRUE /\ result.db = (rows \ At(rows, k)) \cup RowsFor(d)
  BY <1>4
<1> HIDE DEF stmts, result
<1>6. /\ rows' = (rows \ At(rows, k)) \cup RowsFor(d)
      /\ last' = [op |-> "upsert", doc |-> d, ok |-> TRUE]
  BY <1>1, <1>2, <1>5
<1>7. StoredCells = CellsIn(rows) /\ StoredCells' = CellsIn(rows')
  BY DEF StoredCells
<1>8. StoredCells' = CellsIn(rows \ At(rows, k)) \cup CellsOf(d)
  BY <1>6, <1>7, CellsOfBoth, CellsOfDocument
<1>9. StoredCells \ {c \in StoredCells : KeyIn(c) = k} = CellsIn(rows \ At(rows, k))
  BY <1>7, CellsUnder
<1>10. StoreInv'
  <2>1. Whole(schema, rows')
    BY <1>6, StaysWhole DEF StoreInv
  <2> QED BY <1>1, <2>1 DEF StoreInv
<1> QED BY <1>3, <1>6, <1>8, <1>9, <1>10

(* A normalized model is a store of documents: each insert and each upsert *)
(* is one step of it, accepted under the same conditions, which leaves     *)
(* exactly the cells of the document under its key and every other key     *)
(* alone; so the statements come in an order no key or foreign key         *)
(* forbids (dml.go:11-30, 85-88, 166-169; spec.go:128-130).  It needs that *)
(* documents have all their arrays, at the root of their schema.           *)
THEOREM ModelStoresDocuments ==
  ASSUME DocumentsAreWhole
  PROVE  Spec => ImplementsStore
<1>1. Init => StoreInv /\ Docs!Init
  <2> SUFFICES ASSUME Init PROVE StoreInv /\ Docs!Init
    OBVIOUS
  <2>1. schema \in Planned /\ rows = {} /\ last = [op |-> "none"]
    BY DEF Init
  <2>2. \A k : At(rows, k) = {}
    BY <2>1 DEF At
  <2>3. StoredCells = {}
    BY <2>1 DEF StoredCells, CellsIn
  <2> QED BY <2>1, <2>2, <2>3 DEF StoreInv, Whole, Docs!Init
<1>2. StoreInv /\ [Next]_vars => StoreInv' /\ [Docs!Next]_(Docs!vars)
  <2> SUFFICES ASSUME StoreInv, [Next]_vars PROVE StoreInv' /\ [Docs!Next]_(Docs!vars)
    OBVIOUS
  <2>1. CASE UNCHANGED vars
    <3>1. schema' = schema /\ rows' = rows /\ last' = last
      BY <2>1 DEF vars
    <3>2. StoredCells' = StoredCells
      BY <3>1 DEF StoredCells
    <3>3. StoreInv'
      BY <3>1 DEF StoreInv
    <3> QED BY <3>1, <3>2, <3>3 DEF Docs!vars
  <2>2. CASE Next
    <3>1. PICK d \in Documents : d.schema = schema /\ (InsertDocument(d) \/ UpsertDocument(d))
      BY <2>2 DEF Next
    <3>2. d \in Sent
      BY <3>1 DEF StoreInv, Sent
    <3>3. StoreInv' /\ (Docs!Insert(d) \/ Docs!Replace(d))
      BY <3>1, <3>2, Inserts, Upserts
    <3> QED BY <3>3 DEF Docs!Next
  <2> QED BY <2>1, <2>2
<1> QED BY <1>1, <1>2, PTL DEF Spec, ImplementsStore, Docs!Spec
=============================================================================
