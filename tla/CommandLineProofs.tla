-------------------------- MODULE CommandLineProofs -------------------------
(***************************************************************************)
(* Proofs about CommandLine, for any schemas, directories of documents,    *)
(* number of runs and number of faults: relations and rows keep their      *)
(* types, -drop makes room, a run that ends well has stored its documents, *)
(* upserts repair, and refusals come in time.                              *)
(***************************************************************************)
EXTENDS CommandLine, SequenceTheorems, FiniteSetTheorems, WellFoundedInduction, TLAPS

-----------------------------------------------------------------------------
(* Sequences.                                                              *)

LEMMA SequenceFacts ==
  ASSUME NEW s, IsSequence(s)
  PROVE  /\ Len(s) \in Nat /\ DOMAIN s = 1..Len(s)
         /\ \A i \in 1..Len(s) : s[i] \in ToSet(s)
         /\ s # <<>> => Len(s) # 0
<1>1. s \in Seq(ToSet(s))
  BY DEF IsSequence
<1> QED BY <1>1, LenProperties, EmptySeq DEF ToSet

LEMMA SequenceOf ==
  ASSUME NEW s, NEW n \in Nat, IsFunction(s, 1..n)
  PROVE  IsSequence(s) /\ Len(s) = n /\ DOMAIN s = 1..n
<1>1. \A i \in 1..n : s[i] \in ToSet(s)
  BY DEF ToSet, IsFunction
<1>2. [i \in 1..n |-> s[i]] \in Seq(ToSet(s))
  BY <1>1, IsASeq
<1>3. s \in Seq(ToSet(s)) /\ DOMAIN s = 1..n
  BY <1>2 DEF IsFunction
<1> QED BY <1>3, LenProperties DEF IsSequence

LEMMA Concatenated ==
  ASSUME NEW s, IsSequence(s), NEW t, IsSequence(t)
  PROVE  /\ IsSequence(s \o t) /\ Len(s \o t) = Len(s) + Len(t)
         /\ \A i \in 1..Len(s) : (s \o t)[i] = s[i]
         /\ \A i \in 1..Len(t) : (s \o t)[Len(s) + i] = t[i]
         /\ \A i \in (Len(s) + 1)..(Len(s) + Len(t)) : (s \o t)[i] = t[i - Len(s)]
<1> DEFINE T == ToSet(s) \cup ToSet(t)
<1>1. s \in Seq(T) /\ t \in Seq(T)
  BY SeqMonotonic DEF IsSequence
<1>2. Len(s) \in Nat /\ Len(t) \in Nat
  BY SequenceFacts
<1>3. /\ s \o t \in Seq(T) /\ Len(s \o t) = Len(s) + Len(t)
      /\ \A i \in 1..(Len(s) + Len(t)) :
           (s \o t)[i] = IF i <= Len(s) THEN s[i] ELSE t[i - Len(s)]
  BY <1>1, ConcatProperties
<1>4. IsFunction(s \o t, 1..(Len(s) + Len(t)))
  BY <1>3, LenProperties DEF IsFunction
<1>5. IsSequence(s \o t)
  BY <1>2, <1>4, SequenceOf
<1> QED BY <1>2, <1>3, <1>5

LEMMA ElementsOfBoth ==
  ASSUME NEW s, IsSequence(s), NEW t, IsSequence(t)
  PROVE  IsSequence(s \o t) /\ ToSet(s) \subseteq ToSet(s \o t) /\ ToSet(t) \subseteq ToSet(s \o t)
<1> DEFINE n == Len(s)
           m == Len(t)
           u == s \o t
<1>1. n \in Nat /\ DOMAIN s = 1..n
  BY SequenceFacts
<1>2. m \in Nat /\ DOMAIN t = 1..m
  BY SequenceFacts
<1>3. /\ IsSequence(u) /\ Len(u) = n + m
      /\ \A i \in 1..n : u[i] = s[i]
      /\ \A i \in 1..m : u[n + i] = t[i]
  BY Concatenated
<1>4. DOMAIN u = 1..(n + m)
  BY <1>3, SequenceFacts
<1> HIDE DEF n, m, u
<1>5. ASSUME NEW i \in 1..n PROVE s[i] \in ToSet(u)
  <2>1. i \in DOMAIN u /\ u[i] = s[i]
    BY <1>1, <1>2, <1>3, <1>4
  <2> QED BY <2>1 DEF ToSet
<1>6. ASSUME NEW i \in 1..m PROVE t[i] \in ToSet(u)
  <2>1. n + i \in DOMAIN u /\ u[n + i] = t[i]
    BY <1>1, <1>2, <1>3, <1>4
  <2> QED BY <2>1 DEF ToSet
<1>7. ToSet(s) \subseteq ToSet(u) /\ ToSet(t) \subseteq ToSet(u)
  BY <1>1, <1>2, <1>5, <1>6 DEF ToSet
<1> QED BY <1>3, <1>7 DEF u

LEMMA Conditional ==
  ASSUME NEW s, IsSequence(s), NEW c
  PROVE  IsSequence(When(c, s)) /\ Len(When(c, s)) = IF c THEN Len(s) ELSE 0
<1>1. IsSequence(<<>>) /\ Len(<<>>) = 0
  BY EmptySeq DEF IsSequence
<1> QED BY <1>1 DEF When

LEMMA Single ==
  ASSUME NEW x
  PROVE  IsSequence(<<x>>) /\ Len(<<x>>) = 1 /\ <<x>>[1] = x /\ ToSet(<<x>>) = {x}
<1>1. <<x>> \in Seq({x}) /\ Len(<<x>>) = 1 /\ <<x>>[1] = x /\ DOMAIN <<x>> = 1..1
  OBVIOUS
<1>2. ToSet(<<x>>) = {x}
  BY <1>1 DEF ToSet
<1> QED BY <1>1, <1>2 DEF IsSequence

-----------------------------------------------------------------------------
(* The statements of a model.                                              *)

TableCount(s) == Len(Models[s].tables)

ViewCount(s) == Len(Models[s].root.arrays)

TableStatement(s, i) == CreateStatements(Models[s], <<Header>>)[i]

ViewStatement(s, i) == ViewStatements(Models[s], <<Header>>)[i]

Registry == [op |-> "create", kind |-> "table", name |-> Append(TableName, "registry"),
             uses |-> {}, columns |-> <<>>]

LEMMA PlannedModels ==
  ASSUME NEW s \in Planned
  PROVE  /\ s \in Schemas[TRUE]
         /\ TableCount(s) \in Nat \ {0} /\ ViewCount(s) \in Nat
         /\ IsSequence(Models[s].tables) /\ IsSequence(Models[s].root.arrays)
         /\ DOMAIN Models[s].tables = 1..TableCount(s)
         /\ DOMAIN Models[s].root.arrays = 1..ViewCount(s)
         /\ Models[s].tables[1] = Models[s].root /\ Models[s].root.name = TableName
         /\ \A i \in 1..TableCount(s) : Models[s].tables[i].name # <<>>
<1>1. s \in Schemas[TRUE] /\ ~Models[s].fails
  BY DEF Planned
<1>2. IsModel(Models[s], TableName)
  BY <1>1, RunAssumption
<1>3. /\ IsSequence(Models[s].tables) /\ Models[s].tables # <<>>
      /\ IsSequence(Models[s].root.arrays)
      /\ Models[s].tables[1] = Models[s].root /\ Models[s].root.name = TableName
      /\ \A t \in ToSet(Models[s].tables) : t.name # <<>>
  BY <1>1, <1>2 DEF IsModel
<1>4. /\ TableCount(s) \in Nat \ {0} /\ DOMAIN Models[s].tables = 1..TableCount(s)
      /\ \A i \in 1..TableCount(s) : Models[s].tables[i] \in ToSet(Models[s].tables)
  BY <1>3, SequenceFacts DEF TableCount
<1>5. ViewCount(s) \in Nat /\ DOMAIN Models[s].root.arrays = 1..ViewCount(s)
  BY <1>3, SequenceFacts DEF ViewCount
<1> QED BY <1>1, <1>3, <1>4, <1>5

(* Its CREATE statements: tables, views, the registry.                     *)
LEMMA DdlShape ==
  ASSUME NEW s \in Planned
  PROVE  /\ IsSequence(ModelDdl(s)) /\ Len(ModelDdl(s)) = TableCount(s) + ViewCount(s) + 1
         /\ DOMAIN ModelDdl(s) = 1..(TableCount(s) + ViewCount(s) + 1)
         /\ \A i \in 1..TableCount(s) : ModelDdl(s)[i] = TableStatement(s, i)
         /\ \A i \in 1..ViewCount(s) : ModelDdl(s)[TableCount(s) + i] = ViewStatement(s, i)
         /\ ModelDdl(s)[TableCount(s) + ViewCount(s) + 1] = Registry
<1> DEFINE model == Models[s]
           n == TableCount(s)
           v == ViewCount(s)
           creates == CreateStatements(model, <<Header>>)
           views == ViewStatements(model, <<Header>>)
           registry == RegistryStatements(model)
<1>1. n \in Nat /\ v \in Nat /\ DOMAIN model.tables = 1..n /\ DOMAIN model.root.arrays = 1..v
      /\ model.root.name = TableName
  BY PlannedModels
<1>2. IsSequence(creates) /\ Len(creates) = n
  <2>1. IsFunction(creates, 1..n)
    BY <1>1 DEF CreateStatements, IsFunction
  <2> QED BY <1>1, <2>1, SequenceOf
<1>3. IsSequence(views) /\ Len(views) = v
  <2>1. IsFunction(views, 1..v)
    BY <1>1 DEF ViewStatements, IsFunction
  <2> QED BY <1>1, <2>1, SequenceOf
<1>4. IsSequence(registry) /\ Len(registry) = 1 /\ registry[1] = Registry
  BY <1>1, Single DEF RegistryStatements, Registry
<1> HIDE DEF creates, views, registry
<1>5. /\ IsSequence(creates \o views) /\ Len(creates \o views) = n + v
      /\ \A i \in 1..n : (creates \o views)[i] = creates[i]
      /\ \A i \in 1..v : (creates \o views)[n + i] = views[i]
  <2>1. IsSequence(creates)
    BY <1>2
  <2>2. IsSequence(views)
    BY <1>3
  <2>3. /\ IsSequence(creates \o views) /\ Len(creates \o views) = Len(creates) + Len(views)
        /\ \A i \in 1..Len(creates) : (creates \o views)[i] = creates[i]
        /\ \A i \in 1..Len(views) : (creates \o views)[Len(creates) + i] = views[i]
    BY <2>1, <2>2, Concatenated
  <2> QED BY <2>3, <1>2, <1>3
<1> DEFINE ddl == creates \o views
<1>6. /\ IsSequence(ddl \o registry) /\ Len(ddl \o registry) = n + v + 1
      /\ \A i \in 1..(n + v) : (ddl \o registry)[i] = ddl[i]
      /\ (ddl \o registry)[n + v + 1] = registry[1]
  <2>1. IsSequence(ddl)
    BY <1>5
  <2>2. Len(ddl) = n + v
    BY <1>5
  <2>3. IsSequence(registry)
    BY <1>4
  <2> HIDE DEF ddl
  <2>4. /\ IsSequence(ddl \o registry) /\ Len(ddl \o registry) = Len(ddl) + Len(registry)
        /\ \A i \in 1..Len(ddl) : (ddl \o registry)[i] = ddl[i]
        /\ \A i \in 1..Len(registry) : (ddl \o registry)[Len(ddl) + i] = registry[i]
    BY <2>1, <2>3, Concatenated
  <2>5. 1 \in 1..Len(registry)
    BY <1>4
  <2> QED BY <2>2, <2>4, <2>5, <1>4
<1>7. ModelDdl(s) = ddl \o registry
  BY DEF ModelDdl, Ddl, creates, views, registry
<1>8. DOMAIN ModelDdl(s) = 1..(n + v + 1)
  BY <1>6, <1>7, SequenceFacts
<1>9. /\ \A i \in 1..n : i \in 1..(n + v)
      /\ \A i \in 1..v : n + i \in 1..(n + v)
  BY <1>1
<1>10. /\ \A i \in 1..n : ModelDdl(s)[i] = creates[i]
       /\ \A i \in 1..v : ModelDdl(s)[n + i] = views[i]
  <2> HIDE DEF n, v
  <2> QED BY <1>5, <1>6, <1>7, <1>9
<1> QED BY <1>4, <1>6, <1>7, <1>8, <1>10 DEF TableStatement, ViewStatement, creates, views

(* What each of them is.                                                   *)
LEMMA DdlStatements ==
  ASSUME NEW s \in Planned
  PROVE  /\ \A i \in 1..TableCount(s) :
              TableStatement(s, i) =
                [op |-> "create", kind |-> "table", name |-> Models[s].tables[i].name,
                 uses |-> {Models[s].tables[i].parent} \ {<<>>},
                 columns |-> TableColumns(Models[s], <<Header>>, i)]
         /\ \A i \in 1..ViewCount(s) :
              /\ ViewStatement(s, i).op = "create" /\ ViewStatement(s, i).kind = "view"
              /\ ViewStatement(s, i).name = ViewName(Models[s].root, Models[s].root.arrays[i])
              /\ ViewStatement(s, i).uses = {TableName, Models[s].root.arrays[i].name}
<1>1. /\ DOMAIN Models[s].tables = 1..TableCount(s)
      /\ DOMAIN Models[s].root.arrays = 1..ViewCount(s) /\ Models[s].root.name = TableName
  BY PlannedModels
<1> QED BY <1>1 DEF TableStatement, CreateStatements, ViewStatement, ViewStatements

(* On an empty database they can be executed: each name is new, and a      *)
(* table's parent comes before it.                                         *)
LEMMA NamesDiffer ==
  ASSUME SchemasInstall, NEW s \in Planned
  PROVE  /\ \A i \in DOMAIN ModelDdl(s), j \in DOMAIN ModelDdl(s) :
              ModelDdl(s)[i].name = ModelDdl(s)[j].name => i = j
         /\ \A i \in DOMAIN ModelDdl(s) : \A n \in ModelDdl(s)[i].uses :
              \E j \in DOMAIN ModelDdl(s) : j < i /\ ModelDdl(s)[j].name = n
         /\ \A i \in DOMAIN ModelDdl(s) :
              Cardinality(ToSet(ModelDdl(s)[i].columns)) = Len(ModelDdl(s)[i].columns)
<1> DEFINE ddl == ModelDdl(s)
<1>1. Installs(ddl)
  BY DEF SchemasInstall
<1>2. Len(ddl) \in Nat /\ DOMAIN ddl = 1..Len(ddl)
  BY DdlShape, SequenceFacts
<1> HIDE DEF ddl
<1>3. \A i \in DOMAIN ddl : \A j \in 1..(i - 1) : ddl[i].name # ddl[j].name
  BY <1>1 DEF Installs
<1>4. \A i \in DOMAIN ddl, j \in DOMAIN ddl : i < j => ddl[i].name # ddl[j].name
  <2>1. ASSUME NEW i \in DOMAIN ddl, NEW j \in DOMAIN ddl, i < j
        PROVE  ddl[i].name # ddl[j].name
    <3>1. i \in 1..(j - 1)
      BY <1>2, <2>1
    <3> QED BY <1>3, <3>1
  <2> QED BY <2>1
<1>5. \A i \in DOMAIN ddl, j \in DOMAIN ddl : ddl[i].name = ddl[j].name => i = j
  BY <1>2, <1>4
<1>6. \A i \in DOMAIN ddl : \A n \in ddl[i].uses :
        \E j \in DOMAIN ddl : j < i /\ ddl[j].name = n
  <2>1. ASSUME NEW i \in DOMAIN ddl, NEW n \in ddl[i].uses
        PROVE  \E j \in DOMAIN ddl : j < i /\ ddl[j].name = n
    <3>1. PICK j \in 1..(i - 1) : n = ddl[j].name
      BY <1>1 DEF Installs
    <3>2. j \in DOMAIN ddl /\ j < i
      BY <1>2, <3>1
    <3> QED BY <3>1, <3>2
  <2> QED BY <2>1
<1>7. \A i \in DOMAIN ddl : Cardinality(ToSet(ddl[i].columns)) = Len(ddl[i].columns)
  BY <1>1 DEF Installs
<1> QED BY <1>5, <1>6, <1>7 DEF ddl

(* The tables of a planned model: their names differ, the root has no      *)
(* parent, and the parent of a table comes before it.                      *)
LEMMA TablesDiffer ==
  ASSUME SchemasInstall, NEW s \in Planned
  PROVE  /\ \A i \in 1..TableCount(s), j \in 1..TableCount(s) :
              Models[s].tables[i].name = Models[s].tables[j].name => i = j
         /\ \A i \in 1..TableCount(s) :
              Models[s].tables[i].name # Append(TableName, "registry")
         /\ \A i \in 1..TableCount(s) : Models[s].tables[i].parent # <<>> =>
              \E j \in 1..TableCount(s) :
                j < i /\ Models[s].tables[j].name = Models[s].tables[i].parent
         /\ Models[s].tables[1].parent = <<>>
<1> DEFINE n == TableCount(s)
           v == ViewCount(s)
           ddl == ModelDdl(s)
<1>1. n \in Nat \ {0} /\ v \in Nat
  BY PlannedModels
<1>2. /\ DOMAIN ddl = 1..(n + v + 1)
      /\ \A i \in 1..n : ddl[i] = TableStatement(s, i)
      /\ ddl[n + v + 1] = Registry
  BY DdlShape
<1>3. \A i \in 1..n : /\ ddl[i].name = Models[s].tables[i].name
                      /\ ddl[i].uses = {Models[s].tables[i].parent} \ {<<>>}
  BY <1>2, DdlStatements
<1>4. /\ \A i \in DOMAIN ddl, j \in DOMAIN ddl : ddl[i].name = ddl[j].name => i = j
      /\ \A i \in DOMAIN ddl : \A x \in ddl[i].uses :
           \E j \in DOMAIN ddl : j < i /\ ddl[j].name = x
  BY NamesDiffer
<1> HIDE DEF n, v, ddl
<1>5. n + v + 1 \in DOMAIN ddl /\ (\A i \in 1..n : i \in DOMAIN ddl /\ i # n + v + 1)
  BY <1>1, <1>2
<1>6. \A i \in 1..n, j \in 1..n : Models[s].tables[i].name = Models[s].tables[j].name => i = j
  BY <1>3, <1>4, <1>5
<1>7. ddl[n + v + 1].name = Append(TableName, "registry")
  BY <1>2 DEF Registry
<1>8. \A i \in 1..n : Models[s].tables[i].name # Append(TableName, "registry")
  BY <1>3, <1>4, <1>5, <1>7
<1>9. ASSUME NEW i \in 1..n, Models[s].tables[i].parent # <<>>
      PROVE  \E j \in 1..n : j < i /\ Models[s].tables[j].name = Models[s].tables[i].parent
  <2>1. Models[s].tables[i].parent \in ddl[i].uses
    BY <1>3, <1>9
  <2>2. PICK j \in DOMAIN ddl : j < i /\ ddl[j].name = Models[s].tables[i].parent
    BY <1>4, <1>5, <2>1
  <2>3. j \in 1..n
    BY <1>1, <1>2, <2>2
  <2> QED BY <1>3, <2>2, <2>3
<1>10. 1 \in 1..n /\ ~\E j \in 1..n : j < 1
  BY <1>1
<1>11. Models[s].tables[1].parent = <<>>
  BY <1>9, <1>10
<1> QED BY <1>6, <1>8, <1>9, <1>11 DEF n

(* -drop: the views, the tables from the last to the first, the registry.  *)
LEMMA DropShape ==
  ASSUME NEW s \in Planned, NEW flags, flags.model, flags.drop, flags.schema = s
  PROVE  /\ IsSequence(DropStatements(flags))
         /\ Len(DropStatements(flags)) = ViewCount(s) + TableCount(s) + 1
         /\ \A i \in 1..ViewCount(s) :
              DropStatements(flags)[i] =
                Drop("view", DropViewName(Models[s].root, Models[s].root.arrays[i]))
         /\ \A i \in 1..TableCount(s) :
              DropStatements(flags)[ViewCount(s) + i] =
                Drop("table", Models[s].tables[TableCount(s) - i + 1].name)
         /\ DropStatements(flags)[ViewCount(s) + TableCount(s) + 1] =
              Drop("table", Append(TableName, "registry"))
<1> DEFINE root == Models[s].root
           tables == Reverse(Models[s].tables)
           n == TableCount(s)
           v == ViewCount(s)
           views == [i \in DOMAIN root.arrays |-> Drop("view", DropViewName(root, root.arrays[i]))]
           drops == [i \in DOMAIN tables |-> Drop("table", tables[i].name)]
           registry == <<Drop("table", Append(TableName, "registry"))>>
<1>1. n \in Nat /\ v \in Nat /\ DOMAIN Models[s].tables = 1..n /\ DOMAIN root.arrays = 1..v
  BY PlannedModels
<1>2. DOMAIN tables = 1..n /\ \A i \in 1..n : tables[i] = Models[s].tables[n - i + 1]
  BY <1>1 DEF Reverse, TableCount
<1>3. IsSequence(views) /\ Len(views) = v
  <2>1. IsFunction(views, 1..v)
    BY <1>1 DEF IsFunction
  <2> QED BY <1>1, <2>1, SequenceOf
<1>4. IsSequence(drops) /\ Len(drops) = n
  <2>1. IsFunction(drops, 1..n)
    BY <1>2 DEF IsFunction
  <2> QED BY <1>1, <2>1, SequenceOf
<1>5. /\ IsSequence(registry) /\ Len(registry) = 1
      /\ registry[1] = Drop("table", Append(TableName, "registry"))
  BY Single
<1>6. /\ \A i \in 1..v : views[i] = Drop("view", DropViewName(root, root.arrays[i]))
      /\ \A i \in 1..n : drops[i] = Drop("table", Models[s].tables[n - i + 1].name)
  BY <1>1, <1>2
<1>7. DropStatements(flags) = (views \o drops) \o registry
  BY DEF DropStatements
<1> HIDE DEF views, drops, registry
<1>8. /\ IsSequence(views \o drops) /\ Len(views \o drops) = v + n
      /\ \A i \in 1..v : (views \o drops)[i] = views[i]
      /\ \A i \in 1..n : (views \o drops)[v + i] = drops[i]
  <2>1. IsSequence(views)
    BY <1>3
  <2>2. IsSequence(drops)
    BY <1>4
  <2>3. /\ IsSequence(views \o drops) /\ Len(views \o drops) = Len(views) + Len(drops)
        /\ \A i \in 1..Len(views) : (views \o drops)[i] = views[i]
        /\ \A i \in 1..Len(drops) : (views \o drops)[Len(views) + i] = drops[i]
    BY <2>1, <2>2, Concatenated
  <2> QED BY <2>3, <1>3, <1>4
<1> DEFINE all == views \o drops
<1>9. /\ IsSequence(all \o registry) /\ Len(all \o registry) = v + n + 1
      /\ \A i \in 1..(v + n) : (all \o registry)[i] = all[i]
      /\ (all \o registry)[v + n + 1] = registry[1]
  <2>1. IsSequence(all)
    BY <1>8
  <2>2. Len(all) = v + n
    BY <1>8
  <2>3. IsSequence(registry)
    BY <1>5
  <2> HIDE DEF all
  <2>4. /\ IsSequence(all \o registry) /\ Len(all \o registry) = Len(all) + Len(registry)
        /\ \A i \in 1..Len(all) : (all \o registry)[i] = all[i]
        /\ \A i \in 1..Len(registry) : (all \o registry)[Len(all) + i] = registry[i]
    BY <2>1, <2>3, Concatenated
  <2>5. 1 \in 1..Len(registry)
    BY <1>5
  <2> QED BY <2>2, <2>4, <2>5, <1>5
<1>10. /\ \A i \in 1..v : i \in 1..(v + n)
       /\ \A i \in 1..n : v + i \in 1..(v + n)
  BY <1>1
<1> HIDE DEF n, v, root, tables
<1>11. /\ \A i \in 1..v : DropStatements(flags)[i] = views[i]
       /\ \A i \in 1..n : DropStatements(flags)[v + i] = drops[i]
       /\ DropStatements(flags)[v + n + 1] = registry[1]
  BY <1>7, <1>8, <1>9, <1>10
<1>12. IsSequence(DropStatements(flags)) /\ Len(DropStatements(flags)) = v + n + 1
  BY <1>7, <1>9
<1> QED BY <1>5, <1>6, <1>11, <1>12 DEF n, v, root

-----------------------------------------------------------------------------
(* The statements of a run.                                                *)

Usable(m) == IF m THEN Planned ELSE Schemas[FALSE]

(* The names of the tables of a schema.                                    *)
TablesIn(m, s) == IF m THEN TableNames(s) ELSE {TableName}

(* The flags of a run that renders all its statements.                     *)
Runnable(m, flags) == m \in BOOLEAN /\ flags \in Flags(m) /\ ~RenderFails(flags)

LEMMA RunnableFlags ==
  ASSUME NEW m, NEW flags, Runnable(m, flags)
  PROVE  /\ flags.model = m /\ flags.drop \in BOOLEAN
         /\ flags.mode \in {"create", "insert", "upsert", "all"}
         /\ flags.schema \in Usable(m)
         /\ IsSequence(flags.files) /\ (flags.mode = "create" => flags.files = <<>>)
         /\ \A i \in DOMAIN flags.files :
              flags.files[i] \in DocumentsOf(m) /\ flags.files[i].schema = flags.schema
         /\ flags = [flags EXCEPT !.drop = flags.drop]
<1>1. m \in BOOLEAN /\ flags \in Flags(m) /\ ~RenderFails(flags)
  BY DEF Runnable
<1>2. PICK mode \in {"create", "insert", "upsert", "all"}, s \in Schemas[m] :
        flags \in [model : {m}, mode : {mode}, drop : BOOLEAN, schema : {s},
                   files : FilesFor(m, s, mode)]
  <2> DEFINE F(mode, s) == [model : {m}, mode : {mode}, drop : BOOLEAN, schema : {s},
                            files : FilesFor(m, s, mode)]
  <2>1. flags \in UNION {F(mode, s) : mode \in {"create", "insert", "upsert", "all"},
                                     s \in Schemas[m]}
    BY <1>1 DEF Flags
  <2> HIDE DEF F
  <2>2. \E mode \in {"create", "insert", "upsert", "all"}, s \in Schemas[m] : flags \in F(mode, s)
    BY <2>1
  <2> QED BY <2>2 DEF F
<1>3. /\ flags.model = m /\ flags.drop \in BOOLEAN /\ flags.mode = mode
      /\ flags.schema = s /\ flags.files \in FilesFor(m, s, mode)
      /\ flags = [flags EXCEPT !.drop = flags.drop]
  BY <1>2
<1>4. flags.schema \in Usable(m)
  BY <1>1, <1>3 DEF RenderFails, Usable, Planned
<1>5. CASE mode = "create"
  <2>1. flags.files = <<>>
    BY <1>3, <1>5 DEF FilesFor
  <2>2. IsSequence(<<>>) /\ DOMAIN <<>> = {}
    BY EmptySeq DEF IsSequence
  <2> QED BY <1>3, <1>4, <2>1, <2>2
<1>6. CASE mode # "create"
  <2>1. flags.files \in Directories[m] /\ flags.files[1].schema = s
    BY <1>3, <1>6 DEF FilesFor
  <2>2. /\ IsSequence(flags.files)
        /\ \A d \in ToSet(flags.files) : d.schema = flags.files[1].schema
    BY <1>1, <2>1, RunAssumption
  <2>3. \A i \in DOMAIN flags.files : flags.files[i] \in ToSet(flags.files)
    BY DEF ToSet
  <2>4. \A d \in ToSet(flags.files) : d \in DocumentsOf(m)
    BY <1>3, <1>4, <2>1, <2>2 DEF DocumentsOf, Usable
  <2> QED BY <1>3, <1>4, <1>6, <2>1, <2>2, <2>3, <2>4
<1> QED BY <1>5, <1>6

LEMMA TableNamesAre ==
  ASSUME NEW s \in Planned
  PROVE  TableNames(s) = {Models[s].tables[i].name : i \in 1..TableCount(s)}
                           \cup {Append(TableName, "registry")}
<1>1. DOMAIN Models[s].tables = 1..TableCount(s)
  BY PlannedModels
<1>2. {t.name : t \in ToSet(Models[s].tables)} =
        {Models[s].tables[i].name : i \in 1..TableCount(s)}
  BY <1>1 DEF ToSet
<1> QED BY <1>2 DEF TableNames

(* -drop drops tables and views as what they are, and all its tables.      *)
LEMMA DropsAre ==
  ASSUME NEW m, NEW flags, Runnable(m, flags)
  PROVE  /\ IsSequence(DropStatements(flags))
         /\ ~flags.drop => Len(DropStatements(flags)) = 0
         /\ \A i \in 1..Len(DropStatements(flags)) :
              LET st == DropStatements(flags)[i]
              IN /\ flags.drop /\ st = Drop(st.kind, st.name)
                 /\ \/ st.kind = "table" /\ st.name \in TablesIn(m, flags.schema)
                    \/ m /\ st.kind = "view" /\ st.name \in ViewNames(flags.schema)
         /\ flags.drop => \A n \in TablesIn(m, flags.schema) :
              \E i \in 1..Len(DropStatements(flags)) : DropStatements(flags)[i].name = n
<1> DEFINE s == flags.schema
           drops == DropStatements(flags)
<1>1. flags.model = m /\ flags.drop \in BOOLEAN /\ s \in Usable(m) /\ m \in BOOLEAN
  BY RunnableFlags DEF Runnable
<1>2. CASE ~flags.drop
  <2>1. drops = <<>>
    BY <1>2 DEF DropStatements
  <2> QED BY <1>2, <2>1, EmptySeq DEF IsSequence
<1>3. CASE flags.drop /\ ~m
  <2>1. drops = <<Drop("table", TableName)>>
    BY <1>1, <1>3 DEF DropStatements
  <2>2. IsSequence(drops) /\ Len(drops) = 1 /\ drops[1] = Drop("table", TableName)
    BY <2>1, Single
  <2>3. TablesIn(m, s) = {TableName}
    BY <1>3 DEF TablesIn
  <2> QED BY <1>3, <2>2, <2>3 DEF Drop
<1>4. CASE flags.drop /\ m
  <2> DEFINE n == TableCount(s)
             v == ViewCount(s)
             root == Models[s].root
  <2>1. s \in Planned /\ TablesIn(m, s) = TableNames(s)
    BY <1>1, <1>4 DEF Usable, TablesIn
  <2>2. /\ n \in Nat \ {0} /\ v \in Nat /\ DOMAIN root.arrays = 1..v
    BY <2>1, PlannedModels
  <2>3. TableNames(s) = {Models[s].tables[i].name : i \in 1..n} \cup {Append(TableName, "registry")}
    BY <2>1, TableNamesAre
  <2>4. /\ IsSequence(drops) /\ Len(drops) = v + n + 1
        /\ \A i \in 1..v : drops[i] = Drop("view", DropViewName(root, root.arrays[i]))
        /\ \A i \in 1..n : drops[v + i] = Drop("table", Models[s].tables[n - i + 1].name)
        /\ drops[v + n + 1] = Drop("table", Append(TableName, "registry"))
    BY <1>1, <1>4, <2>1, DropShape
  <2>5. \A i \in 1..v : DropViewName(root, root.arrays[i]) \in ViewNames(s)
    BY <2>2 DEF ViewNames, ToSet
  <2> HIDE DEF drops, n, v, root
  <2>6. ASSUME NEW i \in 1..Len(drops)
        PROVE  /\ drops[i] = Drop(drops[i].kind, drops[i].name)
               /\ \/ drops[i].kind = "table" /\ drops[i].name \in TableNames(s)
                  \/ drops[i].kind = "view" /\ drops[i].name \in ViewNames(s)
    <3>1. CASE i \in 1..v
      <4>1. drops[i] = Drop("view", DropViewName(root, root.arrays[i]))
        BY <2>4, <3>1
      <4> QED BY <2>5, <3>1, <4>1 DEF Drop
    <3>2. CASE i \in (v + 1)..(v + n)
      <4>1. i - v \in 1..n /\ i = v + (i - v)
        BY <2>2, <3>2
      <4>2. drops[i] = Drop("table", Models[s].tables[n - (i - v) + 1].name)
        BY <2>4, <4>1
      <4>3. n - (i - v) + 1 \in 1..n
        BY <2>2, <4>1
      <4> QED BY <2>3, <4>2, <4>3 DEF Drop
    <3>3. CASE i = v + n + 1
      BY <2>3, <2>4, <3>3 DEF Drop
    <3> QED BY <2>2, <2>4, <3>1, <3>2, <3>3
  <2>7. ASSUME NEW x \in TableNames(s)
        PROVE  \E i \in 1..Len(drops) : drops[i].name = x
    <3>1. CASE x = Append(TableName, "registry")
      <4>1. drops[v + n + 1].name = x /\ v + n + 1 \in 1..Len(drops)
        BY <2>2, <2>4, <3>1 DEF Drop
      <4> QED BY <4>1
    <3>2. ASSUME NEW j \in 1..n, x = Models[s].tables[j].name
          PROVE  \E i \in 1..Len(drops) : drops[i].name = x
      <4>1. n - j + 1 \in 1..n /\ n - (n - j + 1) + 1 = j
        BY <2>2
      <4>2. drops[v + (n - j + 1)] = Drop("table", x)
        BY <2>4, <3>2, <4>1
      <4>3. v + (n - j + 1) \in 1..Len(drops)
        BY <2>2, <2>4
      <4> QED BY <4>2, <4>3 DEF Drop
    <3> QED BY <2>3, <3>1, <3>2
  <2> QED BY <1>4, <2>1, <2>4, <2>6, <2>7 DEF drops
<1> QED BY <1>1, <1>2, <1>3, <1>4

(* A table is dropped after all that refer to it.                          *)
LEMMA ChildrenFirst ==
  ASSUME NamesApart, SchemasInstall,
         NEW flags, Runnable(TRUE, flags),
         NEW i \in 1..Len(DropStatements(flags)),
         NEW j \in 1..TableCount(flags.schema),
         Models[flags.schema].tables[j].parent # <<>>,
         DropStatements(flags)[i].name = Models[flags.schema].tables[j].parent
  PROVE  \E k \in 1..Len(DropStatements(flags)) :
           k < i /\ DropStatements(flags)[k].name = Models[flags.schema].tables[j].name
<1> DEFINE s == flags.schema
           drops == DropStatements(flags)
           tables == Models[s].tables
           n == TableCount(s)
           v == ViewCount(s)
<1>1. flags.model = TRUE /\ flags.drop /\ s \in Planned
  BY RunnableFlags, DropsAre DEF Usable
<1>2. /\ n \in Nat \ {0} /\ v \in Nat /\ DOMAIN Models[s].root.arrays = 1..v
      /\ \A k \in 1..n : tables[k].name # <<>>
  BY <1>1, PlannedModels
<1>3. /\ Len(drops) = v + n + 1
      /\ \A k \in 1..v : drops[k] =
           Drop("view", DropViewName(Models[s].root, Models[s].root.arrays[k]))
      /\ \A k \in 1..n : drops[v + k] = Drop("table", tables[n - k + 1].name)
      /\ drops[v + n + 1] = Drop("table", Append(TableName, "registry"))
  BY <1>1, DropShape
<1>4. /\ \A k \in 1..n, l \in 1..n : tables[k].name = tables[l].name => k = l
      /\ \A k \in 1..n : tables[k].name # Append(TableName, "registry")
      /\ \A k \in 1..n : tables[k].parent # <<>> =>
           \E l \in 1..n : l < k /\ tables[l].name = tables[k].parent
  BY <1>1, TablesDiffer
<1>5. TableNames(s) = {tables[k].name : k \in 1..n} \cup {Append(TableName, "registry")}
  BY <1>1, TableNamesAre
<1>6. \A k \in 1..v : DropViewName(Models[s].root, Models[s].root.arrays[k]) \in ViewNames(s)
  BY <1>2 DEF ViewNames, ToSet
<1>7. TableNames(s) \cap ViewNames(s) = {}
  BY <1>1 DEF NamesApart
<1>8. i \in 1..Len(drops) /\ j \in 1..n /\ drops[i].name = tables[j].parent
      /\ tables[j].parent # <<>>
  OBVIOUS
<1> HIDE DEF drops, n, v, tables, s
<1>9. PICK l \in 1..n : l < j /\ tables[l].name = tables[j].parent
  BY <1>4, <1>8
<1>10. tables[l].name \in TableNames(s)
  BY <1>5
<1>11. i \notin 1..v
  <2>1. SUFFICES ASSUME i \in 1..v PROVE FALSE
    OBVIOUS
  <2>2. drops[i] = Drop("view", DropViewName(Models[s].root, Models[s].root.arrays[i]))
    BY <1>3, <2>1
  <2>3. drops[i].name \in ViewNames(s)
    BY <1>6, <2>1, <2>2 DEF Drop
  <2> QED BY <1>7, <1>8, <1>9, <1>10, <2>3
<1>12. i # v + n + 1
  BY <1>3, <1>4, <1>8, <1>9 DEF Drop
<1>13. i - v \in 1..n /\ i = v + (i - v)
  BY <1>2, <1>3, <1>8, <1>11, <1>12
<1>14. tables[n - (i - v) + 1].name = tables[l].name
  <2>1. drops[i] = Drop("table", tables[n - (i - v) + 1].name)
    BY <1>3, <1>13
  <2> QED BY <1>8, <1>9, <2>1 DEF Drop
<1>15. n - (i - v) + 1 = l
  <2>1. n - (i - v) + 1 \in 1..n
    BY <1>2, <1>13
  <2> QED BY <1>4, <1>9, <1>14, <2>1
<1> DEFINE k == n - j + 1
<1>16. k \in 1..n /\ n - k + 1 = j /\ v + k \in 1..Len(drops) /\ v + k < i
  BY <1>2, <1>3, <1>8, <1>9, <1>13, <1>15
<1>17. drops[v + k] = Drop("table", tables[j].name)
  BY <1>3, <1>16
<1> QED BY <1>16, <1>17 DEF Drop, drops, tables, s

LEMMA CreatesAre ==
  ASSUME NEW m, NEW flags, Runnable(m, flags)
  PROVE  /\ IsSequence(CreateAll(flags))
         /\ ~Creates(flags) => Len(CreateAll(flags)) = 0
         /\ Creates(flags) /\ m => CreateAll(flags) = ModelDdl(flags.schema)
         /\ Creates(flags) /\ ~m =>
              /\ CreateAll(flags) = LandingDdl(flags.schema) /\ Len(CreateAll(flags)) = 2
              /\ CreateAll(flags)[1] = LandingCreate(TableName, Columns[flags.schema])
              /\ CreateAll(flags)[2] = [op |-> "alter", table |-> TableName, pk |-> <<Pk>>]
<1> DEFINE s == flags.schema
<1>1. flags.model = m /\ s \in Usable(m) /\ m \in BOOLEAN
  BY RunnableFlags DEF Runnable
<1>2. IsSequence(<<>>) /\ Len(<<>>) = 0
  BY EmptySeq DEF IsSequence
<1>3. CASE m
  BY <1>1, <1>2, <1>3, DdlShape DEF CreateAll, When, Usable
<1>4. CASE ~m
  <2> DEFINE a == LandingCreate(TableName, Columns[s])
             b == [op |-> "alter", table |-> TableName, pk |-> <<Pk>>]
  <2>1. LandingDdl(s) = <<a, b>>
    BY DEF LandingDdl
  <2> HIDE DEF a, b
  <2>2. <<a, b>> \in Seq({a, b}) /\ Len(<<a, b>>) = 2 /\ <<a, b>>[1] = a /\ <<a, b>>[2] = b
        /\ DOMAIN <<a, b>> = 1..2
    OBVIOUS
  <2>3. ToSet(<<a, b>>) = {a, b}
    BY <2>2 DEF ToSet
  <2>4. IsSequence(LandingDdl(s)) /\ Len(LandingDdl(s)) = 2
        /\ LandingDdl(s)[1] = a /\ LandingDdl(s)[2] = b
    BY <2>1, <2>2, <2>3 DEF IsSequence
  <2> QED BY <1>1, <1>2, <1>4, <2>4 DEF CreateAll, When, a, b
<1> QED BY <1>1, <1>3, <1>4

LEMMA PreludeIs ==
  ASSUME NEW m, NEW flags, Runnable(m, flags)
  PROVE  LET drops == DropStatements(flags)
             creates == CreateAll(flags)
         IN /\ Len(drops) \in Nat /\ Len(creates) \in Nat
            /\ IsSequence(Prelude(flags)) /\ Len(Prelude(flags)) = Len(drops) + Len(creates)
            /\ \A i \in 1..Len(drops) : Prelude(flags)[i] = drops[i]
            /\ \A i \in 1..Len(creates) : Prelude(flags)[Len(drops) + i] = creates[i]
<1> DEFINE drops == DropStatements(flags)
           creates == CreateAll(flags)
<1>1. IsSequence(drops)
  BY DropsAre
<1>2. IsSequence(creates)
  BY CreatesAre
<1>3. Prelude(flags) = drops \o creates
  BY DEF Prelude
<1> HIDE DEF drops, creates
<1>4. /\ IsSequence(drops \o creates) /\ Len(drops \o creates) = Len(drops) + Len(creates)
      /\ \A i \in 1..Len(drops) : (drops \o creates)[i] = drops[i]
      /\ \A i \in 1..Len(creates) : (drops \o creates)[Len(drops) + i] = creates[i]
  BY <1>1, <1>2, Concatenated
<1>5. Len(drops) \in Nat /\ Len(creates) \in Nat
  BY <1>1, <1>2, SequenceFacts
<1> QED BY <1>3, <1>4, <1>5 DEF drops, creates

(* The rows of a document in a model, in the order of their statements.    *)
RowCount(r) == Len(r.children) + 1

RowNumber(r, i) == IF i = 1 THEN r.row ELSE r.children[i - 1].row

LEMMA Inserting ==
  ASSUME NEW r, IsSequence(r.children)
  PROVE  /\ IsSequence(InsertStatements(r)) /\ Len(InsertStatements(r)) = RowCount(r)
         /\ RowCount(r) \in Nat \ {0}
         /\ InsertStatements(r)[1] = [op |-> "insert", row |-> r.row]
         /\ \A i \in 2..RowCount(r) : InsertStatements(r)[i] = r.children[i - 1]
<1> DEFINE first == [op |-> "insert", row |-> r.row]
           n == Len(r.children)
<1>1. n \in Nat
  BY SequenceFacts
<1>3. IsSequence(<<first>>)
  BY Single
<1>4. Len(<<first>>) = 1 /\ <<first>>[1] = first
  BY Single
<1> HIDE DEF first
<1>5. /\ IsSequence(<<first>> \o r.children)
      /\ Len(<<first>> \o r.children) = Len(<<first>>) + Len(r.children)
      /\ \A i \in 1..Len(<<first>>) : (<<first>> \o r.children)[i] = <<first>>[i]
      /\ \A i \in (Len(<<first>>) + 1)..(Len(<<first>>) + Len(r.children)) :
           (<<first>> \o r.children)[i] = r.children[i - Len(<<first>>)]
  BY <1>3, Concatenated
<1> DEFINE all == <<first>> \o r.children
<1>6. /\ IsSequence(all) /\ Len(all) = n + 1 /\ all[1] = first
      /\ \A i \in 2..(n + 1) : all[i] = r.children[i - 1]
  <2>1. 1 \in 1..Len(<<first>>)
    BY <1>4
  <2> QED BY <1>1, <1>4, <1>5, <2>1
<1>7. InsertStatements(r) = all
  BY DEF InsertStatements, first
<1> HIDE DEF all
<1> QED BY <1>1, <1>6, <1>7 DEF RowCount, first

LEMMA Upserting ==
  ASSUME NEW r, IsSequence(r.children), IsSequence(r.deletes), r.updates
  PROVE  /\ IsSequence(UpsertStatements(r))
         /\ Len(UpsertStatements(r)) = Len(r.deletes) + RowCount(r)
         /\ Len(r.deletes) \in Nat
         /\ \A i \in 1..Len(r.deletes) : UpsertStatements(r)[i] = r.deletes[i]
         /\ UpsertStatements(r)[Len(r.deletes) + 1] = [op |-> "upsert", row |-> r.row]
         /\ \A i \in 2..RowCount(r) :
              UpsertStatements(r)[Len(r.deletes) + i] = r.children[i - 1]
<1> DEFINE root == [op |-> "upsert", row |-> r.row]
           most == r.deletes \o <<root>>
           all == most \o r.children
<1>1. Len(r.children) \in Nat /\ Len(r.deletes) \in Nat
  BY SequenceFacts
<1>2. IsSequence(<<root>>)
  BY Single
<1>3. Len(<<root>>) = 1 /\ <<root>>[1] = root
  BY Single
<1>4. UpsertStatements(r) = all
  <2>1. r.deletes \in Seq(ToSet(r.deletes))
    BY DEF IsSequence
  <2>2. r.deletes \o <<>> = r.deletes
    BY <2>1, ConcatEmptySeq
  <2> QED BY <2>2 DEF UpsertStatements
<1> HIDE DEF root
<1>5. /\ IsSequence(most) /\ Len(most) = Len(r.deletes) + Len(<<root>>)
      /\ \A i \in 1..Len(r.deletes) : most[i] = r.deletes[i]
      /\ \A i \in 1..Len(<<root>>) : most[Len(r.deletes) + i] = <<root>>[i]
  BY <1>2, Concatenated
<1>6. IsSequence(most)
  BY <1>5
<1>7. /\ Len(most) = Len(r.deletes) + 1 /\ (\A i \in 1..Len(r.deletes) : most[i] = r.deletes[i])
      /\ most[Len(r.deletes) + 1] = root
  <2>1. 1 \in 1..Len(<<root>>)
    BY <1>3
  <2> HIDE DEF most
  <2> QED BY <1>1, <1>3, <1>5, <2>1
<1> HIDE DEF most
<1>8. /\ IsSequence(all) /\ Len(all) = Len(most) + Len(r.children)
      /\ \A i \in 1..Len(most) : all[i] = most[i]
      /\ \A i \in (Len(most) + 1)..(Len(most) + Len(r.children)) : all[i] = r.children[i - Len(most)]
  BY <1>6, Concatenated
<1> HIDE DEF all
<1>9. Len(most) = Len(r.deletes) + 1
  BY <1>7
<1>10. \A i \in 1..Len(most) : all[i] = most[i]
  BY <1>8
<1>11. Len(all) = Len(r.deletes) + (Len(r.children) + 1)
  <2> DEFINE a == Len(r.deletes)
             b == Len(r.children)
  <2>1. Len(all) = (a + 1) + b
    BY <1>8, <1>9
  <2>2. a \in Nat /\ b \in Nat
    BY <1>1
  <2> HIDE DEF a, b
  <2>3. Len(all) = a + (b + 1)
    BY <2>1, <2>2
  <2> QED BY <2>3 DEF a, b
<1>12. \A i \in 1..Len(r.deletes) : all[i] = r.deletes[i]
  <2>1. \A i \in 1..Len(r.deletes) : i \in 1..Len(most)
    BY <1>1, <1>9
  <2>2. \A i \in 1..Len(r.deletes) : most[i] = r.deletes[i]
    BY <1>7
  <2> QED BY <1>10, <2>1, <2>2
<1>13. all[Len(r.deletes) + 1] = root
  <2>1. Len(r.deletes) + 1 \in 1..Len(most)
    BY <1>1, <1>9
  <2>2. most[Len(r.deletes) + 1] = root
    BY <1>7
  <2> QED BY <1>10, <2>1, <2>2
<1>14. ASSUME NEW i \in 2..(Len(r.children) + 1)
       PROVE  all[Len(r.deletes) + i] = r.children[i - 1]
  <2> DEFINE k == Len(r.deletes) + i
  <2>1. k \in (Len(most) + 1)..(Len(most) + Len(r.children)) /\ k - Len(most) = i - 1
    <3> DEFINE a == Len(r.deletes)
               b == Len(r.children)
               c == Len(most)
    <3>1. a \in Nat /\ b \in Nat /\ c = a + 1 /\ i \in 2..(b + 1) /\ k = a + i
      BY <1>1, <1>9, <1>14
    <3> HIDE DEF a, b, c, k
    <3>2. k \in (c + 1)..(c + b) /\ k - c = i - 1
      BY <3>1
    <3> QED BY <3>2 DEF b, c
  <2>2. \A j \in (Len(most) + 1)..(Len(most) + Len(r.children)) : all[j] = r.children[j - Len(most)]
    BY <1>8
  <2> HIDE DEF k
  <2>3. all[k] = r.children[k - Len(most)]
    BY <2>1, <2>2
  <2> QED BY <2>1, <2>3 DEF k
<1> QED BY <1>1, <1>4, <1>8, <1>11, <1>12, <1>13, <1>14 DEF RowCount, root

LEMMA NothingToUpdate ==
  ASSUME NEW r, IsSequence(r.children), IsSequence(r.deletes), ~r.updates
  PROVE  IsSequence(UpsertStatements(r)) /\ Bad \in ToSet(UpsertStatements(r))
<1> DEFINE root == <<[op |-> "upsert", row |-> r.row]>>
           a == r.deletes \o <<Bad>>
           b == a \o root
           c == b \o r.children
<1>1. IsSequence(<<Bad>>) /\ Bad \in ToSet(<<Bad>>)
  BY Single
<1>2. IsSequence(root)
  BY Single
<1> HIDE DEF root
<1>3. IsSequence(a) /\ Bad \in ToSet(a)
  BY <1>1, ElementsOfBoth
<1> HIDE DEF a
<1>4. IsSequence(b) /\ Bad \in ToSet(b)
  BY <1>2, <1>3, ElementsOfBoth
<1> HIDE DEF b
<1>5. IsSequence(c) /\ Bad \in ToSet(c)
  BY <1>4, ElementsOfBoth
<1> QED BY <1>5 DEF UpsertStatements, root, a, b

(* A statement of a file.                                                  *)
InsertOf(row) == [op |-> "insert", row |-> row]

InsertCount(flags, i) ==
  IF Inserts(flags) THEN RowCount(Renderings[flags.files[i]]) ELSE 0

(* What is executed for a file of a run with a model: the rows of its      *)
(* document are inserted, or it is deleted and its rows are written.       *)
ModelFileShape(flags, i) ==
  LET r == Renderings[flags.files[i]]
      ins == InsertCount(flags, i)
      file == File(flags, i)
  IN /\ r.key # Nil /\ (Inserts(flags) \/ Upserts(flags))
     /\ Len(r.deletes) \in Nat /\ RowCount(r) \in Nat \ {0} /\ ins \in Nat
     /\ IsSequence(file)
     /\ Len(file) = ins + (IF Upserts(flags) THEN Len(r.deletes) + RowCount(r) ELSE 0)
     /\ \A j \in 1..ins : file[j] = InsertOf(RowNumber(r, j))
     /\ Upserts(flags) =>
          /\ \A j \in 1..Len(r.deletes) :
               file[ins + j] = r.deletes[j] /\ r.deletes[j].op = "delete"
          /\ file[ins + Len(r.deletes) + 1] = [op |-> "upsert", row |-> r.row]
          /\ \A j \in 2..RowCount(r) :
               file[ins + Len(r.deletes) + j] = InsertOf(RowNumber(r, j))
     /\ \A j \in 1..Len(r.children) : r.children[j] = InsertOf(r.children[j].row)

LEMMA ModelFileIs ==
  ASSUME NEW flags, Runnable(TRUE, flags), NEW i \in 1..Len(flags.files)
  PROVE  ModelFileShape(flags, i)
<1> DEFINE d == flags.files[i]
           r == Renderings[d]
           file == File(flags, i)
           inserts == InsertStatements(r)
           upserts == UpsertStatements(r)
<1>1. /\ flags.model = TRUE /\ IsSequence(flags.files) /\ ~RenderFails(flags)
      /\ flags.mode \in {"create", "insert", "upsert", "all"}
      /\ flags.mode = "create" => flags.files = <<>>
      /\ \A j \in DOMAIN flags.files : flags.files[j] \in DocumentsOf(TRUE)
  BY RunnableFlags DEF Runnable
<1>2. i \in DOMAIN flags.files /\ flags.files # <<>>
  <2>1. DOMAIN flags.files = 1..Len(flags.files) /\ Len(<<>>) = 0
    BY <1>1, SequenceFacts, EmptySeq
  <2> QED BY <2>1
<1>3. d \in DocumentsOf(TRUE) /\ flags.mode # "create"
  BY <1>1, <1>2
<1>4. Inserts(flags) \/ Upserts(flags)
  BY <1>1, <1>3 DEF Inserts, Upserts
<1>5. r.key # Nil /\ Bad \notin ToSet(file)
  BY <1>1, <1>2 DEF RenderFails, Rendered
<1>6. RenderingAssumption(d)
  BY <1>3, RunAssumption
<1>7. /\ IsSequence(r.children) /\ IsSequence(r.deletes) /\ r.updates \in BOOLEAN
      /\ \A st \in ToSet(r.children) \ {Bad} : st = [op |-> "insert", row |-> st.row]
      /\ \A st \in ToSet(r.deletes) \ {Bad} : st.op = "delete"
  BY <1>6 DEF RenderingAssumption, IsRendering
<1>8. /\ IsSequence(inserts) /\ Len(inserts) = RowCount(r) /\ RowCount(r) \in Nat \ {0}
      /\ inserts[1] = [op |-> "insert", row |-> r.row]
      /\ \A j \in 2..RowCount(r) : inserts[j] = r.children[j - 1]
  BY <1>7, Inserting
<1>9. file = When(Inserts(flags), inserts) \o When(Upserts(flags), upserts)
  BY <1>1 DEF File, ModelFile
<1> DEFINE n == RowCount(r)
           nd == Len(r.deletes)
           ins == InsertCount(flags, i)
           first == When(Inserts(flags), inserts)
           second == When(Upserts(flags), upserts)
<1>10. nd \in Nat /\ n \in Nat \ {0} /\ ins \in Nat /\ ins = IF Inserts(flags) THEN n ELSE 0
  BY <1>7, <1>8, SequenceFacts DEF InsertCount
<1>11. IsSequence(upserts)
  BY <1>7, Upserting, NothingToUpdate
<1>12. IsSequence(first) /\ Len(first) = ins
  BY <1>8, <1>10, Conditional
<1>13. IsSequence(second) /\ Len(second) = IF Upserts(flags) THEN Len(upserts) ELSE 0
  BY <1>11, Conditional
<1>14. ToSet(first) \subseteq ToSet(file) /\ ToSet(second) \subseteq ToSet(file)
  <2>1. IsSequence(first)
    BY <1>12
  <2>2. IsSequence(second)
    BY <1>13
  <2> HIDE DEF first, second
  <2>3. ToSet(first) \subseteq ToSet(first \o second) /\ ToSet(second) \subseteq ToSet(first \o second)
    BY <2>1, <2>2, ElementsOfBoth
  <2> QED BY <1>9, <2>3 DEF first, second
<1>15. /\ Inserts(flags) => Bad \notin ToSet(inserts)
       /\ Upserts(flags) => Bad \notin ToSet(upserts)
  BY <1>5, <1>14 DEF When
<1>16. Upserts(flags) =>
         /\ Len(upserts) = nd + n
         /\ \A j \in 1..nd : upserts[j] = r.deletes[j]
         /\ upserts[nd + 1] = [op |-> "upsert", row |-> r.row]
         /\ \A j \in 2..n : upserts[nd + j] = r.children[j - 1]
  BY <1>7, <1>15, Upserting, NothingToUpdate
<1> HIDE DEF inserts, upserts, n, nd, ins, r, d
<1>17. \A j \in 2..n : r.children[j - 1] # Bad
  <2>1. ASSUME Inserts(flags), NEW j \in 2..n
        PROVE  r.children[j - 1] # Bad
    <3>1. inserts[j] \in ToSet(inserts)
      <4>1. DOMAIN inserts = 1..n
        BY <1>8, SequenceFacts DEF n
      <4>2. j \in 1..n
        BY <1>10
      <4> QED BY <4>1, <4>2 DEF ToSet
    <3> QED BY <1>8, <1>15, <2>1, <3>1 DEF n
  <2>2. ASSUME Upserts(flags), NEW j \in 2..n
        PROVE  r.children[j - 1] # Bad
    <3>1. upserts[nd + j] \in ToSet(upserts)
      <4>1. DOMAIN upserts = 1..(nd + n)
        BY <1>11, <1>16, <2>2, SequenceFacts
      <4>2. nd + j \in 1..(nd + n)
        BY <1>10
      <4> QED BY <4>1, <4>2 DEF ToSet
    <3> QED BY <1>15, <1>16, <2>2, <3>1
  <2> QED BY <1>4, <2>1, <2>2
<1>18. Len(r.children) \in Nat /\ n = Len(r.children) + 1
  BY <1>7, SequenceFacts DEF n, RowCount
<1>19. \A j \in 1..Len(r.children) : r.children[j] = InsertOf(r.children[j].row)
  <2>1. ASSUME NEW j \in 1..Len(r.children)
        PROVE  r.children[j] = InsertOf(r.children[j].row)
    <3>1. r.children[j] \in ToSet(r.children)
      BY <1>7, SequenceFacts
    <3>2. j + 1 \in 2..n /\ (j + 1) - 1 = j
      BY <1>18
    <3>3. r.children[j] # Bad
      BY <1>17, <3>2
    <3> QED BY <1>7, <3>1, <3>3 DEF InsertOf
  <2> QED BY <2>1
<1>20. \A j \in 2..n : r.children[j - 1] = InsertOf(RowNumber(r, j))
  <2>1. ASSUME NEW j \in 2..n
        PROVE  r.children[j - 1] = InsertOf(RowNumber(r, j))
    <3>1. j # 1 /\ j - 1 \in 1..Len(r.children)
      BY <1>18
    <3> QED BY <1>19, <3>1 DEF RowNumber
  <2> QED BY <2>1
<1>21. \A j \in 1..ins : inserts[j] = InsertOf(RowNumber(r, j))
  <2>1. ASSUME NEW j \in 1..ins
        PROVE  inserts[j] = InsertOf(RowNumber(r, j))
    <3>1. j = 1 \/ j \in 2..n
      BY <1>10
    <3>2. CASE j = 1
      BY <1>8, <3>2 DEF RowNumber, InsertOf
    <3>3. CASE j \in 2..n
      BY <1>8, <1>20, <3>3 DEF n
    <3> QED BY <3>1, <3>2, <3>3
  <2> QED BY <2>1
<1>22. \A j \in 1..nd : Upserts(flags) => r.deletes[j].op = "delete"
  <2>1. ASSUME NEW j \in 1..nd, Upserts(flags)
        PROVE  r.deletes[j].op = "delete"
    <3>1. r.deletes[j] \in ToSet(r.deletes)
      BY <1>7, SequenceFacts DEF nd
    <3>2. upserts[j] \in ToSet(upserts)
      <4>1. DOMAIN upserts = 1..(nd + n)
        BY <1>11, <1>16, <2>1, SequenceFacts
      <4>2. j \in 1..(nd + n)
        BY <1>10
      <4> QED BY <4>1, <4>2 DEF ToSet
    <3>3. r.deletes[j] # Bad
      BY <1>15, <1>16, <2>1, <3>2
    <3> QED BY <1>7, <3>1, <3>3
  <2> QED BY <2>1
<1>23. /\ IsSequence(file)
       /\ Len(file) = ins + (IF Upserts(flags) THEN nd + n ELSE 0)
       /\ \A j \in 1..ins : file[j] = InsertOf(RowNumber(r, j))
       /\ Upserts(flags) => \A j \in 1..(nd + n) : file[ins + j] = upserts[j]
  <2>1. IsSequence(first)
    BY <1>12
  <2>2. IsSequence(second)
    BY <1>13
  <2>3. /\ \A j \in 1..ins : first[j] = inserts[j]
        /\ Upserts(flags) => second = upserts
    BY <1>10 DEF When
  <2>4. Len(first) = ins
    BY <1>12
  <2>5. Len(second) = IF Upserts(flags) THEN nd + n ELSE 0
    BY <1>13, <1>16
  <2> HIDE DEF first, second
  <2>6. /\ IsSequence(first \o second) /\ Len(first \o second) = Len(first) + Len(second)
        /\ \A j \in 1..Len(first) : (first \o second)[j] = first[j]
        /\ \A j \in 1..Len(second) : (first \o second)[Len(first) + j] = second[j]
    BY <2>1, <2>2, Concatenated
  <2>7. file = first \o second
    BY <1>9 DEF first, second
  <2> HIDE DEF file
  <2>8. /\ IsSequence(file) /\ Len(file) = ins + Len(second)
        /\ \A j \in 1..ins : file[j] = first[j]
        /\ \A j \in 1..Len(second) : file[ins + j] = second[j]
    BY <2>4, <2>6, <2>7, Zenon
  <2> QED BY <1>21, <2>3, <2>5, <2>8
<1>24. Upserts(flags) =>
         /\ \A j \in 1..nd : file[ins + j] = r.deletes[j] /\ r.deletes[j].op = "delete"
         /\ file[ins + nd + 1] = [op |-> "upsert", row |-> r.row]
         /\ \A j \in 2..n : file[ins + nd + j] = InsertOf(RowNumber(r, j))
  <2> SUFFICES ASSUME Upserts(flags)
               PROVE  /\ \A j \in 1..nd : file[ins + j] = r.deletes[j] /\ r.deletes[j].op = "delete"
                      /\ file[ins + nd + 1] = [op |-> "upsert", row |-> r.row]
                      /\ \A j \in 2..n : file[ins + nd + j] = InsertOf(RowNumber(r, j))
    OBVIOUS
  <2> HIDE DEF file
  <2>1. \A j \in 1..(nd + n) : file[ins + j] = upserts[j]
    BY <1>23
  <2>2. ASSUME NEW j \in 1..nd
        PROVE  file[ins + j] = r.deletes[j] /\ r.deletes[j].op = "delete"
    <3>1. j \in 1..(nd + n)
      BY <1>10
    <3> QED BY <1>16, <1>22, <2>1, <3>1
  <2>3. file[ins + nd + 1] = [op |-> "upsert", row |-> r.row]
    <3>1. nd + 1 \in 1..(nd + n) /\ ins + nd + 1 = ins + (nd + 1)
      BY <1>10
    <3> QED BY <1>16, <2>1, <3>1
  <2>4. ASSUME NEW j \in 2..n
        PROVE  file[ins + nd + j] = InsertOf(RowNumber(r, j))
    <3>1. nd + j \in 1..(nd + n) /\ ins + nd + j = ins + (nd + j)
      BY <1>10
    <3> QED BY <1>16, <1>20, <2>1, <3>1
  <2> QED BY <2>2, <2>3, <2>4
<1> QED BY <1>4, <1>5, <1>10, <1>19, <1>23, <1>24 DEF ModelFileShape, n, nd, ins, r, d

(* What is executed for a file of a run with a landing table.              *)
LandingUpsertOf(d) ==
  [op |-> "upsert", table |-> TableName, vals |-> Values[d], conflict |-> Pk,
   set |-> SetList(Columns[d.schema], Pk)]

LEMMA LandingFileIs ==
  ASSUME NEW flags, Runnable(FALSE, flags), NEW i \in 1..Len(flags.files)
  PROVE  LET d == flags.files[i]
             ins == IF Inserts(flags) THEN 1 ELSE 0
             file == File(flags, i)
         IN /\ d \in DocumentsOf(FALSE) /\ d.schema = flags.schema
            /\ Inserts(flags) \/ Upserts(flags)
            /\ IsFunction(Values[d], ToSet(Columns[d.schema]))
            /\ IsSequence(file) /\ Len(file) = ins + (IF Upserts(flags) THEN 1 ELSE 0)
            /\ Inserts(flags) => file[1] = LandingInsert(TableName, Values[d])
            /\ Upserts(flags) => file[ins + 1] = LandingUpsertOf(d)
<1> DEFINE d == flags.files[i]
           file == File(flags, i)
           a == LandingInsert(TableName, Values[d])
           b == LandingUpsert(TableName, Columns[flags.schema], Values[d], Pk)
           first == When(Inserts(flags), <<a>>)
           second == When(Upserts(flags), <<b>>)
           ins == IF Inserts(flags) THEN 1 ELSE 0
           ups == IF Upserts(flags) THEN 1 ELSE 0
<1>1. /\ flags.model = FALSE /\ IsSequence(flags.files) /\ ~RenderFails(flags)
      /\ flags.mode \in {"create", "insert", "upsert", "all"}
      /\ flags.mode = "create" => flags.files = <<>>
      /\ \A j \in DOMAIN flags.files :
           flags.files[j] \in DocumentsOf(FALSE) /\ flags.files[j].schema = flags.schema
  BY RunnableFlags DEF Runnable
<1>2. i \in DOMAIN flags.files /\ flags.files # <<>>
  <2>1. DOMAIN flags.files = 1..Len(flags.files) /\ Len(<<>>) = 0
    BY <1>1, SequenceFacts, EmptySeq
  <2> QED BY <2>1
<1>3. d \in DocumentsOf(FALSE) /\ d.schema = flags.schema /\ flags.mode # "create"
  BY <1>1, <1>2
<1>4. Inserts(flags) \/ Upserts(flags)
  BY <1>1, <1>3 DEF Inserts, Upserts
<1>5. IsFunction(Values[d], ToSet(Columns[d.schema]))
  BY <1>3, RunAssumption
<1>6. Bad \notin ToSet(file) /\ file = first \o second
  BY <1>1, <1>2 DEF RenderFails, File, LandingFile
<1>7. IsSequence(<<a>>) /\ Len(<<a>>) = 1 /\ <<a>>[1] = a
  BY Single
<1>8. IsSequence(<<b>>) /\ Len(<<b>>) = 1 /\ <<b>>[1] = b /\ b \in ToSet(<<b>>)
  BY Single
<1>9. IsSequence(first) /\ Len(first) = ins
  BY <1>7, Conditional
<1>10. IsSequence(second) /\ Len(second) = ups
  BY <1>8, Conditional
<1>11. Upserts(flags) => b = LandingUpsertOf(d)
  <2>1. Upserts(flags) => b \in ToSet(second)
    BY <1>8 DEF When
  <2>2. ToSet(second) \subseteq ToSet(file)
    <3>1. IsSequence(first)
      BY <1>9
    <3>2. IsSequence(second)
      BY <1>10
    <3> HIDE DEF first, second
    <3>3. ToSet(second) \subseteq ToSet(first \o second)
      BY <3>1, <3>2, ElementsOfBoth
    <3> QED BY <1>6, <3>3
  <2>3. Upserts(flags) => b # Bad
    BY <1>6, <2>1, <2>2
  <2> QED BY <1>3, <2>3 DEF LandingUpsert, LandingUpsertOf
<1>12. /\ Inserts(flags) => first[1] = a
       /\ Upserts(flags) => second[1] = b
  BY <1>7, <1>8 DEF When
<1>13. /\ IsSequence(file) /\ Len(file) = ins + ups
       /\ Inserts(flags) => file[1] = first[1]
       /\ Upserts(flags) => file[ins + 1] = second[1]
  <2>1. IsSequence(first)
    BY <1>9
  <2>2. IsSequence(second)
    BY <1>10
  <2>3. Len(first) = ins /\ Len(second) = ups
    BY <1>9, <1>10
  <2>4. file = first \o second
    BY <1>6
  <2> HIDE DEF first, second, file
  <2>5. /\ IsSequence(first \o second) /\ Len(first \o second) = Len(first) + Len(second)
        /\ \A j \in 1..Len(first) : (first \o second)[j] = first[j]
        /\ \A j \in 1..Len(second) : (first \o second)[Len(first) + j] = second[j]
    BY <2>1, <2>2, Concatenated
  <2>6. /\ IsSequence(file) /\ Len(file) = ins + ups
        /\ \A j \in 1..ins : file[j] = first[j]
        /\ \A j \in 1..ups : file[ins + j] = second[j]
    BY <2>3, <2>4, <2>5, Zenon
  <2> QED BY <2>6
<1> QED BY <1>3, <1>4, <1>5, <1>11, <1>12, <1>13

-----------------------------------------------------------------------------
(* What executing a statement does.                                        *)

Does(st) ==
  /\ ExecStatement(run.flags, st).ok
  /\ relations' = ExecStatement(run.flags, st).relations
  /\ rows' = ExecStatement(run.flags, st).rows

Dml == {"insert", "upsert", "delete"}

(* What is refused leaves everything as it was.                            *)
LEMMA Answers ==
  ASSUME NEW st, st.op \in {"create", "alter", "drop"} \cup Dml,
         run.flags.model \in BOOLEAN,
         ~ExecStatement(run.flags, st).ok
  PROVE  /\ ExecStatement(run.flags, st).relations = relations
         /\ ExecStatement(run.flags, st).rows = rows
<1>1. CASE st.op = "create"
  <2>1. ExecStatement(run.flags, st) = ExecCreate(st)
    BY <1>1 DEF ExecStatement
  <2> QED BY <2>1 DEF ExecCreate, Answer
<1>2. CASE st.op = "alter"
  <2> DEFINE table == TheRelation(st.table)
             ok == There(st.table) /\ table.pk = <<>> /\ ToSet(st.pk) \subseteq ToSet(table.columns)
             new == (relations \ {table}) \cup {[table EXCEPT !.pk = st.pk]}
  <2>1. ExecStatement(run.flags, st) = ExecAlter(st)
    BY <1>2 DEF ExecStatement
  <2>2. ExecAlter(st) = Answer(ok, new, rows)
    BY DEF ExecAlter
  <2> HIDE DEF ok, new
  <2> QED BY <2>1, <2>2 DEF Answer
<1>3. CASE st.op = "drop"
  <2>1. ExecStatement(run.flags, st) = ExecDrop(st)
    BY <1>3 DEF ExecStatement
  <2> DEFINE ok == \A r \in Named(st.name) : r.kind = st.kind
             gone == Named(st.name) \cup {r \in relations : r.kind = "view" /\ st.name \in r.uses}
             row(r) == IF r.parent = st.name THEN [r EXCEPT !.parent = <<>>] ELSE r
             a == {[r EXCEPT !.uses = @ \ {st.name}] : r \in relations \ gone}
             b == {row(r) : r \in {q \in rows : q.table # st.name}}
  <2>2. ExecDrop(st) = IF ~There(st.name) THEN Answer(TRUE, relations, rows) ELSE Answer(ok, a, b)
    BY DEF ExecDrop
  <2> HIDE DEF ok, a, b
  <2> QED BY <2>1, <2>2 DEF Answer
<1>4. CASE st.op \in Dml /\ run.flags.model
  <2>1. ExecStatement(run.flags, st) = ExecModelDml(Models[run.flags.schema], st)
    BY <1>4 DEF ExecStatement, Dml
  <2> QED BY <2>1 DEF ExecModelDml, Answer
<1>5. CASE st.op \in Dml /\ ~run.flags.model
  <2>1. ExecStatement(run.flags, st) = ExecLandingDml(st)
    BY <1>5 DEF ExecStatement, Dml
  <2> QED BY <2>1 DEF ExecLandingDml, Answer
<1> QED BY <1>1, <1>2, <1>3, <1>4, <1>5

LEMMA Executing ==
  ASSUME ExecNext \/ CutOff, Current.op \in {"create", "alter", "drop"} \cup Dml,
         run.flags.model \in BOOLEAN
  PROVE  /\ run # Nobody /\ ~AtEnd
         /\ \/ UNCHANGED <<relations, rows>> /\ run' = Nobody
            \/ Does(Current) /\ run' \in {Nobody, Advanced}
         /\ UNCHANGED <<modelMode, used>>
<1>1. run # Nobody /\ ~AtEnd /\ UNCHANGED <<modelMode, used>>
  BY DEF ExecNext, CutOff
<1> DEFINE answer == ExecStatement(run.flags, Current)
<1>2. ~answer.ok => answer.relations = relations /\ answer.rows = rows
  BY Answers
<1>3. CASE ExecNext
  <2>1. /\ relations' = answer.relations /\ rows' = answer.rows
        /\ IF answer.ok THEN run' = Advanced ELSE run' = Nobody
    BY <1>3 DEF ExecNext, End
  <2> HIDE DEF answer
  <2>2. CASE answer.ok
    BY <1>1, <2>1, <2>2 DEF Does, answer
  <2>3. CASE ~answer.ok
    BY <1>1, <1>2, <2>1, <2>3
  <2> QED BY <2>2, <2>3
<1>4. CASE CutOff
  <2>1. /\ \/ relations' = answer.relations /\ rows' = answer.rows
           \/ UNCHANGED <<relations, rows>>
        /\ run' = Nobody
    BY <1>4 DEF CutOff, End
  <2> HIDE DEF answer
  <2>2. CASE UNCHANGED <<relations, rows>>
    BY <1>1, <2>1, <2>2
  <2>3. CASE answer.ok /\ relations' = answer.relations /\ rows' = answer.rows
    BY <1>1, <2>1, <2>3 DEF Does, answer
  <2> QED BY <1>1, <1>2, <2>1, <2>2, <2>3
<1> QED BY <1>3, <1>4

NewRelation(st) ==
  [name |-> st.name, kind |-> st.kind, columns |-> st.columns, uses |-> st.uses, pk |-> <<>>]

LEMMA Creating ==
  ASSUME NEW st, st.op = "create"
  PROVE  /\ ExecStatement(run.flags, st).ok <=>
              /\ ~There(st.name) /\ \A n \in st.uses : There(n)
              /\ Cardinality(ToSet(st.columns)) = Len(st.columns)
         /\ Does(st) => relations' = relations \cup {NewRelation(st)} /\ rows' = rows
<1>1. ExecStatement(run.flags, st) = ExecCreate(st)
  BY DEF ExecStatement
<1> QED BY <1>1 DEF ExecCreate, Answer, Does, NewRelation

LEMMA Altering ==
  ASSUME NEW st, st.op = "alter"
  PROVE  LET table == TheRelation(st.table)
         IN /\ ExecStatement(run.flags, st).ok <=>
                 /\ There(st.table) /\ table.pk = <<>>
                 /\ ToSet(st.pk) \subseteq ToSet(table.columns)
            /\ Does(st) =>
                 /\ relations' = (relations \ {table}) \cup {[table EXCEPT !.pk = st.pk]}
                 /\ rows' = rows
<1> DEFINE table == TheRelation(st.table)
           ok == /\ There(st.table) /\ table.pk = <<>>
                 /\ ToSet(st.pk) \subseteq ToSet(table.columns)
           new == (relations \ {table}) \cup {[table EXCEPT !.pk = st.pk]}
<1>1. ExecStatement(run.flags, st) = ExecAlter(st)
  BY DEF ExecStatement
<1>2. ExecAlter(st) = Answer(ok, new, rows)
  BY DEF ExecAlter
<1>3. ok \in BOOLEAN
  OBVIOUS
<1> HIDE DEF ok, new
<1>4. /\ ExecStatement(run.flags, st).ok <=> ok
      /\ Does(st) => relations' = new /\ rows' = rows
  BY <1>1, <1>2, <1>3 DEF Answer, Does
<1> QED BY <1>4 DEF ok, new

(* What DROP ... CASCADE takes, and what it makes of the rest.             *)
GoesWith(r, name) == r.name = name \/ (r.kind = "view" /\ name \in r.uses)

WithoutUse(r, name) == [r EXCEPT !.uses = @ \ {name}]

WithoutParent(r, name) == IF r.parent = name THEN [r EXCEPT !.parent = <<>>] ELSE r

LEMMA Dropping ==
  ASSUME NEW st, st.op = "drop"
  PROVE  /\ (\A r \in relations : r.name = st.name => r.kind = st.kind) =>
              ExecStatement(run.flags, st).ok
         /\ Does(st) =>
              \/ (\A r \in relations : r.name # st.name) /\ UNCHANGED <<relations, rows>>
              \/ /\ \A r \in relations : r.name = st.name => r.kind = st.kind
                 /\ relations' = {WithoutUse(r, st.name) :
                                    r \in {q \in relations : ~GoesWith(q, st.name)}}
                 /\ rows' = {WithoutParent(r, st.name) : r \in {q \in rows : q.table # st.name}}
<1>1. ExecStatement(run.flags, st) = ExecDrop(st)
  BY DEF ExecStatement
<1> DEFINE gone == Named(st.name) \cup {r \in relations : r.kind = "view" /\ st.name \in r.uses}
           ok == \A r \in Named(st.name) : r.kind = st.kind
           left == {WithoutUse(r, st.name) : r \in {q \in relations : ~GoesWith(q, st.name)}}
           kept == {WithoutParent(r, st.name) : r \in {q \in rows : q.table # st.name}}
<1>2. ok <=> \A r \in relations : r.name = st.name => r.kind = st.kind
  BY DEF Named
<1>3. relations \ gone = {q \in relations : ~GoesWith(q, st.name)}
  BY DEF Named, GoesWith
<1>4. ExecDrop(st) = IF ~There(st.name) THEN Answer(TRUE, relations, rows)
                                        ELSE Answer(ok, left, kept)
  BY <1>3 DEF ExecDrop, WithoutUse, WithoutParent
<1>5. ~There(st.name) <=> \A r \in relations : r.name # st.name
  BY DEF There, Named
<1> HIDE DEF ok, left, kept
<1>6. CASE ~There(st.name)
  BY <1>1, <1>4, <1>5, <1>6 DEF Answer, Does
<1>7. CASE There(st.name)
  <2>1. ExecStatement(run.flags, st) = Answer(ok, left, kept)
    BY <1>1, <1>4, <1>7
  <2>2. /\ ok => ExecStatement(run.flags, st).ok
        /\ Does(st) => ok /\ relations' = left /\ rows' = kept
    BY <2>1 DEF Answer, Does
  <2> QED BY <1>2, <2>2 DEF left, kept
<1> QED BY <1>6, <1>7

LEMMA ModelDml ==
  ASSUME NEW st, st.op \in Dml, run.flags.model
  PROVE  LET model == Models[run.flags.schema]
             there == /\ There(Target(st))
                      /\ NamedColumns(model, st) \subseteq ToSet(TheRelation(Target(st)).columns)
             result == Exec(rows, Referring(st))
         IN /\ there /\ result.ok => ExecStatement(run.flags, st).ok
            /\ Does(st) => /\ there /\ result.ok
                           /\ relations' = relations /\ rows' = result.db
<1> DEFINE model == Models[run.flags.schema]
           there == /\ There(Target(st))
                    /\ NamedColumns(model, st) \subseteq ToSet(TheRelation(Target(st)).columns)
           result == Exec(rows, Referring(st))
<1>1. ExecStatement(run.flags, st) = ExecModelDml(model, st)
  BY DEF ExecStatement, Dml
<1>2. ExecModelDml(model, st) = IF ~there THEN Answer(FALSE, relations, rows)
                                ELSE Answer(result.ok, relations, result.db)
  BY DEF ExecModelDml
<1> HIDE DEF there, result, model
<1>3. /\ there /\ result.ok => ExecStatement(run.flags, st).ok
      /\ Does(st) => there /\ result.ok /\ relations' = relations /\ rows' = result.db
  BY <1>1, <1>2 DEF Answer, Does
<1> QED BY <1>3 DEF there, result, model

LEMMA LandingDml ==
  ASSUME NEW st, st.op \in Dml, ~run.flags.model
  PROVE  LET table == TheRelation(st.table)
             there == There(st.table) /\ DOMAIN st.vals \subseteq ToSet(table.columns)
             result == LandingExec(table.pk, rows, st)
         IN /\ there /\ result.ok => ExecStatement(run.flags, st).ok
            /\ Does(st) => /\ there /\ result.ok
                           /\ relations' = relations /\ rows' = result.db
<1> DEFINE table == TheRelation(st.table)
           there == There(st.table) /\ DOMAIN st.vals \subseteq ToSet(table.columns)
           result == LandingExec(table.pk, rows, st)
<1>1. ExecStatement(run.flags, st) = ExecLandingDml(st)
  BY DEF ExecStatement, Dml
<1>2. ExecLandingDml(st) = IF ~there THEN Answer(FALSE, relations, rows)
                           ELSE Answer(result.ok, relations, result.db)
  BY DEF ExecLandingDml
<1> HIDE DEF there, result
<1>3. /\ there /\ result.ok => ExecStatement(run.flags, st).ok
      /\ Does(st) => there /\ result.ok /\ relations' = relations /\ rows' = result.db
  BY <1>1, <1>2 DEF Answer, Does
<1> QED BY <1>3 DEF there, result

-----------------------------------------------------------------------------
(* What is rendered.                                                       *)

(* A row is for one table, and has columns of it.                          *)
LEMMA RowsAreOfTables ==
  ASSUME SchemasInstall, NEW s \in Planned, NEW row, IsRowOf(row, Models[s])
  PROVE  /\ IsRow(row) /\ IsFunction(row.vals, DOMAIN row.vals)
         /\ row.table \in TableNames(s)
         /\ \E i \in 1..TableCount(s) :
              /\ row.table = Models[s].tables[i].name
              /\ row.parent = Models[s].tables[i].parent
         /\ \A st : st.op # "delete" /\ st.row = row =>
              DOMAIN row.vals \subseteq NamedColumns(Models[s], st)
<1> DEFINE tables == Models[s].tables
           n == TableCount(s)
<1>1. DOMAIN tables = 1..n
  BY PlannedModels
<1>2. PICK i \in 1..n :
        /\ IsRow(row) /\ IsFunction(row.vals, DOMAIN row.vals)
        /\ row.table = tables[i].name /\ row.parent = tables[i].parent
        /\ DOMAIN row.vals \subseteq ToSet(TableColumns(Models[s], <<Header>>, i))
  BY <1>1 DEF IsRowOf
<1>3. row.table \in TableNames(s)
  BY <1>2, TableNamesAre
<1>4. \A j \in 1..n : tables[j].name = row.table => j = i
  BY <1>2, TablesDiffer
<1>5. ASSUME NEW st, st.op # "delete", st.row = row
      PROVE  DOMAIN row.vals \subseteq NamedColumns(Models[s], st)
  <2>1. Target(st) = row.table
    BY <1>5 DEF Target
  <2>2. (CHOOSE j \in DOMAIN tables : tables[j].name = Target(st)) = i
    BY <1>1, <1>2, <1>4, <2>1
  <2> QED BY <1>2, <1>5, <2>2 DEF NamedColumns
<1> QED BY <1>2, <1>3, <1>5

LEMMA RowsOfDocument ==
  ASSUME NEW d \in DocumentsOf(TRUE), Renderings[d].key # Nil,
         \A j \in 1..Len(Renderings[d].children) :
           Renderings[d].children[j] = InsertOf(Renderings[d].children[j].row),
         NEW j \in 1..RowCount(Renderings[d])
  PROVE  LET row == RowNumber(Renderings[d], j)
         IN /\ IsRowOf(row, Models[d.schema]) /\ row.at # <<Nil>>
            /\ j = 1 => row.table = TableName /\ row.at = <<Renderings[d].key>>
<1> DEFINE r == Renderings[d]
<1>1. RenderingAssumption(d)
  BY RunAssumption
<1>2. /\ IsRowOf(r.row, Models[d.schema])
      /\ r.row.table = TableName /\ r.row.at = <<r.key>>
      /\ IsSequence(r.children)
      /\ \A st \in ToSet(r.children) \ {Bad} :
           IsRowOf(st.row, Models[d.schema]) /\ Len(st.row.at) > 1
  BY <1>1 DEF RenderingAssumption, IsRendering
<1> HIDE DEF r
<1>3. CASE j = 1
  BY <1>2, <1>3 DEF RowNumber, r
<1>4. CASE j # 1
  <2>1. Len(r.children) \in Nat
    BY <1>2, SequenceFacts
  <2>2. j - 1 \in 1..Len(r.children)
    BY <1>4, <2>1 DEF RowCount, r
  <2>3. r.children[j - 1] \in ToSet(r.children)
    BY <1>2, <2>2, SequenceFacts
  <2>4. r.children[j - 1] = InsertOf(r.children[j - 1].row)
    BY <2>2 DEF r
  <2>5. r.children[j - 1] # Bad
    BY <2>4 DEF InsertOf, Bad
  <2>6. IsRowOf(r.children[j - 1].row, Models[d.schema]) /\ Len(r.children[j - 1].row.at) > 1
    BY <1>2, <2>3, <2>5
  <2>7. r.children[j - 1].row.at # <<Nil>>
    <3>1. Len(<<Nil>>) = 1 /\ ~(1 > 1)
      OBVIOUS
    <3> QED BY <2>6, <3>1
  <2> QED BY <1>4, <2>6, <2>7 DEF RowNumber, r
<1> QED BY <1>3, <1>4

(* A statement of a model's file is for a table of the model.              *)
IsWrite(st, s) ==
  /\ st.op \in {"insert", "upsert"} /\ st = [op |-> st.op, row |-> st.row]
  /\ IsRowOf(st.row, Models[s]) /\ st.row.at # <<Nil>>

IsDelete(st, s) ==
  /\ st.op = "delete"
  /\ st = [op |-> "delete", table |-> st.table, at |-> st.at]
  /\ \E k \in 1..TableCount(s) : st.table = Models[s].tables[k].name

LEMMA ModelFileStatements ==
  ASSUME NEW flags, Runnable(TRUE, flags), NEW i \in 1..Len(flags.files),
         NEW l \in 1..Len(File(flags, i))
  PROVE  \/ IsWrite(File(flags, i)[l], flags.schema)
         \/ IsDelete(File(flags, i)[l], flags.schema)
<1> DEFINE d == flags.files[i]
           r == Renderings[d]
           ins == InsertCount(flags, i)
           nd == Len(r.deletes)
           n == RowCount(r)
           file == File(flags, i)
<1>1. /\ r.key # Nil
      /\ IsSequence(file)
      /\ Len(file) = ins + (IF Upserts(flags) THEN nd + n ELSE 0)
      /\ \A j \in 1..ins : file[j] = InsertOf(RowNumber(r, j))
      /\ Upserts(flags) =>
           /\ \A j \in 1..nd : file[ins + j] = r.deletes[j] /\ r.deletes[j].op = "delete"
           /\ file[ins + nd + 1] = [op |-> "upsert", row |-> r.row]
           /\ \A j \in 2..n : file[ins + nd + j] = InsertOf(RowNumber(r, j))
      /\ \A j \in 1..Len(r.children) : r.children[j] = InsertOf(r.children[j].row)
  <2>1. ModelFileShape(flags, i)
    BY ModelFileIs
  <2> QED BY <2>1 DEF ModelFileShape
<1>12. nd \in Nat /\ n \in Nat \ {0} /\ ins \in Nat
  BY ModelFileIs DEF ModelFileShape
<1>2. d \in DocumentsOf(TRUE) /\ d.schema = flags.schema /\ flags.schema \in Planned
  <2>1. /\ IsSequence(flags.files) /\ flags.schema \in Planned
        /\ \A j \in DOMAIN flags.files :
             flags.files[j] \in DocumentsOf(TRUE) /\ flags.files[j].schema = flags.schema
    BY RunnableFlags DEF Usable
  <2>2. i \in DOMAIN flags.files
    BY <2>1, SequenceFacts
  <2> QED BY <2>1, <2>2
<1>3. \A j \in 1..n : IsRowOf(RowNumber(r, j), Models[flags.schema])
                        /\ RowNumber(r, j).at # <<Nil>>
  BY <1>1, <1>2, RowsOfDocument
<1>4. ins \in {0, n}
  BY DEF InsertCount
<1>5. \A j \in 1..n : IsWrite(InsertOf(RowNumber(r, j)), flags.schema)
  BY <1>3 DEF InsertOf, IsWrite
<1>6. IsWrite([op |-> "upsert", row |-> r.row], flags.schema)
  <2>1. RowNumber(r, 1) = r.row /\ 1 \in 1..n
    BY <1>12 DEF RowNumber
  <2> QED BY <1>3, <2>1 DEF IsWrite
<1>7. ASSUME NEW j \in 1..nd, r.deletes[j].op = "delete"
      PROVE  IsDelete(r.deletes[j], flags.schema)
  <2>1. /\ IsSequence(r.deletes)
        /\ \A st \in ToSet(r.deletes) \ {Bad} :
             /\ st = [op |-> "delete", table |-> st.table, at |-> st.at]
             /\ \E t \in ToSet(Models[d.schema].tables) : st.table = t.name
    BY <1>2, RunAssumption DEF RenderingAssumption, IsRendering
  <2>2. r.deletes[j] \in ToSet(r.deletes) \ {Bad}
    <3>1. r.deletes[j] \in ToSet(r.deletes)
      BY <2>1, SequenceFacts
    <3>2. r.deletes[j] # Bad
      BY <1>7 DEF Bad
    <3> QED BY <3>1, <3>2
  <2>3. PICK t \in ToSet(Models[d.schema].tables) : r.deletes[j].table = t.name
    BY <2>1, <2>2
  <2>4. DOMAIN Models[flags.schema].tables = 1..TableCount(flags.schema)
    BY <1>2, PlannedModels
  <2>5. \E k \in 1..TableCount(flags.schema) :
          r.deletes[j].table = Models[flags.schema].tables[k].name
    BY <1>2, <2>3, <2>4 DEF ToSet
  <2> QED BY <1>7, <2>1, <2>2, <2>5 DEF IsDelete
<1> HIDE DEF ins, nd, n, r, d, file
<1>8. l \in 1..Len(file) /\ l \in Nat
  BY DEF file
<1>9. CASE l <= ins
  <2>1. l \in 1..ins /\ l \in 1..n
    BY <1>1, <1>12, <1>4, <1>8, <1>9
  <2>2. IsWrite(file[l], flags.schema)
    BY <1>1, <1>12, <1>5, <2>1
  <2> QED BY <2>2 DEF file
<1>10. CASE l > ins
  <2>1. Upserts(flags) /\ l - ins \in 1..(nd + n) /\ l = ins + (l - ins)
    BY <1>1, <1>12, <1>8, <1>10
  <2>2. CASE l - ins \in 1..nd
    <3>1. file[l] = r.deletes[l - ins] /\ r.deletes[l - ins].op = "delete"
      BY <1>1, <1>12, <2>1, <2>2
    <3>2. IsDelete(file[l], flags.schema)
      BY <1>7, <2>2, <3>1
    <3> QED BY <3>2 DEF file
  <2>3. CASE l = ins + nd + 1
    <3>1. IsWrite(file[l], flags.schema)
      BY <1>1, <1>12, <1>6, <2>1, <2>3
    <3> QED BY <3>1 DEF file
  <2>4. CASE l - ins - nd \in 2..n
    <3>1. l = ins + nd + (l - ins - nd) /\ l - ins - nd \in 1..n
      BY <1>8, <1>12, <2>4
    <3>2. IsWrite(file[l], flags.schema)
      BY <1>1, <1>12, <1>5, <2>1, <2>4, <3>1
    <3> QED BY <3>2 DEF file
  <2> QED BY <1>1, <1>12, <1>8, <2>1, <2>2, <2>3, <2>4
<1>11. l <= ins \/ l > ins
  BY <1>1, <1>12, <1>8
<1> QED BY <1>9, <1>10, <1>11

-----------------------------------------------------------------------------
(***************************************************************************)
(* Type correctness.                                                       *)
(***************************************************************************)
RunSchema == run.flags.schema

RunInv ==
  run # Nobody =>
    /\ run = [flags |-> run.flags, prelude |-> run.prelude, file |-> run.file, line |-> run.line]
    /\ Runnable(modelMode, run.flags) /\ RunSchema \in used
    /\ run.prelude \in 0..Len(Prelude(run.flags))
    /\ run.file \in 1..(Len(run.flags.files) + 1)
    /\ InPrelude => run.file = 1
    /\ InPrelude \/ run.file > Len(run.flags.files) => run.line = 1
    /\ run.file <= Len(run.flags.files) => run.line \in 1..Len(File(run.flags, run.file))

LastInv ==
  /\ used \subseteq Usable(modelMode)
  /\ \/ last = NoRun
     \/ /\ run = Nobody /\ last.result \in {"done", "refused", "cut off"}
        /\ last.op # "render" => Runnable(modelMode, last.flags)

(* Tables and views are called so, and a view is of the root table.        *)
RelationInv ==
  \A r \in relations :
    /\ r = [name |-> r.name, kind |-> r.kind, columns |-> r.columns, uses |-> r.uses, pk |-> r.pk]
    /\ IF modelMode
         THEN \/ r.kind = "table" /\ \E s \in Planned : r.name \in TableNames(s)
              \/ r.kind = "view" /\ TableName \in r.uses /\ \E s \in Planned : r.name \in ViewNames(s)
         ELSE r.kind = "table" /\ r.name = TableName /\ r.pk \in {<<>>, <<Pk>>}

UniqueNames == \A r \in relations, q \in relations : r.name = q.name => r = q

RowsTyped ==
  \A r \in rows :
    /\ IsRow(r) /\ r.at # <<Nil>>
    /\ \E table \in relations :
         /\ table.name = r.table /\ table.kind = "table"
         /\ DOMAIN r.vals \subseteq ToSet(table.columns)

DatabaseInv == RelationInv /\ UniqueNames /\ RowsTyped

TypedInv == modelMode \in BOOLEAN /\ RunInv /\ LastInv /\ DatabaseInv

DropCount == Len(DropStatements(run.flags))

CreateCount == Len(CreateAll(run.flags))

(* The statement a run is at.                                              *)
LEMMA Position ==
  ASSUME TypedInv, run # Nobody, ~AtEnd
  PROVE  /\ DropCount \in Nat /\ CreateCount \in Nat
         /\ Len(Prelude(run.flags)) = DropCount + CreateCount
         /\ \/ /\ InPrelude /\ run.prelude + 1 \in 1..DropCount
               /\ Current = DropStatements(run.flags)[run.prelude + 1]
            \/ /\ InPrelude /\ run.prelude + 1 - DropCount \in 1..CreateCount
               /\ run.prelude >= DropCount
               /\ Current = CreateAll(run.flags)[run.prelude + 1 - DropCount]
            \/ /\ ~InPrelude /\ run.file \in 1..Len(run.flags.files)
               /\ run.line \in 1..Len(File(run.flags, run.file))
               /\ Current = File(run.flags, run.file)[run.line]
<1>1. /\ Runnable(modelMode, run.flags)
      /\ run.prelude \in 0..Len(Prelude(run.flags)) /\ run.file \in 1..(Len(run.flags.files) + 1)
      /\ run.file <= Len(run.flags.files) => run.line \in 1..Len(File(run.flags, run.file))
  BY DEF TypedInv, RunInv
<1>2. /\ DropCount \in Nat /\ CreateCount \in Nat
      /\ Len(Prelude(run.flags)) = DropCount + CreateCount
      /\ \A i \in 1..DropCount : Prelude(run.flags)[i] = DropStatements(run.flags)[i]
      /\ \A i \in 1..CreateCount : Prelude(run.flags)[DropCount + i] = CreateAll(run.flags)[i]
  BY <1>1, PreludeIs DEF DropCount, CreateCount
<1>3. CASE InPrelude
  <2>1. Current = Prelude(run.flags)[run.prelude + 1] /\ run.prelude < DropCount + CreateCount
        /\ run.prelude \in Nat
    BY <1>1, <1>2, <1>3 DEF InPrelude, Current
  <2>2. CASE run.prelude < DropCount
    <3>1. run.prelude + 1 \in 1..DropCount
      BY <1>2, <2>1, <2>2
    <3> QED BY <1>2, <1>3, <2>1, <3>1
  <2>3. CASE run.prelude >= DropCount
    <3>1. /\ run.prelude + 1 - DropCount \in 1..CreateCount
          /\ run.prelude + 1 = DropCount + (run.prelude + 1 - DropCount)
      BY <1>2, <2>1, <2>3
    <3> QED BY <1>2, <1>3, <2>1, <2>3, <3>1
  <2> QED BY <1>2, <2>1, <2>2, <2>3
<1>4. CASE ~InPrelude
  <2>1. ~(run.file > Len(run.flags.files))
    BY <1>4 DEF AtEnd
  <2>2. Len(run.flags.files) \in Nat
    BY <1>1, RunnableFlags, SequenceFacts
  <2>3. run.file \in 1..Len(run.flags.files)
    BY <1>1, <2>1, <2>2
  <2> QED BY <1>1, <1>2, <1>4, <2>3 DEF Current
<1> QED BY <1>3, <1>4

(* What a CREATE of a run creates.                                         *)
LEMMA CreatedAre ==
  ASSUME NEW m, NEW flags, Runnable(m, flags),
         NEW j \in 1..Len(CreateAll(flags))
  PROVE  LET st == CreateAll(flags)[j]
         IN \/ /\ st.op = "create" /\ m
               /\ \/ st.kind = "table" /\ st.name \in TableNames(flags.schema)
                  \/ /\ st.kind = "view" /\ TableName \in st.uses
                     /\ st.name \in ViewNames(flags.schema)
            \/ ~m /\ j = 1 /\ st = LandingCreate(TableName, Columns[flags.schema])
            \/ ~m /\ j = 2 /\ st = [op |-> "alter", table |-> TableName, pk |-> <<Pk>>]
<1> DEFINE s == flags.schema
           n == TableCount(s)
           v == ViewCount(s)
           creates == CreateAll(flags)
<1>1. m \in BOOLEAN /\ s \in Usable(m)
  BY RunnableFlags DEF Runnable
<1>2. CASE ~m
  <2>1. IsSequence(creates) /\ (~Creates(flags) => Len(creates) = 0)
    BY CreatesAre
  <2>2. Creates(flags)
    BY <2>1
  <2>3. /\ Len(creates) = 2 /\ creates[1] = LandingCreate(TableName, Columns[s])
        /\ creates[2] = [op |-> "alter", table |-> TableName, pk |-> <<Pk>>]
    BY <1>2, <2>2, CreatesAre
  <2>4. j = 1 \/ j = 2
    BY <2>3
  <2> QED BY <1>2, <2>3, <2>4
<1>3. CASE m
  <2>1. IsSequence(creates) /\ (~Creates(flags) => Len(creates) = 0)
    BY CreatesAre
  <2>2. Creates(flags)
    BY <2>1
  <2>3. s \in Planned /\ creates = ModelDdl(s)
    BY <1>1, <1>3, <2>2, CreatesAre DEF Usable
  <2>4. n \in Nat /\ v \in Nat /\ DOMAIN Models[s].root.arrays = 1..v
    BY <2>3, PlannedModels
  <2>5. /\ Len(ModelDdl(s)) = n + v + 1
        /\ \A i \in 1..n : ModelDdl(s)[i] = TableStatement(s, i)
        /\ \A i \in 1..v : ModelDdl(s)[n + i] = ViewStatement(s, i)
        /\ ModelDdl(s)[n + v + 1] = Registry
    BY <2>3, DdlShape
  <2>6. /\ \A i \in 1..n : /\ TableStatement(s, i).op = "create"
                           /\ TableStatement(s, i).kind = "table"
                           /\ TableStatement(s, i).name = Models[s].tables[i].name
        /\ \A i \in 1..v : /\ ViewStatement(s, i).op = "create" /\ ViewStatement(s, i).kind = "view"
                           /\ ViewStatement(s, i).name =
                                ViewName(Models[s].root, Models[s].root.arrays[i])
                           /\ TableName \in ViewStatement(s, i).uses
    BY <2>3, DdlStatements
  <2>7. \A i \in 1..v : ViewName(Models[s].root, Models[s].root.arrays[i]) \in ViewNames(s)
    BY <2>4 DEF ViewNames, ToSet
  <2>8. TableNames(s) = {Models[s].tables[i].name : i \in 1..n} \cup {Append(TableName, "registry")}
    BY <2>3, TableNamesAre
  <2> HIDE DEF n, v, s
  <2>9. j \in 1..(n + v + 1)
    BY <2>3, <2>5
  <2>10. CASE j \in 1..n
    BY <1>3, <2>3, <2>5, <2>6, <2>8, <2>10 DEF s
  <2>11. CASE j \in (n + 1)..(n + v)
    <3>1. j - n \in 1..v /\ j = n + (j - n)
      BY <2>4, <2>11
    <3> QED BY <1>3, <2>3, <2>5, <2>6, <2>7, <3>1 DEF s
  <2>12. CASE j = n + v + 1
    BY <1>3, <2>3, <2>5, <2>8, <2>12 DEF Registry, s
  <2> QED BY <2>4, <2>9, <2>10, <2>11, <2>12
<1> QED BY <1>1, <1>2, <1>3

LEMMA LandingFileStatements ==
  ASSUME NEW flags, Runnable(FALSE, flags), NEW i \in 1..Len(flags.files),
         NEW l \in 1..Len(File(flags, i))
  PROVE  LET d == flags.files[i]
             st == File(flags, i)[l]
         IN /\ d \in DocumentsOf(FALSE) /\ IsFunction(Values[d], ToSet(Columns[d.schema]))
            /\ st \in {LandingInsert(TableName, Values[d]), LandingUpsertOf(d)}
<1> DEFINE d == flags.files[i]
           ins == IF Inserts(flags) THEN 1 ELSE 0
           file == File(flags, i)
<1>1. /\ d \in DocumentsOf(FALSE) /\ IsFunction(Values[d], ToSet(Columns[d.schema]))
      /\ Len(file) = ins + (IF Upserts(flags) THEN 1 ELSE 0)
      /\ Inserts(flags) => file[1] = LandingInsert(TableName, Values[d])
      /\ Upserts(flags) => file[ins + 1] = LandingUpsertOf(d)
  BY LandingFileIs
<1>2. l \in 1..Len(file)
  OBVIOUS
<1> HIDE DEF file, d
<1>3. file[l] \in {LandingInsert(TableName, Values[d]), LandingUpsertOf(d)}
  <2>1. CASE Inserts(flags) /\ l = 1
    BY <1>1, <2>1
  <2>2. CASE ~(Inserts(flags) /\ l = 1)
    <3>1. Upserts(flags) /\ l = ins + 1
      BY <1>1, <1>2, <2>2
    <3> QED BY <1>1, <3>1
  <2> QED BY <2>1, <2>2
<1> QED BY <1>1, <1>3 DEF file, d

LEMMA CurrentOp ==
  ASSUME TypedInv, run # Nobody, ~AtEnd
  PROVE  /\ run.flags.model = modelMode /\ modelMode \in BOOLEAN
         /\ InPrelude => Current.op \in {"create", "alter", "drop"}
         /\ ~InPrelude => Current.op \in Dml
<1>1. Runnable(modelMode, run.flags) /\ modelMode \in BOOLEAN
  BY DEF TypedInv, RunInv
<1>2. run.flags.model = modelMode
  BY <1>1, RunnableFlags
<1>3. \/ /\ InPrelude /\ run.prelude + 1 \in 1..DropCount
         /\ Current = DropStatements(run.flags)[run.prelude + 1]
      \/ /\ InPrelude /\ run.prelude + 1 - DropCount \in 1..CreateCount
         /\ Current = CreateAll(run.flags)[run.prelude + 1 - DropCount]
      \/ /\ ~InPrelude /\ run.file \in 1..Len(run.flags.files)
         /\ run.line \in 1..Len(File(run.flags, run.file))
         /\ Current = File(run.flags, run.file)[run.line]
  BY Position
<1>4. \A i \in 1..DropCount : DropStatements(run.flags)[i].op = "drop"
  <2>1. ASSUME NEW i \in 1..DropCount
        PROVE  DropStatements(run.flags)[i].op = "drop"
    <3>1. i \in 1..Len(DropStatements(run.flags))
      BY DEF DropCount
    <3> DEFINE st == DropStatements(run.flags)[i]
    <3>2. st = Drop(st.kind, st.name)
      BY <1>1, <3>1, DropsAre
    <3> HIDE DEF st
    <3>3. st.op = "drop"
      BY <3>2 DEF Drop
    <3> QED BY <3>3 DEF st
  <2> QED BY <2>1
<1>5. \A j \in 1..CreateCount : CreateAll(run.flags)[j].op \in {"create", "alter"}
  <2>1. ASSUME NEW j \in 1..CreateCount
        PROVE  CreateAll(run.flags)[j].op \in {"create", "alter"}
    <3>1. j \in 1..Len(CreateAll(run.flags))
      BY DEF CreateCount
    <3> DEFINE st == CreateAll(run.flags)[j]
    <3>2. \/ st.op = "create"
          \/ st = LandingCreate(TableName, Columns[run.flags.schema])
          \/ st = [op |-> "alter", table |-> TableName, pk |-> <<Pk>>]
      BY <1>1, <3>1, CreatedAre
    <3> HIDE DEF st
    <3>3. st.op \in {"create", "alter"}
      BY <3>2 DEF LandingCreate
    <3> QED BY <3>3 DEF st
  <2> QED BY <2>1
<1>6. ASSUME NEW i \in 1..Len(run.flags.files), NEW l \in 1..Len(File(run.flags, i))
      PROVE  File(run.flags, i)[l].op \in Dml
  <2>1. CASE modelMode
    <3>1. Runnable(TRUE, run.flags)
      BY <1>1, <2>1
    <3> QED BY <3>1, ModelFileStatements DEF Dml, IsWrite, IsDelete
  <2>2. CASE ~modelMode
    <3>1. Runnable(FALSE, run.flags)
      BY <1>1, <2>2
    <3>2. File(run.flags, i)[l] \in {LandingInsert(TableName, Values[run.flags.files[i]]),
                                     LandingUpsertOf(run.flags.files[i])}
      BY <3>1, LandingFileStatements
    <3> QED BY <3>2 DEF Dml, LandingInsert, LandingUpsertOf
  <2> QED BY <2>1, <2>2
<1> QED BY <1>1, <1>2, <1>3, <1>4, <1>5, <1>6

(* Unique names make the relation of a name the one that has it.           *)
LEMMA TheOne ==
  ASSUME UniqueNames, NEW r \in relations
  PROVE  TheRelation(r.name) = r /\ There(r.name)
BY DEF UniqueNames, TheRelation, There, Named

LEMMA ThereIsOne ==
  ASSUME NEW n, There(n)
  PROVE  TheRelation(n) \in relations /\ TheRelation(n).name = n
BY DEF TheRelation, There, Named

LEMMA UseRemoved ==
  ASSUME NEW r, NEW n,
         r = [name |-> r.name, kind |-> r.kind, columns |-> r.columns, uses |-> r.uses, pk |-> r.pk]
  PROVE  LET q == WithoutUse(r, n)
         IN /\ q = [name |-> q.name, kind |-> q.kind, columns |-> q.columns,
                    uses |-> q.uses, pk |-> q.pk]
            /\ q.name = r.name /\ q.kind = r.kind /\ q.columns = r.columns
            /\ q.uses = r.uses \ {n} /\ q.pk = r.pk
<1> DEFINE q == WithoutUse(r, n)
<1>1. q = [name |-> r.name, kind |-> r.kind, columns |-> r.columns,
           uses |-> r.uses \ {n}, pk |-> r.pk]
  BY DEF WithoutUse
<1> HIDE DEF q
<1>2. /\ q = [name |-> q.name, kind |-> q.kind, columns |-> q.columns,
              uses |-> q.uses, pk |-> q.pk]
      /\ q.name = r.name /\ q.kind = r.kind /\ q.columns = r.columns
      /\ q.uses = r.uses \ {n} /\ q.pk = r.pk
  BY <1>1
<1> QED BY <1>2 DEF q

LEMMA DropKeepsTypes ==
  ASSUME DatabaseInv, NEW st, st.op = "drop", Does(st), UNCHANGED modelMode
  PROVE  DatabaseInv'
<1> USE DEF DatabaseInv
<1>1. \/ (\A r \in relations : r.name # st.name) /\ UNCHANGED <<relations, rows>>
      \/ /\ \A r \in relations : r.name = st.name => r.kind = st.kind
         /\ relations' = {WithoutUse(r, st.name) :
                            r \in {q \in relations : ~GoesWith(q, st.name)}}
         /\ rows' = {WithoutParent(r, st.name) : r \in {q \in rows : q.table # st.name}}
  BY Dropping
<1>2. CASE UNCHANGED <<relations, rows>>
  BY <1>2 DEF RelationInv, UniqueNames, RowsTyped
<1>3. CASE /\ relations' = {WithoutUse(r, st.name) :
                              r \in {q \in relations : ~GoesWith(q, st.name)}}
           /\ rows' = {WithoutParent(r, st.name) : r \in {q \in rows : q.table # st.name}}
  <2>1. ASSUME NEW r \in relations
        PROVE  LET q == WithoutUse(r, st.name)
               IN /\ q = [name |-> q.name, kind |-> q.kind, columns |-> q.columns,
                          uses |-> q.uses, pk |-> q.pk]
                  /\ q.name = r.name /\ q.kind = r.kind /\ q.columns = r.columns
                  /\ q.uses = r.uses \ {st.name} /\ q.pk = r.pk
    <3>1. r = [name |-> r.name, kind |-> r.kind, columns |-> r.columns, uses |-> r.uses, pk |-> r.pk]
      BY DEF RelationInv
    <3> QED BY <3>1, UseRemoved
  <2>2. \A q \in relations' : \E r \in relations :
          /\ q = [name |-> q.name, kind |-> q.kind, columns |-> q.columns, uses |-> q.uses, pk |-> q.pk]
          /\ q.name = r.name /\ q.kind = r.kind /\ q.columns = r.columns
          /\ q.uses = r.uses \ {st.name} /\ q.pk = r.pk
          /\ (r.kind = "view" => st.name \notin r.uses) /\ q = WithoutUse(r, st.name)
    <3>1. ASSUME NEW q \in relations'
          PROVE  \E r \in relations : ~GoesWith(r, st.name) /\ q = WithoutUse(r, st.name)
      BY <1>3
    <3>2. ASSUME NEW q \in relations', NEW r \in relations, ~GoesWith(r, st.name),
                 q = WithoutUse(r, st.name)
          PROVE  /\ q = [name |-> q.name, kind |-> q.kind, columns |-> q.columns,
                         uses |-> q.uses, pk |-> q.pk]
                 /\ q.name = r.name /\ q.kind = r.kind /\ q.columns = r.columns
                 /\ q.uses = r.uses \ {st.name} /\ q.pk = r.pk
                 /\ (r.kind = "view" => st.name \notin r.uses)
      BY <2>1, <3>2 DEF GoesWith
    <3> QED BY <3>1, <3>2
  <2>3. RelationInv'
    <3>1. ASSUME NEW q \in relations', NEW r \in relations,
                 q.name = r.name, q.kind = r.kind, q.uses = r.uses \ {st.name}, q.pk = r.pk,
                 r.kind = "view" => st.name \notin r.uses
          PROVE  IF modelMode
                   THEN \/ q.kind = "table" /\ \E s \in Planned : q.name \in TableNames(s)
                        \/ /\ q.kind = "view" /\ TableName \in q.uses
                           /\ \E s \in Planned : q.name \in ViewNames(s)
                   ELSE q.kind = "table" /\ q.name = TableName /\ q.pk \in {<<>>, <<Pk>>}
      BY <3>1 DEF RelationInv
    <3> QED BY <2>2, <3>1 DEF RelationInv
  <2>8. UniqueNames'
    <3>1. \A q1 \in relations', q2 \in relations' : q1.name = q2.name => q1 = q2
      BY <2>2 DEF UniqueNames
    <3> QED BY <3>1 DEF UniqueNames
  <2>4. ASSUME NEW q \in rows, q.table # st.name
        PROVE  LET r == WithoutParent(q, st.name)
               IN IsRow(r) /\ r.at = q.at /\ r.table = q.table /\ r.vals = q.vals
    BY <2>4 DEF WithoutParent, RowsTyped, IsRow
  <2>5. ASSUME NEW q \in rows, q.table # st.name
        PROVE  \E table \in relations' :
                 /\ table.name = q.table /\ table.kind = "table"
                 /\ DOMAIN q.vals \subseteq ToSet(table.columns)
    <3>1. PICK table \in relations : /\ table.name = q.table /\ table.kind = "table"
                                     /\ DOMAIN q.vals \subseteq ToSet(table.columns)
      BY DEF RowsTyped
    <3>2. ~GoesWith(table, st.name)
      BY <2>5, <3>1 DEF GoesWith
    <3>3. WithoutUse(table, st.name) \in relations'
      BY <1>3, <3>1, <3>2
    <3>4. LET q2 == WithoutUse(table, st.name)
          IN q2.name = table.name /\ q2.kind = table.kind /\ q2.columns = table.columns
      BY <2>1
    <3> QED BY <3>1, <3>3, <3>4
  <2>6. RowsTyped'
    <3>1. ASSUME NEW r \in rows'
          PROVE  /\ IsRow(r) /\ r.at # <<Nil>>
                 /\ \E table \in relations' :
                      /\ table.name = r.table /\ table.kind = "table"
                      /\ DOMAIN r.vals \subseteq ToSet(table.columns)
      <4>1. PICK q \in rows : q.table # st.name /\ r = WithoutParent(q, st.name)
        BY <1>3
      <4> QED BY <2>4, <2>5, <4>1 DEF RowsTyped
    <3> QED BY <3>1 DEF RowsTyped
  <2> QED BY <2>3, <2>6, <2>8
<1> QED BY <1>1, <1>2, <1>3

LEMMA CreateKeepsTypes ==
  ASSUME DatabaseInv, NEW st, st.op = "create", Does(st), UNCHANGED modelMode,
         IF modelMode
           THEN \/ st.kind = "table" /\ \E s \in Planned : st.name \in TableNames(s)
                \/ st.kind = "view" /\ TableName \in st.uses /\ \E s \in Planned : st.name \in ViewNames(s)
           ELSE st.kind = "table" /\ st.name = TableName
  PROVE  DatabaseInv'
<1>1. /\ ~There(st.name) /\ relations' = relations \cup {NewRelation(st)} /\ rows' = rows
  BY Creating DEF Does
<1>2. \A r \in relations : r.name # st.name
  BY <1>1 DEF There, Named
<1> DEFINE new == NewRelation(st)
<1>3. /\ new = [name |-> new.name, kind |-> new.kind, columns |-> new.columns,
                uses |-> new.uses, pk |-> new.pk]
      /\ new.name = st.name /\ new.kind = st.kind /\ new.uses = st.uses /\ new.pk = <<>>
  BY DEF NewRelation
<1> HIDE DEF new
<1>4. relations' = relations \cup {new}
  BY <1>1 DEF new
<1>5. RelationInv'
  BY <1>3, <1>4 DEF DatabaseInv, RelationInv
<1>6. UniqueNames'
  BY <1>2, <1>3, <1>4 DEF DatabaseInv, UniqueNames
<1>7. RowsTyped'
  BY <1>1, <1>4 DEF DatabaseInv, RowsTyped
<1> QED BY <1>5, <1>6, <1>7 DEF DatabaseInv

LEMMA AlterKeepsTypes ==
  ASSUME DatabaseInv, ~modelMode, Does([op |-> "alter", table |-> TableName, pk |-> <<Pk>>]),
         UNCHANGED modelMode
  PROVE  DatabaseInv'
<1> DEFINE st == [op |-> "alter", table |-> TableName, pk |-> <<Pk>>]
           table == TheRelation(TableName)
           new == [table EXCEPT !.pk = <<Pk>>]
<1>1. /\ There(TableName) /\ relations' = (relations \ {table}) \cup {new} /\ rows' = rows
  <2>1. st.op = "alter" /\ st.table = TableName /\ st.pk = <<Pk>>
    OBVIOUS
  <2> HIDE DEF st
  <2>2. /\ ExecStatement(run.flags, st).ok <=>
             /\ There(st.table) /\ TheRelation(st.table).pk = <<>>
             /\ ToSet(st.pk) \subseteq ToSet(TheRelation(st.table).columns)
        /\ Does(st) =>
             /\ relations' = (relations \ {TheRelation(st.table)})
                               \cup {[TheRelation(st.table) EXCEPT !.pk = st.pk]}
             /\ rows' = rows
    BY <2>1, Altering
  <2>3. Does(st) /\ ExecStatement(run.flags, st).ok
    BY DEF st, Does
  <2> QED BY <2>1, <2>2, <2>3
<1>2. table \in relations /\ table.name = TableName
  BY <1>1, ThereIsOne
<1> HIDE DEF table
<1>3. new = [name |-> table.name, kind |-> table.kind, columns |-> table.columns,
             uses |-> table.uses, pk |-> <<Pk>>]
  BY <1>2 DEF DatabaseInv, RelationInv
<1> HIDE DEF new
<1>4. RelationInv'
  BY <1>1, <1>2, <1>3 DEF DatabaseInv, RelationInv
<1>5. UniqueNames'
  BY <1>1, <1>2, <1>3 DEF DatabaseInv, UniqueNames
<1>6. RowsTyped'
  BY <1>1, <1>2, <1>3 DEF DatabaseInv, RowsTyped
<1> QED BY <1>4, <1>5, <1>6 DEF DatabaseInv

(* A row is written to a table that has its columns.                       *)
LEMMA WriteTarget ==
  ASSUME NamesApart, SchemasInstall, DatabaseInv, modelMode,
         RunSchema \in Planned, NEW st, IsWrite(st, RunSchema),
         There(Target(st)),
         NamedColumns(Models[RunSchema], st) \subseteq ToSet(TheRelation(Target(st)).columns)
  PROVE  /\ TheRelation(st.row.table) \in relations
         /\ TheRelation(st.row.table).name = st.row.table
         /\ TheRelation(st.row.table).kind = "table"
         /\ DOMAIN st.row.vals \subseteq ToSet(TheRelation(st.row.table).columns)
         /\ LET ref == Referring(st)
            IN /\ ref.op = st.op /\ IsRow(ref.row)
               /\ ref.row.table = st.row.table /\ ref.row.at = st.row.at
               /\ ref.row.vals = st.row.vals
               /\ ref.row = st.row \/ ref.row = [st.row EXCEPT !.parent = <<>>]
<1> DEFINE row == st.row
<1>1. Target(st) = row.table /\ st.op # "delete"
  BY DEF Target, IsWrite
<1>2. /\ TheRelation(row.table) \in relations /\ TheRelation(row.table).name = row.table
  BY <1>1, ThereIsOne
<1>3. /\ IsRow(row) /\ row.table \in TableNames(RunSchema)
      /\ DOMAIN row.vals \subseteq NamedColumns(Models[RunSchema], st)
  BY <1>1, RowsAreOfTables DEF IsWrite
<1>4. TheRelation(row.table).kind = "table"
  <2> DEFINE r == TheRelation(row.table)
  <2>1. r.kind # "table" => r.kind = "view" /\ \E s \in Planned : r.name \in ViewNames(s)
    BY <1>2 DEF DatabaseInv, RelationInv
  <2> HIDE DEF r
  <2>2. r.name \in TableNames(RunSchema)
    BY <1>2, <1>3 DEF r
  <2> QED BY <2>1, <2>2 DEF NamesApart, r
<1>5. DOMAIN row.vals \subseteq ToSet(TheRelation(row.table).columns)
  BY <1>1, <1>3
<1>6. LET ref == Referring(st)
      IN /\ ref.op = st.op /\ IsRow(ref.row)
         /\ ref.row.table = row.table /\ ref.row.at = row.at
         /\ ref.row.vals = row.vals
         /\ ref.row = row \/ ref.row = [row EXCEPT !.parent = <<>>]
  <2>1. CASE Referring(st) = st
    BY <1>3, <2>1
  <2>2. CASE Referring(st) = [st EXCEPT !.row.parent = <<>>]
    <3>1. st = [op |-> st.op, row |-> st.row]
      BY DEF IsWrite
    <3>2. Referring(st) = [op |-> st.op, row |-> [st.row EXCEPT !.parent = <<>>]]
      BY <2>2, <3>1
    <3>3. row = [table |-> row.table, parent |-> row.parent, at |-> row.at, vals |-> row.vals]
      BY <1>3 DEF IsRow
    <3> HIDE DEF row
    <3>4. [row EXCEPT !.parent = <<>>] =
            [table |-> row.table, parent |-> <<>>, at |-> row.at, vals |-> row.vals]
      BY <3>3
    <3> QED BY <3>2, <3>4 DEF row, IsRow
  <2> QED BY <1>1, <2>1, <2>2 DEF Referring
<1> QED BY <1>2, <1>4, <1>5, <1>6

LEMMA ModelDmlKeepsTypes ==
  ASSUME NamesApart, SchemasInstall, DatabaseInv, modelMode, run.flags.model,
         UNCHANGED modelMode, RunSchema \in Planned,
         NEW st, IsWrite(st, RunSchema) \/ IsDelete(st, RunSchema), Does(st)
  PROVE  DatabaseInv'
<1> DEFINE ref == Referring(st)
           model == Models[RunSchema]
<1>1. /\ There(Target(st)) /\ NamedColumns(model, st) \subseteq ToSet(TheRelation(Target(st)).columns)
      /\ relations' = relations /\ rows' = Exec(rows, ref).db
  <2>1. st.op \in Dml
    BY DEF Dml, IsWrite, IsDelete
  <2> QED BY <2>1, ModelDml DEF RunSchema
<1>2. RelationInv' /\ UniqueNames'
  BY <1>1 DEF DatabaseInv, RelationInv, UniqueNames
<1> DEFINE Fits(r) == /\ IsRow(r) /\ r.at # <<Nil>>
                      /\ \E table \in relations :
                           /\ table.name = r.table /\ table.kind = "table"
                           /\ DOMAIN r.vals \subseteq ToSet(table.columns)
<1>3. \A r \in rows : Fits(r)
  BY DEF DatabaseInv, RowsTyped
<1>4. CASE IsDelete(st, RunSchema)
  <2>1. rows' \subseteq rows
    <3>1. st.op = "delete" /\ ref = st
      BY <1>4 DEF IsDelete, Referring
    <3> QED BY <1>1, <3>1 DEF Exec, ExecDelete
  <2> QED BY <1>1, <1>2, <1>3, <2>1 DEF DatabaseInv, RowsTyped
<1>5. CASE IsWrite(st, RunSchema)
  <2>1. /\ TheRelation(st.row.table) \in relations
        /\ TheRelation(st.row.table).name = st.row.table
        /\ TheRelation(st.row.table).kind = "table"
        /\ DOMAIN st.row.vals \subseteq ToSet(TheRelation(st.row.table).columns)
        /\ ref.op = st.op /\ IsRow(ref.row)
        /\ ref.row.table = st.row.table /\ ref.row.at = st.row.at
        /\ ref.row.vals = st.row.vals
    BY <1>1, <1>5, WriteTarget
  <2>2. Fits(ref.row)
    BY <1>5, <2>1 DEF IsWrite
  <2> HIDE DEF ref
  <2>3. CASE st.op = "insert"
    <3>1. rows' = rows \cup {ref.row}
      BY <1>1, <2>1, <2>3 DEF Exec, ExecInsert
    <3> QED BY <1>1, <1>2, <1>3, <2>2, <3>1 DEF DatabaseInv, RowsTyped
  <2>4. CASE st.op = "upsert"
    <3> DEFINE old == {r \in rows : Same(r, ref.row)}
    <3>1. rows' = (rows \ old) \cup (IF old = {} THEN {ref.row} ELSE {Merged(r, ref.row) : r \in old})
      BY <1>1, <2>1, <2>4 DEF Exec, ExecUpsert
    <3>2. ASSUME NEW r \in old
          PROVE  Fits(Merged(r, ref.row))
      <4> DEFINE new == Merged(r, ref.row)
                 row == ref.row
      <4>1. row = [table |-> row.table, parent |-> row.parent, at |-> row.at, vals |-> row.vals]
        BY <2>1 DEF IsRow
      <4> HIDE DEF row
      <4> DEFINE vals == [c \in (DOMAIN row.vals \ {Header}) \cup (DOMAIN r.vals \cap {Header}) |->
                            IF c = Header THEN r.vals[c] ELSE row.vals[c]]
      <4>2. new = [table |-> row.table, parent |-> row.parent, at |-> row.at, vals |-> vals]
        BY <4>1 DEF Merged, row
      <4>3. DOMAIN vals \subseteq DOMAIN row.vals \cup DOMAIN r.vals
        OBVIOUS
      <4>4. Fits(r) /\ r.table = row.table
        BY <1>3 DEF Same, row
      <4>5. Fits(row)
        BY <2>2 DEF row
      <4> HIDE DEF vals, new
      <4>6. IsRow(new) /\ new.at = row.at /\ new.table = row.table /\ new.vals = vals
        BY <4>2 DEF IsRow
      <4>7. \E table \in relations :
              /\ table.name = row.table /\ table.kind = "table"
              /\ DOMAIN vals \subseteq ToSet(table.columns)
        BY <4>3, <4>4, <4>5 DEF DatabaseInv, UniqueNames
      <4>8. Fits(new)
        BY <4>5, <4>6, <4>7
      <4> QED BY <4>8 DEF new
    <3> HIDE DEF Fits
    <3>3. \A r \in rows' : Fits(r)
      BY <1>3, <2>2, <3>1, <3>2
    <3> QED BY <1>1, <1>2, <3>3 DEF DatabaseInv, RowsTyped, Fits
  <2> QED BY <1>5, <2>3, <2>4 DEF IsWrite
<1> QED BY <1>4, <1>5

LandingRowAt(at, vals) == [table |-> TableName, parent |-> <<>>, at |-> at, vals |-> vals]

LandingUpdated(r, d) ==
  LET set == SetList(Columns[d.schema], Pk)
  IN [r EXCEPT !.vals =
        [c \in DOMAIN @ \cup set |-> IF c \in set THEN Values[d][c] ELSE @[c]]]

LandingNotNull(pk, at) == pk = <<>> \/ Nil \notin ToSet(at)

LEMMA LandingExecuted ==
  ASSUME NEW d, NEW pk
  PROVE  LET at == RowAt(pk, rows, Values[d])
             old == {r \in rows : r.at = at}
             ins == LandingExec(pk, rows, LandingInsert(TableName, Values[d]))
             ups == LandingExec(pk, rows, LandingUpsertOf(d))
         IN /\ ins.db = rows \cup {LandingRowAt(at, Values[d])}
            /\ ins.ok <=> LandingNotNull(pk, at) /\ old = {}
            /\ ups.db = IF old = {} THEN rows \cup {LandingRowAt(at, Values[d])}
                        ELSE (rows \ old) \cup {LandingUpdated(r, d) : r \in old}
            /\ ups.ok <=> LandingNotNull(pk, at) /\ pk = <<Pk>>
<1> DEFINE at == RowAt(pk, rows, Values[d])
           old == {r \in rows : r.at = at}
           ins == LandingInsert(TableName, Values[d])
           ups == LandingUpsertOf(d)
           set == SetList(Columns[d.schema], Pk)
           row == LandingRowAt(at, Values[d])
           notNull == LandingNotNull(pk, at)
<1>1. /\ ins.op = "insert" /\ ins.table = TableName /\ ins.vals = Values[d]
      /\ ups.op = "upsert" /\ ups.table = TableName /\ ups.vals = Values[d]
      /\ ups.conflict = Pk /\ ups.set = set
  BY DEF LandingInsert, LandingUpsertOf
<1> HIDE DEF ins, ups
<1> DEFINE with == rows \cup {row}
           ok1 == notNull /\ old = {}
           db2 == IF old = {} THEN rows \cup {row}
                  ELSE (rows \ old) \cup {LandingUpdated(r, d) : r \in old}
           ok2 == notNull /\ pk = <<Pk>>
<1>2. LandingExec(pk, rows, ins) = [db |-> with, ok |-> ok1]
  BY <1>1 DEF LandingExec, LandingNotNull, LandingRowAt
<1>3. LandingExec(pk, rows, ups) = [db |-> db2, ok |-> ok2]
  BY <1>1 DEF LandingExec, LandingNotNull, LandingRowAt, LandingUpdated
<1> HIDE DEF with, ok1, db2, ok2
<1>4. LandingExec(pk, rows, ins).db = with /\ LandingExec(pk, rows, ins).ok = ok1
  BY <1>2
<1>5. LandingExec(pk, rows, ups).db = db2 /\ LandingExec(pk, rows, ups).ok = ok2
  BY <1>3
<1> QED BY <1>4, <1>5 DEF ins, ups, with, ok1, db2, ok2

LEMMA LandingDmlKeepsTypes ==
  ASSUME DatabaseInv, ~modelMode, ~run.flags.model, UNCHANGED modelMode,
         NEW d, IsFunction(Values[d], ToSet(Columns[d.schema])),
         NEW st \in {LandingInsert(TableName, Values[d]), LandingUpsertOf(d)}, Does(st)
  PROVE  DatabaseInv'
<1> DEFINE table == TheRelation(TableName)
           at == RowAt(table.pk, rows, Values[d])
           old == {r \in rows : r.at = at}
           row == LandingRowAt(at, Values[d])
           result == LandingExec(table.pk, rows, st)
<1>1. /\ There(TableName) /\ DOMAIN Values[d] \subseteq ToSet(table.columns)
      /\ result.ok /\ relations' = relations /\ rows' = result.db
  <2>1. st.op \in Dml /\ st.table = TableName /\ st.vals = Values[d]
    BY DEF Dml, LandingInsert, LandingUpsertOf
  <2>2. /\ There(st.table) /\ DOMAIN st.vals \subseteq ToSet(TheRelation(st.table).columns)
        /\ LandingExec(TheRelation(st.table).pk, rows, st).ok
        /\ relations' = relations
        /\ rows' = LandingExec(TheRelation(st.table).pk, rows, st).db
    BY <2>1, LandingDml
  <2> QED BY <2>1, <2>2
<1>2. /\ table \in relations /\ table.name = TableName /\ table.kind = "table"
      /\ table.pk \in {<<>>, <<Pk>>}
  BY <1>1, ThereIsOne DEF DatabaseInv, RelationInv
<1>3. RelationInv' /\ UniqueNames'
  BY <1>1 DEF DatabaseInv, RelationInv, UniqueNames
<1>4. /\ LandingNotNull(table.pk, at)
      /\ \/ rows' = rows \cup {row}
         \/ rows' = (rows \ old) \cup {LandingUpdated(r, d) : r \in old}
  BY <1>1, LandingExecuted
<1>5. at # <<Nil>>
  <2>1. CASE table.pk = <<>>
    <3>1. at = <<[arrival |-> Cardinality(rows) + 1]>>
      BY <2>1 DEF RowAt
    <3>2. [arrival |-> Cardinality(rows) + 1] # Nil
      <4>1. "arrival" \in DOMAIN [arrival |-> Cardinality(rows) + 1] /\ "arrival" \notin DOMAIN Nil
        BY DEF Nil
      <4> QED BY <4>1
    <3> DEFINE x == [arrival |-> Cardinality(rows) + 1]
    <3>3. at = <<x>> /\ x # Nil
      BY <3>1, <3>2
    <3> HIDE DEF x, at
    <3> QED BY <3>3
  <2>2. CASE table.pk = <<Pk>>
    <3>1. Nil \notin ToSet(at)
      BY <1>4, <2>2 DEF LandingNotNull
    <3>2. Nil \in ToSet(<<Nil>>)
      BY Single
    <3> QED BY <3>1, <3>2
  <2> QED BY <1>2, <2>1, <2>2
<1> HIDE DEF at, table
<1> DEFINE Fits(r) == IsRow(r) /\ r.at # <<Nil>> /\ r.table = TableName
                      /\ DOMAIN r.vals \subseteq ToSet(table.columns)
<1>6. \A r \in rows : Fits(r)
  <2>1. ASSUME NEW r \in rows PROVE Fits(r)
    <3>1. PICK t \in relations : t.name = r.table /\ DOMAIN r.vals \subseteq ToSet(t.columns)
      BY DEF DatabaseInv, RowsTyped
    <3>2. t = table
      BY <1>2, <3>1 DEF DatabaseInv, RelationInv, UniqueNames
    <3> QED BY <1>2, <3>1, <3>2 DEF DatabaseInv, RowsTyped
  <2> QED BY <2>1
<1>7. Fits(row)
  BY <1>1, <1>5 DEF LandingRowAt, IsRow
<1>8. ASSUME NEW r \in rows
      PROVE  Fits(LandingUpdated(r, d))
  <2> DEFINE set == SetList(Columns[d.schema], Pk)
             vals == [c \in DOMAIN r.vals \cup set |-> IF c \in set THEN Values[d][c] ELSE r.vals[c]]
             new == LandingUpdated(r, d)
  <2>1. Fits(r) /\ r = [table |-> r.table, parent |-> r.parent, at |-> r.at, vals |-> r.vals]
    BY <1>6 DEF IsRow
  <2>2. new = [table |-> r.table, parent |-> r.parent, at |-> r.at, vals |-> vals]
    BY <2>1 DEF LandingUpdated
  <2>3. set \subseteq DOMAIN Values[d]
    BY DEF SetList, IsFunction
  <2>4. DOMAIN vals \subseteq ToSet(table.columns)
    BY <1>1, <2>1, <2>3
  <2> HIDE DEF vals, new
  <2>5. IsRow(new) /\ new.at = r.at /\ new.table = r.table /\ new.vals = vals
    BY <2>2 DEF IsRow
  <2>6. Fits(new)
    BY <2>1, <2>4, <2>5
  <2> QED BY <2>6 DEF new
<1> HIDE DEF Fits, row
<1>9. \A r \in rows' : Fits(r)
  BY <1>4, <1>6, <1>7, <1>8
<1>10. RowsTyped'
  BY <1>1, <1>2, <1>9 DEF RowsTyped, Fits
<1> QED BY <1>3, <1>10 DEF DatabaseInv

LEMMA FilesAreNotEmpty ==
  ASSUME NEW m, NEW flags, Runnable(m, flags), NEW i \in 1..Len(flags.files)
  PROVE  Len(File(flags, i)) \in Nat \ {0}
<1>1. m \in BOOLEAN
  BY DEF Runnable
<1>2. CASE m = TRUE
  <2>1. ModelFileShape(flags, i)
    BY <1>2, ModelFileIs
  <2> DEFINE n == RowCount(Renderings[flags.files[i]])
             nd == Len(Renderings[flags.files[i]].deletes)
             ins == InsertCount(flags, i)
  <2>2. /\ n \in Nat \ {0} /\ nd \in Nat /\ (Inserts(flags) \/ Upserts(flags))
        /\ Len(File(flags, i)) = ins + (IF Upserts(flags) THEN nd + n ELSE 0)
    BY <2>1 DEF ModelFileShape
  <2>3. ins = IF Inserts(flags) THEN n ELSE 0
    BY DEF InsertCount
  <2> HIDE DEF n, nd, ins
  <2> QED BY <2>2, <2>3
<1>3. CASE m = FALSE
  <2> DEFINE ins == IF Inserts(flags) THEN 1 ELSE 0
  <2>1. /\ Inserts(flags) \/ Upserts(flags)
        /\ Len(File(flags, i)) = ins + (IF Upserts(flags) THEN 1 ELSE 0)
    BY <1>3, LandingFileIs
  <2> QED BY <2>1
<1> QED BY <1>1, <1>2, <1>3

LEMMA AdvancedPosition ==
  ASSUME TypedInv, run # Nobody, ~AtEnd, run' = Advanced, UNCHANGED <<modelMode, used>>
  PROVE  RunInv'
<1> DEFINE flags == run.flags
           n == Len(flags.files)
           p == Len(Prelude(flags))
<1>1. /\ run = [flags |-> run.flags, prelude |-> run.prelude, file |-> run.file, line |-> run.line]
      /\ Runnable(modelMode, flags) /\ flags.schema \in used
      /\ run.prelude \in 0..p /\ run.file \in 1..(n + 1)
      /\ InPrelude => run.file = 1
      /\ InPrelude \/ run.file > n => run.line = 1
      /\ run.file <= n => run.line \in 1..Len(File(flags, run.file))
  BY DEF TypedInv, RunInv, RunSchema
<1>2. n \in Nat /\ p \in Nat
  <2>1. IsSequence(flags.files)
    BY <1>1, RunnableFlags
  <2>2. IsSequence(Prelude(flags))
    BY <1>1, PreludeIs
  <2> QED BY <2>1, <2>2, SequenceFacts
<1>3. \A i \in 1..n : Len(File(flags, i)) \in Nat \ {0}
  BY <1>1, FilesAreNotEmpty
<1>4. InPrelude <=> run.prelude < p
  BY DEF InPrelude
<1> DEFINE Placed(r) == /\ r.file = 1 \/ ~(r.prelude < p)
                        /\ r.prelude \in 0..p /\ r.file \in 1..(n + 1)
                        /\ r.prelude < p \/ r.file > n => r.line = 1
                        /\ r.file <= n => r.line \in 1..Len(File(flags, r.file))
<1>5. run' = [flags |-> flags, prelude |-> run'.prelude, file |-> run'.file, line |-> run'.line]
      /\ Placed(run')
  <2>1. CASE InPrelude
    <3>1. run' = [flags |-> flags, prelude |-> run.prelude + 1, file |-> run.file, line |-> run.line]
      BY <1>1, <2>1 DEF Advanced
    <3>2. run.prelude + 1 \in 0..p /\ run.file = 1 /\ run.line = 1
      BY <1>1, <1>2, <1>4, <2>1
    <3> HIDE DEF p, n, flags
    <3>3. /\ run'.prelude = run.prelude + 1 /\ run'.file = 1 /\ run'.line = 1
          /\ run' = [flags |-> flags, prelude |-> run'.prelude, file |-> run'.file, line |-> run'.line]
      BY <3>1, <3>2
    <3>4. 1 <= n => 1 \in 1..Len(File(flags, 1))
      BY <1>2, <1>3
    <3>5. 1 \in 1..(n + 1)
      BY <1>2
    <3> QED BY <3>2, <3>3, <3>4, <3>5
  <2>2. CASE ~InPrelude /\ run.line < Len(File(flags, run.file))
    <3>1. run' = [flags |-> flags, prelude |-> run.prelude, file |-> run.file, line |-> run.line + 1]
      BY <1>1, <2>2 DEF Advanced
    <3>2. run.file <= n /\ ~(run.file > n)
      BY <1>1, <1>2, <2>2 DEF AtEnd
    <3> HIDE DEF p, n, flags
    <3>3. /\ run'.prelude = run.prelude /\ run'.file = run.file /\ run'.line = run.line + 1
          /\ run' = [flags |-> flags, prelude |-> run'.prelude, file |-> run'.file, line |-> run'.line]
      BY <3>1
    <3>4. run.line + 1 \in 1..Len(File(flags, run.file))
      BY <1>1, <1>2, <1>3, <2>2, <3>2
    <3> QED BY <1>1, <1>4, <2>2, <3>2, <3>3, <3>4
  <2>3. CASE ~InPrelude /\ ~(run.line < Len(File(flags, run.file)))
    <3>1. run' = [flags |-> flags, prelude |-> run.prelude, file |-> run.file + 1, line |-> 1]
      BY <1>1, <2>3 DEF Advanced
    <3>2. run.file <= n
      BY <1>1, <1>2, <2>3 DEF AtEnd
    <3> HIDE DEF p, n, flags
    <3>3. /\ run'.prelude = run.prelude /\ run'.file = run.file + 1 /\ run'.line = 1
          /\ run' = [flags |-> flags, prelude |-> run'.prelude, file |-> run'.file, line |-> run'.line]
      BY <3>1
    <3>4. /\ run.file + 1 \in 1..(n + 1)
          /\ run.file + 1 <= n => 1 \in 1..Len(File(flags, run.file + 1))
      BY <1>1, <1>2, <1>3, <3>2
    <3> QED BY <1>1, <1>4, <2>3, <3>3, <3>4
  <2> QED BY <2>1, <2>2, <2>3
<1>6. run'.flags = flags
  BY <1>5
<1>7. InPrelude' <=> run'.prelude < p
  BY <1>6 DEF InPrelude
<1> HIDE DEF p, n, flags
<1>8. /\ InPrelude' => run'.file = 1
      /\ InPrelude' \/ run'.file > n => run'.line = 1
  BY <1>5, <1>7
<1> QED BY <1>1, <1>5, <1>6, <1>8 DEF RunInv, RunSchema, p, n, flags

(* Whatever statement of a run is executed.                                *)
LEMMA DoingKeepsTypes ==
  ASSUME NamesApart, SchemasInstall, TypedInv, run # Nobody, ~AtEnd, Does(Current),
         UNCHANGED modelMode
  PROVE  DatabaseInv'
<1>1. Runnable(modelMode, run.flags) /\ modelMode \in BOOLEAN /\ DatabaseInv
  BY DEF TypedInv, RunInv
<1>2. run.flags.model = modelMode /\ RunSchema \in Usable(modelMode)
  BY <1>1, RunnableFlags DEF RunSchema
<1> DEFINE st == Current
           i == run.prelude + 1
           j == run.prelude + 1 - DropCount
<1>3. \/ i \in 1..DropCount /\ st = DropStatements(run.flags)[i]
      \/ j \in 1..CreateCount /\ st = CreateAll(run.flags)[j]
      \/ /\ run.file \in 1..Len(run.flags.files) /\ run.line \in 1..Len(File(run.flags, run.file))
         /\ st = File(run.flags, run.file)[run.line]
  BY Position
<1> HIDE DEF st, i, j
<1>4. CASE i \in 1..DropCount /\ st = DropStatements(run.flags)[i]
  <2>1. st = Drop(st.kind, st.name)
    BY <1>1, <1>4, DropsAre DEF DropCount
  <2>2. st.op = "drop"
    BY <2>1 DEF Drop
  <2> QED BY <1>1, <2>2, DropKeepsTypes DEF st
<1>5. CASE j \in 1..CreateCount /\ st = CreateAll(run.flags)[j]
  <2>1. \/ /\ st.op = "create" /\ modelMode
           /\ \/ st.kind = "table" /\ st.name \in TableNames(RunSchema)
              \/ /\ st.kind = "view" /\ TableName \in st.uses
                 /\ st.name \in ViewNames(RunSchema)
        \/ ~modelMode /\ st = LandingCreate(TableName, Columns[RunSchema])
        \/ ~modelMode /\ st = [op |-> "alter", table |-> TableName, pk |-> <<Pk>>]
    BY <1>1, <1>5, CreatedAre DEF CreateCount, RunSchema
  <2>2. CASE st.op = "create" /\ modelMode
    <3>1. RunSchema \in Planned
      BY <1>2, <2>2 DEF Usable
    <3>2. \/ st.kind = "table" /\ \E s \in Planned : st.name \in TableNames(s)
          \/ /\ st.kind = "view" /\ TableName \in st.uses
             /\ \E s \in Planned : st.name \in ViewNames(s)
      <4>1. st.op # "alter"
        BY <2>2
      <4>2. modelMode
        BY <2>2
      <4> QED BY <2>1, <3>1, <4>2
    <3> QED BY <1>1, <2>2, <3>2, CreateKeepsTypes DEF st
  <2>3. CASE ~modelMode /\ st = LandingCreate(TableName, Columns[RunSchema])
    <3>1. st.op = "create" /\ st.kind = "table" /\ st.name = TableName
      BY <2>3 DEF LandingCreate
    <3> QED BY <1>1, <2>3, <3>1, CreateKeepsTypes DEF st
  <2>4. CASE ~modelMode /\ st = [op |-> "alter", table |-> TableName, pk |-> <<Pk>>]
    BY <1>1, <2>4, AlterKeepsTypes DEF st
  <2> QED BY <2>1, <2>2, <2>3, <2>4
<1>6. CASE /\ run.file \in 1..Len(run.flags.files) /\ run.line \in 1..Len(File(run.flags, run.file))
           /\ st = File(run.flags, run.file)[run.line]
  <2>1. CASE modelMode = TRUE
    <3>1. Runnable(TRUE, run.flags)
      BY <1>1, <2>1
    <3>2. IsWrite(st, RunSchema) \/ IsDelete(st, RunSchema)
      BY <1>6, <3>1, ModelFileStatements DEF RunSchema
    <3> QED BY <1>1, <1>2, <2>1, <3>2, ModelDmlKeepsTypes DEF st, Usable
  <2>2. CASE modelMode = FALSE
    <3>1. /\ IsFunction(Values[run.flags.files[run.file]],
                        ToSet(Columns[run.flags.files[run.file].schema]))
          /\ st \in {LandingInsert(TableName, Values[run.flags.files[run.file]]),
                     LandingUpsertOf(run.flags.files[run.file])}
      BY <1>1, <1>6, <2>2, LandingFileStatements
    <3> QED BY <1>1, <1>2, <2>2, <3>1, LandingDmlKeepsTypes DEF st
  <2> QED BY <1>1, <2>1, <2>2
<1> QED BY <1>3, <1>4, <1>5, <1>6

(* A run begins, and every step keeps the types.                           *)
LEMMA StartPosition ==
  ASSUME TypedInv, NEW flags \in Flags(modelMode), Start(flags)
  PROVE  TypedInv'
<1>1. DatabaseInv'
  BY DEF TypedInv, DatabaseInv, RelationInv, UniqueNames, RowsTyped, Start
<1>2. modelMode' = modelMode /\ modelMode \in BOOLEAN /\ run = Nobody
  BY DEF TypedInv, Start
<1>3. CASE /\ last' = [flags |-> flags, result |-> "refused", op |-> "render"]
           /\ UNCHANGED <<run, used>>
  <2>1. run' = run /\ used' = used
    BY <1>3
  <2>2. last'.result = "refused" /\ last'.op = "render"
    BY <1>3
  <2>3. RunInv' /\ LastInv'
    BY <1>2, <2>1, <2>2 DEF TypedInv, RunInv, LastInv, Nobody
  <2> QED BY <1>1, <1>2, <2>3 DEF TypedInv
<1>4. CASE /\ ~RenderFails(flags) /\ last' = NoRun
           /\ used' = used \cup {flags.schema} /\ run' = [Nobody EXCEPT !.flags = flags]
  <2>1. last' = NoRun /\ used' = used \cup {flags.schema} /\ run' = [Nobody EXCEPT !.flags = flags]
    BY <1>4
  <2>2. run' = [flags |-> flags, prelude |-> 0, file |-> 1, line |-> 1]
    BY <2>1 DEF Nobody
  <2>3. Runnable(modelMode, flags)
    BY <1>2, <1>4 DEF Runnable
  <2>4. Len(Prelude(flags)) \in Nat /\ Len(flags.files) \in Nat
    <3>1. IsSequence(Prelude(flags))
      BY <2>3, PreludeIs
    <3>2. IsSequence(flags.files)
      BY <2>3, RunnableFlags
    <3> QED BY <3>1, <3>2, SequenceFacts
  <2>5. 1 <= Len(flags.files) => Len(File(flags, 1)) \in Nat \ {0}
    BY <2>3, <2>4, FilesAreNotEmpty
  <2> DEFINE p == Len(Prelude(flags))
             n == Len(flags.files)
             l == Len(File(flags, 1))
  <2>6. 0 \in 0..p /\ 1 \in 1..(n + 1) /\ (1 <= n => 1 \in 1..l)
    <3> HIDE DEF p, n, l
    <3>1. p \in Nat /\ n \in Nat /\ (1 <= n => l \in Nat \ {0})
      BY <2>4, <2>5 DEF p, n, l
    <3> QED BY <3>1
  <2>7. run'.flags = flags /\ run'.prelude = 0 /\ run'.file = 1 /\ run'.line = 1
    BY <2>2
  <2>8. RunInv'
    BY <1>2, <2>1, <2>2, <2>3, <2>6, <2>7 DEF RunInv, RunSchema
  <2>9. flags.schema \in Usable(modelMode)
    BY <2>3, RunnableFlags
  <2>10. LastInv'
    BY <1>2, <2>1, <2>9 DEF TypedInv, LastInv
  <2> QED BY <1>1, <1>2, <2>8, <2>10 DEF TypedInv
<1> QED BY <1>3, <1>4 DEF Start

LEMMA EndPosition ==
  ASSUME TypedInv, run # Nobody, NEW result \in {"done", "refused", "cut off"}, NEW op,
         End(result, op), used' \subseteq used \cup {RunSchema}, UNCHANGED modelMode
  PROVE  RunInv' /\ LastInv'
<1>1. /\ Runnable(modelMode, run.flags) /\ used \subseteq Usable(modelMode)
      /\ run.flags.schema \in used
  BY DEF TypedInv, RunInv, LastInv, RunSchema
<1>2. last' = [flags |-> run.flags, result |-> result, op |-> op] /\ run' = Nobody
  BY DEF End
<1>3. last'.result = result /\ last'.flags = run.flags
  BY <1>2
<1> QED BY <1>1, <1>2, <1>3 DEF RunInv, LastInv, RunSchema

LEMMA TypedInit ==
  ASSUME Init
  PROVE  TypedInv
BY DEF Init, TypedInv, RunInv, LastInv, DatabaseInv, RelationInv, UniqueNames, RowsTyped

(* What a step that executes something does to the database and the run.   *)
LEMMA StepDoes ==
  ASSUME TypedInv, ExecNext \/ CutOff
  PROVE  /\ run # Nobody /\ ~AtEnd
         /\ \/ UNCHANGED <<relations, rows>> /\ run' = Nobody
            \/ Does(Current) /\ run' \in {Nobody, Advanced}
         /\ UNCHANGED <<modelMode, used>>
<1>1. run # Nobody /\ ~AtEnd
  BY DEF ExecNext, CutOff
<1>2. run.flags.model \in BOOLEAN /\ Current.op \in {"create", "alter", "drop"} \cup Dml
  BY <1>1, CurrentOp
<1> QED BY <1>2, Executing

LEMMA TypedNext ==
  ASSUME NamesApart, SchemasInstall, TypedInv, [Next]_vars
  PROVE  TypedInv'
<1>1. CASE UNCHANGED vars
  <2>1. UNCHANGED <<modelMode, run, relations, rows, last, used>>
    BY <1>1 DEF vars
  <2>2. DatabaseInv' /\ LastInv'
    BY <2>1 DEF TypedInv, DatabaseInv, RelationInv, UniqueNames, RowsTyped, LastInv
  <2>3. RunInv'
    BY <2>1 DEF TypedInv, RunInv, RunSchema, InPrelude
  <2> QED BY <2>1, <2>2, <2>3 DEF TypedInv
<1>2. ASSUME NEW flags \in Flags(modelMode), Start(flags)
      PROVE  TypedInv'
  BY <1>2, StartPosition
<1>3. CASE ExecNext \/ CutOff
  <2>1. /\ run # Nobody /\ ~AtEnd /\ UNCHANGED <<modelMode, used>>
        /\ \/ UNCHANGED <<relations, rows>> /\ run' = Nobody
           \/ Does(Current) /\ run' \in {Nobody, Advanced}
    BY <1>3, StepDoes
  <2>2. DatabaseInv'
    <3>1. CASE UNCHANGED <<relations, rows>>
      BY <2>1, <3>1 DEF TypedInv, DatabaseInv, RelationInv, UniqueNames, RowsTyped
    <3>2. CASE Does(Current)
      BY <2>1, <3>2, DoingKeepsTypes
    <3> QED BY <2>1, <3>1, <3>2
  <2>3. RunInv' /\ LastInv'
    <3>1. CASE run' = Advanced /\ last' = last
      <4>1. RunInv'
        BY <2>1, <3>1, AdvancedPosition
      <4>2. last = NoRun
        BY <2>1 DEF TypedInv, LastInv
      <4> QED BY <2>1, <3>1, <4>1, <4>2 DEF TypedInv, LastInv
    <3>2. CASE \E result \in {"refused", "cut off"} : \E op : End(result, op)
      <4>1. PICK result \in {"refused", "cut off"} : \E op : End(result, op)
        BY <3>2
      <4> QED BY <2>1, <4>1, EndPosition
    <3>3. \/ run' = Advanced /\ last' = last
          \/ \E result \in {"refused", "cut off"} : \E op : End(result, op)
      <4>1. CASE ExecNext
        BY <4>1 DEF ExecNext
      <4>2. CASE CutOff
        <5>1. End("cut off", "none")
          BY <4>2 DEF CutOff
        <5> QED BY <5>1
      <4> QED BY <1>3, <4>1, <4>2
    <3> QED BY <3>1, <3>2, <3>3
  <2> QED BY <2>1, <2>2, <2>3 DEF TypedInv
<1>4. CASE Finish
  <2>1. /\ run # Nobody /\ End("done", "none") /\ UNCHANGED <<modelMode, relations, rows>>
        /\ used' \subseteq used \cup {RunSchema}
    BY <1>4 DEF Finish, RunSchema
  <2>2. DatabaseInv'
    BY <2>1 DEF TypedInv, DatabaseInv, RelationInv, UniqueNames, RowsTyped
  <2>3. RunInv' /\ LastInv'
    BY <2>1, EndPosition
  <2> QED BY <2>1, <2>2, <2>3 DEF TypedInv
<1> QED BY <1>1, <1>2, <1>3, <1>4 DEF Next

(* Whatever runs come after each other and wherever they are refused or    *)
(* cut off: names are unique, tables and views stay what they are, and     *)
(* every row lies in a table that has its columns and has a key            *)
(* (cli.go:150-184, dml.go:11-94).  It needs that no table is called like  *)
(* a view, and that each model can be installed.                           *)
THEOREM TypeCorrect ==
  ASSUME NamesApart, SchemasInstall
  PROVE  Spec => []TypeOK
<1>1. Init => TypedInv
  BY TypedInit
<1>2. TypedInv /\ [Next]_vars => TypedInv'
  BY TypedNext
<1>3. TypedInv => TypeOK
  <2> SUFFICES ASSUME TypedInv PROVE TypeOK
    OBVIOUS
  <2>1. run # Nobody => run.flags \in Flags(modelMode)
    BY DEF TypedInv, RunInv, Runnable
  <2>2. \A r \in relations : r.kind \in {"table", "view"}
    BY DEF TypedInv, DatabaseInv, RelationInv
  <2>3. last.result \in {"none", "done", "refused", "cut off"}
    <3>1. last = NoRun \/ last.result \in {"done", "refused", "cut off"}
      BY DEF TypedInv, LastInv
    <3>2. NoRun.result = "none"
      BY DEF NoRun
    <3> QED BY <3>1, <3>2
  <2>4. \A r \in rows : \E table \in relations :
          /\ table.name = r.table /\ table.kind = "table"
          /\ r.at # <<Nil>> /\ DOMAIN r.vals \subseteq ToSet(table.columns)
    BY DEF TypedInv, DatabaseInv, RowsTyped
  <2> QED BY <2>1, <2>2, <2>3, <2>4 DEF TypedInv, DatabaseInv, UniqueNames, TypeOK
<1> QED BY <1>1, <1>2, <1>3, PTL DEF Spec

-----------------------------------------------------------------------------
(***************************************************************************)
(* -drop makes room.                                                       *)
(***************************************************************************)
(* A run has created this name, in so many statements of its prelude.      *)
InstalledBy(flags, prelude, n) ==
  \E j \in 1..Len(CreateAll(flags)) :
    /\ Len(DropStatements(flags)) + j <= prelude
    /\ CreateAll(flags)[j].op = "create" /\ CreateAll(flags)[j].name = n

Installed(n) == InstalledBy(run.flags, run.prelude, n)

(* What -drop has dropped is gone, and with the root table every view,     *)
(* unless the run has created it anew.                                     *)
GoneInv ==
  run # Nobody =>
    \A i \in 1..DropCount : i <= run.prelude =>
      \A r \in relations :
        \/ r.name = DropStatements(run.flags)[i].name
        \/ r.kind = "view" /\ DropStatements(run.flags)[i].name = TableName
        => Installed(r.name)

WithKey(st, pk) ==
  [name |-> st.name, kind |-> st.kind, columns |-> st.columns, uses |-> st.uses, pk |-> pk]

CurrentKey == IF ~modelMode /\ DropCount + 2 <= run.prelude THEN <<Pk>> ELSE <<>>

(* What the run has created is there, as it was created.                   *)
InstalledInv ==
  run # Nobody =>
    \A j \in 1..CreateCount :
      DropCount + j <= run.prelude /\ CreateAll(run.flags)[j].op = "create" =>
        WithKey(CreateAll(run.flags)[j], CurrentKey) \in relations

(* There is no view without the root table.                                *)
ViewInv == \A r \in relations : r.kind = "view" => There(TableName)

RoomInv == GoneInv /\ InstalledInv /\ ViewInv

LEMMA AdvancedTo ==
  ASSUME TypedInv, run # Nobody, run' = Advanced
  PROVE  /\ run'.flags = run.flags
         /\ InPrelude => /\ run'.prelude = run.prelude + 1
                         /\ run'.file = run.file /\ run'.line = run.line
         /\ ~InPrelude /\ run.line < Len(File(run.flags, run.file)) =>
              run'.prelude = run.prelude /\ run'.file = run.file /\ run'.line = run.line + 1
         /\ ~InPrelude /\ ~(run.line < Len(File(run.flags, run.file))) =>
              run'.prelude = run.prelude /\ run'.file = run.file + 1 /\ run'.line = 1
<1> DEFINE at(p, f, l) == [flags |-> run.flags, prelude |-> p, file |-> f, line |-> l]
<1>1. run = at(run.prelude, run.file, run.line)
  BY DEF TypedInv, RunInv
<1>2. CASE InPrelude
  <2>1. run' = at(run.prelude + 1, run.file, run.line)
    BY <1>1, <1>2 DEF Advanced
  <2> QED BY <1>2, <2>1
<1>3. CASE ~InPrelude /\ run.line < Len(File(run.flags, run.file))
  <2>1. run' = at(run.prelude, run.file, run.line + 1)
    BY <1>1, <1>3 DEF Advanced
  <2> QED BY <1>3, <2>1
<1>4. CASE ~InPrelude /\ ~(run.line < Len(File(run.flags, run.file)))
  <2>1. run' = at(run.prelude, run.file + 1, 1)
    BY <1>1, <1>4 DEF Advanced
  <2> QED BY <1>4, <2>1
<1> QED BY <1>2, <1>3, <1>4

(* The prelude of a run in which the current statement is executed.        *)
LEMMA PreludeStep ==
  ASSUME TypedInv, run # Nobody, ~AtEnd, run' = Advanced
  PROVE  /\ run'.flags = run.flags /\ DropCount' = DropCount /\ CreateCount' = CreateCount
         /\ DropCount \in Nat /\ CreateCount \in Nat /\ run.prelude \in Nat
         /\ \/ /\ InPrelude /\ run'.prelude \in 1..DropCount /\ run.prelude = run'.prelude - 1
               /\ Current = DropStatements(run.flags)[run'.prelude]
               /\ Current.op = "drop"
            \/ \E j \in 1..CreateCount :
                 /\ InPrelude /\ run'.prelude = DropCount + j /\ run.prelude = run'.prelude - 1
                 /\ Current = CreateAll(run.flags)[j]
                 /\ Current.op \in {"create", "alter"}
            \/ ~InPrelude /\ run'.prelude = run.prelude /\ Current.op \in Dml
<1>1. /\ Runnable(modelMode, run.flags)
      /\ run.prelude \in 0..Len(Prelude(run.flags))
  BY DEF TypedInv, RunInv
<1>2. /\ DropCount \in Nat /\ CreateCount \in Nat
      /\ Len(Prelude(run.flags)) = DropCount + CreateCount
      /\ \/ /\ InPrelude /\ run.prelude + 1 \in 1..DropCount
            /\ Current = DropStatements(run.flags)[run.prelude + 1]
         \/ /\ InPrelude /\ run.prelude + 1 - DropCount \in 1..CreateCount
            /\ Current = CreateAll(run.flags)[run.prelude + 1 - DropCount]
         \/ ~InPrelude
  BY Position
<1>3. /\ run'.flags = run.flags
      /\ InPrelude => run'.prelude = run.prelude + 1
      /\ ~InPrelude => run'.prelude = run.prelude
  BY AdvancedTo
<1>4. run.prelude \in Nat
  BY <1>1, <1>2
<1>5. DropCount' = DropCount /\ CreateCount' = CreateCount
  BY <1>3 DEF DropCount, CreateCount
<1>6. CASE InPrelude /\ run.prelude + 1 \in 1..DropCount
           /\ Current = DropStatements(run.flags)[run.prelude + 1]
  <2> DEFINE i == run.prelude + 1
             st == DropStatements(run.flags)[i]
  <2>1. st = Drop(st.kind, st.name)
    BY <1>1, <1>6, DropsAre DEF DropCount
  <2>2. st = Current
    BY <1>6
  <2> HIDE DEF st
  <2>3. Current.op = "drop"
    BY <2>1, <2>2 DEF Drop
  <2> QED BY <1>2, <1>3, <1>4, <1>5, <1>6, <2>3
<1>7. CASE InPrelude /\ run.prelude + 1 - DropCount \in 1..CreateCount
           /\ Current = CreateAll(run.flags)[run.prelude + 1 - DropCount]
  <2> DEFINE j == run.prelude + 1 - DropCount
             st == CreateAll(run.flags)[j]
  <2>1. \/ st.op = "create"
        \/ st = LandingCreate(TableName, Columns[run.flags.schema])
        \/ st = [op |-> "alter", table |-> TableName, pk |-> <<Pk>>]
    BY <1>1, <1>7, CreatedAre DEF CreateCount
  <2>2. st = Current
    BY <1>7
  <2>3. j \in 1..CreateCount /\ run'.prelude = DropCount + j /\ run.prelude = run'.prelude - 1
    BY <1>2, <1>3, <1>4, <1>7
  <2> HIDE DEF st, j
  <2>4. Current.op \in {"create", "alter"}
    BY <2>1, <2>2 DEF LandingCreate
  <2> QED BY <1>2, <1>3, <1>4, <1>5, <1>7, <2>2, <2>3, <2>4 DEF st
<1>8. CASE ~InPrelude
  <2>1. Current.op \in Dml
    BY <1>8, CurrentOp
  <2> QED BY <1>2, <1>3, <1>4, <1>5, <1>8, <2>1
<1> QED BY <1>2, <1>6, <1>7, <1>8

(* DML statements leave the relations alone.                               *)
LEMMA DmlKeepsRelations ==
  ASSUME TypedInv, run # Nobody, ~AtEnd, Does(Current), Current.op \in Dml
  PROVE  relations' = relations
<1>1. run.flags.model = modelMode /\ modelMode \in BOOLEAN
  BY CurrentOp
<1>2. CASE run.flags.model
  BY <1>2, ModelDml
<1>3. CASE ~run.flags.model
  BY <1>3, LandingDml
<1> QED BY <1>2, <1>3

(* In a model every statement of a prelude that creates is a CREATE; in a  *)
(* landing table the second one is the ALTER.                              *)
LEMMA CreateOrAlter ==
  ASSUME TypedInv, run # Nobody, NEW j \in 1..CreateCount
  PROVE  /\ modelMode => CreateAll(run.flags)[j].op = "create"
         /\ ~modelMode => /\ CreateCount = 2 /\ j \in 1..2
                          /\ CreateAll(run.flags)[1] = LandingCreate(TableName, Columns[RunSchema])
                          /\ CreateAll(run.flags)[2] = [op |-> "alter", table |-> TableName, pk |-> <<Pk>>]
                          /\ CreateAll(run.flags)[j].op = "create" <=> j = 1
<1>1. Runnable(modelMode, run.flags) /\ modelMode \in BOOLEAN
  BY DEF TypedInv, RunInv
<1>2. IsSequence(CreateAll(run.flags)) /\ (~Creates(run.flags) => CreateCount = 0)
  BY <1>1, CreatesAre DEF CreateCount
<1>3. Creates(run.flags)
  BY <1>2
<1>4. CASE modelMode
  <2> DEFINE st == CreateAll(run.flags)[j]
  <2>1. \/ st.op = "create" /\ modelMode
        \/ ~modelMode
    BY <1>1, CreatedAre DEF CreateCount
  <2> QED BY <1>4, <2>1
<1>5. CASE ~modelMode
  <2>1. /\ CreateCount = 2
        /\ CreateAll(run.flags)[1] = LandingCreate(TableName, Columns[RunSchema])
        /\ CreateAll(run.flags)[2] = [op |-> "alter", table |-> TableName, pk |-> <<Pk>>]
    BY <1>1, <1>3, <1>5, CreatesAre DEF CreateCount, RunSchema
  <2>2. CreateAll(run.flags)[1].op = "create" /\ CreateAll(run.flags)[2].op = "alter"
    BY <2>1 DEF LandingCreate
  <2>3. j = 1 \/ j = 2
    BY <2>1
  <2> QED BY <1>5, <2>1, <2>2, <2>3
<1> QED BY <1>4, <1>5

(* Names tell tables from views.                                           *)
LEMMA KindsApart ==
  ASSUME NamesApart, DatabaseInv, modelMode, NEW r \in relations, NEW s \in Planned
  PROVE  /\ r.name \in TableNames(s) => r.kind = "table"
         /\ r.name \in ViewNames(s) => r.kind = "view"
<1>1. \/ r.kind = "table" /\ \E q \in Planned : r.name \in TableNames(q)
      \/ r.kind = "view" /\ \E q \in Planned : r.name \in ViewNames(q)
  BY DEF DatabaseInv, RelationInv
<1> QED BY <1>1 DEF NamesApart

LEMMA RootName ==
  ASSUME NEW s \in Planned
  PROVE  TableName \in TableNames(s)
<1>1. TableCount(s) \in Nat \ {0} /\ Models[s].tables[1].name = TableName
  BY PlannedModels
<1>2. 1 \in 1..TableCount(s)
  BY <1>1
<1> QED BY <1>1, <1>2, TableNamesAre

LEMMA RootIsTable ==
  ASSUME NamesApart, DatabaseInv, modelMode \in BOOLEAN, NEW r \in relations, r.name = TableName
  PROVE  r.kind = "table"
<1>1. CASE modelMode
  <2>1. \E q \in Planned : TRUE
    BY <1>1 DEF DatabaseInv, RelationInv
  <2> QED BY <1>1, <2>1, KindsApart, RootName
<1>2. CASE ~modelMode
  BY <1>2 DEF DatabaseInv, RelationInv
<1> QED BY <1>1, <1>2

(* A statement of a run leaves no view without the root table.             *)
LEMMA ViewsHang ==
  ASSUME NamesApart, TypedInv, ViewInv, run # Nobody, ~AtEnd, Does(Current), UNCHANGED modelMode
  PROVE  ViewInv'
<1> DEFINE st == Current
           n == st.name
<1>1. \/ st.op = "drop"
      \/ st.op \in {"create", "alter"} /\ \E j \in 1..CreateCount : st = CreateAll(run.flags)[j]
      \/ st.op \in Dml
  <2>1. ~InPrelude => st.op \in Dml
    BY CurrentOp
  <2>2. CASE InPrelude /\ run.prelude + 1 \in 1..DropCount
             /\ st = DropStatements(run.flags)[run.prelude + 1]
    <3> DEFINE D == DropStatements(run.flags)[run.prelude + 1]
    <3>1. Runnable(modelMode, run.flags)
      BY DEF TypedInv, RunInv
    <3>2. D = Drop(D.kind, D.name)
      BY <2>2, <3>1, DropsAre DEF DropCount
    <3>3. st = D
      BY <2>2
    <3> HIDE DEF D
    <3> QED BY <3>2, <3>3 DEF Drop
  <2>3. CASE InPrelude /\ run.prelude + 1 - DropCount \in 1..CreateCount
             /\ st = CreateAll(run.flags)[run.prelude + 1 - DropCount]
    <3>1. st.op \in {"create", "alter", "drop"}
      BY <2>3, CurrentOp
    <3> QED BY <2>3, <3>1
  <2> QED BY <2>1, <2>2, <2>3, Position
<1>2. CASE st.op = "drop"
  <2>1. \/ (\A r \in relations : r.name # n) /\ UNCHANGED <<relations, rows>>
        \/ relations' = {WithoutUse(r, n) : r \in {q \in relations : ~GoesWith(q, n)}}
    BY <1>2, Dropping
  <2>2. CASE UNCHANGED relations
    BY <2>2 DEF ViewInv, There, Named
  <2>3. CASE relations' = {WithoutUse(r, n) : r \in {q \in relations : ~GoesWith(q, n)}}
    <3>1. ASSUME NEW q \in relations', q.kind = "view"
          PROVE  \E t \in relations' : t.name = TableName
      <4>1. PICK r \in relations : ~GoesWith(r, n) /\ q = WithoutUse(r, n)
        BY <2>3
      <4>2. r = [name |-> r.name, kind |-> r.kind, columns |-> r.columns, uses |-> r.uses, pk |-> r.pk]
        BY DEF TypedInv, DatabaseInv, RelationInv
      <4>3. r.kind = "view"
        BY <3>1, <4>1, <4>2, UseRemoved
      <4>4. TableName \in r.uses /\ There(TableName)
        BY <4>3 DEF TypedInv, DatabaseInv, RelationInv, ViewInv
      <4>5. n # TableName
        BY <4>1, <4>3, <4>4 DEF GoesWith
      <4>6. PICK t \in relations : t.name = TableName
        BY <4>4 DEF There, Named
      <4>7. t = [name |-> t.name, kind |-> t.kind, columns |-> t.columns, uses |-> t.uses, pk |-> t.pk]
        BY DEF TypedInv, DatabaseInv, RelationInv
      <4>8. t.kind = "table"
        BY <4>6, RootIsTable DEF TypedInv
      <4>9. ~GoesWith(t, n)
        BY <4>5, <4>6, <4>8 DEF GoesWith
      <4>10. WithoutUse(t, n) \in relations' /\ WithoutUse(t, n).name = TableName
        BY <2>3, <4>6, <4>7, <4>9, UseRemoved
      <4> QED BY <4>10
    <3> QED BY <3>1 DEF ViewInv, There, Named
  <2> QED BY <2>1, <2>2, <2>3
<1>3. ASSUME NEW j \in 1..CreateCount, st = CreateAll(run.flags)[j], st.op = "create"
      PROVE  ViewInv'
  <2>1. relations' = relations \cup {NewRelation(st)} /\ \A m \in st.uses : There(m)
    BY <1>3, Creating DEF Does
  <2>2. ASSUME NEW r \in relations', r.kind = "view"
        PROVE  There(TableName)
    <3>1. CASE r \in relations
      BY <2>2, <3>1 DEF ViewInv
    <3>2. CASE r = NewRelation(st)
      <4>1. Runnable(modelMode, run.flags) /\ st.kind = "view"
        BY <2>2, <3>2 DEF TypedInv, RunInv, NewRelation
      <4>2. \/ st.kind = "table"
            \/ st.kind = "view" /\ TableName \in st.uses
            \/ st = LandingCreate(TableName, Columns[run.flags.schema])
            \/ st = [op |-> "alter", table |-> TableName, pk |-> <<Pk>>]
        BY <1>3, <4>1, CreatedAre DEF CreateCount
      <4>3. LandingCreate(TableName, Columns[run.flags.schema]).kind = "table"
        BY DEF LandingCreate
      <4>4. TableName \in st.uses
        BY <1>3, <4>1, <4>2, <4>3
      <4> QED BY <2>1, <4>4
    <3> QED BY <2>1, <3>1, <3>2
  <2> QED BY <2>1, <2>2 DEF ViewInv, There, Named
<1>4. ASSUME NEW j \in 1..CreateCount, st = CreateAll(run.flags)[j], st.op = "alter"
      PROVE  ViewInv'
  <2>1. ~modelMode
    BY <1>4, CreateOrAlter DEF TypedInv
  <2>2. DatabaseInv'
    BY <2>1, <1>4, CreateOrAlter, AlterKeepsTypes DEF TypedInv
  <2> QED BY <2>1, <2>2 DEF ViewInv, DatabaseInv, RelationInv
<1>5. CASE st.op \in Dml
  <2>1. relations' = relations
    BY <1>5, DmlKeepsRelations
  <2> QED BY <2>1 DEF ViewInv, There, Named
<1> QED BY <1>1, <1>2, <1>3, <1>4, <1>5

LEMMA RoomAfterDrop ==
  ASSUME NamesApart, TypedInv, RoomInv, run # Nobody, ~AtEnd, Does(Current), run' = Advanced,
         InPrelude, run'.prelude \in 1..DropCount, run.prelude = run'.prelude - 1,
         Current = DropStatements(run.flags)[run'.prelude], Current.op = "drop",
         UNCHANGED <<modelMode, used>>, TypedInv'
  PROVE  RoomInv'
<1> DEFINE st == Current
           n == st.name
           p == run'.prelude
<1>1. /\ run'.flags = run.flags /\ DropCount' = DropCount /\ CreateCount' = CreateCount
      /\ DropCount \in Nat /\ CreateCount \in Nat /\ run.prelude \in Nat
  BY PreludeStep
<1>2. \A m : ~Installed(m)
  <2>1. \A j \in 1..CreateCount : ~(DropCount + j <= run.prelude)
    BY <1>1
  <2> QED BY <2>1 DEF Installed, InstalledBy, DropCount, CreateCount
<1>3. \/ (\A r \in relations : r.name # n) /\ UNCHANGED <<relations, rows>>
      \/ relations' = {WithoutUse(r, n) : r \in {q \in relations : ~GoesWith(q, n)}}
  BY Dropping
<1>4. ASSUME NEW q \in relations'
      PROVE  /\ q.name # n /\ (q.kind = "view" => n # TableName)
             /\ \E r \in relations : r.name = q.name /\ r.kind = q.kind
  <2>1. CASE (\A r \in relations : r.name # n) /\ UNCHANGED <<relations, rows>>
    <3>1. q.kind = "view" => There(TableName)
      BY <2>1 DEF RoomInv, ViewInv
    <3>2. There(TableName) => n # TableName
      BY <2>1 DEF There, Named
    <3> QED BY <2>1, <3>1, <3>2
  <2>2. CASE relations' = {WithoutUse(r, n) : r \in {q2 \in relations : ~GoesWith(q2, n)}}
    <3>1. PICK r \in relations : ~GoesWith(r, n) /\ q = WithoutUse(r, n)
      BY <2>2
    <3>2. r = [name |-> r.name, kind |-> r.kind, columns |-> r.columns, uses |-> r.uses, pk |-> r.pk]
      BY DEF TypedInv, DatabaseInv, RelationInv
    <3>3. q.name = r.name /\ q.kind = r.kind
      BY <3>1, <3>2, UseRemoved
    <3>4. r.kind = "view" => TableName \in r.uses
      BY DEF TypedInv, DatabaseInv, RelationInv
    <3> QED BY <3>1, <3>3, <3>4 DEF GoesWith
  <2> QED BY <1>3, <2>1, <2>2
<1>5. GoneInv'
  <2>1. \A i \in 1..DropCount : i <= p => i = p \/ i <= run.prelude
    BY <1>1
  <2>2. ASSUME NEW i \in 1..DropCount, i <= p, NEW q \in relations'
        PROVE  /\ q.name # DropStatements(run.flags)[i].name
               /\ q.kind = "view" => DropStatements(run.flags)[i].name # TableName
    <3>1. CASE i = p
      BY <1>4, <3>1
    <3>2. CASE i <= run.prelude
      <4>1. PICK r \in relations : r.name = q.name /\ r.kind = q.kind
        BY <1>4
      <4>2. ~Installed(r.name)
        BY <1>2
      <4> QED BY <3>2, <4>1, <4>2 DEF RoomInv, GoneInv
    <3> QED BY <2>1, <2>2, <3>1, <3>2
  <2> QED BY <1>1, <2>2 DEF GoneInv, DropCount
<1>6. InstalledInv'
  <2>1. \A j \in 1..CreateCount : ~(DropCount + j <= p)
    BY <1>1
  <2> QED BY <1>1, <2>1 DEF InstalledInv
<1>7. ViewInv'
  BY ViewsHang DEF RoomInv
<1> QED BY <1>5, <1>6, <1>7 DEF RoomInv

LEMMA RoomAfterCreate ==
  ASSUME NamesApart, TypedInv, RoomInv, run # Nobody, ~AtEnd, Does(Current), run' = Advanced,
         NEW j \in 1..CreateCount, InPrelude, run'.prelude = DropCount + j,
         run.prelude = run'.prelude - 1, Current = CreateAll(run.flags)[j],
         Current.op = "create", UNCHANGED <<modelMode, used>>
  PROVE  RoomInv'
<1> DEFINE st == Current
           p == run'.prelude
<1>1. /\ run'.flags = run.flags /\ DropCount' = DropCount /\ CreateCount' = CreateCount
      /\ DropCount \in Nat /\ CreateCount \in Nat /\ run.prelude \in Nat
  BY PreludeStep
<1>2. relations' = relations \cup {NewRelation(st)} /\ \A m \in st.uses : There(m)
  BY Creating DEF Does
<1>3. \A m : Installed(m) => InstalledBy(run.flags, p, m)
  <2>1. \A k \in 1..CreateCount : DropCount + k <= run.prelude => DropCount + k <= p
    BY <1>1
  <2> QED BY <2>1 DEF Installed, InstalledBy, DropCount, CreateCount
<1>4. InstalledBy(run.flags, p, st.name)
  <2>1. DropCount + j <= p
    BY <1>1
  <2> QED BY <2>1 DEF InstalledBy, DropCount, CreateCount
<1>5. GoneInv'
  <2>1. ASSUME NEW i \in 1..DropCount, NEW r \in relations',
               \/ r.name = DropStatements(run.flags)[i].name
               \/ r.kind = "view" /\ DropStatements(run.flags)[i].name = TableName
        PROVE  InstalledBy(run.flags, p, r.name)
    <3>1. CASE r = NewRelation(st)
      BY <1>4, <3>1 DEF NewRelation
    <3>2. CASE r \in relations
      <4>1. i <= run.prelude
        BY <1>1
      <4>2. Installed(r.name)
        BY <2>1, <3>2, <4>1 DEF RoomInv, GoneInv
      <4> QED BY <1>3, <4>2
    <3> QED BY <1>2, <3>1, <3>2
  <2> QED BY <1>1, <2>1 DEF GoneInv, Installed
<1>6. InstalledInv'
  <2>1. CurrentKey' = <<>> /\ CurrentKey = <<>>
    <3>1. ~modelMode => j = 1
      BY CreateOrAlter
    <3>2. ~modelMode => ~(DropCount + 2 <= p) /\ ~(DropCount + 2 <= run.prelude)
      BY <1>1, <3>1
    <3> QED BY <1>1, <3>2 DEF CurrentKey
  <2>2. ASSUME NEW k \in 1..CreateCount, DropCount + k <= p, CreateAll(run.flags)[k].op = "create"
        PROVE  WithKey(CreateAll(run.flags)[k], <<>>) \in relations'
    <3>1. CASE k = j
      BY <1>2, <3>1 DEF NewRelation, WithKey
    <3>2. CASE k # j
      <4>1. DropCount + k <= run.prelude
        BY <1>1, <2>2, <3>2
      <4>2. WithKey(CreateAll(run.flags)[k], CurrentKey) \in relations
        BY <2>2, <4>1 DEF RoomInv, InstalledInv
      <4> QED BY <1>2, <2>1, <4>2
    <3> QED BY <3>1, <3>2
  <2> QED BY <1>1, <2>1, <2>2 DEF InstalledInv
<1>7. ViewInv'
  BY ViewsHang DEF RoomInv
<1> QED BY <1>5, <1>6, <1>7 DEF RoomInv

LEMMA RoomAfterAlter ==
  ASSUME NamesApart, TypedInv, RoomInv, run # Nobody, ~AtEnd, Does(Current), run' = Advanced,
         NEW j \in 1..CreateCount, InPrelude, run'.prelude = DropCount + j,
         run.prelude = run'.prelude - 1, Current = CreateAll(run.flags)[j],
         Current.op = "alter", UNCHANGED <<modelMode, used>>
  PROVE  RoomInv'
<1> DEFINE p == run'.prelude
           table == TheRelation(TableName)
           new == [table EXCEPT !.pk = <<Pk>>]
<1>1. /\ run'.flags = run.flags /\ DropCount' = DropCount /\ CreateCount' = CreateCount
      /\ DropCount \in Nat /\ CreateCount \in Nat /\ run.prelude \in Nat
  BY PreludeStep
<1>2. /\ ~modelMode /\ CreateCount = 2 /\ j = 2
      /\ CreateAll(run.flags)[1] = LandingCreate(TableName, Columns[RunSchema])
      /\ Current.table = TableName /\ Current.pk = <<Pk>>
  <2>1. ~modelMode
    BY CreateOrAlter DEF TypedInv
  <2>2. CreateCount = 2 /\ j \in 1..2 /\ j # 1
        /\ CreateAll(run.flags)[1] = LandingCreate(TableName, Columns[RunSchema])
        /\ CreateAll(run.flags)[2] = [op |-> "alter", table |-> TableName, pk |-> <<Pk>>]
    BY <2>1, CreateOrAlter
  <2>3. j = 2
    BY <2>2
  <2> QED BY <2>1, <2>2, <2>3
<1>3. There(TableName) /\ relations' = (relations \ {table}) \cup {new}
  BY <1>2, Altering DEF Does
<1>4. /\ table \in relations /\ table.name = TableName
      /\ table = [name |-> table.name, kind |-> table.kind, columns |-> table.columns,
                  uses |-> table.uses, pk |-> table.pk]
  BY <1>3, ThereIsOne DEF TypedInv, DatabaseInv, RelationInv
<1> HIDE DEF table
<1>5. new = [name |-> TableName, kind |-> table.kind, columns |-> table.columns,
             uses |-> table.uses, pk |-> <<Pk>>]
  BY <1>4
<1>6. \A r \in relations' : \E q \in relations : q.name = r.name /\ q.kind = r.kind
  BY <1>3, <1>4, <1>5
<1>7. GoneInv'
  <2>1. \A m : Installed(m) => InstalledBy(run.flags, p, m)
    <3>1. \A k \in 1..CreateCount : DropCount + k <= run.prelude => DropCount + k <= p
      BY <1>1
    <3> QED BY <3>1 DEF Installed, InstalledBy, DropCount, CreateCount
  <2>2. ASSUME NEW i \in 1..DropCount, NEW r \in relations',
               \/ r.name = DropStatements(run.flags)[i].name
               \/ r.kind = "view" /\ DropStatements(run.flags)[i].name = TableName
        PROVE  InstalledBy(run.flags, p, r.name)
    <3>1. PICK q \in relations : q.name = r.name /\ q.kind = r.kind
      BY <1>6
    <3>2. i <= run.prelude
      BY <1>1
    <3>3. Installed(q.name)
      BY <2>2, <3>1, <3>2 DEF RoomInv, GoneInv
    <3> QED BY <2>1, <3>1, <3>3
  <2> QED BY <1>1, <2>2 DEF GoneInv, Installed
<1>8. InstalledInv'
  <2>1. CurrentKey' = <<Pk>> /\ CurrentKey = <<>>
    <3>1. DropCount + 2 <= p /\ ~(DropCount + 2 <= run.prelude)
      BY <1>1, <1>2
    <3> QED BY <1>1, <1>2, <3>1 DEF CurrentKey
  <2>2. ASSUME NEW k \in 1..CreateCount, CreateAll(run.flags)[k].op = "create"
        PROVE  WithKey(CreateAll(run.flags)[k], <<Pk>>) \in relations'
    <3> DEFINE st == CreateAll(run.flags)[1]
               old == WithKey(st, <<>>)
    <3>1. k = 1
      BY <1>2, <2>2, CreateOrAlter
    <3>2. DropCount + 1 <= run.prelude /\ 1 \in 1..CreateCount
      BY <1>1, <1>2
    <3>3. old \in relations
      BY <2>1, <2>2, <3>1, <3>2 DEF RoomInv, InstalledInv
    <3>4. st.name = TableName
      BY <1>2 DEF LandingCreate
    <3>5. old.name = TableName
      BY <3>4 DEF WithKey
    <3>6. old = table
      BY <1>4, <3>3, <3>5 DEF TypedInv, DatabaseInv, UniqueNames
    <3>7. new = WithKey(st, <<Pk>>)
      <4>1. table.kind = st.kind /\ table.columns = st.columns /\ table.uses = st.uses
        BY <3>6 DEF WithKey
      <4> QED BY <1>5, <3>4, <4>1 DEF WithKey
    <3> QED BY <1>3, <3>1, <3>7
  <2> QED BY <1>1, <2>1, <2>2 DEF InstalledInv
<1>9. ViewInv'
  BY ViewsHang DEF RoomInv
<1> QED BY <1>7, <1>8, <1>9 DEF RoomInv

LEMMA RoomNext ==
  ASSUME NamesApart, SchemasInstall, TypedInv, RoomInv, [Next]_vars
  PROVE  RoomInv'
<1>1. TypedInv'
  BY TypedNext
<1>2. CASE UNCHANGED vars
  <2>1. UNCHANGED <<modelMode, run, relations>>
    BY <1>2 DEF vars
  <2> QED BY <2>1 DEF RoomInv, GoneInv, InstalledInv, ViewInv, Installed, DropCount, CreateCount,
                      CurrentKey, There, Named
<1>3. ASSUME NEW flags \in Flags(modelMode), Start(flags)
      PROVE  RoomInv'
  <2>1. ViewInv'
    BY <1>3 DEF Start, RoomInv, ViewInv, There, Named
  <2>2. CASE run' = Nobody
    BY <2>1, <2>2 DEF RoomInv, GoneInv, InstalledInv
  <2>3. CASE run' = [Nobody EXCEPT !.flags = flags]
    <3>1. run'.flags = flags /\ run'.prelude = 0
      BY <2>3 DEF Nobody
    <3>2. run' # Nobody => Len(DropStatements(flags)) \in Nat /\ Len(CreateAll(flags)) \in Nat
      <4>1. run' # Nobody => Runnable(modelMode', flags)
        BY <1>1, <3>1 DEF TypedInv, RunInv
      <4> QED BY <4>1, PreludeIs
    <3>3. GoneInv'
      BY <3>1, <3>2 DEF GoneInv, DropCount
    <3>4. InstalledInv'
      BY <3>1, <3>2 DEF InstalledInv, DropCount, CreateCount
    <3> QED BY <2>1, <3>3, <3>4 DEF RoomInv
  <2> QED BY <1>3, <2>2, <2>3 DEF Start
<1>4. CASE Finish
  <2>1. run' = Nobody /\ UNCHANGED relations
    BY <1>4 DEF Finish, End
  <2> QED BY <2>1 DEF RoomInv, GoneInv, InstalledInv, ViewInv, There, Named
<1>5. CASE ExecNext \/ CutOff
  <2>1. /\ run # Nobody /\ ~AtEnd /\ UNCHANGED <<modelMode, used>>
        /\ \/ UNCHANGED <<relations, rows>> /\ run' = Nobody
           \/ Does(Current) /\ run' \in {Nobody, Advanced}
    BY <1>5, StepDoes
  <2>2. CASE Does(Current) /\ run' = Advanced
    <3>1. CASE ~InPrelude
      <4>1. /\ run'.flags = run.flags /\ run'.prelude = run.prelude
            /\ Current.op \in Dml
        BY <2>1, <2>2, <3>1, PreludeStep
      <4>2. relations' = relations
        BY <2>1, <2>2, <4>1, DmlKeepsRelations
      <4> QED BY <2>1, <4>1, <4>2 DEF RoomInv, GoneInv, InstalledInv, ViewInv, Installed, DropCount,
                                     CreateCount, CurrentKey, There, Named
    <3>2. CASE /\ InPrelude /\ run'.prelude \in 1..DropCount /\ run.prelude = run'.prelude - 1
               /\ Current = DropStatements(run.flags)[run'.prelude]
               /\ Current.op = "drop"
      BY <1>1, <2>1, <2>2, <3>2, RoomAfterDrop
    <3>3. ASSUME NEW j \in 1..CreateCount,
                 InPrelude, run'.prelude = DropCount + j, run.prelude = run'.prelude - 1,
                 Current = CreateAll(run.flags)[j], Current.op \in {"create", "alter"}
          PROVE  RoomInv'
      <4>1. CASE Current.op = "create"
        BY <2>1, <2>2, <3>3, <4>1, RoomAfterCreate
      <4>2. CASE Current.op = "alter"
        BY <2>1, <2>2, <3>3, <4>2, RoomAfterAlter
      <4> QED BY <3>3, <4>1, <4>2
    <3> QED BY <2>1, <2>2, <3>1, <3>2, <3>3, PreludeStep
  <2>3. CASE run' = Nobody
    <3>1. ViewInv'
      <4>1. CASE UNCHANGED <<relations, rows>>
        BY <4>1 DEF RoomInv, ViewInv, There, Named
      <4>2. CASE Does(Current)
        BY <2>1, <4>2, ViewsHang DEF RoomInv
      <4> QED BY <2>1, <4>1, <4>2
    <3> QED BY <2>3, <3>1 DEF RoomInv, GoneInv, InstalledInv
  <2> QED BY <2>1, <2>2, <2>3
<1> QED BY <1>2, <1>3, <1>4, <1>5 DEF Next

(* A CREATE of a model is not refused when its name is free, or taken by a *)
(* CREATE of the same run.                                                 *)
LEMMA CreateAccepted ==
  ASSUME SchemasInstall, TypedInv, RoomInv, run # Nobody, modelMode,
         NEW j \in 1..CreateCount, run.prelude + 1 = DropCount + j,
         NEW st, st = CreateAll(run.flags)[j], There(st.name) => Installed(st.name)
  PROVE  ExecStatement(run.flags, st).ok
<1> DEFINE s == RunSchema
<1>1. /\ Runnable(modelMode, run.flags) /\ modelMode \in BOOLEAN /\ s \in Planned
      /\ run.prelude \in 0..Len(Prelude(run.flags))
  BY RunnableFlags DEF TypedInv, RunInv, RunSchema, Usable
<1>2. DropCount \in Nat /\ CreateCount \in Nat /\ run.prelude \in Int /\ j \in Nat
  BY <1>1, PreludeIs DEF DropCount, CreateCount
<1>3. \A k \in 1..CreateCount : DropCount + k <= run.prelude <=> k < j
  BY <1>2
<1>4. CreateAll(run.flags) = ModelDdl(s) /\ IsSequence(CreateAll(run.flags))
  <2>1. /\ IsSequence(CreateAll(run.flags))
        /\ ~Creates(run.flags) => CreateCount = 0
        /\ Creates(run.flags) => CreateAll(run.flags) = ModelDdl(s)
    BY <1>1, CreatesAre DEF CreateCount, RunSchema
  <2> QED BY <2>1
<1>5. DOMAIN ModelDdl(s) = 1..CreateCount
  BY <1>4, SequenceFacts DEF CreateCount
<1>6. /\ \A i \in 1..CreateCount, k \in 1..CreateCount :
           CreateAll(run.flags)[i].name = CreateAll(run.flags)[k].name => i = k
      /\ \A n \in st.uses : \E k \in 1..CreateCount :
           k < j /\ CreateAll(run.flags)[k].name = n
      /\ Cardinality(ToSet(st.columns)) = Len(st.columns)
  <2>1. /\ \A i \in DOMAIN ModelDdl(s), k \in DOMAIN ModelDdl(s) :
             ModelDdl(s)[i].name = ModelDdl(s)[k].name => i = k
        /\ \A i \in DOMAIN ModelDdl(s) : \A n \in ModelDdl(s)[i].uses :
             \E k \in DOMAIN ModelDdl(s) : k < i /\ ModelDdl(s)[k].name = n
        /\ \A i \in DOMAIN ModelDdl(s) :
             Cardinality(ToSet(ModelDdl(s)[i].columns)) = Len(ModelDdl(s)[i].columns)
    BY <1>1, NamesDiffer
  <2> HIDE DEF s
  <2> QED BY <1>4, <1>5, <2>1
<1>7. st.op = "create"
  BY CreateOrAlter
<1>8. ~There(st.name)
  <2>1. Installed(st.name) => \E k \in 1..CreateCount :
          k < j /\ CreateAll(run.flags)[k].name = st.name
    BY <1>3 DEF Installed, InstalledBy, DropCount, CreateCount
  <2>2. \A k \in 1..CreateCount : k < j => k # j
    BY <1>2
  <2> QED BY <1>6, <2>1, <2>2
<1>9. ASSUME NEW n \in st.uses
      PROVE  There(n)
  <2>1. PICK k \in 1..CreateCount : k < j /\ CreateAll(run.flags)[k].name = n
    BY <1>6
  <2>2. CreateAll(run.flags)[k].op = "create" /\ DropCount + k <= run.prelude
    BY <1>3, <2>1, CreateOrAlter
  <2>3. WithKey(CreateAll(run.flags)[k], CurrentKey) \in relations
    BY <2>2 DEF RoomInv, InstalledInv
  <2>4. WithKey(CreateAll(run.flags)[k], CurrentKey).name = n
    BY <2>1 DEF WithKey
  <2> QED BY <2>3, <2>4 DEF There, Named
<1> QED BY <1>6, <1>7, <1>8, <1>9, Creating

(* In a run with -drop no statement of the prelude is refused.             *)
LEMMA PreludeAccepted ==
  ASSUME NamesApart, SchemasInstall, TypedInv, RoomInv, run # Nobody, ~AtEnd, InPrelude,
         run.flags.drop
  PROVE  ExecStatement(run.flags, Current).ok
<1> DEFINE st == Current
           s == RunSchema
<1>1. /\ Runnable(modelMode, run.flags) /\ modelMode \in BOOLEAN /\ s \in Usable(modelMode)
      /\ run.prelude \in 0..Len(Prelude(run.flags))
  BY RunnableFlags DEF TypedInv, RunInv, RunSchema
<1>2. /\ DropCount \in Nat /\ CreateCount \in Nat
      /\ Len(Prelude(run.flags)) = DropCount + CreateCount
      /\ \/ /\ run.prelude + 1 \in 1..DropCount
            /\ st = DropStatements(run.flags)[run.prelude + 1]
         \/ /\ run.prelude + 1 - DropCount \in 1..CreateCount /\ run.prelude >= DropCount
            /\ st = CreateAll(run.flags)[run.prelude + 1 - DropCount]
  BY Position
<1>3. run.prelude \in Nat
  BY <1>1, <1>2
<1>4. CASE run.prelude + 1 \in 1..DropCount /\ st = DropStatements(run.flags)[run.prelude + 1]
  <2> DEFINE D == DropStatements(run.flags)[run.prelude + 1]
  <2>1. /\ D = Drop(D.kind, D.name)
        /\ \/ D.kind = "table" /\ D.name \in TablesIn(modelMode, s)
           \/ modelMode /\ D.kind = "view" /\ D.name \in ViewNames(s)
    BY <1>1, <1>4, DropsAre DEF DropCount, RunSchema
  <2>2. st = D
    BY <1>4
  <2> HIDE DEF D
  <2>3. st.op = "drop"
    BY <2>1, <2>2 DEF Drop
  <2>4. ASSUME NEW r \in relations, r.name = st.name
        PROVE  r.kind = st.kind
    <3>1. CASE modelMode
      <4>1. s \in Planned
        BY <1>1, <3>1 DEF Usable
      <4> QED BY <2>1, <2>2, <2>4, <3>1, <4>1, KindsApart DEF TypedInv, TablesIn
    <3>2. CASE ~modelMode
      BY <2>1, <2>2, <3>2 DEF TypedInv, DatabaseInv, RelationInv
    <3> QED BY <3>1, <3>2
  <2> QED BY <2>3, <2>4, Dropping
<1>5. CASE /\ run.prelude + 1 - DropCount \in 1..CreateCount /\ run.prelude >= DropCount
           /\ st = CreateAll(run.flags)[run.prelude + 1 - DropCount]
  <2> DEFINE j == run.prelude + 1 - DropCount
  <2>1. j \in 1..CreateCount /\ st = CreateAll(run.flags)[j]
    BY <1>5
  <2>2. \A k \in 1..CreateCount : DropCount + k <= run.prelude <=> k < j
    BY <1>2, <1>3
  <2>3. \A i \in 1..DropCount : i <= run.prelude
    BY <1>2, <1>3, <1>5
  <2>4. j + DropCount = run.prelude + 1 /\ j \in Nat
    BY <1>2, <1>3, <2>1
  <2> HIDE DEF j, st
  <2>5. CASE modelMode
    <3>1. s \in Planned
      BY <1>1, <2>5 DEF Usable
    <3>2. ASSUME There(st.name)
          PROVE  Installed(st.name)
      <4>1. PICK r \in relations : r.name = st.name
        BY <3>2 DEF There, Named
      <4>2. \/ st.kind = "table" /\ st.name \in TableNames(s)
            \/ st.kind = "view" /\ st.name \in ViewNames(s)
        BY <1>1, <2>1, <2>5, CreatedAre DEF CreateCount, RunSchema
      <4>3. /\ r.name \in TableNames(s) => r.kind = "table"
            /\ r.name \in ViewNames(s) => r.kind = "view"
        BY <2>5, <3>1, KindsApart DEF TypedInv
      <4>4. \A n \in TableNames(s) : \E i \in 1..DropCount : DropStatements(run.flags)[i].name = n
        <5>1. \A n \in TablesIn(modelMode, run.flags.schema) :
                \E i \in 1..Len(DropStatements(run.flags)) :
                  DropStatements(run.flags)[i].name = n
          <6>1. Runnable(modelMode, run.flags) /\ run.flags.drop
            BY <1>1
          <6> HIDE DEF s
          <6> QED BY ONLY <6>1, DropsAre
        <5>2. TablesIn(modelMode, run.flags.schema) = TableNames(s)
          BY <2>5 DEF TablesIn, RunSchema
        <5> QED BY <5>1, <5>2 DEF DropCount
      <4>5. PICK i \in 1..DropCount :
              \/ DropStatements(run.flags)[i].name = r.name
              \/ r.kind = "view" /\ DropStatements(run.flags)[i].name = TableName
        BY <3>1, <4>1, <4>2, <4>3, <4>4, RootName
      <4> QED BY <2>3, <4>1, <4>5 DEF RoomInv, GoneInv
    <3>3. run.prelude + 1 = DropCount + j
      BY <1>2, <2>4
    <3>4. ExecStatement(run.flags, st).ok
      BY <2>1, <2>5, <3>2, <3>3, CreateAccepted
    <3> QED BY <3>4 DEF st
  <2>6. CASE ~modelMode
    <3>1. /\ CreateCount = 2 /\ j \in 1..2
          /\ CreateAll(run.flags)[1] = LandingCreate(TableName, Columns[s])
          /\ CreateAll(run.flags)[2] = [op |-> "alter", table |-> TableName, pk |-> <<Pk>>]
      BY <2>1, <2>6, CreateOrAlter
    <3>2. Cardinality(ToSet(Columns[s])) = Len(Columns[s]) /\ Pk \in ToSet(Columns[s])
      BY <1>1, <2>6 DEF SchemasInstall, Usable
    <3>3. CASE j = 1
      <4>1. /\ st.op = "create" /\ st.name = TableName /\ st.uses = {} /\ st.columns = Columns[s]
        BY <2>1, <3>1, <3>3 DEF LandingCreate
      <4>2. ~There(TableName)
        <5>1. ASSUME NEW r \in relations, r.name = TableName
              PROVE  Installed(TableName)
          <6>1. PICK i \in 1..DropCount : DropStatements(run.flags)[i].name = TableName
            BY <1>1, <2>6, DropsAre DEF DropCount, TablesIn
          <6> QED BY <2>3, <5>1, <6>1 DEF RoomInv, GoneInv
        <5>2. ~Installed(TableName)
          <6>1. \A k \in 1..CreateCount : ~(k < 1)
            BY <1>2
          <6> QED BY <2>2, <3>3, <6>1 DEF Installed, InstalledBy, DropCount, CreateCount
        <5> QED BY <5>1, <5>2 DEF There, Named
      <4> QED BY <3>2, <4>1, <4>2, Creating DEF st
    <3>4. CASE j = 2
      <4>1. /\ st.op = "alter" /\ st.table = TableName /\ st.pk = <<Pk>>
        BY <2>1, <3>1, <3>4
      <4> DEFINE c == CreateAll(run.flags)[1]
                 new == WithKey(c, <<>>)
      <4>2. c.op = "create" /\ c.name = TableName /\ c.columns = Columns[s]
        BY <3>1 DEF LandingCreate
      <4>3. CurrentKey = <<>>
        <5>1. ~(DropCount + 2 <= run.prelude)
          BY <2>4, <1>2, <1>3, <3>4
        <5> QED BY <5>1 DEF CurrentKey
      <4>4. new \in relations
        <5>1. 1 \in 1..CreateCount /\ DropCount + 1 <= run.prelude
          BY <2>2, <3>1, <3>4
        <5> QED BY <4>2, <4>3, <5>1 DEF RoomInv, InstalledInv
      <4>5. new.name = TableName /\ new.pk = <<>> /\ new.columns = Columns[s]
        BY <4>2 DEF WithKey
      <4> HIDE DEF new
      <4>6. TheRelation(TableName) = new /\ There(TableName)
        BY <4>4, <4>5, TheOne DEF TypedInv, DatabaseInv
      <4>7. ToSet(st.pk) \subseteq ToSet(new.columns)
        BY <3>2, <4>1, <4>5, Single
      <4> QED BY <4>1, <4>5, <4>6, <4>7, Altering DEF st
    <3> QED BY <3>1, <3>3, <3>4
  <2> QED BY <2>5, <2>6
<1> QED BY <1>2, <1>4, <1>5

(* After -drop the names of the model are free, whatever part of this or   *)
(* of another schema's model earlier runs have installed, dropped, or were *)
(* cut off in: in a run with -drop no DROP, CREATE or ALTER is refused     *)
(* (README.md:80, cli.go:150-179).                                         *)
THEOREM RoomIsMade ==
  ASSUME NamesApart, SchemasInstall
  PROVE  Spec => []DropMakesRoom
<1> DEFINE Inv == TypedInv /\ RoomInv /\ DropMakesRoom
<1>1. Init => Inv
  <2> SUFFICES ASSUME Init PROVE Inv
    OBVIOUS
  <2>1. RoomInv
    BY DEF Init, RoomInv, GoneInv, InstalledInv, ViewInv
  <2>2. last.result = "none"
    BY DEF Init, NoRun
  <2> QED BY <2>1, <2>2, TypedInit DEF DropMakesRoom
<1>2. Inv /\ [Next]_vars => Inv'
  <2> SUFFICES ASSUME Inv, [Next]_vars PROVE Inv'
    OBVIOUS
  <2>1. TypedInv' /\ RoomInv'
    BY TypedNext, RoomNext
  <2> SUFFICES DropMakesRoom'
    BY <2>1
  <2>2. CASE last' = last
    BY <2>2 DEF DropMakesRoom
  <2>3. ASSUME NEW flags \in Flags(modelMode), Start(flags), last' # last
        PROVE  DropMakesRoom'
    <3>1. last' = [flags |-> flags, result |-> "refused", op |-> "render"] \/ last' = NoRun
      BY <2>3 DEF Start
    <3>2. last'.op = "render" \/ last'.result = "none"
      BY <3>1 DEF NoRun
    <3> QED BY <3>2 DEF DropMakesRoom
  <2>4. CASE Finish \/ CutOff
    <3>1. End("done", "none") \/ End("cut off", "none")
      BY <2>4 DEF Finish, CutOff
    <3>2. last'.result \in {"done", "cut off"}
      <4>1. \/ last' = [flags |-> run.flags, result |-> "done", op |-> "none"]
            \/ last' = [flags |-> run.flags, result |-> "cut off", op |-> "none"]
        BY <3>1 DEF End
      <4>2. \A x, f, e, o : x = [flags |-> f, result |-> e, op |-> o] => x.result = e
        OBVIOUS
      <4>3. last'.result = "done" \/ last'.result = "cut off"
        BY <4>1, <4>2, Zenon
      <4> QED BY <4>3, Zenon
    <3> QED BY <3>2 DEF DropMakesRoom
  <2>5. CASE ExecNext /\ last' # last
    <3>1. /\ run # Nobody /\ ~AtEnd /\ ~ExecStatement(run.flags, Current).ok
          /\ End("refused", Current.op)
      BY <2>5 DEF ExecNext
    <3>2. last'.op = Current.op /\ last'.flags = run.flags
      BY <3>1 DEF End
    <3>3. CASE InPrelude
      BY <3>1, <3>2, <3>3, PreludeAccepted DEF DropMakesRoom
    <3>4. CASE ~InPrelude
      <4>1. Current.op \in Dml
        BY <3>1, <3>4, CurrentOp
      <4> QED BY <3>2, <4>1 DEF DropMakesRoom, Dml
    <3> QED BY <3>3, <3>4
  <2>6. UNCHANGED vars => last' = last
    BY DEF vars
  <2> QED BY <2>1, <2>2, <2>3, <2>4, <2>5, <2>6 DEF Next
<1>3. Inv => DropMakesRoom
  OBVIOUS
<1> QED BY <1>1, <1>2, <1>3, PTL DEF Spec

-----------------------------------------------------------------------------
(***************************************************************************)
(* What is stored.                                                         *)
(***************************************************************************)
(* The rows of a document, the root row first, in a model or in a landing  *)
(* table; the tables an upsert deletes from before it writes them.         *)
LandingRow(d) == LandingRowAt(<<KeyOf(d)>>, Values[d])

DocRow(m, d, i) == IF m THEN RowNumber(Renderings[d], i) ELSE LandingRow(d)

DocCount(m, d) == IF m THEN RowCount(Renderings[d]) ELSE 1

Written(m, d, e) == {DocRow(m, d, i) : i \in 1..e}

Whole(m, d) == Written(m, d, DocCount(m, d))

DeleteCount(m, d) == IF m THEN Len(Renderings[d].deletes) ELSE 0

DeleteTable(d, j) == Renderings[d].deletes[j].table

(* The documents that can be stored in a schema's tables.                  *)
StoredIn(m, s) ==
  {d \in DocumentsOf(m) : d.schema = s /\ (m => Renderings[d].key # Nil)}

LEMMA FrontOfTwo ==
  ASSUME NEW a, NEW b
  PROVE  Front(<<a, b>>) = <<a>> /\ <<a, b>>[1] = a
<1>1. Front(<<a, b>>) = [i \in 1..1 |-> <<a, b>>[i]]
  BY DEF Front
<1>2. [i \in 1..1 |-> <<a, b>>[i]] = <<a>>
  OBVIOUS
<1> QED BY <1>1, <1>2

(* The rows of a document: the root row, and rows under it.                *)
RowsAre(m, d) ==
  LET k == KeyOf(d)
  IN /\ DocCount(m, d) \in Nat \ {0} /\ DeleteCount(m, d) \in Nat
     /\ \A i \in 1..DocCount(m, d) :
          /\ IsRow(DocRow(m, d, i)) /\ DocRow(m, d, i).at[1] = k
          /\ DocRow(m, d, i).table \in TablesIn(m, d.schema)
     /\ DocRow(m, d, 1) = [table |-> TableName, parent |-> <<>>, at |-> <<k>>,
                           vals |-> DocRow(m, d, 1).vals]
     /\ \A i \in 2..DocCount(m, d) :
          /\ DocRow(m, d, i).table # TableName /\ DocRow(m, d, i).parent = TableName
          /\ Front(DocRow(m, d, i).at) = <<k>>
          /\ m /\ \E t \in 1..TableCount(d.schema) :
                    /\ DocRow(m, d, i).table = Models[d.schema].tables[t].name
                    /\ Models[d.schema].tables[t].parent = TableName
     /\ \A i \in 1..DocCount(m, d), j \in 1..DocCount(m, d) :
          Same(DocRow(m, d, i), DocRow(m, d, j)) => i = j

LEMMA ModelRows ==
  ASSUME SchemasInstall, DocumentsAreWhole,
         NEW d \in DocumentsOf(TRUE), Renderings[d].key # Nil
  PROVE  LET r == Renderings[d]
         IN /\ WholeRendering(d) /\ RenderingAssumption(d) /\ KeyOf(d) = r.key
            /\ d.schema \in Planned
            /\ IsSequence(r.children) /\ DOMAIN r.children = 1..Len(r.children)
            /\ Len(r.children) \in Nat
            /\ \A j \in 1..Len(r.children) :
                 /\ r.children[j] = InsertOf(r.children[j].row)
                 /\ IsRowOf(r.children[j].row, Models[d.schema])
            /\ IsSequence(r.deletes) /\ DOMAIN r.deletes = 1..Len(r.deletes)
            /\ Len(r.deletes) \in Nat
            /\ \A j \in 1..Len(r.deletes) :
                 /\ r.deletes[j] = [op |-> "delete", table |-> r.deletes[j].table, at |-> <<r.key>>]
                 /\ r.deletes[j].table # TableName
                 /\ \E t \in 1..TableCount(d.schema) :
                      r.deletes[j].table = Models[d.schema].tables[t].name
<1> DEFINE r == Renderings[d]
<1>1. WholeRendering(d) /\ RenderingAssumption(d)
  BY RunAssumption DEF DocumentsAreWhole
<1>2. d.schema \in Planned
  BY DEF DocumentsOf
<1>3. /\ IsSequence(r.children) /\ IsSequence(r.deletes)
      /\ \A st \in ToSet(r.children) \ {Bad} :
           st = [op |-> "insert", row |-> st.row] /\ IsRowOf(st.row, Models[d.schema])
      /\ \A st \in ToSet(r.deletes) \ {Bad} :
           /\ st = [op |-> "delete", table |-> st.table, at |-> st.at]
           /\ \E t \in ToSet(Models[d.schema].tables) : st.table = t.name
  BY <1>1 DEF RenderingAssumption, IsRendering
<1>4. /\ KeyOf(d) = r.key
      /\ \A i \in DOMAIN r.children : r.children[i].op = "insert"
      /\ \A st \in ToSet(r.deletes) : st.op = "delete" /\ st.table # TableName /\ st.at = <<r.key>>
  BY <1>1 DEF WholeRendering, IsWhole
<1> HIDE DEF r
<1>5. /\ Len(r.children) \in Nat /\ DOMAIN r.children = 1..Len(r.children)
      /\ \A j \in 1..Len(r.children) : r.children[j] \in ToSet(r.children)
      /\ Len(r.deletes) \in Nat /\ DOMAIN r.deletes = 1..Len(r.deletes)
      /\ \A j \in 1..Len(r.deletes) : r.deletes[j] \in ToSet(r.deletes)
  BY <1>3, SequenceFacts
<1>6. ASSUME NEW j \in 1..Len(r.children)
      PROVE  /\ r.children[j] = InsertOf(r.children[j].row)
             /\ IsRowOf(r.children[j].row, Models[d.schema])
  <2>1. r.children[j] # Bad
    BY <1>4, <1>5 DEF Bad
  <2> QED BY <1>3, <1>5, <2>1 DEF InsertOf
<1>7. ASSUME NEW j \in 1..Len(r.deletes)
      PROVE  /\ r.deletes[j] = [op |-> "delete", table |-> r.deletes[j].table, at |-> <<r.key>>]
             /\ r.deletes[j].table # TableName
             /\ \E t \in 1..TableCount(d.schema) :
                  r.deletes[j].table = Models[d.schema].tables[t].name
  <2>1. r.deletes[j] # Bad
    BY <1>4, <1>5 DEF Bad
  <2>2. /\ r.deletes[j] = [op |-> "delete", table |-> r.deletes[j].table, at |-> r.deletes[j].at]
        /\ \E t \in ToSet(Models[d.schema].tables) : r.deletes[j].table = t.name
    BY <1>3, <1>5, <2>1
  <2>3. r.deletes[j].at = <<r.key>> /\ r.deletes[j].table # TableName
    BY <1>4, <1>5
  <2>4. DOMAIN Models[d.schema].tables = 1..TableCount(d.schema)
    BY <1>2, PlannedModels
  <2> QED BY <2>2, <2>3, <2>4 DEF ToSet
<1> QED BY <1>1, <1>2, <1>3, <1>4, <1>5, <1>6, <1>7 DEF r

LEMMA DocumentRows ==
  ASSUME SchemasInstall, DocumentsAreWhole, NEW m \in BOOLEAN, NEW s, NEW d \in StoredIn(m, s)
  PROVE  RowsAre(m, d)
<1>1. CASE m = FALSE
  <2> DEFINE row == LandingRow(d)
             k == KeyOf(d)
  <2>1. row = [table |-> TableName, parent |-> <<>>, at |-> <<k>>, vals |-> Values[d]]
    BY DEF LandingRow, LandingRowAt
  <2>2. \A i : DocRow(m, d, i) = row
    BY <1>1 DEF DocRow
  <2>3. DocCount(m, d) = 1 /\ DeleteCount(m, d) = 0 /\ TablesIn(m, d.schema) = {TableName}
    BY <1>1 DEF DocCount, DeleteCount, TablesIn
  <2> HIDE DEF row, k
  <2>4. /\ IsRow(row) /\ row.at[1] = k /\ row.table = TableName
        /\ row = [table |-> TableName, parent |-> <<>>, at |-> <<k>>, vals |-> row.vals]
    BY <2>1 DEF IsRow
  <2>5. \A i \in 1..1, j \in 1..1 : i = j
    OBVIOUS
  <2>6. \A i \in 2..1 : FALSE
    OBVIOUS
  <2> QED BY <2>2, <2>3, <2>4, <2>5, <2>6 DEF RowsAre, k
<1>2. CASE m = TRUE
  <2> DEFINE r == Renderings[d]
             s2 == d.schema
             n == Len(r.children)
             k == KeyOf(d)
  <2>1. d \in DocumentsOf(TRUE) /\ r.key # Nil
    BY <1>2 DEF StoredIn
  <2>2. /\ WholeRendering(d) /\ RenderingAssumption(d) /\ k = r.key /\ s2 \in Planned
        /\ DOMAIN r.children = 1..n /\ n \in Nat /\ Len(r.deletes) \in Nat
        /\ \A j \in 1..n : IsRowOf(r.children[j].row, Models[s2])
    BY <2>1, ModelRows
  <2>3. /\ IsRowOf(r.row, Models[s2]) /\ r.row.table = TableName /\ r.row.at = <<k>>
    BY <2>2 DEF RenderingAssumption, IsRendering
  <2>4. \A i \in 1..n :
          LET row == r.children[i].row
          IN /\ row.table # TableName /\ row.parent = TableName
             /\ row.at = <<k, row.at[2]>>
             /\ \A j \in 1..n : Same(row, r.children[j].row) => i = j
    BY <2>2 DEF WholeRendering, IsWhole
  <2>5. /\ DocRow(m, d, 1) = r.row
        /\ \A i \in 2..(n + 1) : DocRow(m, d, i) = r.children[i - 1].row /\ i - 1 \in 1..n
    <3>1. DocRow(m, d, 1) = r.row
      BY <1>2 DEF DocRow, RowNumber
    <3>2. \A i \in 2..(n + 1) : i - 1 \in 1..n /\ i # 1
      BY <2>2
    <3> HIDE DEF n, r
    <3>3. \A i \in 2..(n + 1) : DocRow(m, d, i) = r.children[i - 1].row
      BY <1>2, <3>2 DEF DocRow, RowNumber, r
    <3> QED BY <3>1, <3>2, <3>3 DEF r
  <2>6. DocCount(m, d) = n + 1 /\ DeleteCount(m, d) = Len(r.deletes)
    BY <1>2 DEF DocCount, RowCount, DeleteCount
  <2>7. TablesIn(m, s2) = TableNames(s2)
    BY <1>2 DEF TablesIn
  <2>8. \A row : IsRowOf(row, Models[s2]) =>
          /\ IsRow(row) /\ row.table \in TableNames(s2)
          /\ \E t \in 1..TableCount(s2) :
               row.table = Models[s2].tables[t].name /\ row.parent = Models[s2].tables[t].parent
    BY <2>2, RowsAreOfTables
  <2>9. r.row.parent = <<>>
    <3>1. PICK t \in 1..TableCount(s2) :
            TableName = Models[s2].tables[t].name /\ r.row.parent = Models[s2].tables[t].parent
      BY <2>3, <2>8
    <3>2. TableCount(s2) \in Nat \ {0} /\ Models[s2].tables[1].name = TableName
      BY <2>2, PlannedModels
    <3>3. 1 \in 1..TableCount(s2)
      BY <3>2
    <3>4. t = 1 /\ Models[s2].tables[1].parent = <<>>
      <4>1. /\ \A i \in 1..TableCount(s2), j \in 1..TableCount(s2) :
                 Models[s2].tables[i].name = Models[s2].tables[j].name => i = j
            /\ Models[s2].tables[1].parent = <<>>
        BY <2>2, TablesDiffer
      <4> QED BY <3>1, <3>2, <3>3, <4>1
    <3> QED BY <3>1, <3>4
  <2> HIDE DEF r, n, k, s2
  <2>10. n + 1 \in Nat \ {0} /\ (\A i \in 1..(n + 1) : i = 1 \/ i \in 2..(n + 1))
    BY <2>2
  <2>11. DocRow(m, d, 1) = [table |-> TableName, parent |-> <<>>, at |-> <<k>>,
                            vals |-> DocRow(m, d, 1).vals]
    BY <2>3, <2>5, <2>8, <2>9 DEF IsRow
  <2>12. \A i \in 2..(n + 1) :
          /\ DocRow(m, d, i).table # TableName /\ DocRow(m, d, i).parent = TableName
          /\ Front(DocRow(m, d, i).at) = <<k>> /\ DocRow(m, d, i).at[1] = k
          /\ IsRow(DocRow(m, d, i)) /\ DocRow(m, d, i).table \in TableNames(s2)
          /\ \E t \in 1..TableCount(s2) :
               /\ DocRow(m, d, i).table = Models[s2].tables[t].name
               /\ Models[s2].tables[t].parent = TableName
    <3>1. ASSUME NEW i \in 2..(n + 1)
          PROVE  /\ DocRow(m, d, i).table # TableName /\ DocRow(m, d, i).parent = TableName
                 /\ Front(DocRow(m, d, i).at) = <<k>> /\ DocRow(m, d, i).at[1] = k
                 /\ IsRow(DocRow(m, d, i)) /\ DocRow(m, d, i).table \in TableNames(s2)
                 /\ \E t \in 1..TableCount(s2) :
                      /\ DocRow(m, d, i).table = Models[s2].tables[t].name
                      /\ Models[s2].tables[t].parent = TableName
      <4> DEFINE row == r.children[i - 1].row
      <4>1. DocRow(m, d, i) = row /\ i - 1 \in 1..n
        BY <2>5
      <4>2. /\ row.table # TableName /\ row.parent = TableName
            /\ row.at = <<k, row.at[2]>>
        BY <2>4, <4>1
      <4>3. IsRowOf(row, Models[s2])
        BY <2>2, <4>1
      <4> HIDE DEF row
      <4>4. Front(row.at) = <<k>> /\ row.at[1] = k
        BY <4>2, FrontOfTwo
      <4>5. /\ IsRow(row) /\ row.table \in TableNames(s2)
            /\ \E t \in 1..TableCount(s2) :
                 row.table = Models[s2].tables[t].name /\ row.parent = Models[s2].tables[t].parent
        BY <2>8, <4>3
      <4> QED BY <4>1, <4>2, <4>4, <4>5
    <3> QED BY <3>1
  <2>13. \A i \in 1..(n + 1), j \in 1..(n + 1) :
           Same(DocRow(m, d, i), DocRow(m, d, j)) => i = j
    <3>1. ASSUME NEW i \in 1..(n + 1), NEW j \in 1..(n + 1), Same(DocRow(m, d, i), DocRow(m, d, j))
          PROVE  i = j
      <4>1. CASE i = 1 \/ j = 1
        <5>1. DocRow(m, d, 1).table = TableName
          BY <2>11
        <5> QED BY <2>10, <2>12, <3>1, <4>1, <5>1 DEF Same
      <4>2. CASE i \in 2..(n + 1) /\ j \in 2..(n + 1)
        <5>1. i - 1 = j - 1
          BY <2>4, <2>5, <3>1, <4>2
        <5> QED BY <2>2, <4>2, <5>1
      <4> QED BY <2>10, <4>1, <4>2
    <3> QED BY <3>1
  <2>14. /\ IsRow(DocRow(m, d, 1)) /\ DocRow(m, d, 1).at[1] = k
         /\ DocRow(m, d, 1).table \in TableNames(s2)
    <3>1. IsRow(DocRow(m, d, 1)) /\ DocRow(m, d, 1).table \in TableNames(s2)
      BY <2>3, <2>5, <2>8
    <3>2. DocRow(m, d, 1).at = <<k>> /\ <<k>>[1] = k
      BY <2>3, <2>5
    <3> QED BY <3>1, <3>2
  <2> QED BY <1>2, <2>2, <2>6, <2>7, <2>10, <2>11, <2>12, <2>13, <2>14 DEF RowsAre, k, s2, r
<1> QED BY <1>1, <1>2

(* The tables are as the schema's model or landing table has them.         *)
RightIn(s) ==
  \A r \in relations :
    IF modelMode
      THEN \A t \in 1..TableCount(s) : r.name = Models[s].tables[t].name =>
             /\ r.uses = {Models[s].tables[t].parent} \ {<<>>}
             /\ r.columns = TableColumns(Models[s], <<Header>>, t)
      ELSE r.columns = Columns[s]

(* The columns of a DELETE are in its table.                               *)
LEMMA KeyColumns ==
  ASSUME NEW s \in Planned, NEW t \in 1..TableCount(s)
  PROVE  ToSet(Models[s].tables[t].fkCols) \subseteq ToSet(TableColumns(Models[s], <<Header>>, t))
<1> DEFINE table == Models[s].tables[t]
           headers == IF t = 1 THEN <<Header>> ELSE <<>>
           number == IF table.fkCols = <<>> THEN <<>> ELSE <<RowNo>>
<1>1. IsSequence(table.fkCols) /\ IsSequence(table.columns)
  <2>1. DOMAIN Models[s].tables = 1..TableCount(s) /\ s \in Schemas[TRUE] /\ ~Models[s].fails
    BY PlannedModels DEF Planned
  <2>2. table \in ToSet(Models[s].tables)
    BY <2>1 DEF ToSet
  <2> QED BY <2>1, <2>2, RunAssumption DEF IsModel
<1>2. IsSequence(headers) /\ IsSequence(number)
  <2>1. IsSequence(<<>>)
    BY EmptySeq DEF IsSequence
  <2>2. IsSequence(<<Header>>) /\ IsSequence(<<RowNo>>)
    BY Single
  <2> QED BY <2>1, <2>2
<1> HIDE DEF headers, number
<1>3. TableColumns(Models[s], <<Header>>, t) = headers \o table.fkCols \o number \o table.columns
  BY DEF TableColumns, AllColumns, headers, number
<1> HIDE DEF table
<1>4. IsSequence(headers \o table.fkCols) /\ ToSet(table.fkCols) \subseteq ToSet(headers \o table.fkCols)
  BY <1>1, <1>2, ElementsOfBoth
<1> DEFINE two == headers \o table.fkCols
           three == two \o number
<1>5. IsSequence(three) /\ ToSet(two) \subseteq ToSet(three)
  <2> HIDE DEF two
  <2>1. IsSequence(two)
    BY <1>4 DEF two
  <2> QED BY <1>2, <2>1, ElementsOfBoth
<1>6. ToSet(three) \subseteq ToSet(three \o table.columns)
  <2> HIDE DEF three
  <2> QED BY <1>1, <1>5, ElementsOfBoth
<1> QED BY <1>3, <1>4, <1>5, <1>6 DEF table

(* A statement of a model finds its table as it needs it.                  *)
LEMMA ModelTarget ==
  ASSUME SchemasInstall, DatabaseInv, modelMode, NEW s \in Planned, RightIn(s),
         NEW st, NEW t \in 1..TableCount(s), Target(st) = Models[s].tables[t].name, There(Target(st))
  PROVE  /\ NamedColumns(Models[s], st) \subseteq ToSet(TheRelation(Target(st)).columns)
         /\ TheRelation(Target(st)).uses = {Models[s].tables[t].parent} \ {<<>>}
<1> DEFINE r == TheRelation(Target(st))
           model == Models[s]
<1>1. r \in relations /\ r.name = Target(st)
  BY ThereIsOne
<1> HIDE DEF r
<1>2. /\ r.uses = {model.tables[t].parent} \ {<<>>}
      /\ r.columns = TableColumns(model, <<Header>>, t)
  BY <1>1 DEF RightIn
<1>3. DOMAIN model.tables = 1..TableCount(s)
  BY PlannedModels
<1>4. \A j \in 1..TableCount(s) : model.tables[j].name = model.tables[t].name => j = t
  BY TablesDiffer
<1>5. (CHOOSE j \in DOMAIN model.tables : model.tables[j].name = Target(st)) = t
  BY <1>3, <1>4
<1>6. NamedColumns(model, st) = IF st.op = "delete" THEN ToSet(model.tables[t].fkCols)
                                ELSE ToSet(TableColumns(model, <<Header>>, t))
  <2> DEFINE i == CHOOSE j \in DOMAIN model.tables : model.tables[j].name = Target(st)
  <2>1. NamedColumns(model, st) = IF st.op = "delete" THEN ToSet(model.tables[i].fkCols)
                                  ELSE ToSet(TableColumns(model, <<Header>>, i))
    BY DEF NamedColumns
  <2>2. i = t
    BY <1>5
  <2> HIDE DEF i
  <2> QED BY <2>1, <2>2
<1>7. NamedColumns(model, st) \subseteq ToSet(r.columns)
  BY <1>2, <1>6, KeyColumns
<1> QED BY <1>2, <1>7 DEF r

(* And the row it writes refers to its parent.                             *)
LEMMA ReferringIs ==
  ASSUME SchemasInstall, DatabaseInv, modelMode, NEW s \in Planned, RightIn(s),
         NEW st, IsWrite(st, s), There(Target(st))
  PROVE  /\ Referring(st) = st /\ Target(st) = st.row.table
         /\ NamedColumns(Models[s], st) \subseteq ToSet(TheRelation(Target(st)).columns)
<1>1. /\ st.op # "delete" /\ st = [op |-> st.op, row |-> st.row] /\ IsRowOf(st.row, Models[s])
  BY DEF IsWrite
<1>2. PICK t \in 1..TableCount(s) : /\ st.row.table = Models[s].tables[t].name
                                    /\ st.row.parent = Models[s].tables[t].parent
  BY <1>1, RowsAreOfTables
<1>3. IsRow(st.row)
  BY <1>1, RowsAreOfTables
<1>4. Target(st) = st.row.table
  BY <1>1 DEF Target
<1>5. /\ NamedColumns(Models[s], st) \subseteq ToSet(TheRelation(Target(st)).columns)
      /\ TheRelation(st.row.table).uses = {Models[s].tables[t].parent} \ {<<>>}
  BY <1>2, <1>4, ModelTarget
<1>6. CASE st.row.parent # <<>>
  <2>1. st.row.parent \in TheRelation(st.row.table).uses
    BY <1>2, <1>5, <1>6
  <2> QED BY <1>4, <1>5, <2>1 DEF Referring
<1>7. CASE st.row.parent = <<>>
  <2> DEFINE row == st.row
  <2>1. row = [table |-> row.table, parent |-> <<>>, at |-> row.at, vals |-> row.vals]
    BY <1>3, <1>7 DEF IsRow
  <2>2. st = [op |-> st.op, row |-> row]
    BY <1>1
  <2>3. [st EXCEPT !.row.parent = <<>>] = [op |-> st.op, row |-> [row EXCEPT !.parent = <<>>]]
    BY <2>2
  <2> HIDE DEF row
  <2>4. [row EXCEPT !.parent = <<>>] = row
    BY <2>1
  <2>5. [st EXCEPT !.row.parent = <<>>] = st
    BY <2>2, <2>3, <2>4
  <2> QED BY <1>4, <1>5, <2>5 DEF Referring
<1> QED BY <1>6, <1>7

(* The landing table has got its key.                                      *)
HasKey == modelMode \/ \E r \in relations : r.pk = <<Pk>>

(* The tables hold rows of documents, each once, and child rows under      *)
(* their root row.                                                         *)
RowsIn(s) ==
  \A r \in rows : r.table \in TablesIn(modelMode, s) =>
    \E d \in StoredIn(modelMode, s) : r \in Whole(modelMode, d)

UniqueIn(s) ==
  \A r \in rows, q \in rows : r.table \in TablesIn(modelMode, s) /\ Same(r, q) => r = q

RootIn(s) ==
  \A r \in rows : r.table \in TablesIn(modelMode, s) /\ r.table # TableName =>
    \E q \in rows : q.table = TableName /\ q.at = <<r.at[1]>>

(* Only they refer to the tables.                                          *)
ReferIn(s) ==
  \A r \in rows : r.parent \in TablesIn(modelMode, s) => r.table \in TablesIn(modelMode, s)

RowsClean(s) == RowsIn(s) /\ UniqueIn(s) /\ RootIn(s) /\ ReferIn(s)

(* The statements of a document.                                           *)
Insertion(m, d, e) ==
  IF m THEN InsertOf(DocRow(m, d, e)) ELSE LandingInsert(TableName, Values[d])

Upsertion(m, d) ==
  IF m THEN [op |-> "upsert", row |-> DocRow(m, d, 1)] ELSE LandingUpsertOf(d)

Deletion(d, j) == [op |-> "delete", table |-> DeleteTable(d, j), at |-> <<KeyOf(d)>>]

InsertFits(row, k) ==
  /\ \A r \in rows : ~Same(r, row)
  /\ row.table = TableName \/ \E q \in rows : q.table = TableName /\ q.at = <<k>>

LEMMA LandingKey ==
  ASSUME DocumentsAreWhole, DatabaseInv, modelMode = FALSE, HasKey, NEW s, RightIn(s),
         NEW d \in StoredIn(FALSE, s)
  PROVE  LET table == TheRelation(TableName)
         IN /\ There(TableName) /\ table.pk = <<Pk>>
            /\ DOMAIN Values[d] \subseteq ToSet(table.columns)
            /\ RowAt(table.pk, rows, Values[d]) = <<KeyOf(d)>>
            /\ LandingNotNull(table.pk, <<KeyOf(d)>>)
            /\ IsFunction(Values[d], ToSet(Columns[s])) /\ KeyOf(d) = Values[d][Pk]
            /\ d.schema = s
<1>1. d \in DocumentsOf(FALSE) /\ d.schema = s
  BY DEF StoredIn
<1>2. KeyOf(d) # Nil /\ KeyOf(d) = Values[d][Pk]
  BY <1>1 DEF DocumentsAreWhole, WholeValues
<1>3. IsFunction(Values[d], ToSet(Columns[s]))
  BY <1>1, RunAssumption
<1>4. PICK r \in relations : r.pk = <<Pk>>
  BY DEF HasKey
<1>5. r.name = TableName /\ r.columns = Columns[s]
  BY DEF DatabaseInv, RelationInv, RightIn
<1>6. TheRelation(TableName) = r /\ There(TableName)
  BY <1>5, TheOne DEF DatabaseInv
<1>7. DOMAIN Values[d] = ToSet(Columns[s])
  BY <1>3 DEF IsFunction
<1>8. RowAt(<<Pk>>, rows, Values[d]) = <<KeyOf(d)>>
  <2>1. <<Pk>> # <<>>
    OBVIOUS
  <2>2. RowAt(<<Pk>>, rows, Values[d]) = [i \in DOMAIN <<Pk>> |-> Values[d][<<Pk>>[i]]]
    BY <2>1 DEF RowAt
  <2>3. DOMAIN <<Pk>> = 1..1 /\ <<Pk>>[1] = Pk
    OBVIOUS
  <2>4. [i \in DOMAIN <<Pk>> |-> Values[d][<<Pk>>[i]]] = <<Values[d][Pk]>>
    BY <2>3
  <2> QED BY <1>2, <2>2, <2>4
<1>9. Nil \notin ToSet(<<KeyOf(d)>>)
  BY <1>2, Single
<1> QED BY <1>1, <1>2, <1>3, <1>4, <1>5, <1>6, <1>7, <1>8, <1>9 DEF LandingNotNull

LEMMA InsertDoes ==
  ASSUME SchemasInstall, DocumentsAreWhole, DatabaseInv, modelMode \in BOOLEAN,
         run.flags.model = modelMode, RunSchema \in Usable(modelMode),
         RightIn(RunSchema), HasKey, NEW d \in StoredIn(modelMode, RunSchema),
         NEW e \in 1..DocCount(modelMode, d)
  PROVE  LET row == DocRow(modelMode, d, e)
             st == Insertion(modelMode, d, e)
         IN /\ There(row.table) /\ InsertFits(row, KeyOf(d)) => ExecStatement(run.flags, st).ok
            /\ Does(st) => /\ There(row.table) /\ InsertFits(row, KeyOf(d))
                           /\ relations' = relations /\ rows' = rows \cup {row}
<1> DEFINE row == DocRow(modelMode, d, e)
           st == Insertion(modelMode, d, e)
           k == KeyOf(d)
           s == RunSchema
<1>1. RowsAre(modelMode, d) /\ d.schema = s
  BY DocumentRows DEF StoredIn
<1>2. CASE modelMode = TRUE
  <2>1. st = InsertOf(row) /\ st.op = "insert" /\ st.row = row
    BY <1>2 DEF Insertion, InsertOf
  <2>2. s \in Planned /\ d \in DocumentsOf(TRUE) /\ Renderings[d].key # Nil
    BY <1>2 DEF Usable, StoredIn
  <2>3. IsRowOf(row, Models[s]) /\ row.at # <<Nil>>
    <3>1. \A j \in 1..Len(Renderings[d].children) :
            Renderings[d].children[j] = InsertOf(Renderings[d].children[j].row)
      BY <2>2, ModelRows
    <3>2. row = RowNumber(Renderings[d], e) /\ e \in 1..RowCount(Renderings[d])
      BY <1>2 DEF DocRow, DocCount
    <3> QED BY <1>1, <2>2, <3>1, <3>2, RowsOfDocument
  <2>4. IsWrite(st, s)
    <3> HIDE DEF row, st
    <3> QED BY <2>1, <2>3 DEF IsWrite, InsertOf
  <2>5. \/ row.parent = <<>> /\ row.table = TableName
        \/ /\ row.parent = TableName /\ Front(row.at) = <<k>> /\ row.table # TableName
           /\ TableName # <<>>
    <3>1. CASE e = 1
      <4>1. row = [table |-> TableName, parent |-> <<>>, at |-> <<k>>, vals |-> row.vals]
        BY <1>1, <3>1 DEF RowsAre
      <4> HIDE DEF row
      <4> QED BY <3>1, <4>1
    <3>2. CASE e # 1
      <4>1. e \in 2..DocCount(modelMode, d)
        BY <1>1, <3>2 DEF RowsAre
      <4>2. TableName # <<>>
        <5>1. TableCount(s) \in Nat \ {0} /\ Models[s].tables[1].name = TableName
              /\ \A i \in 1..TableCount(s) : Models[s].tables[i].name # <<>>
          BY <2>2, PlannedModels
        <5>2. 1 \in 1..TableCount(s)
          BY <5>1
        <5> QED BY <5>1, <5>2
      <4> QED BY <1>1, <4>1, <4>2 DEF RowsAre
    <3> QED BY <3>1, <3>2
  <2> HIDE DEF row, st, s, k
  <2>6. Target(st) = row.table
    BY <2>1 DEF Target
  <2>7. There(row.table) => /\ Referring(st) = st
                            /\ NamedColumns(Models[s], st) \subseteq ToSet(TheRelation(Target(st)).columns)
    BY <1>2, <2>2, <2>4, <2>6, ReferringIs DEF s
  <2>8. Exec(rows, st) = ExecInsert(rows, row)
    BY <2>1 DEF Exec
  <2> DEFINE both == ParentThere(rows, row) /\ ~\E r \in rows : Same(r, row)
  <2>9. Exec(rows, st).db = rows \cup {row} /\ (Exec(rows, st).ok <=> both)
    <3>1. ExecInsert(rows, row) = [db |-> rows \cup {row}, ok |-> both]
      BY DEF ExecInsert
    <3>2. both \in BOOLEAN
      OBVIOUS
    <3> HIDE DEF both
    <3>3. ExecInsert(rows, row).db = rows \cup {row} /\ ExecInsert(rows, row).ok = both
      BY <3>1
    <3> QED BY <2>8, <3>2, <3>3
  <2>10. both <=> InsertFits(row, k)
    <3>1. ParentThere(rows, row) <=>
            row.table = TableName \/ \E q \in rows : q.table = TableName /\ q.at = <<k>>
      <4>1. CASE row.parent = <<>> /\ row.table = TableName
        BY <4>1 DEF ParentThere
      <4>2. CASE /\ row.parent = TableName /\ Front(row.at) = <<k>> /\ row.table # TableName
                 /\ TableName # <<>>
        BY <4>2 DEF ParentThere
      <4> QED BY <2>5, <4>1, <4>2
    <3> QED BY <3>1 DEF InsertFits
  <2> HIDE DEF both
  <2>11. st.op \in Dml
    BY <2>1 DEF Dml
  <2>12. LET there == /\ There(Target(st))
                      /\ NamedColumns(Models[s], st) \subseteq ToSet(TheRelation(Target(st)).columns)
             result == Exec(rows, Referring(st))
         IN /\ there /\ result.ok => ExecStatement(run.flags, st).ok
            /\ Does(st) => /\ there /\ result.ok
                           /\ relations' = relations /\ rows' = result.db
    BY <1>2, <2>11, ModelDml DEF s, RunSchema
  <2> QED BY <2>6, <2>7, <2>9, <2>10, <2>12 DEF row, st, k
<1>3. CASE modelMode = FALSE
  <2> DEFINE table == TheRelation(TableName)
             result == LandingExec(table.pk, rows, st)
             old == {r \in rows : r.at = <<k>>}
  <2>1. st = LandingInsert(TableName, Values[d]) /\ row = LandingRowAt(<<k>>, Values[d])
    BY <1>3 DEF Insertion, DocRow, LandingRow
  <2>2. /\ There(TableName) /\ table.pk = <<Pk>>
        /\ DOMAIN Values[d] \subseteq ToSet(table.columns)
        /\ RowAt(table.pk, rows, Values[d]) = <<k>>
        /\ LandingNotNull(table.pk, <<k>>)
    BY <1>3, LandingKey
  <2>3. result.db = rows \cup {row} /\ (result.ok <=> old = {})
    <3> DEFINE pk == table.pk
               x == RowAt(pk, rows, Values[d])
               ins == LandingExec(pk, rows, LandingInsert(TableName, Values[d]))
    <3>1. /\ ins.db = rows \cup {LandingRowAt(x, Values[d])}
          /\ ins.ok <=> LandingNotNull(pk, x) /\ {r \in rows : r.at = x} = {}
      BY LandingExecuted
    <3>2. x = <<k>> /\ LandingNotNull(pk, <<k>>)
      BY <2>2
    <3>3. ins = result
      BY <2>1
    <3> HIDE DEF ins, x, pk, result
    <3> QED BY <2>1, <3>1, <3>2, <3>3
  <2>4. st.table = TableName /\ st.vals = Values[d] /\ st.op \in Dml
    BY <2>1 DEF LandingInsert, Dml
  <2>5. row.table = TableName /\ row.at = <<k>>
    BY <2>1 DEF LandingRowAt
  <2>6. \A r \in rows : r.table = TableName
    <3>1. ASSUME NEW r \in rows PROVE r.table = TableName
      <4>1. PICK t \in relations : t.name = r.table
        BY DEF DatabaseInv, RowsTyped
      <4> QED BY <1>3, <4>1 DEF DatabaseInv, RelationInv
    <3> QED BY <3>1
  <2> HIDE DEF row, st, k
  <2>7. old = {} <=> InsertFits(row, k)
    BY <2>5, <2>6 DEF InsertFits, Same
  <2> HIDE DEF old
  <2>8. LET tab == TheRelation(st.table)
            there == There(st.table) /\ DOMAIN st.vals \subseteq ToSet(tab.columns)
            res == LandingExec(tab.pk, rows, st)
        IN /\ there /\ res.ok => ExecStatement(run.flags, st).ok
           /\ Does(st) => /\ there /\ res.ok
                          /\ relations' = relations /\ rows' = res.db
    BY <1>3, <2>4, LandingDml
  <2> QED BY <2>2, <2>3, <2>4, <2>5, <2>7, <2>8 DEF row, st, k
<1> QED BY <1>2, <1>3

(* The root row of a document in place of another one's.                   *)
LEMMA RootRow ==
  ASSUME SchemasInstall, DocumentsAreWhole, NEW m \in BOOLEAN, NEW s, NEW d \in StoredIn(m, s),
         NEW r \in Whole(m, d)
  PROVE  /\ r.table = TableName => r = DocRow(m, d, 1) /\ r.at = <<KeyOf(d)>>
         /\ r.table # TableName =>
              /\ r.parent = TableName /\ Front(r.at) = <<KeyOf(d)>> /\ m
              /\ \E t \in 1..TableCount(s) : /\ r.table = Models[s].tables[t].name
                                             /\ Models[s].tables[t].parent = TableName
         /\ r.at[1] = KeyOf(d) /\ r.table \in TablesIn(m, s)
<1>1. RowsAre(m, d) /\ d.schema = s
  BY DocumentRows DEF StoredIn
<1>2. PICK i \in 1..DocCount(m, d) : r = DocRow(m, d, i)
  BY DEF Whole, Written
<1>3. DocCount(m, d) \in Nat \ {0}
  BY <1>1 DEF RowsAre
<1>4. r.at[1] = KeyOf(d) /\ r.table \in TablesIn(m, s)
  BY <1>1, <1>2 DEF RowsAre
<1>5. CASE i = 1
  <2>1. r = [table |-> TableName, parent |-> <<>>, at |-> <<KeyOf(d)>>, vals |-> r.vals]
    BY <1>1, <1>2, <1>5 DEF RowsAre
  <2>2. r.table = TableName /\ r.at = <<KeyOf(d)>>
    BY <2>1
  <2> QED BY <1>2, <1>4, <1>5, <2>2
<1>6. CASE i \in 2..DocCount(m, d)
  BY <1>1, <1>2, <1>4, <1>6 DEF RowsAre
<1> QED BY <1>3, <1>5, <1>6

LEMMA RootMerged ==
  ASSUME SchemasInstall, DocumentsAreWhole, NEW s,
         NEW d \in StoredIn(TRUE, s), NEW e \in StoredIn(TRUE, s)
  PROVE  Merged(DocRow(TRUE, e, 1), DocRow(TRUE, d, 1)) = DocRow(TRUE, d, 1)
<1> DEFINE new == DocRow(TRUE, d, 1)
           old == DocRow(TRUE, e, 1)
<1>1. /\ d \in DocumentsOf(TRUE) /\ Renderings[d].key # Nil
      /\ e \in DocumentsOf(TRUE) /\ Renderings[e].key # Nil
  BY DEF StoredIn
<1>2. new = Renderings[d].row /\ old = Renderings[e].row
  BY DEF DocRow, RowNumber
<1>3. WholeRendering(d) /\ WholeRendering(e) /\ RenderingAssumption(d)
  BY <1>1, ModelRows
<1>4. Header \in DOMAIN new.vals /\ Header \in DOMAIN old.vals
  BY <1>2, <1>3 DEF WholeRendering, IsWhole
<1>5. old.vals[Header] = new.vals[Header]
  BY <1>1, <1>2 DEF DocumentsAreWhole
<1>6. IsFunction(new.vals, DOMAIN new.vals) /\ IsRow(new)
  BY <1>2, <1>3 DEF RenderingAssumption, IsRendering, IsRowOf
<1> HIDE DEF new, old
<1> DEFINE vals == [c \in (DOMAIN new.vals \ {Header}) \cup (DOMAIN old.vals \cap {Header}) |->
                      IF c = Header THEN old.vals[c] ELSE new.vals[c]]
<1>7. vals = new.vals
  <2>1. (DOMAIN new.vals \ {Header}) \cup (DOMAIN old.vals \cap {Header}) = DOMAIN new.vals
    BY <1>4
  <2>2. vals = [c \in DOMAIN new.vals |-> new.vals[c]]
    BY <1>5, <2>1
  <2> QED BY <1>6, <2>2 DEF IsFunction
<1>8. Merged(old, new) = [new EXCEPT !.vals = vals]
  BY DEF Merged
<1> HIDE DEF vals
<1>9. [new EXCEPT !.vals = new.vals] = new
  BY <1>6 DEF IsRow
<1> QED BY <1>7, <1>8, <1>9 DEF new, old

LEMMA LandingMerged ==
  ASSUME DocumentsAreWhole, NEW s,
         NEW d \in StoredIn(FALSE, s), NEW e \in StoredIn(FALSE, s), KeyOf(d) = KeyOf(e)
  PROVE  LandingUpdated(LandingRow(e), d) = LandingRow(d)
<1> DEFINE set == SetList(Columns[s], Pk)
           old == LandingRow(e)
           vals == [c \in DOMAIN Values[e] \cup set |-> IF c \in set THEN Values[d][c] ELSE Values[e][c]]
<1>1. /\ d \in DocumentsOf(FALSE) /\ d.schema = s
      /\ e \in DocumentsOf(FALSE) /\ e.schema = s
  BY DEF StoredIn
<1>2. /\ IsFunction(Values[d], ToSet(Columns[s])) /\ IsFunction(Values[e], ToSet(Columns[s]))
  BY <1>1, RunAssumption
<1>3. Values[d][Pk] = Values[e][Pk]
  BY <1>1 DEF DocumentsAreWhole, WholeValues
<1>4. vals = Values[d]
  <2>1. DOMAIN Values[e] = ToSet(Columns[s])
    BY <1>2 DEF IsFunction
  <2>2. DOMAIN Values[e] \cup set = ToSet(Columns[s])
    BY <2>1 DEF SetList
  <2>3. \A c \in ToSet(Columns[s]) : c \in set \/ c = Pk
    BY DEF SetList
  <2>4. vals = [c \in ToSet(Columns[s]) |-> Values[d][c]]
    BY <1>3, <2>2, <2>3
  <2> QED BY <1>2, <2>4 DEF IsFunction
<1>5. old = [table |-> TableName, parent |-> <<>>, at |-> <<KeyOf(e)>>, vals |-> Values[e]]
  BY DEF LandingRow, LandingRowAt
<1>6. old.vals = Values[e]
  BY <1>5
<1>7. LandingUpdated(old, d) = [old EXCEPT !.vals = vals]
  BY <1>1, <1>6 DEF LandingUpdated
<1> HIDE DEF vals, old
<1>8. LandingUpdated(old, d) =
        [table |-> TableName, parent |-> <<>>, at |-> <<KeyOf(d)>>, vals |-> Values[d]]
  BY <1>4, <1>5, <1>7
<1> QED BY <1>8 DEF old, LandingRow, LandingRowAt

LEMMA UpsertDoes ==
  ASSUME SchemasInstall, DocumentsAreWhole, DatabaseInv, modelMode \in BOOLEAN,
         run.flags.model = modelMode, RunSchema \in Usable(modelMode),
         RightIn(RunSchema), HasKey, RowsIn(RunSchema), NEW d \in StoredIn(modelMode, RunSchema)
  PROVE  LET row == DocRow(modelMode, d, 1)
             st == Upsertion(modelMode, d)
         IN /\ There(TableName) => ExecStatement(run.flags, st).ok
            /\ Does(st) => /\ There(TableName) /\ relations' = relations
                           /\ rows' = (rows \ {r \in rows : Same(r, row)}) \cup {row}
<1> DEFINE row == DocRow(modelMode, d, 1)
           st == Upsertion(modelMode, d)
           k == KeyOf(d)
           s == RunSchema
           old == {r \in rows : Same(r, row)}
<1>1. RowsAre(modelMode, d) /\ d.schema = s
  BY DocumentRows DEF StoredIn
<1>2. row = [table |-> TableName, parent |-> <<>>, at |-> <<k>>, vals |-> row.vals]
  BY <1>1 DEF RowsAre
<1>3. row.table = TableName /\ row.at = <<k>> /\ row.parent = <<>>
  <2> HIDE DEF row
  <2> QED BY <1>2
<1>4. ASSUME NEW r \in old
      PROVE  \E e \in StoredIn(modelMode, s) : r = DocRow(modelMode, e, 1) /\ KeyOf(e) = k
  <2>1. r.table = TableName /\ r.at = <<k>>
    BY <1>3 DEF Same
  <2>2. TableName \in TablesIn(modelMode, s)
    BY RootName DEF TablesIn, Usable
  <2>3. PICK e \in StoredIn(modelMode, s) : r \in Whole(modelMode, e)
    BY <2>1, <2>2 DEF RowsIn
  <2>4. r = DocRow(modelMode, e, 1) /\ r.at = <<KeyOf(e)>>
    BY <2>1, <2>3, RootRow
  <2>5. KeyOf(e) = k
    BY <2>1, <2>4
  <2> QED BY <2>4, <2>5
<1>5. CASE modelMode = TRUE
  <2>1. s \in Planned /\ d \in DocumentsOf(TRUE) /\ Renderings[d].key # Nil
    BY <1>5 DEF Usable, StoredIn
  <2>2. row = Renderings[d].row
    BY <1>5 DEF DocRow, RowNumber
  <2>3. IsRowOf(row, Models[s]) /\ row.at # <<Nil>>
    <3>1. RenderingAssumption(d) /\ KeyOf(d) = Renderings[d].key
      BY <2>1, ModelRows
    <3>2. IsRowOf(row, Models[s])
      BY <1>1, <2>2, <3>1 DEF RenderingAssumption, IsRendering
    <3>3. <<k>> # <<Nil>>
      BY <2>1, <3>1
    <3> QED BY <1>3, <3>2, <3>3
  <2>4. st = [op |-> "upsert", row |-> row]
    BY <1>5 DEF Upsertion
  <2> HIDE DEF row, st, s, k
  <2>5. st.op = "upsert" /\ st.row = row /\ st = [op |-> st.op, row |-> st.row]
    BY <2>4
  <2>6. IsWrite(st, s)
    BY <2>3, <2>5 DEF IsWrite
  <2>7. Target(st) = TableName
    BY <1>3, <2>5 DEF Target
  <2>8. There(TableName) => /\ Referring(st) = st
                            /\ NamedColumns(Models[s], st) \subseteq ToSet(TheRelation(Target(st)).columns)
    BY <1>5, <2>1, <2>6, <2>7, ReferringIs DEF s
  <2> DEFINE new == (rows \ old) \cup (IF old = {} THEN {row} ELSE {Merged(r, row) : r \in old})
  <2>9. Exec(rows, st).db = new /\ Exec(rows, st).ok
    <3>1. Exec(rows, st) = ExecUpsert(rows, row)
      BY <2>5 DEF Exec
    <3>2. ExecUpsert(rows, row) = [db |-> new, ok |-> TRUE]
      BY DEF ExecUpsert
    <3> HIDE DEF new
    <3> QED BY <3>1, <3>2
  <2>10. new = (rows \ old) \cup {row}
    <3>1. \A r \in old : Merged(r, row) = row
      <4>1. ASSUME NEW r \in old PROVE Merged(r, row) = row
        <5>1. PICK e \in StoredIn(modelMode, s) : r = DocRow(modelMode, e, 1)
          BY <1>4
        <5>2. e \in StoredIn(TRUE, s) /\ r = DocRow(TRUE, e, 1)
          BY <1>5, <5>1
        <5>3. d \in StoredIn(TRUE, s) /\ row = DocRow(TRUE, d, 1)
          BY <1>5 DEF row, s
        <5> QED BY <5>2, <5>3, RootMerged
      <4> QED BY <4>1
    <3> QED BY <3>1
  <2> HIDE DEF new, old
  <2>11. LET there == /\ There(Target(st))
                      /\ NamedColumns(Models[s], st) \subseteq ToSet(TheRelation(Target(st)).columns)
             result == Exec(rows, Referring(st))
         IN /\ there /\ result.ok => ExecStatement(run.flags, st).ok
            /\ Does(st) => /\ there /\ result.ok
                           /\ relations' = relations /\ rows' = result.db
    <3>1. st.op \in Dml
      BY <2>5 DEF Dml
    <3> QED BY <1>5, <3>1, ModelDml DEF s, RunSchema
  <2> QED BY <2>7, <2>8, <2>9, <2>10, <2>11 DEF row, st, old
<1>6. CASE modelMode = FALSE
  <2> DEFINE table == TheRelation(TableName)
             result == LandingExec(table.pk, rows, st)
             at == {r \in rows : r.at = <<k>>}
  <2>1. st = LandingUpsertOf(d) /\ row = LandingRowAt(<<k>>, Values[d]) /\ row = LandingRow(d)
    BY <1>6 DEF Upsertion, DocRow, LandingRow
  <2>2. /\ There(TableName) /\ table.pk = <<Pk>>
        /\ DOMAIN Values[d] \subseteq ToSet(table.columns)
        /\ RowAt(table.pk, rows, Values[d]) = <<k>>
        /\ LandingNotNull(table.pk, <<k>>)
    BY <1>6, LandingKey
  <2>3. /\ result.db = IF at = {} THEN rows \cup {row}
                       ELSE (rows \ at) \cup {LandingUpdated(r, d) : r \in at}
        /\ result.ok
    <3> DEFINE pk == table.pk
               x == RowAt(pk, rows, Values[d])
               ups == LandingExec(pk, rows, LandingUpsertOf(d))
               there == {r \in rows : r.at = x}
    <3>1. /\ ups.db = IF there = {} THEN rows \cup {LandingRowAt(x, Values[d])}
                      ELSE (rows \ there) \cup {LandingUpdated(r, d) : r \in there}
          /\ ups.ok <=> LandingNotNull(pk, x) /\ pk = <<Pk>>
      BY LandingExecuted
    <3>2. x = <<k>> /\ LandingNotNull(pk, <<k>>) /\ pk = <<Pk>>
      BY <2>2
    <3>3. ups = result
      BY <2>1
    <3>4. there = at
      BY <3>2
    <3> HIDE DEF ups, x, pk, result, there, at
    <3> QED BY <2>1, <3>1, <3>2, <3>3, <3>4
  <2>4. st.table = TableName /\ st.vals = Values[d] /\ st.op \in Dml
    BY <2>1 DEF LandingUpsertOf, Dml
  <2>5. \A r \in rows : r.table = TableName
    <3>1. ASSUME NEW r \in rows PROVE r.table = TableName
      <4>1. PICK t \in relations : t.name = r.table
        BY DEF DatabaseInv, RowsTyped
      <4> QED BY <1>6, <4>1 DEF DatabaseInv, RelationInv
    <3> QED BY <3>1
  <2>6. at = old
    BY <1>3, <2>5 DEF Same
  <2>7. \A r \in old : LandingUpdated(r, d) = row
    <3>1. ASSUME NEW r \in old PROVE LandingUpdated(r, d) = row
      <4>1. PICK e \in StoredIn(modelMode, s) : r = DocRow(modelMode, e, 1) /\ KeyOf(e) = k
        BY <1>4
      <4>2. r = LandingRow(e)
        BY <1>6, <4>1 DEF DocRow
      <4>3. e \in StoredIn(FALSE, s) /\ d \in StoredIn(FALSE, s)
        BY <1>6, <4>1
      <4> QED BY <2>1, <4>1, <4>2, <4>3, LandingMerged
    <3> QED BY <3>1
  <2> HIDE DEF row, st, k, at, old
  <2>8. result.db = (rows \ old) \cup {row}
    BY <2>3, <2>6, <2>7
  <2>9. LET tab == TheRelation(st.table)
            there == There(st.table) /\ DOMAIN st.vals \subseteq ToSet(tab.columns)
            res == LandingExec(tab.pk, rows, st)
        IN /\ there /\ res.ok => ExecStatement(run.flags, st).ok
           /\ Does(st) => /\ there /\ res.ok
                          /\ relations' = relations /\ rows' = res.db
    BY <1>6, <2>4, LandingDml
  <2> QED BY <2>2, <2>3, <2>4, <2>8, <2>9 DEF row, st, old
<1> QED BY <1>5, <1>6

LEMMA DeleteDoes ==
  ASSUME SchemasInstall, DocumentsAreWhole, DatabaseInv, modelMode = TRUE,
         run.flags.model = modelMode, RunSchema \in Usable(modelMode),
         RightIn(RunSchema), RowsIn(RunSchema), ReferIn(RunSchema),
         NEW d \in StoredIn(modelMode, RunSchema), NEW j \in 1..DeleteCount(modelMode, d)
  PROVE  LET st == Deletion(d, j)
             deleted == {r \in rows : r.table = DeleteTable(d, j) /\ Front(r.at) = <<KeyOf(d)>>}
         IN /\ There(DeleteTable(d, j)) => ExecStatement(run.flags, st).ok
            /\ Does(st) => /\ There(DeleteTable(d, j))
                           /\ relations' = relations /\ rows' = rows \ deleted
            /\ DeleteTable(d, j) # TableName /\ DeleteTable(d, j) \in TablesIn(modelMode, RunSchema)
<1> DEFINE s == RunSchema
           st == Deletion(d, j)
           t == DeleteTable(d, j)
           k == KeyOf(d)
           deleted == {r \in rows : r.table = t /\ Front(r.at) = <<k>>}
<1>1. s \in Planned /\ d \in DocumentsOf(TRUE) /\ Renderings[d].key # Nil /\ d.schema = s
  BY DEF Usable, StoredIn
<1>2. t # TableName /\ \E i \in 1..TableCount(s) : t = Models[s].tables[i].name
  <2>1. j \in 1..Len(Renderings[d].deletes)
    BY DEF DeleteCount
  <2>2. \A i \in 1..Len(Renderings[d].deletes) :
          /\ Renderings[d].deletes[i].table # TableName
          /\ \E x \in 1..TableCount(d.schema) :
               Renderings[d].deletes[i].table = Models[d.schema].tables[x].name
    BY <1>1, ModelRows
  <2> QED BY <1>1, <2>1, <2>2 DEF DeleteTable
<1>3. t \in TablesIn(modelMode, s)
  BY <1>1, <1>2, TableNamesAre DEF TablesIn
<1>4. st.op = "delete" /\ st.table = t /\ st.at = <<k>>
  BY DEF Deletion
<1>5. ASSUME NEW r \in rows, r.parent = t
      PROVE  t = <<>>
  <2>1. PICK e \in StoredIn(modelMode, s) : r \in Whole(modelMode, e)
    BY <1>3, <1>5 DEF ReferIn, RowsIn
  <2>2. CASE r.table = TableName
    <3>1. RowsAre(modelMode, e) /\ r = DocRow(modelMode, e, 1)
      BY <2>1, <2>2, RootRow, DocumentRows
    <3>2. r = [table |-> TableName, parent |-> <<>>, at |-> <<KeyOf(e)>>, vals |-> r.vals]
      BY <3>1 DEF RowsAre
    <3>3. r.parent = <<>>
      BY <3>2
    <3> QED BY <1>5, <3>3
  <2>3. CASE r.table # TableName
    <3>1. r.parent = TableName
      BY <2>1, <2>3, RootRow
    <3> QED BY <1>2, <1>5, <3>1
  <2> QED BY <2>2, <2>3
<1>6. Target(st) = t /\ Referring(st) = st /\ st.op \in Dml
  BY <1>4 DEF Target, Referring, Dml
<1> HIDE DEF st, t, k, s
<1>7. There(t) => NamedColumns(Models[s], st) \subseteq ToSet(TheRelation(Target(st)).columns)
  <2>1. PICK i \in 1..TableCount(s) : t = Models[s].tables[i].name
    BY <1>2
  <2> QED BY <1>1, <1>6, <2>1, ModelTarget DEF s
<1> DEFINE db == rows \ deleted
           ok == ~\E r \in rows \ deleted, q \in deleted : Refers(r, q)
<1>8. Exec(rows, st).db = db /\ (Exec(rows, st).ok <=> ok)
  <2>1. Exec(rows, st) = ExecDelete(rows, t, <<k>>)
    BY <1>4 DEF Exec
  <2>2. ExecDelete(rows, t, <<k>>) = [db |-> db, ok |-> ok]
    BY DEF ExecDelete
  <2>3. ok \in BOOLEAN
    OBVIOUS
  <2> HIDE DEF db, ok
  <2>4. Exec(rows, st).db = db /\ Exec(rows, st).ok = ok
    BY <2>1, <2>2
  <2> QED BY <2>3, <2>4
<1>9. ok
  BY <1>5 DEF Refers
<1> HIDE DEF db, ok
<1>10. LET there == /\ There(Target(st))
                    /\ NamedColumns(Models[s], st) \subseteq ToSet(TheRelation(Target(st)).columns)
           result == Exec(rows, Referring(st))
       IN /\ there /\ result.ok => ExecStatement(run.flags, st).ok
          /\ Does(st) => /\ there /\ result.ok
                         /\ relations' = relations /\ rows' = result.db
  BY <1>6, ModelDml DEF s, RunSchema
<1> QED BY <1>2, <1>3, <1>6, <1>7, <1>8, <1>9, <1>10 DEF st, t, k, s, db

(* The statements of a file, in a model or a landing table: the rows of    *)
(* its document are inserted, or deletions, the upsert of its root row and *)
(* the insertions of the others follow.                                    *)
InsertLines(m, flags, d) == IF Inserts(flags) THEN DocCount(m, d) ELSE 0

LEMMA LinesAre ==
  ASSUME SchemasInstall, DocumentsAreWhole, NEW m \in BOOLEAN, NEW flags, Runnable(m, flags),
         NEW i \in 1..Len(flags.files)
  PROVE  LET d == flags.files[i]
             n == DocCount(m, d)
             nd == DeleteCount(m, d)
             ins == InsertLines(m, flags, d)
             file == File(flags, i)
         IN /\ d \in StoredIn(m, flags.schema) /\ (Inserts(flags) \/ Upserts(flags))
            /\ n \in Nat \ {0} /\ nd \in Nat /\ ins \in Nat
            /\ Len(file) = ins + (IF Upserts(flags) THEN nd + n ELSE 0)
            /\ \A e \in 1..ins : file[e] = Insertion(m, d, e)
            /\ Upserts(flags) =>
                 /\ \A j \in 1..nd : m /\ file[ins + j] = Deletion(d, j)
                 /\ file[ins + nd + 1] = Upsertion(m, d)
                 /\ \A e \in 2..n : file[ins + nd + e] = Insertion(m, d, e)
<1> DEFINE d == flags.files[i]
           n == DocCount(m, d)
           nd == DeleteCount(m, d)
           ins == InsertLines(m, flags, d)
           file == File(flags, i)
<1>1. CASE m = TRUE
  <2> DEFINE r == Renderings[d]
  <2>1. ModelFileShape(flags, i)
    BY <1>1, ModelFileIs
  <2>2. d \in DocumentsOf(TRUE) /\ d.schema = flags.schema
    <3>1. IsSequence(flags.files)
          /\ \A j \in DOMAIN flags.files :
               flags.files[j] \in DocumentsOf(m) /\ flags.files[j].schema = flags.schema
      BY RunnableFlags
    <3>2. i \in DOMAIN flags.files
      BY <3>1, SequenceFacts
    <3> QED BY <1>1, <3>1, <3>2
  <2>3. r.key # Nil /\ (Inserts(flags) \/ Upserts(flags))
    BY <2>1 DEF ModelFileShape
  <2>4. d \in StoredIn(m, flags.schema)
    BY <1>1, <2>2, <2>3 DEF StoredIn
  <2>5. n = RowCount(r) /\ nd = Len(r.deletes) /\ ins = InsertCount(flags, i)
    BY <1>1 DEF DocCount, DeleteCount, InsertLines, InsertCount
  <2>6. \A e : DocRow(m, d, e) = RowNumber(r, e)
    BY <1>1 DEF DocRow
  <2>7. \A e : InsertOf(RowNumber(r, e)) = Insertion(m, d, e)
    BY <1>1, <2>6 DEF Insertion
  <2>8. [op |-> "upsert", row |-> r.row] = Upsertion(m, d)
    BY <1>1, <2>6 DEF Upsertion, RowNumber
  <2>9. \A j \in 1..nd : r.deletes[j] = Deletion(d, j)
    <3>1. /\ KeyOf(d) = r.key
          /\ \A j \in 1..Len(r.deletes) :
               r.deletes[j] = [op |-> "delete", table |-> r.deletes[j].table, at |-> <<r.key>>]
      BY <2>2, <2>3, ModelRows
    <3> QED BY <2>5, <3>1 DEF Deletion, DeleteTable
  <2>10. /\ n \in Nat \ {0} /\ nd \in Nat /\ ins \in Nat
         /\ Len(file) = ins + (IF Upserts(flags) THEN nd + n ELSE 0)
         /\ \A j \in 1..ins : file[j] = InsertOf(RowNumber(r, j))
         /\ Upserts(flags) =>
              /\ \A j \in 1..nd : file[ins + j] = r.deletes[j]
              /\ file[ins + nd + 1] = [op |-> "upsert", row |-> r.row]
              /\ \A j \in 2..n : file[ins + nd + j] = InsertOf(RowNumber(r, j))
    <3> HIDE DEF n, nd, ins
    <3> QED BY <2>1, <2>5 DEF ModelFileShape
  <2> HIDE DEF n, nd, ins, r, d, file
  <2> QED BY <1>1, <2>3, <2>4, <2>7, <2>8, <2>9, <2>10 DEF n, nd, ins, d, file
<1>2. CASE m = FALSE
  <2>1. /\ d \in DocumentsOf(FALSE) /\ d.schema = flags.schema
        /\ Inserts(flags) \/ Upserts(flags)
        /\ Len(file) = (IF Inserts(flags) THEN 1 ELSE 0) + (IF Upserts(flags) THEN 1 ELSE 0)
        /\ Inserts(flags) => file[1] = LandingInsert(TableName, Values[d])
        /\ Upserts(flags) => file[(IF Inserts(flags) THEN 1 ELSE 0) + 1] = LandingUpsertOf(d)
    BY <1>2, LandingFileIs
  <2>2. d \in StoredIn(m, flags.schema)
    BY <1>2, <2>1 DEF StoredIn
  <2>3. n = 1 /\ nd = 0 /\ ins = IF Inserts(flags) THEN 1 ELSE 0
    BY <1>2 DEF DocCount, DeleteCount, InsertLines
  <2>4. Upsertion(m, d) = LandingUpsertOf(d) /\ \A e : Insertion(m, d, e) = LandingInsert(TableName, Values[d])
    BY <1>2 DEF Insertion, Upsertion
  <2> HIDE DEF n, nd, ins, d, file
  <2>5. /\ n \in Nat \ {0} /\ nd \in Nat /\ ins \in Nat
        /\ Len(file) = ins + (IF Upserts(flags) THEN nd + n ELSE 0)
    BY <2>1, <2>3
  <2>6. \A e \in 1..ins : e = 1 /\ Inserts(flags)
    BY <2>3
  <2>7. /\ \A j \in 1..nd : FALSE
        /\ \A e \in 2..n : FALSE
        /\ ins + nd + 1 = ins + 1
    BY <2>3
  <2> QED BY <2>1, <2>2, <2>3, <2>4, <2>5, <2>6, <2>7 DEF n, nd, ins, d, file
<1> QED BY <1>1, <1>2

(* The statement at a line of a file, by its place.                        *)
IsLine(m, flags, d, l, st) ==
  LET n == DocCount(m, d)
      nd == DeleteCount(m, d)
      ins == InsertLines(m, flags, d)
  IN /\ d \in StoredIn(m, flags.schema) /\ n \in Nat \ {0} /\ nd \in Nat /\ ins \in {0, n}
     /\ \/ l \in 1..ins /\ Inserts(flags) /\ st = Insertion(m, d, l)
        \/ l - ins \in 1..nd /\ Upserts(flags) /\ m /\ st = Deletion(d, l - ins)
        \/ l - ins - nd = 1 /\ Upserts(flags) /\ st = Upsertion(m, d)
        \/ l - ins - nd \in 2..n /\ Upserts(flags) /\ st = Insertion(m, d, l - ins - nd)

LEMMA LineIs ==
  ASSUME SchemasInstall, DocumentsAreWhole, NEW m \in BOOLEAN, NEW flags, Runnable(m, flags),
         NEW i \in 1..Len(flags.files), NEW l \in 1..Len(File(flags, i))
  PROVE  IsLine(m, flags, flags.files[i], l, File(flags, i)[l])
<1> DEFINE d == flags.files[i]
           n == DocCount(m, d)
           nd == DeleteCount(m, d)
           ins == InsertLines(m, flags, d)
           file == File(flags, i)
<1>1. /\ d \in StoredIn(m, flags.schema)
      /\ n \in Nat \ {0} /\ nd \in Nat /\ ins \in Nat
      /\ Len(file) = ins + (IF Upserts(flags) THEN nd + n ELSE 0)
      /\ \A e \in 1..ins : file[e] = Insertion(m, d, e)
      /\ Upserts(flags) =>
           /\ \A j \in 1..nd : m /\ file[ins + j] = Deletion(d, j)
           /\ file[ins + nd + 1] = Upsertion(m, d)
           /\ \A e \in 2..n : file[ins + nd + e] = Insertion(m, d, e)
  BY LinesAre
<1>2. ins \in {0, n} /\ (Inserts(flags) \/ ins = 0)
  BY DEF InsertLines
<1>3. l \in Nat /\ l >= 1 /\ l <= ins + (IF Upserts(flags) THEN nd + n ELSE 0)
  <2>1. l \in 1..Len(file)
    OBVIOUS
  <2> HIDE DEF file, n, nd, ins
  <2> QED BY <1>1, <2>1
<1> HIDE DEF file, n, nd, ins, d
<1>4. CASE l <= ins
  <2>1. l \in 1..ins
    BY <1>1, <1>3, <1>4
  <2>2. file[l] = Insertion(m, d, l) /\ Inserts(flags)
    BY <1>1, <1>2, <2>1
  <2> QED BY <1>1, <1>2, <2>1, <2>2 DEF IsLine, file, n, nd, ins, d
<1>5. CASE l > ins /\ l <= ins + nd
  <2>1. Upserts(flags) /\ l - ins \in 1..nd /\ ins + (l - ins) = l
    BY <1>1, <1>3, <1>5
  <2>2. m /\ file[l] = Deletion(d, l - ins)
    BY <1>1, <2>1
  <2> QED BY <1>1, <1>2, <2>1, <2>2 DEF IsLine, file, n, nd, ins, d
<1>6. CASE l = ins + nd + 1
  <2>1. Upserts(flags) /\ l - ins - nd = 1
    BY <1>1, <1>3, <1>6
  <2>2. file[l] = Upsertion(m, d)
    BY <1>1, <1>6, <2>1
  <2> QED BY <1>1, <1>2, <2>1, <2>2 DEF IsLine, file, n, nd, ins, d
<1>7. CASE l > ins + nd + 1
  <2>1. Upserts(flags) /\ l - ins - nd \in 2..n /\ ins + nd + (l - ins - nd) = l
    BY <1>1, <1>3, <1>7
  <2>2. file[l] = Insertion(m, d, l - ins - nd)
    BY <1>1, <2>1
  <2> QED BY <1>1, <1>2, <2>1, <2>2 DEF IsLine, file, n, nd, ins, d
<1> QED BY <1>1, <1>3, <1>4, <1>5, <1>6, <1>7

(* The statement a run is at, whatever comes of it.                        *)
LEMMA CurrentIs ==
  ASSUME SchemasInstall, DocumentsAreWhole, TypedInv, run # Nobody, ~AtEnd
  PROVE  \/ /\ InPrelude /\ run.prelude + 1 \in 1..DropCount /\ Current.op = "drop"
            /\ Current = DropStatements(run.flags)[run.prelude + 1]
            /\ run.flags.drop
            /\ \/ Current.name \in TablesIn(modelMode, RunSchema)
               \/ modelMode /\ Current.name \in ViewNames(RunSchema)
         \/ \E j \in 1..CreateCount :
              /\ InPrelude /\ run.prelude + 1 = DropCount + j
              /\ Current = CreateAll(run.flags)[j] /\ Current.op \in {"create", "alter"}
         \/ /\ ~InPrelude /\ run.file \in 1..Len(run.flags.files)
            /\ run.line \in 1..Len(File(run.flags, run.file))
            /\ IsLine(modelMode, run.flags, run.flags.files[run.file], run.line, Current)
<1> DEFINE st == Current
           i == run.prelude + 1
           j == run.prelude + 1 - DropCount
<1>1. Runnable(modelMode, run.flags) /\ modelMode \in BOOLEAN
      /\ run.prelude \in 0..Len(Prelude(run.flags))
  BY DEF TypedInv, RunInv
<1>2. /\ DropCount \in Nat /\ CreateCount \in Nat
      /\ Len(Prelude(run.flags)) = DropCount + CreateCount
      /\ \/ InPrelude /\ i \in 1..DropCount /\ st = DropStatements(run.flags)[i]
         \/ InPrelude /\ j \in 1..CreateCount /\ st = CreateAll(run.flags)[j]
         \/ /\ ~InPrelude /\ run.file \in 1..Len(run.flags.files)
            /\ run.line \in 1..Len(File(run.flags, run.file))
            /\ st = File(run.flags, run.file)[run.line]
  BY Position
<1>3. i = DropCount + j
  <2>1. run.prelude \in Nat
    BY <1>1, <1>2
  <2> QED BY <1>2, <2>1
<1> HIDE DEF st, i, j
<1>4. CASE InPrelude /\ i \in 1..DropCount /\ st = DropStatements(run.flags)[i]
  <2>1. /\ run.flags.drop /\ st = Drop(st.kind, st.name)
        /\ \/ st.name \in TablesIn(modelMode, RunSchema)
           \/ modelMode /\ st.name \in ViewNames(RunSchema)
    BY <1>1, <1>4, DropsAre DEF DropCount, RunSchema
  <2>2. st.op = "drop"
    BY <2>1 DEF Drop
  <2> QED BY <1>4, <2>1, <2>2 DEF st, i
<1>5. CASE InPrelude /\ j \in 1..CreateCount /\ st = CreateAll(run.flags)[j]
  <2>1. \/ st.op = "create"
        \/ st = LandingCreate(TableName, Columns[run.flags.schema])
        \/ st = [op |-> "alter", table |-> TableName, pk |-> <<Pk>>]
    BY <1>1, <1>5, CreatedAre DEF CreateCount
  <2>2. st.op \in {"create", "alter"}
    BY <2>1 DEF LandingCreate
  <2> QED BY <1>3, <1>5, <2>2 DEF st, i
<1>6. CASE /\ ~InPrelude /\ run.file \in 1..Len(run.flags.files)
           /\ run.line \in 1..Len(File(run.flags, run.file))
           /\ st = File(run.flags, run.file)[run.line]
  <2>1. IsLine(modelMode, run.flags, run.flags.files[run.file], run.line, st)
    BY <1>1, <1>6, LineIs
  <2> QED BY <1>6, <2>1 DEF st
<1> QED BY <1>2, <1>4, <1>5, <1>6

(* A row that refers to a table refers to one that is there.               *)
HasParent(r) ==
  r.parent # <<>> => \E t \in relations : t.name = r.parent /\ t.kind = "table"

ParentsInv == \A r \in rows : HasParent(r)

(* What a statement of a file writes refers to what is there.              *)
LEMMA ParentsAfterLine ==
  ASSUME NamesApart, SchemasInstall, DocumentsAreWhole, TypedInv, ParentsInv, run # Nobody,
         Does(Current), UNCHANGED modelMode, NEW d, NEW l,
         IsLine(modelMode, run.flags, d, l, Current)
  PROVE  ParentsInv'
<1> DEFINE st == Current
<1>1. /\ Runnable(modelMode, run.flags) /\ modelMode \in BOOLEAN /\ DatabaseInv
      /\ run.flags.model = modelMode /\ RunSchema \in Usable(modelMode)
  BY RunnableFlags DEF TypedInv, RunInv, RunSchema
<1>2. d \in StoredIn(modelMode, RunSchema)
      /\ \/ \E e \in 1..DocCount(modelMode, d) : st = Insertion(modelMode, d, e)
         \/ \E j \in 1..DeleteCount(modelMode, d) : modelMode /\ st = Deletion(d, j)
         \/ st = Upsertion(modelMode, d)
  <2> DEFINE n == DocCount(modelMode, d)
             nd == DeleteCount(modelMode, d)
             ins == InsertLines(modelMode, run.flags, d)
  <2>1. /\ d \in StoredIn(modelMode, run.flags.schema) /\ n \in Nat \ {0} /\ ins \in {0, n}
        /\ \/ l \in 1..ins /\ st = Insertion(modelMode, d, l)
           \/ l - ins \in 1..nd /\ modelMode /\ st = Deletion(d, l - ins)
           \/ st = Upsertion(modelMode, d)
           \/ l - ins - nd \in 2..n /\ st = Insertion(modelMode, d, l - ins - nd)
    BY DEF IsLine
  <2> HIDE DEF n, nd, ins, st
  <2>2. 1..ins \subseteq 1..n /\ 2..n \subseteq 1..n
    BY <2>1
  <2> QED BY <2>1, <2>2 DEF n, nd, RunSchema
<1>3. RowsAre(modelMode, d) /\ d.schema = RunSchema
  BY <1>1, <1>2, DocumentRows DEF StoredIn
<1>4. \A r \in rows : HasParent(r)
  BY DEF ParentsInv
<1> HIDE DEF st
<1>5. ASSUME relations' = relations, \A r \in rows' : HasParent(r)
      PROVE  ParentsInv'
  BY <1>5 DEF ParentsInv, HasParent
<1>6. CASE modelMode = TRUE
  <2> DEFINE ref == Referring(st)
             model == Models[RunSchema]
  <2>1. RunSchema \in Planned /\ d \in DocumentsOf(TRUE) /\ Renderings[d].key # Nil
    BY <1>1, <1>2, <1>6 DEF Usable, StoredIn
  <2>2. \/ st.op = "delete"
        \/ /\ st.op \in {"insert", "upsert"} /\ IsRowOf(st.row, Models[RunSchema])
           /\ st = [op |-> st.op, row |-> st.row] /\ st.row.at # <<Nil>>
           /\ st.op = "upsert" => st.row.parent = <<>>
    <3>1. ASSUME NEW e \in 1..DocCount(TRUE, d)
          PROVE  /\ IsRowOf(DocRow(TRUE, d, e), Models[RunSchema])
                 /\ DocRow(TRUE, d, e).at # <<Nil>>
      <4>1. \A j \in 1..Len(Renderings[d].children) :
              Renderings[d].children[j] = InsertOf(Renderings[d].children[j].row)
        BY <2>1, ModelRows
      <4>2. e \in 1..RowCount(Renderings[d]) /\ DocRow(TRUE, d, e) = RowNumber(Renderings[d], e)
        BY DEF DocCount, DocRow
      <4>3. LET row == RowNumber(Renderings[d], e)
            IN IsRowOf(row, Models[d.schema]) /\ row.at # <<Nil>>
        BY <2>1, <4>1, <4>2, RowsOfDocument
      <4> QED BY <1>3, <4>2, <4>3
    <3>2. CASE \E e \in 1..DocCount(modelMode, d) : st = Insertion(modelMode, d, e)
      <4>1. PICK e \in 1..DocCount(TRUE, d) : st = InsertOf(DocRow(TRUE, d, e))
        BY <1>6, <3>2 DEF Insertion
      <4> DEFINE row == DocRow(TRUE, d, e)
      <4>2. IsRowOf(row, Models[RunSchema]) /\ row.at # <<Nil>>
        BY <3>1
      <4> HIDE DEF row
      <4>3. st = [op |-> "insert", row |-> row]
        BY <4>1 DEF InsertOf, row
      <4> QED BY <4>2, <4>3
    <3>3. CASE st = Upsertion(modelMode, d)
      <4> DEFINE row == DocRow(TRUE, d, 1)
      <4>1. st = [op |-> "upsert", row |-> row]
        BY <1>6, <3>3 DEF Upsertion
      <4>2. RowsAre(TRUE, d)
        BY <1>3, <1>6
      <4>5. row = [table |-> TableName, parent |-> <<>>, at |-> <<KeyOf(d)>>, vals |-> row.vals]
        BY <4>2 DEF RowsAre
      <4>6. 1 \in 1..DocCount(TRUE, d)
        <5> DEFINE n == DocCount(TRUE, d)
        <5>1. n \in Nat \ {0}
          BY <4>2 DEF RowsAre
        <5> HIDE DEF n
        <5>2. 1 \in 1..n
          BY <5>1
        <5> QED BY <5>2 DEF n
      <4>3. IsRowOf(row, Models[RunSchema]) /\ row.at # <<Nil>>
        BY <3>1, <4>6
      <4> HIDE DEF row
      <4>4. row.parent = <<>>
        BY <4>5
      <4> QED BY <4>1, <4>3, <4>4
    <3>4. CASE \E j \in 1..DeleteCount(modelMode, d) : st = Deletion(d, j)
      BY <3>4 DEF Deletion
    <3> QED BY <1>2, <3>2, <3>3, <3>4
  <2>3. /\ There(Target(st)) /\ NamedColumns(model, st) \subseteq ToSet(TheRelation(Target(st)).columns)
        /\ relations' = relations /\ rows' = Exec(rows, ref).db /\ Exec(rows, ref).ok
    <3>1. st.op \in Dml /\ Does(st)
      BY <2>2 DEF Dml, st
    <3> QED BY <1>1, <1>6, <3>1, ModelDml DEF RunSchema
  <2>4. CASE st.op = "delete"
    <3>1. ref = st
      BY <2>4 DEF Referring
    <3>2. rows' \subseteq rows
      BY <2>3, <2>4, <3>1 DEF Exec, ExecDelete
    <3> QED BY <1>4, <1>5, <2>3, <3>2
  <2>5. CASE st.op # "delete"
    <3>1. IsWrite(st, RunSchema)
      BY <2>2, <2>5 DEF IsWrite
    <3>2. /\ ref.op = st.op /\ IsRow(ref.row)
          /\ ref.row = st.row \/ ref.row = [st.row EXCEPT !.parent = <<>>]
      BY <1>1, <1>6, <2>1, <2>3, <3>1, WriteTarget
    <3>3. IsRow(st.row)
      BY <2>1, <3>1, RowsAreOfTables DEF IsWrite
    <3>4. st.op = "upsert" => ref.row.parent = <<>>
      BY <2>2, <2>5, <3>2, <3>3 DEF IsRow
    <3> HIDE DEF ref
    <3>5. CASE st.op = "insert"
      <4>1. rows' = rows \cup {ref.row} /\ ParentThere(rows, ref.row)
        BY <2>3, <3>2, <3>5 DEF Exec, ExecInsert
      <4>2. HasParent(ref.row)
        BY <1>1, <4>1 DEF ParentThere, HasParent, DatabaseInv, RowsTyped
      <4> QED BY <1>4, <1>5, <2>3, <4>1, <4>2
    <3>6. CASE st.op = "upsert"
      <4> DEFINE old == {r \in rows : Same(r, ref.row)}
      <4>1. rows' = (rows \ old) \cup (IF old = {} THEN {ref.row} ELSE {Merged(r, ref.row) : r \in old})
        BY <2>3, <3>2, <3>6 DEF Exec, ExecUpsert
      <4>2. \A r : Merged(r, ref.row).parent = <<>>
        BY <3>2, <3>4, <3>6 DEF Merged, IsRow
      <4>3. \A r \in rows' : r \in rows \/ r.parent = <<>>
        BY <3>4, <3>6, <4>1, <4>2
      <4>4. \A r \in rows' : HasParent(r)
        BY <1>4, <4>3 DEF HasParent
      <4> QED BY <1>5, <2>3, <4>4
    <3> QED BY <2>2, <2>5, <3>5, <3>6
  <2> QED BY <2>4, <2>5
<1>7. CASE modelMode = FALSE
  <2> DEFINE pk == TheRelation(TableName).pk
             at == RowAt(pk, rows, Values[d])
             old == {r \in rows : r.at = at}
  <2>1. st \in {LandingInsert(TableName, Values[d]), LandingUpsertOf(d)}
    BY <1>2, <1>7 DEF Insertion, Upsertion
  <2>2. st.op \in Dml /\ st.table = TableName
    BY <2>1 DEF Dml, LandingInsert, LandingUpsertOf
  <2>3. relations' = relations /\ rows' = LandingExec(pk, rows, st).db
    <3>1. Does(st)
      BY DEF st
    <3> QED BY <1>1, <1>7, <2>2, <3>1, LandingDml
  <2>4. \/ rows' = rows \cup {LandingRowAt(at, Values[d])}
        \/ rows' = (rows \ old) \cup {LandingUpdated(r, d) : r \in old}
    BY <2>1, <2>3, LandingExecuted
  <2> HIDE DEF pk, at
  <2>5. LandingRowAt(at, Values[d]).parent = <<>>
    BY DEF LandingRowAt
  <2>6. ASSUME NEW r \in rows
        PROVE  LandingUpdated(r, d).parent = r.parent
    <3>1. IsRow(r)
      BY <1>1 DEF DatabaseInv, RowsTyped
    <3> QED BY <3>1 DEF IsRow, LandingUpdated
  <2>7. \A q \in rows' : q.parent = <<>> \/ \E r \in rows : q.parent = r.parent
    BY <2>4, <2>5, <2>6
  <2>8. \A q \in rows' : HasParent(q)
    BY <1>4, <2>7 DEF HasParent
  <2> QED BY <1>5, <2>3, <2>8
<1> QED BY <1>1, <1>6, <1>7

(* And -drop takes the reference with the table.                           *)
LEMMA ParentsAfterDrop ==
  ASSUME TypedInv, ParentsInv, NEW st, st.op = "drop", Does(st)
  PROVE  ParentsInv'
<1> DEFINE n == st.name
<1>1. \/ UNCHANGED <<relations, rows>>
      \/ /\ relations' = {WithoutUse(r, n) : r \in {q \in relations : ~GoesWith(q, n)}}
         /\ rows' = {WithoutParent(r, n) : r \in {q \in rows : q.table # n}}
  BY Dropping
<1>2. CASE UNCHANGED <<relations, rows>>
  BY <1>2 DEF ParentsInv, HasParent
<1>3. CASE /\ relations' = {WithoutUse(r, n) : r \in {q \in relations : ~GoesWith(q, n)}}
           /\ rows' = {WithoutParent(r, n) : r \in {q \in rows : q.table # n}}
  <2>1. ASSUME NEW q \in rows', q.parent # <<>>
        PROVE  \E t \in relations' : t.name = q.parent /\ t.kind = "table"
    <3>1. PICK r \in rows : q = WithoutParent(r, n)
      BY <1>3
    <3>2. IsRow(r)
      BY DEF TypedInv, DatabaseInv, RowsTyped
    <3>3. q.parent = r.parent /\ r.parent # n
      BY <2>1, <3>1, <3>2 DEF WithoutParent, IsRow
    <3>4. PICK t \in relations : t.name = r.parent /\ t.kind = "table"
      BY <2>1, <3>3 DEF ParentsInv, HasParent
    <3>5. t = [name |-> t.name, kind |-> t.kind, columns |-> t.columns, uses |-> t.uses, pk |-> t.pk]
      BY DEF TypedInv, DatabaseInv, RelationInv
    <3>6. ~GoesWith(t, n)
      BY <3>3, <3>4 DEF GoesWith
    <3>7. WithoutUse(t, n) \in relations'
          /\ WithoutUse(t, n).name = t.name /\ WithoutUse(t, n).kind = t.kind
      BY <1>3, <3>5, <3>6, UseRemoved
    <3> QED BY <3>3, <3>4, <3>7
  <2> QED BY <2>1 DEF ParentsInv, HasParent
<1> QED BY <1>1, <1>2, <1>3

LEMMA ParentsAfter ==
  ASSUME NamesApart, SchemasInstall, DocumentsAreWhole, TypedInv, ParentsInv, run # Nobody,
         ~AtEnd, Does(Current), UNCHANGED modelMode
  PROVE  ParentsInv'
<1> DEFINE st == Current
<1>1. \/ st.op = "drop"
      \/ \E j \in 1..CreateCount : st = CreateAll(run.flags)[j] /\ st.op \in {"create", "alter"}
      \/ IsLine(modelMode, run.flags, run.flags.files[run.file], run.line, st)
  BY CurrentIs
<1>2. CASE st.op = "drop"
  BY <1>2, ParentsAfterDrop
<1>3. CASE st.op = "create"
  <2>1. relations' = relations \cup {NewRelation(st)} /\ rows' = rows
    BY <1>3, Creating
  <2> QED BY <2>1 DEF ParentsInv, HasParent
<1>4. ASSUME NEW j \in 1..CreateCount, st = CreateAll(run.flags)[j], st.op = "alter"
      PROVE  ParentsInv'
  <2> DEFINE table == TheRelation(st.table)
             new == [table EXCEPT !.pk = st.pk]
  <2>1. /\ There(st.table) /\ rows' = rows
        /\ relations' = (relations \ {table}) \cup {new}
    BY <1>4, Altering DEF Does
  <2>2. table \in relations
    BY <2>1, ThereIsOne
  <2>3. table = [name |-> table.name, kind |-> table.kind, columns |-> table.columns,
                 uses |-> table.uses, pk |-> table.pk]
    BY <2>2 DEF TypedInv, DatabaseInv, RelationInv
  <2> HIDE DEF table
  <2>4. new.name = table.name /\ new.kind = table.kind
    BY <2>3
  <2> HIDE DEF new
  <2>5. \A t \in relations : \E q \in relations' : q.name = t.name /\ q.kind = t.kind
    BY <2>1, <2>4
  <2> QED BY <2>1, <2>5 DEF ParentsInv, HasParent
<1>5. CASE IsLine(modelMode, run.flags, run.flags.files[run.file], run.line, st)
  BY <1>5, ParentsAfterLine
<1> QED BY <1>1, <1>2, <1>3, <1>4, <1>5

LEMMA ParentsNext ==
  ASSUME NamesApart, SchemasInstall, DocumentsAreWhole, TypedInv, ParentsInv, [Next]_vars
  PROVE  ParentsInv'
<1>1. CASE UNCHANGED <<relations, rows>>
  BY <1>1 DEF ParentsInv, HasParent
<1>2. CASE ExecNext \/ CutOff
  <2>1. /\ run # Nobody /\ ~AtEnd /\ UNCHANGED modelMode
        /\ UNCHANGED <<relations, rows>> \/ Does(Current)
    BY <1>2, StepDoes
  <2> QED BY <1>1, <2>1, ParentsAfter
<1> QED BY <1>1, <1>2 DEF Next, Start, Finish, vars

(* What each statement of a file does, when the tables are as they should  *)
(* be.                                                                     *)
Inserted(d, e) ==
  LET row == DocRow(modelMode, d, e)
  IN There(row.table) /\ InsertFits(row, KeyOf(d)) /\ rows' = rows \cup {row}

Upserted(d) ==
  LET row == DocRow(modelMode, d, 1)
  IN There(TableName) /\ rows' = (rows \ {r \in rows : Same(r, row)}) \cup {row}

Deleted(d, j) ==
  LET t == DeleteTable(d, j)
  IN /\ There(t) /\ t # TableName /\ t \in TablesIn(modelMode, RunSchema)
     /\ rows' = rows \ {r \in rows : r.table = t /\ Front(r.at) = <<KeyOf(d)>>}

LEMMA LineDoes ==
  ASSUME SchemasInstall, DocumentsAreWhole, TypedInv, run # Nobody,
         RightIn(RunSchema), HasKey, RowsClean(RunSchema), Does(Current),
         NEW d, NEW l, IsLine(modelMode, run.flags, d, l, Current)
  PROVE  LET n == DocCount(modelMode, d)
             nd == DeleteCount(modelMode, d)
             ins == InsertLines(modelMode, run.flags, d)
         IN /\ relations' = relations
            /\ d \in StoredIn(modelMode, RunSchema) /\ RowsAre(modelMode, d) /\ d.schema = RunSchema
            /\ n \in Nat \ {0} /\ nd \in Nat /\ ins \in {0, n}
            /\ \/ l \in 1..ins /\ l \in 1..n /\ Inserted(d, l)
               \/ l - ins \in 1..nd /\ modelMode /\ Deleted(d, l - ins)
               \/ l - ins - nd = 1 /\ Upserted(d)
               \/ l - ins - nd \in 2..n /\ l - ins - nd \in 1..n /\ Inserted(d, l - ins - nd)
<1> DEFINE n == DocCount(modelMode, d)
           nd == DeleteCount(modelMode, d)
           ins == InsertLines(modelMode, run.flags, d)
           st == Current
<1>1. /\ Runnable(modelMode, run.flags) /\ modelMode \in BOOLEAN /\ DatabaseInv
      /\ run.flags.model = modelMode /\ RunSchema \in Usable(modelMode)
  BY RunnableFlags DEF TypedInv, RunInv, RunSchema
<1>2. /\ d \in StoredIn(modelMode, RunSchema) /\ n \in Nat \ {0} /\ nd \in Nat /\ ins \in {0, n}
      /\ \/ l \in 1..ins /\ st = Insertion(modelMode, d, l)
         \/ l - ins \in 1..nd /\ modelMode /\ st = Deletion(d, l - ins)
         \/ l - ins - nd = 1 /\ st = Upsertion(modelMode, d)
         \/ l - ins - nd \in 2..n /\ st = Insertion(modelMode, d, l - ins - nd)
  BY DEF IsLine, RunSchema
<1>3. RowsAre(modelMode, d) /\ d.schema = RunSchema
  BY <1>1, <1>2, DocumentRows DEF StoredIn
<1>4. RowsIn(RunSchema) /\ ReferIn(RunSchema)
  BY DEF RowsClean
<1>5. ASSUME NEW e \in 1..n, st = Insertion(modelMode, d, e)
      PROVE  relations' = relations /\ Inserted(d, e)
  <2>1. LET row == DocRow(modelMode, d, e)
            i == Insertion(modelMode, d, e)
        IN Does(i) => /\ There(row.table) /\ InsertFits(row, KeyOf(d))
                      /\ relations' = relations /\ rows' = rows \cup {row}
    BY <1>1, <1>2, InsertDoes
  <2> QED BY <1>5, <2>1 DEF Inserted
<1>6. ASSUME st = Upsertion(modelMode, d)
      PROVE  relations' = relations /\ Upserted(d)
  <2>1. LET row == DocRow(modelMode, d, 1)
            u == Upsertion(modelMode, d)
        IN Does(u) => /\ There(TableName) /\ relations' = relations
                      /\ rows' = (rows \ {r \in rows : Same(r, row)}) \cup {row}
    BY <1>1, <1>2, <1>4, UpsertDoes
  <2> QED BY <1>6, <2>1 DEF Upserted
<1>7. ASSUME modelMode, NEW j \in 1..nd, st = Deletion(d, j)
      PROVE  relations' = relations /\ Deleted(d, j)
  <2>1. modelMode = TRUE
    BY <1>1, <1>7
  <2>2. LET x == Deletion(d, j)
            deleted == {r \in rows : r.table = DeleteTable(d, j) /\ Front(r.at) = <<KeyOf(d)>>}
        IN /\ Does(x) => /\ There(DeleteTable(d, j))
                         /\ relations' = relations /\ rows' = rows \ deleted
           /\ DeleteTable(d, j) # TableName /\ DeleteTable(d, j) \in TablesIn(modelMode, RunSchema)
    BY <1>1, <1>2, <1>4, <2>1, DeleteDoes
  <2> QED BY <1>7, <2>2 DEF Deleted
<1> HIDE DEF n, nd, ins, st
<1>8. 1..ins \subseteq 1..n /\ 2..n \subseteq 1..n
  BY <1>2
<1> QED BY <1>2, <1>3, <1>5, <1>6, <1>7, <1>8 DEF n, nd, ins

(* The rows stay clean.                                                    *)
LEMMA CleanAfterLine ==
  ASSUME SchemasInstall, DocumentsAreWhole, TypedInv, run # Nobody,
         RightIn(RunSchema), HasKey, RowsClean(RunSchema), Does(Current),
         NEW d, NEW l, IsLine(modelMode, run.flags, d, l, Current),
         NEW s, s = RunSchema, UNCHANGED modelMode
  PROVE  RowsClean(s)'
<1> DEFINE n == DocCount(modelMode, d)
           k == KeyOf(d)
<1>1. /\ d \in StoredIn(modelMode, s) /\ RowsAre(modelMode, d) /\ d.schema = s
      /\ n \in Nat \ {0}
      /\ \/ \E e \in 1..n : Inserted(d, e)
         \/ \E j : Deleted(d, j)
         \/ Upserted(d)
  BY LineDoes
<1>2. RowsIn(s) /\ UniqueIn(s) /\ RootIn(s) /\ ReferIn(s)
  BY DEF RowsClean
<1>3. \A e \in 1..n :
        LET row == DocRow(modelMode, d, e)
        IN row \in Whole(modelMode, d) /\ row.at[1] = k /\ row.table \in TablesIn(modelMode, s)
  BY <1>1 DEF RowsAre, Whole, Written
<1>4. TablesIn(modelMode', s) = TablesIn(modelMode, s)
      /\ StoredIn(modelMode', s) = StoredIn(modelMode, s)
      /\ \A x : Whole(modelMode', x) = Whole(modelMode, x)
  OBVIOUS
<1> DEFINE T == TablesIn(modelMode, s)
<1>5. ASSUME NEW e \in 1..n, Inserted(d, e)
      PROVE  RowsClean(s)'
  <2> DEFINE row == DocRow(modelMode, d, e)
  <2>1. /\ \A r \in rows : ~Same(r, row)
        /\ row.table = TableName \/ \E q \in rows : q.table = TableName /\ q.at = <<k>>
        /\ rows' = rows \cup {row}
    BY <1>5 DEF Inserted, InsertFits
  <2>2. row \in Whole(modelMode, d) /\ row.at[1] = k /\ row.table \in T
    BY <1>3
  <2> HIDE DEF row, T, k
  <2>3. RowsIn(s)'
    BY <1>1, <1>2, <1>4, <2>1, <2>2 DEF RowsIn, T
  <2>4. UniqueIn(s)'
    BY <1>2, <1>4, <2>1, <2>2 DEF UniqueIn, T, Same
  <2>5. RootIn(s)'
    BY <1>2, <1>4, <2>1, <2>2 DEF RootIn, T
  <2>6. ReferIn(s)'
    BY <1>2, <1>4, <2>1, <2>2 DEF ReferIn, T
  <2> QED BY <2>3, <2>4, <2>5, <2>6 DEF RowsClean
<1>6. CASE Upserted(d)
  <2> DEFINE row == DocRow(modelMode, d, 1)
             old == {r \in rows : Same(r, row)}
  <2>1. rows' = (rows \ old) \cup {row}
    BY <1>6 DEF Upserted
  <2>2. 1 \in 1..n
    BY <1>1
  <2>3. row \in Whole(modelMode, d) /\ row.at[1] = k /\ row.table \in T
    BY <1>3, <2>2
  <2>4. row.table = TableName
    <3>1. row = [table |-> TableName, parent |-> <<>>, at |-> <<k>>, vals |-> row.vals]
      BY <1>1 DEF RowsAre
    <3> HIDE DEF row
    <3> QED BY <3>1
  <2> HIDE DEF row, T, k
  <2>5. RowsIn(s)'
    BY <1>1, <1>2, <1>4, <2>1, <2>3 DEF RowsIn, T
  <2>6. UniqueIn(s)'
    BY <1>2, <1>4, <2>1, <2>3 DEF UniqueIn, T, Same
  <2>7. RootIn(s)'
    <3>1. ASSUME NEW r \in rows', r.table \in T, r.table # TableName
          PROVE  \E q \in rows' : q.table = TableName /\ q.at = <<r.at[1]>>
      <4>1. r \in rows
        BY <2>1, <2>4, <3>1
      <4>2. PICK q \in rows : q.table = TableName /\ q.at = <<r.at[1]>>
        BY <1>2, <3>1, <4>1 DEF RootIn, T
      <4>3. q \in old => row.at = q.at
        BY DEF Same
      <4> QED BY <2>1, <2>4, <4>2, <4>3
    <3> QED BY <1>4, <3>1 DEF RootIn, T
  <2>8. ReferIn(s)'
    BY <1>2, <1>4, <2>1, <2>3 DEF ReferIn, T
  <2> QED BY <2>5, <2>6, <2>7, <2>8 DEF RowsClean
<1>7. ASSUME NEW j, Deleted(d, j)
      PROVE  RowsClean(s)'
  <2>1. rows' \subseteq rows /\ \A r \in rows : r.table = TableName => r \in rows'
    BY <1>7 DEF Deleted
  <2> HIDE DEF T
  <2>2. RowsIn(s)' /\ UniqueIn(s)' /\ ReferIn(s)'
    BY <1>2, <1>4, <2>1 DEF RowsIn, UniqueIn, ReferIn
  <2>3. RootIn(s)'
    BY <1>2, <1>4, <2>1 DEF RootIn
  <2> QED BY <2>2, <2>3 DEF RowsClean
<1> QED BY <1>1, <1>5, <1>6, <1>7

(* A landing table that a run has created is empty until it has its key.   *)
FreshInv == run # Nobody /\ ~modelMode /\ InPrelude /\ DropCount + 1 <= run.prelude => rows = {}

LEMMA FreshNext ==
  ASSUME NamesApart, SchemasInstall, TypedInv, FreshInv, [Next]_vars
  PROVE  FreshInv'
<1>1. TypedInv'
  BY TypedNext
<1>2. CASE UNCHANGED vars
  BY <1>2 DEF vars, FreshInv, InPrelude, DropCount
<1>3. ASSUME NEW flags \in Flags(modelMode), Start(flags)
      PROVE  FreshInv'
  <2>1. CASE run' = run
    <3>1. run' = Nobody
      BY <1>3, <2>1 DEF Start
    <3> QED BY <3>1 DEF FreshInv
  <2>2. CASE run' = [Nobody EXCEPT !.flags = flags]
    <3>1. run'.flags = flags /\ run'.prelude = 0
          /\ (run' # Nobody => Runnable(modelMode', flags))
      BY <1>1, <2>2 DEF Nobody, TypedInv, RunInv
    <3>2. run' # Nobody => Len(DropStatements(flags)) \in Nat
      BY <3>1, PreludeIs
    <3> QED BY <3>1, <3>2 DEF FreshInv, DropCount
  <2>3. run' = run \/ run' = [Nobody EXCEPT !.flags = flags]
    BY <1>3 DEF Start
  <2> QED BY <2>1, <2>2, <2>3
<1>4. CASE Finish
  BY <1>4 DEF Finish, End, FreshInv
<1>5. CASE ExecNext \/ CutOff
  <2>1. /\ run # Nobody /\ ~AtEnd /\ UNCHANGED modelMode
        /\ \/ run' = Nobody
           \/ Does(Current) /\ run' = Advanced
    BY <1>5, StepDoes
  <2>2. CASE run' = Nobody
    BY <2>2 DEF FreshInv
  <2>3. ASSUME Does(Current), run' = Advanced, ~modelMode, InPrelude', (DropCount + 1 <= run.prelude)'
        PROVE  rows' = {}
    <3> DEFINE st == Current
               drops == DropCount
    <3>1. /\ run'.flags = run.flags /\ DropCount' = drops
          /\ drops \in Nat /\ CreateCount \in Nat /\ run.prelude \in Nat
          /\ \/ run'.prelude \in 1..drops
             \/ \E j \in 1..CreateCount :
                  /\ InPrelude /\ run'.prelude = drops + j /\ run.prelude = run'.prelude - 1
                  /\ st = CreateAll(run.flags)[j] /\ st.op \in {"create", "alter"}
             \/ ~InPrelude /\ run'.prelude = run.prelude
      BY <2>1, <2>3, PreludeStep
    <3>2. ~(run'.prelude \in 1..drops)
      <4> HIDE DEF drops
      <4> QED BY <2>3, <3>1
    <3>3. InPrelude
      BY <2>3, <3>1, <3>2 DEF InPrelude
    <3>4. PICK j \in 1..CreateCount :
            /\ run'.prelude = drops + j /\ run.prelude = run'.prelude - 1
            /\ st = CreateAll(run.flags)[j] /\ st.op \in {"create", "alter"}
      BY <3>1, <3>2, <3>3
    <3>5. /\ CreateCount = 2 /\ j \in 1..2
          /\ CreateAll(run.flags)[1] = LandingCreate(TableName, Columns[RunSchema])
          /\ CreateAll(run.flags)[j].op = "create" <=> j = 1
      BY <2>1, <2>3, CreateOrAlter
    <3>6. CASE j = 1
      <4>1. st.op = "create" /\ st.name = TableName
        BY <3>4, <3>5, <3>6 DEF LandingCreate
      <4>2. ~There(TableName) /\ rows' = rows
        BY <2>3, <4>1, Creating DEF Does
      <4>3. \A r \in relations : r.name # TableName
        BY <4>2 DEF There, Named
      <4>4. \A r \in relations : r.name = TableName
        BY <2>3 DEF TypedInv, DatabaseInv, RelationInv
      <4>5. \A r \in rows : \E table \in relations : table.name = r.table
        BY DEF TypedInv, DatabaseInv, RowsTyped
      <4> QED BY <4>2, <4>3, <4>4, <4>5
    <3>7. CASE j # 1
      <4>1. st.op = "alter"
        BY <3>4, <3>5, <3>7
      <4>2. rows' = rows
        BY <2>3, <4>1, Altering
      <4>3. drops + 1 <= run.prelude
        <5> HIDE DEF drops
        <5> QED BY <3>1, <3>4, <3>5, <3>7
      <4> QED BY <2>1, <2>3, <3>3, <4>2, <4>3 DEF FreshInv
    <3> QED BY <3>6, <3>7
  <2> QED BY <2>1, <2>2, <2>3 DEF FreshInv
<1> QED BY <1>2, <1>3, <1>4, <1>5 DEF Next

(* Tables have names.                                                      *)
LEMMA NoName ==
  ASSUME NEW s \in Planned
  PROVE  <<>> \notin TableNames(s)
<1>1. \A i \in 1..TableCount(s) : Models[s].tables[i].name # <<>>
  BY PlannedModels
<1>2. TableNames(s) = {Models[s].tables[i].name : i \in 1..TableCount(s)}
                        \cup {Append(TableName, "registry")}
  BY TableNamesAre
<1>3. IsSequence(TableName)
  BY RunAssumption
<1> DEFINE word == "registry"
<1> HIDE DEF word
<1> DEFINE S == ToSet(TableName) \cup {word}
<1>4. TableName \in Seq(S) /\ word \in S
  <2>1. TableName \in Seq(ToSet(TableName))
    BY <1>3 DEF IsSequence
  <2> DEFINE A == ToSet(TableName)
  <2> HIDE DEF A
  <2>2. TableName \in Seq(A \cup {word})
    BY <2>1, SeqMonotonic DEF A
  <2> QED BY <2>2 DEF A
<1>5. Append(TableName, word) # <<>>
  <2> HIDE DEF S
  <2> QED BY <1>4, AppendProperties
<1> QED BY <1>1, <1>2, <1>5 DEF word

(* -drop drops something.                                                  *)
LEMMA DropsSomething ==
  ASSUME NEW m, NEW flags, Runnable(m, flags), flags.drop
  PROVE  Len(DropStatements(flags)) # 0
<1>1. \A n \in TablesIn(m, flags.schema) : \E i \in 1..Len(DropStatements(flags)) : TRUE
  BY DropsAre
<1>2. TableName \in TablesIn(m, flags.schema)
  BY RunnableFlags, RootName DEF TablesIn, Usable
<1> QED BY <1>1, <1>2

-----------------------------------------------------------------------------
(* What the tables of a schema hold, while only its own runs use them.     *)
Clean(s) == RightIn(s) /\ (HasKey => RowsClean(s))

(* Before a table is dropped, those that refer to it are gone.             *)
LEMMA ChildrenGone ==
  ASSUME NamesApart, SchemasInstall, TypedInv, GoneInv, run # Nobody, modelMode = TRUE,
         run.prelude + 1 \in 1..DropCount,
         NEW t \in 1..TableCount(RunSchema), Models[RunSchema].tables[t].parent # <<>>,
         DropStatements(run.flags)[run.prelude + 1].name = Models[RunSchema].tables[t].parent,
         NEW r \in relations
  PROVE  r.name # Models[RunSchema].tables[t].name
<1> DEFINE i == run.prelude + 1
           drops == DropCount
<1>1. Runnable(TRUE, run.flags) /\ run.prelude \in Nat
  <2> DEFINE m == Len(Prelude(run.flags))
  <2>1. Runnable(TRUE, run.flags) /\ run.prelude \in 0..m
    BY DEF TypedInv, RunInv
  <2>2. m \in Nat
    BY <2>1, PreludeIs
  <2> HIDE DEF m
  <2>3. run.prelude \in Nat
    BY ONLY <2>1, <2>2
  <2> QED BY <2>1, <2>3
<1>2. \E k \in 1..Len(DropStatements(run.flags)) :
        k < i /\ DropStatements(run.flags)[k].name = Models[run.flags.schema].tables[t].name
  BY <1>1, ChildrenFirst DEF RunSchema, DropCount
<1>3. PICK k \in 1..drops :
        k < i /\ DropStatements(run.flags)[k].name = Models[RunSchema].tables[t].name
  BY <1>2 DEF RunSchema, DropCount
<1>4. drops \in Nat /\ CreateCount \in Nat
  BY <1>1, PreludeIs DEF DropCount, CreateCount
<1>5. r.name = DropStatements(run.flags)[k].name => Installed(r.name)
  <2>1. k <= run.prelude
    <3> HIDE DEF drops
    <3> QED BY <1>1, <1>3, <1>4
  <2> QED BY <2>1 DEF GoneInv
<1>6. ~Installed(r.name)
  <2>1. \A j \in 1..CreateCount : ~(drops + j <= run.prelude)
    <3>1. run.prelude + 1 \in 1..drops
      OBVIOUS
    <3> HIDE DEF drops
    <3> QED BY <1>1, <1>4, <3>1
  <2> QED BY <2>1 DEF Installed, InstalledBy, CreateCount, DropCount
<1> QED BY <1>3, <1>5, <1>6

LEMMA CleanAfterDrop ==
  ASSUME NamesApart, SchemasInstall, DocumentsAreWhole, TypedInv, GoneInv, run # Nobody,
         NEW st, st.op = "drop", Does(st), run.prelude + 1 \in 1..DropCount,
         st = DropStatements(run.flags)[run.prelude + 1],
         NEW s, s = RunSchema, Clean(s), UNCHANGED modelMode
  PROVE  Clean(s)'
<1> DEFINE n == st.name
<1>1. \/ UNCHANGED <<relations, rows>>
      \/ /\ relations' = {WithoutUse(r, n) : r \in {q \in relations : ~GoesWith(q, n)}}
         /\ rows' = {WithoutParent(r, n) : r \in {q \in rows : q.table # n}}
  BY Dropping
<1>2. CASE UNCHANGED <<relations, rows>>
  <2>1. RightIn(s)' = RightIn(s) /\ HasKey' = HasKey
    BY <1>2 DEF RightIn, HasKey
  <2>2. RowsIn(s)' = RowsIn(s) /\ UniqueIn(s)' = UniqueIn(s) /\ RootIn(s)' = RootIn(s)
        /\ ReferIn(s)' = ReferIn(s)
    BY <1>2 DEF RowsIn, UniqueIn, RootIn, ReferIn
  <2> QED BY <2>1, <2>2 DEF Clean, RowsClean
<1>3. /\ Runnable(modelMode, run.flags) /\ modelMode \in BOOLEAN /\ s \in Usable(modelMode)
      /\ run.flags.schema = s
  BY RunnableFlags DEF TypedInv, RunInv, RunSchema
<1>4. ASSUME ~modelMode, relations' = {WithoutUse(r, n) : r \in {q \in relations : ~GoesWith(q, n)}}
      PROVE  Clean(s)'
  <2>1. n = TableName
    <3>1. n \in TablesIn(modelMode, s)
      BY <1>3, <1>4, DropsAre DEF DropCount
    <3> QED BY <1>4, <3>1 DEF TablesIn
  <2>2. \A r \in relations : r.name = TableName
    BY <1>4 DEF TypedInv, DatabaseInv, RelationInv
  <2>3. relations' = {}
    BY <1>4, <2>1, <2>2 DEF GoesWith
  <2>4. RightIn(s)' /\ ~HasKey'
    BY <1>4, <2>3 DEF RightIn, HasKey
  <2> QED BY <2>4 DEF Clean
<1>5. ASSUME modelMode = TRUE,
             relations' = {WithoutUse(r, n) : r \in {q \in relations : ~GoesWith(q, n)}},
             rows' = {WithoutParent(r, n) : r \in {q \in rows : q.table # n}}
      PROVE  Clean(s)'
  <2> DEFINE T == TablesIn(modelMode, s)
  <2>1. /\ s \in Planned /\ <<>> \notin T
        /\ RightIn(s) /\ RowsIn(s) /\ UniqueIn(s) /\ RootIn(s) /\ ReferIn(s)
    BY <1>3, <1>5, NoName DEF Usable, TablesIn, Clean, HasKey, RowsClean
  <2>2. ASSUME NEW t \in 1..TableCount(s), Models[s].tables[t].parent # <<>>,
               n = Models[s].tables[t].parent, NEW r \in relations
        PROVE  r.name # Models[s].tables[t].name
    BY <1>5, <2>2, ChildrenGone
  <2>3. RightIn(s)'
    <3>1. ASSUME NEW q \in relations', NEW t \in 1..TableCount(s), q.name = Models[s].tables[t].name
          PROVE  /\ q.uses = {Models[s].tables[t].parent} \ {<<>>}
                 /\ q.columns = TableColumns(Models[s], <<Header>>, t)
      <4>1. PICK r \in relations : q = WithoutUse(r, n)
        BY <1>5
      <4>2. q.name = r.name /\ q.uses = r.uses \ {n} /\ q.columns = r.columns
        BY <4>1, UseRemoved DEF TypedInv, DatabaseInv, RelationInv
      <4>3. /\ r.uses = {Models[s].tables[t].parent} \ {<<>>}
            /\ r.columns = TableColumns(Models[s], <<Header>>, t)
        <5>1. r.name = Models[s].tables[t].name
          BY <3>1, <4>2
        <5> QED BY ONLY <1>5, <2>1, <5>1, r \in relations, t \in 1..TableCount(s) DEF RightIn
      <4>4. n \notin r.uses
        BY <2>2, <3>1, <4>2, <4>3
      <4> QED BY <4>2, <4>3, <4>4
    <3> QED BY <1>5, <3>1 DEF RightIn
  <2>4. ASSUME NEW r \in rows, r.table \in T, r.table # TableName
        PROVE  n # TableName /\ r.parent = TableName
    <3>1. PICK d \in StoredIn(modelMode, s) : r \in Whole(modelMode, d)
      BY <2>1, <2>4 DEF RowsIn
    <3>2. /\ r.parent = TableName
          /\ \E t \in 1..TableCount(s) : /\ r.table = Models[s].tables[t].name
                                         /\ Models[s].tables[t].parent = TableName
      BY <1>3, <2>4, <3>1, RootRow
    <3>3. PICK t \in 1..TableCount(s) : /\ r.table = Models[s].tables[t].name
                                        /\ Models[s].tables[t].parent = TableName
      BY <3>2
    <3>4. PICK table \in relations : table.name = r.table
      BY DEF TypedInv, DatabaseInv, RowsTyped
    <3>5. TableName # <<>>
      BY <1>5, <2>1, RootName DEF TablesIn
    <3> QED BY <2>2, <3>2, <3>3, <3>4, <3>5
  <2>5. ASSUME NEW r \in rows, r.table \in T
        PROVE  WithoutParent(r, n) = r
    <3>1. IsRow(r)
      BY DEF TypedInv, DatabaseInv, RowsTyped
    <3>2. CASE r.table = TableName
      <4>1. PICK d \in StoredIn(modelMode, s) : r \in Whole(modelMode, d)
        BY <2>1, <2>5 DEF RowsIn
      <4>2. r = DocRow(modelMode, d, 1)
        BY <1>3, <3>2, <4>1, RootRow
      <4>3. r.parent = <<>>
        <5>1. RowsAre(modelMode, d)
          BY <1>3, DocumentRows
        <5>2. r = [table |-> TableName, parent |-> <<>>, at |-> <<KeyOf(d)>>, vals |-> r.vals]
          BY <4>2, <5>1 DEF RowsAre
        <5> QED BY <5>2
      <4> QED BY <3>1, <4>3 DEF WithoutParent, IsRow
    <3>3. CASE r.table # TableName
      BY <2>4, <2>5, <3>3 DEF WithoutParent
    <3> QED BY <3>2, <3>3
  <2>6. \A q \in rows' : \E r \in rows :
           /\ q = WithoutParent(r, n) /\ r.table # n /\ IsRow(r)
           /\ q.table = r.table /\ q.at = r.at /\ q.parent \in {r.parent, <<>>}
    <3>1. ASSUME NEW q \in rows'
          PROVE  \E r \in rows :
                   /\ q = WithoutParent(r, n) /\ r.table # n /\ IsRow(r)
                   /\ q.table = r.table /\ q.at = r.at /\ q.parent \in {r.parent, <<>>}
      <4>1. PICK r \in rows : q = WithoutParent(r, n) /\ r.table # n
        BY <1>5
      <4>2. IsRow(r)
        BY DEF TypedInv, DatabaseInv, RowsTyped
      <4>3. q.table = r.table /\ q.at = r.at /\ q.parent \in {r.parent, <<>>}
        BY <4>1, <4>2 DEF WithoutParent, IsRow
      <4> QED BY <4>1, <4>2, <4>3
    <3> QED BY <3>1
  <2>7. \A q \in rows' : q.table \in T => q \in rows
    BY <2>5, <2>6
  <2>8. \A r \in rows : r.table \in T /\ r.table # n => r \in rows'
    BY <1>5, <2>5
  <2>9. TablesIn(modelMode', s) = T /\ StoredIn(modelMode', s) = StoredIn(modelMode, s)
        /\ \A x : Whole(modelMode', x) = Whole(modelMode, x)
    OBVIOUS
  <2>10. TableName \in T
    BY <1>5, <2>1, RootName DEF TablesIn
  <2> HIDE DEF T, n
  <2>11. RowsIn(s)'
    BY <2>1, <2>7, <2>9 DEF RowsIn, T
  <2>12. UniqueIn(s)'
    <3>1. ASSUME NEW r \in rows', NEW q \in rows', r.table \in T, Same(r, q)
          PROVE  r = q
      <4>1. q.table \in T
        BY <3>1 DEF Same
      <4> QED BY <2>1, <2>7, <3>1, <4>1 DEF UniqueIn, T
    <3> QED BY <2>9, <3>1 DEF UniqueIn
  <2>13. RootIn(s)'
    <3>1. ASSUME NEW r \in rows', r.table \in T, r.table # TableName
          PROVE  \E q \in rows' : q.table = TableName /\ q.at = <<r.at[1]>>
      <4>1. r \in rows /\ n # TableName
        BY <2>4, <2>7, <3>1
      <4>2. PICK q \in rows : q.table = TableName /\ q.at = <<r.at[1]>>
        BY <2>1, <3>1, <4>1 DEF RootIn, T
      <4> QED BY <2>8, <2>10, <4>1, <4>2
    <3> QED BY <2>9, <3>1 DEF RootIn
  <2>14. ReferIn(s)'
    <3>1. ASSUME NEW q \in rows', q.parent \in T
          PROVE  q.table \in T
      <4>1. PICK r \in rows : q.table = r.table /\ q.parent \in {r.parent, <<>>}
        BY <2>6
      <4> QED BY <2>1, <3>1, <4>1 DEF ReferIn, T
    <3> QED BY <2>9, <3>1 DEF ReferIn
  <2> QED BY <2>3, <2>11, <2>12, <2>13, <2>14 DEF Clean, RowsClean
<1> QED BY <1>1, <1>2, <1>3, <1>4, <1>5

(* After the last DROP nothing of the schema is left.                      *)
LEMMA CleanWhenGone ==
  ASSUME (TypedInv /\ ParentsInv /\ GoneInv)', run' # Nobody, run'.flags.drop,
         run'.prelude = DropCount', NEW s, s = RunSchema'
  PROVE  Clean(s)'
<1> DEFINE T == TablesIn(modelMode', s)
           flags == run'.flags
           drops == Len(DropStatements(flags))
<1>1. Runnable(modelMode', flags) /\ s = flags.schema
  BY DEF TypedInv, RunInv, RunSchema
<1>2. modelMode' \in BOOLEAN /\ s \in Usable(modelMode')
  BY <1>1, RunnableFlags DEF Runnable
<1>3. \A n \in T : \E i \in 1..drops : DropStatements(flags)[i].name = n
  BY <1>1, DropsAre
<1>4. drops \in Nat /\ Len(CreateAll(flags)) \in Nat
  BY <1>1, PreludeIs
<1>5. \A n : ~Installed(n)'
  <2>1. run'.prelude = drops
    BY DEF DropCount
  <2> HIDE DEF drops
  <2>2. \A j \in 1..Len(CreateAll(flags)) : ~(drops + j <= run'.prelude)
    BY <1>4, <2>1
  <2> QED BY <2>2 DEF Installed, InstalledBy, drops
<1>6. \A r \in relations' : r.name \notin T
  <2>1. \A i \in 1..drops : i <= run'.prelude =>
          \A r \in relations' : r.name # DropStatements(flags)[i].name
    BY <1>5 DEF GoneInv, DropCount
  <2>2. run'.prelude = drops
    BY DEF DropCount
  <2>3. \A i \in 1..drops : i <= run'.prelude
    <3> HIDE DEF drops
    <3> QED BY <1>4, <2>2
  <2> QED BY <1>3, <2>1, <2>3
<1>7. \A r \in rows' : r.table \notin T
  BY <1>6 DEF TypedInv, DatabaseInv, RowsTyped
<1>8. \A r \in rows' : r.parent \notin T
  <2>1. \A r \in rows' : r.parent # <<>> => \E t \in relations' : t.name = r.parent
    BY DEF ParentsInv, HasParent
  <2>2. CASE modelMode'
    <3>1. <<>> \notin T
      BY <1>2, <2>2, NoName DEF Usable, TablesIn
    <3> QED BY <1>6, <2>1, <3>1
  <2>3. CASE ~modelMode'
    <3>1. \A r \in relations' : r.name = TableName
      BY <2>3 DEF TypedInv, DatabaseInv, RelationInv
    <3>2. T = {TableName}
      BY <2>3 DEF TablesIn
    <3>3. relations' = {}
      BY <1>6, <3>1, <3>2
    <3>4. \A r \in rows' : \E table \in relations' : table.name = r.table
      BY DEF TypedInv, DatabaseInv, RowsTyped
    <3> QED BY <3>3, <3>4
  <2> QED BY <2>2, <2>3
<1>9. RightIn(s)'
  <2>1. CASE modelMode'
    <3>1. \A t \in 1..TableCount(s) : Models[s].tables[t].name \in T
      BY <1>2, <2>1, TableNamesAre DEF Usable, TablesIn
    <3> QED BY <1>6, <2>1, <3>1 DEF RightIn
  <2>2. CASE ~modelMode'
    <3>1. \A r \in relations' : r.name = TableName
      BY <2>2 DEF TypedInv, DatabaseInv, RelationInv
    <3>2. T = {TableName}
      BY <2>2 DEF TablesIn
    <3>3. relations' = {}
      BY <1>6, <3>1, <3>2
    <3> QED BY <2>2, <3>3 DEF RightIn
  <2> QED BY <2>1, <2>2
<1> HIDE DEF T
<1>10. RowsClean(s)'
  BY <1>7, <1>8 DEF RowsClean, RowsIn, UniqueIn, RootIn, ReferIn, T
<1> QED BY <1>9, <1>10 DEF Clean

(* What a run creates is as the schema has it.                             *)
LEMMA CleanAfterCreate ==
  ASSUME NamesApart, SchemasInstall, TypedInv, run # Nobody,
         NEW j \in 1..CreateCount, NEW st, st = CreateAll(run.flags)[j], st.op = "create", Does(st),
         NEW s, s = RunSchema, Clean(s), UNCHANGED modelMode
  PROVE  Clean(s)'
<1>1. relations' = relations \cup {NewRelation(st)} /\ rows' = rows
  BY Creating
<1>2. /\ Runnable(modelMode, run.flags) /\ modelMode \in BOOLEAN /\ s \in Usable(modelMode)
      /\ run.flags.schema = s
  BY RunnableFlags DEF TypedInv, RunInv, RunSchema
<1>3. NewRelation(st).name = st.name /\ NewRelation(st).uses = st.uses
      /\ NewRelation(st).columns = st.columns /\ NewRelation(st).pk = <<>>
  BY DEF NewRelation
<1>4. RightIn(s)'
  <2>1. CASE ~modelMode
    <3>1. CreateAll(run.flags)[1] = LandingCreate(TableName, Columns[RunSchema]) /\ j = 1
      BY <2>1, CreateOrAlter
    <3>2. st.columns = Columns[s]
      BY <3>1 DEF LandingCreate
    <3> QED BY <1>1, <1>3, <2>1, <3>2 DEF RightIn, Clean
  <2>2. CASE modelMode
    <3> DEFINE n == TableCount(s)
               v == ViewCount(s)
    <3>1. s \in Planned /\ st = ModelDdl(s)[j] /\ j \in DOMAIN ModelDdl(s)
          /\ 1..n \subseteq DOMAIN ModelDdl(s)
      <4>1. s \in Planned
        BY <1>2, <2>2 DEF Usable
      <4>2. CreateAll(run.flags) = ModelDdl(s)
        <5>1. Creates(run.flags)
          <6>1. CreateCount # 0
            BY DEF CreateCount
          <6> QED BY <1>2, <6>1, CreatesAre DEF CreateCount
        <5> QED BY <1>2, <2>2, <5>1, CreatesAre
      <4>3. Len(ModelDdl(s)) = n + v + 1 /\ DOMAIN ModelDdl(s) = 1..(n + v + 1) /\ n \in Nat /\ v \in Nat
        BY <4>1, DdlShape, PlannedModels
      <4> HIDE DEF n, v
      <4> QED BY <4>1, <4>2, <4>3 DEF CreateCount
    <3>2. ASSUME NEW t \in 1..n, st.name = Models[s].tables[t].name
          PROVE  /\ st.uses = {Models[s].tables[t].parent} \ {<<>>}
                 /\ st.columns = TableColumns(Models[s], <<Header>>, t)
      <4>1. ModelDdl(s)[t] = TableStatement(s, t)
        BY <3>1, DdlShape
      <4>2. TableStatement(s, t) =
                [op |-> "create", kind |-> "table", name |-> Models[s].tables[t].name,
                 uses |-> {Models[s].tables[t].parent} \ {<<>>},
                 columns |-> TableColumns(Models[s], <<Header>>, t)]
        BY <3>1, DdlStatements
      <4>3. ModelDdl(s)[t].name = ModelDdl(s)[j].name
        BY <3>1, <3>2, <4>1, <4>2
      <4>4. j = t
        BY <3>1, <4>3, NamesDiffer
      <4> QED BY <3>1, <4>1, <4>2, <4>4
    <3>3. modelMode = TRUE
      BY <1>2, <2>2
    <3>4. ASSUME NEW r \in relations', NEW t \in 1..n, r.name = Models[s].tables[t].name
          PROVE  /\ r.uses = {Models[s].tables[t].parent} \ {<<>>}
                 /\ r.columns = TableColumns(Models[s], <<Header>>, t)
      <4>1. CASE r = NewRelation(st)
        BY <1>3, <3>2, <3>4, <4>1
      <4>2. CASE r \in relations
        <5>1. RightIn(s)
          BY DEF Clean
        <5> QED BY ONLY <3>3, <3>4, <4>2, <5>1 DEF RightIn
      <4> QED BY <1>1, <4>1, <4>2
    <3> QED BY <3>3, <3>4 DEF RightIn
  <2> QED BY <2>1, <2>2
<1>5. HasKey' => HasKey
  <2>1. <<>> # <<Pk>>
    OBVIOUS
  <2> QED BY <1>1, <1>3, <2>1 DEF HasKey
<1>6. RowsClean(s)' = RowsClean(s)
  <2>1. RowsIn(s)' = RowsIn(s) /\ UniqueIn(s)' = UniqueIn(s) /\ RootIn(s)' = RootIn(s)
        /\ ReferIn(s)' = ReferIn(s)
    BY <1>1 DEF RowsIn, UniqueIn, RootIn, ReferIn
  <2> QED BY <2>1 DEF RowsClean
<1> QED BY <1>4, <1>5, <1>6 DEF Clean

(* A landing table is empty when it gets its key.                          *)
LEMMA CleanAfterAlter ==
  ASSUME NamesApart, SchemasInstall, TypedInv, FreshInv, run # Nobody, InPrelude,
         DropCount + 1 <= run.prelude,
         NEW st, st = [op |-> "alter", table |-> TableName, pk |-> <<Pk>>], Does(st),
         NEW s, Clean(s), UNCHANGED modelMode, ~modelMode
  PROVE  Clean(s)'
<1> DEFINE table == TheRelation(TableName)
           new == [table EXCEPT !.pk = <<Pk>>]
<1>1. rows' = {}
  <2>1. rows = {}
    BY DEF FreshInv
  <2>2. rows' = rows
    BY Altering
  <2> QED BY <2>1, <2>2
<1>2. There(TableName) /\ relations' = (relations \ {table}) \cup {new}
  BY Altering DEF Does
<1>3. table \in relations
  BY <1>2, ThereIsOne
<1>4. table = [name |-> table.name, kind |-> table.kind, columns |-> table.columns,
               uses |-> table.uses, pk |-> table.pk]
  BY <1>3 DEF TypedInv, DatabaseInv, RelationInv
<1> HIDE DEF table
<1>5. new.columns = table.columns
  BY <1>4
<1> HIDE DEF new
<1>6. RightIn(s)'
  BY <1>2, <1>3, <1>5 DEF RightIn, Clean
<1>7. RowsClean(s)'
  BY <1>1 DEF RowsClean, RowsIn, UniqueIn, RootIn, ReferIn
<1> QED BY <1>6, <1>7 DEF Clean

(* Only runs of s have used the database since the last -drop, or the run  *)
(* under way, of s, has dropped everything.                                *)
AllOurs(s) ==
  \/ used \subseteq {s}
  \/ run # Nobody /\ RunSchema = s /\ run.flags.drop /\ DropCount <= run.prelude

CleanInv == \A s \in Usable(modelMode) : AllOurs(s) => Clean(s)

LEMMA LineOp ==
  ASSUME NEW m, NEW flags, NEW d, NEW l, NEW st, IsLine(m, flags, d, l, st)
  PROVE  st.op \in Dml
BY DEF IsLine, Insertion, Upsertion, Deletion, InsertOf, LandingInsert, LandingUpsertOf, Dml

(* When the schema has been alone, the step of a run keeps it clean.       *)
LEMMA CleanKept ==
  ASSUME NamesApart, SchemasInstall, DocumentsAreWhole, TypedInv, RoomInv, FreshInv,
         run # Nobody, ~AtEnd, Does(Current), UNCHANGED modelMode,
         NEW s, s = RunSchema, Clean(s)
  PROVE  Clean(s)'
<1> DEFINE st == Current
           drops == DropCount
<1>1. \/ /\ run.prelude + 1 \in 1..drops /\ st.op = "drop"
         /\ st = DropStatements(run.flags)[run.prelude + 1]
      \/ \E j \in 1..CreateCount :
           /\ InPrelude /\ run.prelude + 1 = drops + j
           /\ st = CreateAll(run.flags)[j] /\ st.op \in {"create", "alter"}
      \/ IsLine(modelMode, run.flags, run.flags.files[run.file], run.line, st)
  BY CurrentIs
<1>2. CASE /\ run.prelude + 1 \in 1..drops /\ st.op = "drop"
           /\ st = DropStatements(run.flags)[run.prelude + 1]
  BY <1>2, CleanAfterDrop DEF RoomInv
<1>3. ASSUME NEW j \in 1..CreateCount, InPrelude, run.prelude + 1 = drops + j,
             st = CreateAll(run.flags)[j], st.op \in {"create", "alter"}
      PROVE  Clean(s)'
  <2>1. CASE st.op = "create"
    BY <1>3, <2>1, CleanAfterCreate
  <2>2. CASE st.op = "alter"
    <3>1. ~modelMode /\ j \in 1..2 /\ j # 1
      BY <1>3, <2>2, CreateOrAlter
    <3>2. st = [op |-> "alter", table |-> TableName, pk |-> <<Pk>>]
      <4>1. j = 2
        BY <3>1
      <4> QED BY <1>3, <3>1, <4>1, CreateOrAlter
    <3>3. drops + 1 <= run.prelude
      <4>1. j = 2
        BY <3>1
      <4>2. drops \in Nat
        BY PreludeIs DEF TypedInv, RunInv, DropCount
      <4>3. run.prelude \in 0..Len(Prelude(run.flags))
        BY DEF TypedInv, RunInv
      <4>4. run.prelude \in Int
        BY <4>3
      <4> HIDE DEF drops
      <4> QED BY <1>3, <4>1, <4>2, <4>4
    <3> HIDE DEF st
    <3> QED BY <1>3, <3>1, <3>2, <3>3, CleanAfterAlter DEF st
  <2> QED BY <1>3, <2>1, <2>2
<1>4. CASE IsLine(modelMode, run.flags, run.flags.files[run.file], run.line, st)
  <2>1. st.op \in Dml
    BY <1>4, LineOp
  <2>2. relations' = relations
    BY <2>1, DmlKeepsRelations
  <2>3. RightIn(s)' = RightIn(s) /\ HasKey' = HasKey
    BY <2>2 DEF RightIn, HasKey
  <2>4. ASSUME HasKey
        PROVE  RowsClean(s)'
    <3>1. RightIn(RunSchema) /\ RowsClean(RunSchema)
      BY <2>4 DEF Clean
    <3> QED BY <1>4, <2>4, <3>1, CleanAfterLine
  <2> QED BY <2>3, <2>4 DEF Clean
<1> QED BY <1>1, <1>2, <1>3, <1>4

LEMMA CleanNext ==
  ASSUME NamesApart, SchemasInstall, DocumentsAreWhole, TypedInv, ParentsInv, RoomInv, FreshInv,
         CleanInv, [Next]_vars
  PROVE  CleanInv'
<1> SUFFICES ASSUME NEW s \in Usable(modelMode)', AllOurs(s)'
             PROVE  Clean(s)'
  BY DEF CleanInv
<1>1. UNCHANGED modelMode
  <2>1. CASE ExecNext \/ CutOff
    BY <2>1, StepDoes
  <2> QED BY <2>1 DEF Next, Start, Finish, vars
<1>2. TypedInv' /\ ParentsInv' /\ RoomInv'
  BY TypedNext, ParentsNext, RoomNext
<1>3. AllOurs(s) => Clean(s)
  BY <1>1 DEF CleanInv
<1>4. ASSUME UNCHANGED <<relations, rows>>, AllOurs(s)
      PROVE  Clean(s)'
  <2>1. RightIn(s)' = RightIn(s) /\ HasKey' = HasKey
    BY <1>1, <1>4 DEF RightIn, HasKey
  <2>2. RowsIn(s)' = RowsIn(s) /\ UniqueIn(s)' = UniqueIn(s) /\ RootIn(s)' = RootIn(s)
        /\ ReferIn(s)' = ReferIn(s)
    BY <1>1, <1>4 DEF RowsIn, UniqueIn, RootIn, ReferIn
  <2> QED BY <1>3, <1>4, <2>1, <2>2 DEF Clean, RowsClean
<1>5. CASE UNCHANGED vars
  <2>1. UNCHANGED <<run, relations, rows, used>>
    BY <1>5 DEF vars
  <2>2. AllOurs(s)
    BY <2>1 DEF AllOurs, RunSchema, DropCount
  <2> QED BY <1>4, <2>1, <2>2
<1>6. ASSUME NEW flags \in Flags(modelMode), Start(flags)
      PROVE  Clean(s)'
  <2>1. /\ UNCHANGED <<relations, rows>> /\ used \subseteq used'
        /\ run' = Nobody \/ run' = [Nobody EXCEPT !.flags = flags]
    BY <1>6 DEF Start
  <2>2. used' \subseteq {s}
    <3>1. CASE run' = Nobody
      BY <3>1 DEF AllOurs
    <3>2. ASSUME run' # Nobody, run' = [Nobody EXCEPT !.flags = flags], run'.flags.drop,
                 DropCount' <= run'.prelude
          PROVE  FALSE
      <4>1. run'.flags = flags /\ run'.prelude = 0
        BY <3>2 DEF Nobody
      <4>2. Runnable(modelMode', flags)
        BY <1>2, <3>2, <4>1 DEF TypedInv, RunInv
      <4>3. Len(DropStatements(flags)) \in Nat /\ Len(DropStatements(flags)) # 0
        BY <3>2, <4>1, <4>2, PreludeIs, DropsSomething
      <4> QED BY <3>2, <4>1, <4>3 DEF DropCount
    <3> QED BY <2>1, <3>1, <3>2 DEF AllOurs
  <2>3. AllOurs(s)
    BY <2>1, <2>2 DEF AllOurs
  <2> QED BY <1>4, <2>1, <2>3
<1>7. CASE Finish
  <2>1. /\ run # Nobody /\ AtEnd /\ run' = Nobody /\ UNCHANGED <<relations, rows>>
        /\ used' = IF run.flags.drop THEN {RunSchema} ELSE used
    BY <1>7 DEF Finish, End, RunSchema
  <2>2. used' \subseteq {s}
    BY <2>1 DEF AllOurs
  <2>3. AllOurs(s)
    <3>1. CASE ~run.flags.drop
      BY <2>1, <2>2, <3>1 DEF AllOurs
    <3>2. CASE run.flags.drop
      <4> DEFINE drops == DropCount
                 creates == CreateCount
                 m == Len(Prelude(run.flags))
      <4>1. run.prelude \in 0..m /\ ~(run.prelude < m)
        BY <2>1 DEF TypedInv, RunInv, AtEnd, InPrelude
      <4>2. drops \in Nat /\ creates \in Nat /\ m = drops + creates
        BY <2>1, PreludeIs DEF TypedInv, RunInv, DropCount, CreateCount
      <4>3. drops <= run.prelude
        <5> HIDE DEF drops, creates, m
        <5> QED BY <4>1, <4>2
      <4> QED BY <2>1, <2>2, <3>2, <4>3 DEF AllOurs
    <3> QED BY <3>1, <3>2
  <2> QED BY <1>4, <2>1, <2>3
<1>8. CASE ExecNext \/ CutOff
  <2>1. /\ run # Nobody /\ ~AtEnd /\ UNCHANGED used
        /\ \/ UNCHANGED <<relations, rows>> /\ run' = Nobody
           \/ Does(Current) /\ run' \in {Nobody, Advanced}
    BY <1>8, StepDoes
  <2>2. run' = Nobody => AllOurs(s)
    BY <2>1 DEF AllOurs
  <2>3. ASSUME Does(Current), AllOurs(s)
        PROVE  Clean(s)'
    <3>1. s = RunSchema
      BY <2>1, <2>3 DEF AllOurs, TypedInv, RunInv
    <3> QED BY <1>1, <1>3, <2>1, <2>3, <3>1, CleanKept
  <2>4. ASSUME Does(Current), run' = Advanced, ~AllOurs(s)
        PROVE  Clean(s)'
    <3> DEFINE drops == DropCount
    <3>1. run' # Nobody /\ RunSchema' = s /\ run'.flags.drop /\ DropCount' <= run'.prelude
      BY <2>1, <2>4 DEF AllOurs
    <3>2. /\ run'.flags = run.flags /\ DropCount' = drops
          /\ drops \in Nat /\ CreateCount \in Nat /\ run.prelude \in Nat
          /\ \/ run'.prelude \in 1..drops
             \/ \E j \in 1..CreateCount :
                  run'.prelude = drops + j /\ run.prelude = run'.prelude - 1
             \/ run'.prelude = run.prelude
      BY <2>1, <2>4, PreludeStep
    <3>3. ~(drops <= run.prelude)
      BY <2>1, <2>4, <3>1, <3>2 DEF AllOurs, RunSchema
    <3>4. run'.prelude = DropCount'
      <4> HIDE DEF drops
      <4> QED BY <3>1, <3>2, <3>3
    <3> QED BY <1>2, <3>1, <3>4, CleanWhenGone DEF RoomInv
  <2> QED BY <1>4, <2>1, <2>2, <2>3, <2>4
<1> QED BY <1>5, <1>6, <1>7, <1>8 DEF Next

-----------------------------------------------------------------------------
(* How far a run has stored its documents.                                 *)

(* What is stored under a key.                                             *)
At(s, k) == {r \in rows : r.table \in TablesIn(modelMode, s) /\ r.at[1] = k}

(* So many statements of a document are executed: some rows are inserted;  *)
(* or nothing is left in the tables deleted from; or it is written anew.   *)
Partly(flags, d, l) ==
  LET ins == InsertLines(modelMode, flags, d)
      nd == DeleteCount(modelMode, d)
      at == At(flags.schema, KeyOf(d))
  IN /\ \E n \in TablesIn(modelMode, flags.schema) : There(n)
     /\ l <= ins => at = Written(modelMode, d, l)
     /\ ins < l /\ l <= ins + nd =>
          \A j \in 1..(l - ins) : \A r \in at : r.table # DeleteTable(d, j)
     /\ ins + nd < l => at = Written(modelMode, d, l - ins - nd)

LEMMA WrittenMore ==
  ASSUME NEW m, NEW d
  PROVE  /\ Written(m, d, 1) = {DocRow(m, d, 1)}
         /\ \A e \in Nat \ {0, 1} : Written(m, d, e) = Written(m, d, e - 1) \cup {DocRow(m, d, e)}
<1>1. 1..1 = {1}
  OBVIOUS
<1>2. \A e \in Nat \ {0, 1} : 1..e = (1..(e - 1)) \cup {e}
  OBVIOUS
<1> QED BY <1>1, <1>2 DEF Written

(* The rows of the tables have their key in front.                         *)
LEMMA KeyInFront ==
  ASSUME SchemasInstall, DocumentsAreWhole, modelMode \in BOOLEAN, NEW s, RowsIn(s),
         NEW r \in rows, r.table \in TablesIn(modelMode, s)
  PROVE  /\ r.table = TableName => r.at = <<r.at[1]>>
         /\ r.table # TableName =>
              /\ Front(r.at) = <<r.at[1]>> /\ modelMode
              /\ \E t \in 1..TableCount(s) : r.table = Models[s].tables[t].name
<1>1. PICK d \in StoredIn(modelMode, s) : r \in Whole(modelMode, d)
  BY DEF RowsIn
<1>2. /\ r.table = TableName => r.at = <<KeyOf(d)>>
      /\ r.table # TableName =>
           /\ Front(r.at) = <<KeyOf(d)>> /\ modelMode
           /\ \E t \in 1..TableCount(s) : r.table = Models[s].tables[t].name
      /\ r.at[1] = KeyOf(d)
  BY <1>1, RootRow
<1> QED BY <1>2

(* The statement of a document leaves those under other keys alone.        *)
LEMMA OthersKept ==
  ASSUME SchemasInstall, DocumentsAreWhole, TypedInv, run # Nobody,
         RightIn(RunSchema), HasKey, RowsClean(RunSchema), Does(Current),
         NEW d, NEW l, IsLine(modelMode, run.flags, d, l, Current), UNCHANGED modelMode,
         NEW s, s = RunSchema, NEW k, k # KeyOf(d)
  PROVE  At(s, k)' = At(s, k)
<1> DEFINE n == DocCount(modelMode, d)
           T == TablesIn(modelMode, s)
<1>1. /\ RowsAre(modelMode, d) /\ n \in Nat \ {0} /\ modelMode \in BOOLEAN /\ RowsIn(s)
      /\ \/ \E e \in 1..n : Inserted(d, e)
         \/ \E j : Deleted(d, j)
         \/ Upserted(d)
  BY LineDoes DEF TypedInv, RowsClean
<1>2. \A e \in 1..n : DocRow(modelMode, d, e).at[1] = KeyOf(d)
  BY <1>1 DEF RowsAre
<1>3. At(s, k)' = {r \in rows' : r.table \in T /\ r.at[1] = k}
  BY DEF At
<1>4. ASSUME NEW e \in 1..n, Inserted(d, e)
      PROVE  At(s, k)' = At(s, k)
  <2> DEFINE row == DocRow(modelMode, d, e)
  <2>1. rows' = rows \cup {row}
    BY <1>4 DEF Inserted
  <2>2. row.at[1] # k
    BY <1>2
  <2> HIDE DEF row
  <2> QED BY <1>3, <2>1, <2>2 DEF At
<1>5. CASE Upserted(d)
  <2> DEFINE row == DocRow(modelMode, d, 1)
  <2>1. rows' = (rows \ {r \in rows : Same(r, row)}) \cup {row}
    BY <1>5 DEF Upserted
  <2>2. row.at[1] # k
    <3>1. 1 \in 1..n
      BY <1>1
    <3> QED BY <1>2, <3>1
  <2> HIDE DEF row
  <2>3. \A r \in rows : Same(r, row) => r.at[1] # k
    BY <2>2 DEF Same
  <2> QED BY <1>3, <2>1, <2>2, <2>3 DEF At
<1>6. ASSUME NEW j, Deleted(d, j)
      PROVE  At(s, k)' = At(s, k)
  <2>1. /\ DeleteTable(d, j) # TableName
        /\ rows' = rows \ {r \in rows : r.table = DeleteTable(d, j) /\ Front(r.at) = <<KeyOf(d)>>}
    BY <1>6 DEF Deleted
  <2>2. ASSUME NEW r \in rows, r.table \in T, r.at[1] = k, r.table = DeleteTable(d, j)
        PROVE  Front(r.at) # <<KeyOf(d)>>
    <3>1. Front(r.at) = <<k>>
      BY <1>1, <2>1, <2>2, KeyInFront
    <3> QED BY <3>1
  <2> QED BY <1>3, <2>1, <2>2 DEF At
<1> QED BY <1>1, <1>4, <1>5, <1>6

(* The document under the key in hand, after one more of its statements.   *)
LEMMA FirstInserted ==
  ASSUME SchemasInstall, DocumentsAreWhole, TypedInv, run # Nobody,
         NEW s, RowsClean(s), NEW d, RowsAre(modelMode, d), Inserted(d, 1)
  PROVE  At(s, KeyOf(d)) = {}
<1> DEFINE k == KeyOf(d)
           row == DocRow(modelMode, d, 1)
<1>1. /\ RowsIn(s) /\ RootIn(s) /\ modelMode \in BOOLEAN
      /\ \A r \in rows : ~Same(r, row)
  BY DEF RowsClean, TypedInv, Inserted, InsertFits
<1>2. row.table = TableName /\ row.at = <<k>>
  <2>1. row = [table |-> TableName, parent |-> <<>>, at |-> <<k>>, vals |-> row.vals]
    BY DEF RowsAre
  <2> HIDE DEF row
  <2> QED BY <2>1
<1>3. \A q \in rows : ~(q.table = TableName /\ q.at = <<k>>)
  BY <1>1, <1>2 DEF Same
<1>4. ASSUME NEW r \in rows, r.table \in TablesIn(modelMode, s), r.at[1] = k
      PROVE  FALSE
  <2>1. CASE r.table = TableName
    <3>1. r.at = <<r.at[1]>>
      BY <1>1, <1>4, <2>1, KeyInFront
    <3> QED BY <1>3, <1>4, <2>1, <3>1
  <2>2. CASE r.table # TableName
    BY <1>1, <1>3, <1>4, <2>2 DEF RootIn
  <2> QED BY <2>1, <2>2
<1> QED BY <1>4 DEF At

LEMMA RowInserted ==
  ASSUME NEW s, NEW d, RowsAre(modelMode, d), d.schema = s, UNCHANGED modelMode,
         NEW e \in 1..DocCount(modelMode, d), Inserted(d, e),
         At(s, KeyOf(d)) = IF e = 1 THEN {} ELSE Written(modelMode, d, e - 1)
  PROVE  At(s, KeyOf(d))' = Written(modelMode, d, e)
<1> DEFINE k == KeyOf(d)
           row == DocRow(modelMode, d, e)
<1>1. row.at[1] = k /\ row.table \in TablesIn(modelMode, s)
  BY DEF RowsAre
<1>2. rows' = rows \cup {row}
  BY DEF Inserted
<1>3. At(s, k)' = {r \in rows' : r.table \in TablesIn(modelMode, s) /\ r.at[1] = k}
  BY DEF At
<1>4. At(s, k)' = At(s, k) \cup {row}
  <2> HIDE DEF row
  <2> QED BY <1>1, <1>2, <1>3 DEF At
<1>5. CASE e = 1
  BY <1>4, <1>5, WrittenMore
<1>6. CASE e # 1
  <2>1. e \in Nat \ {0, 1}
    BY <1>6
  <2>2. At(s, k) = Written(modelMode, d, e - 1)
    BY <1>6
  <2>3. Written(modelMode, d, e) = Written(modelMode, d, e - 1) \cup {row}
    BY <2>1, WrittenMore
  <2> QED BY <1>4, <2>2, <2>3
<1> QED BY <1>5, <1>6

LEMMA RowsDeleted ==
  ASSUME SchemasInstall, DocumentsAreWhole, TypedInv, NEW s, RowsClean(s), NEW d, NEW j,
         UNCHANGED modelMode, Deleted(d, j)
  PROVE  /\ At(s, KeyOf(d))' \subseteq At(s, KeyOf(d))
         /\ \A r \in At(s, KeyOf(d))' : r.table # DeleteTable(d, j)
<1> DEFINE k == KeyOf(d)
           T == TablesIn(modelMode, s)
<1>1. /\ DeleteTable(d, j) # TableName
      /\ rows' = rows \ {r \in rows : r.table = DeleteTable(d, j) /\ Front(r.at) = <<k>>}
  BY DEF Deleted
<1>2. RowsIn(s) /\ modelMode \in BOOLEAN
  BY DEF RowsClean, TypedInv
<1>3. At(s, k)' = {r \in rows' : r.table \in T /\ r.at[1] = k}
  BY DEF At
<1>4. ASSUME NEW r \in rows', r.table \in T, r.at[1] = k, r.table = DeleteTable(d, j)
      PROVE  FALSE
  <2>1. r \in rows /\ Front(r.at) # <<k>>
    BY <1>1, <1>4
  <2>2. Front(r.at) = <<r.at[1]>>
    BY <1>1, <1>2, <1>4, <2>1, KeyInFront
  <2> QED BY <1>4, <2>1, <2>2
<1> QED BY <1>1, <1>3, <1>4 DEF At

(* When nothing is left in the tables of its children, only its root row   *)
(* is, and the upsert replaces it.                                         *)
LEMMA RootUpserted ==
  ASSUME SchemasInstall, DocumentsAreWhole, TypedInv, NEW s, RowsClean(s),
         NEW d \in StoredIn(modelMode, s), RowsAre(modelMode, d), d.schema = s,
         UNCHANGED modelMode, Upserted(d),
         \A j \in 1..DeleteCount(modelMode, d) :
           \A r \in At(s, KeyOf(d)) : r.table # DeleteTable(d, j)
  PROVE  At(s, KeyOf(d))' = Written(modelMode, d, 1)
<1> DEFINE k == KeyOf(d)
           row == DocRow(modelMode, d, 1)
           T == TablesIn(modelMode, s)
<1>1. rows' = (rows \ {r \in rows : Same(r, row)}) \cup {row}
  BY DEF Upserted
<1>2. RowsIn(s) /\ modelMode \in BOOLEAN
  BY DEF RowsClean, TypedInv
<1>3. row.table = TableName /\ row.at = <<k>> /\ row.table \in T /\ row.at[1] = k
  <2>1. /\ row = [table |-> TableName, parent |-> <<>>, at |-> <<k>>, vals |-> row.vals]
        /\ 1 \in 1..DocCount(modelMode, d)
    BY DEF RowsAre
  <2>2. row.table \in T /\ row.at[1] = k
    BY <2>1 DEF RowsAre
  <2> HIDE DEF row
  <2> QED BY <2>1, <2>2
<1>4. At(s, k)' = {r \in rows' : r.table \in T /\ r.at[1] = k}
  BY DEF At
<1>5. ASSUME NEW r \in rows, r.table \in T, r.at[1] = k
      PROVE  Same(r, row)
  <2>1. r.table = TableName
    <3>1. SUFFICES ASSUME r.table # TableName PROVE FALSE
      OBVIOUS
    <3>2. modelMode /\ \E t \in 1..TableCount(s) : r.table = Models[s].tables[t].name
      BY <1>2, <1>5, <3>1, KeyInFront
    <3>3. PICK t \in 1..TableCount(s) : r.table = Models[s].tables[t].name
      BY <3>2
    <3>4. modelMode = TRUE /\ d \in DocumentsOf(TRUE) /\ Renderings[d].key # Nil
      BY <1>2, <3>2 DEF StoredIn
    <3>5. WholeRendering(d) /\ IsSequence(Renderings[d].deletes)
          /\ DOMAIN Renderings[d].deletes = 1..Len(Renderings[d].deletes)
      BY <3>4, ModelRows
    <3>6. s \in Planned
      BY <3>4, ModelRows
    <3>7. Models[s].tables[t] \in ToSet(Models[s].tables)
      BY <3>6, PlannedModels, SequenceFacts
    <3>8. \E st \in ToSet(Renderings[d].deletes) : st.table = r.table
      BY <3>1, <3>3, <3>5, <3>7 DEF WholeRendering, IsWhole
    <3>9. PICK j \in 1..Len(Renderings[d].deletes) : Renderings[d].deletes[j].table = r.table
      BY <3>5, <3>8 DEF ToSet
    <3>10. DeleteTable(d, j) = r.table /\ j \in 1..DeleteCount(modelMode, d)
      BY <3>4, <3>9 DEF DeleteTable, DeleteCount
    <3>11. r \in At(s, k)
      BY <1>5 DEF At
    <3> QED BY <3>10, <3>11
  <2>2. r.at = <<k>>
    BY <1>2, <1>5, <2>1, KeyInFront
  <2> QED BY <1>3, <2>1, <2>2 DEF Same
<1>6. At(s, k)' = {row}
  <2> HIDE DEF row, T
  <2> QED BY <1>1, <1>3, <1>4, <1>5
<1> QED BY <1>6, WrittenMore

LEMMA PartlyAdvances ==
  ASSUME SchemasInstall, DocumentsAreWhole, TypedInv, run # Nobody,
         RightIn(RunSchema), HasKey, RowsClean(RunSchema), Does(Current), UNCHANGED modelMode,
         NEW d, NEW l \in Nat \ {0}, IsLine(modelMode, run.flags, d, l, Current),
         l > 1 => Partly(run.flags, d, l - 1),
         NEW flags, flags = run.flags
  PROVE  Partly(flags, d, l)'
<1> DEFINE n == DocCount(modelMode, d)
           nd == DeleteCount(modelMode, d)
           ins == InsertLines(modelMode, flags, d)
           s == flags.schema
           at == At(s, KeyOf(d))
           newAt == At(s, KeyOf(d))'
<1>1. /\ relations' = relations /\ s = RunSchema
      /\ d \in StoredIn(modelMode, s) /\ RowsAre(modelMode, d) /\ d.schema = s
      /\ n \in Nat \ {0} /\ nd \in Nat /\ ins \in {0, n}
      /\ \/ l \in 1..ins /\ l \in 1..n /\ Inserted(d, l)
         \/ l - ins \in 1..nd /\ modelMode /\ Deleted(d, l - ins)
         \/ l - ins - nd = 1 /\ Upserted(d)
         \/ l - ins - nd \in 2..n /\ l - ins - nd \in 1..n /\ Inserted(d, l - ins - nd)
  BY LineDoes DEF RunSchema
<1>2. l > 1 =>
        /\ l - 1 <= ins => at = Written(modelMode, d, l - 1)
        /\ ins < l - 1 /\ l - 1 <= ins + nd =>
             \A j \in 1..(l - 1 - ins) : \A r \in at : r.table # DeleteTable(d, j)
        /\ ins + nd < l - 1 => at = Written(modelMode, d, l - 1 - ins - nd)
  BY DEF Partly
<1>3. \E x \in TablesIn(modelMode, s) : There(x)'
  <2>1. \A x : There(x)' = There(x)
    BY <1>1 DEF There, Named
  <2>2. \E x \in TablesIn(modelMode, s) : There(x)
    <3>1. \A e \in 1..n : DocRow(modelMode, d, e).table \in TablesIn(modelMode, s)
      BY <1>1 DEF RowsAre
    <3>2. TableName \in TablesIn(modelMode, s)
      BY <1>1, RunnableFlags, RootName DEF TypedInv, RunInv, RunSchema, TablesIn, Usable
    <3> HIDE DEF n, nd, ins
    <3>3. \/ \E e \in 1..n : Inserted(d, e)
          \/ \E j : Deleted(d, j)
          \/ Upserted(d)
      BY <1>1
    <3> QED BY <1>1, <3>1, <3>2, <3>3 DEF Inserted, Deleted, Upserted, n
  <2> QED BY <2>1, <2>2
<1>4. SUFFICES /\ l <= ins => newAt = Written(modelMode, d, l)
               /\ ins < l /\ l <= ins + nd =>
                    \A j \in 1..(l - ins) : \A r \in newAt : r.table # DeleteTable(d, j)
               /\ ins + nd < l => newAt = Written(modelMode, d, l - ins - nd)
  BY <1>3 DEF Partly
<1>5. RowsClean(s) /\ TypedInv
  BY <1>1
<1>6. ASSUME NEW e \in 1..n, Inserted(d, e), e = 1 \/ at = Written(modelMode, d, e - 1)
      PROVE  newAt = Written(modelMode, d, e)
  <2>1. e = 1 => at = {}
    BY <1>1, <1>5, <1>6, FirstInserted
  <2>2. at = IF e = 1 THEN {} ELSE Written(modelMode, d, e - 1)
    BY <1>6, <2>1
  <2> QED BY <1>1, <1>6, <2>2, RowInserted
<1>7. CASE l \in 1..ins /\ l \in 1..n /\ Inserted(d, l)
  <2>1. l = 1 \/ at = Written(modelMode, d, l - 1)
    <3> HIDE DEF n, nd, ins, at
    <3> QED BY <1>1, <1>2, <1>7
  <2>2. newAt = Written(modelMode, d, l)
    BY <1>6, <1>7, <2>1
  <2> HIDE DEF n, nd, ins, at, newAt
  <2> QED BY <1>1, <1>7, <2>2
<1>8. CASE l - ins \in 1..nd /\ modelMode /\ Deleted(d, l - ins)
  <2>1. newAt \subseteq at /\ \A r \in newAt : r.table # DeleteTable(d, l - ins)
    BY <1>5, <1>8, RowsDeleted
  <2>2. ASSUME NEW j \in 1..(l - ins), NEW r \in newAt
        PROVE  r.table # DeleteTable(d, j)
    <3> HIDE DEF n, nd, ins, at, newAt
    <3>1. CASE j = l - ins
      BY <2>1, <2>2, <3>1
    <3>2. CASE j # l - ins
      <4>1. l > 1 /\ ins < l - 1 /\ l - 1 <= ins + nd /\ j \in 1..(l - 1 - ins)
        BY <1>1, <1>8, <2>2, <3>2
      <4> QED BY <1>2, <2>1, <2>2, <4>1
    <3> QED BY <3>1, <3>2
  <2> HIDE DEF n, nd, ins, at, newAt
  <2>3. ~(l <= ins) /\ ~(ins + nd < l)
    BY <1>1, <1>8
  <2> QED BY <2>2, <2>3
<1>9. CASE l - ins - nd = 1 /\ Upserted(d)
  <2>1. ASSUME NEW j \in 1..nd, NEW r \in at
        PROVE  r.table # DeleteTable(d, j)
    <3> HIDE DEF n, nd, ins, at, newAt
    <3>1. l > 1 /\ ins < l - 1 /\ l - 1 <= ins + nd /\ j \in 1..(l - 1 - ins)
      BY <1>1, <1>9, <2>1
    <3> QED BY <1>2, <2>1, <3>1
  <2>2. newAt = Written(modelMode, d, 1)
    BY <1>1, <1>5, <1>9, <2>1, RootUpserted
  <2> HIDE DEF n, nd, ins, at, newAt
  <2>3. ~(l <= ins) /\ ~(l <= ins + nd) /\ l - ins - nd = 1
    BY <1>1, <1>9
  <2> QED BY <2>2, <2>3
<1>10. CASE l - ins - nd \in 2..n /\ l - ins - nd \in 1..n /\ Inserted(d, l - ins - nd)
  <2> DEFINE e == l - ins - nd
  <2>1. at = Written(modelMode, d, e - 1)
    <3> HIDE DEF n, nd, ins, at, newAt
    <3>1. l > 1 /\ ins + nd < l - 1 /\ l - 1 - ins - nd = e - 1
      BY <1>1, <1>10
    <3> QED BY <1>2, <3>1
  <2>2. newAt = Written(modelMode, d, e)
    BY <1>6, <1>10, <2>1
  <2> HIDE DEF n, nd, ins, at, newAt
  <2>3. ~(l <= ins) /\ ~(l <= ins + nd)
    BY <1>1, <1>10
  <2> QED BY <2>2, <2>3
<1> QED BY <1>1, <1>7, <1>8, <1>9, <1>10

(* After its last statement a document is whole.                           *)
LEMMA FileDone ==
  ASSUME SchemasInstall, DocumentsAreWhole, UNCHANGED modelMode,
         NEW flags, Runnable(modelMode, flags), NEW i \in 1..Len(flags.files),
         Partly(flags, flags.files[i], Len(File(flags, i)))'
  PROVE  At(flags.schema, KeyOf(flags.files[i]))' = Whole(modelMode, flags.files[i])
<1> DEFINE d == flags.files[i]
           n == DocCount(modelMode, d)
           nd == DeleteCount(modelMode, d)
           ins == InsertLines(modelMode, flags, d)
           l == Len(File(flags, i))
           newAt == At(flags.schema, KeyOf(d))'
<1>1. /\ modelMode \in BOOLEAN
      /\ Inserts(flags) \/ Upserts(flags)
      /\ n \in Nat \ {0} /\ nd \in Nat /\ ins \in Nat
      /\ l = ins + (IF Upserts(flags) THEN nd + n ELSE 0)
  BY LinesAre DEF Runnable
<1>2. Inserts(flags) => ins = n
  BY DEF InsertLines
<1>3. /\ l <= ins => newAt = Written(modelMode, d, l)
      /\ ins + nd < l => newAt = Written(modelMode, d, l - ins - nd)
  BY DEF Partly
<1>4. CASE Upserts(flags)
  <2> HIDE DEF d, n, nd, ins, l, newAt
  <2>1. ins + nd < l /\ l - ins - nd = n
    BY <1>1, <1>4
  <2> QED BY <1>3, <2>1 DEF Whole, n, d, newAt
<1>5. CASE ~Upserts(flags)
  <2> HIDE DEF d, n, nd, ins, l, newAt
  <2>1. l <= ins /\ l = n
    BY <1>1, <1>2, <1>5
  <2> QED BY <1>3, <2>1 DEF Whole, n, d, newAt
<1> QED BY <1>4, <1>5

(* The run is at a later statement of a document with this key.            *)
InHand(k) ==
  run.file <= Len(run.flags.files) /\ run.line > 1 /\ KeyOf(run.flags.files[run.file]) = k

(* Of the files that are done the last one of a key is what is stored.     *)
FileStored(i) ==
  LET k == KeyOf(run.flags.files[i])
  IN /\ i < run.file /\ ~InHand(k)
     /\ \A j \in 1..Len(run.flags.files) :
          j < run.file /\ KeyOf(run.flags.files[j]) = k => j <= i
     => At(RunSchema, k) = Whole(modelMode, run.flags.files[i])

Progress ==
  /\ \A i \in 1..Len(run.flags.files) : FileStored(i)
  /\ run.file <= Len(run.flags.files) /\ run.line > 1 =>
       Partly(run.flags, run.flags.files[run.file], run.line - 1)

ProgressInv == run # Nobody /\ ~InPrelude /\ AllOurs(RunSchema) /\ HasKey => Progress

LEMMA Progresses ==
  ASSUME SchemasInstall, DocumentsAreWhole, TypedInv, run # Nobody, ~AtEnd, ~InPrelude,
         RightIn(RunSchema), HasKey, RowsClean(RunSchema), Does(Current), run' = Advanced,
         UNCHANGED modelMode, Progress,
         NEW flags, flags = run.flags, NEW file, file = run.file, NEW line, line = run.line
  PROVE  Progress'
<1> DEFINE d == flags.files[file]
           s == flags.schema
           m == Len(flags.files)
           size == Len(File(flags, file))
           key(i) == KeyOf(flags.files[i])
<1>1. /\ Runnable(modelMode, flags) /\ m \in Nat
      /\ file \in 1..m /\ line \in 1..size /\ size \in Nat
      /\ IsLine(modelMode, flags, d, line, Current)
  <2>1. Runnable(modelMode, flags)
    BY DEF TypedInv, RunInv
  <2>2. /\ file \in 1..m /\ line \in 1..size
        /\ IsLine(modelMode, flags, d, line, Current)
    BY CurrentIs
  <2>3. m \in Nat
    BY <2>1, RunnableFlags, SequenceFacts
  <2>4. size \in Nat
    BY <2>1, <2>2, FilesAreNotEmpty
  <2> QED BY <2>1, <2>2, <2>3, <2>4
<1>2. /\ run'.flags = flags /\ RunSchema' = s /\ RunSchema = s
      /\ line < size => run'.file = file /\ run'.line = line + 1
      /\ ~(line < size) => run'.file = file + 1 /\ run'.line = 1
  BY AdvancedTo DEF RunSchema
<1>3. Partly(flags, d, line)'
  <2>1. line \in Nat \ {0}
    <3> HIDE DEF size
    <3> QED BY <1>1
  <2>2. line > 1 => Partly(run.flags, d, line - 1)
    <3>1. run.file <= Len(run.flags.files)
      <4>1. file <= m
        <5> HIDE DEF m
        <5> QED BY <1>1
      <4> QED BY <4>1
    <3> QED BY <3>1 DEF Progress
  <2> QED BY <1>1, <2>1, <2>2, PartlyAdvances
<1>4. ASSUME NEW i \in 1..m, key(i) # KeyOf(d), i < file,
             \A j \in 1..m : j < file /\ key(j) = key(i) => j <= i
      PROVE  At(s, key(i))' = Whole(modelMode, flags.files[i])
  <2>1. ~InHand(key(i))
    BY <1>4 DEF InHand
  <2>2. At(s, key(i)) = Whole(modelMode, flags.files[i])
    BY <1>2, <1>4, <2>1 DEF FileStored, Progress
  <2>3. At(s, key(i))' = At(s, key(i))
    BY <1>1, <1>2, <1>4, OthersKept
  <2> QED BY <2>2, <2>3
<1>5. CASE line < size
  <2>1. run'.file = file /\ run'.line = line + 1
    BY <1>2, <1>5
  <2>2. InHand(KeyOf(d))'
    <3>1. file <= m /\ line + 1 > 1
      <4> HIDE DEF m, size
      <4> QED BY <1>1
    <3> QED BY <1>2, <2>1, <3>1 DEF InHand
  <2>3. ASSUME NEW i \in 1..m, i < file, ~InHand(key(i))',
               \A j \in 1..m : j < file /\ key(j) = key(i) => j <= i
        PROVE  At(s, key(i))' = Whole(modelMode, flags.files[i])
    <3>1. key(i) # KeyOf(d)
      BY <2>2, <2>3
    <3> QED BY <1>4, <2>3, <3>1
  <2>4. \A i \in 1..Len(run'.flags.files) : FileStored(i)'
    BY <1>2, <2>1, <2>3 DEF FileStored
  <2>5. Partly(run.flags, run.flags.files[run.file], run.line - 1)'
    <3>1. line \in Nat
      <4> HIDE DEF size
      <4> QED BY <1>1
    <3>2. Partly(run.flags, run.flags.files[run.file], run.line - 1)' = Partly(flags, d, line)'
      <4>1. /\ run'.flags = flags /\ run'.flags.files[run'.file] = d
            /\ run'.line - 1 = line
        <5>1. run'.flags = flags
          BY <1>2
        <5>2. run'.file = file /\ run'.line = line + 1
          BY <2>1
        <5>3. run'.flags.files[run'.file] = flags.files[file]
          BY ONLY <5>1, <5>2
        <5>4. run'.line - 1 = line
          BY ONLY <5>2, <3>1
        <5> QED BY <5>1, <5>3, <5>4
      <4> HIDE DEF d
      <4> QED BY ONLY <4>1 DEF Partly, At, There, Named
    <3> QED BY <1>3, <3>2
  <2> QED BY <2>4, <2>5 DEF Progress
<1>6. CASE ~(line < size)
  <2>1. run'.file = file + 1 /\ run'.line = 1
    BY <1>2, <1>6
  <2>2. At(s, KeyOf(d))' = Whole(modelMode, d)
    <3>1. line = size
      <4> HIDE DEF size
      <4> QED BY <1>1, <1>6
    <3>2. Partly(flags, d, size)'
      BY <1>3, <3>1
    <3> QED BY <1>1, <3>2, FileDone
  <2>3. ASSUME NEW i \in 1..m, i < file + 1,
               \A j \in 1..m : j < file + 1 /\ key(j) = key(i) => j <= i
        PROVE  At(s, key(i))' = Whole(modelMode, flags.files[i])
    <3>1. CASE key(i) = KeyOf(d)
      <4>1. i = file
        <5>1. file \in 1..m /\ file < file + 1 /\ key(file) = key(i) /\ i \in Int
          <6>1. file \in 1..m /\ file < file + 1
            <7> HIDE DEF m
            <7> QED BY <1>1
          <6> QED BY <3>1, <6>1
        <5>2. file <= i
          BY <2>3, <5>1
        <5> HIDE DEF m
        <5> QED BY <2>3, <5>1, <5>2
      <4> QED BY <2>2, <4>1
    <3>2. CASE key(i) # KeyOf(d)
      <4>1. i # file
        BY <3>2
      <4>2. i < file /\ \A j \in 1..m : j < file => j < file + 1
        <5> HIDE DEF m
        <5> QED BY <1>1, <2>3, <4>1
      <4> QED BY <1>4, <2>3, <3>2, <4>2
    <3> QED BY <3>1, <3>2
  <2>4. \A i \in 1..Len(run'.flags.files) : FileStored(i)'
    BY <1>2, <2>1, <2>3 DEF FileStored
  <2>5. ~(run'.line > 1)
    BY <2>1
  <2> QED BY <2>4, <2>5 DEF Progress
<1> QED BY <1>5, <1>6

LEMMA ProgressNext ==
  ASSUME NamesApart, SchemasInstall, DocumentsAreWhole, TypedInv, CleanInv, ProgressInv, [Next]_vars
  PROVE  ProgressInv'
<1>1. TypedInv'
  BY TypedNext
<1>2. CASE UNCHANGED vars
  <2>1. UNCHANGED <<modelMode, run, relations, rows, used>>
    BY <1>2 DEF vars
  <2> QED BY <2>1 DEF ProgressInv, Progress, FileStored, InHand, Partly, At, InPrelude, AllOurs,
                      RunSchema, DropCount, HasKey, There, Named
<1>3. CASE run' = Nobody
  BY <1>3 DEF ProgressInv
<1>4. ASSUME run'.file = 1, run'.line = 1, run' # Nobody
      PROVE  ProgressInv'
  <2>1. \A i \in 1..Len(run'.flags.files) : ~(i < run'.file)
    BY <1>4
  <2> QED BY <1>4, <2>1 DEF ProgressInv, Progress, FileStored
<1>5. ASSUME NEW flags \in Flags(modelMode), Start(flags)
      PROVE  ProgressInv'
  <2>1. run' = Nobody \/ run' = [Nobody EXCEPT !.flags = flags]
    BY <1>5 DEF Start
  <2>2. run' = [Nobody EXCEPT !.flags = flags] => run'.file = 1 /\ run'.line = 1
    BY DEF Nobody
  <2> QED BY <1>3, <1>4, <2>1, <2>2
<1>6. CASE Finish
  BY <1>3, <1>6 DEF Finish, End
<1>7. CASE ExecNext \/ CutOff
  <2>1. /\ run # Nobody /\ ~AtEnd /\ UNCHANGED <<modelMode, used>>
        /\ run' = Nobody \/ (Does(Current) /\ run' = Advanced)
    BY <1>7, StepDoes
  <2>2. CASE InPrelude /\ run' = Advanced
    <3>1. run'.file = 1 /\ run'.line = 1
      BY <2>1, <2>2, AdvancedTo DEF TypedInv, RunInv
    <3> QED BY <1>3, <1>4, <3>1
  <2>3. ASSUME Does(Current), run' = Advanced, ~InPrelude, run' # Nobody, AllOurs(RunSchema)', HasKey'
        PROVE  Progress'
    <3>1. /\ run'.flags = run.flags /\ DropCount' = DropCount /\ run'.prelude = run.prelude
          /\ Current.op \in Dml
      BY <2>1, <2>3, PreludeStep
    <3>2. relations' = relations
      BY <2>1, <2>3, <3>1, DmlKeepsRelations
    <3>3. HasKey
      BY <2>1, <2>3, <3>2 DEF HasKey
    <3>4. AllOurs(RunSchema)
      BY <2>1, <2>3, <3>1 DEF AllOurs, RunSchema
    <3>5. RunSchema \in Usable(modelMode)
      BY <2>1, RunnableFlags DEF TypedInv, RunInv, RunSchema
    <3>6. RightIn(RunSchema) /\ RowsClean(RunSchema)
      BY <3>3, <3>4, <3>5 DEF CleanInv, Clean
    <3>7. Progress
      BY <2>1, <2>3, <3>3, <3>4 DEF ProgressInv
    <3> QED BY <2>1, <2>3, <3>3, <3>6, <3>7, Progresses
  <2>4. CASE ~InPrelude /\ Does(Current) /\ run' = Advanced
    BY <2>3, <2>4 DEF ProgressInv
  <2> QED BY <1>3, <2>1, <2>2, <2>4
<1> QED BY <1>2, <1>5, <1>6, <1>7 DEF Next

-----------------------------------------------------------------------------
(* What a run has stored when it ends.                                     *)

LEMMA Greatest ==
  ASSUME NEW n \in Nat, NEW S \in SUBSET (1..n), S # {}
  PROVE  \E i \in S : \A j \in S : j <= i
<1> DEFINE T == {n - i : i \in S}
<1>1. T \subseteq Nat /\ T # {}
  <2>1. \A i \in 1..n : n - i \in Nat
    OBVIOUS
  <2>2. PICK i \in S : TRUE
    OBVIOUS
  <2>3. n - i \in T
    OBVIOUS
  <2>4. T \subseteq Nat
    BY <2>1
  <2> QED BY <2>3, <2>4
<1> HIDE DEF T
<1>2. \E x \in T : \A y \in T : ~(<<y, x>> \in OpToRel(<, Nat))
  BY <1>1, WFMin, NatLessThanWellFounded
<1>3. PICK x \in T : \A y \in T : ~(y < x)
  BY <1>1, <1>2 DEF OpToRel
<1>4. PICK i \in S : x = n - i
  BY DEF T
<1>5. \A j \in S : n - j \in T
  BY DEF T
<1> QED BY <1>3, <1>4, <1>5

(* The names a run creates are those of tables and views.                  *)
LEMMA NamesAre ==
  ASSUME modelMode \in BOOLEAN, NEW s \in Usable(modelMode)
  PROVE  /\ TablesIn(modelMode, s) \subseteq NamesOf(s)
         /\ NamesOf(s) \subseteq TablesIn(modelMode, s) \cup (IF modelMode THEN ViewNames(s) ELSE {})
<1>1. CASE ~modelMode
  BY <1>1 DEF NamesOf, TablesIn
<1>2. CASE modelMode
  <2> DEFINE ddl == ModelDdl(s)
             t == TableCount(s)
             v == ViewCount(s)
             root == Models[s].root
  <2>1. s \in Planned
    BY <1>2 DEF Usable
  <2>2. /\ DOMAIN ddl = 1..(t + v + 1) /\ t \in Nat /\ v \in Nat
        /\ \A i \in 1..t : ddl[i].name = Models[s].tables[i].name
        /\ \A i \in 1..v : ddl[t + i].name = ViewName(root, root.arrays[i])
        /\ ddl[t + v + 1].name = Append(TableName, "registry")
    <3>1. /\ DOMAIN ddl = 1..(t + v + 1) /\ t \in Nat /\ v \in Nat
          /\ \A i \in 1..t : ddl[i] = TableStatement(s, i)
          /\ \A i \in 1..v : ddl[t + i] = ViewStatement(s, i)
          /\ ddl[t + v + 1] = Registry
      BY <2>1, DdlShape, PlannedModels
    <3>2. \A i \in 1..t : TableStatement(s, i).name = Models[s].tables[i].name
      BY <2>1, DdlStatements
    <3>3. \A i \in 1..v : ViewStatement(s, i).name = ViewName(root, root.arrays[i])
      BY <2>1, DdlStatements
    <3>4. Registry.name = Append(TableName, "registry")
      BY DEF Registry
    <3> HIDE DEF ddl, t, v, root
    <3> QED BY <3>1, <3>2, <3>3, <3>4
  <2>3. \A i \in 1..v : ViewName(root, root.arrays[i]) \in ViewNames(s)
    BY <2>1, PlannedModels, SequenceFacts DEF ViewNames
  <2>4. NamesOf(s) = {ddl[i].name : i \in DOMAIN ddl}
    BY <1>2 DEF NamesOf, ToSet
  <2>5. TableNames(s) = {Models[s].tables[i].name : i \in 1..t} \cup {Append(TableName, "registry")}
    BY <2>1, TableNamesAre
  <2> HIDE DEF ddl, t, v, root
  <2>6. ASSUME NEW i \in DOMAIN ddl
        PROVE  ddl[i].name \in TableNames(s) \cup ViewNames(s)
    <3>1. i \in 1..t \/ i - t \in 1..v \/ i = t + v + 1
      BY <2>2
    <3>2. ASSUME i - t \in 1..v
          PROVE  ddl[i].name \in ViewNames(s)
      <4>1. t + (i - t) = i
        BY <2>2
      <4> QED BY <2>2, <2>3, <3>2, <4>1
    <3> QED BY <2>2, <2>5, <3>1, <3>2
  <2>7. TableNames(s) \subseteq NamesOf(s)
    <3>1. 1..t \subseteq DOMAIN ddl /\ t + v + 1 \in DOMAIN ddl
      BY <2>2
    <3> QED BY <2>2, <2>4, <2>5, <3>1
  <2> QED BY <1>2, <2>4, <2>6, <2>7 DEF TablesIn
<1> QED BY <1>1, <1>2

(* No row is in a table called like a view.                                *)
LEMMA OwnAre ==
  ASSUME NamesApart, TypedInv, NEW s \in Usable(modelMode)
  PROVE  Own(s) = {r \in rows : r.table \in TablesIn(modelMode, s)}
<1>1. modelMode \in BOOLEAN /\ DatabaseInv
  BY DEF TypedInv
<1>2. ASSUME modelMode, NEW r \in rows
      PROVE  r.table \notin ViewNames(s)
  <2>1. PICK table \in relations : table.name = r.table /\ table.kind = "table"
    BY <1>1 DEF DatabaseInv, RowsTyped
  <2>2. "table" # "view" /\ s \in Planned
    BY <1>2 DEF Usable
  <2> QED BY <1>1, <1>2, <2>1, <2>2, KindsApart
<1>3. /\ TablesIn(modelMode, s) \subseteq NamesOf(s)
      /\ NamesOf(s) \subseteq TablesIn(modelMode, s) \cup (IF modelMode THEN ViewNames(s) ELSE {})
  BY <1>1, NamesAre
<1> QED BY <1>2, <1>3 DEF Own

(* The cells of the rows under a key; those of a whole document are what   *)
(* it means to its reader.                                                 *)
CellsOfRows(m, rs) == IF m THEN CellsIn(rs) ELSE LandingCellsIn(rs)

LEMMA UnderAre ==
  ASSUME NamesApart, TypedInv, NEW s \in Usable(modelMode), NEW k
  PROVE  Under(s, k) = CellsOfRows(modelMode, At(s, k))
<1> DEFINE T == TablesIn(modelMode, s)
           cells(r) == IF modelMode
                         THEN {RowCell(r.table, r.at)}
                                \cup {Cell(r.table, r.at, c, r.vals[c]) : c \in DOMAIN r.vals}
                         ELSE {Cell(r.table, r.at, c, r.vals[c]) :
                                 c \in {x \in DOMAIN r.vals : r.vals[x] # Nil}}
<1>1. \A r : \A c \in cells(r) : KeyIn(c) = r.at[1]
  BY DEF KeyIn, Cell, RowCell
<1>2. Own(s) = {r \in rows : r.table \in T}
  BY OwnAre
<1>3. Under(s, k) = {c \in UNION {cells(r) : r \in Own(s)} : KeyIn(c) = k}
  <2>1. CASE modelMode
    BY <2>1 DEF Under, CellsIn
  <2>2. CASE ~modelMode
    BY <2>2 DEF Under, LandingCellsIn
  <2> QED BY <2>1, <2>2
<1>4. CellsOfRows(modelMode, At(s, k)) = UNION {cells(r) : r \in At(s, k)}
  <2>1. CASE modelMode
    BY <2>1 DEF CellsOfRows, CellsIn
  <2>2. CASE ~modelMode
    BY <2>2 DEF CellsOfRows, LandingCellsIn
  <2> QED BY <2>1, <2>2
<1>5. At(s, k) = {r \in Own(s) : r.at[1] = k}
  BY <1>2 DEF At
<1> HIDE DEF cells
<1> QED BY <1>1, <1>3, <1>4, <1>5

LEMMA WholeCells ==
  ASSUME SchemasInstall, DocumentsAreWhole, NEW m \in BOOLEAN, NEW s, NEW d \in StoredIn(m, s)
  PROVE  CellsOfRows(m, Whole(m, d)) = CellsOf(m, d)
<1>1. CASE m
  <2> DEFINE r == Renderings[d]
             rowsOf == RowsOf(r)
  <2>1. m = TRUE /\ d \in DocumentsOf(TRUE) /\ Renderings[d].key # Nil
    BY <1>1 DEF StoredIn
  <2>2. /\ WholeRendering(d) /\ Len(r.children) \in Nat
        /\ DOMAIN r.children = 1..Len(r.children)
    BY <2>1, ModelRows
  <2>3. CellsIn(rowsOf) = CellsOf(TRUE, d)
    BY <2>2 DEF WholeRendering, IsWhole
  <2>4. Whole(TRUE, d) = {RowNumber(r, i) : i \in 1..(Len(r.children) + 1)}
    BY DEF Whole, Written, DocRow, DocCount, RowCount
  <2>5. \A i : RowNumber(r, i) = IF i = 1 THEN r.row ELSE r.children[i - 1].row
    BY DEF RowNumber
  <2> HIDE DEF r
  <2>6. Whole(TRUE, d) = rowsOf
    <3>1. ASSUME NEW i \in 1..(Len(r.children) + 1)
          PROVE  RowNumber(r, i) \in rowsOf
      <4>1. i # 1 => i - 1 \in 1..Len(r.children)
        BY <2>2
      <4> QED BY <2>2, <2>5, <4>1 DEF RowsOf
    <3>2. ASSUME NEW i \in 1..Len(r.children)
          PROVE  r.children[i].row \in Whole(TRUE, d)
      <4>1. i + 1 \in 1..(Len(r.children) + 1) /\ i + 1 # 1 /\ i + 1 - 1 = i
        BY <2>2
      <4>2. RowNumber(r, i + 1) = r.children[i].row
        BY <2>5, <4>1
      <4> QED BY <2>4, <4>1, <4>2
    <3>3. r.row \in Whole(TRUE, d)
      <4>1. 1 \in 1..(Len(r.children) + 1)
        BY <2>2
      <4> QED BY <2>4, <2>5, <4>1
    <3> QED BY <2>2, <2>4, <3>1, <3>2, <3>3 DEF RowsOf
  <2> QED BY <2>1, <2>3, <2>6 DEF CellsOfRows
<1>2. CASE ~m
  <2>1. m = FALSE /\ d \in DocumentsOf(FALSE)
    BY <1>2 DEF StoredIn
  <2>2. WholeValues(d)
    BY <2>1 DEF DocumentsAreWhole
  <2>3. LandingCellsIn({LandingRow(d)}) = CellsOf(FALSE, d)
    BY <2>2 DEF WholeValues, LandingRow, LandingRowAt
  <2>4. Whole(FALSE, d) = {LandingRow(d)}
    <3>1. Whole(FALSE, d) = Written(FALSE, d, 1) /\ DocRow(FALSE, d, 1) = LandingRow(d)
      BY DEF Whole, DocCount, DocRow
    <3> QED BY <3>1, WrittenMore
  <2> QED BY <2>1, <2>3, <2>4 DEF CellsOfRows
<1> QED BY <1>1, <1>2

(* All that holds of what is stored.                                       *)
StoreInv ==
  TypedInv /\ RoomInv /\ ParentsInv /\ FreshInv /\ CleanInv /\ ProgressInv

LEMMA StoreInit ==
  ASSUME Init
  PROVE  StoreInv
<1>1. TypedInv
  BY TypedInit
<1>2. RoomInv
  BY DEF Init, RoomInv, GoneInv, InstalledInv, ViewInv
<1>3. run = Nobody /\ relations = {} /\ rows = {}
  BY DEF Init
<1>4. ParentsInv /\ FreshInv /\ ProgressInv
  BY <1>3 DEF ParentsInv, FreshInv, ProgressInv
<1>5. \A s : Clean(s)
  BY <1>3 DEF Clean, RightIn, RowsClean, RowsIn, UniqueIn, RootIn, ReferIn
<1> QED BY <1>1, <1>2, <1>4, <1>5 DEF StoreInv, CleanInv

LEMMA StoreNext ==
  ASSUME NamesApart, SchemasInstall, DocumentsAreWhole, StoreInv, [Next]_vars
  PROVE  StoreInv'
BY TypedNext, RoomNext, ParentsNext, FreshNext, CleanNext, ProgressNext DEF StoreInv

(* At the end of a run.                                                    *)
LEMMA FinishStores ==
  ASSUME NamesApart, SchemasInstall, DocumentsAreWhole, StoreInv, run # Nobody, AtEnd,
         IF run.flags.drop THEN TRUE ELSE used = {RunSchema},
         HasKey, NEW k, NEW is, is = {i \in DOMAIN run.flags.files : KeyOf(run.flags.files[i]) = k},
         is # {}
  PROVE  \E i \in is : /\ \A j \in is : j <= i
                       /\ Under(RunSchema, k) = CellsOf(modelMode, run.flags.files[i])
<1> DEFINE flags == run.flags
           m == Len(flags.files)
           s == RunSchema
<1>1. /\ Runnable(modelMode, flags) /\ modelMode \in BOOLEAN /\ TypedInv
      /\ ~InPrelude /\ run.file > m /\ run.file \in 1..(m + 1)
      /\ run.prelude \in 0..Len(Prelude(flags))
  BY DEF StoreInv, TypedInv, RunInv, AtEnd
<1>2. /\ s \in Usable(modelMode) /\ IsSequence(flags.files)
      /\ \A i \in DOMAIN flags.files : flags.files[i] \in DocumentsOf(modelMode)
  BY <1>1, RunnableFlags DEF RunSchema
<1>3. DOMAIN flags.files = 1..m /\ m \in Nat
  BY <1>2, SequenceFacts
<1>4. AllOurs(s)
  <2>1. CASE ~flags.drop
    BY <2>1 DEF AllOurs
  <2>2. CASE flags.drop
    <3> DEFINE drops == DropCount
               creates == CreateCount
               size == Len(Prelude(flags))
    <3>1. run.prelude \in 0..size /\ ~(run.prelude < size)
      BY <1>1 DEF InPrelude
    <3>2. drops \in Nat /\ creates \in Nat /\ size = drops + creates
      BY <1>1, PreludeIs DEF DropCount, CreateCount
    <3>3. drops <= run.prelude
      <4> HIDE DEF drops, creates, size
      <4> QED BY <3>1, <3>2
    <3> QED BY <2>2, <3>3 DEF AllOurs
  <2> QED BY <2>1, <2>2
<1>5. Progress
  BY <1>1, <1>4 DEF StoreInv, ProgressInv
<1>6. is \in SUBSET (1..m)
  BY <1>3
<1>7. PICK i \in is : \A j \in is : j <= i
  BY <1>3, <1>6, Greatest
<1>8. i \in 1..m /\ KeyOf(flags.files[i]) = k
  BY <1>3, <1>7
<1>9. At(s, k) = Whole(modelMode, flags.files[i])
  <2>1. i < run.file /\ ~(run.file <= m)
    <3> HIDE DEF m
    <3> QED BY <1>1, <1>3, <1>8
  <2>2. ~InHand(k)
    BY <2>1 DEF InHand
  <2>3. \A j \in 1..m : KeyOf(flags.files[j]) = k => j <= i
    BY <1>3, <1>7
  <2> QED BY <1>5, <1>8, <2>1, <2>2, <2>3 DEF Progress, FileStored
<1>10. flags.files[i] \in StoredIn(modelMode, s)
  <2>1. LET d == flags.files[i] IN d \in StoredIn(modelMode, flags.schema)
    BY <1>1, <1>8, LinesAre
  <2> QED BY <2>1 DEF RunSchema
<1>11. Under(s, k) = CellsOf(modelMode, flags.files[i])
  <2>1. Under(s, k) = CellsOfRows(modelMode, At(s, k))
    BY <1>1, <1>2, UnderAre
  <2>2. CellsOfRows(modelMode, Whole(modelMode, flags.files[i])) = CellsOf(modelMode, flags.files[i])
    BY <1>1, <1>10, WholeCells
  <2> QED BY <1>9, <2>1, <2>2
<1> QED BY <1>7, <1>11

(* A run that ends well has stored its documents, of several with one key  *)
(* the last, exactly: whatever runs before it were refused or cut off      *)
(* between two statements of a document, nothing of theirs is left under   *)
(* its keys (dml.go:19-27, cli.go:180-184).  It needs that documents have  *)
(* all their arrays, at the root of their schema.                          *)
THEOREM RunsStore ==
  ASSUME NamesApart, SchemasInstall, DocumentsAreWhole
  PROVE  Spec => []StoredWhenDone
<1> DEFINE Inv == StoreInv /\ StoredWhenDone
<1>1. Init => Inv
  <2> SUFFICES ASSUME Init PROVE Inv
    OBVIOUS
  <2>1. last = NoRun
    BY DEF Init
  <2> QED BY <2>1, StoreInit DEF StoredWhenDone, Settled
<1>2. Inv /\ [Next]_vars => Inv'
  <2> SUFFICES ASSUME Inv, [Next]_vars PROVE Inv'
    OBVIOUS
  <2>1. StoreInv'
    BY StoreNext
  <2> SUFFICES StoredWhenDone'
    BY <2>1
  <2>2. CASE UNCHANGED vars
    <3>1. UNCHANGED <<modelMode, relations, rows, last, used>>
      BY <2>2 DEF vars
    <3>2. Settled' = Settled
      BY <3>1 DEF Settled, There, Named, TheRelation
    <3>3. Keys' = Keys
      BY <3>1 DEF Keys, Documents
    <3>4. ASSUME NEW k
          PROVE  Under(last.flags.schema, k)' = Under(last.flags.schema, k)
      BY <3>1 DEF Under, Own, NamesOf
    <3> QED BY <3>1, <3>2, <3>3, <3>4 DEF StoredWhenDone
  <2>3. CASE last'.result # "done"
    BY <2>3 DEF StoredWhenDone
  <2>4. ASSUME NEW flags \in Flags(modelMode), Start(flags)
        PROVE  StoredWhenDone'
    <3>1. last' = [flags |-> flags, result |-> "refused", op |-> "render"] \/ last' = NoRun
      BY <2>4 DEF Start
    <3>2. last'.result = "refused" \/ last' = NoRun
      BY <3>1
    <3> QED BY <2>3, <3>2 DEF StoredWhenDone, Settled
  <2>5. CASE Finish
    <3>1. /\ run # Nobody /\ AtEnd /\ UNCHANGED <<modelMode, relations, rows>>
          /\ last' = [flags |-> run.flags, result |-> "done", op |-> "none"]
          /\ used' = IF run.flags.drop THEN {RunSchema} ELSE used
      BY <2>5 DEF Finish, End, RunSchema
    <3>2. last'.flags = run.flags
      BY <3>1
    <3>3. ASSUME Settled', NEW k, NEW is, is = FilesOf(run.flags, k), is # {}
          PROVE  \E i \in is : /\ \A j \in is : j <= i
                               /\ Under(RunSchema, k) = CellsOf(modelMode, run.flags.files[i])
      <4>1. used' = {RunSchema}
        BY <3>2, <3>3 DEF Settled, RunSchema
      <4>2. HasKey
        <5>1. CASE modelMode
          BY <5>1 DEF HasKey
        <5>2. CASE ~modelMode
          <6>1. There(TableName)' /\ TheRelation(TableName)'.pk = <<Pk>>
            BY <3>1, <3>3, <5>2 DEF Settled
          <6>2. There(TableName) /\ TheRelation(TableName).pk = <<Pk>>
            BY <3>1, <6>1 DEF There, Named, TheRelation
          <6> QED BY <6>2, ThereIsOne DEF HasKey
        <5> QED BY <5>1, <5>2
      <4>3. IF run.flags.drop THEN TRUE ELSE used = {RunSchema}
        BY <3>1, <4>1
      <4>4. is = {i \in DOMAIN run.flags.files : KeyOf(run.flags.files[i]) = k}
        BY <3>3 DEF FilesOf
      <4> QED BY <3>1, <3>3, <4>2, <4>3, <4>4, FinishStores
    <3>4. ASSUME Settled', NEW k, FilesOf(last'.flags, k) # {}
          PROVE  LET is == FilesOf(last'.flags, k)
                 IN \E i \in is :
                      /\ \A j \in is : j <= i
                      /\ Under(last.flags.schema, k)' = CellsOf(modelMode', last'.flags.files[i])
      <4>1. PICK is : is = FilesOf(run.flags, k)
        OBVIOUS
      <4>2. \E i \in is : /\ \A j \in is : j <= i
                          /\ Under(RunSchema, k) = CellsOf(modelMode, run.flags.files[i])
        BY <3>2, <3>3, <3>4, <4>1
      <4>3. Under(last.flags.schema, k)' = Under(RunSchema, k)
        BY <3>1, <3>2 DEF Under, Own, NamesOf, RunSchema
      <4> QED BY <3>1, <3>2, <4>1, <4>2, <4>3
    <3> QED BY <3>4 DEF StoredWhenDone
  <2>6. CASE ExecNext \/ CutOff
    <3>1. run # Nobody
      BY <2>6, StepDoes DEF StoreInv
    <3>2. last = NoRun
      BY <3>1 DEF StoreInv, TypedInv, LastInv
    <3>3. \/ last' = last
          \/ last' = [flags |-> run.flags, result |-> "refused", op |-> Current.op]
          \/ last' = [flags |-> run.flags, result |-> "cut off", op |-> "none"]
      BY <2>6 DEF ExecNext, CutOff, End
    <3>4. \A x, f, o : x = [flags |-> f, result |-> "cut off", op |-> o] => x.result # "done"
      <4>1. \A x, f, e, o : x = [flags |-> f, result |-> e, op |-> o] => x.result = e
        OBVIOUS
      <4>2. "cut off" # "done"
        BY Zenon
      <4> QED BY <4>1, <4>2, Zenon
    <3>5. \A x, f, o : x = [flags |-> f, result |-> "refused", op |-> o] => x.result # "done"
      OBVIOUS
    <3>6. last' = NoRun \/ last'.result # "done"
      BY <3>2, <3>3, <3>4, <3>5, Zenon
    <3> QED BY <2>3, <3>6 DEF StoredWhenDone, Settled
  <2> QED BY <2>2, <2>4, <2>5, <2>6 DEF Next
<1>3. Inv => StoredWhenDone
  OBVIOUS
<1> QED BY <1>1, <1>2, <1>3, PTL DEF Spec

-----------------------------------------------------------------------------
(* What is refused.                                                        *)

(* A row fits when those before it are stored.                             *)
LEMMA NextFits ==
  ASSUME NEW d, RowsAre(modelMode, d), NEW e \in 2..DocCount(modelMode, d),
         At(d.schema, KeyOf(d)) = Written(modelMode, d, e - 1)
  PROVE  InsertFits(DocRow(modelMode, d, e), KeyOf(d))
<1> DEFINE n == DocCount(modelMode, d)
           k == KeyOf(d)
           row(i) == DocRow(modelMode, d, i)
<1>1. n \in Nat \ {0} /\ e \in 2..n
  BY DEF RowsAre
<1>2. e \in 1..n /\ 1 \in 1..n /\ 1 \in 1..(e - 1) /\ \A i \in 1..(e - 1) : i \in 1..n /\ i # e
  <2> HIDE DEF n
  <2> QED BY <1>1
<1>3. At(d.schema, k) = {row(i) : i \in 1..(e - 1)}
  BY DEF Written
<1>4. /\ \A i \in 1..n : row(i).at[1] = k /\ row(i).table \in TablesIn(modelMode, d.schema)
      /\ \A i \in 1..n, j \in 1..n : Same(row(i), row(j)) => i = j
  BY DEF RowsAre
<1>5. row(1).table = TableName /\ row(1).at = <<k>>
  <2> DEFINE root == row(1)
  <2>1. root = [table |-> TableName, parent |-> <<>>, at |-> <<k>>, vals |-> root.vals]
    BY DEF RowsAre
  <2> HIDE DEF root
  <2>2. root.table = TableName /\ root.at = <<k>>
    BY <2>1
  <2> QED BY <2>2 DEF root
<1> HIDE DEF row, n, k
<1>6. ASSUME NEW r \in rows, Same(r, row(e))
      PROVE  FALSE
  <2>1. r \in At(d.schema, k)
    BY <1>2, <1>4, <1>6 DEF At, Same
  <2>2. PICK i \in 1..(e - 1) : r = row(i)
    BY <1>3, <2>1
  <2> QED BY <1>2, <1>4, <1>6, <2>2
<1>7. row(1) \in rows
  BY <1>2, <1>3 DEF At
<1> QED BY <1>5, <1>6, <1>7 DEF InsertFits, row, k

(* Of the statements of a document only its first INSERT can be refused,   *)
(* when the tables are there.                                              *)
LEMMA LineAccepted ==
  ASSUME NamesApart, SchemasInstall, DocumentsAreWhole, TypedInv, run # Nobody, ~AtEnd,
         ~InPrelude, RightIn(RunSchema), HasKey, RowsClean(RunSchema), Progress,
         \A x \in TablesIn(modelMode, RunSchema) : There(x),
         ~(run.line = 1 /\ Inserts(run.flags))
  PROVE  ExecStatement(run.flags, Current).ok
<1> DEFINE flags == run.flags
           d == flags.files[run.file]
           l == run.line
           n == DocCount(modelMode, d)
           nd == DeleteCount(modelMode, d)
           ins == InsertLines(modelMode, flags, d)
           at == At(RunSchema, KeyOf(d))
           st == Current
           size == Len(File(flags, run.file))
           m == Len(flags.files)
<1>1. /\ run.file \in 1..m /\ l \in 1..size
      /\ IsLine(modelMode, flags, d, l, st)
  BY CurrentIs
<1>2. /\ Runnable(modelMode, flags) /\ modelMode \in BOOLEAN /\ DatabaseInv
      /\ flags.model = modelMode /\ RunSchema \in Usable(modelMode)
  BY RunnableFlags DEF TypedInv, RunInv, RunSchema
<1>3. /\ d \in StoredIn(modelMode, RunSchema) /\ n \in Nat \ {0} /\ nd \in Nat /\ ins \in {0, n}
      /\ \/ l \in 1..ins /\ Inserts(flags) /\ st = Insertion(modelMode, d, l)
         \/ l - ins \in 1..nd /\ modelMode /\ st = Deletion(d, l - ins)
         \/ l - ins - nd = 1 /\ st = Upsertion(modelMode, d)
         \/ l - ins - nd \in 2..n /\ st = Insertion(modelMode, d, l - ins - nd)
  BY <1>1 DEF IsLine, RunSchema
<1>4. RowsAre(modelMode, d) /\ d.schema = RunSchema /\ l \in Nat \ {0}
  <2>1. RowsAre(modelMode, d) /\ d.schema = RunSchema
    BY <1>2, <1>3, DocumentRows DEF StoredIn
  <2>2. l \in Nat \ {0}
    <3> HIDE DEF size
    <3> QED BY <1>1
  <2> QED BY <2>1, <2>2
<1>5. l > 1 =>
        /\ l - 1 <= ins => at = Written(modelMode, d, l - 1)
        /\ ins + nd < l - 1 => at = Written(modelMode, d, l - 1 - ins - nd)
  <2>1. run.file <= m
    <3> HIDE DEF m
    <3> QED BY <1>1
  <2>2. l > 1 => Partly(flags, d, l - 1)
    BY <2>1 DEF Progress
  <2> QED BY <2>2 DEF Partly, RunSchema
<1>6. ASSUME NEW e \in 2..n, at = Written(modelMode, d, e - 1), st = Insertion(modelMode, d, e)
      PROVE  ExecStatement(flags, st).ok
  <2> DEFINE row == DocRow(modelMode, d, e)
  <2>1. InsertFits(row, KeyOf(d))
    BY <1>4, <1>6, NextFits
  <2>2. e \in 1..n
    <3> HIDE DEF n
    <3> QED BY <1>3
  <2>3. There(row.table)
    BY <1>4, <2>2 DEF RowsAre
  <2>4. LET r == DocRow(modelMode, d, e)
            i == Insertion(modelMode, d, e)
        IN There(r.table) /\ InsertFits(r, KeyOf(d)) => ExecStatement(run.flags, i).ok
    BY <1>2, <1>3, <2>2, InsertDoes
  <2> QED BY <1>6, <2>1, <2>3, <2>4
<1>7. CASE l \in 1..ins /\ Inserts(flags) /\ st = Insertion(modelMode, d, l)
  <2>1. l \in 2..n /\ l > 1 /\ l - 1 <= ins
    <3> HIDE DEF n, nd, ins
    <3> QED BY <1>3, <1>4, <1>7
  <2> QED BY <1>5, <1>6, <1>7, <2>1
<1>8. CASE l - ins \in 1..nd /\ modelMode /\ st = Deletion(d, l - ins)
  <2> DEFINE j == l - ins
  <2>1. modelMode = TRUE /\ RowsIn(RunSchema) /\ ReferIn(RunSchema)
    BY <1>2, <1>8 DEF RowsClean
  <2>2. LET x == Deletion(d, j)
        IN /\ There(DeleteTable(d, j)) => ExecStatement(run.flags, x).ok
           /\ DeleteTable(d, j) \in TablesIn(modelMode, RunSchema)
    BY <1>2, <1>3, <1>8, <2>1, DeleteDoes
  <2> QED BY <1>8, <2>2
<1>9. CASE l - ins - nd = 1 /\ st = Upsertion(modelMode, d)
  <2>1. RowsIn(RunSchema)
    BY DEF RowsClean
  <2>2. LET u == Upsertion(modelMode, d)
        IN There(TableName) => ExecStatement(run.flags, u).ok
    BY <1>2, <1>3, <2>1, UpsertDoes
  <2>3. There(TableName)
    BY <1>2, RootName DEF TablesIn, Usable
  <2> QED BY <1>9, <2>2, <2>3
<1>10. CASE l - ins - nd \in 2..n /\ st = Insertion(modelMode, d, l - ins - nd)
  <2> DEFINE e == l - ins - nd
  <2>1. l > 1 /\ ins + nd < l - 1 /\ l - 1 - ins - nd = e - 1
    <3> HIDE DEF n, nd, ins
    <3> QED BY <1>3, <1>4, <1>10
  <2>2. at = Written(modelMode, d, e - 1)
    BY <1>5, <2>1
  <2> QED BY <1>6, <1>10, <2>2
<1> QED BY <1>3, <1>7, <1>8, <1>9, <1>10

LEMMA UpsertAccepted ==
  ASSUME NamesApart, SchemasInstall, DocumentsAreWhole, StoreInv, run # Nobody, ~AtEnd,
         used = {RunSchema}, HasKey, run.flags.mode = "upsert",
         \A x \in NamesOf(RunSchema) : There(x)
  PROVE  ExecStatement(run.flags, Current).ok
<1>1. /\ Runnable(modelMode, run.flags) /\ modelMode \in BOOLEAN /\ TypedInv /\ RoomInv
      /\ RunSchema \in Usable(modelMode)
  BY RunnableFlags DEF StoreInv, TypedInv, RunInv, RunSchema
<1>2. ~Creates(run.flags) /\ ~Inserts(run.flags)
  BY DEF Creates, Inserts
<1>3. AllOurs(RunSchema)
  BY DEF AllOurs
<1>4. RightIn(RunSchema) /\ RowsClean(RunSchema)
  BY <1>1, <1>3 DEF StoreInv, CleanInv, Clean
<1>5. CASE InPrelude
  <2>1. CreateCount = 0
    BY <1>1, <1>2, CreatesAre DEF CreateCount
  <2>2. run.flags.drop \/ \E j \in 1..CreateCount : TRUE
    BY <1>1, <1>5, CurrentIs
  <2>3. run.flags.drop
    BY <2>1, <2>2
  <2> QED BY <1>1, <1>5, <2>3, PreludeAccepted
<1>6. CASE ~InPrelude
  <2>1. Progress
    BY <1>3, <1>6 DEF StoreInv, ProgressInv
  <2>2. \A x \in TablesIn(modelMode, RunSchema) : There(x)
    BY <1>1, NamesAre
  <2> QED BY <1>1, <1>2, <1>4, <1>6, <2>1, <2>2, LineAccepted
<1> QED BY <1>5, <1>6

(* What the last run was, after a step.                                    *)
LEMMA LastAfter ==
  ASSUME TypedInv, [Next]_vars
  PROVE  \/ UNCHANGED vars
         \/ last' = NoRun
         \/ last'.result = "refused" /\ last'.op = "render" /\ UNCHANGED <<modelMode, relations, rows>>
         \/ /\ Finish /\ last'.result = "done" /\ last'.flags = run.flags
         \/ last'.result = "cut off"
         \/ /\ ExecNext /\ ~ExecStatement(run.flags, Current).ok
            /\ last'.result = "refused" /\ last'.op = Current.op /\ last'.flags = run.flags
            /\ run # Nobody /\ ~AtEnd /\ UNCHANGED <<modelMode, used, relations, rows>>
<1>1. \A x, f, e, o : x = [flags |-> f, result |-> e, op |-> o] =>
                         x.flags = f /\ x.result = e /\ x.op = o
  OBVIOUS
<1>2. ASSUME NEW flags \in Flags(modelMode), Start(flags)
      PROVE  \/ last' = NoRun
             \/ /\ last'.result = "refused" /\ last'.op = "render"
                /\ UNCHANGED <<modelMode, relations, rows>>
  <2>1. /\ \/ last' = [flags |-> flags, result |-> "refused", op |-> "render"]
           \/ last' = NoRun
        /\ UNCHANGED <<modelMode, relations, rows>>
    BY <1>2 DEF Start
  <2> QED BY <2>1
<1>3. CASE Finish
  <2>1. last' = [flags |-> run.flags, result |-> "done", op |-> "none"]
    BY <1>3 DEF Finish, End
  <2> QED BY <1>3, <2>1
<1>4. CASE CutOff
  <2>1. last' = [flags |-> run.flags, result |-> "cut off", op |-> "none"]
    BY <1>4 DEF CutOff, End
  <2>2. last'.result = "cut off"
    BY <1>1, <2>1, Zenon
  <2> QED BY <2>2
<1>5. CASE ExecNext
  <2>1. /\ run # Nobody /\ ~AtEnd /\ UNCHANGED <<modelMode, used>>
        /\ UNCHANGED <<relations, rows>> \/ Does(Current)
    BY <1>5, StepDoes
  <2>2. last = NoRun
    BY <2>1 DEF TypedInv, LastInv
  <2>3. \/ last' = last
        \/ /\ ~ExecStatement(run.flags, Current).ok
           /\ last' = [flags |-> run.flags, result |-> "refused", op |-> Current.op]
    BY <1>5 DEF ExecNext, End
  <2>4. CASE last' = last
    BY <2>2, <2>4
  <2>5. CASE /\ ~ExecStatement(run.flags, Current).ok
             /\ last' = [flags |-> run.flags, result |-> "refused", op |-> Current.op]
    <3>1. UNCHANGED <<relations, rows>>
      BY <2>1, <2>5 DEF Does
    <3>2. last'.result = "refused" /\ last'.op = Current.op /\ last'.flags = run.flags
      BY <2>5
    <3> QED BY <1>5, <2>1, <2>5, <3>1, <3>2
  <2> QED BY <2>3, <2>4, <2>5
<1> QED BY <1>2, <1>3, <1>4, <1>5 DEF Next

(* An upsert is never refused by a model that is there, whatever earlier   *)
(* runs left of its documents, wherever they were cut off: running it      *)
(* again repairs them (dml.go:25-27).                                      *)
THEOREM RunsRepair ==
  ASSUME NamesApart, SchemasInstall, DocumentsAreWhole
  PROVE  Spec => []UpsertsRepair
<1> DEFINE Inv == StoreInv /\ UpsertsRepair
<1>1. Init => Inv
  <2> SUFFICES ASSUME Init PROVE Inv
    OBVIOUS
  <2>1. last = NoRun
    BY DEF Init
  <2> QED BY <2>1, StoreInit DEF UpsertsRepair, Settled
<1>2. Inv /\ [Next]_vars => Inv'
  <2> SUFFICES ASSUME Inv, [Next]_vars PROVE Inv'
    OBVIOUS
  <2>1. StoreInv' /\ TypedInv
    BY StoreNext DEF StoreInv
  <2> SUFFICES UpsertsRepair'
    BY <2>1
  <2>2. CASE UNCHANGED vars
    <3>1. UNCHANGED <<modelMode, relations, rows, last, used>>
      BY <2>2 DEF vars
    <3>2. Settled' = Settled
      BY <3>1 DEF Settled, There, Named, TheRelation
    <3>3. \A x : There(x)' = There(x)
      BY <3>1 DEF There, Named
    <3> QED BY <3>1, <3>2, <3>3 DEF UpsertsRepair, NamesOf
  <2>3. CASE last' = NoRun \/ last'.result # "refused" \/ last'.op = "render"
    BY <2>3 DEF UpsertsRepair, Settled
  <2>4. ASSUME last'.flags = run.flags, run # Nobody, ~AtEnd,
               ~ExecStatement(run.flags, Current).ok, UNCHANGED <<modelMode, used, relations, rows>>,
               Settled', last'.flags.mode = "upsert"
        PROVE  \E x \in NamesOf(RunSchema) : ~There(x)
    <3>1. used = {RunSchema} /\ run.flags.mode = "upsert"
      BY <2>4 DEF Settled, RunSchema
    <3>2. HasKey
      <4>1. CASE modelMode
        BY <4>1 DEF HasKey
      <4>2. CASE ~modelMode
        <5>1. There(TableName)' /\ TheRelation(TableName)'.pk = <<Pk>>
          BY <2>4, <4>2 DEF Settled
        <5>2. There(TableName) /\ TheRelation(TableName).pk = <<Pk>>
          BY <2>4, <5>1 DEF There, Named, TheRelation
        <5> QED BY <5>2, ThereIsOne DEF HasKey
      <4> QED BY <4>1, <4>2
    <3> QED BY <2>4, <3>1, <3>2, UpsertAccepted
  <2>5. ASSUME last'.flags = run.flags, UNCHANGED <<modelMode, relations>>,
               Settled' /\ last'.flags.mode = "upsert" =>
                 \E x \in NamesOf(RunSchema) : ~There(x)
        PROVE  UpsertsRepair'
    <3>1. \A x : There(x)' = There(x)
      BY <2>5 DEF There, Named
    <3> QED BY <2>5, <3>1 DEF UpsertsRepair, NamesOf, RunSchema
  <2>6. "cut off" # "refused"
    BY Zenon
  <2>7. "done" # "refused"
    OBVIOUS
  <2>8. \/ UNCHANGED vars
        \/ last' = NoRun \/ last'.result # "refused" \/ last'.op = "render"
        \/ /\ last'.flags = run.flags /\ run # Nobody /\ ~AtEnd
           /\ ~ExecStatement(run.flags, Current).ok
           /\ UNCHANGED <<modelMode, used, relations, rows>>
    BY <2>1, <2>6, <2>7, LastAfter, Zenon
  <2> QED BY <2>2, <2>3, <2>4, <2>5, <2>8
<1>3. Inv => UpsertsRepair
  OBVIOUS
<1> QED BY <1>1, <1>2, <1>3, PTL DEF Spec

-----------------------------------------------------------------------------
(* What is there, and what is stored, while no run is cut off.             *)

(* Only runs of s have used the database, since the last -drop.            *)
Steady(s) ==
  IF run = Nobody THEN used \subseteq {s}
  ELSE RunSchema = s /\ (IF run.flags.drop THEN DropCount <= run.prelude ELSE used \subseteq {s})

(* The model is there; or nothing of it but what the run has created.      *)
AllThere(s) == \A n \in NamesOf(s) : There(n)

Free(s) == \A n \in NamesOf(s) : There(n) => run # Nobody /\ InPrelude /\ Installed(n)

FreeInv ==
  modelMode /\ faults = 0 => \A s \in Planned : Steady(s) => AllThere(s) \/ Free(s)

LEMMA SteadyIsOurs ==
  ASSUME NEW s, Steady(s)
  PROVE  AllOurs(s)
BY DEF Steady, AllOurs

(* The steps of runs that are not cut off, seen by a schema that is alone. *)
SteadyIdle(s) == Steady(s) /\ run' = run /\ UNCHANGED <<relations, rows>>

SteadyStart(s) == Steady(s) /\ run = Nobody /\ UNCHANGED <<relations, rows>>

SteadyEnd(s) ==
  /\ Steady(s) /\ run # Nobody /\ RunSchema = s /\ run' = Nobody /\ UNCHANGED <<relations, rows>>
  /\ AtEnd \/ (~AtEnd /\ ~ExecStatement(run.flags, Current).ok)

SteadyDoes(s) ==
  Steady(s) /\ run # Nobody /\ RunSchema = s /\ ~AtEnd /\ Does(Current) /\ run' = Advanced

LastDrop(s) ==
  /\ run # Nobody /\ ~AtEnd /\ Does(Current) /\ run' = Advanced /\ InPrelude
  /\ run' # Nobody /\ run'.flags.drop /\ run'.prelude = DropCount' /\ RunSchema' = s

LEMMA AdvancedIsRun ==
  ASSUME TypedInv, run # Nobody, ~AtEnd, run' = Advanced
  PROVE  run' # Nobody
<1> DEFINE size == Len(File(run.flags, run.file))
           m == Len(run.flags.files)
           p == Len(Prelude(run.flags))
<1>1. /\ Runnable(modelMode, run.flags) /\ run.prelude \in 0..p /\ run.file \in 1..(m + 1)
      /\ run.file <= m => run.line \in 1..size
  BY DEF TypedInv, RunInv
<1>2. ~InPrelude => ~(run.file > m)
  BY DEF AtEnd
<1>3. m \in Nat
  BY <1>1, RunnableFlags, SequenceFacts
<1>4. /\ InPrelude => run'.prelude = run.prelude + 1
      /\ ~InPrelude /\ run.line < size => run'.line = run.line + 1
      /\ ~InPrelude /\ ~(run.line < size) => run'.file = run.file + 1
  BY AdvancedTo
<1>5. Nobody.prelude = 0 /\ Nobody.file = 1 /\ Nobody.line = 1
  BY DEF Nobody
<1> HIDE DEF size, m, p
<1>6. InPrelude => run'.prelude # 0
  BY <1>1, <1>4
<1>7. ~InPrelude => run'.line # 1 \/ run'.file # 1
  BY <1>1, <1>2, <1>3, <1>4
<1> QED BY <1>5, <1>6, <1>7

LEMMA SteadyStep ==
  ASSUME NamesApart, SchemasInstall, TypedInv, RoomInv, [Next]_vars, ~CutOff, NEW s, Steady(s)'
  PROVE  /\ UNCHANGED modelMode
         /\ SteadyIdle(s) \/ SteadyStart(s) \/ SteadyEnd(s) \/ SteadyDoes(s) \/ LastDrop(s)
<1>1. TypedInv'
  BY TypedNext
<1>2. CASE UNCHANGED vars
  <2>1. UNCHANGED <<modelMode, run, relations, rows, used>>
    BY <1>2 DEF vars
  <2>2. Steady(s)
    BY <2>1 DEF Steady, RunSchema, DropCount
  <2> QED BY <2>1, <2>2 DEF SteadyIdle
<1>3. ASSUME NEW flags \in Flags(modelMode), Start(flags)
      PROVE  /\ UNCHANGED modelMode
             /\ SteadyIdle(s) \/ SteadyStart(s)
  <2>1. /\ run = Nobody /\ UNCHANGED <<modelMode, relations, rows>>
        /\ \/ run' = run /\ used' = used
           \/ run' = [Nobody EXCEPT !.flags = flags] /\ used \subseteq used'
    BY <1>3 DEF Start
  <2>2. CASE run' = run /\ used' = used
    <3>1. Steady(s)
      BY <2>1, <2>2 DEF Steady
    <3> QED BY <2>1, <3>1 DEF SteadyStart
  <2>3. CASE run' = [Nobody EXCEPT !.flags = flags] /\ used \subseteq used'
    <3>1. run'.flags = flags /\ run'.prelude = 0
      BY <2>3 DEF Nobody
    <3>2. ASSUME run' # Nobody, run'.flags.drop
          PROVE  FALSE
      <4>1. Runnable(modelMode', flags)
        BY <1>1, <3>1, <3>2 DEF TypedInv, RunInv
      <4>2. Len(DropStatements(flags)) \in Nat /\ Len(DropStatements(flags)) # 0
        BY <3>1, <3>2, <4>1, PreludeIs, DropsSomething
      <4>3. DropCount' <= run'.prelude
        BY <3>2 DEF Steady
      <4> QED BY <3>1, <4>2, <4>3 DEF DropCount
    <3>3. used' \subseteq {s}
      BY <3>2 DEF Steady
    <3>4. Steady(s)
      BY <2>1, <2>3, <3>3 DEF Steady
    <3> QED BY <2>1, <3>4 DEF SteadyStart
  <2> QED BY <2>1, <2>2, <2>3
<1>4. CASE Finish
  <2>1. /\ run # Nobody /\ AtEnd /\ run' = Nobody /\ UNCHANGED <<modelMode, relations, rows>>
        /\ used' = IF run.flags.drop THEN {RunSchema} ELSE used
    BY <1>4 DEF Finish, End, RunSchema
  <2>2. used' \subseteq {s}
    BY <2>1 DEF Steady
  <2>3. RunSchema \in used
    BY <2>1 DEF TypedInv, RunInv
  <2>4. RunSchema = s
    BY <2>1, <2>2, <2>3
  <2>5. DropCount <= run.prelude
    <3> DEFINE drops == DropCount
               creates == CreateCount
               m == Len(Prelude(run.flags))
    <3>1. run.prelude \in 0..m /\ ~(run.prelude < m)
      BY <2>1 DEF TypedInv, RunInv, AtEnd, InPrelude
    <3>2. drops \in Nat /\ creates \in Nat /\ m = drops + creates
      BY <2>1, PreludeIs DEF TypedInv, RunInv, DropCount, CreateCount
    <3> HIDE DEF drops, creates, m
    <3>3. drops <= run.prelude
      BY <3>1, <3>2
    <3> QED BY <3>3 DEF drops
  <2>6. Steady(s)
    BY <2>1, <2>2, <2>4, <2>5 DEF Steady
  <2> QED BY <2>1, <2>4, <2>6 DEF SteadyEnd
<1>5. CASE ExecNext
  <2>1. /\ run # Nobody /\ ~AtEnd /\ UNCHANGED <<modelMode, used>>
        /\ UNCHANGED <<relations, rows>> \/ Does(Current)
        /\ RunSchema \in used
    BY <1>5, StepDoes DEF TypedInv, RunInv
  <2>2. \/ Does(Current) /\ run' = Advanced
        \/ ~ExecStatement(run.flags, Current).ok /\ run' = Nobody
    BY <1>5 DEF ExecNext, End, Does
  <2>3. CASE ~ExecStatement(run.flags, Current).ok /\ run' = Nobody
    <3>1. used \subseteq {s} /\ RunSchema = s
      BY <2>1, <2>3 DEF Steady
    <3>2. UNCHANGED <<relations, rows>>
      BY <2>1, <2>3 DEF Does
    <3>3. run.flags.drop => DropCount <= run.prelude
      <4>1. run.flags.drop => ~InPrelude
        BY <2>1, <2>3, PreludeAccepted
      <4> DEFINE drops == DropCount
                 creates == CreateCount
                 m == Len(Prelude(run.flags))
      <4>2. run.prelude \in 0..m /\ (run.flags.drop => ~(run.prelude < m))
        BY <2>1, <4>1 DEF TypedInv, RunInv, InPrelude
      <4>3. drops \in Nat /\ creates \in Nat /\ m = drops + creates
        BY <2>1, PreludeIs DEF TypedInv, RunInv, DropCount, CreateCount
      <4> HIDE DEF drops, creates, m
      <4>4. run.flags.drop => drops <= run.prelude
        BY <4>2, <4>3
      <4> QED BY <4>4 DEF drops
    <3>4. Steady(s)
      BY <2>1, <3>1, <3>3 DEF Steady
    <3> QED BY <2>1, <2>3, <3>1, <3>2, <3>4 DEF SteadyEnd
  <2>4. CASE Does(Current) /\ run' = Advanced
    <3> DEFINE drops == DropCount
    <3>1. /\ run'.flags = run.flags /\ DropCount' = drops
          /\ drops \in Nat /\ CreateCount \in Nat /\ run.prelude \in Nat
          /\ \/ InPrelude /\ run'.prelude \in 1..drops /\ run.prelude = run'.prelude - 1
             \/ \E j \in 1..CreateCount :
                  run'.prelude = drops + j /\ run.prelude = run'.prelude - 1
             \/ run'.prelude = run.prelude
      BY <2>1, <2>4, PreludeStep
    <3>2. run' # Nobody /\ RunSchema' = RunSchema
      <4>1. run' # Nobody
        BY <2>1, <2>4, AdvancedIsRun
      <4> QED BY <3>1, <4>1 DEF RunSchema
    <3>3. RunSchema = s
      BY <3>2 DEF Steady
    <3>4. ~run.flags.drop => used \subseteq {s}
      BY <2>1, <3>1, <3>2 DEF Steady
    <3>5. run.flags.drop => drops <= run'.prelude
      BY <3>1, <3>2 DEF Steady
    <3>6. CASE ~run.flags.drop \/ drops <= run.prelude
      <4>1. Steady(s)
        BY <2>1, <3>3, <3>4, <3>6 DEF Steady
      <4> QED BY <2>1, <2>4, <3>3, <4>1 DEF SteadyDoes
    <3>7. CASE run.flags.drop /\ ~(drops <= run.prelude)
      <4> HIDE DEF drops
      <4>1. InPrelude /\ run'.prelude = drops
        BY <3>1, <3>5, <3>7
      <4>2. LastDrop(s)
        BY <2>1, <2>4, <3>1, <3>2, <3>3, <3>7, <4>1 DEF LastDrop
      <4> QED BY <2>1, <4>2
    <3> QED BY <3>6, <3>7
  <2> QED BY <2>2, <2>3, <2>4
<1> QED BY <1>2, <1>3, <1>4, <1>5 DEF Next

(* After the last DROP no name of the schema is taken.                     *)
LEMMA NamesGone ==
  ASSUME NamesApart, (TypedInv /\ GoneInv /\ ViewInv)', modelMode', run' # Nobody, run'.flags.drop,
         run'.prelude = DropCount', NEW s, s = RunSchema'
  PROVE  /\ \A r \in relations' : r.name \notin TableNames(s)
         /\ \A r \in relations' : r.name \notin ViewNames(s)
<1> DEFINE flags == run'.flags
           drops == Len(DropStatements(flags))
<1>1. Runnable(modelMode', flags) /\ s = flags.schema
  BY DEF TypedInv, RunInv, RunSchema
<1>2. s \in Planned
  <2>1. s \in Usable(modelMode')
    BY ONLY <1>1, RunnableFlags
  <2> QED BY <2>1 DEF Usable
<1>3. \A n \in TableNames(s) : \E i \in 1..drops : DropStatements(flags)[i].name = n
  <2>1. \A n \in TablesIn(modelMode', s) : \E i \in 1..drops : DropStatements(flags)[i].name = n
    <3>1. flags.drop
      OBVIOUS
    <3> QED BY ONLY <1>1, <3>1, DropsAre
  <2> QED BY <2>1 DEF TablesIn
<1>4. drops \in Nat /\ Len(CreateAll(flags)) \in Nat
  BY <1>1, PreludeIs
<1>5. \A n : ~Installed(n)'
  <2>1. run'.prelude = drops
    BY DEF DropCount
  <2> HIDE DEF drops
  <2>2. \A j \in 1..Len(CreateAll(flags)) : ~(drops + j <= run'.prelude)
    BY <1>4, <2>1
  <2> QED BY <2>2 DEF Installed, InstalledBy, drops
<1>6. \A r \in relations' : r.name \notin TableNames(s)
  <2>1. \A i \in 1..drops : i <= run'.prelude =>
          \A r \in relations' : r.name # DropStatements(flags)[i].name
    BY <1>5 DEF GoneInv, DropCount
  <2>2. run'.prelude = drops
    BY DEF DropCount
  <2>3. \A i \in 1..drops : i <= run'.prelude
    <3> HIDE DEF drops
    <3> QED BY <1>4, <2>2
  <2> QED BY <1>3, <2>1, <2>3
<1>7. ASSUME NEW r \in relations', r.name \in ViewNames(s)
      PROVE  FALSE
  <2>1. \/ r.kind = "table" /\ \E q \in Planned : r.name \in TableNames(q)
        \/ r.kind = "view" /\ \E q \in Planned : r.name \in ViewNames(q)
    BY <1>7 DEF TypedInv, DatabaseInv, RelationInv
  <2>2. r.kind = "view"
    BY <1>2, <1>7, <2>1 DEF NamesApart
  <2>3. There(TableName)'
    BY <1>7, <2>2 DEF ViewInv
  <2>4. \E q \in relations' : q.name = TableName
    BY <2>3 DEF There, Named
  <2> QED BY <1>2, <1>6, <2>4, RootName
<1> QED BY <1>6, <1>7

(* The names a run of CREATE statements creates.                           *)
LEMMA NamesCreated ==
  ASSUME TypedInv, run # Nobody, modelMode, NEW j \in 1..CreateCount, NEW s, s = RunSchema
  PROVE  NamesOf(s) = {CreateAll(run.flags)[i].name : i \in 1..CreateCount}
<1>1. Runnable(modelMode, run.flags)
  BY DEF TypedInv, RunInv
<1>2. /\ IsSequence(CreateAll(run.flags))
      /\ ~Creates(run.flags) => CreateCount = 0
      /\ Creates(run.flags) => CreateAll(run.flags) = ModelDdl(s)
  BY <1>1, CreatesAre DEF CreateCount, RunSchema
<1>3. CreateAll(run.flags) = ModelDdl(s)
  BY <1>2
<1>4. DOMAIN CreateAll(run.flags) = 1..CreateCount
  BY <1>2, SequenceFacts DEF CreateCount
<1>5. NamesOf(s) = {ModelDdl(s)[i].name : i \in DOMAIN ModelDdl(s)}
  BY DEF NamesOf, ToSet
<1> QED BY <1>3, <1>4, <1>5

(* When all statements of the prelude are executed the model is there.     *)
LEMMA AllInstalled ==
  ASSUME TypedInv', InstalledInv', modelMode', run' # Nobody, ~InPrelude',
         NEW j \in 1..CreateCount', NEW s, s = RunSchema'
  PROVE  AllThere(s)'
<1> DEFINE flags == run'.flags
           drops == Len(DropStatements(flags))
           creates == Len(CreateAll(flags))
           m == Len(Prelude(flags))
           st(i) == CreateAll(flags)[i]
<1>1. /\ Runnable(modelMode', flags) /\ s = flags.schema
      /\ run'.prelude \in 0..m /\ ~(run'.prelude < m)
      /\ DropCount' = drops /\ CreateCount' = creates
  BY DEF TypedInv, RunInv, RunSchema, InPrelude, DropCount, CreateCount
<1>2. drops \in Nat /\ creates \in Nat /\ m = drops + creates
  BY <1>1, PreludeIs
<1>3. \A i \in 1..creates : drops + i <= run'.prelude
  <2> HIDE DEF drops, creates, m
  <2> QED BY <1>1, <1>2
<1>4. /\ CreateAll(flags) = ModelDdl(s) /\ DOMAIN CreateAll(flags) = 1..creates
  <2>1. /\ IsSequence(CreateAll(flags))
        /\ ~Creates(flags) => creates = 0
        /\ Creates(flags) => CreateAll(flags) = ModelDdl(s)
    BY <1>1, CreatesAre
  <2>2. creates # 0
    <3> HIDE DEF creates
    <3> QED BY <1>1, <1>2
  <2> QED BY <2>1, <2>2, SequenceFacts
<1>5. \A i \in 1..creates : st(i).op = "create"
  <2> SUFFICES ASSUME NEW i \in 1..creates PROVE st(i).op = "create"
    OBVIOUS
  <2>1. \/ CreateAll(flags)[i].op = "create" /\ modelMode'
        \/ ~modelMode'
    BY <1>1, CreatedAre
  <2> QED BY <2>1
<1>6. ASSUME NEW i \in 1..creates
      PROVE  \E r \in relations' : r.name = st(i).name
  <2>1. WithKey(st(i), CurrentKey') \in relations'
    BY <1>1, <1>3, <1>5 DEF InstalledInv
  <2>2. WithKey(st(i), CurrentKey').name = st(i).name
    BY DEF WithKey
  <2> QED BY <2>1, <2>2
<1>7. NamesOf(s)' = {st(i).name : i \in 1..creates}
  <2>1. NamesOf(s)' = {ModelDdl(s)[i].name : i \in DOMAIN ModelDdl(s)}
    BY DEF NamesOf, ToSet
  <2> QED BY <1>4, <2>1
<1> QED BY <1>6, <1>7 DEF AllThere, There, Named

LEMMA SteadyHasDropped ==
  ASSUME TypedInv, run # Nobody, NEW s, Steady(s)
  PROVE  ~(run.prelude + 1 \in 1..DropCount /\ run.flags.drop)
<1> DEFINE drops == DropCount
<1>1. run.flags.drop => drops <= run.prelude
  BY DEF Steady
<1>2. run.prelude \in 0..Len(Prelude(run.flags))
  BY DEF TypedInv, RunInv
<1>3. drops \in Nat
  BY PreludeIs DEF TypedInv, RunInv, DropCount
<1> HIDE DEF drops
<1>4. ~(run.prelude + 1 \in 1..drops /\ run.flags.drop)
  BY <1>1, <1>2, <1>3
<1> QED BY <1>4 DEF drops

LEMMA FreeNext ==
  ASSUME NamesApart, SchemasInstall, DocumentsAreWhole, TypedInv, RoomInv, FreeInv,
         [Next]_vars, ~CutOff, faults' = faults
  PROVE  FreeInv'
<1> SUFFICES ASSUME modelMode', faults' = 0, NEW s \in Planned, Steady(s)'
             PROVE  AllThere(s)' \/ Free(s)'
  BY DEF FreeInv
<1>1. TypedInv' /\ RoomInv'
  BY TypedNext, RoomNext
<1>2. /\ UNCHANGED modelMode /\ modelMode
      /\ SteadyIdle(s) \/ SteadyStart(s) \/ SteadyEnd(s) \/ SteadyDoes(s) \/ LastDrop(s)
  BY SteadyStep
<1>3. Steady(s) => AllThere(s) \/ Free(s)
  BY <1>2 DEF FreeInv
<1>4. NamesOf(s)' = NamesOf(s)
  BY <1>2 DEF NamesOf
<1>5. ASSUME UNCHANGED relations
      PROVE  /\ \A n : There(n)' = There(n)
             /\ AllThere(s) => AllThere(s)'
             /\ (\A n \in NamesOf(s) : ~There(n)) => Free(s)'
  <2>1. \A n : There(n)' = There(n)
    BY <1>5 DEF There, Named
  <2> QED BY <1>4, <2>1 DEF AllThere, Free
<1>6. CASE SteadyIdle(s)
  <2>1. Free(s) => Free(s)'
    BY <1>4, <1>5, <1>6 DEF SteadyIdle, Free, InPrelude, Installed
  <2> QED BY <1>3, <1>5, <1>6, <2>1 DEF SteadyIdle
<1>7. CASE SteadyStart(s)
  <2>1. Free(s) => \A n \in NamesOf(s) : ~There(n)
    BY <1>7 DEF Free, SteadyStart
  <2> QED BY <1>3, <1>5, <1>7, <2>1 DEF SteadyStart
<1>8. ASSUME Steady(s), run # Nobody, RunSchema = s, ~AtEnd, InPrelude
      PROVE  \E j \in 1..CreateCount :
               /\ run.prelude + 1 = DropCount + j
               /\ Current = CreateAll(run.flags)[j] /\ Current.op = "create"
               /\ Current.name \in NamesOf(s)
               /\ Free(s) => ExecStatement(run.flags, Current).ok
  <2>1. \/ run.prelude + 1 \in 1..DropCount /\ run.flags.drop
        \/ \E j \in 1..CreateCount :
             /\ run.prelude + 1 = DropCount + j
             /\ Current = CreateAll(run.flags)[j] /\ Current.op \in {"create", "alter"}
    BY <1>8, CurrentIs
  <2>2. ~(run.prelude + 1 \in 1..DropCount /\ run.flags.drop)
    BY <1>8, SteadyHasDropped
  <2>3. PICK j \in 1..CreateCount :
          run.prelude + 1 = DropCount + j /\ Current = CreateAll(run.flags)[j]
    BY <2>1, <2>2
  <2>4. Current.op = "create"
    BY <1>2, <1>8, <2>3, CreateOrAlter
  <2>5. Current.name \in NamesOf(s)
    BY <1>2, <1>8, <2>3, NamesCreated
  <2>6. Free(s) => (There(Current.name) => Installed(Current.name))
    BY <2>5 DEF Free
  <2>7. Free(s) => ExecStatement(run.flags, Current).ok
    BY <1>2, <1>8, <2>3, <2>6, CreateAccepted
  <2> QED BY <2>3, <2>4, <2>5, <2>7
<1>9. CASE SteadyEnd(s)
  <2>1. Free(s) => ~InPrelude
    BY <1>8, <1>9 DEF SteadyEnd, AtEnd
  <2>2. Free(s) => \A n \in NamesOf(s) : ~There(n)
    BY <2>1 DEF Free
  <2> QED BY <1>3, <1>5, <1>9, <2>2 DEF SteadyEnd
<1>10. CASE SteadyDoes(s)
  <2>1. /\ Steady(s) /\ run # Nobody /\ RunSchema = s /\ ~AtEnd /\ Does(Current)
        /\ run' = Advanced /\ run' # Nobody
    BY <1>10, AdvancedIsRun DEF SteadyDoes
  <2>2. CASE ~InPrelude
    <3>1. Current.op \in Dml
      BY <2>1, <2>2, PreludeStep
    <3>2. UNCHANGED relations
      BY <2>1, <3>1, DmlKeepsRelations
    <3>3. Free(s) => \A n \in NamesOf(s) : ~There(n)
      BY <2>2 DEF Free
    <3> QED BY <1>3, <1>5, <2>1, <3>2, <3>3
  <2>3. CASE InPrelude
    <3>1. PICK j \in 1..CreateCount :
            /\ run.prelude + 1 = DropCount + j
            /\ Current = CreateAll(run.flags)[j] /\ Current.op = "create"
            /\ Current.name \in NamesOf(s)
      BY <1>8, <2>1, <2>3
    <3>2. /\ ~There(Current.name)
          /\ relations' = relations \cup {NewRelation(Current)}
      BY <2>1, <3>1, Creating DEF Does
    <3>3. Free(s)
      BY <1>3, <2>1, <3>1, <3>2 DEF AllThere
    <3>4. /\ run'.flags = run.flags /\ DropCount' = DropCount /\ CreateCount' = CreateCount
          /\ RunSchema' = s /\ run'.prelude = run.prelude + 1
      <4>1. run'.flags = run.flags /\ run'.prelude = run.prelude + 1
        BY <2>1, <2>3, AdvancedTo
      <4> QED BY <2>1, <4>1 DEF RunSchema, DropCount, CreateCount
    <3>5. CASE InPrelude'
      <4>1. ASSUME NEW n \in NamesOf(s), There(n)'
            PROVE  Installed(n)'
        <5>1. There(n) \/ n = Current.name
          BY <3>2, <4>1 DEF There, Named, NewRelation
        <5>2. CASE There(n)
          <6>1. Installed(n)
            BY <3>3, <5>2 DEF Free
          <6> DEFINE drops == Len(DropStatements(run.flags))
          <6>2. PICK i \in 1..Len(CreateAll(run.flags)) :
                  /\ drops + i <= run.prelude
                  /\ CreateAll(run.flags)[i].op = "create" /\ CreateAll(run.flags)[i].name = n
            BY <6>1 DEF Installed, InstalledBy
          <6>3. drops \in Nat /\ i \in Int /\ run.prelude \in Int
            <7>1. Runnable(modelMode, run.flags) /\ run.prelude \in 0..Len(Prelude(run.flags))
              BY <2>1 DEF TypedInv, RunInv
            <7>2. run.prelude \in Int
              BY <7>1
            <7> QED BY <7>1, <7>2, PreludeIs
          <6>4. drops + i <= run.prelude + 1
            <7> HIDE DEF drops
            <7> QED BY <6>2, <6>3
          <6> QED BY <3>4, <6>2, <6>4 DEF Installed, InstalledBy
        <5>3. CASE n = Current.name
          <6> DEFINE drops == Len(DropStatements(run.flags))
          <6>1. drops + j = run'.prelude
            BY <3>1, <3>4 DEF DropCount
          <6>2. drops + j <= run'.prelude
            <7>1. Runnable(modelMode, run.flags)
              BY <2>1 DEF TypedInv, RunInv
            <7>2. drops \in Nat /\ j \in Int
              BY <7>1, PreludeIs
            <7> HIDE DEF drops
            <7> QED BY <6>1, <7>2
          <6>3. j \in 1..Len(CreateAll(run.flags))
            BY DEF CreateCount
          <6> QED BY <3>1, <3>4, <5>3, <6>2, <6>3 DEF Installed, InstalledBy
        <5> QED BY <5>1, <5>2, <5>3
      <4> QED BY <1>4, <2>1, <3>5, <4>1 DEF Free
    <3>6. CASE ~InPrelude'
      <4>1. j \in 1..CreateCount'
        BY <3>4
      <4>2. InstalledInv' /\ s = RunSchema'
        BY <1>1, <3>4 DEF RoomInv
      <4> QED BY <1>1, <1>2, <2>1, <3>6, <4>1, <4>2, AllInstalled
    <3> QED BY <3>5, <3>6
  <2> QED BY <2>2, <2>3
<1>11. CASE LastDrop(s)
  <2>1. /\ run' # Nobody /\ run'.flags.drop /\ run'.prelude = DropCount' /\ s = RunSchema'
    BY <1>11 DEF LastDrop
  <2>2. GoneInv' /\ ViewInv'
    BY <1>1 DEF RoomInv
  <2>3. /\ \A r \in relations' : r.name \notin TableNames(s)
        /\ \A r \in relations' : r.name \notin ViewNames(s)
    BY <1>1, <2>1, <2>2, NamesGone
  <2>4. NamesOf(s) \subseteq TableNames(s) \cup ViewNames(s)
    <3>1. modelMode \in BOOLEAN /\ s \in Usable(modelMode) /\ modelMode = TRUE
      BY <1>2 DEF TypedInv, Usable
    <3>2. NamesOf(s) \subseteq TablesIn(modelMode, s) \cup (IF modelMode THEN ViewNames(s) ELSE {})
      BY <3>1, NamesAre
    <3> QED BY <3>1, <3>2 DEF TablesIn
  <2>5. \A n \in NamesOf(s) : ~There(n)'
    BY <2>3, <2>4 DEF There, Named
  <2> QED BY <1>4, <2>5 DEF Free
<1> QED BY <1>2, <1>6, <1>7, <1>9, <1>10, <1>11

(* Under a key there is one whole document or none, but under the key of   *)
(* the file a run is at.                                                   *)
DocOrNone(s, k) ==
  At(s, k) = {} \/ \E d \in StoredIn(modelMode, s) : KeyOf(d) = k /\ At(s, k) = Whole(modelMode, d)

WholeInv ==
  modelMode /\ faults = 0 => \A s \in Planned : Steady(s) =>
    \A k : ~(run # Nobody /\ InHand(k)) => DocOrNone(s, k)

(* A statement of a document is not refused once one of its statements is  *)
(* executed.                                                               *)
LEMMA InHandAccepted ==
  ASSUME NamesApart, SchemasInstall, DocumentsAreWhole, StoreInv, FreeInv, modelMode, faults = 0,
         run # Nobody, ~AtEnd, NEW s, s = RunSchema, Steady(s), NEW k, InHand(k)
  PROVE  ExecStatement(run.flags, Current).ok
<1>1. /\ TypedInv /\ Runnable(modelMode, run.flags) /\ s \in Usable(modelMode)
      /\ InPrelude => run.line = 1
  BY RunnableFlags DEF StoreInv, TypedInv, RunInv, RunSchema
<1>2. s \in Planned /\ HasKey /\ AllOurs(s)
  BY <1>1, SteadyIsOurs DEF Usable, HasKey
<1>3. ~InPrelude /\ run.line # 1
  <2>1. ~(1 > 1)
    OBVIOUS
  <2> QED BY <1>1, <2>1 DEF InHand
<1>4. Progress
  BY <1>2, <1>3 DEF StoreInv, ProgressInv
<1>5. Partly(run.flags, run.flags.files[run.file], run.line - 1)
  BY <1>4 DEF Progress, InHand
<1>6. PICK n \in TablesIn(modelMode, s) : There(n)
  BY <1>5 DEF Partly, RunSchema
<1>7. TablesIn(modelMode, s) \subseteq NamesOf(s)
  BY <1>1, NamesAre DEF TypedInv
<1>8. AllThere(s)
  <2>1. AllThere(s) \/ Free(s)
    BY <1>2 DEF FreeInv
  <2> QED BY <1>3, <1>6, <1>7, <2>1 DEF Free
<1>9. RightIn(s) /\ RowsClean(s)
  BY <1>1, <1>2 DEF StoreInv, CleanInv, Clean
<1>10. \A x \in TablesIn(modelMode, RunSchema) : There(x)
  BY <1>7, <1>8 DEF AllThere
<1> QED BY <1>1, <1>2, <1>3, <1>4, <1>9, <1>10, LineAccepted

LEMMA WholeAfterLine ==
  ASSUME SchemasInstall, DocumentsAreWhole, StoreInv, run # Nobody, ~AtEnd, ~InPrelude,
         AllOurs(RunSchema), HasKey, Does(Current), run' = Advanced, UNCHANGED modelMode,
         NEW s, s = RunSchema, NEW k, ~InHand(k)', ~InHand(k) => DocOrNone(s, k),
         NEW flags, flags = run.flags, NEW file, file = run.file, NEW line, line = run.line
  PROVE  DocOrNone(s, k)'
<1> DEFINE m == Len(flags.files)
           size == Len(File(flags, file))
<1>1. PICK d : d = flags.files[file]
  OBVIOUS
<1>2. TypedInv /\ Runnable(modelMode, flags) /\ flags.schema = s
  BY DEF StoreInv, TypedInv, RunInv, RunSchema
<1>3. s \in Usable(modelMode)
  BY <1>2, RunnableFlags
<1>4. RightIn(RunSchema) /\ RowsClean(RunSchema) /\ Progress
  BY <1>3 DEF StoreInv, CleanInv, Clean, ProgressInv
<1>5. /\ file \in 1..m /\ line \in 1..size
      /\ IsLine(modelMode, flags, d, line, Current)
  BY <1>1, <1>2, CurrentIs
<1>6. size \in Nat /\ m \in Nat
  <2>1. m \in Nat
    BY <1>2, RunnableFlags, SequenceFacts
  <2>2. size \in Nat
    BY <1>2, <1>5, FilesAreNotEmpty
  <2> QED BY <2>1, <2>2
<1>7. CASE k # KeyOf(d)
  <2>1. ~InHand(k)
    BY <1>1, <1>7 DEF InHand
  <2>2. At(s, k)' = At(s, k)
    BY <1>2, <1>4, <1>5, <1>7, OthersKept
  <2> QED BY <2>1, <2>2 DEF DocOrNone
<1>8. CASE k = KeyOf(d)
  <2>1. /\ run'.flags = flags
        /\ line < size => run'.file = file /\ run'.line = line + 1
    BY <1>2, AdvancedTo
  <2>2. line = size
    <3>1. ASSUME line < size
          PROVE  FALSE
      <4>1. run'.flags = flags /\ run'.file = file /\ run'.line = line + 1
        BY <2>1, <3>1
      <4>2. file <= m /\ line + 1 > 1
        <5> HIDE DEF m, size
        <5> QED BY <1>5, <1>6
      <4>3. InHand(k)'
        BY <1>1, <1>8, <4>1, <4>2 DEF InHand
      <4> QED BY <4>3
    <3> HIDE DEF size
    <3> QED BY <1>5, <1>6, <3>1
  <2>3. Partly(flags, d, size)'
    <3>1. size \in Nat \ {0}
      <4> HIDE DEF size
      <4> QED BY <1>5, <1>6
    <3>2. size > 1 => Partly(run.flags, d, size - 1)
      <4>1. run.file <= Len(run.flags.files)
        <5>1. file <= m
          <6> HIDE DEF m
          <6> QED BY <1>5, <1>6
        <5> QED BY <5>1
      <4> QED BY <1>1, <1>4, <2>2, <4>1 DEF Progress
    <3>3. IsLine(modelMode, run.flags, d, size, Current)
      BY <1>5, <2>2
    <3> QED BY <1>2, <1>4, <3>1, <3>2, <3>3, PartlyAdvances
  <2>4. At(s, k)' = Whole(modelMode, d)
    <3>1. Partly(flags, flags.files[file], Len(File(flags, file)))'
      BY <1>1, <2>3
    <3>2. At(flags.schema, KeyOf(flags.files[file]))' = Whole(modelMode, flags.files[file])
      BY <1>2, <1>5, <3>1, FileDone
    <3> QED BY <1>1, <1>2, <1>8, <3>2
  <2>5. d \in StoredIn(modelMode, s)
    BY <1>2, <1>5 DEF IsLine
  <2> QED BY <1>8, <2>4, <2>5 DEF DocOrNone
<1> QED BY <1>7, <1>8

LEMMA WholeNext ==
  ASSUME NamesApart, SchemasInstall, DocumentsAreWhole, StoreInv, FreeInv, WholeInv,
         [Next]_vars, ~CutOff, faults' = faults
  PROVE  WholeInv'
<1> SUFFICES ASSUME modelMode', faults' = 0, NEW s \in Planned, Steady(s)',
                    NEW k, ~(run' # Nobody /\ InHand(k)')
             PROVE  DocOrNone(s, k)'
  BY DEF WholeInv
<1>1. StoreInv' /\ TypedInv /\ RoomInv
  BY StoreNext DEF StoreInv
<1>2. /\ UNCHANGED modelMode /\ modelMode /\ faults = 0
      /\ SteadyIdle(s) \/ SteadyStart(s) \/ SteadyEnd(s) \/ SteadyDoes(s) \/ LastDrop(s)
  BY <1>1, SteadyStep
<1>3. Steady(s) /\ ~(run # Nobody /\ InHand(k)) => DocOrNone(s, k)
  BY <1>2 DEF WholeInv
<1>4. ASSUME UNCHANGED rows
      PROVE  DocOrNone(s, k) => DocOrNone(s, k)'
  BY <1>2, <1>4 DEF DocOrNone, At
<1>5. CASE SteadyIdle(s)
  <2>1. run # Nobody /\ InHand(k) => run' # Nobody /\ InHand(k)'
    BY <1>5 DEF SteadyIdle, InHand
  <2> QED BY <1>3, <1>4, <1>5, <2>1 DEF SteadyIdle
<1>6. CASE SteadyStart(s)
  BY <1>3, <1>4, <1>6 DEF SteadyStart
<1>7. CASE SteadyEnd(s)
  <2>1. ASSUME InHand(k)
        PROVE  FALSE
    <3>1. run.file <= Len(run.flags.files)
      BY <2>1 DEF InHand
    <3>2. ~AtEnd
      <4> DEFINE m == Len(run.flags.files)
      <4>1. /\ Runnable(modelMode, run.flags) /\ run.file \in 1..(m + 1)
        BY <1>1, <1>7 DEF TypedInv, RunInv, SteadyEnd
      <4>2. m \in Nat
        BY <4>1, RunnableFlags, SequenceFacts
      <4> HIDE DEF m
      <4>3. ~(run.file > m)
        BY <3>1, <4>1, <4>2 DEF m
      <4> QED BY <4>3 DEF AtEnd, m
    <3> QED BY <1>2, <1>7, <2>1, <3>2, InHandAccepted DEF SteadyEnd
  <2> QED BY <1>3, <1>4, <1>7, <2>1 DEF SteadyEnd
<1>8. CASE SteadyDoes(s)
  <2>1. /\ Steady(s) /\ run # Nobody /\ s = RunSchema /\ ~AtEnd /\ Does(Current)
        /\ run' = Advanced /\ run' # Nobody
    BY <1>1, <1>8, AdvancedIsRun DEF SteadyDoes
  <2>2. \/ run.prelude + 1 \in 1..DropCount /\ run.flags.drop
        \/ InPrelude /\ Current.op \in {"create", "alter"}
        \/ ~InPrelude
    BY <1>1, <2>1, CurrentIs
  <2>3. ~(run.prelude + 1 \in 1..DropCount /\ run.flags.drop)
    BY <1>1, <2>1, SteadyHasDropped
  <2>4. CASE InPrelude /\ Current.op \in {"create", "alter"}
    <3>1. UNCHANGED rows
      BY <2>1, <2>4, Creating, Altering
    <3>2. ~InHand(k)
      <4>1. run.line = 1 /\ ~(1 > 1)
        BY <1>1, <2>1, <2>4 DEF TypedInv, RunInv
      <4> QED BY <4>1 DEF InHand
    <3> QED BY <1>3, <1>4, <2>1, <3>1, <3>2
  <2>5. CASE ~InPrelude
    <3>1. AllOurs(RunSchema) /\ HasKey
      BY <1>2, <2>1, SteadyIsOurs DEF HasKey
    <3>2. ~InHand(k)' /\ (~InHand(k) => DocOrNone(s, k))
      BY <1>3, <2>1
    <3> QED BY <1>2, <2>1, <2>5, <3>1, <3>2, WholeAfterLine
  <2> QED BY <2>2, <2>3, <2>4, <2>5
<1>9. CASE LastDrop(s)
  <2>1. /\ run' # Nobody /\ run'.flags.drop /\ run'.prelude = DropCount' /\ s = RunSchema'
    BY <1>9 DEF LastDrop
  <2>2. TypedInv' /\ GoneInv' /\ ViewInv'
    BY <1>1 DEF StoreInv, RoomInv
  <2>3. \A r \in relations' : r.name \notin TableNames(s)
    BY <2>1, <2>2, NamesGone
  <2>4. \A r \in rows' : r.table \notin TableNames(s)
    BY <2>2, <2>3 DEF TypedInv, DatabaseInv, RowsTyped
  <2>5. TablesIn(modelMode', s) = TableNames(s)
    BY DEF TablesIn
  <2>6. At(s, k)' = {}
    BY <2>4, <2>5 DEF At
  <2> QED BY <2>6 DEF DocOrNone
<1> QED BY <1>2, <1>5, <1>6, <1>7, <1>8, <1>9

(* In a landing table with its key each row is a document, whatever was    *)
(* cut off: a document is one statement.                                   *)
LEMMA LandingDocOrNone ==
  ASSUME SchemasInstall, DocumentsAreWhole, TypedInv, ~modelMode, HasKey,
         NEW s \in Usable(modelMode), RowsClean(s), NEW k
  PROVE  DocOrNone(s, k)
<1>1. modelMode = FALSE /\ TablesIn(modelMode, s) = {TableName}
  BY DEF TypedInv, TablesIn
<1>2. \A d : Whole(modelMode, d) = {LandingRow(d)}
  <2>1. \A d : DocRow(FALSE, d, 1) = LandingRow(d) /\ DocCount(FALSE, d) = 1
    BY DEF DocRow, DocCount
  <2>2. 1..1 = {1}
    OBVIOUS
  <2>3. \A d : Written(FALSE, d, 1) = {DocRow(FALSE, d, 1)}
    BY <2>2 DEF Written
  <2> QED BY <1>1, <2>1, <2>3 DEF Whole
<1>3. \A d : LandingRow(d).at = <<KeyOf(d)>>
  BY DEF LandingRow, LandingRowAt
<1>4. ASSUME NEW r \in At(s, k)
      PROVE  \E d \in StoredIn(modelMode, s) : KeyOf(d) = k /\ r = LandingRow(d)
  <2>1. r \in rows /\ r.table \in TablesIn(modelMode, s) /\ r.at[1] = k
    BY <1>4 DEF At
  <2>2. PICK d \in StoredIn(modelMode, s) : r \in Whole(modelMode, d)
    BY <2>1 DEF RowsClean, RowsIn
  <2>3. r = LandingRow(d)
    BY <1>2, <2>2
  <2>4. <<KeyOf(d)>>[1] = KeyOf(d)
    OBVIOUS
  <2> QED BY <1>3, <2>1, <2>3, <2>4
<1>5. ASSUME NEW r \in At(s, k), NEW q \in At(s, k)
      PROVE  r = q
  <2>1. r.at = <<k>> /\ q.at = <<k>>
    BY <1>3, <1>4, <1>5
  <2>2. /\ r \in rows /\ r.table \in TablesIn(modelMode, s)
        /\ q \in rows /\ q.table \in TablesIn(modelMode, s)
    BY <1>5 DEF At
  <2>3. Same(r, q)
    BY <1>1, <2>1, <2>2 DEF Same
  <2> QED BY <2>2, <2>3 DEF RowsClean, UniqueIn
<1>6. ASSUME NEW r \in At(s, k)
      PROVE  DocOrNone(s, k)
  <2>1. PICK d \in StoredIn(modelMode, s) : KeyOf(d) = k /\ r = LandingRow(d)
    BY <1>4, <1>6
  <2>2. At(s, k) = {r}
    BY <1>5, <1>6
  <2> QED BY <1>2, <2>1, <2>2 DEF DocOrNone
<1> QED BY <1>6 DEF DocOrNone

(* What is under a key of the schema whose runs alone have used the        *)
(* database.                                                               *)
LEMMA OneDocument ==
  ASSUME NamesApart, SchemasInstall, DocumentsAreWhole, StoreInv, WholeInv, faults = 0, Settled,
         NEW k, NEW s, s = last.flags.schema
  PROVE  Under(s, k) = {} \/ \E d \in Documents : KeyOf(d) = k /\ Under(s, k) = CellsOf(modelMode, d)
<1>1. TypedInv /\ modelMode \in BOOLEAN /\ last # NoRun /\ used = {s}
  BY DEF StoreInv, TypedInv, Settled
<1>2. run = Nobody /\ s \in Usable(modelMode)
  BY <1>1 DEF TypedInv, LastInv
<1>3. Steady(s) /\ AllOurs(s)
  BY <1>1, <1>2 DEF Steady, AllOurs
<1>4. DocOrNone(s, k)
  <2>1. CASE modelMode
    <3>1. s \in Planned
      BY <1>2, <2>1 DEF Usable
    <3> QED BY <1>2, <1>3, <2>1, <3>1 DEF WholeInv
  <2>2. CASE ~modelMode
    <3>1. There(TableName) /\ TheRelation(TableName).pk = <<Pk>>
      BY <2>2 DEF Settled
    <3>2. HasKey
      BY <3>1, ThereIsOne DEF HasKey
    <3>3. RowsClean(s)
      BY <1>2, <1>3, <3>2 DEF StoreInv, CleanInv, Clean
    <3> QED BY <1>1, <1>2, <2>2, <3>2, <3>3, LandingDocOrNone
  <2> QED BY <1>1, <2>1, <2>2
<1>5. Under(s, k) = CellsOfRows(modelMode, At(s, k))
  BY <1>1, <1>2, UnderAre
<1>6. CASE At(s, k) = {}
  <2>1. CellsOfRows(modelMode, {}) = {}
    BY DEF CellsOfRows, CellsIn, LandingCellsIn
  <2> QED BY <1>5, <1>6, <2>1
<1>7. ASSUME NEW d \in StoredIn(modelMode, s), KeyOf(d) = k, At(s, k) = Whole(modelMode, d)
      PROVE  \E e \in Documents : KeyOf(e) = k /\ Under(s, k) = CellsOf(modelMode, e)
  <2>1. CellsOfRows(modelMode, Whole(modelMode, d)) = CellsOf(modelMode, d)
    BY <1>1, <1>7, WholeCells
  <2>2. d \in Documents
    BY <1>7 DEF StoredIn, DocumentsOf, Documents
  <2> QED BY <1>5, <1>7, <2>1, <2>2
<1> QED BY <1>4, <1>6, <1>7 DEF DocOrNone

(* As long as no run is cut off, each key holds one document or none:      *)
(* though each statement is committed by itself, and any of a document may *)
(* be refused, only one that comes before anything of it is written or     *)
(* deleted ever is (dml.go:11-27, cli.go:180-184).                         *)
THEOREM RunsRefuseInTime ==
  ASSUME NamesApart, SchemasInstall, DocumentsAreWhole
  PROVE  Spec => []RefusedInTime
<1> DEFINE Inv == StoreInv /\ FreeInv /\ WholeInv /\ faults \in Nat
<1>1. Init => Inv
  <2> SUFFICES ASSUME Init PROVE Inv
    OBVIOUS
  <2>1. relations = {} /\ rows = {} /\ faults = 0
    BY DEF Init
  <2>2. FreeInv
    BY <2>1 DEF FreeInv, Free, There, Named
  <2>3. WholeInv
    BY <2>1 DEF WholeInv, DocOrNone, At
  <2> QED BY <2>1, <2>2, <2>3, StoreInit
<1>2. Inv /\ [Next]_vars => Inv'
  <2> SUFFICES ASSUME Inv, [Next]_vars PROVE Inv'
    OBVIOUS
  <2>1. StoreInv' /\ TypedInv /\ RoomInv
    BY StoreNext DEF StoreInv
  <2>2. CASE CutOff
    <3>1. faults' = faults + 1
      BY <2>2 DEF CutOff
    <3>2. faults' \in Nat /\ faults' # 0
      BY <3>1
    <3> QED BY <2>1, <3>2 DEF FreeInv, WholeInv
  <2>3. CASE ~CutOff
    <3>1. faults' = faults
      BY <2>3 DEF Next, Start, ExecNext, Finish, vars
    <3> QED BY <2>1, <2>3, <3>1, FreeNext, WholeNext
  <2> QED BY <2>2, <2>3
<1>3. Inv => RefusedInTime
  <2> SUFFICES ASSUME Inv, Settled, faults = 0, NEW k \in Keys
               PROVE  \/ Under(last.flags.schema, k) = {}
                      \/ \E d \in Documents :
                           KeyOf(d) = k /\ Under(last.flags.schema, k) = CellsOf(modelMode, d)
    BY DEF RefusedInTime
  <2> QED BY OneDocument
<1> QED BY <1>1, <1>2, <1>3, PTL DEF Spec

=============================================================================
