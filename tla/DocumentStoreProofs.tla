------------------------ MODULE DocumentStoreProofs -------------------------
(* What every implementation of DocumentStore inherits, for all documents, *)
(* keys and cells.                                                         *)
EXTENDS DocumentStore, TLAPS

(* The inductive invariant: the content of each key is one document, no    *)
(* cell belongs elsewhere, and the answer of the last request still holds. *)
Sound ==
  /\ OneDocument
  /\ \A c \in cells : KeyIn(c) \in Keys
  /\ last.op = "none" \/ last.doc \in Documents
  /\ ReadYourWrite

(* Adding the cells of d changes nothing under other keys.                 *)
LEMMA OwnCells ==
  ASSUME DocumentAssumption, NEW d \in Documents, NEW k, k # KeyOf(d)
  PROVE  {c \in CellsOf(d) : KeyIn(c) = k} = {}
BY DEF DocumentAssumption

(* What a request leaves under the key of its document, and elsewhere.     *)
LEMMA AfterInsert ==
  ASSUME DocumentAssumption, NEW d \in Documents, Insert(d)
  PROVE  /\ Under(KeyOf(d))' = IF last'.ok THEN CellsOf(d) ELSE Under(KeyOf(d))
         /\ \A k : k # KeyOf(d) => Under(k)' = Under(k)
         /\ last'.op # "none" /\ last'.doc = d
<1>1. CASE Under(KeyOf(d)) = {}
  <2>1. cells' = cells \cup CellsOf(d) /\ last' = [op |-> "insert", doc |-> d, ok |-> TRUE]
    BY <1>1 DEF Insert
  <2>2. Under(KeyOf(d))' = CellsOf(d)
    BY <1>1, <2>1 DEF Under, DocumentAssumption
  <2>3. ASSUME NEW k, k # KeyOf(d) PROVE Under(k)' = Under(k)
    BY <2>1, <2>3, OwnCells DEF Under
  <2> QED
    BY <2>1, <2>2, <2>3
<1>2. CASE Under(KeyOf(d)) # {}
  <2>1. cells' = cells /\ last' = [op |-> "insert", doc |-> d, ok |-> FALSE]
    BY <1>2 DEF Insert
  <2> QED
    BY <2>1 DEF Under
<1> QED
  BY <1>1, <1>2

(* What the store holds once a document has been replaced.                  *)
LEMMA AfterReplace ==
  ASSUME DocumentAssumption, NEW d \in Documents, Replace(d)
  PROVE  /\ Under(KeyOf(d))' = CellsOf(d)
         /\ \A k : k # KeyOf(d) => Under(k)' = Under(k)
         /\ last' = [op |-> "upsert", doc |-> d, ok |-> TRUE]
<1>1. Under(KeyOf(d))' = CellsOf(d)
  BY DEF Replace, Under, DocumentAssumption
<1>2. ASSUME NEW k, k # KeyOf(d) PROVE Under(k)' = Under(k)
  BY <1>2, OwnCells DEF Replace, Under
<1> QED
  BY <1>1, <1>2 DEF Replace

(* Every step keeps the invariant.                                         *)
LEMMA SoundStep ==
  ASSUME DocumentAssumption, Sound, [Next]_vars
  PROVE  Sound'
<1>1. ASSUME NEW d \in Documents, Insert(d) PROVE Sound'
  <2>1. OneDocument'
    BY <1>1, AfterInsert DEF Sound, OneDocument
  <2>2. \A c \in cells' : KeyIn(c) \in Keys
    BY <1>1 DEF Insert, Sound, DocumentAssumption
  <2>3. last'.doc \in Documents
    BY <1>1, AfterInsert
  <2>4. ReadYourWrite'
    BY <1>1, AfterInsert DEF ReadYourWrite
  <2> QED
    BY <2>1, <2>2, <2>3, <2>4 DEF Sound
<1>2. ASSUME NEW d \in Documents, Replace(d) PROVE Sound'
  <2>1. OneDocument'
    BY <1>2, AfterReplace DEF Sound, OneDocument
  <2>2. \A c \in cells' : KeyIn(c) \in Keys
    BY <1>2 DEF Replace, Sound, DocumentAssumption
  <2>3. last'.doc \in Documents
    BY <1>2, AfterReplace
  <2>4. ReadYourWrite'
    BY <1>2, AfterReplace DEF ReadYourWrite
  <2> QED
    BY <2>1, <2>2, <2>3, <2>4 DEF Sound
<1>3. ASSUME UNCHANGED vars PROVE Sound'
  BY <1>3 DEF vars, Sound, OneDocument, ReadYourWrite, Under
<1> QED
  BY <1>1, <1>2, <1>3 DEF Next

(* Whatever is stored under a key is exactly one document of its users,    *)
(* and an accepted document is there right after its request.              *)
THEOREM StoreHoldsDocuments ==
  ASSUME DocumentAssumption
  PROVE  Spec => [](OneDocument /\ ReadYourWrite)
<1>1. Init => Sound
  BY DEF Init, Sound, OneDocument, ReadYourWrite, Under
<1>2. Sound /\ [Next]_vars => Sound'
  BY SoundStep
<1>3. Sound => OneDocument /\ ReadYourWrite
  BY DEF Sound
<1> QED
  BY <1>1, <1>2, <1>3, PTL DEF Spec
=============================================================================
