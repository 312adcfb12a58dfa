------------------------ MODULE BatchDocumentProofs ------------------------
(***************************************************************************)
(* Proofs about BatchProcessor, for any workers, batches, messages, models *)
(* left by earlier runs, options and number of faults: what is stored      *)
(* under a key is one whole document, however the upserts and inserts of   *)
(* several workers interleave, fail and are delivered again; and the       *)
(* processors keep their promise: BatchProcessor implements AtomicBatches. *)
(***************************************************************************)
EXTENDS BatchProcessorProofs, WellFoundedInduction

(* Upserting needs an item in every payload: of two upserts of one key the *)
(* second then waits for the first at the root row and fails at the first  *)
(* item, unless its DELETE has seen the document of the first.  A payload  *)
(* without an item would slip through, and without an array delete nothing.*)
EveryArrayHasItems == Upsert => \A m \in Messages : Items(m) >= 1

-----------------------------------------------------------------------------
(* The invariant.                                                          *)

Keys == Identifiers \X {m.key : m \in Messages}

(* The versions under a key: committed ones, and those w has written.      *)
Kept(K) == {v \in versions : KeyOf(v.row) = K /\ v.by = Committed}

Own(w, K) == {v \in versions : KeyOf(v.row) = K /\ v.by = w}

MessageOf(v) == Msg(v.doc[1], v.doc[2])

(* S is the rows of one document, or nothing.                              *)
Whole(S) ==
  \A x \in S :
    /\ {y.row.no : y \in S} = 0..Items(MessageOf(x))
    /\ \A y \in S : y.doc = x.doc

(* What is committed is whole.  No two transactions have written one row;  *)
(* it is this that keeps two documents under one key apart.                *)
KeptInv ==
  /\ \A v \in versions : MessageOf(v) \in Messages
  /\ \A v \in versions : v.del \in Workers => pc[v.del] # "idle"
  /\ \A u, v \in versions :
       u.row = v.row /\ u.by \in Workers /\ v.by \in Workers => u = v
  /\ \A K \in Keys : Whole(Kept(K))

(* The statements s left of message m: the lines of the rows up to the     *)
(* last, all of one delivery, and before them the DELETE of an upsert.     *)
Lined(m, s) ==
  LET n == Items(m)
      last == Len(s)
  IN /\ last <= n + 2
     /\ last = n + 2 => Upsert /\ s[1].op \in {"delete", "deleting"}
     /\ \A k \in 1..last :
          k > 1 \/ last < n + 2 =>
            /\ s[k].op = IF Upsert /\ n + k = last THEN "upsert" ELSE "insert"
            /\ s[k].row = RowOf(m, n + k - last)
            /\ s[k].doc = s[last].doc

Shape(w) == pc[w] = "dml" => Lined(Current(w), stmts[w])

(* w has written nothing under K and takes nothing from it, or it has      *)
(* written one document and takes all that is committed.                   *)
Settled(w, K) ==
  /\ Whole(Own(w, K))
  /\ \A c \in Kept(K) : c.del = w <=> Own(w, K) # {}

(* Its DELETE remembers all the children w has written under K, or else    *)
(* all the children of a committed document, or none.                      *)
RemembersAll(w, K) ==
  /\ \A v \in Own(w, K) :
       v.row.no > 0 => \E t \in Remembered(w) : t.row = v.row /\ t.doc = v.doc
  /\ Own(w, K) = {} =>
       \A t \in Remembered(w) :
         /\ {u.row.no : u \in Remembered(w)} = 1..Items(MessageOf(t))
         /\ \A u \in Remembered(w) : u.doc = t.doc

(* The DELETE is done: w takes all the committed children or none.         *)
Cleared(w, K) ==
  /\ \A v \in Own(w, K) : v.row.no = 0
  /\ \A c \in Kept(K) : c.row.no = 0 => (c.del = w <=> Own(w, K) # {})
  /\ \/ \A c \in Kept(K) : c.row.no > 0 => c.del = w
     \/ Own(w, K) = {} /\ \A c \in Kept(K) : c.row.no > 0 => c.del # w

(* The rows up to no are written.  Had w not taken the committed children, *)
(* it could not have written the first of its own.                         *)
Written(w, K, doc, no) ==
  /\ {v.row.no : v \in Own(w, K)} = 0..no
  /\ \A v \in Own(w, K) : v.doc = doc
  /\ \A c \in Kept(K) : c.row.no = 0 => c.del = w
  /\ \/ \A c \in Kept(K) : c.row.no > 0 => c.del = w
     \/ Upsert /\ no = 0 /\ \A c \in Kept(K) : c.row.no > 0 => c.del # w

CurrentKey(w) == KeyOf(RowOf(Current(w), 0))

Stage(w, K) ==
  LET n == Items(Current(w))
      last == Len(stmts[w])
  IN /\ last > n + 1 \/ (last = n + 1 /\ ~Upsert) => Settled(w, K)
     /\ last > n + 1 /\ stmts[w][1].op = "deleting" => RemembersAll(w, K)
     /\ last = n + 1 /\ Upsert => Cleared(w, K)
     /\ last <= n => Written(w, K, stmts[w][1].doc, n - last)

Works(w) ==
  txn[w] = "open" =>
    \A K \in Keys :
      IF pc[w] = "dml" /\ K = CurrentKey(w) THEN Stage(w, K) ELSE Settled(w, K)

WorkInv == \A w \in Workers : Works(w)

ShapeInv == \A w \in Workers : Shape(w)

DocumentInv == KeptInv /\ ShapeInv /\ WorkInv

-----------------------------------------------------------------------------
(* Rows and keys.                                                          *)

(* A row is known by its key and its number.                               *)
LEMMA RowKnown ==
  ASSUME NEW r \in Rows, NEW s \in Rows, KeyOf(r) = KeyOf(s), r.no = s.no
  PROVE  r = s
BY DEF Rows, KeyOf

(* Every version is under a key, and every line of w under its current one.*)
LEMMA VersionTyped ==
  ASSUME TypeInv, NEW v \in versions
  PROVE  /\ v.row \in Rows /\ v.row.no \in Nat /\ KeyOf(v.row) \in Keys /\ v.doc \in Docs
         /\ v.by \in Workers \cup {Committed} /\ v.del \in Workers \cup {Nobody}
BY DEF TypeInv, TypeOK, RowVersions, Rows, KeyOf, Keys

(* A row is of a message if it is under the key of its root row.           *)
LEMMA MessageKey ==
  ASSUME NEW w, NEW row
  PROVE  OfMessage(row, Current(w)) <=> KeyOf(row) = CurrentKey(w)
BY DEF OfMessage, CurrentKey, KeyOf, RowOf

(* The current message has a number of items, at least one for an upsert.  *)
LEMMA CurrentItems ==
  ASSUME TypeInv, EveryArrayHasItems, NEW w \in Workers, More(w)
  PROVE  /\ Current(w) \in Messages /\ Items(Current(w)) \in Nat
         /\ Upsert => Items(Current(w)) >= 1 /\ Current(w).items # Absent
         /\ \A no \in Nat : RowOf(Current(w), no) \in Rows
                            /\ RowOf(Current(w), no).no = no
                            /\ KeyOf(RowOf(Current(w), no)) = CurrentKey(w)
         /\ CurrentKey(w) \in Keys
<1>1. Current(w) \in Messages /\ Current(w).table \in DOMAIN IdentName
  BY CurrentMessage
<1>2. Items(Current(w)) \in Nat
  BY <1>1, ProcessorAssumption DEF Items
<1>3. IdentName[Current(w).table] \in Identifiers
  BY <1>1 DEF Identifiers
<1>4. Upsert => Items(Current(w)) >= 1 /\ Current(w).items # Absent
  BY <1>1 DEF EveryArrayHasItems, Items
<1> QED
  BY <1>1, <1>2, <1>3, <1>4 DEF RowOf, Rows, KeyOf, CurrentKey, Keys

-----------------------------------------------------------------------------
(* What the steps do to the versions under a key.                          *)

(* c is b, but for w, which has taken what is in old besides.              *)
Taken(w, old, b, c) ==
  /\ c.row = b.row /\ c.doc = b.doc
  /\ c.del = w <=> b.del = w \/ b \in old
  /\ \A x \in Workers \ {w} : c.del = x <=> b.del = x

(* What the others see of the committed versions B is still there in C.    *)
SameButFor(w, B, C) ==
  /\ \A c \in C : \E b \in B :
       c.row = b.row /\ c.doc = b.doc /\ \A x \in Workers \ {w} : c.del = x <=> b.del = x
  /\ \A b \in B : \E c \in C :
       c.row = b.row /\ c.doc = b.doc /\ \A x \in Workers \ {w} : c.del = x <=> b.del = x

(* A row that nobody else holds is the worker's own, or free.              *)
LEMMA NobodyElse ==
  ASSUME NEW w, NEW row, RowHolders(w, row) = {}, NEW v \in versions, v.row = row
  PROVE  v.by \in {w, Committed, Nobody} /\ v.del \in {w, Committed, Nobody}
<1>1. {v.by, v.del} \in {{u.by, u.del} : u \in {x \in versions : x.row = row}}
  OBVIOUS
<1>2. {v.by, v.del} \subseteq UNION {{u.by, u.del} : u \in {x \in versions : x.row = row}}
  BY <1>1
<1> QED
  BY <1>2 DEF RowHolders

(* Deleting old takes its committed versions and drops the others.         *)
LEMMA DeletedKept ==
  ASSUME TypeInv, NEW w \in Workers, NEW old \in SUBSET versions,
         \A v \in old : v.del \in {Nobody, w}
  PROVE  /\ \A c \in Deleted(w, old) : c.by = Committed =>
              \E b \in versions : b.by = Committed /\ Taken(w, old, b, c)
         /\ \A b \in versions : b.by = Committed =>
              \E c \in Deleted(w, old) : c.by = Committed /\ Taken(w, old, b, c)
         /\ \A v : v.by # Committed => (v \in Deleted(w, old) <=> v \in versions \ old)
<1> DEFINE Marked(v) == [v EXCEPT !.del = w]
<1>1. w # Nobody /\ Nobody \notin Workers
  BY PostgresAssumption DEF Workers
<1>2. Deleted(w, old) = (versions \ old) \cup {Marked(v) : v \in {x \in old : x.by = Committed}}
  BY DEF Deleted
<1>3. ASSUME NEW v \in old, v.by = Committed
      PROVE  Marked(v).by = Committed /\ Taken(w, old, v, Marked(v))
  <2>1. v \in RowVersions /\ v.del \in {Nobody, w}
    BY DEF TypeInv, TypeOK
  <2>2. /\ Marked(v).by = v.by /\ Marked(v).row = v.row /\ Marked(v).doc = v.doc
        /\ Marked(v).del = w
    BY <2>1 DEF RowVersions
  <2> QED
    BY <1>1, <1>3, <2>1, <2>2 DEF Taken
<1>4. \A v \in versions \ old : Taken(w, old, v, v)
  BY DEF Taken
<1> HIDE DEF Marked
<1>5. ASSUME NEW c \in Deleted(w, old), c.by = Committed
      PROVE  \E b \in versions : b.by = Committed /\ Taken(w, old, b, c)
  BY <1>2, <1>3, <1>4, <1>5
<1>6. ASSUME NEW b \in versions, b.by = Committed
      PROVE  \E c \in Deleted(w, old) : c.by = Committed /\ Taken(w, old, b, c)
  BY <1>2, <1>3, <1>4, <1>6
<1>7. ASSUME NEW v, v.by # Committed PROVE v \in Deleted(w, old) <=> v \in versions \ old
  BY <1>2, <1>3, <1>7
<1> QED
  BY <1>5, <1>6, <1>7

(* The rows a DML statement takes.                                         *)
Takes(w, st) ==
  IF st.op = "upsert" THEN Existing(w, st.row)
  ELSE IF st.op = "deleting" THEN StillThere(st) ELSE {}

(* A DML statement takes rows nobody else holds, and writes its own.       *)
LEMMA ExecutedRows ==
  ASSUME TypeInv, RunInv, NEW w \in Workers, NEW st, Writes(w, st)
  PROVE  /\ \A v \in Takes(w, st) : v \in versions /\ v.del \in {Nobody, w}
         /\ \A K : \A c \in Kept(K)' : \E b \in Kept(K) : Taken(w, Takes(w, st), b, c)
         /\ \A K : \A b \in Kept(K) : \E c \in Kept(K)' : Taken(w, Takes(w, st), b, c)
         /\ \A v : v.by \in Workers =>
              (v \in versions' <=> \/ v \in versions \ Takes(w, st)
                                   \/ st.op # "deleting" /\ v = NewVersion(w, st))
<1> DEFINE old == Takes(w, st)
<1>1. Committed \notin Workers /\ w # Nobody /\ w # Committed /\ Nobody \notin Workers
  BY PostgresAssumption DEF Workers
<1>2. ASSUME NEW v \in old PROVE v \in versions /\ v.del \in {Nobody, w}
  <2>1. CASE st.op = "upsert"
    <3>1. v \in versions /\ v.row = st.row /\ RowHolders(w, st.row) = {}
      BY <1>2, <2>1 DEF Takes, Existing, Visible, Writes
    <3>2. v.del \in {w, Committed, Nobody}
      BY <3>1, NobodyElse
    <3> QED
      BY <1>1, <3>1, <3>2, VersionTyped
  <2>2. CASE st.op = "deleting"
    BY <1>2, <2>2 DEF Takes, StillThere, Writes
  <2> QED
    BY <1>2, <2>1, <2>2 DEF Takes
<1>3. /\ versions' = Deleted(w, old)
         \/ (st.op # "deleting" /\ versions' = Deleted(w, old) \cup {NewVersion(w, st)})
      /\ st.op = "deleting" <=> ~(st.op # "deleting")
      /\ st.op # "deleting" => versions' = Deleted(w, old) \cup {NewVersion(w, st)}
  <2>1. Deleted(w, {}) = versions
    BY DEF Deleted
  <2> QED
    BY <2>1 DEF Writes, Takes, Inserted, Upserted, NewVersion
<1>4. NewVersion(w, st).by = w
  BY DEF NewVersion
<1> HIDE DEF old
<1>5. old \in SUBSET versions
  BY <1>2
<1>6. /\ \A c \in Deleted(w, old) : c.by = Committed =>
           \E b \in versions : b.by = Committed /\ Taken(w, old, b, c)
      /\ \A b \in versions : b.by = Committed =>
           \E c \in Deleted(w, old) : c.by = Committed /\ Taken(w, old, b, c)
      /\ \A v : v.by # Committed => (v \in Deleted(w, old) <=> v \in versions \ old)
  BY <1>2, <1>5, DeletedKept
<1>7. ASSUME NEW K, NEW c \in Kept(K)' PROVE \E b \in Kept(K) : Taken(w, old, b, c)
  <2>1. c \in Deleted(w, old) /\ c.by = Committed /\ KeyOf(c.row) = K
    BY <1>1, <1>3, <1>4, <1>7 DEF Kept
  <2> QED
    BY <1>6, <2>1 DEF Kept, Taken
<1>8. ASSUME NEW K, NEW b \in Kept(K) PROVE \E c \in Kept(K)' : Taken(w, old, b, c)
  BY <1>3, <1>6, <1>8 DEF Kept, Taken
<1>9. ASSUME NEW v, v.by \in Workers
      PROVE  v \in versions' <=> \/ v \in versions \ old
                                 \/ st.op # "deleting" /\ v = NewVersion(w, st)
  BY <1>1, <1>3, <1>6, <1>9
<1> QED
  BY <1>2, <1>7, <1>8, <1>9 DEF old

(* What the others have written stays theirs.                              *)
LEMMA OwnStays ==
  ASSUME TypeInv, StoreInv, NEW w \in Workers, Kind(w), NEW x \in Workers \ {w}, NEW K
  PROVE  Own(x, K)' = Own(x, K)
<1>1. \A v : v.by = x => (v \in versions' <=> v \in versions)
  BY VersionStep, PostgresAssumption DEF StoreInv, NewVersion, Workers
<1> QED
  BY <1>1 DEF Own

(* Until its COMMIT, a step of w changes nothing the others see of what is *)
(* committed.                                                              *)
LEMMA KeptStays ==
  ASSUME TypeInv, StoreInv, NEW w \in Workers, Kind(w), ~Commits(w), NEW K
  PROVE  SameButFor(w, Kept(K), Kept(K)')
<1>1. CASE UNCHANGED versions
  BY <1>1 DEF Kept, SameButFor
<1>2. CASE Executes(w)
  BY <1>2, ExecutedRows DEF Executes, SameButFor, Taken, StoreInv
<1>3. CASE RollsBack(w)
  <2> DEFINE Freed(v) == [v EXCEPT !.del = IF @ = w THEN Nobody ELSE @]
  <2>1. w # Committed /\ Nobody \notin Workers
    BY PostgresAssumption DEF Workers
  <2>2. versions' = {Freed(v) : v \in {x \in versions : x.by # w}}
    BY <1>3 DEF RollsBack, EndByRollback
  <2>3. ASSUME NEW v \in versions
        PROVE  /\ Freed(v).by = v.by /\ Freed(v).row = v.row /\ Freed(v).doc = v.doc
               /\ \A x \in Workers \ {w} : Freed(v).del = x <=> v.del = x
    BY <2>1 DEF TypeInv, TypeOK, RowVersions
  <2> HIDE DEF Freed
  <2>4. ASSUME NEW c \in Kept(K)'
        PROVE  \E b \in Kept(K) : /\ c.row = b.row /\ c.doc = b.doc
                                  /\ \A x \in Workers \ {w} : c.del = x <=> b.del = x
    BY <2>2, <2>3 DEF Kept
  <2>5. ASSUME NEW b \in Kept(K)
        PROVE  \E c \in Kept(K)' : /\ c.row = b.row /\ c.doc = b.doc
                                   /\ \A x \in Workers \ {w} : c.del = x <=> b.del = x
    <3>1. Freed(b) \in Kept(K)'
      BY <2>1, <2>2, <2>3 DEF Kept
    <3> QED
      BY <2>3, <3>1 DEF Kept
  <2> QED
    BY <2>4, <2>5 DEF SameButFor
<1> QED
  BY <1>1, <1>2, <1>3 DEF Kind, Begins, GoesOn, Rejects, Renders, Remembers

(* The COMMIT of w replaces what is kept under a key by what w has written *)
(* there, or leaves it as it is.                                           *)
LEMMA KeptCommit ==
  ASSUME TypeInv, StoreInv, WorkInv, NEW w \in Workers, Commits(w), NEW K \in Keys
  PROVE  /\ Own(w, K) = {} => Kept(K)' = Kept(K)
         /\ Own(w, K) # {} =>
              /\ \A c \in Kept(K)' : /\ c.del = Nobody
                                     /\ \E v \in Own(w, K) : c.row = v.row /\ c.doc = v.doc
              /\ \A v \in Own(w, K) : \E c \in Kept(K)' : c.row = v.row /\ c.doc = v.doc
              /\ \A c \in Kept(K) : c.del = w
         /\ Whole(Own(w, K))
<1> DEFINE Given(v) == [v EXCEPT !.by = IF @ = w THEN Committed ELSE @]
<1>1. w # Committed /\ w # Nobody /\ Committed \notin Workers
  BY PostgresAssumption DEF Workers
<1>2. versions' = {Given(v) : v \in {x \in versions : x.del # w}}
  BY DEF Commits, EndByCommit, CommittedVersions
<1>3. ASSUME NEW v \in versions
      PROVE  /\ v.by # w => Given(v) = v
             /\ v.by = w => Given(v).by = Committed
             /\ Given(v).row = v.row /\ Given(v).doc = v.doc /\ Given(v).del = v.del
  BY DEF TypeInv, TypeOK, RowVersions
<1>4. \A v \in versions : v.by \in Workers => v.del = Nobody
  BY DEF StoreInv, RunInv
<1>5. Settled(w, K)
  BY DEF WorkInv, Works, Commits
<1> HIDE DEF Given
<1>6. \A v \in Own(w, K) : Given(v) \in Kept(K)'
  BY <1>1, <1>2, <1>3, <1>4 DEF Own, Kept
<1>7. ASSUME NEW c \in Kept(K)'
      PROVE  \/ c \in Kept(K) /\ c.del # w
             \/ \E v \in Own(w, K) : c.row = v.row /\ c.doc = v.doc /\ c.del = Nobody
  <2>1. PICK v \in versions : v.del # w /\ c = Given(v)
    BY <1>2, <1>7 DEF Kept
  <2>2. CASE v.by = w
    BY <1>3, <1>4, <1>7, <2>1, <2>2 DEF Kept, Own
  <2>3. CASE v.by # w
    BY <1>3, <1>7, <2>1, <2>3 DEF Kept
  <2> QED
    BY <2>2, <2>3
<1>8. ASSUME Own(w, K) = {} PROVE Kept(K)' = Kept(K)
  <2>1. \A c \in Kept(K) : c.del # w
    BY <1>5, <1>8 DEF Settled
  <2>2. \A c \in Kept(K) : c \in Kept(K)'
    BY <1>1, <1>2, <1>3, <2>1 DEF Kept
  <2> QED
    BY <1>7, <1>8, <2>2
<1>9. ASSUME Own(w, K) # {}
      PROVE  /\ \A c \in Kept(K)' :
                  c.del = Nobody /\ \E v \in Own(w, K) : c.row = v.row /\ c.doc = v.doc
             /\ \A v \in Own(w, K) : \E c \in Kept(K)' : c.row = v.row /\ c.doc = v.doc
             /\ \A c \in Kept(K) : c.del = w
  <2>1. \A c \in Kept(K) : c.del = w
    BY <1>5, <1>9 DEF Settled
  <2>2. \A v \in Own(w, K) : v \in versions
    BY DEF Own
  <2> QED
    BY <1>3, <1>6, <1>7, <2>1, <2>2
<1> QED
  BY <1>5, <1>8, <1>9 DEF Settled

(* A whole set of rows stays whole when its rows and documents do.         *)
LEMMA WholeStays ==
  ASSUME NEW B, NEW C, Whole(B),
         \A c \in C : \E b \in B : c.row = b.row /\ c.doc = b.doc,
         \A b \in B : \E c \in C : c.row = b.row /\ c.doc = b.doc
  PROVE  Whole(C)
<1>1. {y.row.no : y \in C} = {y.row.no : y \in B}
  OBVIOUS
<1>2. ASSUME NEW x \in C
      PROVE  {y.row.no : y \in C} = 0..Items(MessageOf(x)) /\ \A y \in C : y.doc = x.doc
  <2>1. PICK b \in B : x.doc = b.doc
    OBVIOUS
  <2>2. {y.row.no : y \in C} = 0..Items(MessageOf(b)) /\ MessageOf(x) = MessageOf(b)
    BY <1>1, <2>1 DEF Whole, MessageOf
  <2>3. \A y \in C : y.doc = b.doc
    BY DEF Whole
  <2> QED
    BY <2>1, <2>2, <2>3
<1> QED
  BY <1>2 DEF Whole

-----------------------------------------------------------------------------
(* The invariant is kept: the work of the others.                          *)

(* What the statements of a worker have to do with its message.            *)
LEMMA StageNumbers ==
  ASSUME TypeInv, EveryArrayHasItems, NEW w \in Workers, pc[w] = "dml"
  PROVE  /\ Items(Current(w)) \in Nat /\ Len(stmts[w]) \in Nat /\ Len(stmts[w]) >= 1
         /\ stmts[w] \in Seq(DmlLines) \ {<<>>} /\ More(w)
<1>1. More(w) /\ stmts[w] \in Seq(DmlLines) \ {<<>>}
  BY DEF TypeInv, InHand
<1> QED
  BY <1>1, CurrentItems

(* Whoever has written anything under a key has written the root row.      *)
LEMMA RootFirst ==
  ASSUME TypeInv, EveryArrayHasItems, KeptInv, WorkInv, NEW w \in Workers, txn[w] = "open",
         NEW K \in Keys, Own(w, K) # {}
  PROVE  \E v \in Own(w, K) : v.row.no = 0
<1>1. ASSUME Settled(w, K) PROVE \E v \in Own(w, K) : v.row.no = 0
  <2>1. PICK v \in Own(w, K) : {y.row.no : y \in Own(w, K)} = 0..Items(MessageOf(v))
    BY <1>1 DEF Settled, Whole
  <2>2. Items(MessageOf(v)) \in Nat
    BY ProcessorAssumption DEF KeptInv, Own, Items
  <2>3. 0 \in {y.row.no : y \in Own(w, K)}
    BY <2>1, <2>2
  <2> QED
    BY <2>3
<1>2. CASE pc[w] = "dml" /\ K = CurrentKey(w)
  <2> DEFINE n == Items(Current(w))
             last == Len(stmts[w])
  <2>1. n \in Nat /\ last \in Nat /\ Stage(w, K)
    BY <1>2, StageNumbers DEF WorkInv, Works
  <2>2. CASE last <= n
    <3>1. {v.row.no : v \in Own(w, K)} = 0..(n - last) /\ 0 \in 0..(n - last)
      BY <2>1, <2>2 DEF Stage, Written
    <3>2. 0 \in {v.row.no : v \in Own(w, K)}
      BY <3>1
    <3> QED
      BY <3>2
  <2>3. CASE last = n + 1 /\ Upsert
    BY <2>1, <2>3 DEF Stage, Cleared
  <2>4. CASE last > n + 1 \/ (last = n + 1 /\ ~Upsert)
    BY <1>1, <2>1, <2>4 DEF Stage
  <2> QED
    BY <2>1, <2>2, <2>3, <2>4
<1>3. CASE ~(pc[w] = "dml" /\ K = CurrentKey(w))
  BY <1>1, <1>3 DEF WorkInv, Works
<1> QED
  BY <1>2, <1>3

(* Two workers do not write under one key: both would have its root row.   *)
LEMMA OneWriter ==
  ASSUME TypeInv, EveryArrayHasItems, KeptInv, WorkInv, NEW w \in Workers, txn[w] = "open",
         NEW x \in Workers \ {w}, txn[x] = "open", NEW K \in Keys, Own(w, K) # {}
  PROVE  Own(x, K) = {}
<1> SUFFICES ASSUME Own(x, K) # {} PROVE FALSE
  OBVIOUS
<1>1. PICK u \in Own(w, K) : u.row.no = 0
  BY RootFirst
<1>2. PICK v \in Own(x, K) : v.row.no = 0
  BY RootFirst
<1>3. /\ u \in versions /\ v \in versions /\ u.by = w /\ v.by = x
      /\ KeyOf(u.row) = KeyOf(v.row)
  BY DEF Own
<1>4. u.row = v.row
  BY <1>1, <1>2, <1>3, VersionTyped, RowKnown
<1> QED
  BY <1>3, <1>4 DEF KeptInv

(* What w has of the committed versions under K is the same as before.     *)
LEMMA WorksSame ==
  ASSUME NEW x \in Workers, NEW K, Own(x, K)' = Own(x, K),
         \A c \in Kept(K)' : \E b \in Kept(K) : c.row = b.row /\ (c.del = x <=> b.del = x)
  PROVE  /\ Settled(x, K) => Settled(x, K)'
         /\ Cleared(x, K) => Cleared(x, K)'
         /\ \A doc, no : Written(x, K, doc, no) => Written(x, K, doc, no)'
         /\ RemembersAll(x, K) /\ Remembered(x)' = Remembered(x) => RemembersAll(x, K)'
<1>1. Settled(x, K) => Settled(x, K)'
  BY DEF Settled, Whole
<1>2. Cleared(x, K) => Cleared(x, K)'
  BY DEF Cleared
<1>3. \A doc, no : Written(x, K, doc, no) => Written(x, K, doc, no)'
  BY DEF Written
<1>4. RemembersAll(x, K) /\ Remembered(x)' = Remembered(x) => RemembersAll(x, K)'
  BY DEF RemembersAll
<1> QED
  BY <1>1, <1>2, <1>3, <1>4

(* A worker with nothing under K takes nothing from what is new there.     *)
LEMMA WorksFree ==
  ASSUME NEW x \in Workers, NEW K, Own(x, K) = {}, Own(x, K)' = {},
         \A c \in Kept(K)' : c.del # x
  PROVE  /\ Settled(x, K)'
         /\ Cleared(x, K)'
         /\ \A doc : \A no \in Nat : ~Written(x, K, doc, no)
         /\ RemembersAll(x, K) /\ Remembered(x)' = Remembered(x) => RemembersAll(x, K)'
<1>1. Settled(x, K)' /\ Cleared(x, K)'
  BY DEF Settled, Cleared, Whole
<1>2. ASSUME NEW doc, NEW no \in Nat PROVE ~Written(x, K, doc, no)
  <2>1. 0 \in 0..no
    OBVIOUS
  <2>2. {v.row.no : v \in Own(x, K)} = {}
    OBVIOUS
  <2> QED
    BY <2>1, <2>2 DEF Written
<1>3. RemembersAll(x, K) /\ Remembered(x)' = Remembered(x) => RemembersAll(x, K)'
  BY DEF RemembersAll
<1> QED
  BY <1>1, <1>2, <1>3

(* The stage of x stays what it was, if x stays where it was.              *)
LEMMA WorksQuiet ==
  ASSUME TypeInv, EveryArrayHasItems, NEW x \in Workers, Works(x),
         UNCHANGED <<pc[x], txn[x], batch[x], next[x], stmts[x]>>,
         \A K \in Keys : Own(x, K)' = Own(x, K),
         \A K \in Keys :
           \/ \A c \in Kept(K)' : \E b \in Kept(K) : c.row = b.row /\ (c.del = x <=> b.del = x)
           \/ txn[x] = "open" => Own(x, K) = {} /\ \A c \in Kept(K)' : c.del # x
  PROVE  Works(x)'
<1> SUFFICES ASSUME txn[x] = "open", NEW K \in Keys
             PROVE  IF pc'[x] = "dml" /\ K = CurrentKey(x)' THEN Stage(x, K)'
                                                            ELSE Settled(x, K)'
  BY DEF Works
<1>1. /\ CurrentKey(x)' = CurrentKey(x) /\ Current(x)' = Current(x)
      /\ Remembered(x)' = Remembered(x)
  BY DEF CurrentKey, Current, Msg, Remembered
<1>2. /\ Settled(x, K) => Settled(x, K)'
      /\ Cleared(x, K) => Cleared(x, K)'
      /\ \A doc : \A no \in Nat : Written(x, K, doc, no) => Written(x, K, doc, no)'
      /\ RemembersAll(x, K) => RemembersAll(x, K)'
  BY <1>1, WorksSame, WorksFree
<1>3. ASSUME pc[x] = "dml", Stage(x, K) PROVE Stage(x, K)'
  <2>1. Items(Current(x)) \in Nat /\ Len(stmts[x]) \in Nat
    BY <1>3, StageNumbers
  <2>2. Len(stmts[x]) <= Items(Current(x)) => Items(Current(x)) - Len(stmts[x]) \in Nat
    BY <2>1
  <2> QED
    BY <1>1, <1>2, <1>3, <2>2 DEF Stage
<1> QED
  BY <1>1, <1>2, <1>3 DEF Works

(* A step of w, its COMMIT too, leaves the others where they are.          *)
LEMMA WorksOther ==
  ASSUME TypeInv, EveryArrayHasItems, StoreInv, KeptInv, WorkInv, NEW w \in Workers, Kind(w),
         NEW x \in Workers \ {w}
  PROVE  Works(x)'
<1>1. UNCHANGED <<pc[x], txn[x], batch[x], next[x], stmts[x]>>
  BY KindAlone DEF Alone, OnlyMoves
<1>2. \A K \in Keys : Own(x, K)' = Own(x, K)
  BY OwnStays
<1>3. ASSUME NEW K \in Keys
      PROVE  \/ \A c \in Kept(K)' : \E b \in Kept(K) :
                  c.row = b.row /\ (c.del = x <=> b.del = x)
             \/ txn[x] = "open" => Own(x, K) = {} /\ \A c \in Kept(K)' : c.del # x
  <2>1. CASE ~Commits(w)
    BY <2>1, KeptStays DEF SameButFor
  <2>2. CASE Commits(w) /\ Own(w, K) = {}
    BY <2>2, KeptCommit
  <2>3. CASE Commits(w) /\ Own(w, K) # {} /\ txn[x] = "open"
    <3>1. Own(x, K) = {}
      BY <2>3, OneWriter DEF Commits
    <3>2. \A c \in Kept(K)' : c.del # x
      BY <2>3, KeptCommit, PostgresAssumption DEF Workers
    <3> QED
      BY <3>1, <3>2
  <2> QED
    BY <2>1, <2>2, <2>3
<1> QED
  BY <1>1, <1>2, <1>3, WorksQuiet DEF WorkInv

-----------------------------------------------------------------------------
(* The invariant is kept: what is committed.                               *)

(* A statement that writes a row is of the current message.                *)
LEMMA NewMessage ==
  ASSUME TypeInv, StoreInv, NEW w \in Workers, pc[w] = "dml",
         stmts[w][1].op \in {"insert", "upsert"}
  PROVE  /\ MessageOf(NewVersion(w, stmts[w][1])) = Current(w) /\ Current(w) \in Messages
         /\ KeyOf(stmts[w][1].row) = CurrentKey(w)
<1>1. 1 \in 1..Len(stmts[w]) /\ More(w)
  BY DEF TypeInv, InHand
<1>2. LineOf(w, stmts[w][1])
  BY <1>1 DEF StoreInv, LineInv, Lines
<1> QED
  BY <1>1, <1>2, CurrentMessage, MessageKey DEF LineOf, LineFor, MessageOf, NewVersion, Current

(* Only w becomes a taker in a step of w, and not when its batch ends.     *)
LEMMA TakersStep ==
  ASSUME TypeInv, StoreInv, NEW w \in Workers, Kind(w), NEW v \in versions',
         v.del \in Workers
  PROVE  IF v.del = w THEN pc'[w] # "idle" ELSE \E u \in versions : u.del = v.del
<1>1. w # Nobody /\ w # Committed /\ Nobody \notin Workers
  BY PostgresAssumption DEF Workers
<1>2. CASE Executes(w)
  <2>1. PICK st : st = stmts[w][1] /\ Writes(w, st)
    BY <1>2 DEF Executes
  <2>2. ASSUME NEW old, v \in Deleted(w, old), old \subseteq versions
        PROVE  v.del = w \/ v \in versions
    <3>1. \A u \in old : [u EXCEPT !.del = w].del = w
      BY <2>2 DEF TypeInv, TypeOK, RowVersions
    <3> QED
      BY <2>2, <3>1 DEF Deleted
  <2>3. Existing(w, st.row) \subseteq versions /\ StillThere(st) \subseteq versions
    BY DEF Existing, Visible, StillThere
  <2>4. v.del = w \/ v \in versions
    BY <1>1, <2>1, <2>2, <2>3 DEF Writes, Inserted, Upserted
  <2> QED
    BY <1>2, <2>4 DEF Executes
<1>3. CASE Commits(w)
  <2>1. PICK u \in versions : u.del # w /\ v = [u EXCEPT !.by = IF @ = w THEN Committed ELSE @]
    BY <1>3 DEF Commits, EndByCommit, CommittedVersions
  <2>2. v.del = u.del
    BY <2>1 DEF TypeInv, TypeOK, RowVersions
  <2> QED
    BY <2>1, <2>2
<1>4. CASE RollsBack(w)
  <2>1. PICK u \in versions : v = [u EXCEPT !.del = IF @ = w THEN Nobody ELSE @]
    BY <1>4 DEF RollsBack, EndByRollback
  <2>2. v.del = IF u.del = w THEN Nobody ELSE u.del
    BY <2>1 DEF TypeInv, TypeOK, RowVersions
  <2> QED
    BY <1>1, <2>2
<1>5. CASE UNCHANGED versions /\ ~Commits(w) /\ ~RollsBack(w)
  <2>1. v.del = w => pc'[w] # "idle"
    BY <1>5 DEF Kind, Begins, GoesOn, Rejects, Renders, Remembers, Executes
  <2> QED
    BY <1>5, <2>1
<1> QED
  BY <1>2, <1>3, <1>4, <1>5 DEF Kind, Begins, GoesOn, Rejects, Renders, Remembers

(* A row is written only when nobody has written it, or over one's own.    *)
LEMMA OneVersion ==
  ASSUME TypeInv, StoreInv, KeptInv, NEW w \in Workers, Kind(w),
         NEW u \in versions', NEW v \in versions', u.row = v.row,
         u.by \in Workers, v.by \in Workers
  PROVE  u = v
<1>1. Committed \notin Workers /\ Nobody \notin Workers /\ w # Nobody
  BY PostgresAssumption DEF Workers
<1>2. CASE u \in versions /\ v \in versions
  BY <1>2 DEF KeptInv
<1>3. ASSUME NEW a \in versions, a \in versions', a.by \in Workers, Executes(w),
             stmts[w][1].op \in {"insert", "upsert"}, a.row = stmts[w][1].row
      PROVE  a = NewVersion(w, stmts[w][1])
  <2>1. PICK st : st = stmts[w][1] /\ Writes(w, st)
    BY <1>3 DEF Executes
  <2>2. RowHolders(w, st.row) = {}
    BY <1>3, <2>1 DEF Writes
  <2>3. a.by = w
    BY <1>1, <1>3, <2>1, <2>2, NobodyElse
  <2>4. a.del = Nobody
    BY <1>3 DEF StoreInv, RunInv
  <2>5. a \in Existing(w, st.row)
    BY <1>1, <1>3, <2>1, <2>3, <2>4 DEF Existing, Visible
  <2>6. st.op = "upsert" /\ a \in Takes(w, st)
    BY <1>3, <2>1, <2>5 DEF Writes, Takes
  <2> QED
    BY <1>3, <2>1, <2>6, ExecutedRows DEF StoreInv
<1>4. ASSUME NEW a \in versions', a.by \in Workers
      PROVE  \/ a \in versions
             \/ /\ Executes(w) /\ stmts[w][1].op \in {"insert", "upsert"}
                /\ a = NewVersion(w, stmts[w][1])
  BY <1>1, <1>4, VersionStep DEF StoreInv
<1> QED
  BY <1>2, <1>3, <1>4 DEF NewVersion

(* What is committed stays whole, whatever a worker does.                  *)
LEMMA KeptStep ==
  ASSUME TypeInv, TypeInv', EveryArrayHasItems, StoreInv, KeptInv, WorkInv,
         NEW w \in Workers, Kind(w)
  PROVE  KeptInv'
<1>1. ASSUME NEW v \in versions' PROVE MessageOf(v) \in Messages
  <2>1. \/ \E u \in versions : u.doc = v.doc
        \/ /\ Executes(w) /\ v = NewVersion(w, stmts[w][1])
           /\ stmts[w][1].op \in {"insert", "upsert"}
    BY <1>1, VersionStep DEF StoreInv, CommittedIn
  <2>2. ASSUME NEW u \in versions, u.doc = v.doc PROVE MessageOf(v) \in Messages
    BY <2>2 DEF KeptInv, MessageOf
  <2> QED
    BY <2>1, <2>2, NewMessage DEF Executes
<1>2. ASSUME NEW v \in versions', v.del \in Workers PROVE pc'[v.del] # "idle"
  BY <1>2, TakersStep, KindAlone DEF Alone, OnlyMoves, KeptInv
<1>3. \A u, v \in versions' :
        u.row = v.row /\ u.by \in Workers /\ v.by \in Workers => u = v
  BY OneVersion
<1>4. ASSUME NEW K \in Keys PROVE Whole(Kept(K)')
  <2>1. CASE ~Commits(w)
    BY <2>1, KeptStays, WholeStays DEF SameButFor, KeptInv
  <2>2. CASE Commits(w) /\ Own(w, K) = {}
    BY <2>2, KeptCommit DEF KeptInv
  <2>3. CASE Commits(w) /\ Own(w, K) # {}
    BY <2>3, KeptCommit, WholeStays
  <2> QED
    BY <2>1, <2>2, <2>3
<1>5. \A K \in Keys : Whole(Kept(K))'
  BY <1>4 DEF Whole, MessageOf, Msg
<1> QED
  BY <1>1, <1>2, <1>3, <1>5 DEF KeptInv, MessageOf, Msg

-----------------------------------------------------------------------------
(* The invariant is kept: the shape of the statements left.                *)

(* A message is rendered to its lines, root first.                         *)
LEMMA DmlLined ==
  ASSUME TypeInv, EveryArrayHasItems, NEW w \in Workers, More(w)
  PROVE  /\ Lined(Current(w), Dml(w))
         /\ Len(Dml(w)) = Items(Current(w)) + (IF Upsert THEN 2 ELSE 1)
         /\ Upsert => Dml(w)[1].op = "delete"
<1> DEFINE m == Current(w)
           doc == <<batch[w], next[w], faults>>
           n == Items(m)
           root == Line(IF Upsert THEN "upsert" ELSE "insert", m, doc, 0)
           s == <<root>> \o ChildInserts(m, doc)
           d == Line("delete", m, doc, 0)
<1>1. /\ m \in Messages /\ doc \in Docs /\ n \in Nat
      /\ Upsert => n >= 1 /\ m.items # Absent
  BY CurrentItems, ProcessorAssumption DEF TypeInv, TypeOK, Docs
<1>2. /\ Upsert => Dml(w) = <<d>> \o <<root>> \o ChildInserts(m, doc)
      /\ ~Upsert => Dml(w) = s
  BY <1>1 DEF Dml, UpsertStatements, InsertStatements, Deletes
<1> HIDE DEF m, doc
<1>3. \A op \in {"insert", "upsert", "delete"}, no \in Nat :
        /\ Line(op, m, doc, no).op = op /\ Line(op, m, doc, no).doc = doc
        /\ Line(op, m, doc, no).row = RowOf(m, no)
        /\ Line(op, m, doc, no) \in DmlLines
  BY <1>1, LineTyped DEF Line
<1>4. /\ Len(ChildInserts(m, doc)) = n /\ ChildInserts(m, doc) \in Seq(DmlLines)
      /\ \A no \in 1..n : ChildInserts(m, doc)[no] = Line("insert", m, doc, no)
  BY <1>1, ChildrenTyped DEF ChildInserts
<1>5. root \in DmlLines /\ d \in DmlLines
  BY <1>3
<1>6. /\ Len(s) = n + 1 /\ s \in Seq(DmlLines) /\ s[1] = root
      /\ \A no \in 1..n : s[no + 1] = Line("insert", m, doc, no)
  BY <1>1, <1>4, <1>5
<1>7. \A k \in 1..(n + 1) :
        /\ s[k].op = IF Upsert /\ k = 1 THEN "upsert" ELSE "insert"
        /\ s[k].row = RowOf(m, k - 1) /\ s[k].doc = doc
  <2> SUFFICES ASSUME NEW k \in 1..(n + 1)
               PROVE  /\ s[k].op = IF Upsert /\ k = 1 THEN "upsert" ELSE "insert"
                      /\ s[k].row = RowOf(m, k - 1) /\ s[k].doc = doc
    OBVIOUS
  <2>1. CASE k = 1
    BY <1>3, <1>6, <2>1
  <2>2. CASE k # 1
    <3>1. k - 1 \in 1..n /\ (k - 1) + 1 = k
      BY <1>1, <2>2
    <3>2. s[k] = Line("insert", m, doc, k - 1)
      BY <1>6, <3>1
    <3> HIDE DEF s
    <3> QED
      BY <1>3, <2>2, <3>1, <3>2
  <2> QED
    BY <2>1, <2>2
<1>8. Upsert => /\ Dml(w) = <<d>> \o s
                /\ Len(Dml(w)) = n + 2 /\ Dml(w)[1] = d
                /\ \A k \in 1..(n + 1) : Dml(w)[k + 1] = s[k]
  <2> SUFFICES ASSUME Upsert
               PROVE  /\ Dml(w) = <<d>> \o s
                      /\ Len(Dml(w)) = n + 2 /\ Dml(w)[1] = d
                      /\ \A k \in 1..(n + 1) : Dml(w)[k + 1] = s[k]
    OBVIOUS
  <2>1. Dml(w) = <<d>> \o s
    BY <1>2, <1>4, <1>5
  <2> HIDE DEF s, d, root
  <2>2. /\ Len(<<d>> \o s) = 1 + Len(s) /\ (<<d>> \o s)[1] = d
        /\ \A k \in 1..Len(s) : (<<d>> \o s)[k + 1] = s[k]
    BY <1>5, <1>6
  <2> QED
    BY <1>1, <1>6, <2>1, <2>2
<1> HIDE DEF s, d, root
<1>9. CASE ~Upsert
  <2>1. /\ Len(Dml(w)) = n + 1
        /\ \A k \in 1..(n + 1) : /\ Dml(w)[k].op = "insert"
                                 /\ Dml(w)[k].row = RowOf(m, k - 1) /\ Dml(w)[k].doc = doc
    BY <1>2, <1>6, <1>7, <1>9
  <2>2. \A k \in 1..(n + 1) : n + k - (n + 1) = k - 1
    BY <1>1
  <2>3. n + 1 \in 1..(n + 1) /\ n + 1 # n + 2 /\ n + 1 <= n + 2
    BY <1>1
  <2>4. Lined(m, Dml(w))
    BY <1>9, <2>1, <2>2, <2>3 DEF Lined
  <2> QED
    BY <1>9, <2>1, <2>4 DEF m
<1>10. CASE Upsert
  <2>1. d.op = "delete" /\ Len(Dml(w)) = n + 2 /\ Dml(w)[1].op = "delete"
    BY <1>3, <1>8, <1>10 DEF d
  <2>2. ASSUME NEW k \in 2..(n + 2)
        PROVE  /\ Dml(w)[k].op = IF n + k = n + 2 THEN "upsert" ELSE "insert"
               /\ Dml(w)[k].row = RowOf(m, n + k - (n + 2)) /\ Dml(w)[k].doc = doc
    <3>1. /\ k - 1 \in 1..(n + 1) /\ (k - 1) + 1 = k /\ (k - 1) - 1 = n + k - (n + 2)
          /\ k - 1 = 1 <=> n + k = n + 2
      BY <1>1
    <3>2. Dml(w)[k] = s[k - 1]
      BY <1>8, <1>10, <3>1
    <3> QED
      BY <1>7, <1>10, <3>1, <3>2
  <2>3. /\ n + 2 \in 2..(n + 2) /\ n + 2 <= n + 2
        /\ \A k \in 1..(n + 2) : k > 1 => k \in 2..(n + 2)
        /\ ~(n + 2 < n + 2)
    BY <1>1
  <2>4. Lined(m, Dml(w))
    BY <1>10, <2>1, <2>2, <2>3 DEF Lined
  <2> QED
    BY <1>10, <2>1, <2>4 DEF m
<1> QED
  BY <1>9, <1>10

(* So is what is left after the first statement.                           *)
LEMMA LinedTail ==
  ASSUME NEW m, Items(m) \in Nat, NEW s \in Seq(DmlLines) \ {<<>>}, Lined(m, s)
  PROVE  Lined(m, Tail(s))
<1> DEFINE n == Items(m)
           t == Tail(s)
<1>1. /\ Len(s) \in Nat /\ Len(s) >= 1 /\ Len(t) = Len(s) - 1 /\ n \in Nat
      /\ \A k \in 1..Len(t) : k + 1 \in 2..Len(s) /\ t[k] = s[k + 1]
  BY TailLines
<1> HIDE DEF n, t
<1>2. ASSUME NEW k \in 1..Len(t)
      PROVE  /\ t[k].op = IF Upsert /\ n + k = Len(t) THEN "upsert" ELSE "insert"
             /\ t[k].row = RowOf(m, n + k - Len(t))
             /\ t[k].doc = t[Len(t)].doc
  <2>1. k + 1 \in 2..Len(s) /\ t[k] = s[k + 1] /\ t[Len(t)] = s[Len(s)]
    <3>1. Len(t) \in 1..Len(t) /\ Len(t) + 1 = Len(s)
      BY <1>1
    <3> QED
      BY <1>1, <3>1
  <2>2. /\ k + 1 > 1 /\ k + 1 \in 1..Len(s)
        /\ n + (k + 1) = Len(s) <=> n + k = Len(t)
        /\ n + (k + 1) - Len(s) = n + k - Len(t)
    BY <1>1, <2>1
  <2>3. /\ s[k + 1].op = IF Upsert /\ n + (k + 1) = Len(s) THEN "upsert" ELSE "insert"
        /\ s[k + 1].row = RowOf(m, n + (k + 1) - Len(s))
        /\ s[k + 1].doc = s[Len(s)].doc
    BY <2>2 DEF Lined, n
  <2> QED
    BY <2>1, <2>2, <2>3
<1>3. Len(t) <= n + 2 /\ Len(t) # n + 2
  BY <1>1 DEF Lined, n
<1> QED
  BY <1>2, <1>3 DEF Lined, n, t

(* A DELETE is first, and only when nothing is written yet.                *)
LEMMA FirstLine ==
  ASSUME TypeInv, EveryArrayHasItems, ShapeInv, NEW w \in Workers, pc[w] = "dml"
  PROVE  LET n == Items(Current(w))
             last == Len(stmts[w])
             st == stmts[w][1]
         IN \/ last = n + 2 /\ Upsert /\ st.op \in {"delete", "deleting"}
            \/ /\ last <= n + 1
               /\ st.op = IF Upsert /\ last = n + 1 THEN "upsert" ELSE "insert"
               /\ st.row = RowOf(Current(w), n + 1 - last)
               /\ st.doc = stmts[w][last].doc
<1> DEFINE n == Items(Current(w))
           last == Len(stmts[w])
<1>1. n \in Nat /\ last \in Nat /\ last >= 1 /\ Lined(Current(w), stmts[w])
  BY StageNumbers DEF ShapeInv, Shape
<1>2. CASE last = n + 2
  BY <1>1, <1>2 DEF Lined
<1>3. CASE last # n + 2
  <2>1. last < n + 2 /\ last <= n + 1 /\ 1 \in 1..last /\ (n + 1 = last <=> last = n + 1)
    BY <1>1, <1>3 DEF Lined
  <2> HIDE DEF n, last
  <2> QED
    BY <1>1, <2>1 DEF Lined, n, last
<1> QED
  BY <1>2, <1>3

(* The statements left keep their shape.                                   *)
LEMMA ShapeStep ==
  ASSUME TypeInv, EveryArrayHasItems, ShapeInv, NEW w \in Workers, Kind(w)
  PROVE  ShapeInv'
<1>1. ASSUME NEW x \in Workers \ {w} PROVE Shape(x)'
  <2>1. UNCHANGED <<pc[x], batch[x], next[x], stmts[x]>> /\ Current(x)' = Current(x)
    BY KindAlone DEF Alone, OnlyMoves, Current, Msg
  <2> QED
    BY <2>1 DEF ShapeInv, Shape
<1>2. Shape(w)'
  <2>1. CASE Renders(w)
    BY <2>1, DmlLined DEF Renders, Shape, Current, Msg
  <2>2. CASE Remembers(w)
    <3> DEFINE first == [op |-> "deleting", rows |-> Targets(w, stmts[w][1].row)]
               n == Items(Current(w))
               last == Len(stmts[w])
    <3>1. /\ pc[w] = "dml" /\ stmts[w][1].op = "delete" /\ Current(w)' = Current(w)
          /\ stmts'[w] = [stmts[w] EXCEPT ![1] = first]
          /\ stmts[w] \in Seq(DmlLines) \ {<<>>} /\ Lined(Current(w), stmts[w])
      BY <2>2 DEF Remembers, Current, Msg, TypeInv, InHand, ShapeInv, Shape
    <3>2. last = n + 2 /\ Upsert /\ n \in Nat
      BY <3>1, FirstLine, StageNumbers
    <3>3. /\ Len(stmts'[w]) = last /\ stmts'[w][1] = first /\ first.op = "deleting"
          /\ \A k \in 2..last : stmts'[w][k] = stmts[w][k]
      BY <3>1
    <3>4. ASSUME NEW k \in 1..last, k > 1
          PROVE  stmts'[w][k] = stmts[w][k] /\ stmts'[w][last] = stmts[w][last]
      <4>1. k \in 2..last /\ last \in 2..last
        BY <3>2, <3>4
      <4> QED
        BY <3>3, <4>1
    <3>5. ASSUME NEW k \in 1..last, k > 1
          PROVE  /\ stmts'[w][k].op = IF Upsert /\ n + k = last THEN "upsert" ELSE "insert"
                 /\ stmts'[w][k].row = RowOf(Current(w), n + k - last)
                 /\ stmts'[w][k].doc = stmts'[w][last].doc
      BY <3>1, <3>4, <3>5 DEF Lined
    <3> HIDE DEF n, last, first
    <3>6. ~(last < n + 2) /\ last <= n + 2
      BY <3>2
    <3>7. Lined(Current(w), stmts'[w])
      BY <3>2, <3>3, <3>5, <3>6 DEF Lined, n
    <3> QED
      BY <3>1, <3>7 DEF Shape
  <2>3. CASE Executes(w) /\ pc'[w] = "dml"
    <3>1. /\ stmts'[w] = Tail(stmts[w]) /\ pc[w] = "dml" /\ Current(w)' = Current(w)
      BY <2>3 DEF Executes, Current, Msg
    <3>2. Lined(Current(w), Tail(stmts[w]))
      BY <3>1, StageNumbers, LinedTail DEF ShapeInv, Shape
    <3> QED
      BY <3>1, <3>2 DEF Shape
  <2>4. CASE pc'[w] # "dml"
    BY <2>4 DEF Shape
  <2> QED
    BY <2>1, <2>2, <2>3, <2>4 DEF Kind, Begins, GoesOn, Rejects, Commits, RollsBack
<1> QED
  BY <1>1, <1>2 DEF ShapeInv

-----------------------------------------------------------------------------
(* The invariant is kept: a worker's own work.                             *)

(* Steps that write nothing.                                               *)
LEMMA WorksControl ==
  ASSUME TypeInv, StoreInv, KeptInv, WorkInv, NEW w \in Workers,
         \/ \E b \in Batches : Begins(w, b)
         \/ GoesOn(w) \/ Rejects(w)
  PROVE  Works(w)'
<1> SUFFICES ASSUME txn'[w] = "open", NEW K \in Keys PROVE Settled(w, K)'
  BY DEF Works, Begins, GoesOn, Rejects
<1>1. versions' = versions
  BY DEF Begins, GoesOn, Rejects
<1>2. Settled(w, K)
  <2>1. CASE \E b \in Batches : Begins(w, b)
    <3>1. pc[w] = "idle"
      BY <2>1 DEF Begins
    <3>2. Own(w, K) = {}
      BY <3>1 DEF StoreInv, RunInv, Own
    <3>3. \A c \in Kept(K) : c.del # w
      BY <3>1 DEF KeptInv, Kept
    <3> QED
      BY <3>2, <3>3 DEF Settled, Whole
  <2>2. CASE GoesOn(w)
    BY <2>2 DEF GoesOn, WorkInv, Works
  <2>3. CASE Rejects(w)
    BY <2>3 DEF Rejects, WorkInv, Works
  <2> QED
    BY <2>1, <2>2, <2>3
<1>3. Own(w, K)' = Own(w, K) /\ Kept(K)' = Kept(K)
  BY <1>1 DEF Own, Kept
<1> QED
  BY <1>2, <1>3 DEF Settled, Whole, MessageOf, Msg

(* Rendering: the statements begin with the root row, or the DELETE.       *)
LEMMA WorksRender ==
  ASSUME TypeInv, EveryArrayHasItems, WorkInv, NEW w \in Workers, Renders(w)
  PROVE  Works(w)'
<1> SUFFICES ASSUME txn'[w] = "open", NEW K \in Keys
             PROVE  Settled(w, K)' /\ Stage(w, K)'
  BY DEF Works
<1>1. /\ pc[w] # "dml" /\ txn[w] = "open" /\ stmts'[w] = Dml(w) /\ Current(w)' = Current(w)
      /\ versions' = versions /\ More(w)
  BY DEF Renders, Current, Msg
<1>2. Settled(w, K)
  BY <1>1 DEF WorkInv, Works
<1>3. Own(w, K)' = Own(w, K) /\ Kept(K)' = Kept(K)
  BY <1>1 DEF Own, Kept
<1>4. Settled(w, K)'
  BY <1>2, <1>3 DEF Settled, Whole, MessageOf, Msg
<1>5. /\ Len(Dml(w)) = Items(Current(w)) + (IF Upsert THEN 2 ELSE 1)
      /\ Upsert => Dml(w)[1].op = "delete"
      /\ Items(Current(w)) \in Nat
  BY <1>1, DmlLined, CurrentItems
<1>6. Stage(w, K)'
  BY <1>1, <1>4, <1>5 DEF Stage
<1> QED
  BY <1>4, <1>6

(* The DELETE of an upsert starts: what it sees under the key is all that  *)
(* w has written there, or a whole committed document.                     *)
LEMMA WorksRemember ==
  ASSUME TypeInv, EveryArrayHasItems, StoreInv, KeptInv, ShapeInv, WorkInv,
         NEW w \in Workers, Remembers(w)
  PROVE  Works(w)'
<1> DEFINE first == [op |-> "deleting", rows |-> Targets(w, stmts[w][1].row)]
<1>1. /\ pc[w] = "dml" /\ pc'[w] = "dml" /\ txn[w] = "open" /\ stmts[w][1].op = "delete"
      /\ stmts[w] \in Seq(DmlLines) \ {<<>>} /\ stmts'[w] = [stmts[w] EXCEPT ![1] = first]
      /\ versions' = versions /\ Current(w)' = Current(w) /\ CurrentKey(w)' = CurrentKey(w)
  BY DEF Remembers, TypeInv, InHand, CurrentKey, Current, Msg
<1>2. /\ Len(stmts'[w]) = Len(stmts[w]) /\ stmts'[w][1] = first /\ 1 \in 1..Len(stmts[w])
      /\ first.op = "deleting" /\ first.rows = Targets(w, stmts[w][1].row)
  BY <1>1
<1>3. Remembered(w)' = Targets(w, stmts[w][1].row)
  BY <1>1, <1>2 DEF Remembered
<1>4. /\ Items(Current(w)) \in Nat /\ Len(stmts[w]) = Items(Current(w)) + 2
  BY <1>1, FirstLine, StageNumbers
<1>5. KeyOf(stmts[w][1].row) = CurrentKey(w)
  <2>1. LineOf(w, stmts[w][1])
    BY <1>1, <1>2 DEF StoreInv, LineInv, Lines
  <2> QED
    BY <1>1, <2>1, MessageKey DEF LineOf, LineFor
<1> SUFFICES ASSUME NEW K \in Keys
             PROVE  Settled(w, K)' /\ (K = CurrentKey(w) => RemembersAll(w, K)')
  BY <1>1, <1>2, <1>4 DEF Works, Stage
<1>6. Own(w, K)' = Own(w, K) /\ Kept(K)' = Kept(K)
  BY <1>1 DEF Own, Kept
<1>7. Settled(w, K)
  <2>1. K = CurrentKey(w) => Stage(w, K)
    BY <1>1 DEF WorkInv, Works
  <2> QED
    BY <1>1, <1>4, <2>1 DEF WorkInv, Works, Stage
<1>8. Settled(w, K)'
  BY <1>6, <1>7 DEF Settled, Whole, MessageOf, Msg
<1>9. ASSUME K = CurrentKey(w) PROVE RemembersAll(w, K)'
  <2> DEFINE R == Targets(w, stmts[w][1].row)
  <2>1. \A v : v \in R <=> /\ v \in versions /\ v.by \in {Committed, w} /\ v.del # w
                           /\ KeyOf(v.row) = K /\ v.row.no > 0
    BY <1>5, <1>9 DEF Targets, Visible, KeyOf
  <2> HIDE DEF R
  <2>2. \A v \in Own(w, K) : v.row.no > 0 => v \in R
    BY <2>1, PostgresAssumption DEF Own, StoreInv, RunInv, Workers
  <2>3. ASSUME Own(w, K) = {}, NEW t \in R
        PROVE  {u.row.no : u \in R} = 1..Items(MessageOf(t)) /\ \A u \in R : u.doc = t.doc
    <3>1. \A u \in R : u \in Kept(K) /\ u.row.no > 0
      BY <2>1, <2>3 DEF Kept, Own
    <3>2. \A u \in Kept(K) : u.row.no > 0 => u \in R
      BY <1>7, <2>1, <2>3 DEF Kept, Settled
    <3>3. /\ {u.row.no : u \in Kept(K)} = 0..Items(MessageOf(t))
          /\ \A u \in Kept(K) : u.doc = t.doc
      BY <2>3, <3>1 DEF KeptInv, Whole
    <3>4. Items(MessageOf(t)) \in Nat
      BY <2>1, <2>3, ProcessorAssumption DEF KeptInv, Items
    <3>5. ASSUME NEW no \in 1..Items(MessageOf(t)) PROVE no \in {u.row.no : u \in R}
      <4>1. PICK u \in Kept(K) : u.row.no = no
        BY <3>3, <3>4
      <4> QED
        BY <3>2, <4>1
    <3>6. ASSUME NEW u \in R PROVE u.row.no \in 1..Items(MessageOf(t))
      <4>1. u.row.no \in 0..Items(MessageOf(t)) /\ u.row.no > 0
        BY <3>1, <3>3
      <4> QED
        BY <3>4, <4>1
    <3> QED
      BY <3>1, <3>3, <3>5, <3>6
  <2> QED
    BY <1>3, <1>6, <2>2, <2>3 DEF RemembersAll, MessageOf, Msg, R
<1> QED
  BY <1>8, <1>9

(* What a statement takes is under the current key.                        *)
LEMMA TakesHere ==
  ASSUME TypeInv, StoreInv, NEW w \in Workers, Executes(w), NEW v \in Takes(w, stmts[w][1])
  PROVE  KeyOf(v.row) = CurrentKey(w)
<1> DEFINE st == stmts[w][1]
<1>1. pc[w] = "dml" /\ Writes(w, st)
  BY DEF Executes
<1>2. CASE st.op = "upsert"
  BY <1>1, <1>2, NewMessage DEF Takes, Existing
<1>3. CASE st.op = "deleting"
  <2>1. PICK t \in st.rows : v.row = t.row
    BY <1>3 DEF Takes, StillThere
  <2>2. t \in Remembered(w)
    BY <1>1, <1>3, <2>1 DEF Remembered
  <2> QED
    BY <2>1, <2>2, MessageKey DEF StoreInv, LineInv, Lines
<1> QED
  BY <1>2, <1>3 DEF Takes

(* Under the other keys nothing happens.                                   *)
LEMMA WorksElsewhere ==
  ASSUME TypeInv, StoreInv, WorkInv, NEW w \in Workers, Executes(w),
         NEW K \in Keys, K # CurrentKey(w)
  PROVE  Settled(w, K)'
<1> DEFINE st == stmts[w][1]
<1>1. pc[w] = "dml" /\ Writes(w, st) /\ Settled(w, K)
  BY DEF Executes, WorkInv, Works
<1>2. st.op # "deleting" => KeyOf(NewVersion(w, st).row) # K
  BY <1>1, NewMessage DEF Writes, NewVersion
<1>3. \A v : v.by = w => (v \in versions' <=> \/ v \in versions \ Takes(w, st)
                                              \/ st.op # "deleting" /\ v = NewVersion(w, st))
  BY <1>1, ExecutedRows DEF StoreInv
<1>4. Own(w, K)' = Own(w, K)
  BY <1>2, <1>3, TakesHere DEF Own
<1>5. \A c \in Kept(K)' : \E b \in Kept(K) : Taken(w, Takes(w, st), b, c)
  BY <1>1, ExecutedRows DEF StoreInv
<1>6. \A c \in Kept(K)' : \E b \in Kept(K) : c.row = b.row /\ (c.del = w <=> b.del = w)
  BY <1>5, TakesHere DEF Taken, Kept
<1> QED
  BY <1>1, <1>4, <1>6, WorksSame

(* What is under the current key after a statement.                        *)
LEMMA WrittenHere ==
  ASSUME TypeInv, StoreInv, NEW w \in Workers, Executes(w), NEW K
  PROVE  /\ \A v : v \in Own(w, K)' <=>
              \/ v \in Own(w, K) \ Takes(w, stmts[w][1])
              \/ /\ stmts[w][1].op # "deleting" /\ v = NewVersion(w, stmts[w][1])
                 /\ KeyOf(stmts[w][1].row) = K
         /\ \A c \in Kept(K)' : \E b \in Kept(K) : Taken(w, Takes(w, stmts[w][1]), b, c)
<1> DEFINE st == stmts[w][1]
<1>1. Writes(w, st)
  BY DEF Executes
<1>2. \A v : v.by = w => (v \in versions' <=> \/ v \in versions \ Takes(w, st)
                                              \/ st.op # "deleting" /\ v = NewVersion(w, st))
  BY <1>1, ExecutedRows DEF StoreInv
<1>3. NewVersion(w, st).by = w /\ NewVersion(w, st).row = st.row
  BY DEF NewVersion
<1>4. \A c \in Kept(K)' : \E b \in Kept(K) : Taken(w, Takes(w, st), b, c)
  BY <1>1, ExecutedRows DEF StoreInv
<1>5. ASSUME NEW v
      PROVE  v \in Own(w, K)' <=>
               \/ v \in Own(w, K) \ Takes(w, st)
               \/ st.op # "deleting" /\ v = NewVersion(w, st) /\ KeyOf(st.row) = K
  BY <1>2, <1>3 DEF Own
<1> QED
  BY <1>4, <1>5

(* The DELETE takes all the children w remembers: its own, or those of the *)
(* committed document, if that is still there.                             *)
LEMMA DeleteClears ==
  ASSUME TypeInv, EveryArrayHasItems, StoreInv, KeptInv, ShapeInv, WorkInv,
         NEW w \in Workers, Executes(w), stmts[w][1].op = "deleting",
         NEW K \in Keys, K = CurrentKey(w)
  PROVE  Cleared(w, K)'
<1> DEFINE st == stmts[w][1]
           R == Remembered(w)
           Hit(v) == \E t \in R : v.row = t.row /\ v.doc = t.doc
<1>1. /\ pc[w] = "dml" /\ txn[w] = "open" /\ Stage(w, K)
      /\ Len(stmts[w]) = Items(Current(w)) + 2 /\ Items(Current(w)) \in Nat
  BY FirstLine, StageNumbers DEF Executes, WorkInv, Works
<1>2. Settled(w, K) /\ RemembersAll(w, K)
  BY <1>1 DEF Stage
<1>3. \A v : v \in Takes(w, st) <=> v \in versions /\ Hit(v)
  BY <1>1 DEF Takes, StillThere, Remembered
<1>4. \A t \in R : t.row.no > 0 /\ KeyOf(t.row) = K
  BY MessageKey DEF StoreInv, LineInv, Lines
<1>5. /\ \A v : v \in Own(w, K)' <=> v \in Own(w, K) /\ ~Hit(v)
      /\ \A c \in Kept(K)' : \E b \in Kept(K) :
           c.row = b.row /\ (c.del = w <=> b.del = w \/ Hit(b))
  BY <1>3, WrittenHere DEF Own, Kept, Taken
<1>6. /\ \A t \in R : KeyOf(t.row) = K /\ t.row.no > 0 /\ t.row \in Rows
      /\ \A b \in Kept(K) : KeyOf(b.row) = K /\ b.row \in Rows /\ b.row.no \in Nat
      /\ \A v \in Own(w, K) : v.row.no \in Nat
  <2>1. ASSUME NEW t \in R PROVE t.row \in Rows
    <3>1. stmts[w][1] \in DmlLines /\ t \in stmts[w][1].rows
      BY <1>1, StageNumbers DEF Remembered
    <3> QED
      BY <3>1 DEF DmlLines, RowVersions
  <2> QED
    BY <1>4, <2>1, VersionTyped DEF Kept, Own
<1> HIDE DEF R, Hit
<1>7. ~\E v : Hit(v) /\ v.row.no = 0
  BY <1>6 DEF Hit
<1>8. \A v \in Own(w, K)' : v.row.no = 0
  <2>1. \A v \in Own(w, K) : v.row.no > 0 => Hit(v)
    BY <1>2 DEF RemembersAll, Hit, R
  <2> QED
    BY <1>5, <1>6, <2>1
<1>9. Own(w, K)' # {} <=> Own(w, K) # {}
  <2>1. Own(w, K) # {} => \E v \in Own(w, K) : v.row.no = 0
    BY <1>1, RootFirst
  <2> QED
    BY <1>5, <1>7, <2>1
<1>10. \A c \in Kept(K)' : c.row.no = 0 => (c.del = w <=> Own(w, K)' # {})
  BY <1>2, <1>5, <1>7, <1>9 DEF Settled
<1>11. \/ \A c \in Kept(K)' : c.row.no > 0 => c.del = w
       \/ Own(w, K)' = {} /\ \A c \in Kept(K)' : c.row.no > 0 => c.del # w
  <2>1. CASE Own(w, K) # {}
    BY <1>2, <1>5, <2>1 DEF Settled
  <2>2. CASE Own(w, K) = {} /\ \A b \in Kept(K) : ~Hit(b)
    BY <1>2, <1>5, <1>9, <2>2 DEF Settled
  <2>3. CASE Own(w, K) = {} /\ \E b \in Kept(K) : Hit(b)
    <3>1. PICK b \in Kept(K), t \in R : b.row = t.row /\ b.doc = t.doc
      BY <2>3 DEF Hit
    <3>2. /\ {u.row.no : u \in R} = 1..Items(MessageOf(t)) /\ \A u \in R : u.doc = t.doc
          /\ {y.row.no : y \in Kept(K)} = 0..Items(MessageOf(b))
          /\ \A y \in Kept(K) : y.doc = b.doc
          /\ MessageOf(b) = MessageOf(t) /\ MessageOf(b) \in Messages
      BY <1>2, <2>3, <3>1 DEF RemembersAll, KeptInv, Whole, MessageOf, R, Kept
    <3>3. Items(MessageOf(b)) \in Nat
      BY <3>2, ProcessorAssumption DEF Items
    <3>4. ASSUME NEW y \in Kept(K), y.row.no > 0 PROVE Hit(y)
      <4>1. y.row.no \in 0..Items(MessageOf(t)) /\ y.row.no > 0
        BY <3>2, <3>4
      <4>2. y.row.no \in 1..Items(MessageOf(t))
        BY <3>2, <3>3, <4>1
      <4>3. PICK u \in R : u.row.no = y.row.no
        BY <3>2, <4>2
      <4>4. u.row = y.row
        BY <1>6, <4>3, RowKnown
      <4> QED
        BY <3>1, <3>2, <4>4 DEF Hit
    <3> QED
      BY <1>5, <3>4
  <2> QED
    BY <2>1, <2>2, <2>3
<1> QED
  BY <1>8, <1>10, <1>11 DEF Cleared

(* The root row of an upsert replaces those there were; the committed      *)
(* children are all taken, or all left to the first INSERT of a child.     *)
LEMMA RootUpserted ==
  ASSUME TypeInv, EveryArrayHasItems, StoreInv, KeptInv, ShapeInv, WorkInv,
         NEW w \in Workers, Executes(w), stmts[w][1].op = "upsert",
         NEW K \in Keys, K = CurrentKey(w), NEW doc, doc = stmts[w][1].doc
  PROVE  Written(w, K, doc, 0)'
<1> DEFINE st == stmts[w][1]
           n == Items(Current(w))
<1>1. /\ pc[w] = "dml" /\ txn[w] = "open" /\ Stage(w, K)
      /\ Len(stmts[w]) = n + 1 /\ Upsert /\ n \in Nat /\ st.row = RowOf(Current(w), 0)
  <2>1. /\ Len(stmts[w]) = n + 1 /\ Upsert /\ n \in Nat
        /\ st.row = RowOf(Current(w), n + 1 - Len(stmts[w]))
    BY FirstLine, StageNumbers DEF Executes
  <2>2. n + 1 - Len(stmts[w]) = 0
    BY <2>1
  <2> QED
    BY <2>1, <2>2 DEF Executes, WorkInv, Works
<1>2. Cleared(w, K)
  BY <1>1 DEF Stage
<1>3. st.row \in Rows /\ st.row.no = 0 /\ KeyOf(st.row) = K
  BY <1>1, StageNumbers, CurrentItems
<1>4. \A v \in versions : KeyOf(v.row) = K /\ v.row.no = 0 => v.row = st.row
  BY <1>3, VersionTyped, RowKnown
<1>5. \A v \in Own(w, K) : v \in Takes(w, st)
  BY <1>2, <1>4, PostgresAssumption
     DEF Cleared, Own, Takes, Existing, Visible, StoreInv, RunInv, Workers
<1>6. \A b \in Kept(K) : IF b.row.no = 0 THEN b.del = w \/ b \in Takes(w, st)
                                          ELSE b \notin Takes(w, st)
  BY <1>3, <1>4 DEF Kept, Takes, Existing, Visible
<1>7. /\ \A v : v \in Own(w, K)' <=> v = NewVersion(w, st)
      /\ \A c \in Kept(K)' : \E b \in Kept(K) :
           c.row = b.row /\ (c.del = w <=> b.del = w \/ b \in Takes(w, st))
  BY <1>3, <1>5, WrittenHere DEF Taken
<1>8. NewVersion(w, st).row.no = 0 /\ NewVersion(w, st).doc = st.doc
  BY <1>3 DEF NewVersion
<1>9. {v.row.no : v \in Own(w, K)'} = 0..0 /\ \A v \in Own(w, K)' : v.doc = st.doc
  <2>1. Own(w, K)' = {NewVersion(w, st)}
    BY <1>7
  <2>2. 0..0 = {0}
    OBVIOUS
  <2> QED
    BY <1>8, <2>1, <2>2
<1>10. \A c \in Kept(K)' : c.row.no = 0 => c.del = w
  BY <1>6, <1>7
<1>11. \/ \A c \in Kept(K)' : c.row.no > 0 => c.del = w
       \/ \A c \in Kept(K)' : c.row.no > 0 => c.del # w
  <2>1. \A c \in Kept(K)' : c.row.no > 0 =>
          \E b \in Kept(K) : b.row.no > 0 /\ (c.del = w <=> b.del = w)
    <3>1. \A b \in Kept(K) : b.row.no > 0 => b.row.no # 0
      BY VersionTyped DEF Kept
    <3> QED
      BY <1>6, <1>7, <3>1
  <2> QED
    BY <1>2, <2>1 DEF Cleared
<1> QED
  BY <1>1, <1>9, <1>10, <1>11 DEF Written

(* The root row of an insert is the first row under its key.               *)
LEMMA RootInserted ==
  ASSUME TypeInv, EveryArrayHasItems, StoreInv, KeptInv, ShapeInv, WorkInv,
         NEW w \in Workers, Executes(w), stmts[w][1].op = "insert",
         Len(stmts[w]) = Items(Current(w)) + 1,
         NEW K \in Keys, K = CurrentKey(w), NEW doc, doc = stmts[w][1].doc
  PROVE  Written(w, K, doc, 0)'
<1> DEFINE st == stmts[w][1]
           n == Items(Current(w))
<1>1. /\ pc[w] = "dml" /\ txn[w] = "open" /\ Stage(w, K)
      /\ ~Upsert /\ n \in Nat /\ st.row = RowOf(Current(w), 0) /\ Existing(w, st.row) = {}
  <2>1. /\ ~Upsert /\ n \in Nat /\ st.row = RowOf(Current(w), n + 1 - Len(stmts[w]))
    BY FirstLine, StageNumbers DEF Executes
  <2>2. n + 1 - Len(stmts[w]) = 0
    BY <2>1
  <2> QED
    BY <2>1, <2>2 DEF Executes, WorkInv, Works, Writes
<1>2. Settled(w, K)
  BY <1>1 DEF Stage
<1>3. st.row \in Rows /\ st.row.no = 0 /\ KeyOf(st.row) = K
  BY <1>1, StageNumbers, CurrentItems
<1>4. \A v \in versions : KeyOf(v.row) = K /\ v.row.no = 0 => v.row = st.row
  BY <1>3, VersionTyped, RowKnown
<1>5. ASSUME NEW S, Whole(S), S # {}, \A v \in S : MessageOf(v) \in Messages
      PROVE  \E v \in S : v.row.no = 0
  <2>1. PICK v \in S : {y.row.no : y \in S} = 0..Items(MessageOf(v))
    BY <1>5 DEF Whole
  <2>2. Items(MessageOf(v)) \in Nat
    BY <1>5, ProcessorAssumption DEF Items
  <2>3. 0 \in {y.row.no : y \in S}
    BY <2>1, <2>2
  <2> QED
    BY <2>3
<1>6. Own(w, K) = {}
  <2> SUFFICES ASSUME Own(w, K) # {} PROVE FALSE
    OBVIOUS
  <2>1. PICK v \in Own(w, K) : v.row.no = 0
    BY <1>2, <1>5 DEF Settled, KeptInv, Own
  <2>2. v \in Existing(w, st.row)
    BY <1>4, <2>1, PostgresAssumption DEF Own, Existing, Visible, StoreInv, RunInv, Workers
  <2> QED
    BY <1>1, <2>2
<1>7. Kept(K) = {}
  <2> SUFFICES ASSUME Kept(K) # {} PROVE FALSE
    OBVIOUS
  <2>1. PICK v \in Kept(K) : v.row.no = 0
    BY <1>5 DEF KeptInv, Kept
  <2>2. v \in Existing(w, st.row)
    BY <1>2, <1>4, <1>6, <2>1 DEF Kept, Existing, Visible, Settled
  <2> QED
    BY <1>1, <2>2
<1>8. Own(w, K)' = {NewVersion(w, st)} /\ Kept(K)' = {}
  BY <1>3, <1>6, <1>7, WrittenHere
<1>9. NewVersion(w, st).row.no = 0 /\ NewVersion(w, st).doc = doc
  BY <1>3 DEF NewVersion
<1>10. {v.row.no : v \in Own(w, K)'} = 0..0
  <2>1. 0..0 = {0}
    OBVIOUS
  <2> QED
    BY <1>8, <1>9, <2>1
<1> QED
  BY <1>8, <1>9, <1>10 DEF Written

(* A child is written where w has taken the committed child of its number, *)
(* hence, the first one at the latest, all the committed children.         *)
LEMMA ChildInserted ==
  ASSUME TypeInv, EveryArrayHasItems, StoreInv, KeptInv, ShapeInv, WorkInv,
         NEW w \in Workers, Executes(w), Len(stmts[w]) <= Items(Current(w)),
         NEW K \in Keys, K = CurrentKey(w), NEW doc, doc = stmts[w][1].doc,
         NEW no \in Nat, no = Items(Current(w)) + 1 - Len(stmts[w])
  PROVE  Written(w, K, doc, no)'
<1> DEFINE st == stmts[w][1]
           n == Items(Current(w))
<1>1. /\ pc[w] = "dml" /\ txn[w] = "open" /\ Stage(w, K) /\ n \in Nat /\ Len(stmts[w]) \in Nat
      /\ st.op = "insert" /\ st.row = RowOf(Current(w), no)
  <2>1. n \in Nat /\ Len(stmts[w]) \in Nat /\ pc[w] = "dml"
    BY StageNumbers DEF Executes
  <2>2. Len(stmts[w]) # n + 1 /\ Len(stmts[w]) # n + 2
    BY <2>1
  <2>3. st.op = "insert" /\ st.row = RowOf(Current(w), no)
    BY <2>1, <2>2, FirstLine
  <2> QED
    BY <2>1, <2>3 DEF Executes, WorkInv, Works
<1>2. Written(w, K, doc, no - 1) /\ no >= 1 /\ n - Len(stmts[w]) = no - 1
  BY <1>1 DEF Stage
<1>3. Existing(w, st.row) = {}
  BY <1>1 DEF Executes, Writes
<1>4. st.row \in Rows /\ st.row.no = no /\ KeyOf(st.row) = K
  BY <1>1, StageNumbers, CurrentItems
<1>5. /\ \A v : v \in Own(w, K)' <=> v \in Own(w, K) \/ v = NewVersion(w, st)
      /\ \A c \in Kept(K)' : \E b \in Kept(K) : c.row = b.row /\ (c.del = w <=> b.del = w)
  <2>1. Takes(w, st) = {}
    BY <1>1 DEF Takes
  <2> QED
    BY <1>1, <1>4, <2>1, WrittenHere DEF Taken
<1>6. NewVersion(w, st).row.no = no /\ NewVersion(w, st).doc = doc
  BY <1>4 DEF NewVersion
<1>7. {v.row.no : v \in Own(w, K)'} = 0..no
  <2>1. {v.row.no : v \in Own(w, K)'} = {v.row.no : v \in Own(w, K)} \cup {no}
    BY <1>5, <1>6
  <2>2. 0..no = (0..(no - 1)) \cup {no}
    BY <1>2
  <2> QED
    BY <1>2, <2>1, <2>2 DEF Written
<1>8. \A c \in Kept(K) : c.row.no > 0 => c.del = w
  <2>1. CASE \A c \in Kept(K) : c.row.no > 0 => c.del = w
    BY <2>1
  <2>2. CASE Upsert /\ no - 1 = 0 /\ \A c \in Kept(K) : c.row.no > 0 => c.del # w
    <3> SUFFICES ASSUME NEW c \in Kept(K) PROVE FALSE
      OBVIOUS
    <3>1. MessageOf(c) \in Messages
      BY DEF KeptInv, Kept
    <3>2. Items(MessageOf(c)) \in Nat /\ Items(MessageOf(c)) >= 1
      BY <2>2, <3>1, ProcessorAssumption DEF EveryArrayHasItems, Items
    <3>3. 1 \in {y.row.no : y \in Kept(K)}
      BY <3>2 DEF KeptInv, Whole
    <3>4. PICK b \in Kept(K) : b.row.no = 1
      BY <3>3
    <3>5. b.row = st.row
      BY <1>2, <1>4, <2>2, <3>4, VersionTyped, RowKnown DEF Kept
    <3>6. b \in Existing(w, st.row)
      BY <2>2, <3>4, <3>5 DEF Kept, Existing, Visible
    <3> QED
      BY <1>3, <3>6
  <2> QED
    BY <1>2, <2>1, <2>2 DEF Written
<1>9. /\ \A v \in Own(w, K)' : v.doc = doc
      /\ \A c \in Kept(K)' : c.row.no = 0 => c.del = w
      /\ \A c \in Kept(K)' : c.row.no > 0 => c.del = w
  BY <1>2, <1>5, <1>6, <1>8 DEF Written
<1> QED
  BY <1>7, <1>9 DEF Written

(* With all its rows written, the document is whole and replaces the other.*)
LEMMA AllWritten ==
  ASSUME TypeInv', NEW w \in Workers, NEW K, NEW doc, NEW n \in Nat,
         n = Items(Msg(doc[1], doc[2])), Upsert => n >= 1, Written(w, K, doc, n)'
  PROVE  Settled(w, K)'
<1>1. /\ {v.row.no : v \in Own(w, K)'} = 0..n
      /\ \A v \in Own(w, K)' : v.doc = doc
      /\ \A c \in Kept(K)' : c.row.no = 0 => c.del = w
      /\ \A c \in Kept(K)' : c.row.no > 0 => c.del = w
  BY DEF Written
<1>2. \A c \in Kept(K)' : c.row.no \in Nat
  BY DEF Kept, TypeInv, TypeOK, RowVersions, Rows
<1>3. \A c \in Kept(K)' : c.del = w
  BY <1>1, <1>2
<1>4. Own(w, K)' # {}
  <2>1. 0 \in 0..n
    OBVIOUS
  <2> QED
    BY <1>1, <2>1
<1>5. \A v \in Own(w, K)' : Items(Msg(v.doc[1], v.doc[2])) = n
  BY <1>1
<1>6. Whole(Own(w, K))'
  BY <1>1, <1>5 DEF Whole, MessageOf, Msg
<1> QED
  BY <1>3, <1>4, <1>6 DEF Settled

(* A statement takes the work on the current key a stage further.          *)
LEMMA WorksExecute ==
  ASSUME TypeInv, TypeInv', EveryArrayHasItems, StoreInv, KeptInv, ShapeInv, WorkInv,
         NEW w \in Workers, Executes(w)
  PROVE  Works(w)'
<1> DEFINE n == Items(Current(w))
           last == Len(stmts[w])
<1>1. /\ pc[w] = "dml" /\ txn[w] = "open" /\ stmts'[w] = Tail(stmts[w])
      /\ stmts[w] \in Seq(DmlLines) \ {<<>>} /\ More(w)
      /\ n \in Nat /\ last \in Nat /\ last >= 1 /\ (Upsert => n >= 1)
      /\ last <= n + 2 /\ Lined(Current(w), stmts[w])
  BY StageNumbers, CurrentItems DEF Executes, ShapeInv, Shape, Lined
<1>2. /\ Len(stmts'[w]) = last - 1
      /\ last > 1 <=> pc'[w] = "dml"
      /\ last > 1 => stmts'[w][1] = stmts[w][2] /\ Current(w)' = Current(w)
                     /\ CurrentKey(w)' = CurrentKey(w)
  <2>1. /\ Len(Tail(stmts[w])) = last - 1
        /\ last > 1 => Tail(stmts[w])[1] = stmts[w][2] /\ Tail(stmts[w]) # <<>>
        /\ ~(last > 1) => Tail(stmts[w]) = <<>>
    <3>1. /\ Len(Tail(stmts[w])) = last - 1 /\ Tail(stmts[w]) \in Seq(DmlLines)
          /\ \A k \in 1..Len(Tail(stmts[w])) : Tail(stmts[w])[k] = stmts[w][k + 1]
      BY <1>1, TailLines
    <3> HIDE DEF last
    <3>2. last > 1 => 1 \in 1..Len(Tail(stmts[w])) /\ 1 + 1 = 2
      BY <1>1, <3>1
    <3>3. \A t \in Seq(DmlLines) : t = <<>> <=> Len(t) = 0
      OBVIOUS
    <3>4. last > 1 <=> Len(Tail(stmts[w])) # 0
      <4>1. last \in Nat /\ Len(Tail(stmts[w])) = last - 1
        BY <1>1, <3>1
      <4>2. \A k \in Nat : k > 1 <=> k - 1 # 0 /\ k # 0
        OBVIOUS
      <4>3. last # 0
        BY <1>1
      <4> QED
        BY <4>1, <4>2, <4>3
    <3> QED
      BY <3>1, <3>2, <3>3, <3>4
  <2> QED
    BY <1>1, <2>1 DEF Executes, CurrentKey, Current, Msg
<1> SUFFICES ASSUME NEW K \in Keys
             PROVE  IF pc'[w] = "dml" /\ K = CurrentKey(w) THEN Stage(w, K)' ELSE Settled(w, K)'
  BY <1>2 DEF Works
<1>3. CASE K # CurrentKey(w)
  BY <1>3, WorksElsewhere
<1>4. CASE K = CurrentKey(w)
  <2> DEFINE st == stmts[w][1]
  <2>1. \/ last = n + 2 /\ Upsert /\ st.op = "deleting"
        \/ last = n + 1 /\ Upsert /\ st.op = "upsert"
        \/ last = n + 1 /\ ~Upsert /\ st.op = "insert"
        \/ last <= n /\ st.op = "insert"
    <3>1. Writes(w, st)
      BY DEF Executes
    <3>2. st.op # "delete"
      BY <3>1 DEF Writes
    <3>3. \/ last = n + 2 /\ Upsert /\ st.op \in {"delete", "deleting"}
          \/ /\ last <= n + 1
             /\ st.op = IF Upsert /\ last = n + 1 THEN "upsert" ELSE "insert"
      BY <1>1, FirstLine
    <3> QED
      BY <1>1, <3>2, <3>3
  <2>2. CASE last = n + 2
    <3>1. Cleared(w, K)' /\ Upsert
      BY <1>1, <1>4, <2>1, <2>2, DeleteClears
    <3>2. last > 1 /\ Len(stmts[w])' = Items(Current(w))' + 1 /\ Items(Current(w))' \in Nat
      BY <1>1, <1>2, <2>2
    <3>3. Stage(w, K)'
      BY <3>1, <3>2 DEF Stage
    <3> QED
      BY <1>2, <1>4, <3>2, <3>3
  <2>3. CASE last <= n + 1
    <3>1. PICK doc : doc = st.doc
      OBVIOUS
    <3>2. PICK no \in Nat : no = n + 1 - last
      BY <1>1, <2>3
    <3>3. Written(w, K, doc, no)'
      <4>1. CASE last = n + 1
        BY <1>1, <1>4, <2>1, <3>1, <3>2, <4>1, RootUpserted, RootInserted
      <4>2. CASE last <= n
        BY <1>4, <3>1, <3>2, <4>2, ChildInserted
      <4> QED
        BY <1>1, <2>3, <4>1, <4>2
    <3>4. CASE last > 1
      <4>1. stmts'[w][1].doc = doc
        <5>1. 2 \in 1..last /\ last < n + 2 /\ 1 \in 1..last
          BY <1>1, <2>3, <3>4
        <5>2. stmts[w][2].doc = stmts[w][last].doc /\ st.doc = stmts[w][last].doc
          BY <1>1, <5>1 DEF Lined
        <5> QED
          BY <1>2, <3>1, <3>4, <5>2
      <4>2. Items(Current(w))' - Len(stmts[w])' = no /\ Len(stmts[w])' <= Items(Current(w))'
        BY <1>1, <1>2, <2>3, <3>2, <3>4
      <4>3. Stage(w, K)'
        BY <1>1, <1>2, <2>3, <3>2, <3>3, <3>4, <4>1, <4>2 DEF Stage
      <4> QED
        BY <1>2, <1>4, <3>4, <4>3
    <3>5. CASE last = 1
      <4>1. st.op \in {"insert", "upsert"} /\ no = n
        BY <1>1, <2>1, <2>3, <3>2, <3>5
      <4>2. Msg(doc[1], doc[2]) = Current(w)
        BY <1>1, <3>1, <4>1, NewMessage DEF MessageOf, NewVersion
      <4>3. Settled(w, K)'
        BY <1>1, <3>3, <4>1, <4>2, AllWritten
      <4>4. pc'[w] # "dml"
        BY <1>2, <3>5
      <4> QED
        BY <4>3, <4>4
    <3>6. last > 1 \/ last = 1
      <4>1. last \in Nat /\ last >= 1
        BY <1>1
      <4> HIDE DEF last
      <4> QED
        BY <4>1
    <3> QED
      BY <3>4, <3>5, <3>6
  <2>4. last = n + 2 \/ last <= n + 1
    BY <1>1
  <2> QED
    BY <2>2, <2>3, <2>4
<1> QED
  BY <1>3, <1>4

(* Every step of a worker keeps its own work in order.                     *)
LEMMA WorksStep ==
  ASSUME TypeInv, TypeInv', EveryArrayHasItems, StoreInv, KeptInv, ShapeInv, WorkInv,
         NEW w \in Workers, Kind(w)
  PROVE  Works(w)'
<1>1. CASE Commits(w) \/ RollsBack(w)
  <2>1. txn'[w] = "none"
    BY <1>1 DEF Commits, RollsBack, EndByCommit, EndByRollback, TypeInv, TypeOK
  <2> QED
    BY <2>1 DEF Works
<1> QED
  BY <1>1, WorksControl, WorksRender, WorksRemember, WorksExecute DEF Kind

-----------------------------------------------------------------------------
(* The invariant holds.                                                    *)

(* Every step of a worker keeps the invariant.                             *)
LEMMA DocumentKind ==
  ASSUME TypeInv, TypeInv', EveryArrayHasItems, StoreInv, DocumentInv,
         NEW w \in Workers, Kind(w)
  PROVE  DocumentInv'
<1>1. KeptInv' /\ ShapeInv'
  BY KeptStep, ShapeStep DEF DocumentInv
<1>2. \A x \in Workers : Works(x)'
  BY WorksStep, WorksOther DEF DocumentInv
<1> QED
  BY <1>1, <1>2 DEF DocumentInv, WorkInv

(* A delivery of a stored batch, and a stutter, do nothing to it.          *)
LEMMA DocumentQuiet ==
  ASSUME DocumentInv, UNCHANGED <<versions, txn, pc, batch, next, stmts>>
  PROVE  DocumentInv'
<1>1. \A K : Kept(K)' = Kept(K) /\ \A w : Own(w, K)' = Own(w, K)
  BY DEF Kept, Own
<1>2. \A w : /\ Remembered(w)' = Remembered(w) /\ Current(w)' = Current(w)
             /\ CurrentKey(w)' = CurrentKey(w)
  BY DEF Remembered, CurrentKey, Current, Msg
<1>3. KeptInv'
  BY <1>1 DEF DocumentInv, KeptInv, Whole, MessageOf, Msg
<1>4. ShapeInv'
  BY <1>2 DEF DocumentInv, ShapeInv, Shape
<1>5. ASSUME NEW w, NEW K
      PROVE  /\ Settled(w, K) => Settled(w, K)'
             /\ Stage(w, K) => Stage(w, K)'
  <2>1. Settled(w, K)' <=> Settled(w, K)
    BY <1>1 DEF Settled, Whole, MessageOf, Msg
  <2>2. RemembersAll(w, K)' <=> RemembersAll(w, K)
    BY <1>1, <1>2 DEF RemembersAll, MessageOf, Msg
  <2>3. Cleared(w, K)' <=> Cleared(w, K)
    BY <1>1 DEF Cleared
  <2>4. \A doc, no : Written(w, K, doc, no)' <=> Written(w, K, doc, no)
    BY <1>1 DEF Written
  <2> QED
    BY <1>2, <2>1, <2>2, <2>3, <2>4 DEF Stage
<1>6. WorkInv'
  BY <1>2, <1>5 DEF DocumentInv, WorkInv, Works
<1> QED
  BY <1>3, <1>4, <1>6 DEF DocumentInv

(* Every step keeps the invariant.                                         *)
LEMMA DocumentStep ==
  ASSUME EveryArrayHasItems, TypeInv, TypeInv', StoreInv, DocumentInv, [Next]_vars
  PROVE  DocumentInv'
<1>1. ASSUME NEW b \in Batches, Redelivers(b) PROVE DocumentInv'
  BY <1>1, DocumentQuiet DEF Redelivers, store, locals
<1>2. ASSUME UNCHANGED vars PROVE DocumentInv'
  BY <1>2, DocumentQuiet DEF vars, store, locals
<1> QED
  BY <1>1, <1>2, DocumentKind, StepKind

(* Nothing is stored, and nobody works, to begin with.                     *)
LEMMA DocumentBegins == Init => DocumentInv
<1> SUFFICES ASSUME Init PROVE DocumentInv
  OBVIOUS
<1>1. /\ versions = {} /\ \A w \in Workers : pc[w] = "idle" /\ txn[w] = "none"
  BY DEF Init, StoreInit, Workers
<1>2. KeptInv
  BY <1>1 DEF KeptInv, Kept, Whole
<1> QED
  BY <1>1, <1>2 DEF DocumentInv, ShapeInv, Shape, WorkInv, Works

(* The invariant of what is stored under a key.                            *)
LEMMA DocumentAlways ==
  ASSUME EveryArrayHasItems
  PROVE  Spec => [](TypeInv /\ StoreInv /\ DocumentInv)
<1>1. Init => DocumentInv
  BY DocumentBegins
<1>2. TypeInv /\ TypeInv' /\ StoreInv /\ DocumentInv /\ [Next]_vars => DocumentInv'
  BY DocumentStep
<1>3. Spec => [](TypeInv /\ StoreInv)
  BY StoreAlways
<1> QED
  BY <1>1, <1>2, <1>3, PTL DEF Spec

(* What is stored under a key is one document: its root row and exactly    *)
(* the child rows of the same delivery, however upserts and inserts of     *)
(* several workers wait, fail and are repeated (processor.go:185-189,      *)
(* spec.go:128-130).                                                       *)
THEOREM WholeDocuments == ASSUME EveryArrayHasItems PROVE Spec => []WholeDocument
<1>1. TypeInv /\ DocumentInv => WholeDocument
  <2> SUFFICES ASSUME TypeInv, DocumentInv, NEW x \in Stored
               PROVE  \E r \in RowsOf(x) :
                        /\ r.row.no = 0
                        /\ {y.row.no : y \in RowsOf(x)} = 0..Items(Msg(r.doc[1], r.doc[2]))
                        /\ \A y \in RowsOf(x) : y.doc = r.doc
    BY DEF WholeDocument
  <2> DEFINE Seen(v) == [row |-> v.row, doc |-> v.doc]
             K == KeyOf(x.row)
  <2>1. PICK c \in versions : c.by = Committed /\ x = Seen(c)
    BY DEF Stored
  <2>2. c \in Kept(K) /\ K \in Keys /\ MessageOf(c) \in Messages
    BY <2>1, VersionTyped DEF Kept, DocumentInv, KeptInv
  <2>3. RowsOf(x) = {Seen(v) : v \in Kept(K)}
    BY DEF RowsOf, Stored, Kept, KeyOf
  <2>4. /\ {v.row.no : v \in Kept(K)} = 0..Items(MessageOf(c))
        /\ \A v \in Kept(K) : v.doc = c.doc
    BY <2>2 DEF DocumentInv, KeptInv, Whole
  <2>5. Items(MessageOf(c)) \in Nat
    BY <2>2, ProcessorAssumption DEF Items
  <2>6. PICK r \in Kept(K) : r.row.no = 0
    <3>1. 0 \in {v.row.no : v \in Kept(K)}
      BY <2>4, <2>5
    <3> QED
      BY <3>1
  <2>7. {y.row.no : y \in RowsOf(x)} = {v.row.no : v \in Kept(K)}
    <3>1. \A y \in RowsOf(x) : \E v \in Kept(K) : y.row.no = v.row.no
      BY <2>3
    <3>2. \A v \in Kept(K) : Seen(v) \in RowsOf(x) /\ Seen(v).row.no = v.row.no
      BY <2>3
    <3> HIDE DEF Seen, K
    <3>3. \A v \in Kept(K) : \E y \in RowsOf(x) : y.row.no = v.row.no
      BY <3>2
    <3> QED
      BY <3>1, <3>3
  <2>8. \A y \in RowsOf(x) : y.doc = c.doc
    BY <2>3, <2>4
  <2>9. Seen(r) \in RowsOf(x) /\ Seen(r).row.no = 0 /\ Seen(r).doc = c.doc
    BY <2>3, <2>4, <2>6
  <2> QED
    BY <2>4, <2>7, <2>8, <2>9 DEF MessageOf
<1> QED
  BY <1>1, DocumentAlways, PTL

-----------------------------------------------------------------------------
(***************************************************************************)
(* The refinement: BatchProcessor implements AtomicBatches.                *)
(***************************************************************************)
-----------------------------------------------------------------------------
(* What the invariant needs besides.                                       *)

(* Of the messages behind it, w has rejected those that do not fit, and    *)
(* the one it stores fits.                                                 *)
Judged(w) ==
  pc[w] # "idle" =>
    /\ rejected[w] = {i \in 1..(next[w] - 1) : ~Fits(Msg(batch[w], i))}
    /\ rejected[w] # {} => PerMessage
    /\ pc[w] \in {"ensure", "ddl", "render"} => Current(w).fate # "unplannable"
    /\ pc[w] = "dml" => Fits(Current(w))

JudgeInv == \A w \in Workers : Judged(w)

(* A row is under the key of the message it is said to be of.              *)
KeyInv == \A v \in versions : KeyOf(v.row) = KeyFor(MessageOf(v))

(* The insert processor replaces nothing: every root row it has inserted   *)
(* is there.                                                               *)
Inserts(w) ==
  ~Upsert /\ txn[w] = "open" => \A i \in (1..(next[w] - 1)) \ rejected[w] : Has(w, i, 0)

InsertsInv == \A w \in Workers : Inserts(w)

PromiseInv ==
  /\ TypeInv /\ StoreInv /\ DocumentInv /\ InsertInv
  /\ JudgeInv /\ KeyInv /\ InsertsInv

-----------------------------------------------------------------------------
(* The invariant is kept: which messages are rejected.                     *)

(* w stays with its message.                                               *)
LEMMA JudgedHere ==
  ASSUME NEW w \in Workers, Judged(w), pc[w] # "idle",
         batch'[w] = batch[w], next'[w] = next[w], rejected'[w] = rejected[w],
         pc'[w] \in {"ensure", "ddl", "render"} => Current(w).fate # "unplannable",
         pc'[w] = "dml" => Fits(Current(w))
  PROVE  Judged(w)'
BY DEF Judged, Current, Msg, Fits

(* w goes on to the next message.                                          *)
LEMMA JudgedNext ==
  ASSUME TypeInv, NEW w \in Workers, Judged(w), pc[w] # "idle", pc'[w] = "message",
         batch'[w] = batch[w], next'[w] = next[w] + 1,
         IF Fits(Current(w)) THEN rejected'[w] = rejected[w]
                             ELSE PerMessage /\ rejected'[w] = rejected[w] \cup {next[w]}
  PROVE  Judged(w)'
<1>1. next[w] \in Nat /\ 1 <= next[w]
  BY DEF TypeInv, TypeOK, InHand
<1>2. \A i : i \in 1..(next'[w] - 1) <=> i \in 1..(next[w] - 1) \/ i = next[w]
  BY <1>1
<1>3. rejected'[w] = {i \in 1..(next'[w] - 1) : ~Fits(Msg(batch[w], i))}
  BY <1>2 DEF Judged, Current
<1>4. rejected'[w] # {} => PerMessage
  BY DEF Judged
<1> QED
  BY <1>3, <1>4 DEF Judged, Msg, Fits

(* A permanent error is one of a message that does not fit.                *)
LEMMA JudgedError ==
  ASSUME TypeInv, NEW w \in Workers, Judged(w), pc[w] # "idle", PermanentError(w),
         ~Fits(Current(w))
  PROVE  Judged(w)'
<1>1. CASE PerMessage
  BY <1>1, JudgedNext DEF PermanentError, Goto, TypeInv, TypeOK
<1>2. CASE ~PerMessage
  BY <1>2, JudgedHere DEF PermanentError, Goto, TypeInv, TypeOK
<1> QED
  BY <1>1, <1>2

(* A step of w judges its messages rightly.                                *)
LEMMA JudgedStep ==
  ASSUME TypeInv, NEW w \in Workers, Judged(w), Step(w) \/ LoadFails(w) \/ ReadFails(w)
  PROVE  Judged(w)'
<1>1. CASE RecoverableError(w) /\ pc[w] # "idle"
  BY <1>1, JudgedHere DEF RecoverableError, Goto, locals, TypeInv, TypeOK
<1>2. CASE Plan(w)
  <2>1. CASE Current(w).fate = "unplannable"
    BY <1>2, <2>1, JudgedError DEF Plan, Fits
  <2>2. CASE Current(w).fate # "unplannable"
    BY <1>2, <2>2, JudgedHere DEF Plan, Goto, locals, TypeInv, TypeOK
  <2> QED
    BY <2>1, <2>2
<1>3. CASE LoadFails(w) \/ ReadFails(w)
  BY <1>3, JudgedHere DEF LoadFails, ReadFails, Goto, locals, TypeInv, TypeOK
<1>4. CASE Ensure(w) /\ ~RecoverableError(w)
  <2>1. /\ pc[w] = "ensure" /\ pc'[w] \in {"ddl", "render"}
        /\ UNCHANGED <<batch, next, rejected>>
    BY <1>4 DEF Ensure, Goto, locals, TypeInv, TypeOK
  <2> QED
    BY <2>1, JudgedHere DEF Judged
<1>5. CASE ExecDdl(w) /\ ~RecoverableError(w)
  <2>1. /\ pc[w] = "ddl" /\ pc'[w] \in {"ddl", "render"}
        /\ UNCHANGED <<batch, next, rejected>>
    BY <1>5 DEF ExecDdl, NextDdl, Goto, TypeInv, TypeOK
  <2> QED
    BY <2>1, JudgedHere DEF Judged
<1>6. CASE Render(w)
  <2>1. CASE Current(w).fate = "misfit"
    BY <1>6, <2>1, JudgedError DEF Render, Fits
  <2>2. CASE Current(w).fate # "misfit"
    <3>1. /\ pc[w] = "render" /\ pc'[w] = "dml"
          /\ UNCHANGED <<batch, next, rejected>>
      BY <1>6, <2>2 DEF Render, Goto, TypeInv, TypeOK
    <3> QED
      BY <2>2, <3>1, JudgedHere DEF Judged, Fits
  <2> QED
    BY <2>1, <2>2
<1>7. CASE ExecDml(w) /\ ~RecoverableError(w)
  <2>1. /\ pc[w] = "dml" /\ UNCHANGED <<batch, rejected>>
        /\ \/ pc'[w] = "dml" /\ next'[w] = next[w]
           \/ pc'[w] = "message" /\ next'[w] = next[w] + 1
    BY <1>7 DEF ExecDml, NextDml, Goto, TypeInv, TypeOK
  <2>2. Fits(Current(w))
    BY <2>1 DEF Judged
  <2> QED
    BY <2>1, <2>2, JudgedHere, JudgedNext
<1>8. CASE DeadlockVictim(w)
  BY <1>1, <1>8 DEF DeadlockVictim
<1>9. CASE Commit(w) \/ Rollback(w)
  BY <1>9 DEF Commit, Rollback, ReturnError, Goto, Judged, TypeInv, TypeOK
<1> QED
  BY <1>1, <1>2, <1>3, <1>4, <1>5, <1>6, <1>7, <1>8, <1>9 DEF Step, Ensure, ExecDdl, ExecDml

(* Only its own steps concern the messages of a worker.                    *)
LEMMA JudgeKept ==
  ASSUME TypeInv, JudgeInv, [Next]_vars
  PROVE  JudgeInv'
<1> SUFFICES ASSUME NEW w \in Workers PROVE Judged(w)'
  BY DEF JudgeInv
<1>1. Judged(w)
  BY DEF JudgeInv
<1>2. ASSUME pc'[w] = pc[w], batch'[w] = batch[w], next'[w] = next[w],
             rejected'[w] = rejected[w]
      PROVE  Judged(w)'
  BY <1>1, <1>2 DEF Judged, Current, Msg, Fits
<1>3. ASSUME NEW x \in Workers \ {w}, Kind(x) PROVE Judged(w)'
  BY <1>2, <1>3, KindAlone DEF Alone, OnlyMoves
<1>4. ASSUME NEW x \in Workers, NEW b \in Batches, Begin(x, b) PROVE Judged(w)'
  <2>1. Begins(x, b)
    BY <1>4, BeginKind
  <2>2. CASE x = w
    BY <2>1, <2>2 DEF Begins, Judged
  <2> QED
    BY <1>3, <2>1, <2>2 DEF Kind
<1>5. ASSUME NEW x \in Workers, Step(x) \/ LoadFails(x) \/ ReadFails(x) PROVE Judged(w)'
  <2>1. Kind(x)
    BY <1>5, ControlKind, DdlKind, DmlKind, EndKind DEF Step, Kind
  <2> QED
    BY <1>1, <1>3, <1>5, <2>1, JudgedStep
<1>6. ASSUME NEW x \in Workers, CommitFails(x) \/ CommitUnknown(x) \/ Crash(x)
      PROVE  Judged(w)'
  <2>1. Commits(x) \/ RollsBack(x)
    BY <1>6, EndKind
  <2>2. CASE x = w
    BY <2>1, <2>2 DEF Commits, RollsBack, Judged
  <2> QED
    BY <1>3, <2>1, <2>2 DEF Kind
<1>7. ASSUME NEW b \in Batches, Redeliver(b) PROVE Judged(w)'
  BY <1>2, <1>7 DEF Redeliver, locals
<1>8. ASSUME UNCHANGED vars PROVE Judged(w)'
  BY <1>2, <1>8 DEF vars, locals
<1> QED
  BY <1>4, <1>5, <1>6, <1>7, <1>8 DEF Next
-----------------------------------------------------------------------------
(* The invariant is kept: the rows and their messages.                     *)

(* No step gives a row to another message, and a new row is of the message *)
(* that is being stored.                                                   *)
LEMMA KeyKept ==
  ASSUME TypeInv, StoreInv, KeyInv, [Next]_vars
  PROVE  KeyInv'
<1>1. ASSUME NEW v, KeyOf(v.row) = KeyFor(MessageOf(v))
      PROVE  (KeyOf(v.row) = KeyFor(MessageOf(v)))'
  BY <1>1 DEF KeyFor, KeyOf, RowOf, MessageOf, Msg
<1>2. CASE UNCHANGED versions
  BY <1>1, <1>2 DEF KeyInv
<1>3. ASSUME NEW w \in Workers, Kind(w), NEW v \in versions'
      PROVE  KeyOf(v.row) = KeyFor(MessageOf(v))
  <2>1. \/ \E u \in versions : u.row = v.row /\ u.doc = v.doc
        \/ /\ Executes(w) /\ v = NewVersion(w, stmts[w][1])
           /\ stmts[w][1].op \in {"insert", "upsert"}
    BY <1>3, VersionStep DEF StoreInv, CommittedIn
  <2>2. ASSUME NEW u \in versions, u.row = v.row, u.doc = v.doc
        PROVE  KeyOf(v.row) = KeyFor(MessageOf(v))
    BY <2>2 DEF KeyInv, MessageOf
  <2>3. CASE /\ Executes(w) /\ v = NewVersion(w, stmts[w][1])
             /\ stmts[w][1].op \in {"insert", "upsert"}
    <3>1. MessageOf(v) = Current(w) /\ KeyOf(v.row) = CurrentKey(w)
      BY <2>3, NewMessage DEF Executes, NewVersion
    <3> QED
      BY <3>1 DEF CurrentKey, KeyFor
  <2> QED
    BY <2>1, <2>2, <2>3
<1>4. CASE \E w \in Workers : Kind(w)
  BY <1>1, <1>3, <1>4 DEF KeyInv
<1>5. (\E b \in Batches : Redelivers(b)) \/ UNCHANGED vars => UNCHANGED versions
  BY DEF Redelivers, vars, store
<1> QED
  BY <1>2, <1>4, <1>5, StepKind

(* The insert processor keeps the root rows it has inserted.               *)
LEMMA InsertsKept ==
  ASSUME TypeInv, TypeInv', StoreInv, StoreInv', InsertInv, InsertsInv, [Next]_vars
  PROVE  InsertsInv'
<1> SUFFICES ASSUME NEW w \in Workers, ~Upsert, txn'[w] = "open",
                    NEW i \in (1..(next'[w] - 1)) \ rejected'[w]
             PROVE  Has(w, i, 0)'
  BY DEF InsertsInv, Inserts
<1>1. next[w] \in Nat /\ 1 <= next[w]
  BY NextNotRejected DEF StoreInv
<1>2. txn[w] = "open" => \A j \in (1..(next[w] - 1)) \ rejected[w] : Has(w, j, 0)
  BY DEF InsertsInv, Inserts
<1>3. ASSUME txn[w] = "open", batch'[w] = batch[w], i \in (1..(next[w] - 1)) \ rejected[w],
             \A v \in versions : v.by = w => v \in versions'
      PROVE  Has(w, i, 0)'
  BY <1>2, <1>3 DEF Has
<1>4. ASSUME NEW x \in Workers \ {w}, Kind(x) PROVE Has(w, i, 0)'
  <2>1. /\ batch'[w] = batch[w] /\ next'[w] = next[w] /\ rejected'[w] = rejected[w]
        /\ txn'[w] = txn[w]
    BY <1>4, KindAlone DEF Alone, OnlyMoves
  <2>2. \A v \in versions : v.by = w => v \in versions'
    BY <1>4, VersionStep DEF StoreInv
  <2> QED
    BY <1>3, <2>1, <2>2
<1>5. CASE \E b \in Batches : Begins(w, b)
  BY <1>5 DEF Begins
<1>6. CASE GoesOn(w) \/ Renders(w) \/ Remembers(w)
  BY <1>3, <1>6 DEF GoesOn, Renders, Remembers
<1>7. CASE Rejects(w)
  <2>1. /\ next'[w] = next[w] + 1 /\ rejected'[w] = rejected[w] \cup {next[w]}
        /\ UNCHANGED <<versions, txn, batch>>
    BY <1>7 DEF Rejects
  <2>2. i \in 1..(next'[w] - 1) /\ i \notin rejected[w] /\ i # next[w]
    BY <2>1
  <2>3. i \in 1..(next[w] - 1)
    BY <1>1, <2>1, <2>2
  <2> QED
    BY <1>3, <2>1, <2>2, <2>3
<1>8. CASE Executes(w)
  <2>1. /\ pc[w] = "dml" /\ UNCHANGED <<txn, batch, rejected>> /\ Writes(w, stmts[w][1])
        /\ IF Tail(stmts[w]) = <<>> THEN next'[w] = next[w] + 1 /\ pc'[w] = "message"
                                    ELSE next'[w] = next[w] /\ pc'[w] = "dml"
        /\ txn[w] = "open"
    BY <1>8 DEF Executes
  <2>2. stmts[w][1].op = "insert"
    BY <2>1 DEF InsertInv, OnlyInserts, TypeInv, InHand
  <2>3. \A v \in versions : v.by = w => v \in versions'
    BY <2>1, <2>2, WrittenRows DEF StoreInv
  <2>4. CASE i \in 1..(next[w] - 1)
    BY <1>3, <2>1, <2>3, <2>4
  <2>5. CASE i \notin 1..(next[w] - 1)
    <3>1. i = next[w] /\ next'[w] = next[w] + 1 /\ pc'[w] = "message"
      BY <1>1, <2>1, <2>5
    <3>2. Begun(w)' = (1..next[w]) \ rejected[w]
      BY <1>1, <2>1, <3>1 DEF Begun
    <3>3. i \in Begun(w)' /\ \A j \in Begun(w)' : ~(j > i)
      <4>1. next[w] \in 1..next[w] /\ next[w] \notin rejected'[w]
        BY <1>1, <3>1
      <4>2. \A j \in 1..next[w] : ~(j > next[w])
        BY <1>1
      <4> QED
        BY <2>1, <3>1, <3>2, <4>1, <4>2
    <3>4. i \in Standing(w)'
      BY <3>3 DEF Standing
    <3>5. 0 \in 0..Items(Msg(batch'[w], i))
      <4>1. More(w) /\ Current(w) = Msg(batch[w], i)
        BY <2>1, <3>1 DEF TypeInv, InHand, Current
      <4>2. Msg(batch'[w], i) \in Messages
        BY <2>1, <4>1, CurrentMessage
      <4>3. Items(Msg(batch'[w], i)) \in Nat
        BY <4>2, ProcessorAssumption DEF Items
      <4> QED
        BY <4>3
    <3>6. Carries(w)'
      BY DEF StoreInv, RowInv
    <3> QED
      BY <3>1, <3>4, <3>5, <3>6 DEF Carries, Pending, Msg
  <2> QED
    BY <2>4, <2>5
<1>9. CASE Commits(w) \/ RollsBack(w)
  BY <1>9 DEF Commits, RollsBack, EndByCommit, EndByRollback, TypeInv, TypeOK
<1>10. CASE (\E b \in Batches : Redelivers(b)) \/ UNCHANGED vars
  BY <1>3, <1>10 DEF Redelivers, vars, store, locals
<1> QED
  BY <1>4, <1>5, <1>6, <1>7, <1>8, <1>9, <1>10, StepKind DEF Kind

(* Nothing is under way to begin with.                                     *)
LEMMA PromiseBegins == Init => JudgeInv /\ KeyInv /\ InsertsInv
<1> SUFFICES ASSUME Init PROVE JudgeInv /\ KeyInv /\ InsertsInv
  OBVIOUS
<1>1. /\ versions = {} /\ \A w \in Workers : pc[w] = "idle" /\ txn[w] = "none"
  BY DEF Init, StoreInit, Workers
<1> QED
  BY <1>1 DEF JudgeInv, Judged, KeyInv, InsertsInv, Inserts

(* The invariant of the refinement.                                        *)
LEMMA PromiseAlways == ASSUME EveryArrayHasItems PROVE Spec => []PromiseInv
<1>1. Init => InsertInv /\ JudgeInv /\ KeyInv /\ InsertsInv
  BY InsertInit, PromiseBegins
<1>2. TypeInv /\ InsertInv /\ [Next]_vars => InsertInv'
  BY InsertStep DEF InsertInv
<1>3. TypeInv /\ JudgeInv /\ [Next]_vars => JudgeInv'
  BY JudgeKept
<1>4. TypeInv /\ StoreInv /\ KeyInv /\ [Next]_vars => KeyInv'
  BY KeyKept
<1>5. TypeInv /\ TypeInv' /\ StoreInv /\ StoreInv' /\ InsertInv /\ InsertsInv /\ [Next]_vars
        => InsertsInv'
  BY InsertsKept
<1>6. Spec => [](TypeInv /\ StoreInv /\ DocumentInv)
  BY DocumentAlways
<1>7. PromiseInv <=> /\ TypeInv /\ StoreInv /\ DocumentInv
                     /\ InsertInv /\ JudgeInv /\ KeyInv /\ InsertsInv
  BY DEF PromiseInv
<1> QED
  BY <1>1, <1>2, <1>3, <1>4, <1>5, <1>6, <1>7, PTL DEF Spec

-----------------------------------------------------------------------------
(* What a COMMIT stores.                                                   *)

(* A nonempty set of numbers up to N has a greatest one.                   *)
LEMMA Greatest ==
  ASSUME NEW N \in Nat, NEW S \in SUBSET (1..N), S # {}
  PROVE  \E m \in S : \A j \in S : j <= m
<1> DEFINE R == {p \in Nat \X Nat : p[1] < p[2]}
           Far == {N - i : i \in S}
<1>1. IsWellFoundedOn(R, Nat)
  <2>1. R = OpToRel(<, Nat)
    BY DEF OpToRel
  <2> QED
    BY <2>1, NatLessThanWellFounded
<1>2. Far \in SUBSET Nat /\ Far # {}
  <2>1. \A i \in S : N - i \in Nat
    OBVIOUS
  <2> QED
    BY <2>1
<1>3. PICK f \in Far : \A g \in Far : ~(<<g, f>> \in R)
  BY <1>1, <1>2, WFMin
<1>4. PICK m \in S : f = N - m
  BY <1>3
<1>5. ASSUME NEW j \in S PROVE j <= m
  <2>1. N - j \in Far /\ N - j \in Nat /\ f \in Nat
    BY <1>2, <1>3
  <2>2. ~(N - j < f)
    <3>1. <<N - j, f>> \in Nat \X Nat /\ <<N - j, f>>[1] = N - j /\ <<N - j, f>>[2] = f
      BY <2>1
    <3> QED
      BY <1>3, <2>1, <3>1
  <2> QED
    BY <1>4, <2>2
<1> QED
  BY <1>5

(* After the last message, those begun are those that fit.                 *)
LEMMA FittingBegun ==
  ASSUME PromiseInv, NEW w \in Workers, Commits(w)
  PROVE  /\ Begun(w) = Promise!Fitting(batch[w])
         /\ Standing(w) = Promise!Final(batch[w])
         /\ PerMessage \/ Promise!Fitting(batch[w]) = 1..Len(Content[batch[w]])
         /\ Begun(w) = (1..(next[w] - 1)) \ rejected[w]
<1> DEFINE b == batch[w]
<1>1. /\ pc[w] = "message" /\ ~More(w) /\ Judged(w)
      /\ next[w] \in Nat /\ Len(Content[b]) \in Nat /\ next[w] <= Len(Content[b]) + 1
  BY ProcessorAssumption
     DEF Commits, PromiseInv, JudgeInv, TypeInv, TypeOK, StoreInv, RunInv
<1>2. next[w] - 1 = Len(Content[b])
  BY <1>1 DEF More
<1>3. rejected[w] = {i \in 1..Len(Content[b]) : ~Fits(Content[b][i])}
  BY <1>1, <1>2 DEF Judged, Msg
<1>4. Promise!Fitting(b) = {i \in 1..Len(Content[b]) : Fits(Content[b][i])}
  BY DEF Promise!Fitting
<1>5. Begun(w) = (1..Len(Content[b])) \ rejected[w]
  BY <1>1, <1>2 DEF Begun
<1>6. Begun(w) = Promise!Fitting(b)
  BY <1>3, <1>4, <1>5
<1>7. \A i, j : Promise!KeyAt(b, i) = Promise!KeyAt(b, j) <=> SameKey(b, i, j)
  BY DEF Promise!KeyAt, KeyFor, KeyOf, RowOf, SameKey, Msg
<1>8. Standing(w) = Promise!Final(b)
  BY <1>6, <1>7 DEF Standing, Promise!Final
<1>9. PerMessage \/ Promise!Fitting(b) = 1..Len(Content[b])
  BY <1>1, <1>5, <1>6 DEF Judged
<1> QED
  BY <1>2, <1>5, <1>6, <1>8, <1>9

(* Of the messages of one key that fit, one is final.                      *)
LEMMA FinalOfKey ==
  ASSUME NEW b \in Batches, NEW i \in Promise!Fitting(b)
  PROVE  \E m \in Promise!Final(b) : Promise!KeyAt(b, m) = Promise!KeyAt(b, i)
<1> DEFINE S == {j \in Promise!Fitting(b) : Promise!KeyAt(b, j) = Promise!KeyAt(b, i)}
<1>1. Len(Content[b]) \in Nat /\ Promise!Fitting(b) \subseteq 1..Len(Content[b])
  BY ProcessorAssumption DEF Promise!Fitting
<1>2. S \in SUBSET (1..Len(Content[b])) /\ S # {}
  BY <1>1
<1>3. PICK m \in S : \A j \in S : j <= m
  BY <1>1, <1>2, Greatest
<1>4. \A j \in Promise!Fitting(b) : j > m => Promise!KeyAt(b, m) # Promise!KeyAt(b, j)
  <2> SUFFICES ASSUME NEW j \in Promise!Fitting(b), j > m,
                      Promise!KeyAt(b, m) = Promise!KeyAt(b, j)
               PROVE  FALSE
    OBVIOUS
  <2>1. j \in S /\ j <= m
    BY <1>3
  <2> QED
    BY <1>1, <1>3, <2>1
<1> QED
  BY <1>3, <1>4 DEF Promise!Final

(* Under the key of a final message w has written its rows, all of them,   *)
(* and no other.                                                           *)
LEMMA FinalWritten ==
  ASSUME PromiseInv, NEW w \in Workers, Commits(w), NEW i \in Promise!Final(batch[w]),
         NEW K, K = Promise!KeyAt(batch[w], i)
  PROVE  /\ K \in Keys /\ Own(w, K) # {}
         /\ \A v \in Own(w, K) : v.doc[1] = batch[w] /\ v.doc[2] = i
         /\ {v.row.no : v \in Own(w, K)} = 0..Items(Msg(batch[w], i))
         /\ \A no \in 0..Items(Msg(batch[w], i)) :
              \E v \in Own(w, K) : v.row = RowOf(Msg(batch[w], i), no)
<1> DEFINE b == batch[w]
           m == Msg(b, i)
<1>1. /\ pc[w] = "message" /\ txn[w] = "open" /\ i \in Standing(w) /\ b \in Batches
      /\ TypeInv /\ StoreInv /\ DocumentInv
  BY FittingBegun DEF Commits, PromiseInv, TypeInv, TypeOK
<1>2. K = KeyFor(m) /\ \A no : KeyOf(RowOf(m, no)) = K
  BY DEF Promise!KeyAt, KeyFor, KeyOf, RowOf, Msg
<1>3. m \in Messages /\ Items(m) \in Nat
  <2>1. i \in 1..Len(Content[b])
    BY DEF Promise!Final, Promise!Fitting
  <2>2. m \in Messages
    BY <1>1, <2>1 DEF Messages, Msg
  <2> QED
    BY <2>2, ProcessorAssumption DEF Items
<1>4. \A no \in 0..Items(m) : Has(w, i, no)
  BY <1>1 DEF StoreInv, RowInv, Carries, Pending
<1>5. \A no \in 0..Items(m) : \E v \in Own(w, K) : v.row = RowOf(m, no) /\ v.doc[2] = i
  BY <1>2, <1>4 DEF Has, Own
<1>6. PICK u \in Own(w, K) : u.doc[2] = i
  BY <1>3, <1>5
<1>7. \A v \in Own(w, K) : v \in versions /\ v.by = w /\ KeyOf(v.row) = K
  BY DEF Own
<1>8. K \in Keys
  BY <1>1, <1>6, <1>7, VersionTyped
<1>9. Whole(Own(w, K))
  BY <1>1, <1>8, KeptCommit DEF DocumentInv
<1>10. \A v \in Own(w, K) : v.doc[1] = b
  BY <1>1, <1>7 DEF StoreInv, RunInv
<1>11. \A v \in Own(w, K) : v.doc = u.doc
  BY <1>6, <1>9 DEF Whole
<1>12. {v.row.no : v \in Own(w, K)} = 0..Items(MessageOf(u)) /\ MessageOf(u) = m
  BY <1>6, <1>9, <1>10 DEF Whole, MessageOf
<1> QED
  BY <1>3, <1>5, <1>6, <1>8, <1>10, <1>11, <1>12

(* Whatever w has written is under the key of a final message.             *)
LEMMA WrittenFinal ==
  ASSUME PromiseInv, NEW w \in Workers, Commits(w), NEW K, NEW v \in Own(w, K)
  PROVE  \E i \in Promise!Final(batch[w]) : Promise!KeyAt(batch[w], i) = K
<1>1. /\ txn[w] = "open" /\ batch[w] \in Batches
      /\ TypeInv /\ StoreInv /\ KeyInv
  BY DEF Commits, PromiseInv, TypeInv, TypeOK
<1>2. v \in versions /\ v.by = w /\ KeyOf(v.row) = K
  BY DEF Own
<1>3. v.doc[1] = batch[w] /\ v.doc[2] \in Begun(w)
  BY <1>1, <1>2, PostgresAssumption DEF StoreInv, RunInv, RowInv, Carries
<1>4. v.doc[2] \in Promise!Fitting(batch[w])
  BY <1>3, FittingBegun
<1>5. Promise!KeyAt(batch[w], v.doc[2]) = K
  BY <1>1, <1>2, <1>3 DEF KeyInv, Promise!KeyAt, MessageOf, Msg
<1> QED
  BY <1>1, <1>4, <1>5, FinalOfKey

(* What a reader sees of a version.                                        *)
Shown(v) == [row |-> v.row, batch |-> v.doc[1], place |-> v.doc[2]]

(* It is seen without the number of its delivery.                          *)
LEMMA ShownOf ==
  ASSUME NEW V
  PROVE  {[row |-> x.row, batch |-> x.doc[1], place |-> x.doc[2]] :
            x \in {[row |-> v.row, doc |-> v.doc] : v \in V}}
           = {Shown(v) : v \in V}
<1> DEFINE Seen(v) == [row |-> v.row, doc |-> v.doc]
           Told(x) == [row |-> x.row, batch |-> x.doc[1], place |-> x.doc[2]]
<1>1. \A v \in V : Told(Seen(v)) = Shown(v)
  BY DEF Shown
<1> HIDE DEF Seen, Told
<1>2. {Told(x) : x \in {Seen(v) : v \in V}} = {Shown(v) : v \in V}
  BY <1>1
<1> QED
  BY <1>2 DEF Seen, Told

(* The rows everybody sees are those of the committed versions.            *)
LEMMA ShownStored ==
  /\ StoredMessages = {Shown(v) : v \in {x \in versions : x.by = Committed}}
  /\ StoredMessages' = {Shown(v) : v \in {x \in versions' : x.by = Committed}}
<1>1. StoredMessages = {Shown(v) : v \in {x \in versions : x.by = Committed}}
  BY ShownOf DEF StoredMessages, Stored
<1>2. StoredMessages' = {Shown(v) : v \in {x \in versions' : x.by = Committed}}
  BY ShownOf DEF StoredMessages, Stored
<1> QED
  BY <1>1, <1>2

(* The COMMIT of w stores the rows of the final messages, and leaves what  *)
(* is under other keys.                                                    *)
LEMMA CommitReplaces ==
  ASSUME PromiseInv, TypeInv', NEW w \in Workers, Commits(w)
  PROVE  StoredMessages' =
           Promise!Elsewhere(batch[w])
             \cup UNION {Promise!RowsAt(batch[w], i) : i \in Promise!Final(batch[w])}
<1> DEFINE b == batch[w]
           Kept1 == Promise!Elsewhere(b)
           New == UNION {Promise!RowsAt(b, i) : i \in Promise!Final(b)}
<1>1. TypeInv /\ StoreInv /\ WorkInv
  BY DEF PromiseInv, DocumentInv
<1>2. ASSUME NEW i, NEW no
      PROVE  KeyOf(RowOf(Msg(b, i), no)) = Promise!KeyAt(b, i) /\ RowOf(Msg(b, i), no).no = no
  BY DEF Promise!KeyAt, KeyFor, KeyOf, RowOf, Msg
<1>3. ASSUME NEW i \in Promise!Final(b)
      PROVE  /\ i \in Promise!Fitting(b)
             /\ Promise!RowsAt(b, i) =
                  {[row |-> RowOf(Msg(b, i), no), batch |-> b, place |-> i] :
                     no \in 0..Items(Msg(b, i))}
  BY DEF Promise!Final, Promise!RowsAt, RowsFor, Msg
<1>4. \A x \in StoredMessages : \E v \in versions : v.by = Committed /\ x = Shown(v)
  BY ShownStored
<1>5. \A x \in StoredMessages' : \E v \in versions' : v.by = Committed /\ x = Shown(v)
  BY ShownStored
<1>6. \A v \in versions' : v.by = Committed => Shown(v) \in StoredMessages'
  BY ShownStored
<1>7. ASSUME NEW x \in StoredMessages' PROVE x \in Kept1 \cup New
  <2>1. PICK v \in versions' : v.by = Committed /\ x = Shown(v)
    BY <1>5
  <2> DEFINE K == KeyOf(v.row)
  <2>2. K \in Keys /\ v \in Kept(K)'
    BY <2>1, VersionTyped DEF Kept, TypeInv, TypeOK, RowVersions, Rows, KeyOf, Keys
  <2>3. CASE Own(w, K) = {}
    <3>1. v \in Kept(K)
      BY <1>1, <2>2, <2>3, KeptCommit
    <3>2. x \in StoredMessages /\ x.row = v.row
      BY <2>1, <3>1, ShownStored DEF Kept, Shown
    <3>3. \A i \in Promise!Fitting(b) : Promise!KeyAt(b, i) # K
      <4> SUFFICES ASSUME NEW i \in Promise!Fitting(b), Promise!KeyAt(b, i) = K PROVE FALSE
        OBVIOUS
      <4>1. PICK m \in Promise!Final(b) : Promise!KeyAt(b, m) = K
        BY <1>1, FinalOfKey DEF TypeInv, TypeOK
      <4> QED
        BY <2>3, <4>1, FinalWritten
    <3> QED
      BY <3>2, <3>3 DEF Promise!Elsewhere
  <2>4. CASE Own(w, K) # {}
    <3>1. PICK u \in Own(w, K) : v.row = u.row /\ v.doc = u.doc
      BY <1>1, <2>2, <2>4, KeptCommit
    <3>2. PICK i \in Promise!Final(b) : Promise!KeyAt(b, i) = K
      BY <3>1, WrittenFinal
    <3>3. /\ u.doc[1] = b /\ u.doc[2] = i /\ u.row.no \in 0..Items(Msg(b, i))
          /\ \E y \in Own(w, K) : y.row = RowOf(Msg(b, i), u.row.no)
      <4>1. /\ \A y \in Own(w, K) : y.doc[1] = b /\ y.doc[2] = i
            /\ {y.row.no : y \in Own(w, K)} = 0..Items(Msg(b, i))
            /\ \A no \in 0..Items(Msg(b, i)) :
                 \E y \in Own(w, K) : y.row = RowOf(Msg(b, i), no)
        BY <3>2, FinalWritten
      <4>2. u.row.no \in {y.row.no : y \in Own(w, K)}
        BY <3>1
      <4> QED
        BY <3>1, <4>1, <4>2
    <3>4. u.row = RowOf(Msg(b, i), u.row.no)
      <4>1. PICK y \in Own(w, K) : y.row = RowOf(Msg(b, i), u.row.no)
        BY <3>3
      <4>2. u \in versions /\ y \in versions /\ KeyOf(u.row) = KeyOf(y.row)
        BY DEF Own
      <4>3. y.row.no = u.row.no
        BY <1>2, <4>1
      <4> QED
        BY <1>1, <4>1, <4>2, <4>3, RowKnown, VersionTyped
    <3>5. x \in Promise!RowsAt(b, i)
      BY <1>3, <2>1, <3>1, <3>3, <3>4 DEF Shown
    <3> QED
      BY <3>5
  <2> QED
    BY <2>3, <2>4
<1>8. ASSUME NEW x \in Kept1 PROVE x \in StoredMessages'
  <2>1. x \in StoredMessages /\ \A i \in Promise!Fitting(b) : KeyOf(x.row) # Promise!KeyAt(b, i)
    BY DEF Promise!Elsewhere
  <2>2. PICK v \in versions : v.by = Committed /\ x = Shown(v)
    BY <1>4, <2>1
  <2> DEFINE K == KeyOf(v.row)
  <2>3. K \in Keys /\ v \in Kept(K) /\ x.row = v.row
    BY <1>1, <2>2, VersionTyped DEF Kept, Shown
  <2>4. Own(w, K) = {}
    <3> SUFFICES ASSUME NEW u \in Own(w, K) PROVE FALSE
      OBVIOUS
    <3>1. PICK i \in Promise!Final(b) : Promise!KeyAt(b, i) = K
      BY WrittenFinal
    <3> QED
      BY <1>3, <2>1, <2>3, <3>1
  <2>5. v \in versions' /\ v.by = Committed
    BY <1>1, <2>3, <2>4, KeptCommit DEF Kept
  <2> QED
    BY <1>6, <2>2, <2>5
<1>9. ASSUME NEW i \in Promise!Final(b), NEW x \in Promise!RowsAt(b, i)
      PROVE  x \in StoredMessages'
  <2>1. PICK no \in 0..Items(Msg(b, i)) :
          x = [row |-> RowOf(Msg(b, i), no), batch |-> b, place |-> i]
    BY <1>3
  <2>2. PICK K : K = Promise!KeyAt(b, i)
    OBVIOUS
  <2>3. PICK v \in Own(w, K) : v.row = RowOf(Msg(b, i), no)
    BY <2>2, FinalWritten
  <2>4. K \in Keys /\ v.doc[1] = b /\ v.doc[2] = i
    BY <2>2, <2>3, FinalWritten
  <2>5. PICK c \in Kept(K)' : c.row = v.row /\ c.doc = v.doc
    BY <1>1, <2>3, <2>4, KeptCommit
  <2>6. c \in versions' /\ c.by = Committed /\ Shown(c) = x
    BY <2>1, <2>3, <2>4, <2>5 DEF Kept, Shown
  <2> QED
    BY <1>6, <2>6
<1> HIDE DEF Kept1
<1>10. New \subseteq StoredMessages'
  BY <1>9
<1> HIDE DEF New
<1>11. StoredMessages' = Kept1 \cup New
  BY <1>7, <1>8, <1>10
<1> QED
  BY <1>11 DEF Kept1, New

(* The insert processor finds the keys of its messages free, in the store  *)
(* and in the batch.                                                       *)
LEMMA InsertsFree ==
  ASSUME PromiseInv, ~Upsert, NEW w \in Workers, Commits(w)
  PROVE  /\ Promise!Elsewhere(batch[w]) = StoredMessages
         /\ Promise!Final(batch[w]) = Promise!Fitting(batch[w])
<1> DEFINE b == batch[w]
<1>1. /\ TypeInv /\ StoreInv /\ KeptInv /\ WorkInv /\ txn[w] = "open" /\ b \in Batches
      /\ \A v \in versions : v.del = Nobody
      /\ w # Nobody
  BY PostgresAssumption
     DEF PromiseInv, DocumentInv, InsertInv, Commits, Workers, TypeInv, TypeOK
<1>2. ASSUME NEW i \in Promise!Fitting(b), NEW x \in StoredMessages,
             KeyOf(x.row) = Promise!KeyAt(b, i)
      PROVE  FALSE
  <2>1. PICK m \in Promise!Final(b) : Promise!KeyAt(b, m) = Promise!KeyAt(b, i)
    BY <1>1, FinalOfKey
  <2> DEFINE K == Promise!KeyAt(b, m)
  <2>2. K \in Keys /\ Own(w, K) # {}
    BY FinalWritten
  <2>3. PICK v \in versions : v.by = Committed /\ x = Shown(v)
    BY ShownStored
  <2>4. v \in Kept(K)
    BY <1>2, <2>1, <2>3 DEF Kept, Shown
  <2>5. v.del = w
    BY <1>1, <2>2, <2>4, KeptCommit
  <2> QED
    BY <1>1, <2>3, <2>5
<1>3. ASSUME NEW i \in Promise!Fitting(b), NEW j \in Promise!Fitting(b), i # j,
             Promise!KeyAt(b, i) = Promise!KeyAt(b, j)
      PROVE  FALSE
  <2>1. Has(w, i, 0) /\ Has(w, j, 0)
    BY <1>1, FittingBegun DEF PromiseInv, InsertsInv, Inserts
  <2>2. PICK u \in versions : u.by = w /\ u.row = RowOf(Msg(b, i), 0) /\ u.doc[2] = i
    BY <2>1 DEF Has
  <2>3. PICK v \in versions : v.by = w /\ v.row = RowOf(Msg(b, j), 0) /\ v.doc[2] = j
    BY <2>1 DEF Has
  <2>4. u.row = v.row
    BY <1>3, <2>2, <2>3 DEF Promise!KeyAt, KeyFor, KeyOf, RowOf, Msg
  <2> QED
    BY <1>1, <1>3, <2>2, <2>3, <2>4 DEF KeptInv
<1>4. Promise!Elsewhere(b) = StoredMessages
  BY <1>2 DEF Promise!Elsewhere
<1>5. Promise!Final(b) = Promise!Fitting(b)
  <2>1. \A i \in Promise!Fitting(b) : i \in Nat
    BY DEF Promise!Fitting
  <2> QED
    BY <1>3, <2>1 DEF Promise!Final
<1> QED
  BY <1>4, <1>5

-----------------------------------------------------------------------------
(* The refinement.                                                         *)

(* A COMMIT that takes effect stores a batch.                              *)
LEMMA CommitPromised ==
  ASSUME PromiseInv, TypeInv', NEW w \in Workers, Commits(w)
  PROVE  Promise!StoreBatch(batch[w])
<1>1. status[batch[w]] = "running"
  BY DEF Commits, PromiseInv, StoreInv, RunInv
<1>2. PerMessage \/ Promise!Fitting(batch[w]) = 1..Len(Content[batch[w]])
  BY FittingBegun
<1>3. \/ Upsert
      \/ /\ Promise!Elsewhere(batch[w]) = StoredMessages
         /\ Promise!Final(batch[w]) = Promise!Fitting(batch[w])
  BY InsertsFree
<1>4. StoredMessages' =
        Promise!Elsewhere(batch[w])
          \cup UNION {Promise!RowsAt(batch[w], i) : i \in Promise!Final(batch[w])}
  BY CommitReplaces
<1>5. Promise!Becomes(batch[w], "done") \/ Promise!Becomes(batch[w], "waiting")
  BY DEF Commits, Promise!Becomes
<1> QED
  BY <1>1, <1>2, <1>3, <1>4, <1>5 DEF Promise!StoreBatch

(* What is seen of the store is a function of what is stored.              *)
LEMMA SeenStays == ASSUME Stored' = Stored PROVE StoredMessages' = StoredMessages
BY DEF StoredMessages

(* A step of a worker is a step of the promise, or none.                   *)
LEMMA KindPromised ==
  ASSUME PromiseInv, TypeInv', NEW w \in Workers, Kind(w)
  PROVE  [Promise!Next]_(Promise!vars)
<1>1. TypeInv /\ StoreInv /\ batch[w] \in Batches
  BY DEF PromiseInv, TypeInv, TypeOK
<1>2. CASE Commits(w)
  BY <1>1, <1>2, CommitPromised DEF Promise!Next
<1>3. CASE ~Commits(w)
  <2>1. StoredMessages' = StoredMessages
    BY <1>1, <1>3, StoredStays, SeenStays
  <2>2. ASSUME NEW b \in Batches, Begins(w, b) PROVE Promise!Take(b)
    BY <2>1, <2>2 DEF Begins, Promise!Take, Promise!Becomes
  <2>3. CASE RollsBack(w)
    <3>1. Promise!Fail(batch[w])
      BY <1>1, <2>1, <2>3 DEF RollsBack, StoreInv, RunInv, Promise!Fail, Promise!Becomes
    <3> QED
      BY <1>1, <3>1 DEF Promise!Next
  <2>4. CASE GoesOn(w) \/ Rejects(w) \/ Renders(w) \/ Remembers(w) \/ Executes(w)
    BY <2>1, <2>4 DEF GoesOn, Rejects, Renders, Remembers, Executes, Promise!vars
  <2> QED
    BY <1>3, <2>2, <2>3, <2>4 DEF Kind, Promise!Next
<1> QED
  BY <1>2, <1>3

(* However the statements of several workers interleave, wait, fail and    *)
(* are repeated, a reader sees a batch stored in one step or not at all:   *)
(* its messages' rows under their keys, nothing else changed, and under    *)
(* the insert processor only where the keys were free                      *)
(* (processor.go:85-132, 179-189, spec.go:126-131).                        *)
THEOREM BatchesAreStored == ASSUME EveryArrayHasItems PROVE Spec => ImplementsAtomicBatches
<1>1. Init => Promise!Init
  BY DEF Init, StoreInit, Promise!Init, StoredMessages, Stored
<1>2. ASSUME PromiseInv, TypeInv', [Next]_vars PROVE [Promise!Next]_(Promise!vars)
  <2>1. CASE \E w \in Workers : Kind(w)
    BY <1>2, <2>1, KindPromised
  <2>2. ASSUME NEW b \in Batches, Redelivers(b) PROVE Promise!Repeat(b)
    <3>1. StoredMessages' = StoredMessages
      BY <2>2 DEF Redelivers, store, StoredMessages, Stored
    <3> QED
      BY <2>2, <3>1 DEF Redelivers, Promise!Repeat, Promise!Becomes
  <2>3. CASE UNCHANGED vars
    <3>1. StoredMessages' = StoredMessages
      BY <2>3 DEF vars, store, StoredMessages, Stored
    <3> QED
      BY <2>3, <3>1 DEF vars, Promise!vars
  <2>4. TypeInv
    BY <1>2 DEF PromiseInv
  <2> QED
    BY <1>2, <2>1, <2>2, <2>3, <2>4, StepKind DEF Promise!Next
<1>3. PromiseInv => TypeInv
  BY DEF PromiseInv
<1>4. Spec => []PromiseInv
  BY PromiseAlways
<1>5. PromiseInv /\ TypeInv' /\ [Next]_vars => [Promise!Next]_(Promise!vars)
  BY <1>2
<1> QED
  BY <1>1, <1>3, <1>4, <1>5, PTL DEF Spec, ImplementsAtomicBatches, Promise!Spec
=============================================================================
