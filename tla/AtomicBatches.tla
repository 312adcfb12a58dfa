--------------------------- MODULE AtomicBatches ----------------------------
(***************************************************************************)
(* What the insert and upsert processors promise Bento: a batch is stored  *)
(* in one step or not at all, and whoever reads the database sees for each *)
(* key the rows of one message (the comments of pkg/processors/processor.go*)
(* :85-89, 179-189, spec.go:126-131 and db.go:21-26).                      *)
(***************************************************************************)
EXTENDS Naturals, Sequences

CONSTANTS
  Batches,      \* the batches to deliver
  Content,      \* Content[b]: the messages of b, in order
  Fits(_),      \* is it a message that can be stored?
  Key(_),       \* the key a message is stored under
  Rows(_),      \* the rows it is stored as
  KeyOf(_),     \* the key of a row
  Replacing,    \* a message replaces what is under its key, else it must be free
  Lenient       \* a message that does not fit is left out, else it fails its batch

VARIABLES
  stored,   \* the rows everybody sees: records [row, batch, place]
  status    \* Bento's view of each batch: "waiting", "running" or "done"

vars == <<stored, status>>

Init ==
  /\ stored = {}
  /\ status = [b \in Batches |-> "waiting"]

Becomes(b, s) == status' = [status EXCEPT ![b] = s]

Take(b) ==
  /\ status[b] = "waiting"
  /\ Becomes(b, "running")
  /\ UNCHANGED stored

Fail(b) ==
  /\ status[b] = "running"
  /\ Becomes(b, "waiting")
  /\ UNCHANGED stored

Fitting(b) == {i \in 1..Len(Content[b]) : Fits(Content[b][i])}

KeyAt(b, i) == Key(Content[b][i])

(* The messages that no later one of the batch replaces.                   *)
Final(b) == {i \in Fitting(b) : \A j \in Fitting(b) : j > i => KeyAt(b, i) # KeyAt(b, j)}

(* What is stored under keys the batch does not have.                      *)
Elsewhere(b) == {x \in stored : \A i \in Fitting(b) : KeyOf(x.row) # KeyAt(b, i)}

RowsAt(b, i) == {[row |-> r, batch |-> b, place |-> i] : r \in Rows(Content[b][i])}

(* The batch is stored.  Whether Bento learns of it is another matter.     *)
StoreBatch(b) ==
  /\ status[b] = "running"
  /\ Lenient \/ Fitting(b) = 1..Len(Content[b])
  /\ Replacing \/ (Elsewhere(b) = stored /\ Final(b) = Fitting(b))
  /\ stored' = Elsewhere(b) \cup UNION {RowsAt(b, i) : i \in Final(b)}
  /\ Becomes(b, "done") \/ Becomes(b, "waiting")

(* A batch that is stored is delivered again.                              *)
Repeat(b) ==
  /\ status[b] = "done"
  /\ Becomes(b, "waiting")
  /\ UNCHANGED stored

Next == \E b \in Batches : Take(b) \/ Fail(b) \/ StoreBatch(b) \/ Repeat(b)

Spec == Init /\ [][Next]_vars
=============================================================================
