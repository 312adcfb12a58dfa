--------------------------- MODULE DocumentStore ----------------------------
(***************************************************************************)
(* What the normalized model promises its users: a store of documents.     *)
(* Each document has a key; inserting adds a document under a new key,     *)
(* replacing puts it there whatever was under the key before (the comments *)
(* of internal/normalized/dml.go:11-30 and pkg/processors/spec.go:126-131).*)
(*                                                                         *)
(* The content of the store is a set of cells: where a value is, and the   *)
(* value.  A cell knows the key of the document it belongs to.             *)
(***************************************************************************)

CONSTANTS
  Documents,    \* the documents of users
  Keys,         \* the values of their primary key
  KeyOf(_),     \* the key of a document
  CellsOf(_),   \* the cells of a document
  KeyIn(_)      \* the key a cell belongs to

(* Every document has content, and it is under its key.                    *)
DocumentAssumption ==
  \A d \in Documents :
    /\ KeyOf(d) \in Keys
    /\ CellsOf(d) # {}
    /\ \A c \in CellsOf(d) : KeyIn(c) = KeyOf(d)

VARIABLES
  cells,   \* what is stored
  last     \* the last request and its answer: a record [op, doc, ok]

vars == <<cells, last>>

Under(k) == {c \in cells : KeyIn(c) = k}

Init ==
  /\ cells = {}
  /\ last = [op |-> "none"]

(* A document is inserted if its key is free, and refused otherwise.       *)
Insert(d) ==
  LET free == Under(KeyOf(d)) = {}
  IN /\ cells' = IF free THEN cells \cup CellsOf(d) ELSE cells
     /\ last' = [op |-> "insert", doc |-> d, ok |-> free]

(* A document always replaces what is there.                               *)
Replace(d) ==
  /\ cells' = (cells \ Under(KeyOf(d))) \cup CellsOf(d)
  /\ last' = [op |-> "upsert", doc |-> d, ok |-> TRUE]

Next == \E d \in Documents : Insert(d) \/ Replace(d)

Spec == Init /\ [][Next]_vars

(* Nothing but whole documents: what is under a key, if anything, is       *)
(* exactly one document (dml.go:19-27: the rows of a document are replaced *)
(* together).                                                              *)
OneDocument ==
  \A k \in Keys :
    Under(k) = {} \/ \E d \in Documents : KeyOf(d) = k /\ Under(k) = CellsOf(d)

(* A document that was accepted is what a reader finds under its key.      *)
ReadYourWrite ==
  last.op # "none" => (last.ok => Under(KeyOf(last.doc)) = CellsOf(last.doc))
=============================================================================
