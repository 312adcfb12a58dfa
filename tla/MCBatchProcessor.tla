-------------------------- MODULE MCBatchProcessor --------------------------
(* BatchProcessor for TLC: the tables, messages and batches of its runs.   *)
EXTENDS BatchProcessor, TLC

CONSTANTS k1, k2, b1, b2, b3, b4

Lower == [t \in {"orders", "people"} |-> t]
Mixed == [t \in {"Orders"} |-> "orders"]

OrdersModel == {[table |-> "orders", cols |-> {"id"}]}

Message(t, k, n, f) ==
  [table |-> t, key |-> k, items |-> n, cols |-> {"id"}, fate |-> f]

Order(k, n) == Message("orders", k, n, "fits")

(* The same keys in opposite orders, arrays that shrink and grow, and one  *)
(* message that cannot be rendered.                                        *)
CrossedUpserts ==
  (b1 :> <<Message("orders", k1, 1, "misfit"), Order(k1, 1), Order(k2, 2)>>) @@
  (b2 :> <<Order(k2, 1), Order(k1, 2)>>)

(* Two tables to create and messages to reject; no two batches take their  *)
(* rows in opposite orders.                                                *)
RetriedUpserts ==
  (b1 :> <<Message("orders", k1, 1, "misfit"), Message("people", k1, 1, "fits")>>) @@
  (b2 :> <<Order(k1, 2), Message("people", k1, 2, "fits")>>) @@
  (b3 :> <<Message("orders", k1, 1, "unplannable"), Message("orders", k1, 1, "misfit")>>)

(* Two batches with the same keys in opposite orders, one whose last       *)
(* message has a column the table lacks, and one whose schema cannot be    *)
(* planned.                                                                *)
Inserts ==
  (b1 :> <<Order(k1, 1), Order(k2, 0)>>) @@
  (b2 :> <<Order(k2, 2), Order(k1, 0)>>) @@
  (b3 :> <<Order(k1, 0), [Order(k2, 0) EXCEPT !.cols = {"id", "email"}]>>) @@
  (b4 :> <<Message("orders", k2, 0, "unplannable")>>)

(* A document with children, and one whose array is empty.                 *)
EmptyingUpserts ==
  (b1 :> <<Order(k1, 1)>>) @@ (b2 :> <<Order(k1, 0)>>)

(* Two batches for a table whose name is not its SQL identifier.           *)
MixedNames ==
  (b1 :> <<Message("Orders", k1, 0, "fits")>>) @@
  (b2 :> <<Message("Orders", k2, 0, "fits")>>)
=============================================================================
