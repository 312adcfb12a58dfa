----------------------------- MODULE Connection -----------------------------
(***************************************************************************)
(* The connection of a batch processor (pkg/processors/processor.go:       *)
(* ensureSink, the Begin of ProcessBatch, and Close; db.go).  Workers      *)
(* share one processor and call its ProcessBatch, each any number of       *)
(* times; Bento calls Close.                                               *)
(*                                                                         *)
(* A handle is a pool of connections, *sql.DB.  A transaction goes on when *)
(* the pool it was taken from is closed.                                   *)
(***************************************************************************)
EXTENDS Naturals, FiniteSets

CONSTANTS
  Workers,
  Closer,      \* who calls Close
  Handles,     \* bound: the pools that can be opened
  None,
  MaxFaults,   \* bound: Pings that fail
  MaxCloses    \* bound: calls of Close

ASSUME ConnectionAssumption ==
  /\ Closer \notin Workers /\ None \notin Workers \cup {Closer} \cup Handles
  /\ MaxFaults \in Nat /\ MaxCloses \in Nat

VARIABLES
  drained,   \* Close is called once, when no batch is left and none will come
  pool,      \* state of each handle: "unused", "open" or "closed"
  sink,      \* p.sink
  opened,    \* p.opened
  mu,        \* who holds p.mu
  pc,        \* where each worker is
  closing,   \* where Close is
  own,       \* the handle a worker has opened or has a transaction of
  refused,   \* the handles whose Ping failed
  faults, closes

shared == <<pool, sink, opened>>

vars == <<drained, shared, mu, pc, closing, own, refused, faults, closes>>

Init ==
  /\ drained \in BOOLEAN
  /\ pool = [h \in Handles |-> "unused"]
  /\ sink = None /\ opened = FALSE
  /\ mu = None
  /\ pc = [w \in Workers |-> "idle"]
  /\ closing = "idle"
  /\ own = [w \in Workers |-> None]
  /\ refused = {}
  /\ faults = 0 /\ closes = 0

Goto(w, label) == pc' = [pc EXCEPT ![w] = label]

(* Mutation: nobody waits for the mutex.                                   *)
LockFree(x) == mu' = x

Lock(x) == mu = None /\ mu' = x

Unlock == mu' = None

-----------------------------------------------------------------------------
(* ensureSink.                                                             *)

(* Bento has a batch for the worker.                                       *)
Call(w) ==
  /\ pc[w] = "idle"
  /\ drained => closing = "idle" /\ closes = 0
  /\ Goto(w, "ensure")
  /\ UNCHANGED <<drained, shared, mu, closing, own, refused, faults, closes>>

(* The connection is there, or it is to be opened.                         *)
EnsureSink(w) ==
  /\ pc[w] = "ensure"
  /\ Lock(w)
  /\ Goto(w, IF opened THEN "found" ELSE "open")
  /\ UNCHANGED <<drained, shared, closing, own, refused, faults, closes>>

Found(w) ==
  /\ pc[w] = "found"
  /\ Unlock
  /\ Goto(w, "begin")
  /\ UNCHANGED <<drained, shared, closing, own, refused, faults, closes>>

OpenPGSink(w) ==
  /\ pc[w] = "open"
  /\ \E h \in Handles :
       /\ pool[h] = "unused"
       /\ pool' = [pool EXCEPT ![h] = "open"]
       /\ own' = [own EXCEPT ![w] = h]
  /\ Goto(w, "ping")
  /\ UNCHANGED <<drained, sink, opened, mu, closing, refused, faults, closes>>

(* sql.Open refuses the DSN: there is no handle, and its error is returned.*)
OpenFails(w) ==
  /\ pc[w] = "open"
  /\ Unlock
  /\ Goto(w, "idle")
  /\ UNCHANGED <<drained, shared, closing, own, refused, faults, closes>>

PingSucceeds(w) ==
  /\ pc[w] = "ping"
  /\ sink' = own[w] /\ opened' = TRUE
  /\ own' = [own EXCEPT ![w] = None]
  /\ Unlock
  /\ Goto(w, "begin")
  /\ UNCHANGED <<drained, pool, closing, refused, faults, closes>>

(* Mutation: the mutex is not released on this path.                       *)
RefuseLocked(w) == refused' = refused \cup {own[w]} /\ UNCHANGED <<opened, mu>>

(* Mutation: opened is set before the Ping.                                *)
RefuseOpened(w) == refused' = refused \cup {own[w]} /\ opened' = TRUE /\ Unlock

(* Ping's error is returned; the handle is neither kept nor closed.        *)
Refuse(w) == refused' = refused \cup {own[w]} /\ Unlock /\ UNCHANGED opened

PingFails(w) ==
  /\ pc[w] = "ping" /\ faults < MaxFaults
  /\ faults' = faults + 1
  /\ Refuse(w)
  /\ own' = [own EXCEPT ![w] = None]
  /\ Goto(w, "idle")
  /\ UNCHANGED <<drained, pool, sink, closing, closes>>

-----------------------------------------------------------------------------
(* ProcessBatch from Begin on.  It reads p.sink without the mutex.         *)

Begin(w) ==
  /\ pc[w] = "begin"
  /\ sink # None /\ pool[sink] = "open"
  /\ own' = [own EXCEPT ![w] = sink]
  /\ Goto(w, "transaction")
  /\ UNCHANGED <<drained, shared, mu, closing, refused, faults, closes>>

(* The database refuses, or the pool was closed after p.sink was read.     *)
BeginFails(w) ==
  /\ pc[w] = "begin"
  /\ Goto(w, "idle")
  /\ UNCHANGED <<drained, shared, mu, closing, own, refused, faults, closes>>

(* Begin of a nil sink, or of one that is just being written: a panic.     *)
BeginNil(w) ==
  /\ pc[w] = "begin"
  /\ sink = None
  /\ Goto(w, "panicked")
  /\ UNCHANGED <<drained, shared, mu, closing, own, refused, faults, closes>>

(* Commit or Rollback.                                                     *)
EndTransaction(w) ==
  /\ pc[w] = "transaction"
  /\ own' = [own EXCEPT ![w] = None]
  /\ Goto(w, "idle")
  /\ UNCHANGED <<drained, shared, mu, closing, refused, faults, closes>>

-----------------------------------------------------------------------------
(* Close.                                                                  *)

CallClose ==
  /\ closing = "idle" /\ closes < MaxCloses
  /\ drained => closes = 0 /\ \A w \in Workers : pc[w] = "idle"
  /\ closing' = "close"
  /\ closes' = closes + 1
  /\ UNCHANGED <<drained, shared, mu, pc, own, refused, faults>>

LockForClose ==
  /\ closing = "close"
  /\ Lock(Closer)
  /\ closing' = "release"
  /\ UNCHANGED <<drained, shared, pc, own, refused, faults, closes>>

(* Mutation: opened is not reset.                                          *)
ForgetSinkOnly == sink' = None /\ UNCHANGED opened

(* Mutation: the pool is forgotten, and stays open.                        *)
ReleaseNothing == sink' = None /\ opened' = FALSE /\ UNCHANGED pool

ForgetSink == sink' = None /\ opened' = FALSE

ReleaseSink == pool' = [pool EXCEPT ![sink] = "closed"] /\ ForgetSink

(* Mutation: Close of a nil sink, a panic.                                 *)
CloseUnchecked ==
  /\ closing = "release"
  /\ IF sink = None THEN UNCHANGED shared ELSE ReleaseSink
  /\ Unlock
  /\ closing' = IF sink = None THEN "panicked" ELSE "idle"
  /\ UNCHANGED <<drained, pc, own, refused, faults, closes>>

Close ==
  /\ closing = "release"
  /\ IF sink = None THEN UNCHANGED shared ELSE ReleaseSink
  /\ Unlock
  /\ closing' = "idle"
  /\ UNCHANGED <<drained, pc, own, refused, faults, closes>>

-----------------------------------------------------------------------------
Ensure(w) ==
  \/ EnsureSink(w) \/ Found(w)
  \/ OpenPGSink(w) \/ OpenFails(w)
  \/ PingSucceeds(w) \/ PingFails(w)

Work(w) ==
  Begin(w) \/ BeginFails(w) \/ BeginNil(w) \/ EndTransaction(w)

Next ==
  \/ \E w \in Workers : Call(w) \/ Ensure(w) \/ Work(w)
  \/ CallClose \/ LockForClose \/ Close

Spec == Init /\ [][Next]_vars

(* Go gives a mutex to whoever keeps waiting for it; everything else is a  *)
(* call that returns.  Nothing is assumed of calls of ProcessBatch and     *)
(* Close.                                                                  *)
Fairness ==
  /\ \A w \in Workers :
       /\ SF_vars(EnsureSink(w))
       /\ WF_vars(\/ Found(w) \/ OpenPGSink(w) \/ OpenFails(w)
                  \/ PingSucceeds(w) \/ PingFails(w))
       /\ WF_vars(Work(w))
  /\ SF_vars(LockForClose) /\ WF_vars(Close)

FairSpec == Spec /\ Fairness

-----------------------------------------------------------------------------
(* Properties.                                                             *)

Labels ==
  {"idle", "ensure", "found", "open", "ping", "begin", "transaction", "panicked"}

TypeOK ==
  /\ drained \in BOOLEAN
  /\ pool \in [Handles -> {"unused", "open", "closed"}]
  /\ sink \in Handles \cup {None}
  /\ opened \in BOOLEAN
  /\ mu \in Workers \cup {Closer, None}
  /\ pc \in [Workers -> Labels]
  /\ closing \in {"idle", "close", "release"}
  /\ own \in [Workers -> Handles \cup {None}]
  /\ refused \subseteq Handles
  /\ faults \in 0..MaxFaults /\ closes \in 0..MaxCloses

(* p.opened tells whether there is a sink, and the sink is never a pool    *)
(* that was closed or whose Ping failed: no interleaving of first batches, *)
(* failed Pings and Closes separates the three (processor.go:243-272).     *)
SinkSound ==
  /\ opened <=> sink # None
  /\ sink # None => pool[sink] = "open" /\ sink \notin refused

(* No worker calls Begin of a nil sink, though it reads p.sink without the *)
(* mutex, when Close comes after the last batch (processor.go:96).         *)
NeverNil == drained => \A w \in Workers : pc[w] = "begin" => sink # None

(* Then all transactions are of one pool, the one Close will close,        *)
(* although every first batch may try to open its own                      *)
(* (processor.go:242-258).                                                 *)
OnePool == drained => \A w \in Workers : pc[w] = "transaction" => own[w] = sink

(* A pool that is open is the sink, or its Ping is under way, or its Ping  *)
(* failed: Close, whenever it comes, leaves no other pool behind           *)
(* (processor.go:250-256, 261-271).                                        *)
Released ==
  \A h \in Handles :
    pool[h] = "open" =>
      h = sink \/ h \in refused \/ \E w \in Workers : pc[w] = "ping" /\ own[w] = h

(* Every ProcessBatch that waits for the mutex is answered, and every      *)
(* Close returns: the mutex is released on all paths                       *)
(* (processor.go:244-245, 263-264).                                        *)
CallsReturn ==
  /\ \A w \in Workers : pc[w] = "ensure" ~> pc[w] \in {"idle", "panicked"}
  /\ closing = "close" ~> closing = "idle"
=============================================================================
