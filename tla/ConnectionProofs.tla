-------------------------- MODULE ConnectionProofs --------------------------
(***************************************************************************)
(* Proofs about Connection, for any number of workers, handles, failed     *)
(* Pings and calls of Close.                                               *)
(***************************************************************************)
EXTENDS Connection, TLAPS

(* The mutex is held by exactly the one that is past it: only its holder   *)
(* reads or writes opened and sink, but for the read of Begin.             *)
Guarded ==
  /\ \A w \in Workers : pc[w] \in {"found", "open", "ping"} <=> mu = w
  /\ closing = "release" <=> mu = Closer

(* What the holder has seen of opened is still so.                         *)
Seen ==
  \A w \in Workers :
    /\ pc[w] = "found" => opened
    /\ pc[w] \in {"open", "ping"} => ~opened

(* A handle under Ping is open and new.                                    *)
Pinged ==
  /\ \A w \in Workers :
       pc[w] = "ping" => own[w] \in Handles /\ pool[own[w]] = "open" /\ own[w] \notin refused
  /\ \A h \in refused : pool[h] # "unused"

(* With drained workers Close finds all of them idle, and they stay so.    *)
Quiet ==
  /\ closing # "idle" => closes > 0
  /\ drained /\ closes > 0 => \A w \in Workers : pc[w] = "idle"

(* With drained workers a transaction is of a pool that is there.          *)
Current ==
  drained => \A w \in Workers : pc[w] = "transaction" => own[w] # None

IInv ==
  /\ TypeOK /\ Guarded /\ Seen /\ Pinged /\ SinkSound
  /\ Quiet /\ NeverNil /\ Current /\ OnePool /\ Released

(* At first nothing is open and nobody holds the mutex.                    *)
LEMMA InitIInv == Init => IInv
<1> SUFFICES ASSUME Init PROVE IInv
  OBVIOUS
<1> USE ConnectionAssumption DEF Init
<1>1. TypeOK
  <2>1. drained \in BOOLEAN /\ opened \in BOOLEAN
    OBVIOUS
  <2>2. /\ pool \in [Handles -> {"unused", "open", "closed"}]
        /\ sink \in Handles \cup {None}
        /\ mu \in Workers \cup {Closer, None}
        /\ pc \in [Workers -> Labels]
        /\ closing \in {"idle", "close", "release"}
        /\ own \in [Workers -> Handles \cup {None}]
        /\ refused \subseteq Handles
        /\ faults \in 0..MaxFaults /\ closes \in 0..MaxCloses
    BY DEF Labels
  <2> QED BY <2>1, <2>2 DEF TypeOK
<1>2. Guarded /\ Seen /\ Pinged /\ SinkSound
  BY DEF Guarded, Seen, Pinged, SinkSound
<1>3. Quiet /\ NeverNil /\ Current /\ OnePool /\ Released
  BY DEF Quiet, NeverNil, Current, OnePool, Released
<1> QED
  BY <1>1, <1>2, <1>3 DEF IInv

(* Every action keeps the types.                                           *)
LEMMA StepTypes == ASSUME IInv, Next PROVE TypeOK'
<1> USE ConnectionAssumption DEF IInv, TypeOK, Labels, shared, Goto, Lock, Unlock
<1>1. CASE CallClose \/ LockForClose
  BY <1>1 DEF CallClose, LockForClose
<1>2. CASE Close
  <2>1. CASE sink = None
    BY <1>2, <2>1 DEF Close
  <2>2. CASE sink # None
    BY <1>2, <2>2 DEF Close, ReleaseSink, ForgetSink
  <2> QED BY <2>1, <2>2
<1>3. ASSUME NEW w \in Workers, Call(w) \/ Ensure(w) PROVE TypeOK'
  <2>1. CASE Call(w) \/ EnsureSink(w) \/ Found(w) \/ OpenFails(w)
    BY <2>1 DEF Call, EnsureSink, Found, OpenFails
  <2>2. CASE OpenPGSink(w)
    BY <2>2 DEF OpenPGSink
  <2>3. CASE PingSucceeds(w)
    BY <2>3 DEF PingSucceeds, Pinged
  <2>4. CASE PingFails(w)
    BY <2>4 DEF PingFails, Refuse, Pinged
  <2> QED BY <1>3, <2>1, <2>2, <2>3, <2>4 DEF Ensure
<1>4. ASSUME NEW w \in Workers, Work(w) PROVE TypeOK'
  <2>1. CASE Begin(w)
    BY <2>1 DEF Begin
  <2>2. CASE BeginFails(w) \/ BeginNil(w) \/ EndTransaction(w)
    BY <2>2 DEF BeginFails, BeginNil, EndTransaction
  <2> QED BY <1>4, <2>1, <2>2 DEF Work
<1> QED
  BY <1>1, <1>2, <1>3, <1>4 DEF Next

(* An action of a worker that waits for the mutex, or holds it.            *)
LEMMA EnsureKeeps ==
  ASSUME IInv, TypeOK', NEW w \in Workers, Ensure(w)
  PROVE  IInv'
<1> USE ConnectionAssumption DEF IInv, TypeOK, shared, Goto, Lock, Unlock
<1>1. CASE EnsureSink(w)
  <2> USE <1>1 DEF EnsureSink
  <2>1. Guarded' /\ Seen' /\ Pinged'
    BY DEF Guarded, Seen, Pinged, SinkSound
  <2>2. SinkSound' /\ Quiet' /\ Released'
    BY DEF SinkSound, Quiet, Released
  <2>3. NeverNil' /\ Current' /\ OnePool'
    BY DEF NeverNil, Current, OnePool
  <2> QED BY <2>1, <2>2, <2>3
<1>2. CASE Found(w)
  <2> USE <1>2 DEF Found
  <2>1. Guarded' /\ Seen' /\ Pinged'
    BY DEF Guarded, Seen, Pinged, SinkSound
  <2>2. SinkSound' /\ Quiet' /\ Released'
    BY DEF SinkSound, Quiet, Released
  <2>3. NeverNil' /\ Current' /\ OnePool'
    BY DEF NeverNil, Current, OnePool, Seen, SinkSound
  <2> QED BY <2>1, <2>2, <2>3
<1>3. CASE OpenPGSink(w)
  <2> USE <1>3 DEF OpenPGSink
  <2>1. Guarded' /\ Seen' /\ Pinged'
    BY DEF Guarded, Seen, Pinged, SinkSound
  <2>2. SinkSound' /\ Quiet' /\ Released'
    BY DEF SinkSound, Quiet, Released
  <2>3. NeverNil' /\ Current' /\ OnePool'
    BY DEF NeverNil, Current, OnePool
  <2> QED BY <2>1, <2>2, <2>3
<1>4. CASE PingSucceeds(w)
  <2> USE <1>4 DEF PingSucceeds
  <2>1. Guarded' /\ Seen' /\ Pinged'
    BY DEF Guarded, Seen, Pinged, SinkSound
  <2>2. SinkSound' /\ Quiet' /\ Released'
    BY DEF SinkSound, Quiet, Released, Pinged, Seen, Guarded
  <2>3. NeverNil' /\ Current' /\ OnePool'
    BY DEF NeverNil, Current, OnePool, Pinged, Seen, SinkSound
  <2> QED BY <2>1, <2>2, <2>3
<1>5. CASE PingFails(w)
  <2> USE <1>5 DEF PingFails, Refuse
  <2>1. Guarded' /\ Seen' /\ Pinged'
    BY DEF Guarded, Seen, Pinged, SinkSound
  <2>2. SinkSound' /\ Quiet' /\ Released'
    BY DEF SinkSound, Quiet, Released, Pinged, Seen, Guarded
  <2>3. NeverNil' /\ Current' /\ OnePool'
    BY DEF NeverNil, Current, OnePool
  <2> QED BY <2>1, <2>2, <2>3
<1>6. CASE OpenFails(w)
  <2> USE <1>6 DEF OpenFails
  <2>1. Guarded' /\ Seen' /\ Pinged'
    BY DEF Guarded, Seen, Pinged, SinkSound
  <2>2. SinkSound' /\ Quiet' /\ Released'
    BY DEF SinkSound, Quiet, Released
  <2>3. NeverNil' /\ Current' /\ OnePool'
    BY DEF NeverNil, Current, OnePool
  <2> QED BY <2>1, <2>2, <2>3
<1> QED
  BY <1>1, <1>2, <1>3, <1>4, <1>5, <1>6 DEF Ensure

(* An action of a worker without the mutex.                                *)
LEMMA WorkKeeps ==
  ASSUME IInv, TypeOK', NEW w \in Workers, Call(w) \/ Work(w)
  PROVE  IInv'
<1> USE ConnectionAssumption DEF IInv, TypeOK, shared, Goto
<1>1. UNCHANGED <<drained, shared, mu, closing, refused, faults, closes>>
  BY DEF Call, Work, Begin, BeginFails, BeginNil, EndTransaction
<1>2. /\ pc[w] \in {"idle", "begin", "transaction"}
      /\ pc' = [pc EXCEPT ![w] = pc'[w]]
      /\ pc'[w] \in {"idle", "ensure", "transaction", "panicked"}
      /\ \A v \in Workers \ {w} : own'[v] = own[v]
  BY DEF Call, Work, Begin, BeginFails, BeginNil, EndTransaction
<1>3. Guarded' /\ Seen' /\ Pinged' /\ SinkSound'
  BY <1>1, <1>2 DEF Guarded, Seen, Pinged, SinkSound
<1>4. Released'
  BY <1>1, <1>2 DEF Released
<1>5. Quiet'
  <2>1. CASE Call(w)
    BY <1>1, <2>1 DEF Quiet, Call
  <2>2. CASE Work(w)
    <3>1. pc[w] # "idle"
      BY <2>2 DEF Work, Begin, BeginFails, BeginNil, EndTransaction
    <3> QED BY <1>1, <3>1 DEF Quiet
  <2> QED BY <2>1, <2>2
<1>6. NeverNil'
  BY <1>1, <1>2 DEF NeverNil
<1>7. Current' /\ OnePool'
  <2>1. pc'[w] = "transaction" => own'[w] = sink /\ sink # None
    BY DEF Call, Work, Begin, BeginFails, BeginNil, EndTransaction
  <2> QED BY <1>1, <1>2, <2>1 DEF Current, OnePool
<1> QED
  BY <1>3, <1>4, <1>5, <1>6, <1>7

(* Close.                                                                  *)
LEMMA CloseKeeps ==
  ASSUME IInv, TypeOK', CallClose \/ LockForClose \/ Close
  PROVE  IInv'
<1> USE ConnectionAssumption DEF IInv, TypeOK, shared, Lock, Unlock
<1>1. CASE CallClose
  BY <1>1 DEF CallClose, Guarded, Seen, Pinged, SinkSound, Quiet, NeverNil, Current, OnePool,
              Released
<1>2. CASE LockForClose
  BY <1>2 DEF LockForClose, Guarded, Seen, Pinged, SinkSound, Quiet, NeverNil, Current, OnePool,
              Released
<1>3. CASE Close
  <2> USE <1>3 DEF Close, ReleaseSink, ForgetSink
  <2>1. Guarded' /\ Seen'
    BY DEF Guarded, Seen
  <2>2. Pinged'
    BY DEF Guarded, Pinged
  <2>3. SinkSound'
    BY DEF SinkSound
  <2>4. Quiet' /\ NeverNil' /\ Current' /\ OnePool'
    BY DEF Quiet, NeverNil, Current, OnePool
  <2>5. Released'
    BY DEF Released
  <2> QED BY <2>1, <2>2, <2>3, <2>4, <2>5
<1> QED
  BY <1>1, <1>2, <1>3

(* A stuttering step changes nothing the invariant speaks of.              *)
LEMMA Stutter == ASSUME IInv, UNCHANGED vars PROVE IInv'
BY DEF vars, shared, IInv, TypeOK, Guarded, Seen, Pinged, SinkSound, Quiet, NeverNil, Current,
       OnePool, Released

(* The inductive invariant holds in every behaviour.                       *)
LEMMA Inductive == Spec => []IInv
<1>1. IInv /\ [Next]_vars => IInv'
  BY StepTypes, EnsureKeeps, WorkKeeps, CloseKeeps, Stutter DEF Next
<1> QED
  BY InitIInv, <1>1, PTL DEF Spec

(* Every variable keeps its type (the variables of processor.go:22-29).    *)
THEOREM TypeCorrect == Spec => []TypeOK
BY Inductive, PTL DEF IInv

(* p.opened, p.sink and the state of the pool agree (processor.go:243-272).*)
THEOREM SinkIsSound == Spec => []SinkSound
BY Inductive, PTL DEF IInv

(* Begin is never called of a nil sink when Close comes last               *)
(* (processor.go:96).                                                      *)
THEOREM SinkIsThere == Spec => []NeverNil
BY Inductive, PTL DEF IInv

(* All transactions are of the one pool that Close will close              *)
(* (processor.go:242-258).                                                 *)
THEOREM PoolIsOne == Spec => []OnePool
BY Inductive, PTL DEF IInv

(* No pool is left open but one whose Ping failed (processor.go:250-271).  *)
THEOREM PoolsAreReleased == Spec => []Released
BY Inductive, PTL DEF IInv
=============================================================================
