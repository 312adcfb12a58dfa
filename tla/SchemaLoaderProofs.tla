------------------------- MODULE SchemaLoaderProofs -------------------------
(***************************************************************************)
(* Proofs about SchemaLoader, for any number of callers, URLs and          *)
(* versions and for any ttl and fetch time.                                *)
(*                                                                         *)
(* The invariant that is inductive says of every document in a cache entry *)
(* or in a caller's hands how long ago its server can have replaced it;    *)
(* the freshness of hits and the limit on regressions follow from it.      *)
(***************************************************************************)
EXTENDS SchemaLoader, TLAPS

(* What the environment keeps true: the versions of a URL appeared in      *)
(* their order and not in the future, and no fetch outlasts MaxFetch.      *)
Chronology ==
  /\ lastSweep <= now
  /\ \A u \in Urls : \A v \in 1..version[u] : published[u][v] <= now
  /\ \A u \in Urls : \A v1, v2 \in 1..version[u] :
       v1 <= v2 => published[u][v1] <= published[u][v2]
  /\ \A w \in Workers :
       InFlight(w) => started[w] <= now /\ now - started[w] <= MaxFetch

(* A document whose body has been received was still current when its      *)
(* request was sent.                                                       *)
ReceivedCurrent ==
  \A w \in Workers :
    pc[w] = "received" =>
      /\ doc[w] <= version[url[w]]
      /\ Superseded(url[w], doc[w]) => started[w] <= SupersededAt(url[w], doc[w])

(* A cached document was still current within MaxFetch of its storing.     *)
CachedCurrent ==
  \A u \in DOMAIN cache :
    /\ cache[u].doc <= version[u]
    /\ Superseded(u, cache[u].doc) =>
         cache[u].expiresAt <= SupersededAt(u, cache[u].doc) + ttl + MaxFetch

IInv == TypeOK /\ CacheBounds /\ Chronology /\ ReceivedCurrent /\ CachedCurrent

-----------------------------------------------------------------------------
(* Type correctness.                                                       *)

(* The loader starts well typed.                                            *)
LEMMA TypeInit == Init => TypeOK
BY LoaderAssumption DEF Init, TypeOK, Entry, Places

(* Every step of the loader keeps the types.                                *)
LEMMA TypeStep == TypeOK /\ [Next]_vars => TypeOK'
<1> SUFFICES ASSUME TypeOK, [Next]_vars PROVE TypeOK'
  OBVIOUS
<1> USE LoaderAssumption DEF TypeOK, Entry, Places, server, calls
<1>1. CASE Tick
  BY <1>1 DEF Tick
<1>2. ASSUME NEW u \in Urls, Publish(u) PROVE TypeOK'
  BY <1>2 DEF Publish
<1>3. ASSUME NEW w \in Workers, NEW u \in Urls, Call(w, u) PROVE TypeOK'
  BY <1>3 DEF Call
<1>4. ASSUME NEW w \in Workers, Hit(w) PROVE TypeOK'
  BY <1>4 DEF Hit, Alive
<1>5. ASSUME NEW w \in Workers, Miss(w) PROVE TypeOK'
  BY <1>5 DEF Miss
<1>6. ASSUME NEW w \in Workers, Answer(w) PROVE TypeOK'
  BY <1>6 DEF Answer
<1>7. ASSUME NEW w \in Workers, Fail(w) PROVE TypeOK'
  BY <1>7 DEF Fail
<1>8. ASSUME NEW w \in Workers, ReturnUncached(w) PROVE TypeOK'
  BY <1>8 DEF ReturnUncached
<1>9. ASSUME NEW w \in Workers, Store(w) PROVE TypeOK'
  <2>1. /\ DOMAIN cache' \subseteq Urls
        /\ \A u \in DOMAIN cache' : cache'[u] \in [doc : 1..MaxVersion, expiresAt : Int]
    BY <1>9 DEF Store, Stored
  <2>2. mu' \in Workers \cup {Free} /\ pc' \in [Workers -> Places]
    BY <1>9 DEF Store
  <2> QED
    BY <1>9, <2>1, <2>2 DEF Store
<1>10. ASSUME NEW w \in Workers, Return(w) PROVE TypeOK'
  <2>1. CASE SweepDue
    BY <1>10, <2>1 DEF Return, Unlock, Sweep, SweepDue, Alive
  <2>2. CASE ~SweepDue
    BY <1>10, <2>2 DEF Return, Unlock, Sweep
  <2> QED
    BY <2>1, <2>2
<1>11. CASE UNCHANGED vars
  BY <1>11 DEF vars
<1> QED
  BY <1>1, <1>2, <1>3, <1>4, <1>5, <1>6, <1>7, <1>8, <1>9, <1>10, <1>11 DEF Next, Load

(* The state keeps its type, whatever the ttl (loader.go:25-41).           *)
THEOREM TypeCorrect == Spec => []TypeOK
BY TypeInit, TypeStep, PTL DEF Spec

-----------------------------------------------------------------------------
(* The inductive invariant.                                                *)

(* The inductive invariant holds of the loader as it starts.                *)
LEMMA IInvInit == Init => IInv
<1> SUFFICES ASSUME Init PROVE IInv
  OBVIOUS
<1>1. TypeOK
  BY TypeInit
<1>2. CacheBounds /\ ReceivedCurrent /\ CachedCurrent
  BY LoaderAssumption DEF Init, CacheBounds, ReceivedCurrent, CachedCurrent
<1>3. Chronology
  BY LoaderAssumption DEF Init, Chronology, InFlight
<1> QED
  BY <1>1, <1>2, <1>3 DEF IInv

(* What the type invariant says of the numbers a proof step computes with.  *)
LEMMA Numbers ==
  ASSUME TypeOK
  PROVE  /\ ttl \in Int /\ MaxFetch \in Nat /\ now \in Nat
         /\ \A u \in Urls : version[u] \in Nat /\ 1 <= version[u] /\ version[u] <= MaxVersion
         /\ \A u \in Urls : \A v \in 1..version[u] : published[u][v] \in Nat
         /\ \A w \in Workers :
              url[w] \in Urls /\ started[w] \in Nat /\ doc[w] \in Nat /\ 1 <= doc[w]
         /\ \A u \in DOMAIN cache :
              /\ u \in Urls /\ cache[u].doc \in Nat /\ 1 <= cache[u].doc
              /\ cache[u].expiresAt \in Int
<1> USE LoaderAssumption DEF TypeOK, Entry
<1>1. \A u \in Urls : version[u] \in 1..MaxVersion /\ published[u] \in [1..MaxVersion -> Nat]
  OBVIOUS
<1>2. ASSUME NEW u \in Urls, NEW v \in 1..version[u] PROVE published[u][v] \in Nat
  <2>1. v \in 1..MaxVersion
    BY <1>1
  <2> QED
    BY <1>1, <2>1
<1>3. \A u \in DOMAIN cache :
        u \in Urls /\ cache[u].doc \in 1..MaxVersion /\ cache[u].expiresAt \in Int
  OBVIOUS
<1> QED
  BY <1>1, <1>2, <1>3

(* A publication adds one version, dated now, and changes no other date.    *)
LEMMA PublishEffect ==
  ASSUME TypeOK, NEW u \in Urls, Publish(u)
  PROVE  /\ \A x \in Urls : version'[x] \in Nat /\ version[x] <= version'[x]
         /\ \A x \in Urls : \A v \in 1..version[x] : published'[x][v] = published[x][v]
         /\ \A x \in Urls : \A v \in 1..version'[x] :
              v \in 1..version[x] \/ published'[x][v] = now
<1>1. /\ version \in [Urls -> 1..MaxVersion] /\ published \in [Urls -> [1..MaxVersion -> Nat]]
      /\ version[u] < MaxVersion /\ MaxVersion \in Nat
  BY LoaderAssumption DEF TypeOK, Publish
<1>2. version' = [version EXCEPT ![u] = version[u] + 1]
  BY <1>1 DEF Publish
<1>3. published' = [published EXCEPT ![u] = [published[u] EXCEPT ![version[u] + 1] = now]]
  BY <1>1 DEF Publish
<1>4. ASSUME NEW x \in Urls, x # u PROVE version'[x] = version[x] /\ published'[x] = published[x]
  BY <1>1, <1>2, <1>3, <1>4
<1>5. version'[u] = version[u] + 1 /\ version[u] \in Nat
  BY <1>1, <1>2
<1>6. ASSUME NEW v \in 1..MaxVersion
      PROVE  published'[u][v] = IF v = version[u] + 1 THEN now ELSE published[u][v]
  <2>1. published'[u] = [published[u] EXCEPT ![version[u] + 1] = now]
    BY <1>1, <1>3
  <2>2. published[u] \in [1..MaxVersion -> Nat]
    BY <1>1
  <2> QED
    BY <2>1, <2>2
<1>7. \A x \in Urls : version[x] \in 1..MaxVersion
  BY <1>1
<1>8. ASSUME NEW v \in 1..version[u] PROVE published'[u][v] = published[u][v]
  <2>1. v \in 1..MaxVersion /\ v # version[u] + 1
    BY <1>1, <1>5
  <2> QED
    BY <1>6, <2>1
<1>9. ASSUME NEW v \in 1..version'[u] PROVE v \in 1..version[u] \/ published'[u][v] = now
  <2>1. CASE v = version[u] + 1
    <3>1. v \in 1..MaxVersion
      BY <1>1, <1>5, <2>1
    <3> QED
      BY <1>6, <2>1, <3>1
  <2>2. CASE v # version[u] + 1
    BY <1>5, <2>2
  <2> QED
    BY <2>1, <2>2
<1>10. ASSUME NEW x \in Urls
       PROVE  /\ version'[x] \in Nat /\ version[x] <= version'[x]
              /\ \A v \in 1..version[x] : published'[x][v] = published[x][v]
              /\ \A v \in 1..version'[x] : v \in 1..version[x] \/ published'[x][v] = now
  <2>1. CASE x = u
    BY <1>5, <1>8, <1>9, <2>1
  <2>2. CASE x # u
    BY <1>1, <1>4, <1>7, <2>2
  <2> QED
    BY <2>1, <2>2
<1> QED
  BY <1>10

(* The sweep keeps what expires later than its own reading of the clock.   *)
LEMMA BoundsStep == IInv /\ [Next]_vars => CacheBounds'
<1> SUFFICES ASSUME IInv, [Next]_vars PROVE CacheBounds'
  OBVIOUS
<1> USE LoaderAssumption DEF IInv, TypeOK, Entry, server, calls, CacheBounds, Chronology
<1>1. CASE Tick
  BY <1>1 DEF Tick
<1>2. ASSUME NEW u \in Urls, Publish(u) PROVE CacheBounds'
  BY <1>2 DEF Publish
<1>3. ASSUME NEW w \in Workers, NEW u \in Urls, Call(w, u) PROVE CacheBounds'
  BY <1>3 DEF Call
<1>4. ASSUME NEW w \in Workers, Hit(w) PROVE CacheBounds'
  BY <1>4 DEF Hit
<1>5. ASSUME NEW w \in Workers, Miss(w) PROVE CacheBounds'
  BY <1>5 DEF Miss
<1>6. ASSUME NEW w \in Workers, Answer(w) PROVE CacheBounds'
  BY <1>6 DEF Answer
<1>7. ASSUME NEW w \in Workers, Fail(w) PROVE CacheBounds'
  BY <1>7 DEF Fail
<1>8. ASSUME NEW w \in Workers, ReturnUncached(w) PROVE CacheBounds'
  BY <1>8 DEF ReturnUncached
<1>9. ASSUME NEW w \in Workers, Store(w) PROVE CacheBounds'
  BY <1>9 DEF Store, Stored
<1>10. ASSUME NEW w \in Workers, Return(w) PROVE CacheBounds'
  <2>1. CASE SweepDue
    BY <1>10, <2>1 DEF Return, Unlock, Sweep, SweepDue, Alive
  <2>2. CASE ~SweepDue
    BY <1>10, <2>2 DEF Return, Unlock, Sweep
  <2> QED
    BY <2>1, <2>2
<1>11. CASE UNCHANGED vars
  BY <1>11 DEF vars
<1> QED
  BY <1>1, <1>2, <1>3, <1>4, <1>5, <1>6, <1>7, <1>8, <1>9, <1>10, <1>11 DEF Next, Load

(* Only the environment and the sending of requests touch these.           *)
LEMMA ChronologyStep == IInv /\ [Next]_vars => Chronology'
<1> SUFFICES ASSUME IInv, [Next]_vars PROVE Chronology'
  OBVIOUS
<1> USE LoaderAssumption DEF IInv, TypeOK, Entry, server, calls, Chronology, Places, InFlight
<1>1. CASE Tick
  <2> HIDE DEF IInv, TypeOK, Chronology
  <2>0. /\ now \in Nat /\ MaxFetch \in Nat /\ lastSweep \in Int /\ lastSweep <= now
        /\ \A w \in Workers : started[w] \in Nat
    BY DEF IInv, TypeOK, Chronology
  <2>1. \A w \in Workers :
          InFlight(w)' => InFlight(w) /\ now - started[w] < MaxFetch /\ started[w] <= now
    BY <1>1 DEF Tick, IInv, Chronology
  <2>2. /\ now' = now + 1 /\ started' = started
        /\ version' = version /\ published' = published /\ lastSweep' = lastSweep
    BY <1>1 DEF Tick
  <2>3. \A w \in Workers :
          InFlight(w)' => started'[w] <= now' /\ now' - started'[w] <= MaxFetch
    BY <2>0, <2>1, <2>2
  <2>4. \A u \in Urls : \A v \in 1..version'[u] : published'[u][v] <= now'
    <3>1. \A u \in Urls : \A v \in 1..version[u] :
            published[u][v] \in Nat /\ published[u][v] <= now
      BY Numbers DEF IInv, Chronology
    <3> QED
      BY <2>0, <2>2, <3>1
  <2>5. \A u \in Urls : \A v1, v2 \in 1..version'[u] :
          v1 <= v2 => published'[u][v1] <= published'[u][v2]
    BY <2>2 DEF IInv, Chronology
  <2> QED
    BY <2>0, <2>2, <2>3, <2>4, <2>5 DEF Chronology
<1>2. ASSUME NEW u \in Urls, Publish(u) PROVE Chronology'
  <2> HIDE DEF IInv, TypeOK, Chronology, InFlight
  <2>0. TypeOK /\ Chronology
    BY DEF IInv
  <2>1. UNCHANGED <<now, lastSweep, pc, started>>
    BY <1>2 DEF Publish
  <2>2. /\ \A x \in Urls : version[x] \in Nat /\ version'[x] \in Nat
        /\ \A x \in Urls : \A v \in 1..version[x] : published'[x][v] = published[x][v]
        /\ \A x \in Urls : \A v \in 1..version'[x] :
             v \in 1..version[x] \/ published'[x][v] = now
    BY <1>2, <2>0, PublishEffect, Numbers
  <2>3. \A x \in Urls : \A v \in 1..version'[x] : published'[x][v] <= now
    <3>1. now \in Nat /\ \A x \in Urls : \A v \in 1..version[x] : published[x][v] <= now
      BY <2>0 DEF Chronology, TypeOK
    <3> QED
      BY <2>2, <3>1
  <2>4. ASSUME NEW x \in Urls, NEW v1 \in 1..version'[x], NEW v2 \in 1..version'[x], v1 <= v2
        PROVE  published'[x][v1] <= published'[x][v2]
    <3>1. CASE v2 \in 1..version[x]
      <4>1. v1 \in 1..version[x]
        BY <2>2, <2>4, <3>1
      <4> QED
        BY <2>0, <2>2, <2>4, <3>1, <4>1 DEF Chronology
    <3>2. CASE v2 \notin 1..version[x]
      BY <2>2, <2>3, <3>2
    <3> QED
      BY <3>1, <3>2
  <2>5. \A w \in Workers :
          InFlight(w)' => started'[w] <= now' /\ now' - started'[w] <= MaxFetch
    BY <2>0, <2>1 DEF Chronology, InFlight
  <2> QED
    BY <2>0, <2>1, <2>3, <2>4, <2>5 DEF Chronology
<1>3. ASSUME NEW w \in Workers, NEW u \in Urls, Call(w, u) PROVE Chronology'
  BY <1>3 DEF Call
<1>4. ASSUME NEW w \in Workers, Hit(w) PROVE Chronology'
  BY <1>4 DEF Hit
<1>5. ASSUME NEW w \in Workers, Miss(w) PROVE Chronology'
  <2> HIDE DEF IInv, TypeOK, Chronology, InFlight
  <2>0. TypeOK /\ Chronology /\ now \in Nat /\ MaxFetch \in Nat
    BY Numbers DEF IInv
  <2>1. UNCHANGED <<now, lastSweep, version, published>>
    BY <1>5 DEF Miss
  <2>2. /\ \A x \in Workers \ {w} : InFlight(x)' => InFlight(x) /\ started'[x] = started[x]
        /\ InFlight(w)' => started'[w] = now
    BY <1>5, <2>0 DEF Miss, InFlight, TypeOK
  <2>3. ASSUME NEW x \in Workers, InFlight(x)'
        PROVE  started'[x] <= now' /\ now' - started'[x] <= MaxFetch
    <3>1. CASE x = w
      BY <2>0, <2>1, <2>2, <2>3, <3>1
    <3>2. CASE x # w
      BY <2>0, <2>1, <2>2, <2>3, <3>2 DEF Chronology
    <3> QED
      BY <3>1, <3>2
  <2> QED
    BY <2>0, <2>1, <2>3 DEF Chronology
<1>6. ASSUME NEW w \in Workers, Answer(w) PROVE Chronology'
  BY <1>6 DEF Answer
<1>7. ASSUME NEW w \in Workers, Fail(w) PROVE Chronology'
  BY <1>7 DEF Fail
<1>8. ASSUME NEW w \in Workers, ReturnUncached(w) PROVE Chronology'
  BY <1>8 DEF ReturnUncached
<1>9. ASSUME NEW w \in Workers, Store(w) PROVE Chronology'
  BY <1>9 DEF Store
<1>10. ASSUME NEW w \in Workers, Return(w) PROVE Chronology'
  <2>1. CASE SweepDue
    BY <1>10, <2>1 DEF Return, Unlock, Sweep, SweepDue, Alive
  <2>2. CASE ~SweepDue
    BY <1>10, <2>2 DEF Return, Unlock, Sweep
  <2> QED
    BY <2>1, <2>2
<1>11. CASE UNCHANGED vars
  BY <1>11 DEF vars
<1> QED
  BY <1>1, <1>2, <1>3, <1>4, <1>5, <1>6, <1>7, <1>8, <1>9, <1>10, <1>11 DEF Next, Load

(* A version that is replaced during a fetch is replaced after its start.  *)
LEMMA ReceivedStep == IInv /\ [Next]_vars => ReceivedCurrent'
<1> SUFFICES ASSUME IInv, [Next]_vars PROVE ReceivedCurrent'
  OBVIOUS
<1> USE LoaderAssumption DEF IInv, TypeOK, Entry, server, calls, Chronology, ReceivedCurrent, Superseded, SupersededAt, InFlight
<1>1. CASE Tick
  BY <1>1 DEF Tick
<1>2. ASSUME NEW u \in Urls, Publish(u) PROVE ReceivedCurrent'
  <2> HIDE DEF IInv, TypeOK, Entry, server, calls, Chronology, ReceivedCurrent, InFlight
  <2>1. UNCHANGED <<now, pc, url, doc, started>>
    BY <1>2 DEF Publish, calls
  <2>2. TypeOK /\ Chronology /\ ReceivedCurrent
    BY DEF IInv
  <2>3. ASSUME NEW w \in Workers, pc[w] = "received"
        PROVE  /\ doc[w] <= version'[url[w]]
               /\ doc[w] < version'[url[w]] => started[w] <= published'[url[w]][doc[w] + 1]
    <3> DEFINE x == url[w]
               d == doc[w]
    <3>1. /\ x \in Urls /\ d \in Nat /\ 1 <= d /\ d <= version[x] /\ started[w] <= now
          /\ version[x] \in Nat /\ version'[x] \in Nat /\ version[x] <= version'[x]
      BY <1>2, <2>2, <2>3, Numbers, PublishEffect DEF ReceivedCurrent, Chronology, InFlight
    <3>2. ASSUME d < version[x] PROVE started[w] <= published'[x][d + 1]
      <4>1. d + 1 \in 1..version[x]
        BY <3>1, <3>2
      <4>2. published'[x][d + 1] = published[x][d + 1]
        BY <1>2, <2>2, <3>1, <4>1, PublishEffect
      <4> QED
        BY <2>2, <2>3, <3>2, <4>2 DEF ReceivedCurrent
    <3>3. ASSUME d = version[x], d < version'[x] PROVE published'[x][d + 1] = now
      <4>1. d + 1 \in 1..version'[x] /\ d + 1 \notin 1..version[x]
        BY <3>1, <3>3
      <4> QED
        BY <1>2, <2>2, <3>1, <4>1, PublishEffect
    <3> QED
      BY <3>1, <3>2, <3>3
  <2> QED
    BY <2>1, <2>3 DEF ReceivedCurrent
<1>3. ASSUME NEW w \in Workers, NEW u \in Urls, Call(w, u) PROVE ReceivedCurrent'
  BY <1>3 DEF Call
<1>4. ASSUME NEW w \in Workers, Hit(w) PROVE ReceivedCurrent'
  BY <1>4 DEF Hit
<1>5. ASSUME NEW w \in Workers, Miss(w) PROVE ReceivedCurrent'
  BY <1>5 DEF Miss
<1>6. ASSUME NEW w \in Workers, Answer(w) PROVE ReceivedCurrent'
  <2>1. UNCHANGED <<version, published, url, started>> /\ version[url[w]] \in Nat
    BY <1>6 DEF Answer
  <2>2. \A x \in Workers \ {w} : pc'[x] = pc[x] /\ doc'[x] = doc[x]
    BY <1>6 DEF Answer
  <2>3. doc'[w] = version[url[w]]
    BY <1>6 DEF Answer
  <2> HIDE DEF IInv, TypeOK, Chronology
  <2>4. ReceivedCurrent
    BY DEF IInv
  <2> QED
    BY <2>1, <2>2, <2>3, <2>4
<1>7. ASSUME NEW w \in Workers, Fail(w) PROVE ReceivedCurrent'
  BY <1>7 DEF Fail
<1>8. ASSUME NEW w \in Workers, ReturnUncached(w) PROVE ReceivedCurrent'
  BY <1>8 DEF ReturnUncached
<1>9. ASSUME NEW w \in Workers, Store(w) PROVE ReceivedCurrent'
  BY <1>9 DEF Store
<1>10. ASSUME NEW w \in Workers, Return(w) PROVE ReceivedCurrent'
  <2>1. CASE SweepDue
    BY <1>10, <2>1 DEF Return, Unlock, Sweep, SweepDue, Alive
  <2>2. CASE ~SweepDue
    BY <1>10, <2>2 DEF Return, Unlock, Sweep
  <2> QED
    BY <2>1, <2>2
<1>11. CASE UNCHANGED vars
  BY <1>11 DEF vars
<1> QED
  BY <1>1, <1>2, <1>3, <1>4, <1>5, <1>6, <1>7, <1>8, <1>9, <1>10, <1>11 DEF Next, Load

(* Storing turns the age of a received document into that of an entry.     *)
LEMMA CachedStep == IInv /\ [Next]_vars => CachedCurrent'
<1> SUFFICES ASSUME IInv, [Next]_vars PROVE CachedCurrent'
  OBVIOUS
<1> USE LoaderAssumption DEF IInv, TypeOK, Entry, server, calls, CacheBounds, Chronology, ReceivedCurrent, CachedCurrent, Superseded, SupersededAt, InFlight
<1>1. CASE Tick
  BY <1>1 DEF Tick
<1>2. ASSUME NEW u \in Urls, Publish(u) PROVE CachedCurrent'
  <2>1. UNCHANGED <<ttl, now, cache>>
    BY <1>2 DEF Publish
  <2> HIDE DEF IInv, TypeOK, Chronology, CachedCurrent, CacheBounds, ReceivedCurrent
  <2>0. TypeOK /\ CachedCurrent /\ CacheBounds
    BY DEF IInv
  <2>2. ASSUME NEW x \in DOMAIN cache
        PROVE  /\ cache[x].doc <= version'[x]
               /\ cache[x].doc < version'[x] =>
                    cache[x].expiresAt <= published'[x][cache[x].doc + 1] + ttl + MaxFetch
    <3> DEFINE d == cache[x].doc
    <3>1. /\ x \in Urls /\ d \in Nat /\ 1 <= d /\ d <= version[x]
          /\ cache[x].expiresAt \in Int /\ ttl \in Int /\ MaxFetch \in Nat /\ now \in Nat
      BY <2>0, Numbers DEF CachedCurrent
    <3>2. version[x] \in Nat /\ version'[x] \in Nat /\ version[x] <= version'[x]
      BY <1>2, <2>0, <3>1, PublishEffect, Numbers
    <3>3. CASE d < version[x]
      <4>1. d + 1 \in 1..version[x]
        BY <3>1, <3>2, <3>3
      <4>2. published'[x][d + 1] = published[x][d + 1]
        BY <1>2, <2>0, <3>1, <4>1, PublishEffect
      <4>3. cache[x].expiresAt <= published[x][d + 1] + ttl + MaxFetch
        BY <2>0, <3>3 DEF CachedCurrent, Superseded, SupersededAt
      <4> QED
        BY <3>1, <3>2, <4>2, <4>3
    <3>4. CASE d = version[x]
      <4>1. ASSUME d < version'[x] PROVE published'[x][d + 1] = now
        <5>1. d + 1 \in 1..version'[x] /\ d + 1 \notin 1..version[x]
          BY <3>1, <3>2, <3>4, <4>1
        <5> QED
          BY <1>2, <2>0, <3>1, <5>1, PublishEffect
      <4>2. cache[x].expiresAt <= now + ttl
        BY <2>0 DEF CacheBounds
      <4> QED
        BY <3>1, <3>2, <3>4, <4>1, <4>2
    <3> QED
      BY <3>1, <3>2, <3>3, <3>4
  <2> QED
    BY <2>1, <2>2 DEF CachedCurrent, Superseded, SupersededAt
<1>3. ASSUME NEW w \in Workers, NEW u \in Urls, Call(w, u) PROVE CachedCurrent'
  BY <1>3 DEF Call
<1>4. ASSUME NEW w \in Workers, Hit(w) PROVE CachedCurrent'
  BY <1>4 DEF Hit
<1>5. ASSUME NEW w \in Workers, Miss(w) PROVE CachedCurrent'
  BY <1>5 DEF Miss
<1>6. ASSUME NEW w \in Workers, Answer(w) PROVE CachedCurrent'
  BY <1>6 DEF Answer
<1>7. ASSUME NEW w \in Workers, Fail(w) PROVE CachedCurrent'
  BY <1>7 DEF Fail
<1>8. ASSUME NEW w \in Workers, ReturnUncached(w) PROVE CachedCurrent'
  BY <1>8 DEF ReturnUncached
<1>9. ASSUME NEW w \in Workers, Store(w) PROVE CachedCurrent'
  <2>1. UNCHANGED <<ttl, version, published>> /\ pc[w] = "received" /\ url[w] \in Urls
    BY <1>9 DEF Store
  <2>2. \A x \in DOMAIN cache' : x # url[w] => x \in DOMAIN cache /\ cache'[x] = cache[x]
    BY <1>9 DEF Store, Stored
  <2>3. cache'[url[w]] = [doc |-> doc[w], expiresAt |-> now + ttl]
    BY <1>9 DEF Store, Stored
  <2> HIDE DEF IInv, TypeOK, Chronology, CachedCurrent, CacheBounds, ReceivedCurrent, InFlight
  <2>0. TypeOK /\ CachedCurrent /\ ReceivedCurrent /\ Chronology
    BY DEF IInv
  <2>4. doc[w] <= version[url[w]]
    BY <2>0, <2>1 DEF ReceivedCurrent
  <2>5. doc[w] < version[url[w]] =>
          now + ttl <= published[url[w]][doc[w] + 1] + ttl + MaxFetch
    <3> SUFFICES ASSUME doc[w] < version[url[w]]
                 PROVE  now + ttl <= published[url[w]][doc[w] + 1] + ttl + MaxFetch
      OBVIOUS
    <3>1. doc[w] + 1 \in 1..version[url[w]]
      BY <2>0, Numbers
    <3>2. /\ published[url[w]][doc[w] + 1] \in Nat /\ started[w] \in Nat
          /\ now \in Nat /\ ttl \in Int /\ MaxFetch \in Nat
      BY <2>0, <2>1, <3>1, Numbers
    <3>3. started[w] <= published[url[w]][doc[w] + 1]
      BY <2>0, <2>1 DEF ReceivedCurrent, Superseded, SupersededAt
    <3>4. now - started[w] <= MaxFetch
      BY <2>0, <2>1 DEF Chronology, InFlight
    <3> QED
      BY <3>2, <3>3, <3>4
  <2>6. ASSUME NEW x \in DOMAIN cache'
        PROVE  /\ cache'[x].doc <= version'[x]
               /\ cache'[x].doc < version'[x] =>
                    cache'[x].expiresAt <= published'[x][cache'[x].doc + 1] + ttl + MaxFetch
    <3>1. CASE x = url[w]
      BY <2>1, <2>3, <2>4, <2>5, <3>1
    <3>2. CASE x # url[w]
      BY <2>0, <2>1, <2>2, <3>2 DEF CachedCurrent, Superseded, SupersededAt
    <3> QED
      BY <3>1, <3>2
  <2> QED
    BY <2>1, <2>6 DEF CachedCurrent, Superseded, SupersededAt
<1>10. ASSUME NEW w \in Workers, Return(w) PROVE CachedCurrent'
  <2>1. UNCHANGED <<ttl, version, published>>
    BY <1>10 DEF Return
  <2>2. \A x \in DOMAIN cache' : x \in DOMAIN cache /\ cache'[x] = cache[x]
    BY <1>10 DEF Return, Unlock, Sweep
  <2> HIDE DEF IInv, TypeOK, Entry, server, calls, CacheBounds, Chronology, ReceivedCurrent, InFlight
  <2>3. CachedCurrent
    BY DEF IInv
  <2> QED
    BY <2>1, <2>2, <2>3
<1>11. CASE UNCHANGED vars
  BY <1>11 DEF vars
<1> QED
  BY <1>1, <1>2, <1>3, <1>4, <1>5, <1>6, <1>7, <1>8, <1>9, <1>10, <1>11 DEF Next, Load

(* Every step of the loader keeps the inductive invariant.                  *)
LEMMA IInvStep == IInv /\ [Next]_vars => IInv'
BY TypeStep, BoundsStep, ChronologyStep, ReceivedStep, CachedStep DEF IInv

(* The inductive invariant holds at all times.                              *)
LEMMA IInvAlways == Spec => []IInv
BY IInvInit, IInvStep, PTL DEF Spec

-----------------------------------------------------------------------------
(* The theorems.                                                           *)

(* No entry outlives the sweep that passed its expiry, none lives longer   *)
(* than one ttl (loader.go:100-125).                                       *)
THEOREM CacheBoundsHold == Spec => []CacheBounds
BY IInvAlways, PTL DEF IInv

(* A hit is never older than one ttl and one fetch (loader.go:54-61).      *)
THEOREM HitsAreFresh == Spec => ServedFresh
<1> DEFINE Fresh(w) ==
      Superseded(url[w], doc'[w]) =>
        LET age == now - SupersededAt(url[w], doc'[w])
        IN /\ pc[w] = "lookup" /\ pc'[w] = "hit" => age < ttl + MaxFetch
           /\ pc[w] = "received" /\ pc'[w] = "idle" => age <= MaxFetch
<1>1. ASSUME IInv, [Next]_vars, NEW w \in Workers PROVE Fresh(w)
  <2>0. TypeOK /\ CachedCurrent /\ ReceivedCurrent /\ Chronology
    BY <1>1 DEF IInv
  <2> DEFINE d == doc'[w]
             since == published[url[w]][d + 1]
  <2>1. ASSUME pc[w] = "lookup", pc'[w] = "hit", d < version[url[w]]
        PROVE  now - since < ttl + MaxFetch
    <3>1. Hit(w)
      BY <1>1, <2>0, <2>1 DEF Next, Load, Tick, Publish, Call, Hit, Miss, Answer, Fail,
         ReturnUncached, Store, Return, vars, calls, TypeOK
    <3>2. url[w] \in DOMAIN cache /\ now < cache[url[w]].expiresAt
      BY <3>1 DEF Hit, Alive
    <3>3. d = cache[url[w]].doc
      BY <2>0, <3>1 DEF Hit, TypeOK
    <3>4. cache[url[w]].expiresAt <= since + ttl + MaxFetch
      BY <2>0, <2>1, <3>2, <3>3 DEF CachedCurrent, Superseded, SupersededAt
    <3>5. d + 1 \in 1..version[url[w]]
      BY <2>0, <2>1, <3>2, <3>3, Numbers
    <3>6. /\ since \in Nat /\ cache[url[w]].expiresAt \in Int
          /\ now \in Nat /\ ttl \in Int /\ MaxFetch \in Nat
      BY <2>0, <3>2, <3>5, Numbers
    <3> HIDE DEF since
    <3> QED
      BY <3>2, <3>4, <3>6
  <2>2. ASSUME pc[w] = "received", pc'[w] = "idle", d < version[url[w]]
        PROVE  now - since <= MaxFetch
    <3>1. d = doc[w]
      BY <1>1, <2>0, <2>2 DEF Next, Load, Tick, Publish, Call, Hit, Miss, Answer, Fail,
         ReturnUncached, Store, Return, vars, calls, TypeOK
    <3>2. started[w] <= since
      BY <2>0, <2>2, <3>1 DEF ReceivedCurrent, Superseded, SupersededAt
    <3>3. now - started[w] <= MaxFetch
      BY <2>0, <2>2 DEF Chronology, InFlight
    <3>4. d + 1 \in 1..version[url[w]]
      BY <2>0, <2>2, <3>1, Numbers
    <3>5. since \in Nat /\ started[w] \in Nat /\ now \in Nat /\ MaxFetch \in Nat
      BY <2>0, <3>4, Numbers
    <3> HIDE DEF since
    <3> QED
      BY <3>2, <3>3, <3>5
  <2> QED
    BY <2>1, <2>2 DEF Superseded, SupersededAt
<1>2. IInv /\ [Next]_vars => [\A w \in Workers : Fresh(w)]_vars
  BY <1>1
<1> QED
  BY <1>2, IInvAlways, PTL DEF Spec, ServedFresh

(* Late answers overwrite newer documents only within MaxFetch of their    *)
(* publication (loader.go:62-104).                                         *)
THEOREM RegressionsAreRecent == Spec => RegressionIsRecent
<1> DEFINE Recent(u) ==
      cache'[u].doc < cache[u].doc => now - published[u][cache[u].doc] <= MaxFetch
<1>1. ASSUME IInv, [Next]_vars, NEW u \in DOMAIN cache \cap DOMAIN cache' PROVE Recent(u)
  <2>0. TypeOK /\ CachedCurrent /\ ReceivedCurrent /\ Chronology
    BY <1>1 DEF IInv
  <2> SUFFICES ASSUME cache'[u].doc < cache[u].doc
               PROVE  now - published[u][cache[u].doc] <= MaxFetch
    OBVIOUS
  <2>1. cache[u].doc \in Nat /\ 1 <= cache[u].doc /\ u \in Urls
    BY <2>0, Numbers
  <2>2. PICK w \in Workers : Store(w)
    <3>1. cache'[u] # cache[u]
      BY <2>1
    <3> QED
      BY <1>1, <3>1 DEF Next, Load, Tick, Publish, Call, Hit, Miss, Answer, Fail,
         ReturnUncached, Return, Sweep, vars, calls
  <2>3. u = url[w] /\ cache'[u].doc = doc[w] /\ pc[w] = "received"
    BY <2>1, <2>2 DEF Store, Stored
  <2> DEFINE old == doc[w]
             new == cache[u].doc
  <2>4. new <= version[u] /\ version[u] \in Nat /\ old \in Nat /\ 1 <= old /\ old < new
    BY <2>0, <2>1, <2>3, Numbers DEF CachedCurrent
  <2>5. old + 1 \in 1..version[u] /\ new \in 1..version[u] /\ old + 1 <= new
    BY <2>1, <2>4
  <2>6. published[u][old + 1] <= published[u][new]
    BY <2>0, <2>1, <2>5 DEF Chronology
  <2>7. old < version[u]
    BY <2>1, <2>4
  <2>8. started[w] <= published[u][old + 1]
    BY <2>0, <2>3, <2>7 DEF ReceivedCurrent, Superseded, SupersededAt
  <2>9. now - started[w] <= MaxFetch
    BY <2>0, <2>3 DEF Chronology, InFlight
  <2>10. /\ published[u][old + 1] \in Nat /\ published[u][new] \in Nat
         /\ started[w] \in Nat /\ now \in Nat /\ MaxFetch \in Nat
    BY <2>0, <2>1, <2>5, Numbers
  <2> QED
    BY <2>6, <2>8, <2>9, <2>10
<1>2. IInv /\ [Next]_vars => [\A u \in DOMAIN cache \cap DOMAIN cache' : Recent(u)]_vars
  BY <1>1
<1> QED
  BY <1>2, IInvAlways, PTL DEF Spec, RegressionIsRecent

(* No Load leaves an entry behind that expired a ttl ago (loader.go:112).  *)
THEOREM SweepsKeepUp == Spec => SweptInTime
<1> DEFINE Kept(w) ==
      pc[w] \in {"hit", "stored"} /\ pc'[w] = "idle"
        => \A u \in DOMAIN cache' : now - cache'[u].expiresAt < ttl
<1>1. ASSUME IInv, [Next]_vars, NEW w \in Workers PROVE Kept(w)
  <2>0. TypeOK /\ CacheBounds
    BY <1>1 DEF IInv
  <2> SUFFICES ASSUME pc[w] \in {"hit", "stored"}, pc'[w] = "idle", NEW u \in DOMAIN cache'
               PROVE  now - cache'[u].expiresAt < ttl
    OBVIOUS
  <2>1. Return(w)
    BY <1>1, <2>0 DEF Next, Load, Tick, Publish, Call, Hit, Miss, Answer, Fail,
       ReturnUncached, Store, Return, vars, calls, TypeOK
  <2>2. /\ u \in DOMAIN cache /\ cache'[u] = cache[u]
        /\ SweepDue => Alive(u)
    BY <2>1 DEF Return, Unlock, Sweep
  <2>3. /\ cache[u].expiresAt \in Int /\ now \in Nat /\ ttl \in Int /\ lastSweep \in Int
        /\ lastSweep < cache[u].expiresAt /\ ttl > 0
    <3>1. cache[u].expiresAt \in Int /\ now \in Nat /\ ttl \in Int
      BY <2>0, <2>2, Numbers
    <3>2. lastSweep \in Int
      BY <2>0 DEF TypeOK
    <3>3. ~(ttl <= 0) /\ lastSweep < cache[u].expiresAt
      BY <2>0, <2>2 DEF CacheBounds
    <3> QED
      BY <3>1, <3>2, <3>3
  <2>4. CASE SweepDue
    BY <2>2, <2>3, <2>4 DEF Alive
  <2>5. CASE ~SweepDue
    BY <2>2, <2>3, <2>5 DEF SweepDue
  <2> QED
    BY <2>4, <2>5
<1>2. IInv /\ [Next]_vars => [\A w \in Workers : Kept(w)]_vars
  BY <1>1
<1> QED
  BY <1>2, IInvAlways, PTL DEF Spec, SweptInTime
=============================================================================
