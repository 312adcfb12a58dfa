---------------------------- MODULE SchemaLoader ----------------------------
(***************************************************************************)
(* The JSON Schema cache of the processors (pkg/processors/loader.go).     *)
(*                                                                         *)
(* One schemaLoader is shared by concurrent callers of Load.  Load takes   *)
(* the mutex twice, once to look the URL up and once to store what it      *)
(* fetched, and fetches in between without it: that gap, and the clock     *)
(* that runs through it, is what this module is about.  Every reading of   *)
(* the clock in the code is a step of its own here, because time passes    *)
(* between the reading that decides a hit and the one the sweep makes.     *)
(*                                                                         *)
(* A schema document is its version number on the server that publishes    *)
(* it.  The server and the clock are the environment.                      *)
(***************************************************************************)
EXTENDS Integers

CONSTANTS
  Workers,     \* callers of Load
  Urls,        \* schema URLs
  TTLs,        \* the values schemaLoader.ttl may be configured with
  MaxFetch,    \* longest time from sending a request to storing its answer
  MaxTime,     \* bound: the clock stops here
  MaxVersion,  \* bound: versions a server publishes under one URL
  Free         \* the mutex when nobody holds it

ASSUME LoaderAssumption ==
  /\ TTLs \subseteq Int
  /\ MaxFetch \in Nat
  /\ MaxTime \in Nat
  /\ MaxVersion \in Nat \ {0}
  /\ Free \notin Workers

VARIABLES
  ttl,        \* schemaLoader.ttl, never changed; not positive: no caching
  now,        \* l.now(), which never runs backwards
  version,    \* version[u]: the newest version the server has under u
  published,  \* published[u][v]: when version v of u appeared
  cache,      \* l.cache: the URLs it holds, each with its entry
  lastSweep,  \* l.lastSweep
  mu,         \* who holds l.mu
  pc,         \* where each caller is in Load
  url,        \* the url argument of its current or last call
  doc,        \* the document its current or last call obtained
  started     \* when its last request was sent

server == <<version, published>>
calls  == <<pc, url, doc, started>>
vars   == <<ttl, now, server, cache, lastSweep, mu, calls>>

Entry == [doc : 1..MaxVersion, expiresAt : Int]

(* "hit" and "stored" hold the mutex; "fetch" has sent its request and     *)
(* "received" has a complete, acceptable body.                             *)
Places == {"idle", "lookup", "hit", "fetch", "received", "stored"}

TypeOK ==
  /\ ttl \in TTLs
  /\ now \in Nat
  /\ version \in [Urls -> 1..MaxVersion]
  /\ published \in [Urls -> [1..MaxVersion -> Nat]]
  /\ DOMAIN cache \subseteq Urls
  /\ \A u \in DOMAIN cache : cache[u] \in Entry
  /\ lastSweep \in Int
  /\ mu \in Workers \cup {Free}
  /\ pc \in [Workers -> Places]
  /\ url \in [Workers -> Urls]
  /\ doc \in [Workers -> 1..MaxVersion]
  /\ started \in [Workers -> Nat]

(* lastSweep is the zero time.Time, further in the past than any ttl.      *)
Init ==
  /\ ttl \in TTLs
  /\ now = 0
  /\ version = [u \in Urls |-> 1]
  /\ published = [u \in Urls |-> [v \in 1..MaxVersion |-> 0]]
  /\ cache = [u \in {} |-> [doc |-> 1, expiresAt |-> 0]]
  /\ lastSweep = 0 - (IF ttl > 0 THEN 2 * ttl ELSE 0)
  /\ mu = Free
  /\ pc = [w \in Workers |-> "idle"]
  /\ url \in [Workers -> Urls]
  /\ doc = [w \in Workers |-> 1]
  /\ started = [w \in Workers |-> 0]

-----------------------------------------------------------------------------
(* The environment.                                                        *)

(* Mutation: an http.Client without its Timeout.                           *)
InFlightUnbounded(w) == FALSE

InFlight(w) == pc[w] \in {"fetch", "received"}

(* Time passes, but a request and the storing of its answer together last  *)
(* no longer than MaxFetch: the client's Timeout bounds the first, the     *)
(* scheduling of a runnable goroutine the second.                          *)
Tick ==
  /\ now < MaxTime
  /\ \A w \in Workers : InFlight(w) => now - started[w] < MaxFetch
  /\ now' = now + 1
  /\ UNCHANGED <<ttl, server, cache, lastSweep, mu, calls>>

(* The owner of a schema replaces it under the same URL.                   *)
Publish(u) ==
  /\ version[u] < MaxVersion
  /\ version' = [version EXCEPT ![u] = @ + 1]
  /\ published' = [published EXCEPT ![u][version[u] + 1] = now]
  /\ UNCHANGED <<ttl, now, cache, lastSweep, mu, calls>>

-----------------------------------------------------------------------------
(* Load.                                                                   *)

(* Mutation: an entry is still served at the instant it expires.           *)
AliveTooLong(u) == u \in DOMAIN cache /\ now <= cache[u].expiresAt

Alive(u) == u \in DOMAIN cache /\ now < cache[u].expiresAt

Call(w, u) ==
  /\ pc[w] = "idle"
  /\ pc' = [pc EXCEPT ![w] = "lookup"]
  /\ url' = [url EXCEPT ![w] = u]
  /\ UNCHANGED <<ttl, now, server, cache, lastSweep, mu, doc, started>>

(* The entry is alive: its document is the result; the mutex is kept for   *)
(* the sweep that follows.                                                 *)
Hit(w) ==
  /\ pc[w] = "lookup"
  /\ mu = Free
  /\ Alive(url[w])
  /\ mu' = w
  /\ doc' = [doc EXCEPT ![w] = cache[url[w]].doc]
  /\ pc' = [pc EXCEPT ![w] = "hit"]
  /\ UNCHANGED <<ttl, now, server, cache, lastSweep, url, started>>

(* No entry, or an expired one: unlock and send the request.               *)
Miss(w) ==
  /\ pc[w] = "lookup"
  /\ mu = Free
  /\ ~Alive(url[w])
  /\ started' = [started EXCEPT ![w] = now]
  /\ pc' = [pc EXCEPT ![w] = "fetch"]
  /\ UNCHANGED <<ttl, now, server, cache, lastSweep, mu, url, doc>>

(* The server answers 200 with the document it has at this moment.         *)
Answer(w) ==
  /\ pc[w] = "fetch"
  /\ doc' = [doc EXCEPT ![w] = version[url[w]]]
  /\ pc' = [pc EXCEPT ![w] = "received"]
  /\ UNCHANGED <<ttl, now, server, cache, lastSweep, mu, url, started>>

(* Mutation: an empty body, version 0, is taken for a schema.              *)
FailAccepted(w) ==
  /\ pc[w] = "fetch"
  /\ doc' = [doc EXCEPT ![w] = 0]
  /\ pc' = [pc EXCEPT ![w] = "received"]
  /\ UNCHANGED <<ttl, now, server, cache, lastSweep, mu, url, started>>

(* Any other outcome: a transport error or the client's timeout, a status  *)
(* that is not 200, a body that is cut, too large or empty.  Load returns  *)
(* an error and stores nothing; an expired entry stays where it is.        *)
Fail(w) ==
  /\ pc[w] = "fetch"
  /\ pc' = [pc EXCEPT ![w] = "idle"]
  /\ UNCHANGED <<ttl, now, server, cache, lastSweep, mu, url, doc, started>>

(* Without caching the document is returned at once.                       *)
ReturnUncached(w) ==
  /\ pc[w] = "received"
  /\ ttl <= 0
  /\ pc' = [pc EXCEPT ![w] = "idle"]
  /\ UNCHANGED <<ttl, now, server, cache, lastSweep, mu, url, doc, started>>

Stored(u, d) ==
  [v \in DOMAIN cache \cup {u} |->
     IF v = u THEN [doc |-> d, expiresAt |-> now + ttl] ELSE cache[v]]

Store(w) ==
  /\ pc[w] = "received"
  /\ ttl > 0
  /\ mu = Free
  /\ mu' = w
  /\ cache' = Stored(url[w], doc[w])
  /\ pc' = [pc EXCEPT ![w] = "stored"]
  /\ UNCHANGED <<ttl, now, server, lastSweep, url, doc, started>>

(* Mutation: the sweep waits for two ttls.                                 *)
SweepDueLate == ttl > 0 /\ now - lastSweep >= 2 * ttl

(* sweepLocked, with its own reading of the clock.                         *)
SweepDue == ttl > 0 /\ now - lastSweep >= ttl

(* Mutation: the condition of the deletion is inverted.                    *)
SweepInverted ==
  IF SweepDue
    THEN /\ cache' = [u \in {v \in DOMAIN cache : ~Alive(v)} |-> cache[u]]
         /\ lastSweep' = now
    ELSE UNCHANGED <<cache, lastSweep>>

Sweep ==
  IF SweepDue
    THEN /\ cache' = [u \in {v \in DOMAIN cache : Alive(v)} |-> cache[u]]
         /\ lastSweep' = now
    ELSE UNCHANGED <<cache, lastSweep>>

(* Mutation: the path of a hit returns with the mutex locked.              *)
UnlockStoredOnly(w) == mu' = IF pc[w] = "stored" THEN Free ELSE mu

Unlock(w) == mu' = Free

(* The end of both paths that took the mutex: sweep, unlock, return doc.   *)
Return(w) ==
  /\ pc[w] \in {"hit", "stored"}
  /\ Sweep
  /\ Unlock(w)
  /\ pc' = [pc EXCEPT ![w] = "idle"]
  /\ UNCHANGED <<ttl, now, server, url, doc, started>>

Load(w) ==
  \/ Hit(w)
  \/ Miss(w)
  \/ Answer(w)
  \/ Fail(w)
  \/ ReturnUncached(w)
  \/ Store(w)
  \/ Return(w)

Next ==
  \/ Tick
  \/ \E u \in Urls : Publish(u)
  \/ \E w \in Workers, u \in Urls : Call(w, u)
  \/ \E w \in Workers : Load(w)

Spec == Init /\ [][Next]_vars

(* A caller keeps running; its request ends, if only by the client's       *)
(* timeout; and sync.Mutex hands the lock to a waiter that keeps being     *)
(* overtaken (its starvation mode), hence strong fairness where it locks.  *)
Fairness ==
  \A w \in Workers :
    /\ WF_vars(Answer(w) \/ Fail(w))
    /\ WF_vars(ReturnUncached(w))
    /\ WF_vars(Return(w))
    /\ SF_vars(Hit(w) \/ Miss(w))
    /\ SF_vars(Store(w))

FairSpec == Spec /\ Fairness

-----------------------------------------------------------------------------
(* Properties.                                                             *)

(* A ttl that is not positive disables the cache.  Otherwise every entry   *)
(* expires after the last sweep, so the sweep left no expired entry        *)
(* behind, and no later than one ttl from now, so no path stretches the    *)
(* life of an entry (loader.go:20-21, 100-105, 112-125).                   *)
CacheBounds ==
  /\ ttl <= 0 => DOMAIN cache = {}
  /\ \A u \in DOMAIN cache :
       lastSweep < cache[u].expiresAt /\ cache[u].expiresAt <= now + ttl

(* When was version v of u replaced by the next one.                       *)
Superseded(u, v) == v < version[u]
SupersededAt(u, v) == published[u][v + 1]

(* A hit never returns a document that its server replaced longer ago than *)
(* one ttl plus the time the fetch that cached it may have taken, even     *)
(* though concurrent fetches overwrite each other (loader.go:56-60, 102);  *)
(* and without caching, only one replaced while the fetch was under way.   *)
ServedFresh ==
  [][\A w \in Workers :
       Superseded(url[w], doc'[w]) =>
         LET age == now - SupersededAt(url[w], doc'[w])
         IN /\ pc[w] = "lookup" /\ pc'[w] = "hit" => age < ttl + MaxFetch
            /\ pc[w] = "received" /\ pc'[w] = "idle" => age <= MaxFetch]_vars

(* Two concurrent misses may store their answers in the wrong order.  A    *)
(* cached document is replaced by an older one only within MaxFetch of the *)
(* publication of the newer: afterwards the cache never goes backwards.    *)
RegressionIsRecent ==
  [][\A u \in DOMAIN cache \cap DOMAIN cache' :
       cache'[u].doc < cache[u].doc
         => now - published[u][cache[u].doc] <= MaxFetch]_vars

(* The cache is bounded in time (loader.go:23-24): whenever a caching Load *)
(* returns a document, no entry is left that expired a ttl ago or more,    *)
(* although each sweep is skipped when the last one is recent.             *)
SweptInTime ==
  [][\A w \in Workers :
       pc[w] \in {"hit", "stored"} /\ pc'[w] = "idle"
         => \A u \in DOMAIN cache' : now - cache'[u].expiresAt < ttl]_vars

(* Every call of Load returns, with a document or an error: whoever locks  *)
(* the mutex, for a hit or to store, releases it, and no caller waits for  *)
(* it for ever although others keep taking it (loader.go:55-62, 100-106).  *)
LoadReturns ==
  \A w \in Workers : pc[w] # "idle" ~> pc[w] = "idle"
=============================================================================
