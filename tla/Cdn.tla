--------------------------------- MODULE Cdn ---------------------------------
(* CDN downloads of the client: Client.CDN (telegram/pool.go) called by       *)
(* several goroutines at once, the cache of CDN public keys                   *)
(* (telegram/cdn.go), the reaction to a connection that met an unknown key    *)
(* fingerprint (telegram/cdn_conn_dead.go), the pool cache (CdnPools) with    *)
(* its close workers, and the cleanup at the end of Client.Run                *)
(* (telegram/connect.go).  The server changes the keys of the CDN data centre *)
(* at any time; keys are told apart by their version alone.                   *)
EXTENDS CdnPools

CONSTANTS Callers,        \* goroutines that call Client.CDN
          Maxes,          \* the limits they ask for
          Cached,         \* pools of limit 1 left in the cache by earlier calls
          MaxCalls,       \* bound: calls of all goroutines
          Versions,       \* the versions of the keys, consecutive numbers
          Lacking,        \* those without a key of this data centre
          Flights,        \* bound: help.getCdnConfig requests at a time
          Retries,        \* maxVersionRetries
          RefreshAttempts \* maxRefreshAttempts

ASSUME RetryBounds == Retries \in Nat \ {0} /\ RefreshAttempts \in Nat \ {0}
ASSUME CallersAndPools ==
    IsFiniteSet(Callers) /\ IsFiniteSet(Cached) /\ Cached \subseteq Pools

VARIABLES srv,     \* version of the keys the server has
          keys,    \* cdnKeys*: version, cdnKeysSet, cdnKeysGen; born is the
                   \* generation in which the request of the keys was sent
          cur,     \* the singleflight entry: a flight or 0
          flight,  \* the requests: st, answer, and the generation of their birth
          call,    \* per caller: where it is in CDN() and its local variables
          dead,    \* per caller: the handleCDNConnDead its connection started
          m,       \* cdnPoolManager
          made,    \* the pools created so far, in order
          max, ver, \* per pool: its limit and the version of the keys it captured
          closes,  \* per pool: calls of its Close
          calls,   \* calls of Client.CDN so far
          client,  \* "open", "cancelled" (c.ctx is done), "drained"
          draining \* the pools Run has still to close

vars == <<srv, keys, cur, flight, call, dead, m, made, max, ver, closes, calls, client,
          draining>>
keyVars == <<keys, cur, flight>>
poolVars == <<made, max, ver>>
runVars == <<calls, client, draining>>

NoFlight == 0
NoKeys == [ver |-> 0, set |-> FALSE, gen |-> 0, born |-> 0]
NoDeath == [at |-> "none", pool |-> 0]
Free == [st |-> "free", ver |-> 0, born |-> 0]
NoCall == [pc |-> "idle", need |-> 0, att |-> 0, try |-> 0, gen |-> 0,
           mode |-> "fetch", flight |-> NoFlight, ver |-> 0, born |-> 0, pool |-> 0]

HasDC(v) == v \notin Lacking

\* Earlier calls, if any, have left pools and the keys they were made with.
Init ==
    /\ srv \in Versions /\ srv - 1 \notin Versions
    /\ keys = [NoKeys EXCEPT !.set = Cached # {}, !.ver = IF Cached # {} THEN srv ELSE 0]
    /\ cur = NoFlight
    /\ flight = [f \in Flights |-> Free]
    /\ call = [c \in Callers |-> NoCall]
    /\ dead = [c \in Callers |-> NoDeath]
    /\ \E conns \in Bijection(1..Cardinality(Cached), Cached) :
          m = [newCDNPoolManager EXCEPT !.conns = conns, !.refs = [p \in Cached |-> 1]]
    /\ made = Cached
    /\ max = [p \in Pools |-> IF p \in Cached THEN 1 ELSE 0]
    /\ ver = [p \in Pools |-> IF p \in Cached THEN srv ELSE 0]
    /\ closes = [p \in Pools |-> 0]
    /\ calls = 0
    /\ client = "open"
    /\ draining = {}

Goto(c, pc) == call' = [call EXCEPT ![c].pc = pc]
\* CDN() returns an error.
Return(c) == call' = [call EXCEPT ![c] = NoCall]
\* CDN() returns a handle of pool p.
Handle(c, p) ==
    call' = [call EXCEPT ![c] = [NoCall EXCEPT !.pc = "have", !.pool = p]]

-----------------------------------------------------------------------------
(* Client.CDN: a cached pool, or keys, a new pool and its publication.        *)

CDN(c) ==
    /\ call[c].pc = "idle" /\ calls < MaxCalls
    /\ calls' = calls + 1
    /\ \E mx \in Maxes :
         LET need == normalizeCDNPoolMax(mx)
             hit == pickCDNPool(m.conns, max, need)
             begun == [NoCall EXCEPT !.need = need]
         IN  IF hit # {}
             THEN \E p \in hit :
                    /\ m' = cachedHandleLocked(m, p)
                    /\ call' = [call EXCEPT ![c] = [begun EXCEPT !.pc = "have", !.pool = p]]
             ELSE /\ call' = [call EXCEPT ![c] = [begun EXCEPT !.pc = "cached"]]
                  /\ UNCHANGED m
    /\ UNCHANGED <<srv, keyVars, dead, poolVars, closes, client, draining>>

\* dc(): cachedCDNKeysForDC decides whether keys have to be fetched.  (The
\* second reading, at the head of fetchCDNKeysForDC, decides nothing: what it
\* asks is asked again by fetchCDNKeys and by the loop.)
CachedKeys(c) ==
    /\ call[c].pc = "cached"
    /\ call' = [call EXCEPT ![c] =
                  IF keys.set /\ HasDC(keys.ver)
                  THEN [@ EXCEPT !.pc = "create", !.ver = keys.ver]
                  ELSE [@ EXCEPT !.pc = "snapshot", !.mode = "fetch", !.try = 1]]
    /\ UNCHANGED <<srv, keyVars, dead, m, poolVars, closes, runVars>>

\* One round of the loop of fetchCDNKeysForDC.
RefreshLoop(c) ==
    /\ call[c].pc = "loop"
    /\ IF keys.set /\ HasDC(keys.ver)
       THEN call' = [call EXCEPT ![c].pc = "create", ![c].ver = keys.ver]
       ELSE IF call[c].att = RefreshAttempts
       THEN Return(c)
       ELSE call' = [call EXCEPT ![c].pc = "snapshot", ![c].mode = "refresh",
                                 ![c].try = 1]
    /\ UNCHANGED <<srv, keyVars, dead, m, poolVars, closes, runVars>>

\* fetchCDNKeys and refreshCDNKeys return to the loop of fetchCDNKeysForDC:
\* the first before its first round, the second at the end of a round.
BackToLoop(c) ==
    call' = [call EXCEPT ![c] =
               [NoCall EXCEPT !.pc = "loop", !.need = call[c].need,
                              !.att = IF call[c].mode = "fetch" THEN 1 ELSE call[c].att + 1]]

\* The generation is remembered before the request (cachedCDNKeys);
\* fetchCDNKeys is content with keys that are there.
Snapshot(c) ==
    /\ call[c].pc = "snapshot"
    /\ IF call[c].mode = "fetch" /\ keys.set
       THEN BackToLoop(c)
       ELSE call' = [call EXCEPT ![c].pc = "load", ![c].gen = keys.gen]
    /\ UNCHANGED <<srv, keyVars, dead, m, poolVars, closes, runVars>>

\* loadCDNKeys: singleflight.DoChan joins the request of the current entry, or
\* starts one and makes it the entry.
LoadCDNKeys(c) ==
    /\ call[c].pc = "load"
    /\ IF cur # NoFlight
       THEN /\ call' = [call EXCEPT ![c].pc = "wait", ![c].flight = cur]
            /\ UNCHANGED <<cur, flight>>
       ELSE \E f \in Flights :
            /\ flight[f].st = "free"
            /\ \A g \in Flights : flight[g].st = "free" => f <= g
            /\ flight' = [flight EXCEPT ![f] = [st |-> "asked", ver |-> 0, born |-> keys.gen]]
            /\ cur' = f
            /\ call' = [call EXCEPT ![c].pc = "wait", ![c].flight = f]
    /\ UNCHANGED <<srv, keys, dead, m, poolVars, closes, runVars>>

Waiting(f) == {c \in Callers : call[c].pc = "wait" /\ call[c].flight = f}

\* The result of the load is here: it is committed unless the cache was filled
\* (fetchCDNKeys only) or reset meanwhile; a reset costs one of the retries.
Commit(c) ==
    /\ call[c].pc = "got"
    /\ IF call[c].mode = "fetch" /\ keys.set
       THEN BackToLoop(c) /\ UNCHANGED keys
       ELSE IF keys.gen # call[c].gen
       THEN /\ IF call[c].try = Retries THEN Return(c)
               ELSE call' = [call EXCEPT ![c].pc = "snapshot", ![c].try = @ + 1,
                                         ![c].gen = 0, ![c].ver = 0, ![c].born = 0]
            /\ UNCHANGED keys
       ELSE /\ keys' = [keys EXCEPT !.set = TRUE, !.ver = call[c].ver, !.born = call[c].born]
            /\ BackToLoop(c)
    /\ UNCHANGED <<srv, cur, flight, dead, m, poolVars, closes, runVars>>

\* The caller's own context is done, while it waits in loadCDNKeys or at the
\* head of the loop of fetchCDNKeysForDC: the request goes on without it.
CallerCancelled(c) ==
    /\ call[c].pc \in {"wait", "loop"}
    /\ Return(c)
    /\ UNCHANGED <<srv, keyVars, dead, m, poolVars, closes, runVars>>

\* createPool: no pool is created once the client's context is done.
CreatePool(c) ==
    /\ call[c].pc = "create"
    /\ IF client # "open"
       THEN Return(c) /\ UNCHANGED poolVars
       ELSE \E p \in Pools \ made :
            /\ \A q \in Pools \ made : p <= q
            /\ made' = made \cup {p}
            /\ max' = [max EXCEPT ![p] = call[c].need]
            /\ ver' = [ver EXCEPT ![p] = call[c].ver]
            /\ call' = [call EXCEPT ![c].pc = "publish", ![c].pool = p]
    /\ UNCHANGED <<srv, keyVars, dead, m, closes, runVars>>

\* publishOrAcquire; the loser of the race closes the pool it created, which
\* nobody else knows.
PublishOrAcquire(c) ==
    LET p == call[c].pool
        hit == pickCDNPool(m.conns, max, call[c].need) IN
    /\ call[c].pc = "publish"
    /\ IF hit # {}
       THEN \E q \in hit :
            /\ m' = cachedHandleLocked(m, q)
            /\ closes' = [closes EXCEPT ![p] = @ + 1]
            /\ Handle(c, q)
       ELSE /\ m' = cachedHandleLocked([m EXCEPT !.conns = Append(@, p)], p)
            /\ Handle(c, p)
            /\ UNCHANGED closes
    /\ UNCHANGED <<srv, keyVars, dead, poolVars, runVars>>

-----------------------------------------------------------------------------
(* The requests of help.getCdnConfig, and the server.                         *)

\* The server reads its keys when it answers; the answer is still on its way.
ServerAnswers(f) ==
    /\ flight[f].st = "asked"
    /\ flight' = [flight EXCEPT ![f].st = "answered", ![f].ver = srv]
    /\ UNCHANGED <<srv, keys, cur, call, dead, m, poolVars, closes, runVars>>

\* Mutant: the entry of a finished flight stays.
EndFlight_entryStays(f) ==
    /\ flight' = [flight EXCEPT ![f] = Free]
    /\ UNCHANGED cur

\* singleflight ends a flight: its entry goes, unless Forget has removed it
\* already, and every waiting caller gets the result.
EndFlight(f) ==
    /\ flight' = [flight EXCEPT ![f] = Free]
    /\ cur' = IF cur = f THEN NoFlight ELSE cur

DeliverKeys(f) ==
    /\ flight[f].st = "answered"
    /\ EndFlight(f)
    /\ call' = [c \in Callers |->
                  IF c \in Waiting(f)
                  THEN [call[c] EXCEPT !.pc = "got", !.flight = NoFlight,
                                       !.ver = flight[f].ver, !.born = flight[f].born]
                  ELSE call[c]]
    /\ UNCHANGED <<srv, keys, dead, m, poolVars, closes, runVars>>

\* The request fails (the network, or the client's context is done), or the keys
\* of the answer cannot be parsed.
DeliverError(f) ==
    /\ flight[f].st \in {"asked", "answered"}
    /\ EndFlight(f)
    /\ call' = [c \in Callers |->
                  IF c \in Waiting(f) THEN NoCall ELSE call[c]]
    /\ UNCHANGED <<srv, keys, dead, m, poolVars, closes, runVars>>

Rotate ==
    /\ srv + 1 \in Versions
    /\ srv' = srv + 1
    /\ UNCHANGED <<keyVars, call, dead, m, poolVars, closes, runVars>>

-----------------------------------------------------------------------------
(* The handle a caller got.                                                   *)

\* A request through the handle.  A connection of a pool whose keys the server
\* no longer has may die of exchange.ErrKeyFingerprintNotFound (it lives if it
\* need not create a key); its OnDead runs in a goroutine of the pool.  One
\* such goroutine of each caller's connections is followed at a time.
Use(c) ==
    LET p == call[c].pool
        mayDie == /\ ver[p] # srv /\ closes[p] = 0 /\ client = "open"
                  /\ dead[c].at = "none" IN
    /\ call[c].pc = "have"
    /\ Goto(c, "used")
    /\ \/ mayDie /\ dead' = [dead EXCEPT ![c] = [at |-> "reset", pool |-> p]]
       \/ UNCHANGED dead
    /\ UNCHANGED <<srv, keyVars, m, poolVars, closes, runVars>>

\* cdnPoolHandle.Close.
CloseHandle(c) ==
    LET p == call[c].pool IN
    /\ call[c].pc = "used"
    /\ m' = releaseCachedHandle(m, p)
    /\ closes' = IF IsLastHandle(m, p) THEN [closes EXCEPT ![p] = @ + 1] ELSE closes
    /\ Return(c)
    /\ UNCHANGED <<srv, keyVars, dead, poolVars, runVars>>

-----------------------------------------------------------------------------
(* handleCDNConnDead after a fingerprint miss: three critical sections.       *)

ResetKeys(c) ==
    /\ dead[c].at = "reset"
    /\ keys' = [NoKeys EXCEPT !.gen = keys.gen + 1]
    /\ dead' = [dead EXCEPT ![c].at = "forget"]
    /\ UNCHANGED <<srv, cur, flight, call, m, poolVars, closes, runVars>>

ForgetLoad(c) ==
    /\ dead[c].at = "forget"
    /\ cur' = NoFlight
    /\ dead' = [dead EXCEPT ![c].at = "invalidate"]
    /\ UNCHANGED <<srv, keys, flight, call, m, poolVars, closes, runVars>>

InvalidateDC(c) ==
    /\ dead[c].at = "invalidate"
    /\ m' = invalidateDC(m)
    /\ dead' = [dead EXCEPT ![c] = NoDeath]
    /\ UNCHANGED <<srv, keyVars, call, poolVars, closes, runVars>>

\* pool.DC.Close waits for the goroutines of the pool, hence for the OnDead of
\* its connections.
CanClose(p) == \A c \in Callers : dead[c].pool # p

-----------------------------------------------------------------------------
(* The close workers, and the end of Client.Run.                              *)

WorkerTakes ==
    /\ m.workers > Cardinality(m.busy) /\ m.queue # <<>>
    /\ m' = TakeClose(m)
    /\ closes' = [closes EXCEPT ![Head(m.queue)] = @ + 1]
    /\ UNCHANGED <<srv, keyVars, call, dead, poolVars, runVars>>

WorkerFinishes(p) ==
    /\ p \in m.busy /\ CanClose(p)
    /\ m' = FinishClose(m, p)
    /\ UNCHANGED <<srv, keyVars, call, dead, poolVars, closes, runVars>>

WorkerExits ==
    /\ m.workers > Cardinality(m.busy) /\ m.queue = <<>>
    /\ m' = ExitWorker(m)
    /\ UNCHANGED <<srv, keyVars, call, dead, poolVars, closes, runVars>>

\* Run's deferred calls: c.cancel, then drain, then Close of each pool in turn.
Cancel ==
    /\ client = "open"
    /\ client' = "cancelled"
    /\ UNCHANGED <<srv, keyVars, call, dead, m, poolVars, closes, calls, draining>>

Drain ==
    /\ client = "cancelled"
    /\ client' = "drained"
    /\ draining' = Drained(m)
    /\ m' = drain(m)
    /\ UNCHANGED <<srv, keyVars, call, dead, poolVars, closes, calls>>

DrainClose(p) ==
    /\ p \in draining /\ CanClose(p)
    /\ draining' = draining \ {p}
    /\ closes' = [closes EXCEPT ![p] = @ + 1]
    /\ UNCHANGED <<srv, keyVars, call, dead, m, poolVars, calls, client>>

\* What the client's goroutines, the network and the server do by themselves.
SystemStep ==
    \/ \E c \in Callers :
         \/ CachedKeys(c) \/ RefreshLoop(c)
         \/ Snapshot(c) \/ LoadCDNKeys(c) \/ Commit(c)
         \/ CreatePool(c) \/ PublishOrAcquire(c) \/ Use(c) \/ CloseHandle(c)
         \/ ResetKeys(c) \/ ForgetLoad(c) \/ InvalidateDC(c)
    \/ \E f \in Flights : ServerAnswers(f) \/ DeliverKeys(f) \/ DeliverError(f)
    \/ WorkerTakes \/ WorkerExits
    \/ \E p \in Pools : WorkerFinishes(p) \/ DrainClose(p)
    \/ Drain

\* What may happen or not.
Stimulus == Rotate \/ Cancel \/ \E c \in Callers : CDN(c) \/ CallerCancelled(c)

Next == SystemStep \/ Stimulus

Spec == Init /\ [][Next]_vars

\* Every step of the system itself happens in the end.  Calls and rotations
\* are bounded, so that one condition for all steps leaves none out.
FairSpec == Spec /\ WF_vars(SystemStep)

-----------------------------------------------------------------------------
(* Properties.                                                                *)

OpenHandles(p) == {c \in Callers : call[c].pc \in {"have", "used"} /\ call[c].pool = p}

\* A cached pool has one reference of the cache and one of each open handle
\* (cachedHandleLocked, releaseCachedHandle): no caller's Close takes a pool
\* away from the cache or from another caller.
HandlesCounted ==
    /\ DOMAIN m.refs = Range(m.conns)
    /\ \A p \in DOMAIN m.refs : m.refs[p] = 1 + Cardinality(OpenHandles(p))

\* Handles, the close workers, the loser of a publication race and the cleanup
\* of Run never close a pool twice ("avoid duplicate queue entries and
\* duplicate Close() calls").
PoolClosedOnce == \A p \in Pools : closes[p] <= 1

\* A pool that waits to be closed has a free worker, unless all workers are
\* busy: a slow Close holds up no other (the loop that starts workers in
\* enqueueCloseLocked, refillCloseQueueLocked).
NoHeadOfLine ==
    \/ m.workers = MaxCloseWorkers
    \/ m.pending = <<>> /\ Len(m.queue) <= m.workers - Cardinality(m.busy)

\* An invalidated pool is closed in the end, also when it had to wait for a
\* place in the queue (runCloseWorker refills it) or when Run took the queue
\* over (drain).
StaleClosed ==
    \A p \in Pools : (p \in Range(m.queue) \cup Range(m.pending)) ~> (closes[p] = 1)

\* Client.CDN returns, whatever the cache of keys, the shared requests and the
\* resets do meanwhile: no caller waits for a request that was forgotten.
CallReturns ==
    \A c \in Callers : (call[c].pc # "idle") ~> (call[c].pc \in {"idle", "have"})

\* Keys in the cache were asked for after the last reset: "Bump generation so
\* in-flight help.getCdnConfig results are discarded if they were started
\* before invalidation" (handleCDNConnDead).
NoStaleKeys == keys.set => keys.born = keys.gen
=============================================================================
