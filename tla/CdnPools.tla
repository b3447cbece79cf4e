------------------------------ MODULE CdnPools ------------------------------
(* The cache of CDN connection pools, telegram/cdn_pool_manager.go, as        *)
(* operators on a record of the manager's fields: one operator for each       *)
(* section of code that runs under cdnPoolManager.mux.  One CDN data centre   *)
(* is modelled, so conns is the list of that data centre.                     *)
EXTENDS Integers, Sequences, FiniteSets, Functions

CONSTANTS Pools,          \* the pools (CloseInvoker values) that may be created
          MaxCloseWorkers,  \* maxCDNCloseWorkers
          MaxCloseQueue     \* maxCDNCloseQueue

ASSUME CloseBounds ==
    /\ MaxCloseWorkers \in Nat \ {0}
    /\ MaxCloseQueue \in Nat
    /\ MaxCloseQueue >= MaxCloseWorkers

\* The manager: cached pools, reference counts (the domain of refs is the set
\* of its keys), the close pipeline (closing maps a pool to "is queued"), the
\* number of close workers, and the pools the busy ones are closing (closeBusy
\* is their number).
newCDNPoolManager ==
    [conns |-> <<>>, refs |-> <<>>, closing |-> <<>>, queue |-> <<>>,
     pending |-> <<>>, workers |-> 0, busy |-> {}]

\* Go's m[k] = v and delete(m, k).
Put(m, k, v) == [x \in DOMAIN m \cup {k} |-> IF x = k THEN v ELSE m[x]]
Delete(m, ks) == [x \in DOMAIN m \ ks |-> m[x]]

\* Limits are rounded up to a power of two; 0 stays "unlimited".  (Limits whose
\* power of two does not fit an int64 are outside the values used here.)
normalizeCDNPoolMax(max) ==
    IF max < 2 THEN max
    ELSE LET pow == {2^i : i \in 0..max} IN CHOOSE b \in pow :
             b >= max /\ \A a \in pow : a >= max => b <= a

\* A limit below 1 is "unlimited".
covers(max, need) == max < 1 \/ (need >= 1 /\ max >= need)

\* The tightest cached pool that covers the need, as a set of at most one: a
\* finite limit is tighter than an unlimited one.
pickCDNPool(conns, max, need) ==
    LET fit == {p \in Range(conns) : covers(max[p], need)}
    IN  {p \in fit : \A q \in fit : \/ max[q] < 1
                                    \/ max[p] >= 1 /\ max[p] <= max[q]}

\* Mutant: the cache has no reference of its own.
cachedHandleLocked_noOwner(m, p) ==
    [m EXCEPT !.refs = Put(@, p, (IF p \in DOMAIN @ THEN @[p] ELSE 0) + 1)]

cachedHandleLocked(m, p) ==
    [m EXCEPT !.refs = Put(@, p, (IF p \in DOMAIN @ THEN @[p] ELSE 1) + 1)]

\* The last reference is gone: the closer of the handle has to close the pool.
IsLastHandle(m, p) == p \in DOMAIN m.refs /\ m.refs[p] = 1

releaseCachedHandle(m, p) ==
    IF p \notin DOMAIN m.refs
    THEN m
    ELSE [m EXCEPT !.refs = IF @[p] = 1 THEN Delete(@, {p})
                                        ELSE Put(@, p, @[p] - 1)]

\* A round of the loop of refillCloseQueueLocked: the head of pending is
\* queued, unless it is closed or queued already.
RefillOne(m) ==
    LET p == Head(m.pending)
        tl == [m EXCEPT !.pending = Tail(@)]
    IN  IF p \in DOMAIN m.closing /\ ~m.closing[p]
        THEN [tl EXCEPT !.closing[p] = TRUE, !.queue = Append(@, p)]
        ELSE tl

\* After[n] is the manager after the first n rounds, which are all there are
\* once the queue is full or nothing is pending.
refillCloseQueueLocked(m) ==
    LET After[n \in 0..Len(m.pending)] ==
            IF n = 0 THEN m
            ELSE LET r == After[n - 1]
                 IN  IF Len(r.queue) < MaxCloseQueue /\ r.pending # <<>>
                     THEN RefillOne(r) ELSE r
    IN  After[Len(m.pending)]

EnqueueOne(m, p) ==
    IF p \in DOMAIN m.closing THEN m
    ELSE IF Len(m.queue) < MaxCloseQueue
    THEN [m EXCEPT !.closing = Put(@, p, TRUE), !.queue = Append(@, p)]
    ELSE [m EXCEPT !.closing = Put(@, p, FALSE), !.pending = Append(@, p)]

\* Mutant: busy workers count as free ones.
StartWorkers_busyFree(m) ==
    [m EXCEPT !.workers = IF @ >= Len(m.queue) THEN @
                          ELSE IF Len(m.queue) < MaxCloseWorkers THEN Len(m.queue)
                          ELSE MaxCloseWorkers]

\* The loop that starts workers: none is started while as many are free as
\* there are queued pools, and never more than the bound.
StartWorkers(m) ==
    LET want == Len(m.queue) + Cardinality(m.busy)
    IN  IF m.workers >= want THEN m
        ELSE [m EXCEPT !.workers = IF want < MaxCloseWorkers THEN want
                                   ELSE IF @ < MaxCloseWorkers THEN MaxCloseWorkers
                                   ELSE @]

EnqueueAll(m, stale) ==
    LET After[n \in 0..Len(stale)] ==
            IF n = 0 THEN m ELSE EnqueueOne(After[n - 1], stale[n])
    IN  After[Len(stale)]

enqueueCloseLocked(m, stale) ==
    IF stale = <<>> THEN m
    ELSE StartWorkers(refillCloseQueueLocked(EnqueueAll(m, stale)))

invalidateDC(m) ==
    enqueueCloseLocked([m EXCEPT !.refs = Delete(@, Range(m.conns)), !.conns = <<>>],
                       m.conns)

\* What drain returns for its caller to close, and what it leaves behind: the
\* close workers and what they are closing are not touched.
Drained(m) == Range(m.conns) \cup Range(m.queue) \cup Range(m.pending)
\* Mutant: the close queue is returned and kept.
drain_keepQueue(m) == [m EXCEPT !.conns = <<>>, !.refs = <<>>]

drain(m) == [newCDNPoolManager EXCEPT !.workers = m.workers, !.busy = m.busy]

\* The three critical sections of runCloseWorker.
TakeClose(m) ==
    [m EXCEPT !.queue = Tail(@), !.busy = @ \cup {Head(m.queue)}]
\* Mutant: the freed place of the queue is not filled again.
FinishClose_noRefill(m, p) ==
    [m EXCEPT !.closing = Delete(@, {p}), !.busy = @ \ {p}]

FinishClose(m, p) ==
    refillCloseQueueLocked([m EXCEPT !.closing = Delete(@, {p}), !.busy = @ \ {p}])
ExitWorker(m) == [m EXCEPT !.workers = @ - 1]
=============================================================================
