------------------------------ MODULE CdnProof ------------------------------
(* What is proved of the cache of CDN pools, for any number of callers, calls,  *)
(* pools, rotations of the keys and close workers: handles are counted, no pool *)
(* is closed twice, and none waits behind a slow Close while a worker may still *)
(* be started.                                                                  *)
EXTENDS Cdn, FiniteSetTheorems, WellFoundedInduction, TLAPS

\* Go maps from pools.
Maps(V) == UNION {[D -> V] : D \in SUBSET Pools}

Managers ==
    [conns : Seq(Pools), refs : Maps(Nat), closing : Maps(BOOLEAN), queue : Seq(Pools),
     pending : Seq(Pools), workers : Nat, busy : SUBSET Pools]

\* A pool is in one place: cached, queued, pending or being closed.
OnePlace(x) ==
    /\ IsInjective(x.conns) /\ IsInjective(x.queue) /\ IsInjective(x.pending)
    /\ Range(x.conns) \cap (Range(x.queue) \cup Range(x.pending) \cup x.busy) = {}
    /\ Range(x.queue) \cap (Range(x.pending) \cup x.busy) = {}
    /\ Range(x.pending) \cap x.busy = {}

\* closing knows what the pipeline holds (but for what was being closed at drain),
\* and what is pending in it is not queued.
Pipeline(x) ==
    /\ Range(x.queue) \cup Range(x.pending) \subseteq DOMAIN x.closing
    /\ DOMAIN x.closing \subseteq Range(x.queue) \cup Range(x.pending) \cup x.busy
    /\ \A p \in Range(x.pending) : x.closing[p] = FALSE

\* Workers are bounded and busy ones exist; the queue is bounded, and when pools
\* are pending, it was filled up, less what has been taken from it since.
Bounds(x) ==
    /\ IsFiniteSet(x.busy) /\ Cardinality(x.busy) <= x.workers /\ x.workers <= MaxCloseWorkers
    /\ Len(x.queue) <= MaxCloseQueue
    /\ x.pending # <<>> => Len(x.queue) + Cardinality(x.busy) >= MaxCloseQueue

\* NoHeadOfLine, of any manager.
Line(x) ==
    \/ x.workers = MaxCloseWorkers
    \/ x.pending = <<>> /\ Len(x.queue) <= x.workers - Cardinality(x.busy)

ManagerOK(x) == x \in Managers /\ OnePlace(x) /\ Pipeline(x) /\ Bounds(x) /\ Line(x)

\* Where a caller has a pool: it has made it, or holds a handle of it.
Holding == {"publish", "have", "used"}

\* Where a call is and which pool it has are there.
Calls(k) == DOMAIN k = Callers /\ \A c \in Callers : {"pc", "pool"} \subseteq DOMAIN k[c]

Held(x) == Range(x.conns) \cup Range(x.queue) \cup Range(x.pending)

\* The pools that callers are about to publish.
Unpublished(k) == {k[c].pool : c \in {d \in Callers : k[d].pc = "publish"}}

\* A pool about to be published is its maker's alone.
MakersOwn(k, mk) ==
    \A c \in Callers :
      k[c].pc = "publish" =>
        /\ k[c].pool \in mk
        /\ \A d \in Callers \ {c} : k[d].pc \in Holding => k[d].pool # k[c].pool

\* Pools that exist are known to the cache, its pipeline, Run, or their maker; all
\* these are apart, and none but those being closed is closed.
Apart(x, k, mk, dr) ==
    /\ Held(x) \cup x.busy \cup dr \cup Unpublished(k) \subseteq mk
    /\ dr \cap (Held(x) \cup x.busy) = {}
    /\ Unpublished(k) \cap (Held(x) \cup x.busy \cup dr) = {}
    /\ mk \subseteq Pools
    /\ \A c \in Callers : k[c].pc \in Holding => k[c].pool \in mk

NotClosed(x, k, mk, dr, cl) ==
    \A p \in Pools : p \in Held(x) \cup dr \cup Unpublished(k) \cup (Pools \ mk) => cl[p] = 0

Handles(k, p) == {c \in Callers : k[c].pc \in {"have", "used"} /\ k[c].pool = p}

\* HandlesCounted, of any manager and calls.
Counted(x, k) ==
    /\ DOMAIN x.refs = Range(x.conns)
    /\ \A p \in DOMAIN x.refs : x.refs[p] = 1 + Cardinality(Handles(k, p))

IInv ==
    /\ ManagerOK(m) /\ Calls(call)
    /\ closes \in [Pools -> Nat] /\ PoolClosedOnce
    /\ MakersOwn(call, made) /\ Apart(m, call, made, draining)
    /\ NotClosed(m, call, made, draining, closes)
    /\ Counted(m, call)
-----------------------------------------------------------------------------

\* Steps that concern neither the pools nor who has which.
Quiet ==
    /\ m' = m /\ made' = made /\ closes' = closes /\ draining' = draining
    /\ Calls(call')
    /\ \A c \in Callers :
         \/ call'[c] = call[c]
         \/ call[c].pc \notin Holding /\ call'[c].pc \notin Holding

\* The manager y is x with n references to the pool p.
Recount(y, x, p, n) ==
    /\ ManagerOK(y) /\ y.conns = x.conns /\ y.busy = x.busy /\ Held(y) = Held(x)
    /\ DOMAIN y.refs = DOMAIN x.refs \cup {p} /\ y.refs[p] = n
    /\ \A q \in DOMAIN x.refs \ {p} : y.refs[q] = x.refs[q]

\* What a caller's own step makes of its call.
CallIs(c, pc) ==
    /\ DOMAIN call' = Callers /\ {"pc", "pool"} \subseteq DOMAIN call'[c] /\ call'[c].pc = pc
    /\ \A d \in Callers \ {c} : call'[d] = call[d]

\* The ways a call goes on that several steps share.
LEMMA CallerMoves ==
    ASSUME Calls(call), NEW c \in Callers
    PROVE  /\ BackToLoop(c) => CallIs(c, "loop")
           /\ Return(c) => CallIs(c, "idle")
           /\ \A p : Handle(c, p) => CallIs(c, "have") /\ call'[c].pool = p
  <1> USE DEF Calls, CallIs
  <1>1. ASSUME BackToLoop(c) PROVE CallIs(c, "loop")
    <2> DEFINE a == IF call[c].mode = "fetch" THEN 1 ELSE call[c].att + 1
               r == [NoCall EXCEPT !.pc = "loop", !.need = call[c].need, !.att = a]
    <2>1. call' = [call EXCEPT ![c] = r]
      BY <1>1 DEF BackToLoop
    <2> HIDE DEF a
    <2>2. {"pc", "pool"} \subseteq DOMAIN r /\ r.pc = "loop"
      BY DEF NoCall
    <2> HIDE DEF r
    <2> QED
      BY <2>1, <2>2
  <1>2. Return(c) => CallIs(c, "idle")
    BY DEF Return, NoCall
  <1>3. ASSUME NEW p, Handle(c, p) PROVE CallIs(c, "have") /\ call'[c].pool = p
    BY <1>3 DEF Handle, NoCall
  <1> QED
    BY <1>1, <1>2, <1>3

\* The steps of a caller on its way to keys, or out of it.
LEMMA QuietSteps ==
    ASSUME Calls(call), NEW c \in Callers,
           \/ CachedKeys(c) \/ RefreshLoop(c) \/ Snapshot(c) \/ LoadCDNKeys(c) \/ Commit(c)
           \/ CallerCancelled(c)
    PROVE  Quiet
  <1> USE DEF Holding, Calls
  <1> DEFINE Same == m' = m /\ made' = made /\ closes' = closes /\ draining' = draining
  <1>1. SUFFICES /\ Same /\ call[c].pc \notin Holding
                 /\ \E pc : CallIs(c, pc) /\ pc \notin Holding
    BY DEF Quiet, CallIs
  <1>2. CASE CachedKeys(c)
    BY <1>2 DEF CachedKeys, CallIs, runVars, poolVars
  <1>3. CASE RefreshLoop(c)
    <2>1. \/ CallIs(c, "create") \/ Return(c) \/ CallIs(c, "snapshot")
      BY <1>3 DEF RefreshLoop, CallIs
    <2> QED
      BY <1>3, <2>1, CallerMoves DEF RefreshLoop, runVars, poolVars
  <1>4. CASE Snapshot(c)
    <2>1. BackToLoop(c) \/ CallIs(c, "load")
      BY <1>4 DEF Snapshot, CallIs
    <2> QED
      BY <1>4, <2>1, CallerMoves DEF Snapshot, runVars, poolVars
  <1>5. CASE LoadCDNKeys(c)
    <2>1. CallIs(c, "wait")
      BY <1>5 DEF LoadCDNKeys, CallIs
    <2> QED
      BY <1>5, <2>1 DEF LoadCDNKeys, runVars, poolVars
  <1>6. CASE Commit(c)
    <2>1. BackToLoop(c) \/ Return(c) \/ CallIs(c, "snapshot")
      BY <1>6 DEF Commit, CallIs
    <2> QED
      BY <1>6, <2>1, CallerMoves DEF Commit, runVars, poolVars
  <1>7. CASE CallerCancelled(c)
    BY <1>7, CallerMoves DEF CallerCancelled, runVars, poolVars
  <1> QED
    BY <1>2, <1>3, <1>4, <1>5, <1>6, <1>7

\* The steps that concern neither the pools nor who has which, all of them.
LEMMA OtherSteps ==
    ASSUME Calls(call),
           \/ UNCHANGED vars \/ Rotate \/ Cancel
           \/ \E c \in Callers : ResetKeys(c) \/ ForgetLoad(c)
           \/ \E f \in Flights : ServerAnswers(f) \/ DeliverKeys(f) \/ DeliverError(f)
    PROVE  Quiet
  <1> USE DEF poolVars, runVars
  <1>1. /\ Calls(call') /\ call' = call /\ m' = m /\ made' = made
        /\ closes' = closes /\ draining' = draining
        => Quiet
    BY DEF Quiet
  <1>2. call' = call => Calls(call')
    OBVIOUS
  <1>3. CASE UNCHANGED vars
    BY <1>1, <1>2, <1>3 DEF vars
  <1>4. CASE Rotate \/ Cancel
    BY <1>1, <1>2, <1>4 DEF Rotate, Cancel
  <1>5. ASSUME NEW c \in Callers, ResetKeys(c) \/ ForgetLoad(c) PROVE Quiet
    BY <1>1, <1>2, <1>5 DEF ResetKeys, ForgetLoad
  <1>6. ASSUME NEW f \in Flights, ServerAnswers(f) PROVE Quiet
    BY <1>1, <1>2, <1>6 DEF ServerAnswers
  <1>7. ASSUME NEW f \in Flights, DeliverKeys(f) PROVE Quiet
    <2>1. ASSUME NEW c \in Callers
          PROVE  /\ \/ call'[c] = call[c]
                    \/ call[c].pc \notin Holding /\ call'[c].pc \notin Holding
                 /\ {"pc", "pool"} \subseteq DOMAIN call'[c]
      BY <1>7, Zenon DEF DeliverKeys, Waiting, Holding, Calls
    <2>2. DOMAIN call' = Callers
      BY <1>7, Zenon DEF DeliverKeys
    <2> QED
      BY <1>7, <2>1, <2>2, Zenon DEF DeliverKeys, Quiet, Calls
  <1>8. ASSUME NEW f \in Flights, DeliverError(f) PROVE Quiet
    <2>1. ASSUME NEW c \in Callers
          PROVE  /\ \/ call'[c] = call[c]
                    \/ call[c].pc \notin Holding /\ call'[c].pc \notin Holding
                 /\ {"pc", "pool"} \subseteq DOMAIN call'[c]
      BY <1>8, Zenon DEF DeliverError, Waiting, Holding, Calls, NoCall
    <2>2. DOMAIN call' = Callers
      BY <1>8, Zenon DEF DeliverError
    <2> QED
      BY <1>8, <2>1, <2>2 DEF DeliverError, Quiet, Calls
  <1> QED
    BY <1>3, <1>4, <1>5, <1>6, <1>7, <1>8

\* Such a step keeps the invariant.
LEMMA QuietKeeps ==
    ASSUME IInv, Quiet
    PROVE  IInv'
  <1>1. \A c \in Callers : \/ call'[c] = call[c]
                           \/ call[c].pc \notin Holding /\ call'[c].pc \notin Holding
    BY DEF Quiet
  <1>2. Unpublished(call') = Unpublished(call)
    BY <1>1 DEF Unpublished, Holding
  <1>3. \A p : Handles(call', p) = Handles(call, p)
    BY <1>1 DEF Handles, Holding
  <1>4. MakersOwn(call', made')
    BY <1>1 DEF IInv, Quiet, MakersOwn, Holding
  <1>5. Apart(m', call', made', draining')
    BY <1>1, <1>2 DEF IInv, Quiet, Apart
  <1>6. NotClosed(m', call', made', draining', closes')
    BY <1>2 DEF IInv, Quiet, NotClosed
  <1>7. Counted(m', call')
    BY <1>3 DEF IInv, Quiet, Counted
  <1>8. ManagerOK(m') /\ Calls(call') /\ closes' \in [Pools -> Nat] /\ PoolClosedOnce'
    BY DEF IInv, Quiet, PoolClosedOnce
  <1> QED
    BY <1>4, <1>5, <1>6, <1>7, <1>8 DEF IInv

\* A caller gets a handle of a cached pool; if it had made one, it closes that.
LEMMA HitKeeps ==
    ASSUME IInv, NEW c \in Callers, NEW p \in Range(m.conns),
           call[c].pc \notin {"have", "used"}, CallIs(c, "have"), call'[c].pool = p,
           Recount(m', m, p, m.refs[p] + 1), made' = made, draining' = draining,
           \/ call[c].pc # "publish" /\ closes' = closes
           \/ call[c].pc = "publish" /\ closes' = [closes EXCEPT ![call[c].pool] = @ + 1]
    PROVE  IInv'
  <1>1. /\ ManagerOK(m) /\ Calls(call) /\ MakersOwn(call, made) /\ Apart(m, call, made, draining)
        /\ NotClosed(m, call, made, draining, closes) /\ Counted(m, call)
        /\ closes \in [Pools -> Nat] /\ PoolClosedOnce
    BY DEF IInv
  <1>2. p \in Held(m) /\ p \in made /\ p \in Pools /\ p \in DOMAIN m.refs
    BY <1>1, Zenon DEF Apart, Held, Counted
  <1>3. /\ ManagerOK(m') /\ m'.conns = m.conns /\ m'.busy = m.busy /\ Held(m') = Held(m)
        /\ DOMAIN m'.refs = DOMAIN m.refs \cup {p} /\ m'.refs[p] = m.refs[p] + 1
        /\ \A q \in DOMAIN m.refs \ {p} : m'.refs[q] = m.refs[q]
    BY Zenon DEF Recount
  <1>4. /\ DOMAIN call' = Callers /\ {"pc", "pool"} \subseteq DOMAIN call'[c]
        /\ call'[c].pc = "have" /\ \A d \in Callers \ {c} : call'[d] = call[d]
    BY Zenon DEF CallIs
  <1>5. Calls(call')
    BY <1>1, <1>4 DEF Calls
  <1>6. Unpublished(call') \subseteq Unpublished(call)
    BY <1>4 DEF Unpublished
  <1>7. \A d \in Callers : call[d].pc = "publish"
                             => call[d].pool # p /\ call[d].pool \in Unpublished(call)
    BY <1>1, <1>2, Zenon DEF Apart, Unpublished
  <1>8. MakersOwn(call', made')
    BY <1>1, <1>4, <1>7 DEF MakersOwn, Holding
  <1>9. Apart(m', call', made', draining')
    BY <1>1, <1>2, <1>3, <1>4, <1>6, Zenon DEF Apart
  <1>10. Counted(m', call')
    <2>1. Handles(call', p) = Handles(call, p) \cup {c} /\ c \notin Handles(call, p)
      BY <1>4, ZenonT(30) DEF Handles
    <2>2. \A q \in DOMAIN m.refs \ {p} : Handles(call', q) = Handles(call, q)
      BY <1>4 DEF Handles
    <2>3. IsFiniteSet(Handles(call, p))
      BY CallersAndPools, FS_Subset DEF Handles
    <2>4. /\ Cardinality(Handles(call', p)) = Cardinality(Handles(call, p)) + 1
          /\ Cardinality(Handles(call, p)) \in Nat
      BY <2>1, <2>3, FS_AddElement, FS_CardinalityType, ZenonT(30)
    <2>5. m'.refs[p] = 1 + Cardinality(Handles(call', p))
      BY <1>1, <1>2, <1>3, <2>4 DEF Counted
    <2>6. \A q \in DOMAIN m.refs \ {p} : m'.refs[q] = 1 + Cardinality(Handles(call', q))
      BY <1>1, <1>3, <2>2, Zenon DEF Counted
    <2>7. DOMAIN m'.refs = Range(m'.conns)
      BY <1>1, <1>2, <1>3, Zenon DEF Counted
    <2> QED
      BY <1>3, <2>5, <2>6, <2>7, Zenon DEF Counted
  <1>11. CASE call[c].pc # "publish" /\ closes' = closes
    <2>1. NotClosed(m', call', made', draining', closes')
      BY <1>1, <1>3, <1>6, <1>11, Zenon DEF NotClosed
    <2> QED
      BY <1>1, <1>3, <1>5, <1>8, <1>9, <1>10, <1>11, <2>1, Zenon DEF IInv, PoolClosedOnce
  <1>12. CASE call[c].pc = "publish" /\ closes' = [closes EXCEPT ![call[c].pool] = @ + 1]
    <2> DEFINE w == call[c].pool
    <2>1. w \in Unpublished(call) /\ w \in Pools /\ closes[w] = 0
      BY <1>1, <1>12, Zenon DEF Unpublished, Apart, NotClosed
    <2>2. w \notin Held(m) \cup draining /\ w \in made
      BY <1>1, <1>12, <2>1, Zenon DEF Apart
    <2>3. w \notin Unpublished(call')
      BY <1>1, <1>4, <1>12 DEF Unpublished, MakersOwn, Holding
    <2> HIDE DEF w
    <2>4. /\ closes' \in [Pools -> Nat] /\ closes'[w] = 1
          /\ \A q \in Pools \ {w} : closes'[q] = closes[q]
      BY <1>1, <1>12, <2>1 DEF w
    <2>5. PoolClosedOnce'
      BY <1>1, <2>4 DEF PoolClosedOnce
    <2>6. NotClosed(m', call', made', draining', closes')
      BY <1>1, <1>3, <1>6, <2>2, <2>3, <2>4, Zenon DEF NotClosed
    <2> QED
      BY <1>3, <1>5, <1>8, <1>9, <1>10, <2>4, <2>5, <2>6, Zenon DEF IInv
  <1> QED
    BY <1>11, <1>12

\* A pool its maker has not published is nobody else's.
LEMMA MadeIs ==
    ASSUME IInv, NEW c \in Callers, call[c].pc = "publish", NEW p, p = call[c].pool
    PROVE  /\ p \in Unpublished(call) /\ p \in Pools /\ p \in made
           /\ p \notin Held(m) \cup m.busy \cup draining /\ p \notin DOMAIN m.refs
           /\ \A d \in Callers \ {c} : call[d].pc \in Holding => call[d].pool # p
  <1>1. MakersOwn(call, made) /\ Apart(m, call, made, draining) /\ Counted(m, call)
    BY Zenon DEF IInv
  <1>2. p \in Unpublished(call)
    BY DEF Unpublished
  <1>3. p \in Pools /\ p \in made /\ p \notin Held(m) \cup m.busy \cup draining
    BY <1>1, <1>2 DEF Apart
  <1>4. p \notin DOMAIN m.refs
    BY <1>1, <1>3 DEF Counted, Held
  <1>5. \A d \in Callers \ {c} : call[d].pc \in Holding => call[d].pool # p
    BY <1>1 DEF MakersOwn
  <1> QED
    BY <1>2, <1>3, <1>4, <1>5

\* A caller caches the pool it has made and gets the first handle of it.
LEMMA NewPoolKeeps ==
    ASSUME IInv, NEW c \in Callers, NEW p, p = call[c].pool,
           call[c].pc = "publish", CallIs(c, "have"), call'[c].pool = p,
           ManagerOK(m'), m'.busy = m.busy, Held(m') = Held(m) \cup {p},
           Range(m'.conns) = Range(m.conns) \cup {p},
           DOMAIN m'.refs = DOMAIN m.refs \cup {p}, m'.refs[p] = 2,
           \A q \in DOMAIN m.refs \ {p} : m'.refs[q] = m.refs[q],
           made' = made, draining' = draining, closes' = closes
    PROVE  IInv'
  <1>1. /\ ManagerOK(m) /\ Calls(call) /\ MakersOwn(call, made) /\ Apart(m, call, made, draining)
        /\ NotClosed(m, call, made, draining, closes) /\ Counted(m, call)
        /\ closes \in [Pools -> Nat] /\ PoolClosedOnce
    BY DEF IInv
  <1>2. /\ p \in Unpublished(call) /\ p \in Pools /\ p \in made
        /\ p \notin Held(m) \cup m.busy \cup draining /\ p \notin DOMAIN m.refs
        /\ \A d \in Callers \ {c} : call[d].pc \in Holding => call[d].pool # p
    BY MadeIs, Zenon
  <1>3. /\ DOMAIN call' = Callers /\ {"pc", "pool"} \subseteq DOMAIN call'[c]
        /\ call'[c].pc = "have" /\ \A d \in Callers \ {c} : call'[d] = call[d]
    BY Zenon DEF CallIs
  <1>4. Calls(call')
    BY <1>1, <1>3, Zenon DEF Calls
  <1>5. Unpublished(call') \subseteq Unpublished(call) \ {p}
    BY <1>2, <1>3 DEF Unpublished, Holding
  <1>6. MakersOwn(call', made')
    BY <1>1, <1>2, <1>3 DEF MakersOwn, Holding
  <1>7. Apart(m', call', made', draining')
    BY <1>1, <1>2, <1>3, <1>5 DEF Apart
  <1>8. NotClosed(m', call', made', draining', closes')
    BY <1>1, <1>2, <1>5, Zenon DEF NotClosed
  <1>9. Counted(m', call')
    <2>1. Handles(call', p) = {c}
      BY <1>2, <1>3 DEF Handles, Holding
    <2>2. m'.refs[p] = 1 + Cardinality(Handles(call', p))
      BY <2>1, FS_Singleton
    <2>3. \A q \in DOMAIN m.refs : q # p /\ Handles(call', q) = Handles(call, q)
      BY <1>2, <1>3 DEF Handles
    <2>4. \A q \in DOMAIN m.refs : m'.refs[q] = 1 + Cardinality(Handles(call', q))
      BY <1>1, <2>3, Zenon DEF Counted
    <2> QED
      BY <1>1, <2>2, <2>4, Zenon DEF Counted
  <1> QED
    BY <1>1, <1>4, <1>6, <1>7, <1>8, <1>9, Zenon DEF IInv, PoolClosedOnce

\* createPool makes a pool that nobody else knows.
LEMMA CreateKeeps ==
    ASSUME IInv, NEW c \in Callers, CreatePool(c)
    PROVE  IInv'
  <1>1. /\ ManagerOK(m) /\ Calls(call) /\ MakersOwn(call, made) /\ Apart(m, call, made, draining)
        /\ NotClosed(m, call, made, draining, closes) /\ Counted(m, call)
        /\ closes \in [Pools -> Nat] /\ PoolClosedOnce
    BY DEF IInv
  <1>2. call[c].pc = "create" /\ m' = m /\ closes' = closes /\ draining' = draining
    BY DEF CreatePool, runVars
  <1>3. CASE Return(c) /\ made' = made
    <2>1. CallIs(c, "idle")
      BY <1>1, <1>3, CallerMoves
    <2>2. Quiet
      BY <1>1, <1>2, <1>3, <2>1 DEF Quiet, CallIs, Calls, Holding
    <2> QED
      BY <2>2, QuietKeeps
  <1>4. CASE \E p \in Pools \ made :
               /\ made' = made \cup {p}
               /\ call' = [call EXCEPT ![c].pc = "publish", ![c].pool = p]
    <2>1. PICK p \in Pools \ made :
               /\ made' = made \cup {p}
               /\ call' = [call EXCEPT ![c].pc = "publish", ![c].pool = p]
      BY <1>4, Zenon
    <2>2. /\ CallIs(c, "publish") /\ call'[c].pool = p
      BY <1>1, <2>1 DEF CallIs, Calls
    <2>3. /\ DOMAIN call' = Callers /\ {"pc", "pool"} \subseteq DOMAIN call'[c]
          /\ call'[c].pc = "publish" /\ \A d \in Callers \ {c} : call'[d] = call[d]
      BY <2>2 DEF CallIs
    <2>4. Calls(call')
      BY <1>1, <2>3 DEF Calls
    <2>5. Unpublished(call') = Unpublished(call) \cup {p}
      BY <1>2, <2>2, <2>3 DEF Unpublished
    <2>6. /\ p \notin Held(m) \cup m.busy \cup draining
          /\ \A d \in Callers : call[d].pc \in Holding => call[d].pool # p
      BY <1>1, <2>1 DEF Apart
    <2>7. MakersOwn(call', made')
      BY <1>1, <1>2, <2>1, <2>2, <2>3, <2>6 DEF MakersOwn, Holding
    <2>8. Apart(m', call', made', draining')
      BY <1>1, <1>2, <2>1, <2>2, <2>3, <2>5, <2>6, ZenonT(30) DEF Apart
    <2>9. NotClosed(m', call', made', draining', closes')
      BY <1>1, <1>2, <2>1, <2>5 DEF NotClosed
    <2>10. Counted(m', call')
      <3>1. \A q : Handles(call', q) = Handles(call, q)
        BY <1>2, <2>3 DEF Handles
      <3> QED
        BY <1>1, <1>2, <3>1, Zenon DEF Counted
    <2> QED
      BY <1>1, <1>2, <2>4, <2>7, <2>8, <2>9, <2>10, Zenon DEF IInv, PoolClosedOnce
  <1> QED
    BY <1>3, <1>4 DEF CreatePool, poolVars

\* A request through a handle.
LEMMA UseKeeps ==
    ASSUME IInv, NEW c \in Callers, Use(c)
    PROVE  IInv'
  <1>1. /\ ManagerOK(m) /\ Calls(call) /\ MakersOwn(call, made) /\ Apart(m, call, made, draining)
        /\ NotClosed(m, call, made, draining, closes) /\ Counted(m, call)
        /\ closes \in [Pools -> Nat] /\ PoolClosedOnce
    BY DEF IInv
  <1>2. /\ call[c].pc = "have" /\ m' = m /\ closes' = closes /\ draining' = draining /\ made' = made
        /\ call' = [call EXCEPT ![c].pc = "used"]
    BY DEF Use, Goto, poolVars, runVars
  <1>3. /\ DOMAIN call' = Callers /\ {"pc", "pool"} \subseteq DOMAIN call'[c]
        /\ call'[c].pc = "used" /\ call'[c].pool = call[c].pool
        /\ \A d \in Callers \ {c} : call'[d] = call[d]
    BY <1>1, <1>2 DEF Calls
  <1>4. Calls(call')
    BY <1>1, <1>3 DEF Calls
  <1>5. Unpublished(call') = Unpublished(call)
    BY <1>2, <1>3 DEF Unpublished
  <1>6. MakersOwn(call', made')
    BY <1>1, <1>2, <1>3 DEF MakersOwn, Holding
  <1>7. Apart(m', call', made', draining')
    BY <1>1, <1>2, <1>3, <1>5, Zenon DEF Apart, Holding
  <1>8. NotClosed(m', call', made', draining', closes')
    BY <1>1, <1>2, <1>5 DEF NotClosed
  <1>9. Counted(m', call')
    <2>1. \A q : Handles(call', q) = Handles(call, q)
      BY <1>2, <1>3 DEF Handles
    <2> QED
      BY <1>1, <1>2, <2>1, Zenon DEF Counted
  <1> QED
    BY <1>1, <1>2, <1>4, <1>6, <1>7, <1>8, <1>9 DEF IInv, PoolClosedOnce

\* A cached pool with a handle has a second reference, its cache's.
LEMMA NotLast ==
    ASSUME IInv, NEW c \in Callers, call[c].pc = "used", NEW p \in DOMAIN m.refs, p = call[c].pool
    PROVE  m.refs[p] >= 2
  <1>1. c \in Handles(call, p) /\ IsFiniteSet(Handles(call, p))
    BY CallersAndPools, FS_Subset, Zenon DEF Handles
  <1>2. Cardinality(Handles(call, p)) \in Nat /\ Cardinality(Handles(call, p)) # 0
    BY <1>1, FS_CardinalityType, FS_EmptySet
  <1>3. m.refs[p] = 1 + Cardinality(Handles(call, p))
    BY Zenon DEF IInv, Counted
  <1> QED
    BY <1>2, <1>3

\* A caller gives back its handle, and the pool stays open.
LEMMA ReleaseKeeps ==
    ASSUME IInv, NEW c \in Callers, NEW p, p = call[c].pool,
           call[c].pc = "used", CallIs(c, "idle"),
           ManagerOK(m'), m'.conns = m.conns, m'.busy = m.busy, Held(m') = Held(m),
           DOMAIN m'.refs = DOMAIN m.refs, p \in DOMAIN m.refs => m'.refs[p] = m.refs[p] - 1,
           \A q \in DOMAIN m.refs \ {p} : m'.refs[q] = m.refs[q],
           made' = made, draining' = draining, closes' = closes
    PROVE  IInv'
  <1>1. /\ ManagerOK(m) /\ Calls(call) /\ MakersOwn(call, made) /\ Apart(m, call, made, draining)
        /\ NotClosed(m, call, made, draining, closes) /\ Counted(m, call)
        /\ closes \in [Pools -> Nat] /\ PoolClosedOnce
    BY DEF IInv
  <1>2. /\ DOMAIN call' = Callers /\ {"pc", "pool"} \subseteq DOMAIN call'[c]
        /\ call'[c].pc = "idle" /\ \A d \in Callers \ {c} : call'[d] = call[d]
    BY Zenon DEF CallIs
  <1>3. Calls(call')
    BY <1>1, <1>2, Zenon DEF Calls
  <1>4. Unpublished(call') = Unpublished(call)
    BY <1>2 DEF Unpublished
  <1>5. MakersOwn(call', made')
    BY <1>1, <1>2 DEF MakersOwn, Holding
  <1>6. Apart(m', call', made', draining')
    BY <1>1, <1>2, <1>4, Zenon DEF Apart, Holding
  <1>7. NotClosed(m', call', made', draining', closes')
    BY <1>1, <1>4, Zenon DEF NotClosed
  <1>8. Counted(m', call')
    <2>1. c \in Handles(call, p) /\ IsFiniteSet(Handles(call, p))
      BY CallersAndPools, FS_Subset, Zenon DEF Handles
    <2>2. /\ Handles(call', p) = Handles(call, p) \ {c}
          /\ \A q : q # p => Handles(call', q) = Handles(call, q)
      BY <1>2, ZenonT(30) DEF Handles
    <2>3. /\ Cardinality(Handles(call', p)) = Cardinality(Handles(call, p)) - 1
          /\ Cardinality(Handles(call', p)) \in Nat /\ Cardinality(Handles(call, p)) \in Nat
      BY <2>1, <2>2, FS_RemoveElement, FS_CardinalityType, Zenon
    <2>4. p \in DOMAIN m.refs => m'.refs[p] = 1 + Cardinality(Handles(call', p))
      <3>1. p \in DOMAIN m.refs => /\ m.refs[p] = 1 + Cardinality(Handles(call, p))
                                  /\ m'.refs[p] = m.refs[p] - 1
        BY <1>1, Zenon DEF Counted
      <3> QED
        BY <2>3, <3>1
    <2>5. \A q \in DOMAIN m.refs \ {p} : m'.refs[q] = 1 + Cardinality(Handles(call', q))
      BY <1>1, <2>2, Zenon DEF Counted
    <2> QED
      BY <1>1, <2>4, <2>5, Zenon DEF Counted
  <1> QED
    BY <1>1, <1>3, <1>5, <1>6, <1>7, <1>8, Zenon DEF IInv, PoolClosedOnce

\* The steps of the close pipeline and of Run's cleanup leave the calls alone: they
\* move pools from place to place, and close those that leave the queue or Run's list.
LEMMA PipelineKeeps ==
    ASSUME IInv, ManagerOK(m'), call' = call, made' = made,
           \/ m'.conns = m.conns /\ m'.refs = m.refs
           \/ Range(m'.conns) = {} /\ DOMAIN m'.refs = {},
           Held(m') \cup draining' \subseteq Held(m) \cup draining, Held(m') \cap draining' = {},
           m'.busy \subseteq m.busy \cup (Held(m) \ (Held(m') \cup draining')),
           \/ closes' = closes
           \/ \E p \in (Held(m) \cup draining) \ (Held(m') \cup draining') :
                closes' = [closes EXCEPT ![p] = @ + 1]
    PROVE  IInv'
  <1>1. /\ Calls(call) /\ MakersOwn(call, made) /\ Apart(m, call, made, draining)
        /\ NotClosed(m, call, made, draining, closes)
        /\ closes \in [Pools -> Nat] /\ PoolClosedOnce
    BY Zenon DEF IInv
  <1>2. Held(m) \cap m.busy = {}
    BY Zenon DEF IInv, ManagerOK, OnePlace, Held
  <1>3. Apart(m', call', made', draining') /\ Counted(m', call')
    <2>1. Apart(m', call', made', draining')
      BY <1>1, <1>2, Zenon DEF Apart
    <2>2. Counted(m', call')
      BY Zenon DEF IInv, Counted
    <2> QED
      BY <2>1, <2>2
  <1>4. CASE closes' = closes
    <2>1. NotClosed(m', call', made', draining', closes')
      BY <1>1, <1>4, Zenon DEF NotClosed
    <2> QED
      BY <1>1, <1>3, <1>4, <2>1, Zenon DEF IInv, PoolClosedOnce
  <1>5. ASSUME NEW p \in (Held(m) \cup draining) \ (Held(m') \cup draining'),
               closes' = [closes EXCEPT ![p] = @ + 1]
        PROVE  IInv'
    <2>1. p \in Pools /\ p \in made /\ p \notin Unpublished(call) /\ closes[p] = 0
      BY <1>1, Zenon DEF Apart, NotClosed
    <2>2. /\ closes' \in [Pools -> Nat] /\ closes'[p] = 1
          /\ \A q \in Pools \ {p} : closes'[q] = closes[q]
      BY <1>1, <1>5, <2>1
    <2>3. PoolClosedOnce'
      BY <1>1, <2>2 DEF PoolClosedOnce
    <2>4. NotClosed(m', call', made', draining', closes')
      BY <1>1, <2>1, <2>2, Zenon DEF NotClosed
    <2> QED
      BY <1>1, <1>3, <2>2, <2>3, <2>4, Zenon DEF IInv
  <1> QED
    BY <1>4, <1>5, Zenon

-----------------------------------------------------------------------------
\* Induction over the rounds of a loop, by the least round that is not in T.
LEMMA Rounds ==
    ASSUME NEW N \in Nat, NEW T, 0 \in T, \A n \in 1..N : n - 1 \in T => n \in T
    PROVE  \A n \in 0..N : n \in T
  <1> DEFINE R == OpToRel(<, Nat)
             S == (0..N) \ T
  <1>1. SUFFICES ASSUME S # {} PROVE FALSE
    OBVIOUS
  <1>2. IsWellFoundedOn(R, Nat)
    BY NatLessThanWellFounded, Zenon
  <1>3. S \subseteq Nat
    OBVIOUS
  <1> HIDE DEF R, S
  <1>4. PICK x \in S : \A y \in S : ~ (<<y, x>> \in R)
    BY <1>1, <1>2, <1>3, WFMin, Zenon
  <1>5. \A y \in S : ~ (y < x)
    BY <1>3, <1>4, Zenon DEF R, OpToRel
  <1> QED
    BY <1>5 DEF S

\* The bodies of loops over 1..N on the states S.
Bodies(N, S) == [(1..N) \X S -> S]

\* A loop over 1..N whose body takes a state of S to one of S has a run.
LEMMA LoopRuns ==
    ASSUME NEW N \in Nat, NEW S, NEW a \in S, NEW step \in Bodies(N, S)
    PROVE  \E f \in [0..N -> S] : f[0] = a /\ \A n \in 1..N : f[n] = step[<<n, f[n - 1]>>]
  <1> USE DEF Bodies
  <1> DEFINE Run(k, g) == /\ g \in [0..k -> S] /\ g[0] = a
                          /\ \A n \in 1..k : g[n] = step[<<n, g[n - 1]>>]
             T == {k \in 0..N : \E g : Run(k, g)}
  <1>1. 0 \in T
    <2>1. Run(0, [n \in 0..0 |-> a])
      OBVIOUS
    <2> HIDE DEF Run
    <2> QED
      BY <2>1
  <1>2. ASSUME NEW n \in 1..N, n - 1 \in T PROVE n \in T
    <2>1. PICK g : Run(n - 1, g)
      BY <1>2
    <2> DEFINE next == [i \in 0..n |-> IF i = n THEN step[<<n, g[n - 1]>>] ELSE g[i]]
    <2>2. g[n - 1] \in S
      BY <2>1
    <2>3. step[<<n, g[n - 1]>>] \in S
      BY <2>2
    <2>4. Run(n, next)
      <3>1. next \in [0..n -> S] /\ next[0] = a
        BY <2>1, <2>3
      <3>2. ASSUME NEW i \in 1..n PROVE next[i] = step[<<i, next[i - 1]>>]
        <4>1. CASE i = n
          <5>1. next[n] = step[<<n, g[n - 1]>>] /\ next[n - 1] = g[n - 1]
            OBVIOUS
          <5> QED
            BY <4>1, <5>1, Zenon
        <4>2. CASE i # n
          BY <2>1, <4>2
        <4> QED
          BY <4>1, <4>2
      <3> QED
        BY <3>1, <3>2, Zenon
    <2> HIDE DEF Run
    <2> QED
      BY <2>4
  <1> HIDE DEF T
  <1>3. N \in T
    BY <1>1, <1>2, Rounds
  <1>4. PICK g : Run(N, g)
    BY <1>3 DEF T
  <1> QED
    BY <1>4


\* Go maps under assignment and deletion.
LEMMA MapsAre ==
    ASSUME NEW V, NEW f \in Maps(V)
    PROVE  /\ DOMAIN f \subseteq Pools /\ \A p \in DOMAIN f : f[p] \in V
           /\ \A p \in Pools, v \in V :
                /\ Put(f, p, v) \in Maps(V) /\ DOMAIN Put(f, p, v) = DOMAIN f \cup {p}
                /\ Put(f, p, v)[p] = v
                /\ \A q \in DOMAIN f \ {p} : Put(f, p, v)[q] = f[q]
           /\ \A P : /\ Delete(f, P) \in Maps(V) /\ DOMAIN Delete(f, P) = DOMAIN f \ P
                     /\ \A q \in DOMAIN f \ P : Delete(f, P)[q] = f[q]
           /\ \A p \in DOMAIN f, v \in V : [f EXCEPT ![p] = v] \in Maps(V)
  <1>1. PICK D \in SUBSET Pools : f \in [D -> V]
    BY DEF Maps
  <1>2. ASSUME NEW p \in Pools, NEW v \in V
        PROVE  Put(f, p, v) \in [D \cup {p} -> V]
    BY <1>1 DEF Put
  <1>3. ASSUME NEW P
        PROVE  Delete(f, P) \in [D \ P -> V]
    BY <1>1 DEF Delete
  <1>4. ASSUME NEW p \in D, NEW v \in V
        PROVE  [f EXCEPT ![p] = v] \in [D -> V]
    BY <1>1
  <1>5. \A E \in SUBSET Pools : \A g \in [E -> V] : g \in Maps(V)
    BY DEF Maps
  <1>6. ASSUME NEW p \in Pools, NEW v \in V
        PROVE  /\ Put(f, p, v) \in Maps(V) /\ DOMAIN Put(f, p, v) = DOMAIN f \cup {p}
               /\ Put(f, p, v)[p] = v
               /\ \A q \in DOMAIN f \ {p} : Put(f, p, v)[q] = f[q]
    <2>1. D \cup {p} \in SUBSET Pools
      OBVIOUS
    <2>2. Put(f, p, v) \in Maps(V)
      BY <1>2, <1>5, <2>1, Zenon
    <2> QED
      BY <2>2 DEF Put
  <1>7. ASSUME NEW P
        PROVE  /\ Delete(f, P) \in Maps(V) /\ DOMAIN Delete(f, P) = DOMAIN f \ P
               /\ \A q \in DOMAIN f \ P : Delete(f, P)[q] = f[q]
    <2>1. D \ P \in SUBSET Pools
      OBVIOUS
    <2>2. Delete(f, P) \in Maps(V)
      BY <1>3, <1>5, <2>1, Zenon
    <2> QED
      BY <2>2 DEF Delete
  <1>8. \A p \in DOMAIN f, v \in V : [f EXCEPT ![p] = v] \in Maps(V)
    BY <1>1, <1>4, <1>5, Zenon
  <1> QED
    BY <1>1, <1>6, <1>7, <1>8, Zenon

\* A map that has just been made.
LEMMA EmptyMap ==
    ASSUME NEW V
    PROVE  <<>> \in Maps(V) /\ DOMAIN <<>> = {}
  <1>1. <<>> \in [{} -> V]
    OBVIOUS
  <1> QED
    BY <1>1 DEF Maps

\* The elements of a queue that something is put into or taken from.
LEMMA QueueIs ==
    ASSUME NEW q \in Seq(Pools)
    PROVE  /\ \A p \in Pools : /\ Append(q, p) \in Seq(Pools) /\ Append(q, p) # <<>>
                               /\ Len(Append(q, p)) = Len(q) + 1
                               /\ Range(Append(q, p)) = Range(q) \cup {p}
                               /\ IsInjective(q) /\ p \notin Range(q) => IsInjective(Append(q, p))
           /\ q # <<>> => /\ Tail(q) \in Seq(Pools) /\ Len(Tail(q)) = Len(q) - 1
                          /\ Head(q) \in Pools /\ Range(q) = {Head(q)} \cup Range(Tail(q))
                          /\ IsInjective(q) => IsInjective(Tail(q)) /\ Head(q) \notin Range(Tail(q))
           /\ Range(q) \subseteq Pools /\ Len(q) \in Nat
           /\ q = <<>> <=> Len(q) = 0
  <1> USE DEF Range, IsInjective
  <1>1. DOMAIN q = 1 .. Len(q) /\ Len(q) \in Nat /\ (q = <<>> <=> Len(q) = 0)
    OBVIOUS
  <1>2. Range(q) \subseteq Pools
    OBVIOUS
  <1>3. ASSUME NEW p \in Pools
        PROVE  /\ Append(q, p) \in Seq(Pools) /\ Append(q, p) # <<>>
               /\ Len(Append(q, p)) = Len(q) + 1
               /\ Range(Append(q, p)) = Range(q) \cup {p}
               /\ IsInjective(q) /\ p \notin Range(q) => IsInjective(Append(q, p))
    <2>1. /\ Append(q, p) \in Seq(Pools) /\ Len(Append(q, p)) = Len(q) + 1
          /\ DOMAIN Append(q, p) = 1 .. Len(q) + 1
      OBVIOUS
    <2>2. \A i \in 1 .. Len(q) : Append(q, p)[i] = q[i]
      OBVIOUS
    <2>3. Append(q, p)[Len(q) + 1] = p
      OBVIOUS
    <2>4. Range(Append(q, p)) = Range(q) \cup {p}
      BY <1>1, <2>1, <2>2, <2>3
    <2>5. IsInjective(q) /\ p \notin Range(q) => IsInjective(Append(q, p))
      <3>1. SUFFICES ASSUME IsInjective(q), p \notin Range(q),
                            NEW i \in 1 .. Len(q) + 1, NEW j \in 1 .. Len(q) + 1,
                            Append(q, p)[i] = Append(q, p)[j]
                     PROVE  i = j
        BY <2>1
      <3>2. i \in 1 .. Len(q) \/ i = Len(q) + 1
        BY <1>1
      <3>3. j \in 1 .. Len(q) \/ j = Len(q) + 1
        BY <1>1
      <3> QED
        BY <1>1, <2>2, <2>3, <3>1, <3>2, <3>3, Zenon
    <2> QED
      BY <2>1, <2>4, <2>5
  <1>4. ASSUME q # <<>>
        PROVE  /\ Tail(q) \in Seq(Pools) /\ Len(Tail(q)) = Len(q) - 1
               /\ Head(q) \in Pools /\ Range(q) = {Head(q)} \cup Range(Tail(q))
               /\ IsInjective(q) => IsInjective(Tail(q)) /\ Head(q) \notin Range(Tail(q))
    <2>1. Tail(q) \in Seq(Pools) /\ Len(Tail(q)) = Len(q) - 1 /\ Head(q) \in Pools /\ Head(q) = q[1]
      BY <1>4
    <2>2. DOMAIN Tail(q) = 1 .. Len(q) - 1 /\ \A i \in 1 .. Len(q) - 1 : Tail(q)[i] = q[i + 1]
      BY <1>4
    <2>3. \A i \in 1 .. Len(q) : i = 1 \/ i - 1 \in 1 .. Len(q) - 1
      BY <1>1
    <2>4. 1 \in 1 .. Len(q)
      BY <1>1, <1>4
    <2>5. Range(q) = {Head(q)} \cup Range(Tail(q))
      <3>1. ASSUME NEW i \in 1 .. Len(q) PROVE q[i] = Head(q) \/ q[i] \in Range(Tail(q))
        <4>1. CASE i # 1
          <5>1. i - 1 \in 1 .. Len(q) - 1 /\ (i - 1) + 1 = i
            BY <2>3, <4>1
          <5>2. Tail(q)[i - 1] = q[i]
            BY <2>2, <5>1
          <5> QED
            BY <2>2, <5>1, <5>2, Zenon
        <4> QED
          BY <2>1, <4>1
      <3>2. ASSUME NEW i \in 1 .. Len(q) - 1 PROVE Tail(q)[i] \in Range(q)
        BY <1>1, <2>2
      <3> QED
        BY <1>1, <2>1, <2>2, <2>4, <3>1, <3>2, ZenonT(30)
    <2>6. ASSUME IsInjective(q) PROVE IsInjective(Tail(q)) /\ Head(q) \notin Range(Tail(q))
      BY <1>1, <2>1, <2>2, <2>4, <2>6
    <2> QED
      BY <2>1, <2>5, <2>6, Zenon
  <1> QED
    BY <1>1, <1>2, <1>3, <1>4, Zenon

\* What the loops of the close pipeline keep, from manager x to manager y, while
\* they add the pools of P to those that are queued or pending.
Moved(y, x, P) ==
    /\ y \in Managers /\ y.conns = x.conns /\ y.refs = x.refs
    /\ y.busy = x.busy /\ y.workers = x.workers
    /\ OnePlace(y) /\ Pipeline(y) /\ Len(y.queue) <= MaxCloseQueue
    /\ Range(y.queue) \cup Range(y.pending) = Range(x.queue) \cup Range(x.pending) \cup P

\* One stale pool that the pipeline does not know is queued or becomes pending.
LEMMA EnqueueOneIs ==
    ASSUME NEW y \in Managers, NEW p \in Pools
    PROVE  /\ EnqueueOne(y, p) \in Managers
           /\ \A x, P :
                /\ Moved(y, x, P)
                /\ p \notin Range(y.conns) \cup Range(y.queue) \cup Range(y.pending) \cup y.busy
                => Moved(EnqueueOne(y, p), x, P \cup {p})
  <1> DEFINE z == EnqueueOne(y, p)
  <1>1. /\ y.queue \in Seq(Pools) /\ y.pending \in Seq(Pools) /\ y.closing \in Maps(BOOLEAN)
        /\ y.conns \in Seq(Pools)
    BY DEF Managers
  <1>2. CASE p \in DOMAIN y.closing
    BY <1>2, Zenon DEF EnqueueOne, Moved, Pipeline
  <1>3. CASE p \notin DOMAIN y.closing /\ Len(y.queue) < MaxCloseQueue
    <2>1. z = [y EXCEPT !.closing = Put(y.closing, p, TRUE), !.queue = Append(y.queue, p)]
      BY <1>3 DEF EnqueueOne
    <2>2. Put(y.closing, p, TRUE) \in Maps(BOOLEAN) /\ Append(y.queue, p) \in Seq(Pools)
      BY <1>1, MapsAre, QueueIs, Zenon
    <2>3. /\ z \in Managers /\ z.conns = y.conns /\ z.refs = y.refs
          /\ z.busy = y.busy /\ z.workers = y.workers /\ z.pending = y.pending
          /\ z.closing = Put(y.closing, p, TRUE) /\ z.queue = Append(y.queue, p)
      BY <2>1, <2>2, Zenon DEF Managers
    <2> HIDE DEF z
    <2>4. ASSUME NEW x, NEW P, Moved(y, x, P),
                 p \notin Range(y.conns) \cup Range(y.queue) \cup Range(y.pending) \cup y.busy
          PROVE  Moved(z, x, P \cup {p})
      <3>1. Range(z.queue) = Range(y.queue) \cup {p} /\ Len(z.queue) <= MaxCloseQueue
        BY <1>1, <1>3, <2>3, QueueIs, CloseBounds
      <3>2. OnePlace(z)
        <4>1. IsInjective(z.queue)
          <5>1. IsInjective(y.queue) /\ p \notin Range(y.queue)
            BY <2>4, Zenon DEF Moved, OnePlace
          <5> QED
            BY <1>1, <2>3, <5>1, QueueIs
        <4> QED
          BY <2>3, <2>4, <3>1, <4>1, ZenonT(30) DEF Moved, OnePlace
      <3>3. Pipeline(z)
        <4>1. DOMAIN z.closing = DOMAIN y.closing \cup {p}
          BY <2>3 DEF Put
        <4>2. \A q \in DOMAIN y.closing \ {p} : z.closing[q] = y.closing[q]
          BY <2>3, Zenon DEF Put
        <4> QED
          BY <2>3, <2>4, <3>1, <4>1, <4>2, Zenon DEF Moved, Pipeline
      <3> QED
        BY <2>3, <2>4, <3>1, <3>2, <3>3, Zenon DEF Moved
    <2> QED
      BY <2>3, <2>4 DEF z
  <1>4. CASE p \notin DOMAIN y.closing /\ ~(Len(y.queue) < MaxCloseQueue)
    <2>1. z = [y EXCEPT !.closing = Put(y.closing, p, FALSE), !.pending = Append(y.pending, p)]
      BY <1>4 DEF EnqueueOne
    <2>2. Put(y.closing, p, FALSE) \in Maps(BOOLEAN) /\ Append(y.pending, p) \in Seq(Pools)
      BY <1>1, MapsAre, QueueIs, Zenon
    <2>3. /\ z \in Managers /\ z.conns = y.conns /\ z.refs = y.refs
          /\ z.busy = y.busy /\ z.workers = y.workers /\ z.queue = y.queue
          /\ z.closing = Put(y.closing, p, FALSE) /\ z.pending = Append(y.pending, p)
      BY <2>1, <2>2, Zenon DEF Managers
    <2> HIDE DEF z
    <2>4. ASSUME NEW x, NEW P, Moved(y, x, P),
                 p \notin Range(y.conns) \cup Range(y.queue) \cup Range(y.pending) \cup y.busy
          PROVE  Moved(z, x, P \cup {p})
      <3>1. Range(z.pending) = Range(y.pending) \cup {p}
        BY <1>1, <2>3, QueueIs
      <3>2. OnePlace(z)
        <4>1. IsInjective(z.pending)
          <5>1. IsInjective(y.pending) /\ p \notin Range(y.pending)
            BY <2>4, Zenon DEF Moved, OnePlace
          <5> QED
            BY <1>1, <2>3, <5>1, QueueIs
        <4> QED
          BY <2>3, <2>4, <3>1, <4>1, ZenonT(30) DEF Moved, OnePlace
      <3>3. Pipeline(z)
        <4>1. DOMAIN z.closing = DOMAIN y.closing \cup {p} /\ z.closing[p] = FALSE
          BY <2>3 DEF Put
        <4>2. \A q \in DOMAIN y.closing \ {p} : z.closing[q] = y.closing[q]
          BY <2>3, Zenon DEF Put
        <4> QED
          BY <2>3, <2>4, <3>1, <4>1, <4>2, Zenon DEF Moved, Pipeline
      <3> QED
        BY <2>3, <2>4, <3>1, <3>2, <3>3, Zenon DEF Moved
    <2> QED
      BY <2>3, <2>4 DEF z
  <1> QED
    BY <1>2, <1>3, <1>4

\* A round of refillCloseQueueLocked: the pool that waits longest is queued.
LEMMA RefillOneIs ==
    ASSUME NEW y \in Managers, y.pending # <<>>
    PROVE  /\ RefillOne(y) \in Managers
           /\ \A x : Moved(y, x, {}) /\ Len(y.queue) < MaxCloseQueue
                     => /\ Moved(RefillOne(y), x, {})
                        /\ Len(RefillOne(y).pending) = Len(y.pending) - 1
  <1> DEFINE z == RefillOne(y)
             p == Head(y.pending)
  <1>1. /\ y.queue \in Seq(Pools) /\ y.pending \in Seq(Pools) /\ y.closing \in Maps(BOOLEAN)
        /\ y.conns \in Seq(Pools)
    BY Zenon DEF Managers
  <1>2. /\ Tail(y.pending) \in Seq(Pools) /\ Len(Tail(y.pending)) = Len(y.pending) - 1
        /\ p \in Pools /\ Range(y.pending) = {p} \cup Range(Tail(y.pending))
        /\ IsInjective(y.pending) => IsInjective(Tail(y.pending)) /\ p \notin Range(Tail(y.pending))
    BY <1>1, QueueIs, Zenon
  <1> HIDE DEF p
  <1>3. CASE ~(p \in DOMAIN y.closing /\ ~y.closing[p])
    <2>1. z = [y EXCEPT !.pending = Tail(y.pending)]
      BY <1>3 DEF RefillOne, p
    <2>2. z \in Managers
      BY <1>2, <2>1, Zenon DEF Managers
    <2> QED
      BY <1>2, <1>3, <2>2 DEF Moved, Pipeline
  <1>4. CASE p \in DOMAIN y.closing /\ ~y.closing[p]
    <2>1. z = [[y EXCEPT !.pending = Tail(y.pending)]
                EXCEPT !.closing[p] = TRUE, !.queue = Append(y.queue, p)]
      BY <1>4 DEF RefillOne, p
    <2>2. [y.closing EXCEPT ![p] = TRUE] \in Maps(BOOLEAN) /\ Append(y.queue, p) \in Seq(Pools)
      BY <1>1, <1>2, <1>4, MapsAre, QueueIs, Zenon
    <2>3. /\ z \in Managers /\ z.conns = y.conns /\ z.refs = y.refs
          /\ z.busy = y.busy /\ z.workers = y.workers /\ z.pending = Tail(y.pending)
          /\ z.closing = [y.closing EXCEPT ![p] = TRUE] /\ z.queue = Append(y.queue, p)
      BY <1>2, <2>1, <2>2, Zenon DEF Managers
    <2> HIDE DEF z
    <2>4. ASSUME NEW x, Moved(y, x, {}), Len(y.queue) < MaxCloseQueue
          PROVE  Moved(z, x, {})
      <3>1. Range(z.queue) = Range(y.queue) \cup {p} /\ Len(z.queue) <= MaxCloseQueue
        BY <1>1, <1>2, <2>3, <2>4, QueueIs, CloseBounds
      <3>2. OnePlace(z)
        <4>1. IsInjective(z.queue) /\ IsInjective(z.pending) /\ p \notin Range(z.pending)
          <5>1. IsInjective(y.queue) /\ IsInjective(y.pending) /\ p \notin Range(y.queue)
            BY <1>2, <2>4, Zenon DEF Moved, OnePlace
          <5>2. IsInjective(Append(y.queue, p))
            BY <1>1, <1>2, <5>1, QueueIs, Zenon
          <5> QED
            BY <1>2, <2>3, <5>1, <5>2, Zenon
        <4> QED
          BY <1>2, <2>3, <2>4, <3>1, <4>1, Zenon DEF Moved, OnePlace
      <3>3. Pipeline(z)
        <4>1. DOMAIN z.closing = DOMAIN y.closing
          BY <2>3
        <4>2. \A q \in DOMAIN y.closing \ {p} : z.closing[q] = y.closing[q]
          BY <2>3, Zenon
        <4>3. p \notin Range(z.pending)
          BY <1>2, <2>3, <2>4 DEF Moved, OnePlace
        <4> QED
          BY <1>2, <2>3, <2>4, <3>1, <4>1, <4>2, <4>3, Zenon DEF Moved, Pipeline
      <3> QED
        BY <1>2, <2>3, <2>4, <3>1, <3>2, <3>3, Zenon DEF Moved
    <2> QED
      BY <1>2, <2>3, <2>4 DEF z
  <1> QED
    BY <1>3, <1>4

\* The loop of enqueueCloseLocked hands all stale pools to the pipeline.
LEMMA EnqueueAllIs ==
    ASSUME NEW x \in Managers, NEW stale \in Seq(Pools), IsInjective(stale), Moved(x, x, {}),
           Range(stale) \cap (Range(x.conns) \cup Range(x.queue) \cup Range(x.pending) \cup x.busy) = {}
    PROVE  Moved(EnqueueAll(x, stale), x, Range(stale))
  <1>1. SUFFICES ASSUME NEW N \in Nat, N = Len(stale)
                 PROVE  Moved(EnqueueAll(x, stale), x, Range(stale))
    OBVIOUS
  <1> DEFINE body == [s \in (1..N) \X Managers |-> EnqueueOne(s[2], stale[s[1]])]
             After == CHOOSE f : f = [n \in 0..N |-> IF n = 0 THEN x ELSE EnqueueOne(f[n - 1], stale[n])]
             Stale(n) == {stale[i] : i \in 1..n}
             T == {n \in 0..N : Moved(After[n], x, Stale(n))}
  <1>2. EnqueueAll(x, stale) = After[N]
    BY <1>1 DEF EnqueueAll
  <1>3. \A n \in 1..N : stale[n] \in Pools
    BY <1>1
  <1> HIDE DEF After
  <1>4. After = [n \in 0..N |-> IF n = 0 THEN x ELSE EnqueueOne(After[n - 1], stale[n])]
    <2>1. body \in [(1..N) \X Managers -> Managers]
      <3>1. ASSUME NEW s \in (1..N) \X Managers PROVE EnqueueOne(s[2], stale[s[1]]) \in Managers
        BY <1>3, EnqueueOneIs
      <3> QED
        BY <3>1
    <2>2. PICK step : step = body
      BY Zenon
    <2>3. step \in Bodies(N, Managers)
      BY <2>1, <2>2, Zenon DEF Bodies
    <2> HIDE DEF body
    <2>4. PICK f \in [0..N -> Managers] : f[0] = x /\ \A n \in 1..N : f[n] = step[<<n, f[n - 1]>>]
      BY <2>3, LoopRuns
    <2>5. ASSUME NEW n \in 1..N PROVE f[n] = EnqueueOne(f[n - 1], stale[n])
      <3>1. f[n - 1] \in Managers
        BY <2>4
      <3> QED
        BY <2>2, <2>4, <3>1, Zenon DEF body
    <2>6. f = [n \in 0..N |-> IF n = 0 THEN x ELSE EnqueueOne(f[n - 1], stale[n])]
      BY <2>4, <2>5
    <2> QED
      BY <2>6, Zenon DEF After
  <1>5. 0 \in T
    <2>1. After[0] = x /\ Stale(0) = {}
      BY <1>4
    <2> HIDE DEF Stale
    <2>2. 0 \in 0..N
      OBVIOUS
    <2>3. Moved(After[0], x, Stale(0))
      BY <2>1, Zenon
    <2> QED
      BY <2>2, <2>3, Zenon
  <1>6. ASSUME NEW n \in 1..N, n - 1 \in T PROVE n \in T
    <2>1. Moved(After[n - 1], x, Stale(n - 1))
      BY <1>6
    <2>2. After[n] = EnqueueOne(After[n - 1], stale[n])
      BY <1>4
    <2>3. stale[n] \notin Stale(n - 1)
      BY <1>1 DEF IsInjective
    <2>4. Stale(n) = Stale(n - 1) \cup {stale[n]}
      OBVIOUS
    <2>5. stale[n] \in Pools /\ stale[n] \in Range(stale)
      BY <1>1, <1>3 DEF Range
    <2> HIDE DEF Stale
    <2> DEFINE y == After[n - 1]
    <2> HIDE DEF y
    <2>6. /\ y \in Managers
          /\ stale[n] \notin Range(y.conns) \cup Range(y.queue) \cup Range(y.pending) \cup y.busy
      BY <2>1, <2>3, <2>5, Zenon DEF Moved, y
    <2>7. Moved(EnqueueOne(y, stale[n]), x, Stale(n - 1) \cup {stale[n]})
      BY <2>1, <2>5, <2>6, EnqueueOneIs, Zenon DEF y
    <2>8. Moved(After[n], x, Stale(n))
      BY <2>2, <2>4, <2>7, Zenon DEF y
    <2>9. n \in 0..N
      OBVIOUS
    <2> QED
      BY <2>8, <2>9, Zenon
  <1>7. Stale(N) = Range(stale)
    BY <1>1 DEF Range
  <1> HIDE DEF T
  <1>8. N \in T
    <2>1. N \in Nat /\ N \in 0..N
      BY <1>1
    <2>2. \A n \in 1..N : n - 1 \in T => n \in T
      BY <1>6, Zenon
    <2>3. \A n \in 0..N : n \in T
      BY <1>5, <2>1, <2>2, Rounds, Zenon
    <2> QED
      BY <2>1, <2>3, Zenon
  <1> QED
    BY <1>2, <1>7, <1>8, Zenon DEF T

\* The body of the loop of refillCloseQueueLocked, with its condition.
RefillRound(r) == IF Len(r.queue) < MaxCloseQueue /\ r.pending # <<>> THEN RefillOne(r) ELSE r

\* refillCloseQueueLocked moves pending pools to the queue until it is full or
\* none is left.
LEMMA RefillIs ==
    ASSUME NEW x \in Managers, Moved(x, x, {})
    PROVE  LET r == refillCloseQueueLocked(x)
           IN  /\ Moved(r, x, {})
               /\ r.pending # <<>> => Len(r.queue) = MaxCloseQueue
               /\ x.pending = <<>> => r = x
  <1>1. SUFFICES ASSUME NEW N \in Nat, N = Len(x.pending)
                 PROVE  LET r == refillCloseQueueLocked(x)
                        IN  /\ Moved(r, x, {})
                            /\ r.pending # <<>> => Len(r.queue) = MaxCloseQueue
                            /\ x.pending = <<>> => r = x
    BY DEF Managers
  <1> DEFINE body == [s \in (1..N) \X Managers |-> RefillRound(s[2])]
             After == CHOOSE f : f = [n \in 0..N |-> IF n = 0 THEN x ELSE RefillRound(f[n - 1])]
             Far(y, n) == Len(y.queue) = MaxCloseQueue \/ Len(y.pending) = N - n
             T == {n \in 0..N : Moved(After[n], x, {}) /\ Far(After[n], n)}
  <1>2. refillCloseQueueLocked(x) = After[N]
    BY <1>1 DEF refillCloseQueueLocked, RefillRound
  <1> HIDE DEF After
  <1>3. After = [n \in 0..N |-> IF n = 0 THEN x ELSE RefillRound(After[n - 1])]
    <2>1. body \in [(1..N) \X Managers -> Managers]
      <3>1. ASSUME NEW s \in (1..N) \X Managers PROVE RefillRound(s[2]) \in Managers
        BY RefillOneIs DEF RefillRound
      <3> QED
        BY <3>1
    <2>2. PICK step : step = body
      BY Zenon
    <2>3. step \in Bodies(N, Managers)
      BY <2>1, <2>2 DEF Bodies
    <2> HIDE DEF body
    <2>4. PICK f \in [0..N -> Managers] : f[0] = x /\ \A n \in 1..N : f[n] = step[<<n, f[n - 1]>>]
      BY <2>3, LoopRuns
    <2>5. ASSUME NEW n \in 1..N PROVE f[n] = RefillRound(f[n - 1])
      <3>1. f[n - 1] \in Managers
        BY <2>4
      <3> QED
        BY <2>2, <2>4, <3>1, Zenon DEF body
    <2>6. f = [n \in 0..N |-> IF n = 0 THEN x ELSE RefillRound(f[n - 1])]
      BY <2>4, <2>5
    <2> QED
      BY <2>6, Zenon DEF After
  <1>4. After[0] = x
    BY <1>3
  <1>5. 0 \in T
    <2>1. 0 \in 0..N
      OBVIOUS
    <2>2. Moved(After[0], x, {})
      BY <1>4, Zenon
    <2>3. Far(After[0], 0)
      BY <1>1, <1>4
    <2> HIDE DEF Far
    <2> QED
      BY <2>1, <2>2, <2>3, Zenon
  <1>6. ASSUME NEW n \in 1..N, n - 1 \in T PROVE n \in T
    <2> DEFINE y == After[n - 1]
    <2>1. Moved(y, x, {}) /\ Far(y, n - 1)
      BY <1>6
    <2>2. After[n] = RefillRound(y)
      BY <1>3
    <2>3. n \in 0..N
      OBVIOUS
    <2> HIDE DEF y
    <2>4. /\ y \in Managers /\ Len(y.queue) \in Nat /\ Len(y.pending) \in Nat
          /\ (y.pending = <<>> <=> Len(y.pending) = 0) /\ Len(y.queue) <= MaxCloseQueue
      BY <2>1, QueueIs DEF Moved, Managers
    <2>5. CASE Len(y.queue) < MaxCloseQueue /\ y.pending # <<>>
      <3>1. Moved(RefillOne(y), x, {}) /\ Len(RefillOne(y).pending) = Len(y.pending) - 1
        BY <2>1, <2>4, <2>5, RefillOneIs, Zenon
      <3>2. Far(RefillOne(y), n)
        BY <2>1, <2>4, <2>5, <3>1
      <3>3. After[n] = RefillOne(y)
        BY <2>2, <2>5 DEF RefillRound
      <3> HIDE DEF Far
      <3> QED
        BY <2>3, <3>1, <3>2, <3>3, Zenon
    <2>6. CASE ~(Len(y.queue) < MaxCloseQueue /\ y.pending # <<>>)
      <3>1. After[n] = y
        BY <2>2, <2>6 DEF RefillRound
      <3>2. Far(y, n)
        BY <2>1, <2>4, <2>6, CloseBounds
      <3> HIDE DEF Far
      <3> QED
        BY <2>1, <2>3, <3>1, <3>2, Zenon
    <2> QED
      BY <2>5, <2>6
  <1> HIDE DEF T
  <1>7. N \in T
    BY <1>5, <1>6, Rounds
  <1>8. Moved(After[N], x, {}) /\ Far(After[N], N)
    BY <1>7 DEF T
  <1>9. After[N].pending # <<>> => Len(After[N].queue) = MaxCloseQueue
    <2>1. After[N].pending \in Seq(Pools)
      BY <1>8 DEF Moved, Managers
    <2> QED
      BY <1>8, <2>1
  <1>10. x.pending = <<>> => After[N] = x
    BY <1>1, <1>4
  <1> QED
    BY <1>2, <1>8, <1>9, <1>10, Zenon

\* The loop that starts workers.
LEMMA StartWorkersIs ==
    ASSUME NEW x \in Managers, IsFiniteSet(x.busy), Cardinality(x.busy) <= x.workers,
           x.workers <= MaxCloseWorkers
    PROVE  LET r == StartWorkers(x)
           IN  /\ r \in Managers /\ r.conns = x.conns /\ r.refs = x.refs /\ r.closing = x.closing
               /\ r.queue = x.queue /\ r.pending = x.pending /\ r.busy = x.busy
               /\ Cardinality(x.busy) <= r.workers /\ r.workers <= MaxCloseWorkers
               /\ r.workers = MaxCloseWorkers \/ Len(x.queue) + Cardinality(x.busy) <= r.workers
  <1>1. /\ Cardinality(x.busy) \in Nat /\ Len(x.queue) \in Nat /\ x.workers \in Nat
        /\ MaxCloseWorkers \in Nat
    BY FS_CardinalityType, CloseBounds DEF Managers
  <1> DEFINE want == Len(x.queue) + Cardinality(x.busy)
             w == IF x.workers >= want THEN x.workers
                  ELSE IF want < MaxCloseWorkers THEN want
                  ELSE IF x.workers < MaxCloseWorkers THEN MaxCloseWorkers ELSE x.workers
  <1>2. w \in Nat /\ Cardinality(x.busy) <= w /\ w <= MaxCloseWorkers
        /\ (w = MaxCloseWorkers \/ want <= w)
    BY <1>1
  <1>3. StartWorkers(x) = [x EXCEPT !.workers = w]
    BY <1>1, Zenon DEF StartWorkers, Managers
  <1> HIDE DEF w
  <1>4. LET r == [x EXCEPT !.workers = w]
        IN  /\ r \in Managers /\ r.conns = x.conns /\ r.refs = x.refs /\ r.closing = x.closing
            /\ r.queue = x.queue /\ r.pending = x.pending /\ r.busy = x.busy /\ r.workers = w
    BY <1>2, Zenon DEF Managers
  <1> QED
    BY <1>2, <1>3, <1>4, Zenon

\* invalidateDC hands all cached pools to the close pipeline.
LEMMA InvalidateIs ==
    ASSUME NEW x, ManagerOK(x)
    PROVE  LET r == invalidateDC(x)
           IN  /\ ManagerOK(r) /\ r.conns = <<>> /\ r.refs = Delete(x.refs, Range(x.conns))
               /\ Held(r) = Held(x) /\ r.busy = x.busy
  <1> DEFINE a == [x EXCEPT !.refs = Delete(x.refs, Range(x.conns)), !.conns = <<>>]
             b == EnqueueAll(a, x.conns)
             d == refillCloseQueueLocked(b)
             r == invalidateDC(x)
  <1>1. /\ x \in Managers /\ x.conns \in Seq(Pools) /\ x.refs \in Maps(Nat)
        /\ OnePlace(x) /\ Pipeline(x) /\ Bounds(x) /\ Line(x)
    BY DEF ManagerOK, Managers
  <1>2. Delete(x.refs, Range(x.conns)) \in Maps(Nat) /\ <<>> \in Seq(Pools)
    <2>1. Delete(x.refs, Range(x.conns)) \in Maps(Nat)
      BY <1>1, MapsAre, Zenon
    <2> QED
      BY <2>1
  <1>3. /\ a \in Managers /\ a.conns = <<>> /\ a.refs = Delete(x.refs, Range(x.conns))
        /\ a.closing = x.closing /\ a.queue = x.queue /\ a.pending = x.pending
        /\ a.busy = x.busy /\ a.workers = x.workers
    BY <1>1, <1>2, Zenon DEF Managers
  <1>4. r = IF x.conns = <<>> THEN a ELSE StartWorkers(d)
    BY <1>1, Zenon DEF invalidateDC, enqueueCloseLocked, Managers
  <1> HIDE DEF a, r
  <1>5. Range(a.conns) = {} /\ IsInjective(a.conns)
    BY <1>3 DEF Range, IsInjective
  <1>6. Moved(a, a, {})
    BY <1>1, <1>3, <1>5, Zenon DEF Moved, OnePlace, Pipeline, Bounds
  <1>7. CASE x.conns = <<>>
    <2>1. r = a /\ Range(x.conns) = {}
      BY <1>4, <1>7 DEF Range
    <2>2. ManagerOK(a)
      BY <1>1, <1>3, <1>6, Zenon DEF ManagerOK, Moved, Bounds, Line
    <2> QED
      BY <1>3, <1>5, <2>1, <2>2, Zenon DEF Held, r
  <1>8. CASE x.conns # <<>>
    <2>1. Moved(b, a, Range(x.conns))
      BY <1>1, <1>3, <1>5, <1>6, EnqueueAllIs, Zenon DEF OnePlace
    <2> HIDE DEF b
    <2>2. b \in Managers /\ Moved(b, b, {})
      BY <2>1 DEF Moved
    <2>3. Moved(d, b, {}) /\ (d.pending # <<>> => Len(d.queue) = MaxCloseQueue)
      BY <2>2, RefillIs, Zenon
    <2> HIDE DEF d
    <2>4. /\ Moved(d, a, Range(x.conns)) /\ d \in Managers
          /\ d.conns = a.conns /\ d.refs = a.refs /\ d.busy = x.busy /\ d.workers = x.workers
      BY <1>3, <2>1, <2>3, Zenon DEF Moved
    <2>5. /\ r \in Managers /\ r.conns = d.conns /\ r.refs = d.refs /\ r.closing = d.closing
          /\ r.queue = d.queue /\ r.pending = d.pending /\ r.busy = d.busy
          /\ Cardinality(x.busy) <= r.workers /\ r.workers <= MaxCloseWorkers
          /\ r.workers = MaxCloseWorkers \/ Len(d.queue) + Cardinality(x.busy) <= r.workers
      BY <1>1, <1>4, <1>8, <2>4, StartWorkersIs, ZenonT(30) DEF Bounds
    <2>6. /\ Len(r.queue) \in Nat /\ Cardinality(r.busy) \in Nat /\ IsFiniteSet(r.busy)
          /\ r.workers \in Nat /\ Len(r.queue) <= MaxCloseQueue
      <3>1. /\ r.busy = x.busy /\ IsFiniteSet(x.busy) /\ r.workers \in Nat
            /\ r.queue \in Seq(Pools) /\ Len(r.queue) <= MaxCloseQueue
        BY <1>1, <2>4, <2>5, Zenon DEF Bounds, Managers, Moved
      <3>2. Cardinality(r.busy) \in Nat
        BY <3>1, FS_CardinalityType, Zenon
      <3> QED
        BY <3>1, <3>2
    <2>7. OnePlace(r) /\ Pipeline(r)
      BY <2>4, <2>5, ZenonT(30) DEF Moved, OnePlace, Pipeline
    <2>8. Bounds(r)
      <3>1. Len(r.queue) = MaxCloseQueue => Len(r.queue) + Cardinality(r.busy) >= MaxCloseQueue
        BY <2>6, CloseBounds
      <3> QED
        BY <2>3, <2>4, <2>5, <2>6, <3>1, Zenon DEF Bounds
    <2>9. Line(r)
      <3>1. /\ r.pending # <<>> => Len(r.queue) = MaxCloseQueue
            /\ r.workers <= MaxCloseWorkers
            /\ r.workers = MaxCloseWorkers \/ Len(r.queue) + Cardinality(r.busy) <= r.workers
        BY <2>3, <2>4, <2>5, Zenon
      <3>2. CASE r.workers = MaxCloseWorkers
        BY <3>2, Zenon DEF Line
      <3>3. CASE r.workers # MaxCloseWorkers
        <4>1. Len(r.queue) + Cardinality(r.busy) <= r.workers
          BY <3>1, <3>3, Zenon
        <4>2. Len(r.queue) <= r.workers - Cardinality(r.busy)
          BY <2>6, <4>1
        <4>3. Len(r.queue) # MaxCloseQueue
          BY <2>6, <3>1, <3>3, <4>1, CloseBounds
        <4> QED
          BY <3>1, <4>2, <4>3, Zenon DEF Line
      <3> QED
        BY <3>2, <3>3, Zenon
    <2>10. Held(r) = Held(x)
      BY <1>3, <1>5, <2>4, <2>5, Zenon DEF Moved, Held
    <2> QED
      BY <1>3, <2>4, <2>5, <2>7, <2>8, <2>9, <2>10, Zenon DEF ManagerOK, r
  <1> QED
    BY <1>7, <1>8, Zenon DEF r

\* A close worker takes the head of the queue.
LEMMA TakeIs ==
    ASSUME NEW x, ManagerOK(x), x.workers > Cardinality(x.busy), x.queue # <<>>
    PROVE  LET r == TakeClose(x)
           IN  /\ ManagerOK(r) /\ r.conns = x.conns /\ r.refs = x.refs
               /\ Head(x.queue) \in Range(x.queue) /\ Head(x.queue) \notin x.busy
               /\ r.busy = x.busy \cup {Head(x.queue)} /\ Held(r) = Held(x) \ {Head(x.queue)}
  <1> DEFINE r == TakeClose(x)
             p == Head(x.queue)
  <1>1. /\ x \in Managers /\ x.queue \in Seq(Pools) /\ x.busy \in SUBSET Pools
        /\ OnePlace(x) /\ Pipeline(x) /\ Bounds(x) /\ Line(x)
    BY Zenon DEF ManagerOK, Managers
  <1>2. /\ Tail(x.queue) \in Seq(Pools) /\ Len(Tail(x.queue)) = Len(x.queue) - 1
        /\ p \in Pools /\ Range(x.queue) = {p} \cup Range(Tail(x.queue))
        /\ IsInjective(Tail(x.queue)) /\ p \notin Range(Tail(x.queue))
        /\ Len(x.queue) \in Nat
    BY <1>1, QueueIs DEF OnePlace
  <1>3. /\ r \in Managers /\ r.conns = x.conns /\ r.refs = x.refs /\ r.closing = x.closing
        /\ r.queue = Tail(x.queue) /\ r.pending = x.pending /\ r.workers = x.workers
        /\ r.busy = x.busy \cup {p}
    BY <1>1, <1>2, Zenon DEF TakeClose, Managers
  <1> HIDE DEF r, p
  <1>4. p \notin x.busy /\ p \notin Range(x.conns) /\ p \notin Range(x.pending)
    BY <1>1, <1>2, ZenonT(30) DEF OnePlace
  <1>5. /\ IsFiniteSet(r.busy) /\ Cardinality(r.busy) = Cardinality(x.busy) + 1
        /\ Cardinality(x.busy) \in Nat /\ x.workers \in Nat
    <2>1. IsFiniteSet(x.busy) /\ x.workers \in Nat
      BY <1>1, Zenon DEF Bounds, Managers
    <2>2. IsFiniteSet(r.busy) /\ Cardinality(r.busy) = Cardinality(x.busy) + 1
      BY <1>3, <1>4, <2>1, FS_AddElement
    <2> QED
      BY <2>1, <2>2, FS_CardinalityType, Zenon
  <1>6. OnePlace(r)
    BY <1>1, <1>2, <1>3, <1>4, Zenon DEF OnePlace
  <1>7. Pipeline(r)
    BY <1>1, <1>2, <1>3, <1>4, Zenon DEF Pipeline
  <1>8. Bounds(r) /\ Line(r)
    <2>1. Bounds(x) /\ Line(x)
      BY <1>1, Zenon
    <2>2. Bounds(r)
      <3>1. Cardinality(x.busy) < x.workers
        BY Zenon
      <3>2. /\ x.workers <= MaxCloseWorkers /\ Len(x.queue) <= MaxCloseQueue
            /\ x.pending # <<>> => Len(x.queue) + Cardinality(x.busy) >= MaxCloseQueue
        BY <2>1, Zenon DEF Bounds
      <3>3. /\ Cardinality(r.busy) <= r.workers /\ Len(r.queue) <= MaxCloseQueue
            /\ Len(x.queue) + Cardinality(x.busy) >= MaxCloseQueue
               => Len(r.queue) + Cardinality(r.busy) >= MaxCloseQueue
        BY <1>2, <1>3, <1>5, <3>1, <3>2, CloseBounds
      <3> QED
        BY <1>3, <1>5, <3>2, <3>3, Zenon DEF Bounds
    <2>3. Line(r)
      <3>1. CASE x.workers = MaxCloseWorkers
        BY <1>3, <3>1, Zenon DEF Line
      <3>2. CASE x.pending = <<>> /\ Len(x.queue) <= x.workers - Cardinality(x.busy)
        <4>1. Len(r.queue) <= r.workers - Cardinality(r.busy)
          BY <1>2, <1>3, <1>5, <3>2
        <4> QED
          BY <1>3, <3>2, <4>1, Zenon DEF Line
      <3> QED
        BY <2>1, <3>1, <3>2, Zenon DEF Line
    <2> QED
      BY <2>2, <2>3, Zenon
  <1>9. Held(r) = Held(x) \ {p}
    BY <1>2, <1>3, <1>4, Zenon DEF Held
  <1> QED
    BY <1>2, <1>3, <1>4, <1>6, <1>7, <1>8, <1>9, Zenon DEF ManagerOK, r, p

\* A close worker is done with pool p.
LEMMA FinishIs ==
    ASSUME NEW x, ManagerOK(x), NEW p \in x.busy
    PROVE  LET r == FinishClose(x, p)
           IN  /\ ManagerOK(r) /\ r.conns = x.conns /\ r.refs = x.refs
               /\ r.busy = x.busy \ {p} /\ Held(r) = Held(x)
  <1> DEFINE a == [x EXCEPT !.closing = Delete(x.closing, {p}), !.busy = x.busy \ {p}]
             r == FinishClose(x, p)
  <1>1. /\ x \in Managers /\ x.closing \in Maps(BOOLEAN) /\ x.busy \in SUBSET Pools
        /\ OnePlace(x) /\ Pipeline(x) /\ Bounds(x) /\ Line(x)
    BY DEF ManagerOK, Managers
  <1>2. /\ Delete(x.closing, {p}) \in Maps(BOOLEAN)
        /\ DOMAIN Delete(x.closing, {p}) = DOMAIN x.closing \ {p}
        /\ \A q \in DOMAIN x.closing \ {p} : Delete(x.closing, {p})[q] = x.closing[q]
    <2>1. Delete(x.closing, {p}) \in Maps(BOOLEAN)
      BY <1>1, MapsAre, Zenon
    <2> QED
      BY <2>1 DEF Delete
  <1>3. /\ a \in Managers /\ a.conns = x.conns /\ a.refs = x.refs
        /\ a.closing = Delete(x.closing, {p}) /\ a.queue = x.queue /\ a.pending = x.pending
        /\ a.workers = x.workers /\ a.busy = x.busy \ {p}
    BY <1>1, <1>2, Zenon DEF Managers
  <1>4. r = refillCloseQueueLocked(a)
    BY <1>1, Zenon DEF FinishClose, Managers
  <1> HIDE DEF a, r
  <1>5. Moved(a, a, {})
    <2>1. OnePlace(a)
      BY <1>1, <1>3 DEF OnePlace
    <2>2. Pipeline(a)
      BY <1>1, <1>2, <1>3, Zenon DEF Pipeline, OnePlace
    <2> QED
      BY <1>1, <1>3, <2>1, <2>2, ZenonT(30) DEF Moved, Bounds
  <1>6. /\ Moved(r, a, {}) /\ (r.pending # <<>> => Len(r.queue) = MaxCloseQueue)
        /\ a.pending = <<>> => r = a
    BY <1>3, <1>4, <1>5, RefillIs, Zenon
  <1>7. /\ r \in Managers /\ r.conns = x.conns /\ r.refs = x.refs /\ r.busy = x.busy \ {p}
        /\ r.workers = x.workers /\ OnePlace(r) /\ Pipeline(r) /\ Len(r.queue) <= MaxCloseQueue
    BY <1>3, <1>6, ZenonT(30) DEF Moved
  <1>8. /\ IsFiniteSet(r.busy) /\ Cardinality(r.busy) = Cardinality(x.busy) - 1
        /\ Cardinality(x.busy) \in Nat /\ Cardinality(r.busy) \in Nat
        /\ r.workers \in Nat /\ Len(r.queue) \in Nat
    <2>1. IsFiniteSet(x.busy) /\ r.queue \in Seq(Pools) /\ r.workers \in Nat
      BY <1>1, <1>7, Zenon DEF Bounds, Managers
    <2>2. Cardinality(r.busy) = Cardinality(x.busy) - 1 /\ IsFiniteSet(r.busy)
      BY <1>7, <2>1, FS_RemoveElement, ZenonT(30)
    <2>3. Cardinality(x.busy) \in Nat /\ Cardinality(r.busy) \in Nat
      BY <2>1, <2>2, FS_CardinalityType, Zenon
    <2>4. Len(r.queue) \in Nat
      BY <2>1
    <2> QED
      BY <2>1, <2>2, <2>3, <2>4, Zenon
  <1>9. Bounds(r)
    <2>1. Cardinality(x.busy) <= r.workers /\ r.workers <= MaxCloseWorkers
      BY <1>1, <1>7, Zenon DEF Bounds
    <2>2. /\ Cardinality(r.busy) <= r.workers
          /\ Len(r.queue) = MaxCloseQueue => Len(r.queue) + Cardinality(r.busy) >= MaxCloseQueue
      BY <1>8, <2>1, CloseBounds
    <2> QED
      BY <1>6, <1>7, <1>8, <2>1, <2>2, Zenon DEF Bounds
  <1>10. Line(r)
    <2>1. Line(x)
      BY <1>1, Zenon
    <2>2. CASE r.workers = MaxCloseWorkers
      BY <2>2, Zenon DEF Line
    <2>3. CASE r.workers # MaxCloseWorkers
      <3>1. x.pending = <<>> /\ Len(x.queue) <= x.workers - Cardinality(x.busy)
        BY <1>7, <2>1, <2>3, Zenon DEF Line
      <3>2. r.pending = <<>> /\ r.queue = x.queue
        BY <1>3, <1>6, <3>1, Zenon
      <3>3. Len(r.queue) <= r.workers - Cardinality(r.busy)
        BY <1>7, <1>8, <3>1, <3>2
      <3> QED
        BY <3>2, <3>3, Zenon DEF Line
    <2> QED
      BY <2>2, <2>3, Zenon
  <1>11. Held(r) = Held(x)
    BY <1>3, <1>6, <1>7, Zenon DEF Moved, Held
  <1> QED
    BY <1>7, <1>9, <1>10, <1>11, Zenon DEF ManagerOK, r

\* A close worker finds the queue empty and ends.
LEMMA ExitIs ==
    ASSUME NEW x, ManagerOK(x), x.workers > Cardinality(x.busy), x.queue = <<>>
    PROVE  LET r == ExitWorker(x)
           IN  /\ ManagerOK(r) /\ r.conns = x.conns /\ r.refs = x.refs
               /\ r.busy = x.busy /\ Held(r) = Held(x)
  <1> DEFINE r == ExitWorker(x)
  <1>1. /\ x \in Managers /\ OnePlace(x) /\ Pipeline(x) /\ Bounds(x) /\ Line(x)
    BY ZenonT(30) DEF ManagerOK
  <1>2. /\ x.workers \in Nat /\ Cardinality(x.busy) \in Nat /\ Len(x.queue) = 0
        /\ x.workers - 1 \in Nat
    BY <1>1, FS_CardinalityType DEF Bounds, Managers
  <1>3. /\ r \in Managers /\ r.conns = x.conns /\ r.refs = x.refs /\ r.closing = x.closing
        /\ r.queue = x.queue /\ r.pending = x.pending /\ r.workers = x.workers - 1
        /\ r.busy = x.busy
    BY <1>1, <1>2, Zenon DEF ExitWorker, Managers
  <1> HIDE DEF r
  <1>4. x.pending = <<>>
    BY <1>1, <1>2, CloseBounds DEF Bounds
  <1>5. OnePlace(r) /\ Pipeline(r)
    BY <1>1, <1>3, Zenon DEF OnePlace, Pipeline
  <1>6. Bounds(r)
    BY <1>1, <1>2, <1>3, <1>4, CloseBounds DEF Bounds
  <1>7. Line(r)
    BY <1>1, <1>2, <1>3, <1>4, CloseBounds DEF Bounds, Line
  <1> QED
    BY <1>3, <1>5, <1>6, <1>7, Zenon DEF ManagerOK, Held, r

\* drain empties everything but what the busy workers are closing.
LEMMA DrainIs ==
    ASSUME NEW x, ManagerOK(x)
    PROVE  LET r == drain(x)
           IN  /\ ManagerOK(r) /\ r.conns = <<>> /\ r.refs = <<>>
               /\ r.busy = x.busy /\ Held(r) = {} /\ Drained(x) = Held(x)
  <1> DEFINE r == drain(x)
  <1>1. /\ x \in Managers /\ Bounds(x) /\ x.workers \in Nat /\ x.busy \in SUBSET Pools
    BY DEF ManagerOK, Managers
  <1>2. <<>> \in Seq(Pools) /\ Range(<<>>) = {} /\ IsInjective(<<>>)
    BY DEF Range, IsInjective
  <1>3. <<>> \in Maps(Nat) /\ <<>> \in Maps(BOOLEAN) /\ DOMAIN <<>> = {}
    BY EmptyMap
  <1>4. /\ r.conns = <<>> /\ r.refs = <<>> /\ r.closing = <<>> /\ r.queue = <<>>
        /\ r.pending = <<>> /\ r.workers = x.workers /\ r.busy = x.busy
    BY DEF drain, newCDNPoolManager
  <1>5. r \in Managers
    BY <1>1, <1>2, <1>3, Zenon DEF drain, newCDNPoolManager, Managers
  <1> HIDE DEF r
  <1>6. OnePlace(r) /\ Pipeline(r)
    BY <1>2, <1>3, <1>4, Zenon DEF OnePlace, Pipeline
  <1>7. Cardinality(x.busy) \in Nat /\ Len(<<>>) = 0
    BY <1>1, FS_CardinalityType, Zenon DEF Bounds
  <1>8. Bounds(r) /\ Line(r)
    BY <1>1, <1>4, <1>7, CloseBounds DEF Bounds, Line
  <1> QED
    BY <1>2, <1>5, <1>4, <1>6, <1>8, Zenon DEF ManagerOK, Held, Drained, r

\* cachedHandleLocked counts one handle more.
LEMMA HandleIs ==
    ASSUME NEW x, ManagerOK(x), NEW p \in Pools
    PROVE  LET r == cachedHandleLocked(x, p)
           IN  /\ ManagerOK(r) /\ r.conns = x.conns /\ r.busy = x.busy /\ Held(r) = Held(x)
               /\ DOMAIN r.refs = DOMAIN x.refs \cup {p}
               /\ r.refs[p] = IF p \in DOMAIN x.refs THEN x.refs[p] + 1 ELSE 2
               /\ \A q \in DOMAIN x.refs \ {p} : r.refs[q] = x.refs[q]
  <1> DEFINE r == cachedHandleLocked(x, p)
             n == (IF p \in DOMAIN x.refs THEN x.refs[p] ELSE 1) + 1
  <1>1. x \in Managers /\ x.refs \in Maps(Nat)
    BY Zenon DEF ManagerOK, Managers
  <1>2. n \in Nat /\ n = IF p \in DOMAIN x.refs THEN x.refs[p] + 1 ELSE 2
    <2>1. p \in DOMAIN x.refs => x.refs[p] \in Nat
      BY <1>1, MapsAre
    <2> QED
      BY <2>1
  <1>3. r = [x EXCEPT !.refs = Put(x.refs, p, n)]
    BY <1>1 DEF cachedHandleLocked, Managers
  <1> HIDE DEF n
  <1>4. Put(x.refs, p, n) \in Maps(Nat)
    BY <1>1, <1>2, MapsAre, Zenon
  <1>5. /\ r \in Managers /\ r.conns = x.conns /\ r.closing = x.closing
        /\ r.queue = x.queue /\ r.pending = x.pending /\ r.workers = x.workers
        /\ r.busy = x.busy /\ r.refs = Put(x.refs, p, n)
    BY <1>1, <1>3, <1>4, Zenon DEF Managers
  <1> HIDE DEF r
  <1>6. ManagerOK(r) /\ Held(r) = Held(x)
    BY <1>5, Zenon DEF ManagerOK, OnePlace, Pipeline, Bounds, Line, Held
  <1>7. /\ DOMAIN r.refs = DOMAIN x.refs \cup {p} /\ r.refs[p] = n
        /\ \A q \in DOMAIN x.refs \ {p} : r.refs[q] = x.refs[q]
    BY <1>5 DEF Put
  <1> QED
    BY <1>2, <1>5, <1>6, <1>7, Zenon DEF r

\* publishOrAcquire puts a new pool into the cache.
LEMMA PublishIs ==
    ASSUME NEW x, ManagerOK(x), NEW p \in Pools, p \notin Held(x) \cup x.busy
    PROVE  LET r == [x EXCEPT !.conns = Append(@, p)]
           IN  /\ ManagerOK(r) /\ r.refs = x.refs /\ r.busy = x.busy
               /\ Range(r.conns) = Range(x.conns) \cup {p} /\ Held(r) = Held(x) \cup {p}
  <1> DEFINE r == [x EXCEPT !.conns = Append(@, p)]
  <1>1. x \in Managers /\ x.conns \in Seq(Pools)
    BY Zenon DEF ManagerOK, Managers
  <1>2. /\ Append(x.conns, p) \in Seq(Pools)
        /\ Range(Append(x.conns, p)) = Range(x.conns) \cup {p}
        /\ IsInjective(Append(x.conns, p))
    BY <1>1, QueueIs DEF Held, ManagerOK, OnePlace
  <1>3. /\ r \in Managers /\ r.conns = Append(x.conns, p) /\ r.closing = x.closing
        /\ r.queue = x.queue /\ r.pending = x.pending /\ r.workers = x.workers
        /\ r.busy = x.busy /\ r.refs = x.refs
    BY <1>1, <1>2, Zenon DEF Managers
  <1> HIDE DEF r
  <1>4. OnePlace(r)
    BY <1>2, <1>3, Zenon DEF ManagerOK, OnePlace, Held
  <1>5. Pipeline(r) /\ Bounds(r) /\ Line(r)
    BY <1>3, Zenon DEF ManagerOK, Pipeline, Bounds, Line
  <1>6. Held(r) = Held(x) \cup {p}
    BY <1>2, <1>3, Zenon DEF Held
  <1> QED
    BY <1>2, <1>3, <1>4, <1>5, <1>6, Zenon DEF ManagerOK, r

\* releaseCachedHandle counts one handle less, of a pool that has two references.
LEMMA ReleaseIs ==
    ASSUME NEW x, ManagerOK(x), NEW p, p \in DOMAIN x.refs => x.refs[p] >= 2
    PROVE  LET r == releaseCachedHandle(x, p)
           IN  /\ ManagerOK(r) /\ r.conns = x.conns /\ r.busy = x.busy /\ Held(r) = Held(x)
               /\ DOMAIN r.refs = DOMAIN x.refs
               /\ p \in DOMAIN x.refs => r.refs[p] = x.refs[p] - 1
               /\ \A q \in DOMAIN x.refs \ {p} : r.refs[q] = x.refs[q]
  <1> DEFINE r == releaseCachedHandle(x, p)
  <1>1. x \in Managers /\ x.refs \in Maps(Nat)
    BY Zenon DEF ManagerOK, Managers
  <1>2. CASE p \notin DOMAIN x.refs
    BY <1>2, Zenon DEF releaseCachedHandle
  <1>3. CASE p \in DOMAIN x.refs
    <2>1. x.refs[p] - 1 \in Nat /\ x.refs[p] # 1
      BY <1>1, <1>3, MapsAre
    <2>2. r = [x EXCEPT !.refs = Put(x.refs, p, x.refs[p] - 1)]
      BY <1>1, <1>3, <2>1 DEF releaseCachedHandle, Managers
    <2>3. Put(x.refs, p, x.refs[p] - 1) \in Maps(Nat)
      BY <1>1, <1>3, <2>1, MapsAre, Zenon
    <2>4. /\ r \in Managers /\ r.conns = x.conns /\ r.closing = x.closing
          /\ r.queue = x.queue /\ r.pending = x.pending /\ r.workers = x.workers
          /\ r.busy = x.busy /\ r.refs = Put(x.refs, p, x.refs[p] - 1)
      BY <1>1, <2>2, <2>3, Zenon DEF Managers
    <2> HIDE DEF r
    <2>5. ManagerOK(r) /\ Held(r) = Held(x)
      BY <2>4, Zenon DEF ManagerOK, OnePlace, Pipeline, Bounds, Line, Held
    <2> QED
      BY <1>3, <2>4, <2>5, Zenon DEF r, Put
  <1> QED
    BY <1>2, <1>3, Zenon

-----------------------------------------------------------------------------

\* A handle more of a cached pool.
LEMMA CachedHandleIs ==
    ASSUME IInv, NEW p \in Range(m.conns)
    PROVE  Recount(cachedHandleLocked(m, p), m, p, m.refs[p] + 1)
  <1>1. ManagerOK(m) /\ p \in Pools /\ p \in DOMAIN m.refs
    BY Zenon DEF IInv, Apart, Held, Counted
  <1> QED
    BY <1>1, HandleIs DEF Recount

\* Client.CDN finds a pool in the cache, or goes on to make one.
LEMMA CDNKeeps ==
    ASSUME IInv, NEW c \in Callers, CDN(c)
    PROVE  IInv'
  <1>1. Calls(call) /\ call[c].pc = "idle"
    BY Zenon DEF IInv, CDN
  <1>2. PICK mx \in Maxes :
          LET need == normalizeCDNPoolMax(mx)
              hit == pickCDNPool(m.conns, max, need)
              begun == [NoCall EXCEPT !.need = need]
          IN  IF hit # {}
              THEN \E p \in hit :
                     /\ m' = cachedHandleLocked(m, p)
                     /\ call' = [call EXCEPT ![c] = [begun EXCEPT !.pc = "have", !.pool = p]]
              ELSE /\ call' = [call EXCEPT ![c] = [begun EXCEPT !.pc = "cached"]]
                   /\ UNCHANGED m
    BY Zenon DEF CDN
  <1> DEFINE need == normalizeCDNPoolMax(mx)
             hit == pickCDNPool(m.conns, max, need)
             begun == [NoCall EXCEPT !.need = need]
  <1>3. {"pc", "pool"} \subseteq DOMAIN begun
    BY DEF NoCall
  <1>4. made' = made /\ closes' = closes /\ draining' = draining
    BY Zenon DEF CDN, poolVars
  <1> HIDE DEF begun, need
  <1>5. CASE hit # {}
    <2>1. PICK p \in hit :
            /\ m' = cachedHandleLocked(m, p)
            /\ call' = [call EXCEPT ![c] = [begun EXCEPT !.pc = "have", !.pool = p]]
      BY <1>2, <1>5, Zenon DEF begun, need
    <2>2. CallIs(c, "have") /\ call'[c].pool = p
      BY <1>1, <1>3, <2>1 DEF CallIs, Calls
    <2>3. p \in Range(m.conns)
      BY <2>1 DEF pickCDNPool
    <2>4. Recount(m', m, p, m.refs[p] + 1)
      BY <2>1, <2>3, CachedHandleIs, Zenon
    <2> QED
      BY <1>1, <1>4, <2>2, <2>3, <2>4, HitKeeps, Zenon
  <1>6. CASE hit = {}
    <2>1. call' = [call EXCEPT ![c] = [begun EXCEPT !.pc = "cached"]] /\ m' = m
      BY <1>2, <1>6 DEF begun, need
    <2>2. CallIs(c, "cached")
      BY <1>1, <1>3, <2>1, Zenon DEF CallIs, Calls
    <2>3. Quiet
      BY <1>1, <1>4, <2>1, <2>2, Zenon DEF Quiet, CallIs, Calls, Holding
    <2> QED
      BY <2>3, QuietKeeps
  <1> QED
    BY <1>5, <1>6

\* publishOrAcquire: the pool is cached, or closed by its maker.
LEMMA PublishKeeps ==
    ASSUME IInv, NEW c \in Callers, PublishOrAcquire(c)
    PROVE  IInv'
  <1> DEFINE p == call[c].pool
             hit == pickCDNPool(m.conns, max, call[c].need)
             x == [m EXCEPT !.conns = Append(@, p)]
  <1>1. ManagerOK(m) /\ Calls(call)
    BY Zenon DEF IInv
  <1>2. call[c].pc = "publish" /\ made' = made /\ draining' = draining
    BY Zenon DEF PublishOrAcquire, poolVars, runVars
  <1>3. CASE hit # {}
    <2>1. PICK q \in hit : /\ m' = cachedHandleLocked(m, q) /\ Handle(c, q)
                           /\ closes' = [closes EXCEPT ![call[c].pool] = @ + 1]
      BY <1>3, Zenon DEF PublishOrAcquire
    <2>2. q \in Range(m.conns)
      BY <2>1, Zenon DEF pickCDNPool
    <2>3. CallIs(c, "have") /\ call'[c].pool = q
      BY <1>1, <2>1, CallerMoves, Zenon
    <2>4. Recount(m', m, q, m.refs[q] + 1)
      BY <2>1, <2>2, CachedHandleIs, Zenon
    <2> QED
      BY <1>2, <2>1, <2>2, <2>3, <2>4, HitKeeps, Zenon
  <1>4. CASE hit = {}
    <2>1. m' = cachedHandleLocked(x, p) /\ Handle(c, p) /\ closes' = closes
      BY <1>4, Zenon DEF PublishOrAcquire
    <2>2. CallIs(c, "have") /\ call'[c].pool = p
      BY <1>1, <2>1, CallerMoves, Zenon
    <2>3. /\ p \in Pools /\ p \in made
          /\ p \notin Held(m) \cup m.busy \cup draining /\ p \notin DOMAIN m.refs
      BY <1>2, MadeIs, Zenon
    <2> HIDE DEF p
    <2>4. /\ ManagerOK(x) /\ x.refs = m.refs /\ x.busy = m.busy
          /\ Range(x.conns) = Range(m.conns) \cup {p} /\ Held(x) = Held(m) \cup {p}
      BY <1>1, <2>3, PublishIs, ZenonT(30)
    <2> HIDE DEF x
    <2>5. /\ ManagerOK(m') /\ m'.conns = x.conns /\ m'.busy = x.busy /\ Held(m') = Held(x)
          /\ DOMAIN m'.refs = DOMAIN x.refs \cup {p} /\ m'.refs[p] = 2
          /\ \A q \in DOMAIN x.refs \ {p} : m'.refs[q] = x.refs[q]
      <3>1. p \notin DOMAIN x.refs
        BY <2>3, <2>4, Zenon
      <3>2. ManagerOK(x) /\ p \in Pools /\ m' = cachedHandleLocked(x, p)
        BY <2>1, <2>3, <2>4, Zenon
      <3> QED
        BY <3>1, <3>2, HandleIs
    <2> QED
      BY <1>2, <2>1, <2>2, <2>4, <2>5, NewPoolKeeps, Zenon DEF p
  <1> QED
    BY <1>3, <1>4

\* cdnPoolHandle.Close: the last reference is never that of a handle, as long as
\* the pool is cached.
LEMMA CloseHandleKeeps ==
    ASSUME IInv, NEW c \in Callers, CloseHandle(c)
    PROVE  IInv'
  <1> DEFINE p == call[c].pool
  <1>1. ManagerOK(m) /\ Calls(call)
    BY Zenon DEF IInv
  <1>2. /\ call[c].pc = "used" /\ m' = releaseCachedHandle(m, p) /\ Return(c)
        /\ made' = made /\ draining' = draining
        /\ closes' = IF IsLastHandle(m, p) THEN [closes EXCEPT ![p] = @ + 1] ELSE closes
    BY Zenon DEF CloseHandle, poolVars, runVars
  <1>3. CallIs(c, "idle")
    BY <1>1, <1>2, CallerMoves, Zenon
  <1>4. p \in DOMAIN m.refs => m.refs[p] >= 2
    BY <1>2, NotLast, Zenon
  <1> HIDE DEF p
  <1>5. closes' = closes
    <2>1. ~ IsLastHandle(m, p)
      BY <1>4 DEF IsLastHandle
    <2> QED
      BY <1>2, <2>1, Zenon
  <1>6. /\ ManagerOK(m') /\ m'.conns = m.conns /\ m'.busy = m.busy /\ Held(m') = Held(m)
        /\ DOMAIN m'.refs = DOMAIN m.refs
        /\ p \in DOMAIN m.refs => m'.refs[p] = m.refs[p] - 1
        /\ \A q \in DOMAIN m.refs \ {p} : m'.refs[q] = m.refs[q]
    <2>1. ManagerOK(m) /\ m' = releaseCachedHandle(m, p)
      BY <1>1, <1>2, Zenon
    <2> QED
      BY <1>4, <2>1, ReleaseIs
  <1> QED
    BY <1>2, <1>3, <1>5, <1>6, ReleaseKeeps, Zenon DEF p

\* Those steps, one by one.
LEMMA PipelineSteps ==
    ASSUME IInv,
           \/ \E c \in Callers : InvalidateDC(c)
           \/ WorkerTakes \/ WorkerExits \/ Drain
           \/ \E p \in Pools : WorkerFinishes(p) \/ DrainClose(p)
    PROVE  IInv'
  <1> USE DEF poolVars, runVars
  <1>1. /\ ManagerOK(m) /\ Apart(m, call, made, draining) /\ Counted(m, call)
        /\ draining \cap (Held(m) \cup m.busy) = {} /\ Held(m) \cap m.busy = {}
    BY Zenon DEF IInv, Apart, ManagerOK, OnePlace, Held
  <1>2. ASSUME NEW c \in Callers, InvalidateDC(c) PROVE IInv'
    <2>1. /\ ManagerOK(m') /\ m'.conns = <<>> /\ m'.refs = Delete(m.refs, Range(m.conns))
          /\ Held(m') = Held(m) /\ m'.busy = m.busy
      BY <1>1, <1>2, InvalidateIs, ZenonT(30) DEF InvalidateDC
    <2>2. DOMAIN m'.refs = {} /\ Range(m'.conns) = {}
      <3>1. DOMAIN m'.refs = {}
        BY <1>1, <2>1, Zenon DEF Counted, Delete
      <3>2. Range(m'.conns) = {}
        BY <2>1 DEF Range
      <3> QED
        BY <3>1, <3>2, Zenon
    <2>3. call' = call /\ made' = made /\ closes' = closes /\ draining' = draining
      BY <1>2, Zenon DEF InvalidateDC
    <2> QED
      BY <1>1, <2>1, <2>2, <2>3, PipelineKeeps, Zenon
  <1>3. CASE WorkerTakes
    <2>1. /\ ManagerOK(m') /\ m'.conns = m.conns /\ m'.refs = m.refs
          /\ Head(m.queue) \in Range(m.queue) /\ Head(m.queue) \notin m.busy
          /\ m'.busy = m.busy \cup {Head(m.queue)} /\ Held(m') = Held(m) \ {Head(m.queue)}
      BY <1>1, <1>3, TakeIs, Zenon DEF WorkerTakes
    <2>2. /\ call' = call /\ made' = made /\ draining' = draining
          /\ closes' = [closes EXCEPT ![Head(m.queue)] = @ + 1]
      BY <1>3, Zenon DEF WorkerTakes
    <2>3. Head(m.queue) \in Held(m) \ (Held(m') \cup draining')
      BY <1>1, <2>1, <2>2, Zenon DEF Held
    <2> QED
      BY <1>1, <2>1, <2>2, <2>3, PipelineKeeps, Zenon
  <1>4. CASE WorkerExits
    <2>1. /\ ManagerOK(m') /\ m'.conns = m.conns /\ m'.refs = m.refs
          /\ m'.busy = m.busy /\ Held(m') = Held(m)
      BY <1>1, <1>4, ExitIs, Zenon DEF WorkerExits
    <2>2. call' = call /\ made' = made /\ closes' = closes /\ draining' = draining
      BY <1>4, Zenon DEF WorkerExits
    <2> QED
      BY <1>1, <2>1, <2>2, PipelineKeeps, Zenon
  <1>5. ASSUME NEW p \in Pools, WorkerFinishes(p) PROVE IInv'
    <2>1. /\ ManagerOK(m') /\ m'.conns = m.conns /\ m'.refs = m.refs
          /\ m'.busy = m.busy \ {p} /\ Held(m') = Held(m)
      BY <1>1, <1>5, FinishIs, Zenon DEF WorkerFinishes
    <2>2. call' = call /\ made' = made /\ closes' = closes /\ draining' = draining
      BY <1>5, Zenon DEF WorkerFinishes
    <2> QED
      BY <1>1, <2>1, <2>2, PipelineKeeps, Zenon
  <1>6. CASE Drain
    <2>1. /\ ManagerOK(m') /\ m'.conns = <<>> /\ m'.refs = <<>>
          /\ m'.busy = m.busy /\ Held(m') = {} /\ draining' = Held(m)
      BY <1>1, <1>6, DrainIs, Zenon DEF Drain
    <2>2. call' = call /\ made' = made /\ closes' = closes
      BY <1>6, Zenon DEF Drain
    <2>3. DOMAIN m'.refs = {} /\ Range(m'.conns) = {}
      <3>1. DOMAIN <<>> = {} /\ Range(<<>>) = {}
        BY DEF Range
      <3> QED
        BY <2>1, <3>1, Zenon
    <2> QED
      BY <1>1, <2>1, <2>2, <2>3, PipelineKeeps, Zenon
  <1>7. ASSUME NEW p \in Pools, DrainClose(p) PROVE IInv'
    <2>1. /\ call' = call /\ made' = made /\ m' = m /\ draining' = draining \ {p} /\ p \in draining
          /\ closes' = [closes EXCEPT ![p] = @ + 1]
      BY <1>7 DEF DrainClose
    <2>2. p \in (Held(m) \cup draining) \ (Held(m') \cup draining')
      BY <1>1, <2>1, Zenon
    <2> QED
      BY <1>1, <2>1, <2>2, PipelineKeeps, Zenon
  <1> QED
    BY <1>2, <1>3, <1>4, <1>5, <1>6, <1>7, Zenon

\* Every step keeps the invariant.
LEMMA StepIInv ==
    ASSUME IInv, [Next]_vars
    PROVE  IInv'
  <1>1. Calls(call)
    BY DEF IInv
  <1>2. ASSUME NEW c \in Callers,
               \/ CachedKeys(c) \/ RefreshLoop(c) \/ Snapshot(c) \/ LoadCDNKeys(c) \/ Commit(c)
               \/ CallerCancelled(c)
        PROVE  IInv'
    BY <1>1, <1>2, QuietSteps, QuietKeeps, Zenon
  <1>3. ASSUME NEW c \in Callers,
               CDN(c) \/ CreatePool(c) \/ PublishOrAcquire(c) \/ Use(c) \/ CloseHandle(c)
        PROVE  IInv'
    BY <1>3, CDNKeeps, CreateKeeps, PublishKeeps, UseKeeps, CloseHandleKeeps, Zenon
  <1>4. CASE \/ UNCHANGED vars \/ Rotate \/ Cancel
             \/ \E c \in Callers : ResetKeys(c) \/ ForgetLoad(c)
             \/ \E f \in Flights : ServerAnswers(f) \/ DeliverKeys(f) \/ DeliverError(f)
    BY <1>1, <1>4, OtherSteps, QuietKeeps, Zenon
  <1>5. CASE \/ \E c \in Callers : InvalidateDC(c)
             \/ WorkerTakes \/ WorkerExits \/ Drain
             \/ \E p \in Pools : WorkerFinishes(p) \/ DrainClose(p)
    BY <1>5, PipelineSteps, Zenon
  <1>6. CASE SystemStep
    BY <1>2, <1>3, <1>4, <1>5, <1>6, Zenon DEF SystemStep
  <1>7. CASE Stimulus
    BY <1>2, <1>3, <1>4, <1>7, Zenon DEF Stimulus
  <1> QED
    BY <1>4, <1>6, <1>7, Zenon DEF Next

\* The pools left by earlier calls, listed once each.
LEMMA CachedIs ==
    ASSUME NEW q \in Bijection(1..Cardinality(Cached), Cached)
    PROVE  q \in Seq(Pools) /\ IsInjective(q) /\ Range(q) = Cached
  <1>1. Cardinality(Cached) \in Nat
    BY CallersAndPools, FS_CardinalityType, Zenon
  <1>2. q \in [1..Cardinality(Cached) -> Cached] /\ IsInjective(q)
    BY DEF Bijection, Injection
  <1>3. Range(q) = Cached
    BY <1>2, Zenon DEF Bijection, Surjection, Range
  <1> QED
    BY <1>1, <1>2, <1>3, CallersAndPools

\* The manager starts with what earlier calls have left.
LEMMA InitIInv ==
    ASSUME Init
    PROVE  IInv
  <1>0. PICK q \in Bijection(1..Cardinality(Cached), Cached) :
            m = [newCDNPoolManager EXCEPT !.conns = q, !.refs = [p \in Cached |-> 1]]
    BY Zenon DEF Init
  <1>1. /\ m = [newCDNPoolManager EXCEPT !.conns = q, !.refs = [p \in Cached |-> 1]]
        /\ call = [c \in Callers |-> NoCall] /\ made = Cached /\ closes = [p \in Pools |-> 0]
        /\ draining = {}
    BY <1>0 DEF Init
  <1>2. <<>> \in Seq(Pools) /\ Range(<<>>) = {} /\ IsInjective(<<>>) /\ Len(<<>>) = 0
    BY DEF Range, IsInjective
  <1>3. <<>> \in Maps(BOOLEAN) /\ DOMAIN <<>> = {}
    BY EmptyMap, Zenon
  <1>4. [p \in Cached |-> 1] \in Maps(Nat)
    BY CallersAndPools DEF Maps
  <1>5. /\ m.conns = q /\ m.refs = [p \in Cached |-> 1] /\ m.closing = <<>>
        /\ m.queue = <<>> /\ m.pending = <<>> /\ m.workers = 0 /\ m.busy = {}
    BY <1>1 DEF newCDNPoolManager
  <1>6. m \in Managers
    BY <1>1, <1>2, <1>3, <1>4, CachedIs, Zenon DEF newCDNPoolManager, Managers
  <1>7. ManagerOK(m)
    <2>1. OnePlace(m)
      BY <1>2, <1>5, CachedIs, Zenon DEF OnePlace
    <2>2. Pipeline(m)
      BY <1>2, <1>3, <1>5, Zenon DEF Pipeline
    <2>3. Bounds(m) /\ Line(m)
      BY <1>2, <1>5, FS_EmptySet, CloseBounds DEF Bounds, Line
    <2> QED
      BY <1>6, <2>1, <2>2, <2>3, Zenon DEF ManagerOK
  <1>8. \A c \in Callers : call[c].pc = "idle" /\ {"pc", "pool"} \subseteq DOMAIN call[c]
    BY <1>1 DEF NoCall
  <1>9. Calls(call) /\ MakersOwn(call, made) /\ Unpublished(call) = {}
    BY <1>1, <1>8, Zenon DEF Calls, MakersOwn, Unpublished
  <1>10. Held(m) = Cached
    BY <1>2, <1>5, CachedIs, Zenon DEF Held
  <1>11. Apart(m, call, made, draining)
    BY <1>1, <1>5, <1>8, <1>9, <1>10, CallersAndPools, Zenon DEF Apart, Holding
  <1>12. closes \in [Pools -> Nat] /\ PoolClosedOnce /\ NotClosed(m, call, made, draining, closes)
    BY <1>1 DEF PoolClosedOnce, NotClosed
  <1>13. Counted(m, call)
    <2>1. \A p : Handles(call, p) = {}
      BY <1>8, Zenon DEF Handles
    <2>2. \A p \in Cached : m.refs[p] = 1 + Cardinality(Handles(call, p))
      <3>1. \A p \in Cached : Cardinality(Handles(call, p)) = 0 /\ m.refs[p] = 1
        BY <1>5, <2>1, FS_EmptySet, Zenon
      <3> QED
        BY <3>1
    <2> QED
      BY <1>5, <2>2, CachedIs, Zenon DEF Counted
  <1> QED
    BY <1>7, <1>9, <1>11, <1>12, <1>13, Zenon DEF IInv

\* The invariant holds in every state.
LEMMA AlwaysIInv == Spec => []IInv
  BY InitIInv, StepIInv, PTL DEF Spec

\* A cached pool has one reference of the cache and one of each open handle, for
\* any number of callers: no Close of a handle takes the pool away from the cache
\* or from another caller (cachedHandleLocked, releaseCachedHandle, invalidateDC,
\* drain).
THEOREM ReferencesCounted == Spec => []HandlesCounted
  <1>1. IInv => HandlesCounted
    BY Zenon DEF IInv, Counted, Handles, HandlesCounted, OpenHandles
  <1> QED
    BY <1>1, AlwaysIInv, PTL

\* No pool is closed twice, whoever closes it: a handle, a close worker, the loser
\* of a publication race, or the cleanup of Run ("avoid duplicate queue entries and
\* duplicate Close() calls", cdnPoolManager.closing).
THEOREM NoPoolClosedTwice == Spec => []PoolClosedOnce
  <1>1. IInv => PoolClosedOnce
    BY DEF IInv
  <1> QED
    BY <1>1, AlwaysIInv, PTL

\* A pool that waits to be closed has a free worker, unless as many workers as
\* allowed have been started, for any bounds of workers and queue (the loop that
\* starts workers in enqueueCloseLocked, refillCloseQueueLocked, runCloseWorker).
THEOREM SlowCloseBlocksNone == Spec => []NoHeadOfLine
  <1>1. IInv => NoHeadOfLine
    BY Zenon DEF IInv, ManagerOK, Line, NoHeadOfLine
  <1> QED
    BY <1>1, AlwaysIInv, PTL

\* The cache and the close pipeline are consistent: a pool is in one place of them,
\* closing knows all that waits, and queue and workers keep their bounds, so that
\* drain hands every pool over once (newCDNPoolManager and all that changes it).
THEOREM PipelineConsistent == Spec => [](OnePlace(m) /\ Pipeline(m) /\ Bounds(m))
  <1>1. IInv => OnePlace(m) /\ Pipeline(m) /\ Bounds(m)
    BY DEF IInv, ManagerOK
  <1> QED
    BY <1>1, AlwaysIInv, PTL
=============================================================================
