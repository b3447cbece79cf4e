----------------------------- MODULE ClientProof -----------------------------
(* What is proved of the client's primary connection, for any number of       *)
(* requests, migrations, data centres, events and failures: keys stay with    *)
(* their data centre, session events that came before the configuration reach *)
(* the handler in order, and the semaphore of migrations is held by one       *)
(* goroutine that neither waits for it again nor returns with it.             *)
EXTENDS Client, Functions, TLAPS

\* Where a goroutine holds the semaphore for sure.
Migrating == {"migrate", "reset", "restart", "wait"}

Conns ==
    [dc : DCs, key : DCs \cup {NoKey}, st : {"new", "running", "ready", "dead"}]

Sessions == [dc : DCs, key : DCs \cup {NoKey}]

Goroutines ==
    [pc : Ended \cup Migrating \cup {"idle", "read", "invoke", "changed", "acquire"},
     old : BOOLEAN, redirects : {0, 1}, found : BOOLEAN]

Handlers ==
    [pc : {"idle", "take", "ready?", "check", "store"}, batch : Seq(Nat), dc : DCs \cup {None}]

\* A handler that has begun knows its data centre, and has events to hand over.
Ready(r) ==
    /\ r.pc # "idle" => r.dc \in DCs
    /\ r.pc \in {"check", "store"} => r.batch # <<>>

TypeOK ==
    /\ conn \in Conns
    /\ loop \in {"start", "run", "stopping", "notify", "dropping", "sleep", "ended"}
    /\ loop = "dropping" => err \in DCs
    /\ closed \in BOOLEAN /\ ready \in BOOLEAN
    /\ sess \in Sessions /\ drop \in DCs \cup {None}
    /\ sem \in Procs \cup {None}
    /\ proc \in [Procs -> Goroutines]
    /\ h \in [Sources -> Handlers]
    /\ \A s \in Sources : Ready(h[s])
    /\ pending \in Seq(Nat)
    /\ events \in Nat /\ early \in Nat /\ handled \in Nat /\ faults \in Nat

\* The connection's handlers run only while it does, and it is new when the loop
\* starts it.
Phases ==
    /\ loop \notin {"run", "stopping"} => \A s \in Own : h[s].pc = "idle"
    /\ loop \in {"start", "sleep"} => conn.st = "new"
    /\ conn.st \in {"new", "running"} =>
         /\ h["init"].pc = "idle" /\ h["event"].pc \in {"idle", "ready?"}
         /\ handled = 0

\* The events of a batch that the handler is still to be given.
Rest(r) ==
    CASE r.pc = "check" -> Range(r.batch)
      [] r.pc = "store" -> Range(Tail(r.batch))
      [] OTHER -> {}

Rising(q) == \A i, j \in DOMAIN q : i < j => q[i] < q[j]

\* Of three sets of events, those up to bound are all in one, and after last.
Placed(A, B, C, bound, last) ==
    /\ \A a \in A, b \in B \cup C : a > bound \/ b > bound
    /\ \A b \in B, c \in C : b > bound \/ c > bound
    /\ \A e \in A \cup B \cup C : e > bound \/ e > last

\* Early events are in one place, after the last one handled: all of them pending,
\* or what is left of them in one batch.
Events ==
    /\ early <= events
    /\ Rising(pending) /\ \A e \in Range(pending) : e <= events
    /\ \A s \in Own : h[s].pc \in {"check", "store"} => Rising(h[s].batch)
    /\ Placed(Range(pending), Rest(h["init"]), Rest(h["event"]), early, handled)

\* A migration holds the semaphore; who holds it is on its way, and not to acquire it.
SemaphoreHeld ==
    /\ \A p \in Procs : proc[p].pc \in Migrating => sem = p
    /\ \A p \in Procs : sem = p => proc[p].pc \notin Ended \cup {"idle", "acquire"}

\* A request that holds or wants it has been redirected; MigrateTo sends no request.
Redirected ==
    /\ \A p \in Calls : sem = p \/ proc[p].pc = "acquire" => proc[p].redirects = 1
    /\ \A p \in Procs \ Calls : proc[p].pc \in {"idle", "acquire"} \cup Migrating \cup Ended

IInv == TypeOK /\ Phases /\ Events /\ KeyOfItsDC /\ SemaphoreHeld /\ Redirected
-----------------------------------------------------------------------------
\* The elements and the order of a queue that something is put into or taken from.
LEMMA QueueIs ==
    ASSUME NEW q \in Seq(Nat)
    PROVE  /\ \A e \in Nat : Range(Append(q, e)) = Range(q) \cup {e}
           /\ \A e \in Nat : Rising(q) /\ (\A x \in Range(q) : x < e) => Rising(Append(q, e))
           /\ q # <<>> => /\ Range(q) = {Head(q)} \cup Range(Tail(q))
                          /\ Rising(q) => Rising(Tail(q)) /\ \A x \in Range(Tail(q)) : Head(q) < x
                          /\ Len(q) = 1 => Range(Tail(q)) = {}
                          /\ Len(q) # 1 => Tail(q) # <<>>
           /\ Range(q) \subseteq Nat
  <1> USE DEF Range, Rising
  <1>1. DOMAIN q = 1 .. Len(q) /\ Len(q) \in Nat
    OBVIOUS
  <1>2. ASSUME NEW e \in Nat
        PROVE  /\ Range(Append(q, e)) = Range(q) \cup {e}
               /\ Rising(q) /\ (\A x \in Range(q) : x < e) => Rising(Append(q, e))
    <2>1. DOMAIN Append(q, e) = 1 .. Len(q) + 1
      OBVIOUS
    <2>2. \A i \in 1 .. Len(q) : Append(q, e)[i] = q[i]
      OBVIOUS
    <2>3. Append(q, e)[Len(q) + 1] = e
      OBVIOUS
    <2>4. Range(Append(q, e)) = Range(q) \cup {e}
      BY <1>1, <2>1, <2>2, <2>3
    <2>5. ASSUME Rising(q), \A x \in Range(q) : x < e PROVE Rising(Append(q, e))
      <3>1. SUFFICES ASSUME NEW i \in 1 .. Len(q) + 1, NEW j \in 1 .. Len(q) + 1, i < j
                     PROVE  Append(q, e)[i] < Append(q, e)[j]
        BY <2>1
      <3>2. i \in 1 .. Len(q)
        BY <1>1, <3>1
      <3>3. CASE j \in 1 .. Len(q)
        BY <1>1, <2>2, <2>5, <3>1, <3>2, <3>3, Zenon
      <3>4. CASE j = Len(q) + 1
        BY <1>1, <2>2, <2>3, <2>5, <3>2, <3>4
      <3> QED
        BY <1>1, <3>3, <3>4
    <2> HIDE DEF Range, Rising
    <2> QED
      BY <2>4, <2>5
  <1>3. ASSUME q # <<>>
        PROVE  /\ Range(q) = {Head(q)} \cup Range(Tail(q))
               /\ Rising(q) => Rising(Tail(q)) /\ \A x \in Range(Tail(q)) : Head(q) < x
               /\ Len(q) = 1 => Range(Tail(q)) = {}
               /\ Len(q) # 1 => Tail(q) # <<>>
    <2>1. DOMAIN Tail(q) = 1 .. Len(q) - 1 /\ Len(q) \in Nat \ {0} /\ Len(Tail(q)) = Len(q) - 1
      BY <1>3
    <2>2. \A i \in 1 .. Len(q) - 1 : Tail(q)[i] = q[i + 1]
      BY <1>3
    <2>3. Head(q) = q[1]
      BY <1>3
    <2>4. \A i \in 2 .. Len(q) : i - 1 \in 1 .. Len(q) - 1 /\ Tail(q)[i - 1] = q[i]
      BY <2>1, <2>2
    <2>5. Range(q) \subseteq {Head(q)} \cup Range(Tail(q))
      <3>1. SUFFICES ASSUME NEW i \in 1 .. Len(q), q[i] # Head(q) PROVE q[i] \in Range(Tail(q))
        BY <1>1
      <3>2. i \in 2 .. Len(q)
        BY <1>1, <2>3, <3>1
      <3>3. i - 1 \in DOMAIN Tail(q) /\ Tail(q)[i - 1] = q[i]
        BY <2>1, <2>4, <3>2
      <3> QED
        BY <3>3, Zenon
    <2>6. {Head(q)} \cup Range(Tail(q)) \subseteq Range(q)
      BY <1>1, <2>1, <2>2, <2>3
    <2>7. ASSUME Rising(q) PROVE Rising(Tail(q)) /\ \A x \in Range(Tail(q)) : Head(q) < x
      <3>1. \A i \in 1 .. Len(q) - 1 : i + 1 \in DOMAIN q /\ 1 \in DOMAIN q
        BY <1>1, <2>1
      <3>2. Rising(Tail(q))
        <4>1. SUFFICES ASSUME NEW i \in 1 .. Len(q) - 1, NEW j \in 1 .. Len(q) - 1, i < j
                       PROVE  Tail(q)[i] < Tail(q)[j]
          BY <2>1, Zenon
        <4>2. i + 1 \in DOMAIN q /\ j + 1 \in DOMAIN q /\ i + 1 < j + 1
          BY <3>1, <4>1
        <4>3. q[i + 1] < q[j + 1]
          BY <2>7, <4>2, Zenon
        <4> QED
          BY <2>2, <4>3, Zenon
      <3>3. \A i \in 1 .. Len(q) - 1 : q[1] < Tail(q)[i]
        BY <1>1, <2>1, <2>2, <2>7, <3>1
      <3> QED
        BY <2>1, <2>3, <3>2, <3>3
    <2>8. Len(q) = 1 => Range(Tail(q)) = {}
      BY <2>1
    <2>9. Len(q) # 1 => Tail(q) # <<>>
      <3>1. Len(q) # 1 => Len(Tail(q)) # 0
        BY <2>1
      <3> QED
        BY <3>1, Zenon
    <2> HIDE DEF Range, Rising
    <2> QED
      BY <2>5, <2>6, <2>7, <2>8, <2>9
  <1>4. Range(q) \subseteq Nat
    BY <1>1
  <1> HIDE DEF Range, Rising
  <1> QED
    BY <1>2, <1>3, <1>4

\* The two handlers of the connection and the pool's one are three.
LEMMA SourcesAre ==
    /\ Sources = {"init", "event", "pool"} /\ Own = {"init", "event"} /\ Own \subseteq Sources
    /\ "init" # "event" /\ "init" # "pool" /\ "event" # "pool"
    BY DEF Sources, Own

\* What is still to be handed over, by the handler's place.
LEMMA RestIs ==
    ASSUME NEW r
    PROVE  /\ r.pc = "check" => Rest(r) = Range(r.batch)
           /\ r.pc = "store" => Rest(r) = Range(Tail(r.batch))
           /\ r.pc \in {"idle", "take", "ready?"} => Rest(r) = {}
    BY DEF Rest

\* What a source is still to hand over are numbers.
LEMMA RestType ==
    ASSUME TypeOK, NEW s \in Sources
    PROVE  Rest(h[s]) \subseteq Nat
  <1> USE DEF Handlers
  <1>1. h[s].pc \in {"idle", "take", "ready?", "check", "store"} /\ h[s].batch \in Seq(Nat)
    BY DEF TypeOK
  <1>2. h[s].pc \in {"check", "store"} => h[s].batch # <<>>
    BY DEF TypeOK, Ready
  <1> QED
    BY <1>1, <1>2, RestIs, QueueIs

\* The batch of a source that is done with its first event: that one is gone from
\* what is left, the others stay in order.
LEMMA BatchMoves ==
    ASSUME NEW b \in Seq(Nat), b # <<>>, NEW r2,
           \/ r2.pc = "idle" /\ Len(b) = 1
           \/ r2.pc = "check" /\ r2.batch = Tail(b) /\ Len(b) # 1
           \/ r2.pc = "store" /\ r2.batch = b
    PROVE  /\ Rest(r2) = Range(Tail(b))
           /\ Rising(b) /\ r2.pc \in {"check", "store"} => Rising(r2.batch)
  <1>1. /\ Len(b) = 1 => Range(Tail(b)) = {}
        /\ Rising(b) => Rising(Tail(b))
    BY QueueIs
  <1>2. Rest(r2) = Range(Tail(b))
    BY <1>1, RestIs, Zenon
  <1>3. r2.pc \in {"check", "store"} => r2.batch = b \/ r2.batch = Tail(b)
    OBVIOUS
  <1> QED
    BY <1>1, <1>2, <1>3, Zenon

\* What OnSessionCheck and OnSessionStore leave in the handler.
LEMMA NextIs ==
    ASSUME TypeOK, NEW s \in Sources, h[s].pc \in {"check", "store"}, NEW r2,
           \/ r2 = NextOfBatch(s)
           \/ r2 = [h[s] EXCEPT !.pc = "store"]
    PROVE  /\ \/ r2.pc = "idle" /\ Len(h[s].batch) = 1
              \/ r2.pc = "check" /\ r2.batch = Tail(h[s].batch) /\ Len(h[s].batch) # 1
              \/ r2.pc = "store" /\ r2.batch = h[s].batch
           /\ r2 \in [pc : {"idle", "check", "store"}, batch : Seq(Nat), dc : DCs \cup {None}]
           /\ Ready(r2)
  <1> USE DEF Handlers, Ready
  <1>1. /\ h[s] \in Handlers
        /\ h[s].dc \in DCs /\ h[s].batch # <<>>
    BY DEF TypeOK, Ready
  <1>2. Tail(h[s].batch) \in Seq(Nat) /\ (Len(h[s].batch) # 1 => Tail(h[s].batch) # <<>>)
    BY <1>1, QueueIs
  <1>3. CASE r2 = [h[s] EXCEPT !.pc = "store"]
    BY <1>1, <1>3
  <1>4. CASE r2 = NextOfBatch(s) /\ Len(h[s].batch) = 1
    BY <1>1, <1>4 DEF NextOfBatch, Idle
  <1>5. CASE r2 = NextOfBatch(s) /\ Len(h[s].batch) # 1
    BY <1>1, <1>2, <1>5, Zenon DEF NextOfBatch
  <1> QED
    BY <1>3, <1>4, <1>5

\* What a step leaves of the events: all as it was, or one of the steps below.
EventFrame == h' = h /\ pending' = pending /\ events' = events /\ early' = early /\ handled' = handled

\* replaceConn, at the end of Notify or of DropKeys.
Replaced == \E s : ReplaceConn(s) /\ h' = h /\ loop \in {"notify", "dropping"}

\* The steps by what they do to the events of the connection.
LEMMA EventKinds ==
    ASSUME [Next]_vars
    PROVE  \/ EventFrame \/ Replaced \/ RunReturns \/ GotConfig \/ InitFlush \/ SessionEvent
           \/ ConfigReady \/ PoolSession
           \/ \E s \in Own : OnSessionCheck(s)
           \/ \E s \in Sources : OnSessionStore(s)
  <1> USE DEF EventFrame, eventVars
  <1>1. CASE UNCHANGED vars
    BY <1>1 DEF vars
  <1>2. CASE \/ StartRun \/ ContextDone \/ Wake \/ ConnFails \/ CloseClient
             \/ PoolConnDead \/ PoolDropKeys
    BY <1>2 DEF StartRun, ContextDone, Wake, ConnFails, CloseClient, PoolConnDead, PoolDropKeys
  <1>3. Notify => EventFrame \/ Replaced
    BY DEF Notify, Replaced
  <1>4. DropKeys => Replaced
    BY DEF DropKeys, Replaced
  <1>5. ASSUME NEW p \in Procs,
               \/ ReadConn(p) \/ Answer(p) \/ ConnDied(p) \/ ConnChanged(p) \/ ClientClosed(p)
               \/ Acquire(p) \/ Migrate(p) \/ ResetReady(p) \/ Restart(p) \/ Restarted(p)
               \/ Begin(p) \/ GiveUp(p)
        PROVE  EventFrame
    BY <1>5 DEF ReadConn, Answer, ConnDied, ConnChanged, ClientClosed, Acquire, Migrate,
                ResetReady, Restart, Restarted, Begin, GiveUp
  <1> HIDE DEF EventFrame
  <1>6. CASE SystemStep
    BY <1>2, <1>3, <1>4, <1>5, <1>6 DEF SystemStep
  <1>7. CASE Stimulus
    BY <1>2, <1>5, <1>7 DEF Stimulus
  <1> QED
    BY <1>1, <1>6, <1>7 DEF Next

\* Early events stay in one place, and are handed over in order.
LEMMA EventsStep ==
    ASSUME IInv, [Next]_vars
    PROVE  Events'
  <1> USE DEF Handlers
  <1> DEFINE P == Range(pending)
             I == Rest(h["init"])
             E == Rest(h["event"])
  <1>1. /\ h \in [Sources -> Handlers]
        /\ \A s \in Sources : h[s].pc \in {"check", "store"} => h[s].batch # <<>>
        /\ pending \in Seq(Nat) /\ events \in Nat /\ early \in Nat /\ handled \in Nat
    BY DEF IInv, TypeOK, Ready
  <1>2. /\ early <= events /\ Rising(pending) /\ \A e \in P : e <= events
        /\ \A s \in Own : h[s].pc \in {"check", "store"} => Rising(h[s].batch)
        /\ Placed(P, I, E, early, handled)
    BY DEF IInv, Events
  <1>3. P \subseteq Nat /\ I \subseteq Nat /\ E \subseteq Nat
    BY <1>1, QueueIs, RestType, SourcesAre DEF IInv
  <1>4. Rising(<<>>) /\ Range(<<>>) = {}
    BY DEF Rising, Range
  <1>5. /\ loop \notin {"run", "stopping"} => h["init"].pc = "idle" /\ h["event"].pc = "idle"
        /\ conn.st \in {"new", "running"} =>
             /\ h["init"].pc = "idle" /\ h["event"].pc \in {"idle", "ready?"} /\ handled = 0
    BY SourcesAre DEF IInv, Phases
  <1>6. CASE EventFrame
    BY <1>2, <1>6 DEF EventFrame, Events
  <1>7. CASE Replaced
    <2>1. h' = h /\ pending' = <<>> /\ events' = 0 /\ early' = 0 /\ handled' = 0
      BY <1>7 DEF Replaced, ReplaceConn
    <2>2. h["init"].pc = "idle" /\ h["event"].pc = "idle"
      BY <1>5, <1>7 DEF Replaced
    <2>3. I = {} /\ E = {}
      BY <2>2, RestIs
    <2> QED
      BY <1>2, <1>4, <2>1, <2>3 DEF Events, Placed
  <1> HIDE DEF P, I, E
  <1>8. ASSUME h'["init"].pc \in {"check", "store"} => Rising(h'["init"].batch),
               h'["event"].pc \in {"check", "store"} => Rising(h'["event"].batch),
               early' <= events', Rising(pending'), \A e \in Range(pending') : e <= events',
               Placed(Range(pending'), Rest(h'["init"]), Rest(h'["event"]), early', handled')
        PROVE  Events'
    BY <1>8, SourcesAre DEF Events
  <1>9. CASE GotConfig
    <2>1. /\ h'["init"].pc = "take" /\ h'["event"] = h["event"] /\ pending' = pending
          /\ events' = events /\ early' = early /\ handled' = handled
      BY <1>1, <1>9, SourcesAre DEF GotConfig
    <2>2. I = {} /\ Rest(h'["init"]) = {}
      BY <1>5, <1>9, <2>1, RestIs DEF I, GotConfig
    <2> QED
      BY <1>2, <1>8, <2>1, <2>2, SourcesAre DEF P, E
  <1>10. CASE SessionEvent
    <2>1. /\ h'["init"] = h["init"] /\ h'["event"].pc = "ready?" /\ h["event"].pc = "idle"
          /\ pending' = Append(pending, events') /\ events' = events + 1 /\ handled' = handled
      BY <1>1, <1>10, SourcesAre DEF SessionEvent
    <2>2. E = {} /\ Rest(h'["event"]) = {} /\ Rest(h'["init"]) = I
      BY <2>1, RestIs DEF E, I
    <2>3. events' \in Nat /\ \A e \in P : e < events'
      BY <1>1, <1>2, <1>3, <2>1
    <2>4. Range(pending') = P \cup {events'} /\ Rising(pending')
      BY <1>1, <1>2, <2>1, <2>3, QueueIs DEF P
    <2>5. \A e \in Range(pending') : e <= events'
      <3>1. SUFFICES ASSUME NEW e \in P \cup {events'} PROVE e <= events'
        BY <2>4
      <3>2. e = events' \/ (e \in Nat /\ e < events')
        BY <1>3, <2>3
      <3> QED
        BY <2>3, <3>2
    <2>6. CASE conn.st = "running"
      <3>1. early' = events' /\ I = {} /\ handled = 0
        BY <1>5, <1>10, <2>6, RestIs DEF SessionEvent, I
      <3>2. Placed(Range(pending'), {}, {}, early', handled')
        <4>1. \A e \in Range(pending') : e > early' \/ e > handled'
          <5>1. \A e \in P : e > early \/ e > handled
            BY <1>2 DEF Placed
          <5>2. 0 \notin P
            BY <1>1, <3>1, <5>1
          <5>3. \A e \in P \cup {events'} : e > 0
            BY <1>1, <1>3, <2>1, <5>2
          <5> QED
            BY <2>1, <2>4, <3>1, <5>3
        <4> QED
          BY <4>1 DEF Placed
      <3> QED
        BY <1>2, <1>8, <2>1, <2>2, <2>3, <2>4, <2>5, <3>1, <3>2, SourcesAre
    <2>7. CASE conn.st # "running"
      <3>1. early' = early /\ early < events'
        BY <1>1, <1>2, <1>10, <2>1, <2>7 DEF SessionEvent
      <3>2. Placed(Range(pending'), I, {}, early', handled')
        BY <1>2, <2>1, <2>2, <2>4, <3>1 DEF Placed
      <3>3. early' <= events'
        BY <1>1, <2>3, <3>1
      <3> QED
        BY <1>2, <1>8, <2>1, <2>2, <2>4, <2>5, <3>2, <3>3, SourcesAre
    <2> QED
      BY <2>6, <2>7
  <1>11. CASE InitFlush
    <2>1. /\ h["init"].pc = "take" /\ h'["event"] = h["event"] /\ pending' = <<>>
          /\ h'["init"] = IF pending = <<>> THEN Idle
                          ELSE [h["init"] EXCEPT !.pc = "check", !.batch = pending]
          /\ events' = events /\ early' = early /\ handled' = handled
      BY <1>1, <1>11, SourcesAre DEF InitFlush, FlushPendingSession
    <2>2. I = {} /\ Rest(h'["event"]) = E
      BY <2>1, RestIs DEF I, E
    <2>3. Rest(h'["init"]) = P /\ (h'["init"].pc \in {"check", "store"} => Rising(h'["init"].batch))
      <3>1. CASE pending = <<>>
        <4>1. h'["init"].pc = "idle" /\ P = {}
          BY <1>4, <2>1, <3>1 DEF Idle, P
        <4> QED
          BY <4>1, RestIs
      <3>2. CASE pending # <<>>
        <4>1. h'["init"].pc = "check" /\ h'["init"].batch = pending
          BY <1>1, <2>1, <3>2, SourcesAre
        <4> QED
          BY <1>2, <4>1, RestIs DEF P
      <3> QED
        BY <3>1, <3>2
    <2>4. Placed({}, P, E, early, handled)
      BY <1>2, <2>2 DEF Placed
    <2> QED
      BY <1>2, <1>4, <1>8, <2>1, <2>2, <2>3, <2>4, SourcesAre, Zenon
  <1>12. CASE ConfigReady
    <2>1. h["event"].pc = "ready?" /\ E = {}
      BY <1>12, RestIs DEF ConfigReady, E
    <2>2. /\ h'["init"] = h["init"] /\ Rest(h'["init"]) = I
          /\ events' = events /\ early' = early /\ handled' = handled
      BY <1>1, <1>12, SourcesAre, Zenon DEF ConfigReady, FlushPendingSession, I
    <2>3. CASE conn.st = "ready" /\ pending # <<>>
      <3>1. /\ pending' = <<>>
            /\ h'["event"].pc = "check" /\ h'["event"].batch = pending
        <4>1. h["event"] \in Handlers
          BY <1>1, SourcesAre
        <4>2. pending' = <<>> /\ h'["event"] = [h["event"] EXCEPT !.pc = "check", !.batch = pending]
          BY <1>1, <1>12, <2>3, SourcesAre DEF ConfigReady, FlushPendingSession
        <4> QED
          BY <4>1, <4>2
      <3>2. Rest(h'["event"]) = P
        BY <3>1, RestIs DEF P
      <3>3. Placed({}, I, P, early, handled)
        BY <1>2, <2>1 DEF Placed
      <3> QED
        BY <1>2, <1>4, <1>8, <2>2, <3>1, <3>2, <3>3, SourcesAre, Zenon
    <2>4. CASE ~ (conn.st = "ready" /\ pending # <<>>)
      <3>1. pending' = pending /\ h'["event"].pc = "idle"
        BY <1>1, <1>12, <2>4, SourcesAre DEF ConfigReady, FlushPendingSession, Idle
      <3>2. Rest(h'["event"]) = {}
        BY <3>1, RestIs
      <3> QED
        BY <1>2, <1>8, <2>1, <2>2, <3>1, <3>2, SourcesAre DEF P
    <2> QED
      BY <2>3, <2>4
  <1>13. ASSUME h'["init"] = h["init"], h'["event"] = h["event"], pending' = pending,
                events' = events, early' = early, handled' = handled
         PROVE  Events'
    BY <1>2, <1>8, <1>13, SourcesAre DEF P, I, E
  <1>18. CASE RunReturns
    <2>1. /\ h'["init"] = h["init"] /\ h'["event"].pc = "idle" /\ pending' = pending
          /\ events' = events /\ early' = early /\ handled' = handled
      BY <1>1, <1>18, SourcesAre DEF RunReturns, Idle
    <2>2. Rest(h'["event"]) = {} /\ Rest(h'["init"]) = I
      BY <2>1, RestIs DEF I
    <2>3. Placed(P, I, {}, early, handled)
      BY <1>2 DEF Placed
    <2> QED
      BY <1>2, <1>8, <2>1, <2>2, <2>3, SourcesAre DEF P
  <1>14. CASE PoolSession
    <2>1. /\ h'["init"] = h["init"] /\ h'["event"] = h["event"] /\ pending' = pending
          /\ events' = events /\ early' = early /\ handled' = handled
      BY <1>1, <1>14, SourcesAre DEF PoolSession
    <2> QED
      BY <1>13, <2>1
  <1>15. CASE OnSessionStore("pool")
    <2>1. /\ h'["init"] = h["init"] /\ h'["event"] = h["event"] /\ pending' = pending
          /\ events' = events /\ early' = early /\ handled' = handled
      BY <1>1, <1>15, SourcesAre, Zenon DEF OnSessionStore
    <2> QED
      BY <1>13, <2>1
  <1>16. ASSUME NEW s \in Own, OnSessionStore(s) PROVE Events'
    <2>1. /\ h[s].pc = "store" /\ h'[s] = NextOfBatch(s)
          /\ \A t \in Own \ {s} : h'[t] = h[t]
          /\ pending' = pending /\ events' = events /\ early' = early /\ handled' = handled
      BY <1>1, <1>16, SourcesAre DEF OnSessionStore
    <2>2. /\ Rest(h'[s]) = Range(Tail(h[s].batch)) /\ Rising(h[s].batch)
          /\ h'[s].pc \in {"check", "store"} => Rising(h'[s].batch)
      <3> DEFINE b == h[s].batch
                 r == h'[s]
      <3>1. b \in Seq(Nat) /\ b # <<>> /\ Rising(b)
        BY <1>1, <1>2, <2>1, SourcesAre
      <3>2. \/ r.pc = "idle" /\ Len(b) = 1
            \/ r.pc = "check" /\ r.batch = Tail(b) /\ Len(b) # 1
            \/ r.pc = "store" /\ r.batch = b
        BY <2>1, NextIs, SourcesAre DEF IInv
      <3> HIDE DEF b, r
      <3>3. Rest(r) = Range(Tail(b)) /\ (r.pc \in {"check", "store"} => Rising(r.batch))
        BY <3>1, <3>2, BatchMoves
      <3> QED
        BY <3>1, <3>3 DEF b, r
    <2>3. Rest(h'[s]) = Rest(h[s])
      BY <2>1, <2>2, RestIs
    <2>4. Rest(h'["init"]) = I /\ Rest(h'["event"]) = E
      BY <2>1, <2>3, SourcesAre DEF I, E
    <2> QED
      BY <1>2, <1>8, <2>1, <2>2, <2>4, SourcesAre DEF P
  <1>17. ASSUME NEW s \in Own, OnSessionCheck(s) PROVE Events'
    <2> DEFINE b == h[s].batch
               r == h'[s]
               x == Head(b)
               R == Range(Tail(b))
    <2>1. /\ h[s].pc = "check"
          /\ r = NextOfBatch(s) \/ r = [h[s] EXCEPT !.pc = "store"]
          /\ \A t \in Own \ {s} : h'[t] = h[t]
          /\ pending' = pending /\ events' = events /\ early' = early
          /\ handled' = IF x <= early THEN x ELSE handled
      BY <1>1, <1>17, SourcesAre, Zenon DEF OnSessionCheck
    <2>2. b \in Seq(Nat) /\ b # <<>> /\ Rising(b)
      BY <1>1, <1>2, <2>1, SourcesAre
    <2>3. \/ r.pc = "idle" /\ Len(b) = 1
          \/ r.pc = "check" /\ r.batch = Tail(b) /\ Len(b) # 1
          \/ r.pc = "store" /\ r.batch = b
      BY <2>1, NextIs, SourcesAre DEF IInv
    <2>4. Rest(h[s]) = Range(b)
      BY <2>1, RestIs
    <2>5. /\ h'["init"] = (IF s = "init" THEN r ELSE h["init"])
          /\ h'["event"] = (IF s = "event" THEN r ELSE h["event"])
      BY <2>1, SourcesAre
    <2> HIDE DEF b, r, x, R
    <2>6. Rest(r) = R /\ (r.pc \in {"check", "store"} => Rising(r.batch))
      BY <2>2, <2>3, BatchMoves DEF R
    <2>7. Range(b) = {x} \cup R /\ x \in Nat /\ R \subseteq Nat /\ \A y \in R : x < y
      BY <2>2, QueueIs DEF x, R
    <2>8. CASE s = "init"
      <3>1. I = {x} \cup R
        BY <2>4, <2>7, <2>8 DEF I
      <3>2. Placed(P, R, E, early, handled')
        <4>1. CASE x <= early
          <5>1. handled' = x /\ \A y \in R : y > x
            BY <2>1, <2>7, <4>1
          <5>2. \A y \in P \cup E : y > early \/ x > early
            BY <1>2, <3>1 DEF Placed
          <5>3. \A y \in P \cup E : y > early
            BY <1>1, <2>7, <4>1, <5>2
          <5> QED
            BY <5>1, <5>3 DEF Placed
        <4>2. CASE x > early
          BY <1>1, <1>2, <1>3, <2>1, <2>7, <3>1, <4>2 DEF Placed
        <4> QED
          BY <1>1, <2>7, <4>1, <4>2
      <3> QED
        BY <1>2, <1>8, <2>1, <2>5, <2>6, <2>8, <3>2, SourcesAre DEF P, E
    <2>9. CASE s = "event"
      <3>1. E = {x} \cup R
        BY <2>4, <2>7, <2>9 DEF E
      <3>2. Placed(P, I, R, early, handled')
        <4>1. CASE x <= early
          <5>1. handled' = x /\ \A y \in R : y > x
            BY <2>1, <2>7, <4>1
          <5>2. \A y \in P \cup I : y > early \/ x > early
            BY <1>2, <3>1 DEF Placed
          <5>3. \A y \in P \cup I : y > early
            BY <1>1, <2>7, <4>1, <5>2
          <5> QED
            BY <5>1, <5>3 DEF Placed
        <4>2. CASE x > early
          BY <1>1, <1>2, <1>3, <2>1, <2>7, <3>1, <4>2 DEF Placed
        <4> QED
          BY <1>1, <2>7, <4>1, <4>2
      <3> QED
        BY <1>2, <1>8, <2>1, <2>5, <2>6, <2>9, <3>2, SourcesAre DEF P, I
    <2> QED
      BY <2>8, <2>9, SourcesAre
  <1> QED
    BY <1>6, <1>7, <1>9, <1>10, <1>11, <1>12, <1>14, <1>15, <1>16, <1>17, <1>18,
       EventKinds, SourcesAre

\* The steps of the requests and the migrations, one of which restarts the loop.
ProcStep(p) ==
    \/ ReadConn(p) \/ Answer(p) \/ ConnDied(p) \/ ConnChanged(p) \/ ClientClosed(p)
    \/ Acquire(p) \/ Migrate(p) \/ ResetReady(p) \/ Restart(p) \/ Restarted(p)
    \/ Begin(p) \/ GiveUp(p)

\* They leave the connection alone.
LEMMA ProcLeaves ==
    ASSUME NEW p \in Procs, ProcStep(p)
    PROVE  /\ conn' = conn /\ closed' = closed /\ EventFrame
           /\ \/ loop' = loop /\ err' = err
              \/ loop = "run" /\ loop' = "stopping" /\ err' = "cancelled"
  BY DEF ProcStep, ReadConn, Answer, ConnDied, ConnChanged, ClientClosed, Acquire, Migrate,
         ResetReady, Restart, Restarted, Begin, GiveUp, Stop, EventFrame, eventVars, connVars

\* The loop after a run: it ends, goes on with a new connection, or drops the keys.
LEMMA NotifyIs ==
    ASSUME Notify
    PROVE  /\ loop = "notify" /\ sess' = sess /\ drop' = drop /\ h' = h
           /\ ready' = ready /\ sem' = sem /\ faults' = faults
           /\ \/ /\ loop' = "ended" /\ conn' = conn /\ err' = err /\ proc' = proc
                 /\ pending' = pending /\ events' = events /\ early' = early /\ handled' = handled
              \/ ReplaceConn(sess)
              \/ /\ loop' = "dropping" /\ conn' = conn /\ err' = sess.dc /\ proc' = proc
                 /\ pending' = pending /\ events' = events /\ early' = early /\ handled' = handled
  BY DEF Notify

\* The actions of Next, one by one.
LEMMA Actions ==
    ASSUME [Next]_vars
    PROVE  \/ UNCHANGED vars
           \/ StartRun \/ ContextDone \/ RunReturns \/ Notify \/ DropKeys \/ Wake
           \/ GotConfig \/ InitFlush \/ SessionEvent \/ ConfigReady \/ ConnFails \/ CloseClient
           \/ PoolSession \/ PoolConnDead \/ PoolDropKeys
           \/ \E s \in Own : OnSessionCheck(s)
           \/ \E s \in Sources : OnSessionStore(s)
           \/ \E p \in Procs : ProcStep(p)
  BY Zenon DEF Next, SystemStep, Stimulus, ProcStep

\* The connection's handlers end before it does.
LEMMA PhasesStep ==
    ASSUME IInv, [Next]_vars
    PROVE  Phases'
  <1> USE DEF Handlers, Conns
  <1>1. /\ h \in [Sources -> Handlers]
        /\ conn \in Conns
    BY DEF IInv, TypeOK
  <1>2. /\ loop \notin {"run", "stopping"} => h["init"].pc = "idle" /\ h["event"].pc = "idle"
        /\ loop \in {"start", "sleep"} => conn.st = "new"
        /\ conn.st \in {"new", "running"} =>
             /\ h["init"].pc = "idle" /\ h["event"].pc \in {"idle", "ready?"} /\ handled = 0
    BY SourcesAre DEF IInv, Phases
  <1>3. SUFFICES
        /\ loop' \notin {"run", "stopping"} => h'["init"].pc = "idle" /\ h'["event"].pc = "idle"
        /\ loop' \in {"start", "sleep"} => conn'.st = "new"
        /\ conn'.st \in {"new", "running"} =>
             /\ h'["init"].pc = "idle" /\ h'["event"].pc \in {"idle", "ready?"} /\ handled' = 0
    BY SourcesAre DEF Phases
  <1>4. CASE UNCHANGED vars
    BY <1>2, <1>4 DEF vars
  <1>5. CASE StartRun
    BY <1>1, <1>2, <1>5 DEF StartRun, eventVars
  <1>6. CASE ContextDone \/ CloseClient \/ PoolConnDead \/ PoolDropKeys
    BY <1>2, <1>6 DEF ContextDone, CloseClient, PoolConnDead, PoolDropKeys, Stop, eventVars, connVars
  <1>7. CASE RunReturns
    <2>1. /\ h'["init"].pc = "idle" /\ h'["event"].pc = "idle"
          /\ loop' = "notify" /\ conn'.st = "dead"
      BY <1>1, <1>7, SourcesAre DEF RunReturns, Idle
    <2> QED
      BY <2>1
  <1>8. CASE Notify
    BY <1>2, <1>8, NotifyIs DEF ReplaceConn
  <1>9. CASE DropKeys
    BY <1>2, <1>9 DEF DropKeys, ReplaceConn
  <1>10. CASE Wake
    BY <1>2, <1>10 DEF Wake, eventVars
  <1>11. CASE ConnFails
    <2>1. /\ loop' = "stopping" /\ h' = h /\ handled' = handled
          /\ conn'.st \in {"new", "running"} => conn'.st = conn.st
      BY <1>1, <1>11 DEF ConnFails, Stop, eventVars
    <2> QED
      BY <1>2, <2>1
  <1>12. CASE GotConfig
    <2>1. loop' = "run" /\ conn'.st = "ready"
      BY <1>1, <1>12 DEF GotConfig
    <2> QED
      BY <2>1
  <1>13. CASE SessionEvent
    <2>1. /\ loop' = "run" /\ conn' = conn /\ handled' = handled
          /\ h'["init"] = h["init"] /\ h'["event"].pc = "ready?"
      BY <1>1, <1>13, SourcesAre DEF SessionEvent, connVars
    <2> QED
      BY <1>2, <1>13, <2>1 DEF SessionEvent
  <1>14. CASE ConfigReady
    <2>1. loop' = loop /\ conn' = conn /\ handled' = handled /\ loop \in {"run", "stopping"}
      BY <1>2, <1>14 DEF ConfigReady, connVars
    <2>2. h'["init"] = h["init"] /\ (conn.st # "ready" => h'["event"].pc = "idle")
      BY <1>1, <1>14, SourcesAre DEF ConfigReady, FlushPendingSession, Idle
    <2> QED
      BY <1>2, <2>1, <2>2
  <1>15. CASE InitFlush
    BY <1>2, <1>15 DEF InitFlush, connVars
  <1>16. ASSUME NEW s \in Own, OnSessionCheck(s) \/ OnSessionStore(s)
         PROVE  loop \in {"run", "stopping"} /\ conn.st \notin {"new", "running"}
    BY <1>2, <1>16, SourcesAre DEF OnSessionCheck, OnSessionStore
  <1>17. ASSUME NEW s \in Own, OnSessionCheck(s) \/ OnSessionStore(s)
         PROVE  loop' \in {"run", "stopping"} /\ conn'.st \notin {"new", "running"}
    BY <1>16, <1>17, Zenon DEF OnSessionCheck, OnSessionStore, connVars
  <1>18. ASSUME OnSessionStore("pool") \/ PoolSession
         PROVE  /\ loop' = loop /\ conn' = conn /\ handled' = handled
                /\ h'["init"] = h["init"] /\ h'["event"] = h["event"]
    BY <1>1, <1>18, SourcesAre DEF OnSessionStore, PoolSession, connVars
  <1>19. ASSUME NEW p \in Procs, ProcStep(p)
         PROVE  /\ conn' = conn /\ h' = h /\ handled' = handled
                /\ loop' = loop \/ loop' = "stopping"
    BY <1>19, ProcLeaves DEF EventFrame
  <1>20. CASE \E p \in Procs : ProcStep(p)
    BY <1>2, <1>19, <1>20
  <1>21. CASE \E s \in Own : OnSessionCheck(s) \/ OnSessionStore(s)
    BY <1>17, <1>21
  <1>22. CASE OnSessionStore("pool") \/ PoolSession
    BY <1>2, <1>18, <1>22
  <1> QED
    BY <1>4, <1>5, <1>6, <1>7, <1>8, <1>9, <1>10, <1>11, <1>12, <1>13, <1>14, <1>15, <1>20, <1>21,
       <1>22, Actions, SourcesAre, Zenon

\* No step puts a key to a data centre that is not its own.
LEMMA KeyStep ==
    ASSUME IInv, [Next]_vars
    PROVE  KeyOfItsDC'
  <1> USE DEF Conns, Sessions
  <1>1. /\ conn \in Conns
        /\ sess \in Sessions
        /\ conn.key \in {NoKey, conn.dc} /\ sess.key \in {NoKey, sess.dc}
    BY DEF IInv, TypeOK, KeyOfItsDC
  <1>2. SUFFICES conn'.key \in {NoKey, conn'.dc} /\ sess'.key \in {NoKey, sess'.dc}
    BY DEF KeyOfItsDC
  <1>3. CASE UNCHANGED vars
    BY <1>1, <1>3 DEF vars
  <1>4. CASE StartRun \/ ConnFails \/ RunReturns \/ GotConfig
    <2>1. sess' = sess /\ conn'.key = conn.key /\ conn'.dc = conn.dc
      BY <1>1, <1>4 DEF StartRun, ConnFails, RunReturns, GotConfig, sessVars
    <2> QED
      BY <1>1, <2>1
  <1>5. CASE \/ ContextDone \/ CloseClient \/ Wake \/ InitFlush \/ SessionEvent \/ ConfigReady
             \/ PoolSession \/ PoolConnDead
    BY <1>1, <1>5 DEF ContextDone, CloseClient, Wake, InitFlush, SessionEvent, ConfigReady,
                      PoolSession, PoolConnDead, sessVars, connVars
  <1>12. CASE PoolDropKeys
    BY <1>1, <1>12 DEF PoolDropKeys, connVars
  <1>6. CASE Notify
    BY <1>1, <1>6, NotifyIs DEF ReplaceConn
  <1>7. CASE DropKeys
    BY <1>1, <1>7 DEF DropKeys, ReplaceConn
  <1>8. CASE \/ \E s \in Own : OnSessionCheck(s)
             \/ \E s \in Sources : OnSessionStore(s)
    BY <1>1, <1>8 DEF OnSessionCheck, OnSessionStore, connVars, sessVars
  <1>9. ASSUME NEW p \in Procs, ProcStep(p) PROVE sess'.key \in {NoKey, sess'.dc}
    BY <1>1, <1>9 DEF ProcStep, ReadConn, Answer, ConnDied, ConnChanged, ClientClosed, Acquire,
                      Migrate, ResetReady, Restart, Restarted, Begin, GiveUp, sessVars
  <1>10. CASE \E p \in Procs : ProcStep(p)
    BY <1>1, <1>9, <1>10, ProcLeaves
  <1> QED
    BY <1>3, <1>4, <1>5, <1>6, <1>7, <1>8, <1>10, <1>12, Actions, Zenon

\* A goroutine that goes on, and one that returns.
LEMMA ProcMoves ==
    ASSUME TypeOK, NEW p \in Procs
    PROVE  /\ \A l : Goto(p, l) =>
                /\ proc'[p] = [proc[p] EXCEPT !.pc = l]
                /\ proc'[p].pc = l /\ proc'[p].redirects = proc[p].redirects
                /\ \A q \in Procs \ {p} : proc'[q] = proc[q]
           /\ \A l : Return(p, l) =>
                /\ proc'[p] = [proc[p] EXCEPT !.pc = l, !.old = FALSE, !.redirects = 0]
                /\ proc'[p].pc = l /\ proc'[p].redirects = 0
                /\ \A q \in Procs \ {p} : proc'[q] = proc[q]
                /\ sem' = IF sem = p THEN None ELSE sem
  <1> USE DEF Goroutines
  <1>1. proc[p] \in Goroutines
    BY DEF TypeOK
  <1>2. ASSUME NEW l, Goto(p, l)
        PROVE  /\ proc'[p] = [proc[p] EXCEPT !.pc = l]
               /\ proc'[p].pc = l /\ proc'[p].redirects = proc[p].redirects
               /\ \A q \in Procs \ {p} : proc'[q] = proc[q]
    <2>1. /\ proc'[p] = [proc[p] EXCEPT !.pc = l]
          /\ \A q \in Procs \ {p} : proc'[q] = proc[q]
      BY <1>2 DEF TypeOK, Goto
    <2> QED
      BY <1>1, <2>1
  <1>3. ASSUME NEW l, Return(p, l)
        PROVE  /\ proc'[p] = [proc[p] EXCEPT !.pc = l, !.old = FALSE, !.redirects = 0]
               /\ proc'[p].pc = l /\ proc'[p].redirects = 0
               /\ \A q \in Procs \ {p} : proc'[q] = proc[q]
               /\ sem' = IF sem = p THEN None ELSE sem
    <2>1. /\ proc'[p] = [proc[p] EXCEPT !.pc = l, !.old = FALSE, !.redirects = 0]
          /\ \A q \in Procs \ {p} : proc'[q] = proc[q]
          /\ sem' = IF sem = p THEN None ELSE sem
      BY <1>3 DEF TypeOK, Return
    <2> QED
      BY <1>1, <2>1
  <1> QED
    BY <1>2, <1>3, Zenon

\* The steps that are not of a request or a migration and replace no connection.
OtherStep ==
    \/ StartRun \/ ContextDone \/ RunReturns \/ Wake \/ GotConfig \/ InitFlush \/ SessionEvent
    \/ ConfigReady \/ ConnFails \/ CloseClient \/ PoolSession \/ PoolConnDead \/ PoolDropKeys
    \/ \E s \in Own : OnSessionCheck(s)
    \/ \E s \in Sources : OnSessionStore(s)
    \/ UNCHANGED vars

\* They leave requests and migrations alone.
LEMMA OthersLeave ==
    ASSUME OtherStep
    PROVE  proc' = proc /\ sem' = sem
  BY DEF OtherStep, StartRun, ContextDone, RunReturns, Wake, GotConfig, InitFlush, SessionEvent,
         ConfigReady, ConnFails, CloseClient, PoolSession, PoolConnDead, PoolDropKeys,
         OnSessionCheck, OnSessionStore, vars

\* The semaphore is taken by one that waits for it, kept or given back.
LEMMA SemaphoreStep ==
    ASSUME IInv, [Next]_vars
    PROVE  SemaphoreHeld' /\ Redirected'
  <1> USE DEF Ended, Migrating, Goroutines
  <1>1. /\ \A p \in Procs : proc[p].pc \in Migrating => sem = p
        /\ \A p \in Procs : sem = p => proc[p].pc \notin Ended \cup {"idle", "acquire"}
        /\ \A p \in Calls : sem = p \/ proc[p].pc = "acquire" => proc[p].redirects = 1
        /\ \A p \in Procs \ Calls : proc[p].pc \in {"idle", "acquire"} \cup Migrating \cup Ended
    BY DEF IInv, SemaphoreHeld, Redirected
  <1>2. None \notin Procs /\ Calls \subseteq Procs /\ TypeOK
    BY Constants DEF Procs, IInv
  <1>3. ASSUME proc' = proc, sem' = sem PROVE SemaphoreHeld' /\ Redirected'
    BY <1>1, <1>3 DEF SemaphoreHeld, Redirected
  <1>4. ASSUME NEW p \in Procs, \A q \in Procs \ {p} : proc'[q] = proc[q],
               \A q \in Procs \ {p} : sem' = q => sem = q,
               \A q \in Procs \ {p} : sem = q => sem' = q,
               proc'[p].pc \in Migrating => sem' = p,
               sem' = p => proc'[p].pc \notin Ended \cup {"idle", "acquire"},
               p \in Calls => (sem' = p \/ proc'[p].pc = "acquire" => proc'[p].redirects = 1),
               p \notin Calls => proc'[p].pc \in {"idle", "acquire"} \cup Migrating \cup Ended
        PROVE  SemaphoreHeld' /\ Redirected'
    <2>1. SemaphoreHeld'
      BY <1>1, <1>4 DEF SemaphoreHeld
    <2>2. Redirected'
      BY <1>1, <1>2, <1>4 DEF Redirected
    <2> QED
      BY <2>1, <2>2, Zenon
  <1>5. ASSUME NEW p \in Procs, NEW l \in Ended, Return(p, l) PROVE SemaphoreHeld' /\ Redirected'
    <2>1. /\ proc'[p].pc = l /\ proc'[p].redirects = 0
          /\ \A q \in Procs \ {p} : proc'[q] = proc[q]
          /\ sem' = IF sem = p THEN None ELSE sem
      BY <1>2, <1>5, ProcMoves, Zenon
    <2> QED
      BY <1>2, <1>4, <2>1, Zenon
  <1>6. ASSUME NEW p \in Procs, Begin(p) PROVE SemaphoreHeld' /\ Redirected'
    <2>1. /\ proc[p].pc = "idle" /\ sem' = sem
          /\ Goto(p, IF p \in Calls THEN "read" ELSE "acquire")
      BY <1>6, Zenon DEF Begin
    <2>2. /\ proc'[p].pc = IF p \in Calls THEN "read" ELSE "acquire"
          /\ \A q \in Procs \ {p} : proc'[q] = proc[q]
      BY <1>2, <2>1, ProcMoves, Zenon
    <2> QED
      BY <1>1, <1>4, <2>1, <2>2
  <1>7. ASSUME NEW p \in Procs, ReadConn(p) \/ ConnChanged(p) PROVE SemaphoreHeld' /\ Redirected'
    <2>1. /\ proc[p].pc \in {"read", "changed"} /\ sem' = sem
          /\ proc' = [proc EXCEPT ![p].pc = "invoke", ![p].old = FALSE]
      BY <1>7 DEF ReadConn, ConnChanged
    <2>2. /\ proc'[p].pc = "invoke" /\ proc'[p].redirects = proc[p].redirects
          /\ \A q \in Procs \ {p} : proc'[q] = proc[q]
      BY <1>2, <2>1 DEF TypeOK
    <2>3. p \in Calls
      BY <1>1, <2>1
    <2> QED
      BY <1>1, <1>4, <2>1, <2>2, <2>3, ZenonT(30)
  <1>8. ASSUME NEW p \in Procs, Answer(p) PROVE SemaphoreHeld' /\ Redirected'
    <2>1. CASE Return(p, "done") \/ Return(p, "redirected")
      BY <1>5, <2>1
    <2>2. CASE ~ (Return(p, "done") \/ Return(p, "redirected"))
      <3>1. /\ proc[p].pc = "invoke" /\ proc[p].redirects = 0 /\ sem' = sem
            /\ proc' = [proc EXCEPT ![p].pc = "acquire", ![p].redirects = 1]
        BY <1>8, <2>2 DEF Answer
      <3>2. /\ proc'[p].pc = "acquire" /\ proc'[p].redirects = 1
            /\ \A q \in Procs \ {p} : proc'[q] = proc[q]
        BY <1>2, <3>1 DEF TypeOK
      <3>3. p \in Calls /\ sem # p
        BY <1>1, <3>1
      <3> QED
        BY <1>4, <3>1, <3>2, <3>3, Zenon
    <2> QED
      BY <2>1, <2>2
  <1>9. ASSUME NEW p \in Procs, ConnDied(p) PROVE SemaphoreHeld' /\ Redirected'
    <2>1. CASE Return(p, "failed")
      BY <1>5, <2>1
    <2>2. CASE ~ Return(p, "failed")
      <3>1. proc[p].pc = "invoke" /\ sem' = sem /\ Goto(p, "changed")
        BY <1>9, <2>2, Zenon DEF ConnDied
      <3>2. /\ proc'[p].pc = "changed" /\ proc'[p].redirects = proc[p].redirects
            /\ \A q \in Procs \ {p} : proc'[q] = proc[q]
        BY <1>2, <3>1, ProcMoves, Zenon
      <3> QED
        BY <1>1, <1>4, <3>1, <3>2
    <2> QED
      BY <2>1, <2>2
  <1>10. ASSUME NEW p \in Procs, ClientClosed(p) \/ GiveUp(p) PROVE SemaphoreHeld' /\ Redirected'
    BY <1>5, <1>10, Zenon DEF ClientClosed, GiveUp
  <1>11. ASSUME NEW p \in Procs, Acquire(p) PROVE SemaphoreHeld' /\ Redirected'
    <2>1. proc[p].pc = "acquire" /\ sem = None /\ sem' = p /\ Goto(p, "migrate")
      BY <1>11, Zenon DEF Acquire
    <2>2. /\ proc'[p].pc = "migrate" /\ proc'[p].redirects = proc[p].redirects
          /\ \A q \in Procs \ {p} : proc'[q] = proc[q]
      BY <1>2, <2>1, ProcMoves, Zenon
    <2> QED
      BY <1>1, <1>2, <1>4, <2>1, <2>2
  <1>12. ASSUME NEW p \in Procs, Migrate(p) PROVE SemaphoreHeld' /\ Redirected'
    <2>1. proc[p].pc = "migrate" /\ sem' = sem /\ sem = p
      BY <1>1, <1>12, Zenon DEF Migrate
    <2>2. CASE p \in Calls /\ sess.dc = Home
      <3>1. proc' = [proc EXCEPT ![p].pc = "read", ![p].found = TRUE]
        BY <1>12, <2>2 DEF Migrate
      <3>2. /\ proc'[p].pc = "read" /\ proc'[p].redirects = proc[p].redirects
            /\ \A q \in Procs \ {p} : proc'[q] = proc[q]
        BY <1>2, <3>1, Zenon DEF TypeOK
      <3> QED
        BY <1>1, <1>4, <2>1, <2>2, <3>2
    <2>3. CASE ~ (p \in Calls /\ sess.dc = Home)
      <3>1. Goto(p, "reset")
        BY <1>12, <2>3, Zenon DEF Migrate
      <3>2. /\ proc'[p].pc = "reset" /\ proc'[p].redirects = proc[p].redirects
            /\ \A q \in Procs \ {p} : proc'[q] = proc[q]
        BY <1>2, <3>1, ProcMoves, Zenon
      <3> QED
        BY <1>1, <1>4, <2>1, <3>2
    <2> QED
      BY <2>2, <2>3
  <1>13. ASSUME NEW p \in Procs, ResetReady(p) \/ Restart(p) PROVE SemaphoreHeld' /\ Redirected'
    <2>1. /\ proc[p].pc \in {"reset", "restart"} /\ sem' = sem
          /\ \E l \in {"restart", "wait"} : Goto(p, l)
      BY <1>13, Zenon DEF ResetReady, Restart
    <2>2. /\ proc'[p].pc \in {"restart", "wait"} /\ proc'[p].redirects = proc[p].redirects
          /\ \A q \in Procs \ {p} : proc'[q] = proc[q]
      BY <1>2, <2>1, ProcMoves, Zenon
    <2> QED
      BY <1>1, <1>4, <2>1, <2>2
  <1>14. ASSUME NEW p \in Procs, Restarted(p) PROVE SemaphoreHeld' /\ Redirected'
    <2>1. CASE p \notin Calls
      BY <1>5, <1>14, <2>1, Zenon DEF Restarted
    <2>2. CASE p \in Calls
      <3>1. proc[p].pc = "wait" /\ sem' = sem /\ Goto(p, "read")
        BY <1>14, <2>2, Zenon DEF Restarted
      <3>2. /\ proc'[p].pc = "read" /\ proc'[p].redirects = proc[p].redirects
            /\ \A q \in Procs \ {p} : proc'[q] = proc[q]
        BY <1>2, <3>1, ProcMoves, Zenon
      <3> QED
        BY <1>1, <1>4, <2>2, <3>1, <3>2
    <2> QED
      BY <2>1, <2>2, Zenon
  <1>15. ASSUME NEW p \in Procs, ProcStep(p) PROVE SemaphoreHeld' /\ Redirected'
    BY <1>6, <1>7, <1>8, <1>9, <1>10, <1>11, <1>12, <1>13, <1>14, <1>15, Zenon DEF ProcStep
  <1>16. ASSUME OtherStep PROVE proc' = proc /\ sem' = sem
    BY <1>16, OthersLeave
  <1>17. ASSUME NEW s, ReplaceConn(s), sem' = sem PROVE SemaphoreHeld' /\ Redirected'
    <2>1. \A p \in Procs : proc'[p].pc = proc[p].pc /\ proc'[p].redirects = proc[p].redirects
      <3>1. SUFFICES ASSUME NEW p \in Procs
                     PROVE  proc'[p].pc = proc[p].pc /\ proc'[p].redirects = proc[p].redirects
        OBVIOUS
      <3>2. proc[p] \in Goroutines
        BY <1>2 DEF TypeOK
      <3>3. proc'[p] = [proc[p] EXCEPT !.old = proc[p].pc \in {"invoke", "changed"}]
        BY <1>17 DEF ReplaceConn
      <3> QED
        BY <3>2, <3>3
    <2>2. SemaphoreHeld'
      BY <1>1, <1>17, <2>1 DEF SemaphoreHeld
    <2>3. Redirected'
      BY <1>1, <1>2, <1>17, <2>1 DEF Redirected
    <2> QED
      BY <2>2, <2>3, Zenon
  <1>18. CASE Notify \/ DropKeys
    BY <1>3, <1>17, <1>18, NotifyIs DEF DropKeys
  <1> QED
    BY <1>3, <1>15, <1>16, <1>18, Actions, Zenon DEF OtherStep

\* Every step keeps the types.
LEMMA TypeStep ==
    ASSUME IInv, [Next]_vars
    PROVE  TypeOK'
  <1>1. /\ conn \in Conns
        /\ loop \in {"start", "run", "stopping", "notify", "dropping", "sleep", "ended"}
        /\ loop = "dropping" => err \in DCs
        /\ closed \in BOOLEAN /\ ready \in BOOLEAN
        /\ sess \in Sessions /\ drop \in DCs \cup {None}
        /\ sem \in Procs \cup {None}
        /\ proc \in [Procs -> Goroutines]
        /\ h \in [Sources -> Handlers]
        /\ \A s \in Sources : Ready(h[s])
        /\ pending \in Seq(Nat)
        /\ events \in Nat /\ early \in Nat /\ handled \in Nat /\ faults \in Nat
    BY DEF IInv, TypeOK
  <1>2. TypeOK
    BY DEF IInv
  <1>3. <<>> \in Seq(Nat)
    OBVIOUS
  \* The loop, the connection and the session.
  <1>4. /\ conn' \in Conns
        /\ loop' \in {"start", "run", "stopping", "notify", "dropping", "sleep", "ended"}
        /\ loop' = "dropping" => err' \in DCs
        /\ sess' \in Sessions /\ drop' \in DCs \cup {None}
    <2> USE DEF Conns, Sessions
    <2>1. CASE UNCHANGED vars
      BY <1>1, <2>1 DEF vars
    <2>2. CASE StartRun
      BY <1>1, <2>2, Zenon DEF StartRun, sessVars
    <2>3. CASE ContextDone
      BY <1>1, <2>3 DEF ContextDone, Stop, sessVars
    <2>4. CASE RunReturns
      BY <1>1, <2>4 DEF RunReturns, sessVars
    <2>5. CASE Notify
      BY <1>1, <2>5, NotifyIs DEF ReplaceConn
    <2>6. CASE DropKeys
      BY <1>1, <2>6 DEF DropKeys, ReplaceConn
    <2>16. CASE PoolConnDead \/ PoolDropKeys
      BY <1>1, <2>16 DEF PoolConnDead, PoolDropKeys, connVars
    <2>7. CASE Wake
      BY <1>1, <2>7 DEF Wake, sessVars
    <2>8. CASE GotConfig
      BY <1>1, <2>8, Zenon DEF GotConfig, sessVars
    <2>9. CASE InitFlush \/ SessionEvent \/ ConfigReady \/ PoolSession
      BY <1>1, <2>9 DEF InitFlush, SessionEvent, ConfigReady, PoolSession, connVars, sessVars
    <2>10. CASE ConnFails
      BY <1>1, <2>10 DEF ConnFails, Stop, sessVars
    <2>11. CASE CloseClient
      BY <1>1, <2>11 DEF CloseClient, sessVars
    <2>12. ASSUME NEW s \in Sources, OnSessionCheck(s) \/ OnSessionStore(s)
           PROVE  /\ conn' = conn /\ loop' = loop /\ err' = err /\ drop' = drop
                  /\ sess' \in Sessions
      BY <1>1, <2>12 DEF OnSessionCheck, OnSessionStore, connVars, sessVars, Handlers, Ready
    <2>13. ASSUME NEW p \in Procs, ProcStep(p) PROVE sess' \in Sessions /\ drop' = drop
      BY <1>1, <2>13, Constants
         DEF ProcStep, ReadConn, Answer, ConnDied, ConnChanged, ClientClosed, Acquire,
             Migrate, ResetReady, Restart, Restarted, Begin, GiveUp, sessVars
    <2>14. CASE \/ \E s \in Own : OnSessionCheck(s)
               \/ \E s \in Sources : OnSessionStore(s)
      BY <1>1, <2>12, <2>14, SourcesAre
    <2>15. CASE \E p \in Procs : ProcStep(p)
      BY <1>1, <2>13, <2>15, ProcLeaves, Zenon
    <2> QED
      BY <2>1, <2>2, <2>3, <2>4, <2>5, <2>6, <2>7, <2>8, <2>9, <2>10, <2>11, <2>14, <2>15,
         <2>16, Actions, Zenon
  \* The requests and migrations.
  <1>5. sem' \in Procs \cup {None} /\ proc' \in [Procs -> Goroutines]
    <2> USE DEF Goroutines, Ended, Migrating
    <2>1. ASSUME NEW p \in Procs, NEW l \in Ended, Return(p, l)
          PROVE  sem' \in Procs \cup {None} /\ proc' \in [Procs -> Goroutines]
      <3>1. proc[p] \in Goroutines
        BY <1>1
      <3>2. [proc[p] EXCEPT !.pc = l, !.old = FALSE, !.redirects = 0] \in Goroutines
        BY <3>1, Zenon
      <3>3. proc' = [proc EXCEPT ![p] = [proc[p] EXCEPT !.pc = l, !.old = FALSE, !.redirects = 0]]
        BY <1>1, <2>1, Zenon DEF Return
      <3>4. sem' \in Procs \cup {None}
        BY <1>1, <2>1 DEF Return
      <3> HIDE DEF Goroutines
      <3> QED
        BY <1>1, <3>2, <3>3, <3>4
    <2>2. ASSUME NEW p \in Procs, NEW l \in Migrating \cup {"read", "changed", "acquire"}, Goto(p, l)
          PROVE  proc' \in [Procs -> Goroutines]
      <3>1. proc[p] \in Goroutines
        BY <1>1, Zenon
      <3>2. [proc[p] EXCEPT !.pc = l] \in Goroutines
        BY <3>1, Zenon
      <3>3. proc' = [proc EXCEPT ![p] = [proc[p] EXCEPT !.pc = l]]
        BY <1>1, <2>2, Zenon DEF Goto
      <3> HIDE DEF Goroutines
      <3> QED
        BY <1>1, <3>2, <3>3, Zenon
    <2>3. ASSUME NEW p \in Procs, Begin(p) \/ Acquire(p) \/ ResetReady(p) \/ Restart(p)
          PROVE  sem' \in Procs \cup {None} /\ proc' \in [Procs -> Goroutines]
      BY <1>1, <2>2, <2>3 DEF Begin, Acquire, ResetReady, Restart
    <2>4. ASSUME NEW p \in Procs, ReadConn(p) \/ ConnChanged(p)
          PROVE  sem' \in Procs \cup {None} /\ proc' \in [Procs -> Goroutines]
      <3>2. proc[p] \in Goroutines
        BY <1>1
      <3>3. [proc[p] EXCEPT !.pc = "invoke", !.old = FALSE] \in Goroutines
        BY <3>2, Zenon
      <3>4. proc' = [proc EXCEPT ![p] = [proc[p] EXCEPT !.pc = "invoke", !.old = FALSE]] /\ sem' = sem
        BY <1>1, <2>4, Zenon DEF ReadConn, ConnChanged
      <3> HIDE DEF Goroutines
      <3> QED
        BY <1>1, <3>3, <3>4
    <2>5. ASSUME NEW p \in Procs, Answer(p)
          PROVE  sem' \in Procs \cup {None} /\ proc' \in [Procs -> Goroutines]
      <3>1. CASE Return(p, "done") \/ Return(p, "redirected")
        BY <2>1, <3>1, Zenon
      <3>2. CASE proc' = [proc EXCEPT ![p].pc = "acquire", ![p].redirects = 1] /\ sem' = sem
        <4>1. proc[p] \in Goroutines
          BY <1>1, Zenon
        <4>2. [proc[p] EXCEPT !.pc = "acquire", !.redirects = 1] \in Goroutines
          BY <4>1, Zenon
        <4>3. proc' = [proc EXCEPT ![p] = [proc[p] EXCEPT !.pc = "acquire", !.redirects = 1]]
          BY <1>1, <3>2, Zenon
        <4> HIDE DEF Goroutines
        <4> QED
          BY <1>1, <3>2, <4>2, <4>3, Zenon
      <3> QED
        BY <2>5, <3>1, <3>2, Zenon DEF Answer
    <2>6. ASSUME NEW p \in Procs, ConnDied(p) \/ ClientClosed(p) \/ GiveUp(p) \/ Restarted(p)
          PROVE  sem' \in Procs \cup {None} /\ proc' \in [Procs -> Goroutines]
      BY <1>1, <2>1, <2>2, <2>6 DEF ConnDied, ClientClosed, GiveUp, Restarted
    <2>7. ASSUME NEW p \in Procs, Migrate(p)
          PROVE  sem' \in Procs \cup {None} /\ proc' \in [Procs -> Goroutines]
      <3>1. CASE Goto(p, "reset") /\ sem' = sem
        BY <1>1, <2>2, <3>1
      <3>2. CASE /\ proc' = [proc EXCEPT ![p].pc = "read", ![p].found = TRUE]
                 /\ sem' = sem
        <4>1. proc[p] \in Goroutines
          BY <1>1
        <4>2. [proc[p] EXCEPT !.pc = "read", !.found = TRUE] \in Goroutines
          BY <4>1, Zenon
        <4>3. proc' = [proc EXCEPT ![p] = [proc[p] EXCEPT !.pc = "read", !.found = TRUE]]
          BY <1>1, <3>2, Zenon
        <4> HIDE DEF Goroutines
        <4> QED
          BY <1>1, <3>2, <4>2, <4>3
      <3> QED
        BY <2>7, <3>1, <3>2 DEF Migrate
    <2>8. ASSUME NEW p \in Procs, ProcStep(p)
          PROVE  sem' \in Procs \cup {None} /\ proc' \in [Procs -> Goroutines]
      BY <2>3, <2>4, <2>5, <2>6, <2>7, <2>8 DEF ProcStep
    <2>9. ASSUME NEW s, ReplaceConn(s), sem' = sem
          PROVE  sem' \in Procs \cup {None} /\ proc' \in [Procs -> Goroutines]
      <3>1. ASSUME NEW p \in Procs
            PROVE  [proc[p] EXCEPT !.old = proc[p].pc \in {"invoke", "changed"}] \in Goroutines
        <4>1. proc[p] \in Goroutines
          BY <1>1
        <4>2. \A b \in BOOLEAN : [proc[p] EXCEPT !.old = b] \in Goroutines
          BY <4>1, Zenon
        <4>3. (proc[p].pc \in {"invoke", "changed"}) \in BOOLEAN
          OBVIOUS
        <4> QED
          BY <4>2, <4>3, Zenon
      <3> HIDE DEF Goroutines
      <3> QED
        BY <1>1, <2>9, <3>1 DEF ReplaceConn
    <2>10. CASE Notify \/ DropKeys
      BY <1>1, <2>9, <2>10, NotifyIs DEF DropKeys
    <2>11. CASE OtherStep
      BY <1>1, <2>11, OthersLeave
    <2> QED
      BY <2>8, <2>10, <2>11, Actions, Zenon DEF OtherStep
  \* The handlers of session events.
  <1>6. /\ h' \in [Sources -> Handlers]
        /\ \A s \in Sources : Ready(h'[s])
        /\ pending' \in Seq(Nat) /\ events' \in Nat /\ early' \in Nat /\ handled' \in Nat
    <2>1. CASE EventFrame
      BY <1>1, <2>1 DEF EventFrame
    <2>2. CASE Replaced
      BY <1>1, <1>3, <2>2 DEF Replaced, ReplaceConn
    <2>3. ASSUME NEW s \in Sources, NEW r \in Handlers, h' = [h EXCEPT ![s] = r],
                 Ready(r)
          PROVE  /\ h' \in [Sources -> Handlers]
                 /\ \A t \in Sources : Ready(h'[t])
      BY <1>1, <2>3
    <2>4. Idle \in Handlers /\ Ready(Idle)
      BY <1>3 DEF Idle, Handlers, Ready
    <2>5. conn.dc \in DCs
      BY <1>1 DEF Conns
    <2>6. CASE GotConfig
      <3> DEFINE r == [pc |-> "take", batch |-> <<>>, dc |-> conn.dc]
      <3>1. r \in Handlers /\ Ready(r) /\ h' = [h EXCEPT !["init"] = r]
        BY <1>3, <2>5, <2>6 DEF GotConfig, Handlers, Ready
      <3> HIDE DEF r
      <3> QED
        BY <1>1, <2>3, <2>6, <3>1, SourcesAre DEF GotConfig
    <2>7. CASE SessionEvent
      <3> DEFINE r == [pc |-> "ready?", batch |-> <<>>, dc |-> conn.dc]
      <3>1. r \in Handlers /\ Ready(r) /\ h' = [h EXCEPT !["event"] = r]
        BY <1>3, <2>5, <2>7, Zenon DEF SessionEvent, Handlers, Ready
      <3>2. /\ events' \in Nat /\ pending' = Append(pending, events') /\ early' \in Nat
            /\ handled' = handled
        BY <1>1, <2>7 DEF SessionEvent
      <3>3. pending' \in Seq(Nat)
        BY <1>1, <3>2
      <3> HIDE DEF r
      <3> QED
        BY <1>1, <2>3, <3>1, <3>2, <3>3, SourcesAre, Zenon
    <2>8. ASSUME NEW s \in Sources, FlushPendingSession(s), h[s].pc # "idle"
          PROVE  /\ h' \in [Sources -> Handlers]
                 /\ \A t \in Sources : Ready(h'[t])
                 /\ pending' \in Seq(Nat)
      <3>1. CASE pending = <<>>
        BY <1>3, <2>3, <2>4, <2>8, <3>1, Zenon DEF FlushPendingSession
      <3>2. CASE pending # <<>>
        <4> DEFINE r == [h[s] EXCEPT !.pc = "check", !.batch = pending]
        <4>1. r \in Handlers /\ Ready(r) /\ h' = [h EXCEPT ![s] = r]
          BY <1>1, <2>8, <3>2, Zenon DEF FlushPendingSession, Handlers, Ready
        <4> HIDE DEF r
        <4> QED
          BY <1>3, <2>3, <2>8, <4>1, Zenon DEF FlushPendingSession
      <3> QED
        BY <3>1, <3>2
    <2>9. CASE InitFlush
      BY <1>1, <2>8, <2>9, SourcesAre DEF InitFlush
    <2>10. CASE ConfigReady
      BY <1>1, <2>3, <2>4, <2>8, <2>10, SourcesAre DEF ConfigReady
    <2>11. ASSUME PoolSession
           PROVE  /\ h' \in [Sources -> Handlers]
                  /\ \A t \in Sources : Ready(h'[t])
                  /\ pending' = pending /\ events' = events /\ early' = early /\ handled' = handled
      <3> DEFINE r == [pc |-> "store", batch |-> <<0>>, dc |-> sess.dc]
      <3>1. <<0>> \in Seq(Nat) /\ <<0>> # <<>>
        OBVIOUS
      <3>2. r \in Handlers /\ Ready(r) /\ h' = [h EXCEPT !["pool"] = r]
        BY <1>1, <2>11, <3>1 DEF PoolSession, Handlers, Ready, Sessions
      <3> HIDE DEF r
      <3> QED
        BY <2>3, <2>11, <3>2, SourcesAre, Zenon DEF PoolSession
    <2>12. ASSUME NEW s \in Sources, OnSessionCheck(s) \/ OnSessionStore(s)
           PROVE  /\ h' \in [Sources -> Handlers]
                  /\ \A t \in Sources : Ready(h'[t])
                  /\ pending' = pending /\ events' = events /\ early' = early /\ handled' \in Nat
      <3>1. PICK r : /\ h' = [h EXCEPT ![s] = r]
                     /\ r = NextOfBatch(s) \/ r = [h[s] EXCEPT !.pc = "store"]
        BY <2>12 DEF OnSessionCheck, OnSessionStore
      <3>2. h[s].pc \in {"check", "store"}
        BY <2>12 DEF OnSessionCheck, OnSessionStore
      <3>3. r \in Handlers /\ Ready(r)
        BY <1>2, <3>1, <3>2, NextIs DEF Handlers
      <3>4. Head(h[s].batch) \in Nat
        BY <1>1, <3>2 DEF Handlers, Ready
      <3>5. pending' = pending /\ events' = events /\ early' = early /\ handled' \in Nat
        BY <1>1, <2>12, <3>4, Zenon DEF OnSessionCheck, OnSessionStore
      <3> QED
        BY <2>3, <3>1, <3>3, <3>5, Zenon
    <2>13. CASE RunReturns
      BY <1>1, <2>3, <2>4, <2>13, SourcesAre, Zenon DEF RunReturns
    <2> QED
      BY <1>1, <2>1, <2>2, <2>6, <2>7, <2>9, <2>10, <2>11, <2>12, <2>13, EventKinds, SourcesAre, Zenon
  \* The flags and the count of failures.
  <1>7. closed' = closed \/ closed' = TRUE
    <2>1. ASSUME NEW p \in Procs, ProcStep(p) PROVE closed' = closed
      BY <2>1, Zenon DEF ProcStep, ReadConn, Answer, ConnDied, ConnChanged, ClientClosed, Acquire,
                  Migrate, ResetReady, Restart, Restarted, Begin, GiveUp, connVars
    <2> QED
      BY <2>1, Actions
         DEF vars, StartRun, ContextDone, RunReturns, Notify, DropKeys, Wake, GotConfig, InitFlush,
             SessionEvent, ConfigReady, ConnFails, CloseClient, OnSessionCheck, OnSessionStore,
             PoolSession, PoolConnDead, PoolDropKeys, connVars
  <1>8. ready' = ready \/ ready' = TRUE \/ ready' = FALSE
    <2>1. ASSUME NEW p \in Procs, ProcStep(p) PROVE ready' = ready \/ ready' = FALSE
      BY <2>1, Zenon DEF ProcStep, ReadConn, Answer, ConnDied, ConnChanged, ClientClosed, Acquire,
                  Migrate, ResetReady, Restart, Restarted, Begin, GiveUp, sessVars
    <2> QED
      BY <2>1, Actions
         DEF vars, StartRun, ContextDone, RunReturns, Notify, DropKeys, Wake, GotConfig, InitFlush,
             SessionEvent, ConfigReady, ConnFails, CloseClient, OnSessionCheck, OnSessionStore,
             PoolSession, PoolConnDead, PoolDropKeys, sessVars
  <1>9. faults' = faults \/ faults' = faults + 1
    <2>1. ASSUME NEW p \in Procs, ProcStep(p) PROVE faults' = faults \/ faults' = faults + 1
      BY <2>1 DEF ProcStep, ReadConn, Answer, ConnDied, ConnChanged, ClientClosed, Acquire,
                  Migrate, ResetReady, Restart, Restarted, Begin, GiveUp, Fault
    <2> QED
      BY <2>1, Actions
         DEF vars, StartRun, ContextDone, RunReturns, Notify, DropKeys, Wake, GotConfig, InitFlush,
             SessionEvent, ConfigReady, ConnFails, CloseClient, OnSessionCheck, OnSessionStore,
             PoolSession, PoolConnDead, PoolDropKeys, Fault
  <1>10. closed' \in BOOLEAN /\ ready' \in BOOLEAN
    BY <1>1, <1>7, <1>8, Zenon
  <1>11. faults' \in Nat
    BY <1>1, <1>9
  <1> QED
    BY <1>4, <1>5, <1>6, <1>10, <1>11 DEF TypeOK

\* The client starts with one new connection and nothing under way.
LEMMA InitIInv ==
    ASSUME Init
    PROVE  IInv
  <1> USE DEF Init
  <1>1. <<>> \in Seq(Nat) /\ Range(<<>>) = {} /\ Rising(<<>>)
    BY DEF Range, Rising
  <1>2. \A s \in Sources : h[s] = Idle /\ Idle.pc = "idle" /\ Rest(h[s]) = {}
    BY DEF Idle, Rest
  <1>3. \A p \in Procs : proc[p] = NoProc
    BY Zenon
  <1>4. TypeOK
    <2>1. conn \in Conns /\ sess \in Sessions
      BY Constants, Zenon DEF Conns, Sessions
    <2>2. h \in [Sources -> Handlers] /\ \A s \in Sources : Ready(h[s])
      BY <1>1, Zenon DEF Handlers, Idle, Ready
    <2>3. NoProc \in Goroutines
      BY DEF NoProc, Goroutines
    <2>4. proc \in [Procs -> Goroutines]
      BY <2>3
    <2>5. closed \in BOOLEAN /\ ready \in BOOLEAN
      BY Zenon
    <2> QED
      BY <1>1, <2>1, <2>2, <2>4, <2>5, Zenon DEF TypeOK
  <1>5. Phases
    BY <1>2, SourcesAre, Zenon DEF Phases
  <1>6. Events
    <2>1. pending = <<>> /\ early = 0 /\ events = 0
      BY Zenon
    <2>2. early <= events
      BY <2>1
    <2>3. \A s \in Own : h[s].pc \notin {"check", "store"}
      BY <1>2, SourcesAre
    <2>4. Placed(Range(pending), Rest(h["init"]), Rest(h["event"]), early, handled)
      BY <1>1, <1>2, <2>1, SourcesAre, Zenon DEF Placed
    <2> QED
      BY <1>1, <2>1, <2>2, <2>3, <2>4, Zenon DEF Events
  <1>7. KeyOfItsDC
    BY DEF KeyOfItsDC
  <1>8. SemaphoreHeld /\ Redirected
    BY <1>3, Constants DEF SemaphoreHeld, Redirected, NoProc, Migrating, Ended, Procs
  <1> QED
    BY <1>4, <1>5, <1>6, <1>7, <1>8, Zenon DEF IInv

\* The invariant holds in every state.
LEMMA AlwaysIInv == Spec => []IInv
  <1>1. IInv /\ [Next]_vars => IInv'
    BY TypeStep, PhasesStep, EventsStep, KeyStep, SemaphoreStep DEF IInv
  <1> QED
    BY <1>1, InitIInv, PTL DEF Spec

\* An authorisation key is stored and used with its own data centre only, whatever
\* migrations, events of old connections and of pools, and dropped keys do in
\* between (SyncSession.Migrate, onSession, handlePrimaryConnDead, createConn).
THEOREM KeysStayHome == Spec => []KeyOfItsDC
  <1>1. IInv => KeyOfItsDC
    BY DEF IInv
  <1> QED
    BY <1>1, AlwaysIInv, PTL

\* Session events that came before the configuration reach the handler in the
\* order they came in, for any number of them (manager.Conn.flushPendingSession,
\* called by init and by the reader at the same time).
THEOREM EarlyEventsInOrder == Spec => EarlyInOrder
  <1>1. IInv => \A s \in Own :
                  OnSessionCheck(s) /\ Head(h[s].batch) <= early => Head(h[s].batch) > handled
    <2>1. SUFFICES ASSUME IInv, NEW s \in Own, OnSessionCheck(s),
                          Head(h[s].batch) <= early
                   PROVE  Head(h[s].batch) > handled
      OBVIOUS
    <2>2. /\ h[s].pc = "check" /\ h[s].batch \in Seq(Nat) /\ h[s].batch # <<>>
          /\ early \in Nat /\ handled \in Nat
      BY <2>1, SourcesAre DEF IInv, TypeOK, Handlers, Ready, OnSessionCheck
    <2>3. Head(h[s].batch) \in Rest(h[s]) /\ Head(h[s].batch) \in Nat
      BY <2>2, QueueIs, Zenon DEF Rest
    <2>4. \A e \in Rest(h["init"]) \cup Rest(h["event"]) : e > early \/ e > handled
      BY <2>1 DEF IInv, Events, Placed
    <2> QED
      BY <2>1, <2>2, <2>3, <2>4, SourcesAre
  <1> QED
    BY <1>1, AlwaysIInv, PTL DEF EarlyInOrder

\* Migrations exclude each other: whoever has set out to migrate holds the
\* semaphore until it is done, and nobody waits for the semaphore, or returns,
\* while holding it (invokeMigrate, MigrateTo, ensureRestart).
THEOREM OneMigration == Spec => []SemaphoreHeld
  <1>1. IInv => SemaphoreHeld
    BY DEF IInv
  <1> QED
    BY <1>1, AlwaysIInv, PTL

\* The variables keep their types: a connection is always made for a data centre,
\* and a handler of session events never runs out of its batch.
THEOREM TypeCorrect == Spec => []TypeOK
  <1>1. IInv => TypeOK
    BY DEF IInv
  <1> QED
    BY <1>1, AlwaysIInv, PTL
=============================================================================
