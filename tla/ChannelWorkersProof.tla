------------------------- MODULE ChannelWorkersProof -------------------------
(***************************************************************************)
(* The slots of chDiffSem and the queue of channels to forget, for every   *)
(* finite set of channels and every capacity.  A worker that runs is in    *)
(* the map; one that gave up stays there, once in removeChannel, until the *)
(* internalState worker has read it.  A worker waits to be put there only  *)
(* when it is full of others.                                              *)
(***************************************************************************)
EXTENDS ChannelWorkers, FiniteSetTheorems, TLAPS

\* Where a channel's worker is while it runs.
Active == {"select", "diff", "timeout", "acquire", "rpc", "out", "lost"}

Places == Active \cup {"none", "end"}

\* The workers that hold a slot.
Running == {c \in Channels : at[c] = "rpc"}

TypeOK ==
  /\ worker \in {"select", "push", "stopped"}
  /\ batch \subseteq Channels
  /\ tracked \subseteq Channels
  /\ updates \in [Channels -> 0 .. QueueSize]
  /\ out \in 0 .. OutSize
  /\ removeQ \in Seq(Channels) /\ Len(removeQ) <= RemoveSize
  /\ at \in [Channels -> Places]
  /\ done \subseteq Channels
  /\ limited \subseteq Channels
  /\ slots \in Int
  /\ stopping \in BOOLEAN
  /\ stimuli \in 0 .. MaxStimuli

\* Who is asked to forget is tracked and at its end, and asked for once; a worker
\* that runs is tracked, and only one at its end has closed done.
Removals ==
  /\ IsInjective(removeQ)
  /\ \A c \in ToSet(removeQ) : c \in tracked /\ at[c] = "end"
  /\ ~ stopping => \A c \in tracked : at[c] = "end" => c \in ToSet(removeQ)
  /\ \A c \in Channels : at[c] \in Active => c \in tracked
  /\ \A c \in done : at[c] = "end"

IInv == TypeOK /\ Removals /\ SlotsKept
-----------------------------------------------------------------------------
\* The elements of a queue without duplicates that something is put into or taken from.
LEMMA QueueIs ==
  ASSUME NEW s \in Seq(Channels), IsInjective(s)
  PROVE  /\ \A c \in Channels \ ToSet(s) :
              IsInjective(Append(s, c)) /\ ToSet(Append(s, c)) = ToSet(s) \cup {c}
         /\ s # << >> => /\ Head(s) \in ToSet(s)
                         /\ IsInjective(Tail(s)) /\ ToSet(Tail(s)) = ToSet(s) \ {Head(s)}
         /\ ToSet(s) \subseteq Channels
  <1> USE DEF IsInjective, ToSet
  <1>1. ASSUME NEW c \in Channels \ ToSet(s)
        PROVE  IsInjective(Append(s, c)) /\ ToSet(Append(s, c)) = ToSet(s) \cup {c}
    <2>1. DOMAIN Append(s, c) = 1 .. Len(s) + 1 /\ DOMAIN s = 1 .. Len(s) /\ Len(s) \in Nat
      OBVIOUS
    <2>2. \A i \in 1 .. Len(s) : Append(s, c)[i] = s[i]
      OBVIOUS
    <2>3. Append(s, c)[Len(s) + 1] = c
      OBVIOUS
    <2> QED
      BY <2>1, <2>2, <2>3
  <1>2. ASSUME s # << >>
        PROVE  /\ Head(s) \in ToSet(s)
               /\ IsInjective(Tail(s)) /\ ToSet(Tail(s)) = ToSet(s) \ {Head(s)}
    <2>1. DOMAIN Tail(s) = 1 .. Len(s) - 1 /\ DOMAIN s = 1 .. Len(s) /\ Len(s) \in Nat \ {0}
      BY <1>2
    <2>2. \A i \in 1 .. Len(s) - 1 : Tail(s)[i] = s[i + 1]
      BY <1>2
    <2>3. Head(s) = s[1]
      BY <1>2
    <2>4. \A i \in 2 .. Len(s) : i - 1 \in 1 .. Len(s) - 1 /\ Tail(s)[i - 1] = s[i]
      BY <2>1, <2>2
    <2>5. IsInjective(Tail(s))
      BY <2>1, <2>2
    <2>6. ToSet(Tail(s)) \subseteq ToSet(s) \ {Head(s)}
      BY <2>1, <2>2, <2>3
    <2>7. ToSet(s) \ {Head(s)} \subseteq ToSet(Tail(s))
      <3>1. SUFFICES ASSUME NEW i \in 1 .. Len(s), s[i] # Head(s) PROVE s[i] \in ToSet(Tail(s))
        BY <2>1
      <3>2. i \in 2 .. Len(s)
        BY <2>1, <2>3, <3>1
      <3>3. i - 1 \in DOMAIN Tail(s) /\ Tail(s)[i - 1] = s[i]
        BY <2>1, <2>4, <3>2
      <3> QED
        BY <3>3
    <2>8. Head(s) \in ToSet(s)
      BY <2>1, <2>3
    <2> HIDE DEF IsInjective, ToSet
    <2> QED
      BY <2>5, <2>6, <2>7, <2>8
  <1>3. ToSet(s) \subseteq Channels
    OBVIOUS
  <1> HIDE DEF IsInjective, ToSet
  <1> QED
    BY <1>1, <1>2, <1>3

\* What a step does to the map, the workers' places, the slots and removeChannel:
\* nothing, or one worker goes from one place to another where it holds no slot ...
Quiet ==
  /\ tracked' = tracked /\ removeQ' = removeQ /\ at' = at /\ done' = done /\ slots' = slots
  /\ stopping => stopping'

Moves(c) ==
  /\ at[c] \in Active \ {"rpc"}
  /\ \E l \in Active \ {"rpc"} : Goto(c, l)
  /\ tracked' = tracked /\ removeQ' = removeQ /\ done' = done /\ slots' = slots
  /\ stopping' = stopping

\* ... or one of the steps that start, stop or forget a worker, or take a slot.
LEMMA StepKinds ==
  ASSUME TypeOK, [Next]_vars
  PROVE  \/ Quiet
         \/ removeChannelState
         \/ \E c \in Channels : \/ Moves(c) \/ Track(c) \/ Acquire(c) \/ Answer(c)
                                \/ Lost(c) \/ End(c) \/ Stop(c)
  <1> USE DEF Active
  <1>1. CASE UNCHANGED vars
    BY <1>1 DEF vars, Quiet
  <1>2. ASSUME NEW S \in SUBSET Channels, TakeExternal(S) \/ TakeInternal(S) PROVE Quiet
    BY <1>2 DEF TakeExternal, TakeInternal, Quiet
  <1>3. CASE WorkerStops \/ Fatal \/ Shutdown
    BY <1>3 DEF WorkerStops, Fatal, Shutdown, Quiet
  <1>4. CASE Worker
    <2>1. batch \subseteq Channels
      BY DEF TypeOK
    <2>2. ASSUME NEW c \in batch, Push(c) \/ Ignore(c) PROVE Quiet
      BY <2>2 DEF Push, Ignore, Quiet
    <2>3. CASE Pushed
      BY <2>3 DEF Pushed, Quiet
    <2> QED
      BY <1>4, <2>1, <2>2, <2>3 DEF Worker
  <1>5. ASSUME NEW c \in Channels,
               Receive(c) \/ Timer(c) \/ Diff(c) \/ TimeoutOver(c) \/ SendOut(c)
        PROVE  Moves(c)
    BY <1>5 DEF Receive, Timer, Diff, TimeoutOver, SendOut, Sending, Processed, Moves
  <1>6. ASSUME NEW c \in Channels, Drain(c) PROVE Quiet
    BY <1>6 DEF Drain, Draining, Quiet
  <1>7. ASSUME NEW c \in Channels, Channel(c) \/ Timer(c) \/ Drain(c) \/ Stop(c)
        PROVE  \/ Quiet
               \/ Moves(c) \/ Acquire(c) \/ Answer(c) \/ Lost(c) \/ End(c) \/ Stop(c)
    BY <1>5, <1>6, <1>7 DEF Channel
  <1> QED
    BY <1>1, <1>2, <1>3, <1>4, <1>7 DEF Next

\* No step loses or invents a slot.
LEMMA SlotsStep ==
  ASSUME IInv, [Next]_vars
  PROVE  SlotsKept'
  <1>1. /\ at \in [Channels -> Places] /\ slots = Cardinality(Running)
        /\ Slots > 0 => slots <= Slots
    BY DEF IInv, TypeOK, SlotsKept, Running
  <1>2. IsFiniteSet(Running) /\ Cardinality(Running) \in Nat
    <2>1. Running \in SUBSET Channels
      BY DEF Running
    <2> QED
      BY <2>1, ChannelsAssumption, FS_Subset, FS_CardinalityType
  <1>3. Slots \in Nat
    BY SizesAssumption
  <1>4. SUFFICES slots' = Cardinality(Running') /\ (Slots > 0 => slots' <= Slots)
    BY DEF SlotsKept, Running
  <1>5. ASSUME Running' = Running, slots' = slots
        PROVE  slots' = Cardinality(Running') /\ (Slots > 0 => slots' <= Slots)
    BY <1>1, <1>5
  <1>6. CASE Quiet \/ removeChannelState \/ (\E c \in Channels : End(c))
    BY <1>5, <1>6 DEF Quiet, removeChannelState, End, Running
  <1>7. ASSUME NEW c \in Channels, Moves(c) \/ Track(c) \/ Lost(c) \/ Stop(c)
        PROVE  Running' = Running /\ slots' = slots
    <2>1. Track(c) => at[c] # "rpc"
      BY <1>1 DEF Track, IInv, Removals, Active
    <2>2. /\ at[c] # "rpc" /\ slots' = slots
          /\ \E l \in Places \ {"rpc"} : Goto(c, l)
      BY <1>7, <2>1 DEF Moves, Track, Lost, Leaving, Stop, Active, Places
    <2> QED
      BY <1>1, <2>2 DEF Goto, Running
  <1>8. ASSUME NEW c \in Channels, Acquire(c)
        PROVE  slots' = Cardinality(Running') /\ (Slots > 0 => slots' <= Slots)
    <2>1. Running' = Running \cup {c} /\ c \notin Running
      BY <1>1, <1>8 DEF Acquire, Goto, Running
    <2>2. slots' = slots + 1 /\ (Slots = 0 \/ slots < Slots)
      BY <1>8 DEF Acquire
    <2>3. Cardinality(Running') = Cardinality(Running) + 1
      BY <1>2, <2>1, FS_AddElement
    <2> QED
      BY <1>1, <1>2, <1>3, <2>2, <2>3
  <1>9. ASSUME NEW c \in Channels, Answer(c)
        PROVE  slots' = Cardinality(Running') /\ (Slots > 0 => slots' <= Slots)
    <2>1. \E l \in Places \ {"rpc"} : Goto(c, l)
      BY <1>9 DEF Answer, Processed, Places, Active
    <2>2. at[c] = "rpc" /\ slots' = slots - 1
      BY <1>9 DEF Answer
    <2>3. Running' = Running \ {c} /\ c \in Running
      BY <1>1, <2>1, <2>2 DEF Goto, Running
    <2>4. Cardinality(Running') = Cardinality(Running) - 1
      BY <1>2, <2>3, FS_RemoveElement
    <2> QED
      BY <1>1, <1>2, <1>3, <2>2, <2>4
  <1> QED
    BY <1>5, <1>6, <1>7, <1>8, <1>9, StepKinds DEF IInv

\* A channel is put into removeChannel once, by its own worker, and taken out of the
\* map when it is read there.
LEMMA RemovalsStep ==
  ASSUME IInv, [Next]_vars
  PROVE  Removals'
  <1> DEFINE Q == ToSet(removeQ)
  <1>1. /\ at \in [Channels -> Places] /\ removeQ \in Seq(Channels) /\ tracked \subseteq Channels
        /\ done \subseteq Channels
    BY DEF IInv, TypeOK
  <1>2. /\ IsInjective(removeQ)
        /\ \A c \in Q : c \in tracked /\ at[c] = "end"
        /\ ~ stopping => \A c \in tracked : at[c] = "end" => c \in Q
        /\ \A c \in Channels : at[c] \in Active => c \in tracked
        /\ \A c \in done : at[c] = "end"
    BY DEF IInv, Removals
  <1> HIDE DEF Q
  <1>3. CASE Quiet
    BY <1>2, <1>3 DEF Quiet, Removals, Q
  <1>4. CASE removeChannelState
    <2>1. /\ removeQ' = Tail(removeQ) /\ tracked' = tracked \ {Head(removeQ)}
          /\ at' = at /\ done' = done /\ stopping' = stopping
      BY <1>4 DEF removeChannelState
    <2>2. Head(removeQ) \in Q /\ IsInjective(removeQ') /\ ToSet(removeQ') = Q \ {Head(removeQ)}
      BY <1>1, <1>2, <1>4, <2>1, QueueIs DEF Q, removeChannelState
    <2>3. at[Head(removeQ)] \notin Active
      BY <1>2, <2>2 DEF Active
    <2> QED
      BY <1>2, <2>1, <2>2, <2>3 DEF Removals
  <1>5. ASSUME NEW c \in Channels, Moves(c) \/ Acquire(c) \/ Answer(c) PROVE Removals'
    <2>1. /\ at[c] \in Active /\ \E l \in Active : Goto(c, l)
          /\ tracked' = tracked /\ removeQ' = removeQ /\ done' = done /\ stopping' = stopping
      BY <1>5 DEF Moves, Acquire, Answer, Processed, Active
    <2>2. at' \in [Channels -> Places] /\ at'[c] \in Active /\ \A d \in Channels \ {c} : at'[d] = at[d]
      BY <1>1, <2>1 DEF Goto, Places
    <2>3. "end" \notin Active
      BY DEF Active
    <2> QED
      BY <1>1, <1>2, <2>1, <2>2, <2>3 DEF Removals, Q
  <1>6. ASSUME NEW c \in Channels, Track(c) PROVE Removals'
    <2>1. /\ c \notin tracked /\ tracked' = tracked \cup {c} /\ Goto(c, "diff")
          /\ removeQ' = removeQ /\ done' = done \ {c} /\ stopping' = stopping
      BY <1>6 DEF Track
    <2>2. at'[c] = "diff" /\ \A d \in Channels \ {c} : at'[d] = at[d]
      BY <1>1, <2>1 DEF Goto
    <2> QED
      BY <1>1, <1>2, <2>1, <2>2 DEF Removals, Q
  <1>7. ASSUME NEW c \in Channels, Lost(c) PROVE Removals'
    <2>1. /\ at[c] = "lost" /\ removeQ' = Append(removeQ, c) /\ Goto(c, "end")
          /\ tracked' = tracked /\ done' = done /\ stopping' = stopping
      BY <1>7 DEF Lost, Leaving
    <2>2. at'[c] = "end" /\ \A d \in Channels \ {c} : at'[d] = at[d]
      BY <1>1, <2>1 DEF Goto
    <2>3. c \in tracked /\ c \notin Q /\ "end" \notin Active
      BY <1>2, <2>1 DEF Active
    <2>4. IsInjective(removeQ') /\ ToSet(removeQ') = Q \cup {c}
      BY <1>1, <1>2, <2>1, <2>3, QueueIs DEF Q
    <2> QED
      BY <1>1, <1>2, <2>1, <2>2, <2>3, <2>4 DEF Removals
  <1>8. ASSUME NEW c \in Channels, End(c) PROVE Removals'
    <2>1. /\ at[c] = "end" /\ done' = done \cup {c}
          /\ tracked' = tracked /\ removeQ' = removeQ /\ at' = at /\ stopping' = stopping
      BY <1>8 DEF End
    <2> QED
      BY <1>2, <2>1 DEF Removals, Q
  <1>9. ASSUME NEW c \in Channels, Stop(c) PROVE Removals'
    <2>1. /\ at[c] \in Active /\ \E l \in Places : Goto(c, l)
          /\ tracked' = tracked /\ removeQ' = removeQ /\ done' = done /\ stopping /\ stopping'
      BY <1>9 DEF Stop, Active, Places
    <2>2. \A d \in Channels \ {c} : at'[d] = at[d]
      BY <1>1, <2>1 DEF Goto
    <2>3. c \in tracked /\ c \notin Q /\ c \notin done
      BY <1>2, <2>1 DEF Active
    <2> QED
      BY <1>1, <1>2, <2>1, <2>2, <2>3 DEF Removals, Q
  <1> QED
    BY <1>3, <1>4, <1>5, <1>6, <1>7, <1>8, <1>9, StepKinds DEF IInv

\* Every step keeps the types; the queues stay within their capacities.
LEMMA TypeStep ==
  ASSUME IInv, [Next]_vars
  PROVE  TypeOK'
  <1> USE SizesAssumption DEF TypeOK
  <1>1. TypeOK
    BY DEF IInv
  <1>2. ASSUME NEW c \in Channels, NEW l \in Places, Goto(c, l) PROVE at' \in [Channels -> Places]
    BY <1>1, <1>2 DEF Goto
  <1>3. CASE UNCHANGED vars
    BY <1>1, <1>3 DEF vars
  <1>4. ASSUME NEW S \in SUBSET Channels, TakeExternal(S) PROVE TypeOK'
    BY <1>1, <1>4 DEF TakeExternal, Stimulus
  <1>5. ASSUME NEW S \in SUBSET Channels, TakeInternal(S) PROVE TypeOK'
    BY <1>1, <1>5 DEF TakeInternal
  <1>6. CASE removeChannelState
    <2>1. Tail(removeQ) \in Seq(Channels) /\ Len(Tail(removeQ)) <= RemoveSize
      BY <1>1, <1>6 DEF removeChannelState
    <2> QED
      BY <1>1, <1>6, <2>1 DEF removeChannelState
  <1>7. CASE WorkerStops
    BY <1>1, <1>7 DEF WorkerStops
  <1>8. ASSUME NEW c \in batch, Push(c) PROVE TypeOK'
    <2>1. updates' \in [Channels -> 0 .. QueueSize]
      BY <1>1, <1>8 DEF Push, HasRoom, Gone, Enqueue
    <2> QED
      BY <1>1, <1>8, <2>1 DEF Push, HasRoom, Gone
  <1>9. ASSUME NEW c \in batch, Track(c) PROVE TypeOK'
    <2>1. updates' \in [Channels -> 0 .. QueueSize]
      BY <1>1, <1>9 DEF Track
    <2>2. at' \in [Channels -> Places]
      BY <1>1, <1>2, <1>9 DEF Track, Places, Active
    <2> QED
      BY <1>1, <1>9, <2>1, <2>2 DEF Track
  <1>10. ASSUME NEW c \in batch, Ignore(c) PROVE TypeOK'
    BY <1>1, <1>10 DEF Ignore
  <1>11. CASE Pushed
    BY <1>1, <1>11 DEF Pushed
  <1>12. CASE Fatal
    BY <1>1, <1>12 DEF Fatal
  <1>13. CASE Shutdown
    BY <1>1, <1>13 DEF Shutdown
  <1>14. ASSUME NEW c \in Channels, Receive(c) PROVE TypeOK'
    <2>1. updates' \in [Channels -> 0 .. QueueSize]
      BY <1>1, <1>14 DEF Receive, Dequeue
    <2>2. at' \in [Channels -> Places]
      BY <1>2, <1>14 DEF Receive, Places, Active
    <2> QED
      BY <1>1, <1>14, <2>1, <2>2 DEF Receive
  <1>15. ASSUME NEW c \in Channels, Timer(c) PROVE TypeOK'
    <2>1. at' \in [Channels -> Places]
      BY <1>2, <1>15 DEF Timer, Places, Active
    <2> QED
      BY <1>1, <1>15, <2>1 DEF Timer, Stimulus
  <1>16. ASSUME NEW c \in Channels, Diff(c) \/ TimeoutOver(c) \/ Stop(c) PROVE TypeOK'
    <2>1. at' \in [Channels -> Places]
      BY <1>2, <1>16 DEF Diff, TimeoutOver, Stop, Places, Active
    <2> QED
      BY <1>1, <1>16, <2>1 DEF Diff, TimeoutOver, Stop
  <1>17. ASSUME NEW c \in Channels, Drain(c) PROVE TypeOK'
    <2>1. updates' \in [Channels -> 0 .. QueueSize]
      BY <1>1, <1>17 DEF Drain, Draining, Dequeue
    <2> QED
      BY <1>1, <1>17, <2>1 DEF Drain, Draining
  <1>18. ASSUME NEW c \in Channels, Acquire(c) PROVE TypeOK'
    <2>1. at' \in [Channels -> Places]
      BY <1>2, <1>18 DEF Acquire, Places, Active
    <2> QED
      BY <1>1, <1>18, <2>1 DEF Acquire
  <1>19. ASSUME NEW c \in Channels, Processed(c)
         PROVE  at' \in [Channels -> Places] /\ limited' \subseteq Channels /\ stimuli' \in 0 .. MaxStimuli
    BY <1>1, <1>2, <1>19 DEF Processed, Stimulus, Places, Active
  <1>20. ASSUME NEW c \in Channels, Answer(c) PROVE TypeOK'
    <2>1. at' \in [Channels -> Places] /\ limited' \subseteq Channels /\ stimuli' \in 0 .. MaxStimuli
      BY <1>1, <1>2, <1>19, <1>20 DEF Answer, Stimulus, Places, Active
    <2> QED
      BY <1>1, <1>20, <2>1 DEF Answer
  <1>21. ASSUME NEW c \in Channels, SendOut(c) PROVE TypeOK'
    BY <1>1, <1>19, <1>21 DEF SendOut, Sending
  <1>22. ASSUME NEW c \in Channels, Lost(c) PROVE TypeOK'
    <2>1. at' \in [Channels -> Places]
      BY <1>2, <1>22 DEF Lost, Leaving, Places, Active
    <2>2. removeQ' \in Seq(Channels) /\ Len(removeQ') <= RemoveSize
      BY <1>1, <1>22 DEF Lost, Leaving
    <2> QED
      BY <1>1, <1>22, <2>1, <2>2 DEF Lost, Leaving
  <1>23. ASSUME NEW c \in Channels, End(c) PROVE TypeOK'
    BY <1>1, <1>23 DEF End
  <1> HIDE DEF TypeOK
  <1>24. CASE Worker
    BY <1>8, <1>9, <1>10, <1>11, <1>24 DEF Worker
  <1>25. ASSUME NEW c \in Channels, Channel(c) \/ Timer(c) \/ Drain(c) \/ Stop(c) PROVE TypeOK'
    BY <1>14, <1>15, <1>16, <1>17, <1>18, <1>20, <1>21, <1>22, <1>23, <1>25 DEF Channel
  <1> QED
    BY <1>3, <1>4, <1>5, <1>6, <1>7, <1>12, <1>13, <1>24, <1>25 DEF Next

\* No slot is taken, nothing is to be forgotten, and the tracked workers run.
LEMMA InitIInv ==
  ASSUME Init
  PROVE  IInv
  <1>1. TypeOK
    <2>1. at \in [Channels -> Places]
      BY DEF Init, Places, Active
    <2>2. removeQ \in Seq(Channels) /\ Len(removeQ) = 0
      BY DEF Init
    <2>3. updates \in [Channels -> 0 .. QueueSize]
      BY SizesAssumption DEF Init
    <2>4. Len(removeQ) <= RemoveSize /\ out \in 0 .. OutSize /\ stimuli \in 0 .. MaxStimuli
      BY <2>2, SizesAssumption DEF Init
    <2>5. stopping \in BOOLEAN
      BY Zenon DEF Init
    <2>6. /\ worker \in {"select", "push", "stopped"} /\ slots \in Int
          /\ batch \subseteq Channels /\ tracked \subseteq Channels
          /\ done \subseteq Channels /\ limited \subseteq Channels
      BY DEF Init
    <2> QED
      BY <2>1, <2>2, <2>3, <2>4, <2>5, <2>6 DEF TypeOK
  <1>2. Removals
    BY DEF Init, Removals, IsInjective, ToSet, Active
  <1>3. {c \in Channels : at[c] = "rpc"} = {}
    BY DEF Init
  <1> QED
    BY <1>1, <1>2, <1>3, FS_EmptySet, SizesAssumption DEF Init, IInv, SlotsKept

\* The invariant holds in every reachable state.
LEMMA AlwaysIInv == Spec => []IInv
  <1>1. IInv /\ [Next]_vars => IInv'
    BY TypeStep, RemovalsStep, SlotsStep DEF IInv
  <1> QED
    BY <1>1, InitIInv, PTL DEF Spec

\* The variables keep their types, and no queue exceeds its capacity.
THEOREM TypeCorrect == Spec => []TypeOK
  BY AlwaysIInv, PTL DEF IInv

\* chDiffSem is never exceeded and no path of getDifference leaks a slot.
THEOREM NoSlotLost == Spec => []SlotsKept
  BY AlwaysIInv, PTL DEF IInv

\* A channel is in removeChannel exactly while its worker gave up and the map still
\* has it, and only once.
THEOREM ForgetsOnce == Spec => []ForgetsTheLost
  <1>1. IInv => ForgetsTheLost
    BY DEF IInv, Removals, ForgetsTheLost, TypeOK
  <1> QED
    BY <1>1, AlwaysIInv, PTL

\* A worker that waits in handleInaccessible waits for others: as many as
\* removeChannel holds have come to their end and are still in the map.
WaitsForTheEnded ==
  \A c \in Channels :
    at[c] = "lost" /\ ~ Leaving(c) =>
      RemoveSize <= Cardinality({x \in tracked \ {c} : at[x] = "end"})

\* handleInaccessible blocks, and with it possibly the routing, only after
\* RemoveSize other channels were lost that the internalState worker has not
\* forgotten yet: ten in the code, for any number of channels.
THEOREM BlocksOverTheEnded == Spec => []WaitsForTheEnded
  <1>1. ASSUME IInv PROVE WaitsForTheEnded
    <2>1. SUFFICES ASSUME NEW c \in Channels, at[c] = "lost", ~ Leaving(c)
                   PROVE  RemoveSize <= Cardinality({x \in tracked \ {c} : at[x] = "end"})
      BY DEF WaitsForTheEnded
    <2> DEFINE Ended == {x \in tracked \ {c} : at[x] = "end"}
    <2>2. /\ removeQ \in Seq(Channels) /\ Len(removeQ) \in Nat /\ Len(removeQ) <= RemoveSize
          /\ DOMAIN removeQ = 1 .. Len(removeQ) /\ tracked \subseteq Channels
      BY <1>1 DEF IInv, TypeOK
    <2>3. Len(removeQ) = RemoveSize
      <3> HIDE DEF Ended
      <3>1. ~ (Len(removeQ) < RemoveSize)
        BY <2>1, Zenon DEF Leaving
      <3>2. RemoveSize \in Nat
        BY SizesAssumption
      <3>3. Len(removeQ) \in Nat /\ Len(removeQ) <= RemoveSize
        BY <2>2, Zenon
      <3>4. \A n \in Nat : n <= RemoveSize /\ ~ (n < RemoveSize) => n = RemoveSize
        BY <3>2
      <3> QED
        BY <3>1, <3>3, <3>4, Zenon
    <2>4. IsFiniteSet(Ended)
      <3>1. Ended \subseteq Channels
        BY <2>2
      <3> QED
        BY <3>1, ChannelsAssumption, FS_Subset
    <2>5. \A i \in 1 .. Len(removeQ) : removeQ[i] \in Ended
      BY <1>1, <2>1, <2>2 DEF IInv, Removals, ToSet
    <2> HIDE DEF Ended
    <2>6. removeQ \in [1 .. Len(removeQ) -> Ended]
      BY <2>2, <2>5
    <2>7. removeQ \in Injection(1 .. Len(removeQ), Ended)
      BY <1>1, <2>6 DEF Injection, IInv, Removals
    <2>8. Cardinality(1 .. Len(removeQ)) <= Cardinality(Ended)
      BY <2>4, <2>7, FS_Injection
    <2>9. Cardinality(1 .. Len(removeQ)) = Len(removeQ)
      BY <2>2, FS_Interval
    <2>10. RemoveSize <= Cardinality(Ended)
      BY <2>3, <2>8, <2>9
    <2> QED
      BY <2>10 DEF Ended
  <1> QED
    BY <1>1, AlwaysIInv, PTL

\* Push drops an update only for a worker that has come to its end.
DropsForTheEnded ==
  \A c \in Channels : Push(c) /\ ~ stopping /\ updates' = updates => at[c] = "end"

\* "Worker has stopped (channel inaccessible, pending removal): drop the update"
\* (channelState.Push): the update of a worker that runs is never dropped there.
THEOREM NoneDroppedForTheRunning == Spec => [][DropsForTheEnded]_vars
  <1>1. ASSUME IInv PROVE DropsForTheEnded
    <2>1. SUFFICES ASSUME NEW c \in Channels, Push(c), ~ stopping, updates' = updates
                   PROVE  at[c] = "end"
      BY DEF DropsForTheEnded
    <2>2. updates \in [Channels -> 0 .. QueueSize]
      BY <1>1 DEF IInv, TypeOK
    <2>3. ~ Enqueue(c)
      BY <2>1, <2>2, SizesAssumption DEF Enqueue
    <2>4. c \in done
      BY <2>1, <2>3 DEF Push, HasRoom, Gone
    <2> QED
      BY <1>1, <2>4 DEF IInv, Removals
  <1> QED
    BY <1>1, AlwaysIInv, PTL
=============================================================================
