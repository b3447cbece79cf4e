--------------------------- MODULE ChannelWorkers ---------------------------
(***************************************************************************)
(* The goroutines of the updates manager and the bounded queues between    *)
(* them: the internalState worker, which routes updates to the channels'   *)
(* queues and is the only reader of internalQueue and removeChannel, and   *)
(* one channelState worker per tracked channel.  What a channel does with  *)
(* an update is SequenceBox's business; here an update is one queue entry  *)
(* and the choice of what it leads to is open.                             *)
(***************************************************************************)
EXTENDS Integers, Sequences, SequencesExt, FiniteSets

CONSTANTS
  Channels,
  QueueSize,   \* capacity of channelState.updates (10)
  OutSize,     \* capacity of internalState.internalQueue (10)
  RemoveSize,  \* capacity of internalState.removeChannel (10)
  Slots,       \* capacity of chDiffSem; zero is no limit
  MaxStimuli   \* bound: updates from outside, timers, and differences that are not
               \* final or bring updates for others

ASSUME ChannelsAssumption == IsFiniteSet(Channels)

ASSUME SizesAssumption ==
  /\ QueueSize \in Nat \ {0} /\ OutSize \in Nat \ {0}
  /\ RemoveSize \in Nat \ {0} /\ Slots \in Nat /\ MaxStimuli \in Nat

VARIABLES
  worker,    \* where the internalState worker is
  batch,     \* channels it still has to push an update to
  tracked,   \* the keys of internalState.channels
  updates,   \* length of each channel's queue
  out,       \* length of internalQueue
  removeQ,   \* removeChannel
  at,        \* where each channel's worker is
  done,      \* channels whose worker has closed done
  limited,   \* channels with a diffTimeout from the server
  slots,     \* chDiffSem: slots in use
  stopping,  \* the context is done
  stimuli    \* what is counted against MaxStimuli

vars == <<worker, batch, tracked, updates, out, removeQ, at, done, limited, slots, stopping,
          stimuli>>

\* newState starts a worker for each channel found in the storage.
Init ==
  /\ worker = "select"
  /\ batch = {}
  /\ tracked \in SUBSET Channels
  /\ updates = [c \in Channels |-> 0]
  /\ out = 0
  /\ removeQ = << >>
  /\ at = [c \in Channels |-> IF c \in tracked THEN "diff" ELSE "none"]
  /\ done = {}
  /\ limited = {}
  /\ slots = 0
  /\ stopping = FALSE
  /\ stimuli = 0

Goto(c, l) == at' = [at EXCEPT ![c] = l]

Stimulus == stimuli < MaxStimuli /\ stimuli' = stimuli + 1

Enqueue(c) == updates' = [updates EXCEPT ![c] = updates[c] + 1]

Dequeue(c) == updates' = [updates EXCEPT ![c] = updates[c] - 1]
-----------------------------------------------------------------------------
\* The worker's select: an update from outside, an affected pts, or the answer
\* to its own getDifference; it has updates for the channels in S.
TakeExternal(S) ==
  /\ worker = "select"
  /\ worker' = "push"
  /\ batch' = S
  /\ Stimulus
  /\ UNCHANGED <<tracked, updates, out, removeQ, at, done, limited, slots, stopping>>

\* ... what a channel's difference brought.
TakeInternal(S) ==
  /\ worker = "select"
  /\ out > 0
  /\ out' = out - 1
  /\ worker' = "push"
  /\ batch' = S
  /\ UNCHANGED <<tracked, updates, removeQ, at, done, limited, slots, stopping, stimuli>>

\* ... a channel to forget.
removeChannelState ==
  /\ worker = "select"
  /\ removeQ # << >>
  /\ removeQ' = Tail(removeQ)
  /\ tracked' = tracked \ {Head(removeQ)}
  /\ UNCHANGED <<worker, batch, updates, out, at, done, limited, slots, stopping, stimuli>>

WorkerStops ==
  /\ worker = "select"
  /\ stopping
  /\ worker' = "stopped"
  /\ UNCHANGED <<batch, tracked, updates, out, removeQ, at, done, limited, slots, stopping, stimuli>>

\* The cases of Push's select: room in the channel's queue, and an end of the wait.
HasRoom(c) == updates[c] < QueueSize

Gone(c) == c \in done \/ stopping

\* Push to a tracked channel: room in its queue, or its worker has stopped, or
\* the context is done.
Push(c) ==
  /\ worker = "push"
  /\ c \in tracked
  /\ \/ HasRoom(c) /\ Enqueue(c)
     \/ Gone(c) /\ UNCHANGED updates
  /\ batch' = batch \ {c}
  /\ UNCHANGED <<worker, tracked, out, removeQ, at, done, limited, slots, stopping, stimuli>>

\* A channel that is not tracked: start its worker, and push to its queue.
Track(c) ==
  /\ worker = "push"
  /\ c \notin tracked
  /\ tracked' = tracked \cup {c}
  /\ updates' = [updates EXCEPT ![c] = 1]
  /\ Goto(c, "diff")
  /\ done' = done \ {c}
  /\ limited' = limited \ {c}
  /\ batch' = batch \ {c}
  /\ UNCHANGED <<worker, out, removeQ, slots, stopping, stimuli>>

\* ... or its access hash is not known, or the update does not start one.
Ignore(c) ==
  /\ worker = "push"
  /\ c \notin tracked
  /\ batch' = batch \ {c}
  /\ UNCHANGED <<worker, tracked, updates, out, removeQ, at, done, limited, slots, stopping, stimuli>>

\* Handling an update meets a fatal error (isFatalError): the worker returns it,
\* and the errgroup of Manager.Run cancels the context.
Fatal ==
  /\ worker = "push"
  /\ worker' = "stopped"
  /\ batch' = {}
  /\ stopping' = TRUE
  /\ UNCHANGED <<tracked, updates, out, removeQ, at, done, limited, slots, stimuli>>

Pushed ==
  /\ worker = "push"
  /\ batch = {}
  /\ worker' = "select"
  /\ UNCHANGED <<batch, tracked, updates, out, removeQ, at, done, limited, slots, stopping, stimuli>>
-----------------------------------------------------------------------------
\* Run's select: an update, which is handled or asks for a difference.
Receive(c) ==
  /\ at[c] = "select"
  /\ updates[c] > 0
  /\ Dequeue(c)
  /\ \E l \in {"select", "diff"} : Goto(c, l)
  /\ UNCHANGED <<worker, batch, tracked, out, removeQ, done, limited, slots, stopping, stimuli>>

\* ... the gap timer or the idle timer.
Timer(c) ==
  /\ at[c] = "select"
  /\ Goto(c, "diff")
  /\ Stimulus
  /\ UNCHANGED <<worker, batch, tracked, updates, out, removeQ, done, limited, slots, stopping>>

\* getDifference: wait while the server's timeout lasts, then for a slot.
Diff(c) ==
  /\ at[c] = "diff"
  /\ \/ c \in limited /\ Goto(c, "timeout")
     \/ Goto(c, "acquire")
  /\ UNCHANGED <<worker, batch, tracked, updates, out, removeQ, done, limited, slots, stopping, stimuli>>

TimeoutOver(c) ==
  /\ at[c] = "timeout"
  /\ Goto(c, "acquire")
  /\ UNCHANGED <<worker, batch, tracked, updates, out, removeQ, done, limited, slots, stopping, stimuli>>

\* Mutant: sendOut does not read the channel's queue while it waits.
Draining_timeoutOnly(c) == at[c] = "timeout" /\ updates[c] > 0

\* The waits that read the channel's queue: the server's timeout, and sendOut.
Draining(c) == at[c] \in {"timeout", "out"} /\ updates[c] > 0

\* While it waits, and while sendOut does, the channel's updates are dropped.
Drain(c) ==
  /\ Draining(c)
  /\ Dequeue(c)
  /\ UNCHANGED <<worker, batch, tracked, out, removeQ, at, done, limited, slots, stopping, stimuli>>

Acquire(c) ==
  /\ at[c] = "acquire"
  /\ Slots = 0 \/ slots < Slots
  /\ slots' = slots + 1
  /\ Goto(c, "rpc")
  /\ UNCHANGED <<worker, batch, tracked, updates, out, removeQ, done, limited, stopping, stimuli>>

\* A difference was processed: final or not, with a new timeout or without.
Processed(c) ==
  /\ \/ Goto(c, "select") /\ UNCHANGED stimuli
     \/ Goto(c, "diff") /\ Stimulus
  /\ limited' \in {limited, limited \cup {c}}

\* Mutant: the error return comes before the slot is released.
Answer_leak(c) ==
  /\ at[c] = "rpc"
  /\ \/ Goto(c, "select") /\ UNCHANGED <<limited, slots, stimuli>>
     \/ Goto(c, "lost") /\ slots' = slots - 1 /\ UNCHANGED <<limited, stimuli>>
     \/ Goto(c, "out") /\ slots' = slots - 1 /\ Stimulus /\ UNCHANGED limited
     \/ Processed(c) /\ slots' = slots - 1
  /\ UNCHANGED <<worker, batch, tracked, updates, out, removeQ, done, stopping>>

\* getChannelDifference returns, and its slot is released: an error, a channel
\* that is private now, a difference with updates for others, or one without.
Answer(c) ==
  /\ at[c] = "rpc"
  /\ slots' = slots - 1
  /\ \/ Goto(c, "select") /\ UNCHANGED <<limited, stimuli>>
     \/ Goto(c, "lost") /\ UNCHANGED <<limited, stimuli>>
     \/ Goto(c, "out") /\ Stimulus /\ UNCHANGED limited
     \/ Processed(c)
  /\ UNCHANGED <<worker, batch, tracked, updates, out, removeQ, done, stopping>>

\* sendOut's other case: room in internalQueue.
Sending(c) == at[c] = "out" /\ out < OutSize

\* sendOut hands the updates for others to the internalState worker.
SendOut(c) ==
  /\ Sending(c)
  /\ out' = out + 1
  /\ Processed(c)
  /\ UNCHANGED <<worker, batch, tracked, updates, removeQ, done, slots, stopping>>

\* What handleInaccessible waits for: room in removeChannel.
Leaving(c) == at[c] = "lost" /\ Len(removeQ) < RemoveSize

\* Mutant: the worker stops without asking to be forgotten.
Lost_silent(c) ==
  /\ at[c] = "lost"
  /\ Goto(c, "end")
  /\ UNCHANGED <<worker, batch, tracked, updates, out, removeQ, done, limited, slots, stopping, stimuli>>

\* handleInaccessible asks the internalState worker to forget the channel.
Lost(c) ==
  /\ Leaving(c)
  /\ removeQ' = Append(removeQ, c)
  /\ Goto(c, "end")
  /\ UNCHANGED <<worker, batch, tracked, updates, out, done, limited, slots, stopping, stimuli>>

\* Run returns and closes done.
End(c) ==
  /\ at[c] = "end"
  /\ c \notin done
  /\ done' = done \cup {c}
  /\ UNCHANGED <<worker, batch, tracked, updates, out, removeQ, at, limited, slots, stopping, stimuli>>

\* Mutant: sendOut does not look at the context.
Stop_notOut(c) ==
  /\ stopping
  /\ \/ at[c] \in {"timeout", "acquire"} /\ Goto(c, "select")
     \/ at[c] \in {"select", "lost"} /\ Goto(c, "end")
  /\ UNCHANGED <<worker, batch, tracked, updates, out, removeQ, done, limited, slots, stopping, stimuli>>

\* The context is done: every wait but the RPC's ends, and so does Run (the
\* difference it asks for when updates are pending fails at once).
Stop(c) ==
  /\ stopping
  /\ \/ at[c] \in {"timeout", "acquire", "out"} /\ Goto(c, "select")
     \/ at[c] \in {"select", "lost"} /\ Goto(c, "end")
  /\ UNCHANGED <<worker, batch, tracked, updates, out, removeQ, done, limited, slots, stopping, stimuli>>

Shutdown ==
  /\ ~ stopping
  /\ stopping' = TRUE
  /\ UNCHANGED <<worker, batch, tracked, updates, out, removeQ, at, done, limited, slots, stimuli>>

Worker == (\E c \in batch : Push(c) \/ Track(c) \/ Ignore(c)) \/ Pushed

Channel(c) ==
  \/ Receive(c) \/ Diff(c) \/ TimeoutOver(c) \/ Acquire(c)
  \/ Answer(c) \/ SendOut(c) \/ Lost(c) \/ End(c)

Next ==
  \/ \E S \in SUBSET Channels : TakeExternal(S) \/ TakeInternal(S)
  \/ removeChannelState
  \/ WorkerStops
  \/ Worker
  \/ Fatal
  \/ \E c \in Channels : Channel(c) \/ Timer(c) \/ Drain(c) \/ Stop(c)
  \/ Shutdown

Spec == Init /\ [][Next]_vars

WorkerSelects ==
  (\E S \in SUBSET Channels : TakeInternal(S)) \/ removeChannelState \/ WorkerStops

\* Goroutines run, RPCs return and the server's timeouts end; nothing is asked of
\* the order in which a select takes the cases that are ready.
Fairness ==
  /\ WF_vars(Worker \/ WorkerSelects)
  /\ \A c \in Channels : WF_vars(Channel(c) \/ Drain(c) \/ Stop(c))

FairSpec == Spec /\ Fairness
-----------------------------------------------------------------------------
\* The slots in use are those of the running getChannelDifference calls, so the
\* limit holds and no slot is lost (chDiffSem; getDifference's error paths).
SlotsKept ==
  /\ slots = Cardinality({c \in Channels : at[c] = "rpc"})
  /\ Slots > 0 => slots <= Slots

\* The internalState worker is asked to forget a tracked channel exactly when
\* its worker gave up, and only once: a running worker is never dropped from the
\* map, and a stopped one is not left in it to swallow updates for ever.
ForgetsTheLost ==
  /\ IsInjective(removeQ)
  /\ ~ stopping => ToSet(removeQ) = {c \in tracked : at[c] = "end"}

\* The internalState worker has an update for a channel that has lost its access,
\* whose queue is full and which waits for room in removeChannel.
Entangled(c) ==
  c \in batch /\ at[c] = "lost" /\ ~ HasRoom(c) /\ Len(removeQ) = RemoveSize

\* Routing never blocks for ever: whatever the channels' workers wait for, the
\* internalState worker gets rid of the updates it has to push (Push; sendOut's
\* doc: "Otherwise the worker may block pushing into s.updates while this
\* goroutine blocks pushing into s.out, producing a deadlock").  The one
\* exception is a worker in handleInaccessible when removeChannel is full.
RoutingGoesOn == worker = "push" ~> worker # "push" \/ \E c \in Channels : Entangled(c)

\* When the context is done every goroutine returns (Manager.Run's wg.Wait).
ShutdownEnds ==
  stopping ~> worker = "stopped" /\ \A c \in Channels : at[c] = "none" \/ c \in done

\* The comment in channelState.Push: "Worker has stopped (channel inaccessible,
\* pending removal): drop the update instead of blocking."
DropsInaccessible ==
  \A c \in Channels : c \in batch /\ at[c] = "lost" ~> c \notin batch
=============================================================================
