------------------------------ MODULE Updates ------------------------------
(***************************************************************************)
(* The updates manager (telegram/updates) end to end: the state goroutine  *)
(* with the common pts, the worker goroutine of one channel with its pts,  *)
(* the queues between them, the StateStorage, and a manager that may be    *)
(* stopped at any point and run again from what is stored.                 *)
(*                                                                         *)
(* Every update moves its counter by one, so that a gap buffer is a set    *)
(* of missing positions (SequenceBox has the box for any counts).  What    *)
(* is published and lost, repeated or reordered by the network, and how    *)
(* often an RPC, the storage or the handler fails, is chosen freely within *)
(* MaxArrivals and MaxFaults.                                              *)
(***************************************************************************)
EXTENDS Integers, Sequences, FiniteSets

CONSTANTS
  CommonLog,   \* the kind of each update of the common sequence
  ChannelLog,  \* the kind of each update of the channel
  QueueLen,    \* the capacity of the queues (10 in the code)
  Wipes,       \* does SetState forget the channels, as memStorage's does?
  ReadsFail,   \* may GetChannelPts fail (memStorage's cannot)?
  MaxArrivals, \* bound: updates that reach the manager
  MaxFaults    \* bound: failures, crashes and unusual answers

\* A message comes in NewMessages of a difference, an edit (any other update
\* with a pts) in its OtherUpdates.
Kinds == {"message", "edit"}

ASSUME Constants ==
  /\ CommonLog \in Seq(Kinds) /\ ChannelLog \in Seq(Kinds)
  /\ QueueLen \in Nat \ {0} /\ Wipes \in BOOLEAN /\ ReadsFail \in BOOLEAN
  /\ MaxArrivals \in Nat /\ MaxFaults \in Nat

VARIABLES
  pub,      \* the server: how much of each log is published
  store,    \* the StateStorage: the common pts and the channel's; was the
            \* channel's ever stored (history)
  run,      \* the manager: is it running, has it the channel, was the
            \* application told in this run that it has not
  main,     \* the state goroutine
  work,     \* the channel's worker goroutine
  queue,    \* channelState.updates
  out,      \* internalState.internalQueue: what workers sent out
  given,    \* what the handler was called with, of each log (history)
  lost,     \* what was given up on, of each log, and what was passed over in
            \* the channel with nobody told (history)
  ignored,  \* the channel's edits the worker has ignored (history)
  arrivals, \* how many updates reached the manager
  faults    \* how many faults there were

vars == <<pub, store, run, main, work, queue, out, given, lost, ignored, arrivals, faults>>

None == -1

Of(log, kind) == {p \in DOMAIN log : log[p] = kind}

\* The one that comes first in what is sorted by pts.
First(S) == {p \in S : \A q \in S : p <= q}
-----------------------------------------------------------------------------
(* The sequence box, for updates that count one.                           *)

NewBox(n) == [state |-> n, gaps |-> {}, pending |-> {}]

Clear(b) == [b EXCEPT !.gaps = {}]

SetState(b, n) == [b EXCEPT !.state = n]

\* What applyPending applies: the updates pending without a hole.
Ready(b) == {n \in b.pending : n > b.state /\ b.state + 1 .. n \subseteq b.pending}

\* applyPending: the box after it.
Applied(b) ==
  LET n == b.state + Cardinality(Ready(b))
  IN  [b EXCEPT !.state = n, !.pending = {p \in @ : p > n}]

\* sequenceBox.Handle: the box that has taken u in, before it applies anything.
TakeIn(b, u) ==
  IF u <= b.state THEN b
  ELSE [b EXCEPT !.pending = @ \cup {u},
                 !.gaps = IF @ # {} THEN @ \ {u} ELSE (b.state + 1 .. u - 1) \ b.pending]

\* sequenceBox.Handle: the updates it applies at once, and the box after it.
Applies(b, u) == IF u > b.state /\ TakeIn(b, u).gaps = {} THEN Ready(TakeIn(b, u)) ELSE {}

Handle(b, u) == IF Applies(b, u) = {} THEN TakeIn(b, u) ELSE Applied(TakeIn(b, u))
-----------------------------------------------------------------------------
(* Common pieces of the handlers.                                          *)

CanFail == faults < MaxFaults

Fault == CanFail /\ faults' = faults + 1

NoFault == UNCHANGED faults

\* A write to the storage; its error is only logged.
Persist(new) ==
  \/ store' = new /\ NoFault
  \/ store' = store /\ Fault

PersistChannel(n) == Persist([store EXCEPT !.ch = n, !.known = TRUE])

MainAt(pc) == main.pc = pc /\ main.save = None

WorkAt(pc) == work.pc = pc /\ work.save = None

NewDiff == [others |-> {}, msgs |-> {}, to |-> 0, final |-> TRUE]

\* A difference in which log's updates from position n + 1 to to come.
DiffTo(log, n, to, last) ==
  [others |-> Of(log, "edit") \cap (n + 1 .. to), msgs |-> Of(log, "message") \cap (n + 1 .. to),
   to |-> to, final |-> to = last]

\* internalState.getDifference, up to its RPC.
GetDifference(m) == [m EXCEPT !.pc = "rpc", !.box = Clear(@), !.diff = NewDiff, !.changed = FALSE]

\* The end of internalState.getDifference: back to the loop of Run, or, if it
\* was nested in the OtherUpdates of another, on with that one.
Finish(m) ==
  IF m.outer = << >> THEN [m EXCEPT !.pc = "idle", !.diff = NewDiff]
  ELSE [m EXCEPT !.pc = "others", !.diff = [m.outer[1] EXCEPT !.others = {}], !.outer = << >>]

\* The same when it fails: that difference is given up, a slice is continued.
FinishError(m) ==
  IF m.outer # << >> /\ ~m.outer[1].final THEN Finish(m)
  ELSE [m EXCEPT !.pc = "idle", !.diff = NewDiff, !.outer = << >>]

NewMain(n) ==
  [pc |-> "idle", box |-> NewBox(n), save |-> None, todo |-> {}, diff |-> NewDiff,
   changed |-> FALSE, outer |-> << >>]

\* channelState.getDifference, up to its RPC or the wait before that.
GetChannelDifference(w) ==
  [w EXCEPT !.pc = IF w.wait THEN "wait" ELSE "rpc", !.box = Clear(@), !.diff = NewDiff]

NewWork(n) ==
  [pc |-> "idle", box |-> NewBox(n), save |-> None, diff |-> NewDiff, wait |-> FALSE]

MainOff == [NewMain(0) EXCEPT !.pc = "off"]

WorkOff == [NewWork(0) EXCEPT !.pc = "off"]
NotRunning == [up |-> FALSE, tracked |-> FALSE, told |-> FALSE]
-----------------------------------------------------------------------------
Init ==
  /\ pub = [pts |-> 0, ch |-> 0]
  /\ store = [pts |-> 0, ch |-> None, known |-> FALSE]
  /\ run = NotRunning
  /\ main = MainOff /\ work = WorkOff
  /\ queue = << >> /\ out = << >>
  /\ given = [pts |-> {}, ch |-> {}] /\ lost = [pts |-> {}, ch |-> {}, silent |-> {}]
  /\ ignored = {}
  /\ arrivals = 0 /\ faults = 0

\* newState: the goroutines are started from what was loaded; each begins with a
\* difference.
newState(pts, ch) ==
  /\ run' = [up |-> TRUE, tracked |-> ch # None, told |-> FALSE]
  /\ main' = GetDifference(NewMain(pts))
  /\ work' = IF ch # None THEN GetChannelDifference(NewWork(ch)) ELSE WorkOff

\* Mutant: the stored channels are not loaded.
Run_noChannels ==
  /\ ~run.up
  /\ newState(store.pts, None)
  /\ UNCHANGED <<pub, store, queue, out, given, lost, arrivals, faults, ignored>>

\* Manager.Run: the state and the channels are loaded.
Run ==
  /\ ~run.up
  /\ newState(store.pts, store.ch)
  /\ UNCHANGED <<pub, store, queue, out, given, lost, arrivals, faults, ignored>>

\* The same with opt.Forget, or when no state is found, of which the application
\* is told: the server's state takes the place of the stored one.
RunForget ==
  /\ ~run.up
  /\ Fault
  /\ store' = [store EXCEPT !.pts = pub.pts, !.ch = IF Wipes THEN None ELSE @]
  /\ newState(store'.pts, store'.ch)
  /\ lost' = [lost EXCEPT !.pts = @ \cup (Of(CommonLog, "message") \cap 1 .. pub.pts)]
  /\ UNCHANGED <<pub, queue, out, given, arrivals, ignored>>

\* Manager.Run when the access hash of the stored channel is not found: the
\* channel is skipped for this run and the application is told.
RunWithoutHash ==
  /\ ~run.up
  /\ store.ch # None
  /\ run' = [up |-> TRUE, tracked |-> FALSE, told |-> TRUE]
  /\ main' = GetDifference(NewMain(store.pts))
  /\ UNCHANGED <<pub, store, work, queue, out, given, lost, arrivals, faults, ignored>>

\* The process is killed, or Run's context ends.
Stop ==
  /\ run.up
  /\ Fault
  /\ run' = NotRunning
  /\ main' = MainOff /\ work' = WorkOff
  /\ queue' = << >> /\ out' = << >>
  /\ UNCHANGED <<pub, store, given, lost, arrivals, ignored>>

\* The server appends an update to a log.
Publish(log, field) ==
  /\ pub[field] < Len(log)
  /\ pub' = [pub EXCEPT ![field] = @ + 1]
  /\ UNCHANGED <<store, run, main, work, queue, out, given, lost, arrivals, faults, ignored>>

\* An update of one of the logs reaches the loop of Run.
Arrive(u, field) ==
  /\ MainAt("idle")
  /\ u <= pub[field]
  /\ arrivals < MaxArrivals
  /\ arrivals' = arrivals + 1

\* The box takes u, and the handler is called with what it applies.
MainHandles(u) ==
  /\ main' = [main EXCEPT !.box = Handle(@, u),
                          !.save = IF Applies(main.box, u) = {} THEN None
                                   ELSE Handle(main.box, u).state,
                          !.diff.others = @ \ {u}]
  /\ given' = [given EXCEPT !.pts = @ \cup Applies(main.box, u)]

\* handlePts.
HandlePts(u) ==
  /\ Arrive(u, "pts")
  /\ MainHandles(u)
  /\ UNCHANGED <<pub, store, run, work, queue, out, lost, faults, ignored>>

\* The end of applyPts: SetPts.
SetPts ==
  /\ main.save # None
  /\ Persist([store EXCEPT !.pts = main.save])
  /\ main' = [main EXCEPT !.save = None]
  /\ UNCHANGED <<pub, run, work, queue, out, given, lost, arrivals, ignored>>

\* handleChannel of a tracked channel: the update is pushed.
HandleChannel(u) ==
  /\ Arrive(u, "ch")
  /\ run.tracked
  /\ main' = [main EXCEPT !.pc = "push", !.todo = {u}]
  /\ UNCHANGED <<pub, store, run, work, queue, out, given, lost, faults, ignored>>

\* handleChannel of a channel that is not tracked: its worker is started at n.
Track(u, n) ==
  /\ Arrive(u, "ch")
  /\ ~run.tracked
  /\ run' = [run EXCEPT !.tracked = TRUE, !.told = FALSE]
  /\ main' = [main EXCEPT !.pc = "push", !.todo = {u}]
  /\ work' = GetChannelDifference(NewWork(n))

\* ... from the stored pts.
TrackChannel(u) ==
  /\ store.ch # None
  /\ Track(u, store.ch)
  /\ UNCHANGED <<pub, store, queue, out, given, lost, faults, ignored>>

\* ... from just before u, which becomes the stored pts: GetChannelPts found none,
\* or failed (and SetChannelPts may fail as well).  What comes before u is given
\* up when the channel is new to the storage, and passed over when it is not.
TrackAnew(u) ==
  LET passed == Of(ChannelLog, "message") \cap 1 .. u - 1
  IN  /\ Track(u, u - 1)
      /\ \/ store.ch = None /\ PersistChannel(u - 1)
         \/ /\ ReadsFail /\ store.ch # None
            /\ Fault
            /\ store' \in {store, [store EXCEPT !.ch = u - 1]}
      /\ lost' = IF store.known THEN [lost EXCEPT !.silent = @ \cup (passed \ (given.ch \cup lost.ch))]
                 ELSE [lost EXCEPT !.ch = @ \cup passed]
      /\ UNCHANGED <<pub, queue, out, given, ignored>>

\* ... or not at all: its access hash is not known, and is not in the difference
\* restoreAccessHash asks for.
IgnoreUnknown(u) ==
  /\ Arrive(u, "ch")
  /\ ~run.tracked
  /\ Fault
  /\ UNCHANGED <<pub, store, run, main, work, queue, out, given, lost, ignored>>

\* channelState.Push; the loop waits until there is room.
Push ==
  /\ MainAt("push")
  /\ Len(queue) < QueueLen
  /\ \E u \in First(main.todo) :
        /\ queue' = Append(queue, u)
        /\ main' = [main EXCEPT !.todo = @ \ {u}, !.pc = IF main.todo = {u} THEN "idle" ELSE @]
  /\ UNCHANGED <<pub, store, run, work, out, given, lost, arrivals, faults, ignored>>

\* handleUpdates of what a worker sent out: sorted by pts, back to the channel.
HandleInternal ==
  /\ MainAt("idle")
  /\ out # << >>
  /\ main' = [main EXCEPT !.pc = "push", !.todo = Head(out)]
  /\ out' = Tail(out)
  /\ UNCHANGED <<pub, store, run, work, queue, given, lost, arrivals, faults, ignored>>
-----------------------------------------------------------------------------
(* internalState.getDifference.                                            *)

\* A timer, UpdatesTooLong or an update from an unknown peer makes the loop ask
\* for the difference (not taken when that would change nothing).
AskDifference ==
  /\ MainAt("idle")
  /\ main.box.state < pub.pts \/ main.box.gaps # {}
  /\ main' = GetDifference(main)
  /\ UNCHANGED <<pub, store, run, work, queue, out, given, lost, arrivals, faults, ignored>>

\* updates.differenceEmpty.
DifferenceEmpty ==
  /\ MainAt("rpc")
  /\ main.box.state = pub.pts
  /\ main' = Finish(main)
  /\ UNCHANGED <<pub, store, run, work, queue, out, given, lost, arrivals, faults, ignored>>

\* Mutant: the new state is stored before the updates are handed over.
Difference_saveFirst(to, changed) ==
  /\ MainAt("rpc")
  /\ main.box.state < to /\ to <= pub.pts
  /\ IF changed THEN main.outer = << >> /\ Fault ELSE NoFault
  /\ main' = [main EXCEPT !.pc = "others", !.changed = changed,
                          !.diff = DiffTo(CommonLog, main.box.state, to, pub.pts)]
  /\ store' = [store EXCEPT !.pts = to]
  /\ UNCHANGED <<pub, run, work, queue, out, given, lost, arrivals, ignored>>

\* updates.difference, or updates.differenceSlice when it is not all of it; its
\* OtherUpdates may hold an updatePtsChanged.
Difference(to, changed) ==
  /\ MainAt("rpc")
  /\ main.box.state < to /\ to <= pub.pts
  /\ IF changed THEN main.outer = << >> /\ Fault ELSE NoFault
  /\ main' = [main EXCEPT !.pc = "others", !.changed = changed,
                          !.diff = DiffTo(CommonLog, main.box.state, to, pub.pts)]
  /\ UNCHANGED <<pub, store, run, work, queue, out, given, lost, arrivals, ignored>>

\* The RPC fails.
DifferenceFails ==
  /\ MainAt("rpc")
  /\ Fault
  /\ main' = FinishError(main)
  /\ UNCHANGED <<pub, store, run, work, queue, out, given, lost, arrivals, ignored>>

\* updates.differenceTooLong: go on from its pts, and tell the application.
DifferenceTooLong ==
  /\ MainAt("rpc")
  /\ Fault
  /\ store' \in {store, [store EXCEPT !.pts = pub.pts]}
  /\ lost' = [lost EXCEPT !.pts = @ \cup (Of(CommonLog, "message") \cap 1 .. pub.pts)]
  /\ main' = GetDifference([main EXCEPT !.box = SetState(@, pub.pts)])
  /\ UNCHANGED <<pub, run, work, queue, out, given, arrivals, ignored>>

\* applyCombined of diff.OtherUpdates, sorted by pts, one after the other.
OtherUpdate ==
  /\ MainAt("others")
  /\ \E u \in First(main.diff.others) : MainHandles(u)
  /\ UNCHANGED <<pub, store, run, work, queue, out, lost, arrivals, faults, ignored>>

\* handleSeq, after an updatePtsChanged: a difference inside the difference.
NestedDifference ==
  /\ MainAt("others")
  /\ main.diff.others = {} /\ main.changed
  /\ main' = GetDifference([main EXCEPT !.outer = <<main.diff>>])
  /\ UNCHANGED <<pub, store, run, work, queue, out, given, lost, arrivals, faults, ignored>>

\* The handler is called with diff.NewMessages.
NewMessages ==
  /\ MainAt("others")
  /\ main.diff.others = {} /\ ~main.changed
  /\ given' = [given EXCEPT !.pts = @ \cup main.diff.msgs]
  /\ main' = [main EXCEPT !.pc = "state"]
  /\ UNCHANGED <<pub, store, run, work, queue, out, lost, arrivals, faults, ignored>>

\* setState, then the end or the next slice.
SetDifferenceState ==
  /\ MainAt("state")
  /\ Persist([store EXCEPT !.pts = main.diff.to, !.ch = IF Wipes THEN None ELSE @])
  /\ LET m == [main EXCEPT !.box = SetState(@, main.diff.to)]
     IN  main' = IF main.diff.final THEN Finish(m) ELSE GetDifference(m)
  /\ UNCHANGED <<pub, run, work, queue, out, given, lost, arrivals, ignored>>
-----------------------------------------------------------------------------
(* The channel's worker.                                                   *)

\* handleUpdate: the handler is called with what the box applies;
\* when it returns an error the new pts is not stored.
HandleUpdate ==
  /\ WorkAt("idle")
  /\ queue # << >>
  /\ queue' = Tail(queue)
  /\ LET applied == Applies(work.box, Head(queue))
         box     == Handle(work.box, Head(queue))
     IN  /\ given' = [given EXCEPT !.ch = @ \cup applied]
         /\ \/ /\ work' = [work EXCEPT !.box = box,
                                       !.save = IF applied = {} THEN None ELSE box.state]
               /\ NoFault
            \/ /\ applied # {}
               /\ work' = [work EXCEPT !.box = box]
               /\ Fault
  /\ UNCHANGED <<pub, store, run, main, out, lost, arrivals, ignored>>

\* The end of applyPts: SetChannelPts.
SetChannelPts ==
  /\ work.save # None
  /\ PersistChannel(work.save)
  /\ work' = [work EXCEPT !.save = None]
  /\ UNCHANGED <<pub, run, main, queue, out, given, lost, arrivals, ignored>>

\* handleTooLong of an UpdateChannelTooLong that is more than diffLim ahead: the
\* application is told, and nothing is fetched.
HandleTooLong ==
  /\ WorkAt("idle")
  /\ work.box.state < pub.ch
  /\ Fault
  /\ lost' = [lost EXCEPT !.ch = @ \cup (Of(ChannelLog, "message") \cap 1 .. pub.ch)]
  /\ UNCHANGED <<pub, store, run, main, work, queue, out, given, arrivals, ignored>>

\* A timer or UpdateChannelTooLong (not taken when nothing would change).
AskChannelDifference ==
  /\ WorkAt("idle")
  /\ \/ work.box.state < pub.ch
     \/ work.box.gaps # {}
     \/ store.ch # work.box.state
  /\ work' = GetChannelDifference(work)
  /\ UNCHANGED <<pub, store, run, main, queue, out, given, lost, arrivals, faults, ignored>>

\* While the worker waits, for the server's timeout or for room in the internal
\* queue, it takes updates only to drop them.
IgnoreUpdate ==
  /\ WorkAt("wait") \/ WorkAt("out")
  /\ queue # << >>
  /\ queue' = Tail(queue)
  /\ ignored' = ignored \cup ({Head(queue)} \cap Of(ChannelLog, "edit"))
  /\ UNCHANGED <<pub, store, run, main, work, out, given, lost, arrivals, faults>>

\* The server's timeout is over.
WaitOver ==
  /\ WorkAt("wait")
  /\ work' = [work EXCEPT !.pc = "rpc", !.wait = FALSE]
  /\ UNCHANGED <<pub, store, run, main, queue, out, given, lost, arrivals, faults, ignored>>

\* updates.channelDifferenceEmpty.
ChannelDifferenceEmpty(wait) ==
  /\ WorkAt("rpc")
  /\ work.box.state = pub.ch
  /\ PersistChannel(pub.ch)
  /\ work' = [work EXCEPT !.pc = "idle", !.wait = wait]
  /\ UNCHANGED <<pub, run, main, queue, out, given, lost, arrivals, ignored>>

\* updates.channelDifference, with or without a timeout, final or not.
ChannelDifference(to, wait) ==
  /\ WorkAt("rpc")
  /\ work.box.state < to /\ to <= pub.ch
  /\ LET diff == DiffTo(ChannelLog, work.box.state, to, pub.ch)
     IN  work' = [work EXCEPT !.pc = IF diff.others = {} THEN "give" ELSE "out",
                              !.diff = diff, !.wait = wait]
  /\ UNCHANGED <<pub, store, run, main, queue, out, given, lost, arrivals, faults, ignored>>

\* The RPC fails: an error other than the loss of access.
ChannelDifferenceFails ==
  /\ WorkAt("rpc")
  /\ Fault
  /\ work' = [work EXCEPT !.pc = "idle"]
  /\ UNCHANGED <<pub, store, run, main, queue, out, given, lost, arrivals, ignored>>

\* updates.channelDifferenceTooLong, with or without a timeout: go on from the
\* dialog's pts, if it has one, and tell the application.
ChannelDifferenceTooLong(wait) ==
  /\ WorkAt("rpc")
  /\ Fault
  /\ lost' = [lost EXCEPT !.ch = @ \cup (Of(ChannelLog, "message") \cap 1 .. pub.ch)]
  /\ \/ /\ store' \in {store, [store EXCEPT !.ch = pub.ch, !.known = TRUE]}
        /\ work' = [work EXCEPT !.pc = "idle", !.wait = wait, !.box = SetState(@, pub.ch)]
     \/ work' = [work EXCEPT !.pc = "idle", !.wait = wait] /\ UNCHANGED store
  /\ UNCHANGED <<pub, run, main, queue, out, given, arrivals, ignored>>

\* Mutant: a difference with OtherUpdates is taken to have no messages.
SendOut_noMessages ==
  /\ WorkAt("out")
  /\ Len(out) < QueueLen
  /\ out' = Append(out, work.diff.others)
  /\ work' = [work EXCEPT !.pc = "store", !.diff.others = {}]
  /\ UNCHANGED <<pub, store, run, main, queue, given, lost, arrivals, faults, ignored>>

\* sendOut of diff.OtherUpdates.
SendOut ==
  /\ WorkAt("out")
  /\ Len(out) < QueueLen
  /\ out' = Append(out, work.diff.others)
  /\ work' = [work EXCEPT !.pc = "give", !.diff.others = {}]
  /\ UNCHANGED <<pub, store, run, main, queue, given, lost, arrivals, faults, ignored>>

\* The handler is called with diff.NewMessages; an error is only logged.
NewChannelMessages ==
  /\ WorkAt("give")
  /\ given' = [given EXCEPT !.ch = @ \cup work.diff.msgs]
  /\ work' = [work EXCEPT !.pc = "store"]
  /\ UNCHANGED <<pub, store, run, main, queue, out, lost, arrivals, faults, ignored>>

\* SetChannelPts and SetState, then the end or the rest of the difference.
SetChannelState ==
  /\ WorkAt("store")
  /\ PersistChannel(work.diff.to)
  /\ LET w == [work EXCEPT !.box = SetState(@, work.diff.to)]
     IN  work' = IF work.diff.final THEN [w EXCEPT !.pc = "idle", !.diff = NewDiff]
                 ELSE GetChannelDifference(w)
  /\ UNCHANGED <<pub, run, main, queue, out, given, lost, arrivals, ignored>>
-----------------------------------------------------------------------------
\* What the server, the network and the machine do.
Stimulus ==
  \/ Publish(CommonLog, "pts")
  \/ Publish(ChannelLog, "ch")
  \/ \E u \in DOMAIN CommonLog : HandlePts(u)
  \/ \E u \in DOMAIN ChannelLog :
        HandleChannel(u) \/ TrackChannel(u) \/ TrackAnew(u) \/ IgnoreUnknown(u)
  \/ Stop

\* What the two goroutines do.
StateStep ==
  \/ SetPts \/ Push \/ HandleInternal \/ AskDifference \/ DifferenceEmpty
  \/ \E to \in DOMAIN CommonLog, changed \in BOOLEAN : Difference(to, changed)
  \/ DifferenceFails \/ DifferenceTooLong \/ OtherUpdate \/ NestedDifference
  \/ NewMessages \/ SetDifferenceState

WorkerStep ==
  \/ HandleUpdate \/ SetChannelPts \/ HandleTooLong \/ AskChannelDifference
  \/ IgnoreUpdate \/ WaitOver
  \/ \E wait \in BOOLEAN : ChannelDifferenceEmpty(wait) \/ ChannelDifferenceTooLong(wait)
  \/ \E to \in DOMAIN ChannelLog, wait \in BOOLEAN : ChannelDifference(to, wait)
  \/ ChannelDifferenceFails \/ SendOut \/ NewChannelMessages \/ SetChannelState

SystemStep == Run \/ RunForget \/ RunWithoutHash \/ StateStep \/ WorkerStep

Next == Stimulus \/ SystemStep

Spec == Init /\ [][Next]_vars

\* A goroutine that can go on does, timers fire, and a stopped manager is run
\* again.  Everything from outside is bounded, so that no step is starved.
FairSpec == Spec /\ WF_vars(SystemStep)
-----------------------------------------------------------------------------
Common == INSTANCE AtLeastOnce WITH
  Messages <- Of(CommonLog, "message"), Start <- 0, Forgets <- FALSE, lost <- lost.pts,
  skipped <- {}, stored <- store.pts, given <- given.pts \cap Of(CommonLog, "message")

Channel == INSTANCE AtLeastOnce WITH
  Messages <- Of(ChannelLog, "message"), Start <- None, Forgets <- Wipes \/ ReadsFail,
  lost <- lost.ch, skipped <- lost.silent, stored <- store.ch,
  given <- given.ch \cap Of(ChannelLog, "message")

\* The common pts: whatever is lost, repeated or reordered, whenever storage and
\* RPCs fail and wherever the manager is stopped, the stored pts never passes a
\* message that the handler was not called with first, but for those the
\* application was told of or asked to forget (applyPts, setState, loadState).
CommonAtLeastOnce == Common!Spec

\* The same of the channel's stored pts (SetChannelPts in the worker).  Messages
\* are passed over with nobody told in one place only, where handleChannel starts
\* the worker of a channel whose stored pts it could not get: never if the storage
\* keeps the channels and GetChannelPts does not fail.
ChannelAtLeastOnce == Channel!Spec

\* Every message published is handed over or given up, crashes and failures
\* included: gaps are filled, differences completed, a restart resumes.  In a
\* channel that is from when it is in the storage on, unless a failed read makes
\* the worker start past it, or for good the application was told that the channel
\* is not followed.
CatchesUp ==
  /\ \A p \in Of(CommonLog, "message") : (pub.pts >= p) ~> (p \in given.pts \cup lost.pts)
  /\ \A p \in Of(ChannelLog, "message") :
        (pub.ch >= p /\ store.ch # None) ~>
          (p \in given.ch \cup lost.ch \cup lost.silent \/ []run.told)

\* OnChannelTooLong is "called if manager cannot recover channel gap" (config.go):
\* no message of a channel the storage has had is passed over with nobody told.
GapsTold == lost.silent = {}

\* An edit in the channel that the worker ignores while it waits is restored by a
\* later difference: the comments in getDifference and sendOut of
\* state_channel.go, which speak of all updates (messages are, see CatchesUp).
Restored ==
  \A p \in Of(ChannelLog, "edit") : (p \in ignored) ~> (p \in given.ch)
=============================================================================
