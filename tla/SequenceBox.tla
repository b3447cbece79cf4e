---------------------------- MODULE SequenceBox ----------------------------
(***************************************************************************)
(* The sequence box of telegram/updates: the buffer that turns updates,    *)
(* which the network may lose, repeat and reorder, into one gap-free       *)
(* sequence.  A box follows one counter (pts, qts or seq).  It belongs to  *)
(* one goroutine, so its handlers never interleave; the two loops of a     *)
(* handler (over pending, in Handle and in applyPending) are steps of      *)
(* their own here, and nothing else is enabled until the loop is over.     *)
(*                                                                         *)
(* The server side is its log: Updates, of which the ones ending at or     *)
(* below `server' have been published.                                     *)
(***************************************************************************)
EXTENDS Integers, Sequences

CONSTANTS
  Updates,       \* the server's log: a set of [State, Count] records
  InitialState,  \* sequenceConfig.InitialState: the state restored at startup
  MaxHandled     \* bound: how many update messages reach Handle

start(u) == u.State - u.Count

end(u) == u.State

\* The ranges of the log's updates do not overlap, and none ends at 0.
ASSUME UpdatesAssumption ==
  /\ Updates \subseteq [State : Nat \ {0}, Count : Nat]
  /\ \A u \in Updates : start(u) >= 0
  /\ \A u, v \in Updates : \/ u = v
                           \/ end(u) <= start(v)
                           \/ end(v) <= start(u)

\* The restored state is a value the server's counter had.
ASSUME InitialAssumption ==
  /\ InitialState \in Nat
  /\ \A u \in Updates : end(u) <= InitialState \/ InitialState <= start(u)

ASSUME BoundAssumption == MaxHandled \in Nat

VARIABLES
  server,    \* the counter's value on the server
  state,     \* sequenceBox.state
  gaps,      \* gapBuffer.gaps: open ranges [from, to)
  timer,     \* gapTimeout is armed
  pending,   \* sequenceBox.pending: updates with n, their order of arrival
  handled,   \* how many updates have been handed to Handle
  pc,        \* idle, or inside the loop over pending of Handle / applyPending
  todo,      \* what the loop of Handle has still to offer to the gaps
  cur,       \* applyPending's local `state'
  accepted,  \* applyPending's local `accepted'
  log        \* what the apply callback received, in order (history)

vars == <<server, state, gaps, timer, pending, handled, pc, todo, cur, accepted, log>>

Received == [State : Nat, Count : Nat, n : Nat]

Gaps == [from : Nat, to : Nat]
-----------------------------------------------------------------------------
\* Mutant: an outdated update passes for the next one.
checkGap_late(localState, remoteState, count) ==
  IF remoteState = 0 \/ localState + count >= remoteState THEN "gapApply" ELSE "gapRefetch"

checkGap(localState, remoteState, count) ==
  IF remoteState = 0 \/ localState + count = remoteState THEN "gapApply"
  ELSE IF localState + count > remoteState THEN "gapIgnore"
  ELSE "gapRefetch"

Check(local, u) == checkGap(local, u.State, u.Count)

Accepts(g, u) == g.from <= start(u) /\ g.to >= end(u)

\* Mutant: what is missing before the update is forgotten.
Split_noLeft(g, u) == {h \in {[from |-> end(u), to |-> g.to]} : h.from < h.to}

\* What is left of gap g around u.
Split(g, u) ==
  {h \in {[from |-> g.from, to |-> start(u)], [from |-> end(u), to |-> g.to]} :
      h.from < h.to}

\* gapBuffer.Consume: the gap that holds u's whole range is split around it.
Consume(gs, u) ==
  LET hit == {g \in gs : Accepts(g, u)}
  IN  IF hit = {} THEN gs
      ELSE LET g == CHOOSE x \in hit : TRUE
           IN  (gs \ {g}) \cup Split(g, u)

\* applyPending's order: a stable sort by start.
Before(u, v) == start(u) < start(v) \/ (start(u) = start(v) /\ u.n <= v.n)

\* The part of applyPending before its loop.
EnterApply ==
  /\ pc' = "apply"
  /\ cur' = state
  /\ accepted' = << >>

Tagged(u) == [State |-> u.State, Count |-> u.Count, n |-> handled + 1]
-----------------------------------------------------------------------------
Init ==
  /\ server = InitialState
  /\ state = InitialState
  /\ gaps = {}
  /\ timer = FALSE
  /\ pending = {}
  /\ handled = 0
  /\ pc = "idle"
  /\ todo = {}
  /\ cur = InitialState
  /\ accepted = << >>
  /\ log = << >>

\* The server appends the next update to its log.
Publish(u) ==
  /\ start(u) = server
  /\ server' = end(u)
  /\ UNCHANGED <<state, gaps, timer, pending, handled, pc, todo, cur, accepted, log>>

\* An update reaches Handle; the network repeats, reorders and loses updates.
Arrive(u) ==
  /\ pc = "idle"
  /\ handled < MaxHandled
  /\ end(u) <= server
  /\ handled' = handled + 1
  /\ UNCHANGED server

\* Handle: the update is outdated.
Skip(u) ==
  /\ Arrive(u)
  /\ Check(state, u) = "gapIgnore"
  /\ UNCHANGED <<state, gaps, timer, pending, pc, todo, cur, accepted, log>>

\* Handle while a gap is open: buffer, and offer the update to the gap.
Buffer(u) ==
  /\ Arrive(u)
  /\ Check(state, u) # "gapIgnore"
  /\ gaps # {}
  /\ pending' = pending \cup {Tagged(u)}
  /\ gaps' = Consume(gaps, u)
  /\ IF gaps' = {} THEN EnterApply /\ timer' = FALSE
                   ELSE UNCHANGED <<pc, cur, accepted, timer>>
  /\ UNCHANGED <<state, todo, log>>

\* Mutant: with updates pending, the one that arrived is not added to them.
Accept_drop(u) ==
  /\ Arrive(u)
  /\ Check(state, u) = "gapApply"
  /\ gaps = {}
  /\ IF pending = {} THEN /\ log' = Append(log, Tagged(u))
                          /\ state' = u.State
                          /\ UNCHANGED <<pc, cur, accepted>>
                     ELSE EnterApply /\ UNCHANGED <<log, state>>
  /\ UNCHANGED <<gaps, timer, todo, pending>>

\* Handle, no gap and the update is next: apply it, alone or with pending.
Accept(u) ==
  /\ Arrive(u)
  /\ Check(state, u) = "gapApply"
  /\ gaps = {}
  /\ IF pending = {}
     THEN /\ log' = Append(log, Tagged(u))
          /\ state' = u.State
          /\ UNCHANGED <<pending, pc, cur, accepted>>
     ELSE /\ pending' = pending \cup {Tagged(u)}
          /\ EnterApply
          /\ UNCHANGED <<log, state>>
  /\ UNCHANGED <<gaps, timer, todo>>

\* Handle, a gap is detected: open it, then offer it what is pending.
OpenGap(u) ==
  /\ Arrive(u)
  /\ Check(state, u) = "gapRefetch"
  /\ gaps = {}
  /\ pending' = pending \cup {Tagged(u)}
  /\ gaps' = {[from |-> state, to |-> start(u)]}
  /\ todo' = pending \cup {Tagged(u)}
  /\ pc' = "consume"
  /\ UNCHANGED <<state, timer, cur, accepted, log>>

\* Handle's loop over pending.
OfferPending(u) ==
  /\ pc = "consume"
  /\ gaps' = Consume(gaps, u)
  /\ todo' = todo \ {u}
  /\ UNCHANGED <<server, state, timer, pending, handled, pc, cur, accepted, log>>

\* Mutant: the gap timer is not armed.
GapOpened_noTimer ==
  /\ pc = "consume"
  /\ todo = {}
  /\ IF gaps = {} THEN EnterApply ELSE pc' = "idle" /\ UNCHANGED <<cur, accepted>>
  /\ UNCHANGED <<server, state, gaps, timer, pending, handled, todo, log>>

\* The end of that loop: resolved by pending updates, or wait for the gap.
GapOpened ==
  /\ pc = "consume"
  /\ todo = {}
  /\ IF gaps = {} THEN EnterApply /\ UNCHANGED timer
                  ELSE pc' = "idle" /\ timer' = TRUE /\ UNCHANGED <<cur, accepted>>
  /\ UNCHANGED <<server, state, gaps, pending, handled, todo, log>>

\* applyPending's loop: the next pending update in the sorted order.
ApplyPending(u) ==
  /\ pc = "apply"
  /\ \A v \in pending : Before(u, v)
  /\ Check(cur, u) # "gapRefetch"
  /\ pending' = pending \ {u}
  /\ IF Check(cur, u) = "gapApply"
     THEN accepted' = Append(accepted, u) /\ cur' = u.State
     ELSE UNCHANGED <<accepted, cur>>
  /\ UNCHANGED <<server, state, gaps, timer, handled, pc, todo, log>>

\* Mutant: the state is not moved past the updates just dispatched.
ApplyDone_noSetState ==
  /\ pc = "apply"
  /\ \A u \in pending : (\A v \in pending : Before(u, v)) => Check(cur, u) = "gapRefetch"
  /\ log' = log \o accepted
  /\ pc' = "idle"
  /\ UNCHANGED <<server, state, gaps, timer, pending, handled, todo, cur, accepted>>

\* The end of applyPending: dispatch what was accepted and move the state.
ApplyDone ==
  /\ pc = "apply"
  /\ \A u \in pending : (\A v \in pending : Before(u, v)) => Check(cur, u) = "gapRefetch"
  /\ log' = log \o accepted
  /\ state' = cur
  /\ pc' = "idle"
  /\ UNCHANGED <<server, gaps, timer, pending, handled, todo, cur, accepted>>

\* Mutant: a difference leaves the gaps open.
Difference_noClear(to) ==
  /\ pc = "idle"
  /\ state <= to /\ to <= server
  /\ state' = to
  /\ log' = IF to = state THEN log
            ELSE Append(log, [State |-> to, Count |-> to - state, n |-> 0])
  /\ UNCHANGED <<server, gaps, pending, handled, pc, todo, cur, accepted>>

\* channelState.getDifference's use of the box: the gaps are cleared first; when
\* the server answers, its messages up to to are dispatched, the other updates
\* sent to internalState, and SetState moves the state.  (internalState's own
\* getDifference passes the other updates through the box before SetState: those
\* steps are in Updates.)
Difference(to) ==
  /\ pc = "idle"
  /\ state <= to /\ to <= server
  /\ gaps' = {}
  /\ state' = to
  /\ log' = IF to = state THEN log
            ELSE Append(log, [State |-> to, Count |-> to - state, n |-> 0])
  /\ UNCHANGED <<server, pending, handled, pc, todo, cur, accepted>>

\* The gap timer fires: getDifference, answered in full or failing.
GapTimeout ==
  /\ timer
  /\ timer' = FALSE
  /\ Difference(server)

GapTimeoutFails ==
  /\ timer
  /\ timer' = FALSE
  /\ Difference(state)

\* getDifference for any other reason (idle timeout, tooLong, a difference that
\* is not final): the timer of an open gap keeps running.
OtherDifference ==
  /\ \E to \in {u.State : u \in Updates} \cup {state} : Difference(to)
  /\ UNCHANGED timer

Next ==
  \/ \E u \in Updates : Publish(u) \/ Skip(u) \/ Buffer(u) \/ Accept(u) \/ OpenGap(u)
  \/ \E u \in todo : OfferPending(u)
  \/ \E u \in pending : ApplyPending(u)
  \/ GapOpened
  \/ ApplyDone
  \/ GapTimeout
  \/ GapTimeoutFails
  \/ OtherDifference

Spec == Init /\ [][Next]_vars

\* The goroutine finishes its handlers, and an armed gap timer fires.
Fairness ==
  /\ WF_vars(\E u \in todo : OfferPending(u))
  /\ WF_vars(\E u \in pending : ApplyPending(u))
  /\ WF_vars(GapOpened)
  /\ WF_vars(ApplyDone)
  /\ WF_vars(GapTimeout \/ GapTimeoutFails)

FairSpec == Spec /\ Fairness
-----------------------------------------------------------------------------
\* Every variable has its type.
TypeOK ==
  /\ server \in Nat
  /\ state \in Nat
  /\ gaps \subseteq Gaps
  /\ timer \in BOOLEAN
  /\ pending \subseteq Received
  /\ handled \in Nat
  /\ pc \in {"idle", "consume", "apply"}
  /\ todo \subseteq pending
  /\ cur \in Nat
  /\ accepted \in Seq(Received)
  /\ log \in Seq(Received)

Order == INSTANCE UpdateOrder
           WITH InitialState <- InitialState, state <- state, log <- log

\* The updates given to the apply callback (and the differences fetched) lead
\* from the initial state to the current one: none is skipped, repeated or
\* out of order, whatever the network did (Handle, applyPending).
InOrder == Order!Chain(InitialState, log, state)

\* The box implements the abstract in-order delivery.
ImplementsUpdateOrder == Order!Spec

InGap(g, p) == g.from < p /\ p <= g.to

Covers(u, p) == start(u) < p /\ p <= end(u)

\* Below an open gap's end, a position is in an open gap exactly when no
\* buffered update covers it: a gap is not closed while something is missing,
\* and does not wait for what is already there (gapBuffer.Consume).
HolesTracked ==
  \A g \in gaps : \A p \in state + 1 .. g.to :
     (\E h \in gaps : InGap(h, p)) <=> ~ \E u \in pending \ todo : Covers(u, p)

\* applyPending always has something to apply: the "Empty buffer" warning of
\* sequence_box.go:158 is never logged.
NoEmptyBuffer ==
  pc = "apply" => \/ accepted # << >>
                  \/ \E u \in pending : Check(cur, u) = "gapApply"

\* Between handlers an open gap has its timer running, so it cannot be waited
\* on forever (Handle arms it, only closing the gap may stop it).
GapHasTimer == pc = "idle" /\ gaps # {} => timer

\* An open gap is closed: filled by late updates, or by getDifference.
GapCloses == gaps # {} ~> gaps = {}
=============================================================================
