---------------------------- MODULE AtLeastOnce ----------------------------
(***************************************************************************)
(* What the updates manager promises of one counter that it keeps in a     *)
(* StateStorage: every message is handed to the update handler before the  *)
(* stored position moves past it, so that a crash at any point repeats     *)
(* messages but never loses one.  The only messages passed over are the    *)
(* ones the manager gives up on (a difference that is too long, what was   *)
(* in a channel before it was first stored), and, if the storage may lose  *)
(* the position or fail to return it, the ones it skips when it starts     *)
(* again without it.                                                       *)
(***************************************************************************)
EXTENDS Integers

CONSTANTS
  Messages,  \* the positions of the counter at which there is a message
  Start,     \* the position stored before the first run
  Forgets    \* may the storage not return the position it was given?

VARIABLES
  given,   \* the messages the handler has received
  lost,    \* the messages given up on
  skipped, \* the messages passed over for want of the position
  stored   \* the position in the storage

vars == <<given, lost, skipped, stored>>

Passable(n, accounted) == \A p \in Messages : p <= n => p \in accounted

Init == given = {} /\ lost = {} /\ skipped = {} /\ stored = Start

\* The handler is called.
HandOver ==
  /\ given \subseteq given' /\ given' \subseteq Messages
  /\ UNCHANGED <<lost, skipped, stored>>

\* The position is saved: not past a message that was not handed over before.
Save ==
  /\ Passable(stored', given \cup lost \cup skipped)
  /\ UNCHANGED <<given, lost, skipped>>

\* Messages are given up on; the position may be saved with that.
GiveUp ==
  /\ lost \subseteq lost' /\ lost' \subseteq Messages
  /\ stored' = stored \/ Passable(stored', given \cup lost' \cup skipped)
  /\ UNCHANGED <<given, skipped>>

\* The position is not returned, and a new one takes its place.
Skip ==
  /\ Forgets
  /\ skipped \subseteq skipped' /\ skipped' \subseteq Messages
  /\ stored' = stored \/ Passable(stored', given \cup lost \cup skipped')
  /\ UNCHANGED <<given, lost>>

Next == HandOver \/ Save \/ GiveUp \/ Skip

Spec == Init /\ [][Next]_vars
=============================================================================
