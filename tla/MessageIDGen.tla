---------------------------- MODULE MessageIDGen ----------------------------
(***************************************************************************)
(* The generator of message identifiers (proto/message_id.go).  A call is  *)
(* atomic, it holds the mutex.  The clock is an input: any value at any    *)
(* call, for it may stand still or be set back.                            *)
(***************************************************************************)
EXTENDS Integers, FiniteSets

CONSTANTS
  Second,    \* nanoseconds in a second (1e9 in the code)
  Shift,     \* 2^32: the weight of the whole seconds
  Clock,     \* what the clock may read
  MaxCalls   \* bound on the identifiers generated

ASSUME SecondAssumption == Second \in Nat \ {0} /\ Second % 4 = 0
ASSUME ShiftAssumption == Shift \in Nat /\ Shift % 4 = 0 /\ Shift >= Second
ASSUME ClockAssumption == Clock \subseteq Nat

VARIABLES
  nano,    \* MessageIDGen.nano
  issued   \* the identifiers returned so far, with type and call

genVars == <<nano, issued>>

messageIDModulo == 4

minResolutionNanos == 10

yield == [FromClient |-> 0, ServerResponse |-> 1, FromServer |-> 3]

Types == DOMAIN yield

\* Mutant: the fraction keeps its two lowest bits.
newMessageID_noMask(nowNano, y) ==
  (nowNano \div Second) * Shift + (nowNano % Second) + y

newMessageID(nowNano, y) ==
  LET fracPart == nowNano % Second
  IN  (nowNano \div Second) * Shift + (fracPart - (fracPart % messageIDModulo)) + y

\* MessageID.Type; no type has the remainder 2.
Type(i) == {t \in Types : yield[t] = i % messageIDModulo}

GenInit == nano = 0 /\ issued = {}

\* Mutant: the clock's reading is taken as it is.
Advance_clock(now) == now

Advance(now) == IF now > nano THEN now ELSE nano + minResolutionNanos

New(t, now) ==
  /\ Cardinality(issued) < MaxCalls
  /\ nano' = Advance(now)
  /\ issued' = issued \cup
       {[id |-> newMessageID(nano', yield[t]), type |-> t, call |-> Cardinality(issued) + 1]}

GenNext == \E t \in Types, now \in Clock : New(t, now)

GenSpec == GenInit /\ [][GenNext]_genVars
-----------------------------------------------------------------------------
\* An identifier tells its type, whatever the time it was made at (Type).
TypeRecovered == \A m \in issued : Type(m.id) = {m.type}

\* Identifiers follow the order of the calls, up to the bits that hold the type,
\* over the end of a second and when the clock is set back (New, newMessageID).
Ordered ==
  \A m, n \in issued :
    m.call < n.call => m.id \div messageIDModulo <= n.id \div messageIDModulo

\* The doc of NewMessageIDGen: "This generator compensates time resolution problem
\* removing probability of id collision."
NoCollision == \A m, n \in issued : m.id = n.id => m = n
=============================================================================
