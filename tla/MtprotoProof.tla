---------------------------- MODULE MtprotoProof ----------------------------
(***************************************************************************)
(* What one MTProto connection guarantees, first for its identifiers and   *)
(* then for its goroutines.                                                *)
(*                                                                         *)
(* MessageIDGen, for every clock, number of calls, length of the second    *)
(* and weight of the seconds that are multiples of four: an identifier is  *)
(* four times its slot plus its type, and the slot never falls while nano  *)
(* rises.                                                                  *)
(*                                                                         *)
(* MtprotoConn, for every number of calls, messages, retries, pings and    *)
(* dropped keys: the frames, the key, the acknowledgements and the end of  *)
(* the run.                                                                *)
(***************************************************************************)
EXTENDS MtprotoConn, MessageIDGen, FiniteSetTheorems, TLAPS

\* The identifier of the time n without its type: the whole seconds, then the
\* fraction, both in units of messageIDModulo.
Slot(n) == (n \div Second) * (Shift \div 4) + ((n % Second) \div 4)

\* Every identifier was made at some time that is not after nano.
MadeBefore(m) ==
  \E n \in Nat : n <= nano /\ m.id = newMessageID(n, yield[m.type])

GenInv ==
  /\ nano \in Nat
  /\ IsFiniteSet(issued)
  /\ \A m \in issued : m.type \in Types /\ m.call \in 1 .. Cardinality(issued) /\ MadeBefore(m)
  /\ Ordered
-----------------------------------------------------------------------------
\* The parts of a time: whole seconds and what is left, less than a second.
LEMMA Parts ==
  ASSUME NEW n \in Nat
  PROVE  /\ n \div Second \in Nat /\ n % Second \in Nat
         /\ n % Second < Second /\ n = Second * (n \div Second) + (n % Second)
  BY SecondAssumption

\* The slot is a number, and an identifier its slot and its type.
LEMMA IdOfSlot ==
  ASSUME NEW n \in Nat, NEW y \in 0 .. 3
  PROVE  /\ Slot(n) \in Nat
         /\ newMessageID(n, y) = 4 * Slot(n) + y
  <1> DEFINE q == n \div Second
             f == n % Second
             j == Shift \div 4
  <1>1. q \in Nat /\ f \in Nat
    BY Parts
  <1>2. j \in Nat /\ Shift = 4 * j
    BY ShiftAssumption
  <1>3. f - (f % 4) = 4 * (f \div 4) /\ f \div 4 \in Nat
    BY <1>1
  <1> HIDE DEF q, f, j
  <1>4. q * j \in Nat /\ q * Shift = 4 * (q * j)
    BY <1>1, <1>2
  <1>5. newMessageID(n, y) = q * Shift + (f - (f % 4)) + y
    BY DEF newMessageID, messageIDModulo, q, f
  <1>6. Slot(n) = q * j + f \div 4
    BY DEF Slot, q, f, j
  <1> QED
    BY <1>3, <1>4, <1>5, <1>6

\* Dividing by messageIDModulo gives both back.
LEMMA SlotOfId ==
  ASSUME NEW s \in Nat, NEW y \in 0 .. 3
  PROVE  (4 * s + y) \div 4 = s /\ (4 * s + y) % 4 = y
  OBVIOUS

\* A later time has no smaller slot, over the end of a second too; a time that
\* is later by four nanoseconds or more has a greater one.
LEMMA SlotGrows ==
  ASSUME NEW n \in Nat, NEW k \in Nat, n <= k
  PROVE  /\ Slot(n) <= Slot(k)
         /\ n + 4 <= k => Slot(n) < Slot(k)
  <1> DEFINE q == n \div Second
             f == n % Second
             r == k \div Second
             g == k % Second
             j == Shift \div 4
             i == Second \div 4
  <1>1. /\ q \in Nat /\ f \in Nat /\ f < Second /\ n = Second * q + f
        /\ r \in Nat /\ g \in Nat /\ g < Second /\ k = Second * r + g
    BY Parts
  <1>2. i \in Nat /\ Second = 4 * i /\ j \in Nat /\ i <= j
    BY SecondAssumption, ShiftAssumption
  <1>3. Slot(n) = q * j + f \div 4 /\ Slot(k) = r * j + g \div 4
    BY DEF Slot
  <1>4. f \div 4 \in Nat /\ g \div 4 \in Nat /\ f \div 4 < i
    BY <1>1, <1>2
  <1> HIDE DEF q, f, r, g, i, j
  <1>5. CASE q = r
    <2> DEFINE t == Second * q
    <2>0. t \in Nat /\ n = t + f /\ k = t + g
      BY <1>1, <1>5, SecondAssumption
    <2> HIDE DEF t
    <2>1. f <= g /\ (n + 4 <= k => f + 4 <= g)
      BY <1>1, <2>0
    <2>2. f \div 4 <= g \div 4 /\ (f + 4 <= g => f \div 4 < g \div 4)
      BY <1>1, <2>1
    <2> DEFINE a == q * j
    <2>3. a \in Nat
      BY <1>1, <1>2
    <2>4. Slot(n) = a + f \div 4 /\ Slot(k) = a + g \div 4
      BY <1>3, <1>5
    <2> HIDE DEF a
    <2> QED
      BY <1>4, <2>1, <2>2, <2>3, <2>4
  <1>6. CASE q < r
    <2>1. PICK d \in Nat : r = q + 1 + d
      <3>1. r - q - 1 \in Nat /\ r = q + 1 + (r - q - 1)
        BY <1>1, <1>6
      <3> QED
        BY <3>1
    <2> DEFINE a == q * j
               b == d * j
    <2>2. a \in Nat /\ b \in Nat
      BY <1>1, <1>2
    <2>3. r * j = a + j + b
      BY <1>1, <1>2, <2>1
    <2> HIDE DEF a, b
    <2>4. Slot(n) = a + f \div 4
      BY <1>3 DEF a
    <2> QED
      BY <1>2, <1>3, <1>4, <2>2, <2>3, <2>4
  <1>7. ~ (r < q)
    <2>1. SUFFICES ASSUME r < q PROVE FALSE
      OBVIOUS
    <2>2. PICK d \in Nat : q = r + 1 + d
      <3>1. q - r - 1 \in Nat /\ q = r + 1 + (q - r - 1)
        BY <1>1, <2>1
      <3> QED
        BY <3>1
    <2>3. Second * q = Second * r + Second + Second * d /\ Second * d \in Nat
      BY <1>1, <2>2, SecondAssumption
    <2> QED
      BY <1>1, <2>3, SecondAssumption
  <1> QED
    BY <1>1, <1>5, <1>6, <1>7

\* The identifier of a time tells its type and its slot.
LEMMA IdIs ==
  ASSUME NEW n \in Nat, NEW t \in Types
  PROVE  /\ newMessageID(n, yield[t]) \div 4 = Slot(n)
         /\ Type(newMessageID(n, yield[t])) = {t}
  <1>1. yield[t] \in 0 .. 3
    BY DEF yield, Types
  <1>2. newMessageID(n, yield[t]) = 4 * Slot(n) + yield[t] /\ Slot(n) \in Nat
    BY <1>1, IdOfSlot
  <1>3. newMessageID(n, yield[t]) \div 4 = Slot(n) /\ newMessageID(n, yield[t]) % 4 = yield[t]
    BY <1>1, <1>2, SlotOfId
  <1> QED
    BY <1>3 DEF Type, yield, Types, messageIDModulo

\* nano never falls; a clock that stands still or was set back moves it on by
\* minResolutionNanos.
LEMMA NanoGrows ==
  ASSUME NEW now \in Clock, nano \in Nat
  PROVE  Advance(now) \in Nat /\ nano < Advance(now) /\ (now <= nano => nano + 4 <= Advance(now))
  BY ClockAssumption DEF Advance, minResolutionNanos

\* What a call adds: an identifier whose slot is not below that of any before,
\* and above all of them when the clock had not moved on.
LEMMA NewIs ==
  ASSUME NEW t \in Types, NEW now \in Clock, GenInv, New(t, now)
  PROVE  /\ nano' = Advance(now) /\ nano' \in Nat
         /\ \A m \in issued : /\ m.id \div 4 <= Slot(nano')
                              /\ now <= nano => m.id \div 4 < Slot(nano')
  <1>1. nano \in Nat /\ nano' = Advance(now) /\ nano' \in Nat
    BY NanoGrows DEF GenInv, New
  <1>2. SUFFICES ASSUME NEW m \in issued
                 PROVE  /\ m.id \div 4 <= Slot(nano')
                        /\ now <= nano => m.id \div 4 < Slot(nano')
    BY <1>1
  <1>3. m.type \in Types
    BY DEF GenInv
  <1>4. PICK n \in Nat : n <= nano /\ m.id = newMessageID(n, yield[m.type])
    BY DEF GenInv, MadeBefore
  <1>5. m.id \div 4 = Slot(n)
    BY <1>3, <1>4, IdIs
  <1>6. n <= nano' /\ (now <= nano => n + 4 <= nano')
    BY <1>1, <1>4, NanoGrows
  <1> QED
    BY <1>1, <1>5, <1>6, SlotGrows

\* Nothing is issued yet.
LEMMA InitGenInv ==
  ASSUME GenInit
  PROVE  GenInv
  BY FS_EmptySet DEF GenInit, GenInv, Ordered

\* A call keeps the identifiers in order: the new one has the last call's number
\* and a slot that is not below any other.
LEMMA StepGenInv ==
  ASSUME GenInv, [GenNext]_genVars
  PROVE  GenInv'
  <1>1. CASE UNCHANGED genVars
    BY <1>1 DEF genVars, GenInv, Ordered, MadeBefore
  <1>2. SUFFICES ASSUME NEW t \in Types, NEW now \in Clock, New(t, now) PROVE GenInv'
    BY <1>1 DEF GenNext
  <1> DEFINE e == [id |-> newMessageID(nano', yield[t]), type |-> t,
                   call |-> Cardinality(issued) + 1]
  <1>3. nano \in Nat /\ nano' \in Nat /\ nano < nano'
    BY <1>2, NanoGrows DEF GenInv, New
  <1>4. IsFiniteSet(issued) /\ Cardinality(issued) \in Nat
    BY FS_CardinalityType DEF GenInv
  <1>5. issued' = issued \cup {e}
    BY <1>2 DEF New
  <1>6. /\ e.id = newMessageID(nano', yield[t]) /\ e.type = t
        /\ e.call = Cardinality(issued) + 1
    OBVIOUS
  <1> HIDE DEF e
  <1>7. \A m \in issued : m.call \in 1 .. Cardinality(issued)
    BY DEF GenInv
  <1>8. IsFiniteSet(issued') /\ Cardinality(issued') = Cardinality(issued) + 1
    <2>1. e \notin issued
      BY <1>4, <1>6, <1>7
    <2> QED
      BY <1>4, <1>5, <2>1, FS_AddElement
  <1>9. \A m \in issued' : m.type \in Types /\ m.call \in 1 .. Cardinality(issued')
    BY <1>4, <1>5, <1>6, <1>7, <1>8 DEF GenInv
  <1>10. \A m \in issued' : \E n \in Nat : n <= nano' /\ m.id = newMessageID(n, yield[m.type])
    <2>1. \E n \in Nat : n <= nano' /\ e.id = newMessageID(n, yield[e.type])
      BY <1>3, <1>6
    <2>2. ASSUME NEW m \in issued
          PROVE  \E n \in Nat : n <= nano' /\ m.id = newMessageID(n, yield[m.type])
      <3>1. PICK n \in Nat : n <= nano /\ m.id = newMessageID(n, yield[m.type])
        BY DEF GenInv, MadeBefore
      <3>2. n <= nano'
        BY <1>3, <3>1
      <3> QED
        BY <3>1, <3>2
    <2> QED
      BY <1>5, <2>1, <2>2
  <1>11. Ordered'
    <2>1. SUFFICES ASSUME NEW m \in issued', NEW n \in issued', m.call < n.call
                   PROVE  m.id \div 4 <= n.id \div 4
      BY DEF Ordered, messageIDModulo
    <2>2. CASE n \in issued
      <3>1. m \in issued
        BY <1>4, <1>5, <1>6, <1>7, <2>1, <2>2
      <3> QED
        BY <2>1, <2>2, <3>1 DEF GenInv, Ordered, messageIDModulo
    <2>3. CASE n = e
      <3>1. m \in issued
        BY <1>4, <1>5, <1>6, <2>1, <2>3
      <3>2. e.id \div 4 = Slot(nano')
        BY <1>3, <1>6, IdIs
      <3> QED
        BY <1>2, <2>3, <3>1, <3>2, NewIs
    <2> QED
      BY <1>5, <2>2, <2>3
  <1> QED
    BY <1>3, <1>8, <1>9, <1>10, <1>11, Zenon DEF GenInv, MadeBefore

\* The invariant holds in every reachable state.
LEMMA AlwaysGenInv == GenSpec => []GenInv
  BY InitGenInv, StepGenInv, PTL DEF GenSpec

\* An identifier tells its type, whatever the time it was made at.
THEOREM TypeOfId == GenSpec => []TypeRecovered
  <1>1. GenInv => TypeRecovered
    BY IdIs DEF GenInv, TypeRecovered, MadeBefore
  <1> QED
    BY <1>1, AlwaysGenInv, PTL

\* Identifiers follow the order of the calls, up to the bits that hold the type.
THEOREM OrderOfCalls == GenSpec => []Ordered
  <1>1. GenInv => Ordered
    BY DEF GenInv
  <1> QED
    BY <1>1, AlwaysGenInv, PTL

\* The clock stands still or was set back: the new identifier is above all that
\* were issued, in the bits above the type.
Compensated ==
  \A t \in Types, now \in Clock :
    New(t, now) /\ now <= nano =>
      \A m \in issued, n \in issued' \ issued :
        m.id \div messageIDModulo < n.id \div messageIDModulo

\* What is left of "removing probability of id collision" (NewMessageIDGen):
\* no identifier collides with one made while the clock did not advance.
THEOREM ClockStandsStill == GenSpec => [][Compensated]_genVars
  <1>1. ASSUME GenInv, [GenNext]_genVars PROVE Compensated
    <2>1. SUFFICES ASSUME NEW t \in Types, NEW now \in Clock, New(t, now), now <= nano,
                          NEW m \in issued, NEW n \in issued' \ issued
                   PROVE  m.id \div 4 < n.id \div 4
      BY DEF Compensated, messageIDModulo
    <2>2. n.id = newMessageID(nano', yield[t])
      BY <2>1 DEF New
    <2>3. nano' \in Nat
      BY <2>1, NewIs, <1>1
    <2>4. n.id \div 4 = Slot(nano')
      BY <2>2, <2>3, IdIs
    <2> QED
      BY <1>1, <2>1, <2>4, NewIs
  <1> QED
    BY <1>1, AlwaysGenInv, PTL DEF GenSpec
-----------------------------------------------------------------------------
(* MtprotoConn: what is true of the goroutines of a run.                    *)

Pcs == {"off", "idle", "rlock", "mux", "send", "wait", "acked", "ok", "failed", "done"}

Writer == [pc : Pcs, key : Nat, retries : Nat]

ConnTypeOK ==
  /\ pfs \in BOOLEAN
  /\ run \in {"bind", "group", "returned"} /\ ctx \in {"live", "done"}
  /\ open \in BOOLEAN /\ peer \in {"up", "silent", "gone"}
  /\ key \in Nat /\ srvKey \in Nat /\ missing \in Nat
  /\ w \in [Writers -> Writer]
  /\ reader \in {"recv", "top", "lock", "exchange", "wait", "done"} /\ halt \in BOOLEAN
  /\ h \in [Messages -> [pc : {"server", "consume", "ack", "done"}, key : Nat]]
  /\ buf \subseteq Messages /\ acked \subseteq Messages /\ unacked \subseteq Messages
  /\ closer \in {"wait", "force", "done"}
  /\ binds \in Nat /\ pings \in Nat /\ forgets \in Nat

\* exchangeLock excludes the writers from a key exchange, writeMux all but one
\* from the transport.
Locked ==
  /\ reader = "exchange" => Shared = {}
  /\ \A x, y \in Sending : x = y

\* A call writes its request at most MaxRetries times more, and the temporary
\* key is bound in at most MaxBind attempts.
Attempts ==
  /\ \A c \in Callers : w[c].retries <= MaxRetries
  /\ binds <= MaxBind

\* Who may still try has an attempt left.
AttemptLeft ==
  /\ \A c \in Callers : w[c].pc = "wait" => w[c].retries < MaxRetries
  /\ binds < MaxBind \/ w[Bind].pc = "failed"

\* The transport is closed when no call is inside Do any more, and none gets in.
ClosedLast == ~open => InDo = {}

ClosedByCloser == open <=> closer # "done"

\* Run returns after every goroutine of its group, unless it could not bind the
\* temporary key.
ReturnedLast == run = "returned" /\ w[Bind].pc # "failed" => GroupEnded

\* Nothing but the bind is written until the temporary key is bound: the calls
\* and the loops have not begun.  Without PFS there is no bind.
BindFirst ==
  /\ ~pfs => w[Bind].pc = "off"
  /\ w[Bind].pc \notin {"off", "ok"} => /\ \A c \in Calls : w[c].pc = "idle"
                                       /\ \A x \in Loops : w[x].pc = "off"

\* The server knows the connection's key or none, unless the connection has
\* dropped it, which takes PFS.  With PFS no other key is made.
Keys ==
  /\ key # 0 => srvKey \in {0, key}
  /\ IF pfs THEN key \in {0, 1} /\ reader \notin {"lock", "exchange"} ELSE key # 0

\* No message is acknowledged while it is still to be, or given up and
\* acknowledged; ackLoop has it from a goroutine that has ended.
AckedOrLost ==
  /\ buf \cap (acked \cup unacked) = {}
  /\ acked \cap unacked = {}

AckTaken == \A m \in buf \cup acked \cup unacked : h[m].pc = "done"

\* What is said of the writers, and what of the reader and its messages.
WritersInv ==
  /\ NoStaleFrame /\ Locked
  /\ Attempts /\ AttemptLeft
  /\ ClosedLast /\ ClosedByCloser
  /\ ReturnedLast /\ BindFirst

ReaderInv == Keys /\ AckedOrLost /\ AckTaken

ConnInv == ConnTypeOK /\ WritersInv /\ ReaderInv
-----------------------------------------------------------------------------
\* The two loops and Bind are writers, each of its own kind.
LEMMA WritersAre ==
  /\ Bind \in Callers /\ Bind \notin Loops /\ Bind \notin Calls
  /\ "ackLoop" \in Loops /\ "pingLoop" \in Loops
  /\ Callers \subseteq Writers /\ Loops \subseteq Writers /\ Calls \subseteq Callers
  /\ Callers \cap Loops = {}
  BY Constants DEF Writers, Callers, Loops, Bind

\* At moves one writer and leaves the others where they are.
LEMMA AtIs ==
  ASSUME w \in [Writers -> Writer], NEW x \in Writers, NEW p \in Pcs
  PROVE  /\ At(x, p) \in [Writers -> Writer]
         /\ At(x, p)[x].pc = p
         /\ At(x, p)[x].key = IF p \in {"send", "wait", "acked"} THEN w[x].key ELSE 0
         /\ At(x, p)[x].retries = IF p \in {"ok", "failed", "acked", "idle"} THEN 0
                                  ELSE w[x].retries
         /\ \A y \in Writers \ {x} : At(x, p)[y] = w[y]
  BY DEF At, Writer

\* Where a call is inside Do.
Busy == {"rlock", "mux", "send", "wait", "acked"}

\* One writer moves and keeps what is said of the writers: it takes a lock that
\* is free, has an attempt left, enters no closed engine and has not ended.
LEMMA Moves ==
  ASSUME ConnTypeOK, WritersInv, NEW x \in Writers, w' \in [Writers -> Writer],
         \A y \in Writers \ {x} : w'[y] = w[y],
         UNCHANGED <<pfs, run, open, reader, closer>>,
         key' = key \/ (Shared \ {x} = {} /\ w'[x].pc \notin {"mux", "send"}),
         w'[x].pc \in {"mux", "send"} => w'[x].key = key /\ reader # "exchange",
         w'[x].pc = "send" => Sending = {},
         x \in Callers => /\ w'[x].retries <= MaxRetries
                          /\ w'[x].pc = "wait" => w'[x].retries < MaxRetries
                          /\ w'[x].pc \in Busy => w[x].pc \in Busy \/ ~Closed,
         x \in Loops => w[x].pc # "done",
         w[x].pc # "off" /\ (x = Bind => w[x].pc \notin {"ok", "failed"}),
         x \in Calls /\ w[x].pc = "idle" => w[Bind].pc \in {"off", "ok"},
         binds' \in Nat,
         binds' # binds => x = Bind /\ binds' <= MaxBind /\ (binds' < MaxBind \/ w'[x].pc = "failed")
  PROVE  WritersInv'
  <1>1. NoStaleFrame'
    BY DEF NoStaleFrame, Shared, WritersInv
  <1>2. Locked'
    BY DEF Locked, Shared, Sending, WritersInv
  <1>3. Attempts' /\ AttemptLeft'
    BY WritersAre, Constants, Zenon DEF Attempts, AttemptLeft, WritersInv, ConnTypeOK
  <1>4. ClosedLast' /\ ClosedByCloser'
    BY WritersAre, Zenon DEF ClosedLast, ClosedByCloser, InDo, Busy, Closed, WritersInv
  <1>5. ReturnedLast'
    BY WritersAre, Zenon DEF ReturnedLast, GroupEnded, Ended, WritersInv
  <1>6. BindFirst'
    <2>1. x = Bind \/ x \in Calls \/ x \in Loops
      BY Zenon DEF Writers, Callers
    <2>2. x # Bind => w[Bind].pc \in {"off", "ok"}
      BY <2>1, Zenon DEF WritersInv, BindFirst
    <2>3. CASE x = Bind
      BY <2>3, WritersAre, Zenon DEF WritersInv, BindFirst
    <2>4. CASE x # Bind
      BY <2>2, <2>4, WritersAre, Zenon DEF WritersInv, BindFirst
    <2> QED
      BY <2>3, <2>4, Zenon
  <1> QED
    BY <1>1, <1>2, <1>3, <1>4, <1>5, <1>6, Zenon DEF WritersInv

\* The same for a writer that moves by At.
LEMMA AtKeeps ==
  ASSUME ConnTypeOK, WritersInv, NEW x \in Writers, NEW p \in Pcs \ {"mux"}, w' = At(x, p),
         UNCHANGED <<pfs, run, open, key, reader, closer, binds>>,
         w[x].pc \notin {"off", "done", "ok", "failed"},
         x \in Calls /\ w[x].pc = "idle" => w[Bind].pc \in {"off", "ok"},
         p = "send" => w[x].pc = "mux" /\ Sending = {},
         x \in Callers => /\ p = "wait" => w[x].retries < MaxRetries
                          /\ p \in Busy => w[x].pc \in Busy \/ ~Closed
  PROVE  WritersInv' /\ w' \in [Writers -> Writer]
  <1>1. w \in [Writers -> Writer]
    BY DEF ConnTypeOK
  <1>2. /\ w' \in [Writers -> Writer] /\ w'[x].pc = p
        /\ p = "send" => w'[x].key = w[x].key
        /\ w'[x].retries \in {0, w[x].retries}
        /\ p = "wait" => w'[x].retries = w[x].retries
        /\ \A y \in Writers \ {x} : w'[y] = w[y]
    BY <1>1, AtIs
  <1>3. p = "send" => w'[x].key = key /\ reader # "exchange"
    BY <1>2, Zenon DEF WritersInv, NoStaleFrame, Locked, Shared
  <1>4. x \in Callers => w'[x].retries <= MaxRetries
    BY <1>2, Constants DEF WritersInv, Attempts
  <1>5. binds' \in Nat /\ binds' = binds
    BY DEF ConnTypeOK
  <1> QED
    BY <1>2, <1>3, <1>4, <1>5, Moves, Zenon

\* A step of a writer alone leaves the rest as it is.
LEMMA OnlyWriterKeeps ==
  ASSUME ConnInv, OnlyWriter, WritersInv', w' \in [Writers -> Writer]
  PROVE  ConnInv'
  BY DEF ConnInv, OnlyWriter, ConnTypeOK, ReaderInv, Keys, AckedOrLost, AckTaken

\* write, up to the Send: the lock for reading, the encryption, writeMux.
LEMMA WriteKeeps ==
  ASSUME ConnInv, NEW x \in Writers, Encrypt(x) \/ LockWrite(x)
  PROVE  ConnInv'
  <1>0. /\ ConnTypeOK /\ WritersInv /\ OnlyWriter /\ UNCHANGED binds
        /\ UNCHANGED <<pfs, run, open, key, reader, closer>>
    BY DEF ConnInv, Encrypt, LockWrite, OnlyWriter
  <1>1. WritersInv' /\ w' \in [Writers -> Writer]
    <2>1. CASE Encrypt(x)
      <3>0. /\ w' = [w EXCEPT ![x] = [pc |-> "mux", key |-> key, retries |-> w[x].retries]]
            /\ w \in [Writers -> Writer] /\ key \in Nat
        BY <1>0, <2>1 DEF Encrypt, ConnTypeOK
      <3>1. /\ w' \in [Writers -> Writer] /\ w'[x].pc = "mux" /\ w'[x].key = key
            /\ w'[x].retries = w[x].retries /\ \A y \in Writers \ {x} : w'[y] = w[y]
        BY <3>0 DEF Writer, Pcs
      <3>2. w[x].pc = "rlock" /\ reader # "exchange"
        BY <2>1 DEF Encrypt
      <3>3. x \in Callers => w'[x].retries <= MaxRetries
        BY <1>0, <3>1 DEF WritersInv, Attempts
      <3>4. binds' \in Nat
        BY <1>0 DEF ConnTypeOK
      <3>5. w[x].pc \in Busy /\ w[x].pc \notin {"off", "done", "ok", "failed", "idle"}
        BY <3>2, Zenon DEF Busy
      <3> QED
        BY <1>0, <3>1, <3>2, <3>3, <3>4, <3>5, Moves, Zenon
    <2>2. CASE LockWrite(x)
      <3>1. w[x].pc = "mux" /\ Sending = {} /\ w' = At(x, "send")
        BY <2>2 DEF LockWrite
      <3> QED
        BY <1>0, <3>1, AtKeeps, Zenon DEF Busy, Pcs
    <2> QED
      BY <2>1, <2>2, Zenon
  <1> QED
    BY <1>0, <1>1, OnlyWriterKeeps, Zenon

\* The end of the Send: ackLoop's messages are acknowledged or given up.
LEMMA SendKeeps ==
  ASSUME ConnInv, NEW x \in Writers, Sent(x) \/ SendFails(x)
  PROVE  ConnInv'
  <1>0. /\ ConnTypeOK /\ WritersInv /\ ReaderInv /\ w[x].pc = "send" /\ UNCHANGED binds
        /\ UNCHANGED <<pfs, run, open, key, reader, closer>>
        /\ UNCHANGED <<pfs, peer, srvKey, halt, h, pings, forgets>>
    BY DEF ConnInv, Sent, SendFails
  <1>1. /\ \E p \in {"wait", "idle", "failed", "done"} :
             w' = At(x, p) /\ (x \in Callers /\ p = "wait" => w[x].retries # MaxRetries)
        /\ missing' \in Nat /\ ctx' \in {ctx, "done"}
        /\ \/ UNCHANGED <<buf, acked, unacked>>
           \/ buf' = {} /\ acked' = acked \cup buf /\ UNCHANGED unacked
           \/ buf' = {} /\ unacked' = unacked \cup buf /\ UNCHANGED acked
    <2>1. CASE Sent(x)
      BY <1>0, <2>1 DEF Sent, ConnTypeOK
    <2>2. CASE SendFails(x)
      <3>1. CASE x \in Callers
        BY <1>0, <2>2, <3>1, Zenon DEF SendFails, ConnTypeOK
      <3>2. CASE x = "ackLoop"
        BY <1>0, <2>2, <3>2, WritersAre, Zenon DEF SendFails, ConnTypeOK
      <3>3. CASE x \notin Callers /\ x # "ackLoop"
        BY <1>0, <2>2, <3>3, Zenon DEF SendFails, Fails, ConnTypeOK
      <3> QED
        BY <3>1, <3>2, <3>3, Zenon
    <2> QED
      BY <2>1, <2>2, Zenon
  <1>2. PICK p \in {"wait", "idle", "failed", "done"} :
          w' = At(x, p) /\ (x \in Callers /\ p = "wait" => w[x].retries # MaxRetries)
    BY <1>1
  <1>3. p \in Pcs \ {"mux"} /\ p # "send"
    BY Zenon DEF Pcs
  <1>4. x \in Callers /\ p = "wait" => w[x].retries < MaxRetries
    <2>1. w[x].retries \in Nat /\ MaxRetries \in Nat
      BY <1>0, Constants, Zenon DEF ConnTypeOK, Writer
    <2>2. x \in Callers => w[x].retries <= MaxRetries
      BY <1>0, Zenon DEF WritersInv, Attempts
    <2> QED
      BY <1>2, <2>1, <2>2
  <1>5. WritersInv' /\ w' \in [Writers -> Writer]
    <2>1. w[x].pc \in Busy /\ w[x].pc \notin {"off", "done", "ok", "failed", "idle"}
      BY <1>0, Zenon DEF Busy
    <2> QED
      BY <1>0, <1>2, <1>3, <1>4, <2>1, AtKeeps, Zenon
  <1>6. ConnTypeOK'
    BY <1>0, <1>1, <1>5 DEF ConnTypeOK
  <1>7. ReaderInv'
    BY <1>0, <1>1 DEF ReaderInv, Keys, AckedOrLost, AckTaken
  <1> QED
    BY <1>5, <1>6, <1>7 DEF ConnInv

\* A call enters Do, is acknowledged or answered, tries again or is cancelled.
LEMMA CallKeeps ==
  ASSUME ConnInv, NEW c \in Callers,
         \/ Do(c) \/ Acknowledge(c) \/ Answer(c) \/ RetryTimer(c) \/ Abort(c)
  PROVE  ConnInv'
  <1>0. /\ ConnTypeOK /\ WritersInv /\ OnlyWriter /\ UNCHANGED binds
        /\ UNCHANGED <<pfs, run, open, key, reader, closer>>
    BY DEF ConnInv, Do, Acknowledge, Answer, RetryTimer, Abort, OnlyWriter
  <1>1. c \in Writers
    BY WritersAre
  <1>2. CASE Do(c)
    <2> DEFINE p == IF Closed THEN "failed" ELSE "rlock"
    <2>1. /\ w[c].pc = "idle" /\ w' = At(c, p)
          /\ c \in Calls => w[Bind].pc \in {"off", "ok"}
      BY <1>2, WritersAre, Zenon DEF Do
    <2>2. p \in Pcs \ {"mux", "send", "wait"} /\ (p \in Busy => ~Closed)
      BY Zenon DEF Pcs, Busy
    <2> HIDE DEF p
    <2>3. WritersInv' /\ w' \in [Writers -> Writer]
      BY <1>0, <1>1, <2>1, <2>2, AtKeeps, Zenon
    <2> QED
      BY <1>0, <2>3, OnlyWriterKeeps, Zenon
  <1>3. CASE Acknowledge(c) \/ Answer(c) \/ Abort(c)
    <2>1. PICK p \in {"acked", "ok", "failed"} : w' = At(c, p)
      BY <1>3, Zenon DEF Acknowledge, Answer, Abort
    <2>2. w[c].pc \in {"wait", "acked"}
      BY <1>3, Zenon DEF Acknowledge, Answer, Abort
    <2>3. /\ p \in Pcs \ {"mux"} /\ p # "send" /\ p # "wait"
          /\ w[c].pc \in Busy /\ w[c].pc \notin {"off", "done", "ok", "failed", "idle"}
      BY <2>2, Zenon DEF Pcs, Busy
    <2>4. WritersInv' /\ w' \in [Writers -> Writer]
      BY <1>0, <1>1, <2>1, <2>3, AtKeeps, Zenon
    <2> QED
      BY <1>0, <2>4, OnlyWriterKeeps, Zenon
  <1>4. CASE RetryTimer(c)
    <2>1. /\ w[c].pc = "wait" /\ w \in [Writers -> Writer]
          /\ w' = [w EXCEPT ![c] = [pc |-> "rlock", key |-> 0, retries |-> w[c].retries + 1]]
      BY <1>0, <1>4, Zenon DEF RetryTimer, ConnTypeOK
    <2>2. /\ w' \in [Writers -> Writer] /\ w'[c].pc = "rlock"
          /\ w'[c].retries = w[c].retries + 1 /\ w[c].retries \in Nat
          /\ \A y \in Writers \ {c} : w'[y] = w[y]
      BY <1>1, <2>1 DEF Writer, Pcs
    <2>3. w[c].retries < MaxRetries
      BY <1>0, <2>1, Zenon DEF WritersInv, AttemptLeft
    <2>4. w'[c].retries <= MaxRetries
      BY <2>2, <2>3, Constants
    <2>5. w[c].pc \in Busy /\ c \notin Loops /\ binds' \in Nat
      BY <1>0, <2>1, WritersAre, Zenon DEF Busy, ConnTypeOK
    <2>6. WritersInv'
      BY <1>0, <1>1, <2>1, <2>2, <2>4, <2>5, Moves, Zenon
    <2> QED
      BY <1>0, <2>2, <2>6, OnlyWriterKeeps, Zenon
  <1> QED
    BY <1>2, <1>3, <1>4, Zenon

\* An attempt to bind the temporary key is answered with an error, which may
\* cost the key: no frame is on its way then.
LEMMA BindKeeps ==
  ASSUME ConnInv, BindDropsKeys \/ \E final \in BOOLEAN : BindError(final)
  PROVE  ConnInv'
  <1>0. /\ ConnTypeOK /\ WritersInv /\ ReaderInv /\ w[Bind].pc \in {"wait", "acked"}
        /\ binds' = binds + 1 /\ key' \in {0, key}
        /\ UNCHANGED <<pfs, run, open, reader, closer>>
        /\ UNCHANGED <<ctx, peer, srvKey, missing, halt, h, buf, acked, unacked,
                       pings, forgets>>
    BY Zenon DEF ConnInv, BindError, BindDropsKeys
  <1>1. PICK p \in {"idle", "failed"} : w' = At(Bind, p) /\ (binds' < MaxBind \/ p = "failed")
    BY Zenon DEF BindError, BindDropsKeys
  <1>2. Bind \in Writers /\ Bind \in Callers /\ Bind \notin Loops /\ Bind \notin Calls
    BY WritersAre, Zenon
  <1>3. w \in [Writers -> Writer] /\ p \in Pcs
    BY <1>0, Zenon DEF ConnTypeOK, Pcs
  <1>4. /\ w' \in [Writers -> Writer] /\ w'[Bind].pc = p /\ w'[Bind].retries = 0
        /\ \A y \in Writers \ {Bind} : w'[y] = w[y]
    BY <1>1, <1>2, <1>3, AtIs
  <1>5. binds \in Nat /\ binds < MaxBind /\ MaxBind \in Nat /\ MaxRetries \in Nat
    BY <1>0, Constants, Zenon DEF ConnTypeOK, WritersInv, AttemptLeft
  <1>6. binds' \in Nat /\ binds' <= MaxBind
    BY <1>0, <1>5
  <1>7. /\ p \notin {"mux", "send", "wait"} /\ p \notin Busy
        /\ w[Bind].pc \notin {"off", "done", "ok", "failed"}
    BY <1>0, Zenon DEF Busy
  <1>8. w'[Bind].retries <= MaxRetries
    BY <1>4, <1>5
  <1>9. pfs /\ Shared \ {Bind} = {}
    BY <1>0, <1>7, Zenon DEF WritersInv, BindFirst, Shared, Writers, Callers
  <1>10. WritersInv'
    BY <1>0, <1>1, <1>2, <1>4, <1>6, <1>7, <1>8, <1>9, Moves, Zenon
  <1>11. ConnTypeOK'
    BY <1>0, <1>4, <1>6 DEF ConnTypeOK
  <1>12. ReaderInv'
    BY <1>0, <1>9, Zenon DEF ReaderInv, Keys, AckedOrLost, AckTaken
  <1> QED
    BY <1>10, <1>11, <1>12, Zenon DEF ConnInv

\* A loop that has not ended moves, to anywhere but a lock.
LEMMA LoopMoves ==
  ASSUME ConnTypeOK, WritersInv, NEW x \in Loops, NEW p \in {"rlock", "idle", "done"},
         w' = At(x, p), w[x].pc \in {"idle", "wait"},
         UNCHANGED <<pfs, run, open, key, reader, closer, binds>>
  PROVE  WritersInv' /\ w' \in [Writers -> Writer]
  <1>1. x \in Writers /\ x \notin Callers /\ x \notin Calls
    BY WritersAre, Zenon
  <1>2. p \in Pcs \ {"mux"} /\ p # "send" /\ w[x].pc \notin {"off", "done", "ok", "failed"}
    BY DEF Pcs
  <1> QED
    BY <1>1, <1>2, AtKeeps, Zenon

\* ackLoop takes a message from the goroutine that consumed it.
LEMMA TakeAckKeeps ==
  ASSUME ConnInv, NEW m \in Messages, TakeAck(m)
  PROVE  ConnInv'
  <1>0. /\ ConnTypeOK /\ WritersInv /\ ReaderInv
        /\ h[m].pc = "ack" /\ h' = [h EXCEPT ![m].pc = "done"] /\ buf' = buf \cup {m}
        /\ w["ackLoop"].pc = "idle" /\ (w' = w \/ w' = At("ackLoop", "rlock"))
        /\ UNCHANGED <<pfs, run, open, key, reader, closer, binds>>
        /\ UNCHANGED <<pfs, ctx, peer, srvKey, missing, halt, acked, unacked, pings, forgets>>
    BY DEF ConnInv, TakeAck
  <1>1. WritersInv' /\ w' \in [Writers -> Writer]
    <2>1. CASE w' = w
      BY <1>0, <2>1 DEF ConnTypeOK, WritersInv, NoStaleFrame, Locked, Shared, Sending, Attempts,
                        AttemptLeft, ClosedLast, InDo, ClosedByCloser, ReturnedLast,
                        GroupEnded, Ended, BindFirst
    <2>2. CASE w' = At("ackLoop", "rlock")
      BY <1>0, <2>2, WritersAre, LoopMoves
    <2> QED
      BY <1>0, <2>1, <2>2, Zenon
  <1>2. /\ h' \in [Messages -> [pc : {"server", "consume", "ack", "done"}, key : Nat]]
        /\ h'[m].pc = "done" /\ \A n \in Messages \ {m} : h'[n] = h[n]
    BY <1>0 DEF ConnTypeOK
  <1>3. ConnTypeOK'
    BY <1>0, <1>1, <1>2 DEF ConnTypeOK
  <1>4. m \notin acked \cup unacked
    BY <1>0 DEF ReaderInv, AckTaken
  <1>5. ReaderInv'
    <2>1. Keys'
      BY <1>0 DEF ReaderInv, Keys
    <2>2. AckedOrLost'
      BY <1>0, <1>4 DEF ReaderInv, AckedOrLost
    <2>3. AckTaken'
      BY <1>0, <1>2 DEF ReaderInv, AckTaken, ConnTypeOK
    <2> QED
      BY <2>1, <2>2, <2>3 DEF ReaderInv
  <1> QED
    BY <1>1, <1>3, <1>5 DEF ConnInv

\* The tickers, the pong, its timeout and the end of a loop.
LEMMA LoopKeeps ==
  ASSUME ConnInv,
         \/ AckTicker \/ PingTicker \/ Pong \/ PongMissed \/ \E x \in Loops : LoopEnds(x)
  PROVE  ConnInv'
  <1>0. ConnTypeOK /\ WritersInv /\ ReaderInv
    BY Zenon DEF ConnInv
  <1>1. PICK x \in Loops, p \in {"rlock", "idle", "done"} :
          w' = At(x, p) /\ w[x].pc \in {"idle", "wait"}
    BY WritersAre, Zenon DEF AckTicker, PingTicker, Pong, PongMissed, LoopEnds, Fails
  <1>2. /\ UNCHANGED <<pfs, run, open, key, reader, closer, binds>>
        /\ UNCHANGED <<pfs, peer, srvKey, missing, halt, h, buf, acked, unacked, forgets>>
        /\ ctx' \in {ctx, "done"} /\ pings' \in Nat
    <2>1. CASE AckTicker
      BY <1>0, <2>1 DEF AckTicker, OnlyWriter, ConnTypeOK
    <2>2. CASE PingTicker
      BY <1>0, <2>2 DEF PingTicker, OnlyWriter, ConnTypeOK
    <2>3. CASE Pong
      BY <1>0, <2>3 DEF Pong, OnlyWriter, ConnTypeOK
    <2>4. CASE PongMissed
      BY <1>0, <2>4 DEF PongMissed, Fails, OnlyWriter, ConnTypeOK
    <2>5. CASE \E l \in Loops : LoopEnds(l)
      BY <1>0, <2>5 DEF LoopEnds, Fails, OnlyWriter, ConnTypeOK
    <2> QED
      BY <2>1, <2>2, <2>3, <2>4, <2>5
  <1>3. WritersInv' /\ w' \in [Writers -> Writer]
    BY <1>0, <1>1, <1>2, LoopMoves, Zenon
  <1>4. ConnTypeOK'
    BY <1>0, <1>2, <1>3 DEF ConnTypeOK
  <1>5. Keys'
    BY <1>0, <1>2 DEF ReaderInv, Keys
  <1>6. AckedOrLost' /\ AckTaken'
    BY <1>0, <1>2, Zenon DEF ReaderInv, AckedOrLost, AckTaken
  <1> QED
    BY <1>3, <1>4, <1>5, <1>6, Zenon DEF ConnInv, ReaderInv

\* The reader moves: it has not ended, and the key changes under no frame.
LEMMA ReaderMoves ==
  ASSUME ConnTypeOK, WritersInv, UNCHANGED <<pfs, w, run, open, closer, binds>>,
         reader = "done" => reader' = "done",
         reader' = "exchange" => Shared = {},
         key' = key \/ Shared = {}
  PROVE  WritersInv'
  <1>1. NoStaleFrame'
    BY Zenon DEF WritersInv, NoStaleFrame, Shared
  <1>2. Locked'
    BY Zenon DEF WritersInv, Locked, Shared, Sending
  <1>3. Attempts' /\ AttemptLeft' /\ ClosedLast' /\ ClosedByCloser'
    BY DEF WritersInv, Attempts, AttemptLeft, ClosedLast, InDo, ClosedByCloser
  <1>4. ReturnedLast' /\ BindFirst'
    BY Zenon DEF WritersInv, ReturnedLast, GroupEnded, Ended, BindFirst
  <1> QED
    BY <1>1, <1>2, <1>3, <1>4, Zenon DEF WritersInv

\* readLoop without its messages: the loop's top, the errors and the key
\* exchange, which is entered without PFS only and with no frame on its way.
LEMMA ReadLoopKeeps ==
  ASSUME ConnInv,
         \/ Top \/ RecvFails \/ AuthKeyNotFound \/ LockExchange
         \/ CreateAuthKey \/ ExchangeFails \/ ReadLoopEnds
  PROVE  ConnInv'
  <1>0. /\ ConnTypeOK /\ WritersInv /\ ReaderInv /\ OnlyReader
        /\ UNCHANGED <<w, run, open, closer, binds, h, halt>>
        /\ UNCHANGED <<pfs, peer, buf, acked, unacked, pings, forgets>>
    BY Zenon DEF ConnInv, OnlyReader, Top, RecvFails, AuthKeyNotFound, LockExchange, CreateAuthKey,
           ExchangeFails, ReadLoopEnds
  <1>1. /\ reader # "done" /\ ctx' \in {ctx, "done"}
        /\ reader' \in {"recv", "top", "lock", "exchange", "wait", "done"}
    BY DEF OnlyReader, Top, RecvFails, AuthKeyNotFound, LockExchange, CreateAuthKey,
           ExchangeFails, ReadLoopEnds
  <1>2. missing' \in Nat
    <2>1. CASE AuthKeyNotFound
      BY <1>0, <2>1 DEF AuthKeyNotFound, ConnTypeOK
    <2>2. CASE ~AuthKeyNotFound
      BY <1>0, <2>2, Zenon DEF OnlyReader, Top, RecvFails, LockExchange, CreateAuthKey,
           ExchangeFails, ReadLoopEnds, ConnTypeOK
    <2> QED
      BY <2>1, <2>2, Zenon
  <1>3. \/ UNCHANGED <<key, srvKey>>
        \/ reader = "exchange" /\ key' = key + 1 /\ srvKey' = key'
    BY Zenon DEF Top, RecvFails, AuthKeyNotFound, LockExchange, CreateAuthKey,
           ExchangeFails, ReadLoopEnds
  <1>4. /\ reader' = "exchange" => reader = "lock" /\ Shared = {}
        /\ reader' = "lock" => ~pfs
    BY DEF Top, RecvFails, AuthKeyNotFound, LockExchange, CreateAuthKey,
           ExchangeFails, ReadLoopEnds
  <1>5. WritersInv'
    <2>1. reader = "exchange" => Shared = {}
      BY <1>0, Zenon DEF WritersInv, Locked
    <2> QED
      BY <1>0, <1>1, <1>3, <1>4, <2>1, ReaderMoves, Zenon
  <1>6. key \in Nat /\ srvKey \in Nat
    BY <1>0, Zenon DEF ConnTypeOK
  <1>7. key' \in Nat /\ srvKey' \in Nat /\ (key' = key \/ key' # 0)
    BY <1>3, <1>6
  <1>8. ConnTypeOK'
    BY <1>0, <1>1, <1>2, <1>7 DEF ConnTypeOK
  <1>9. Keys'
    BY <1>0, <1>3, <1>4, <1>7, Zenon DEF ReaderInv, Keys
  <1> QED
    BY <1>0, <1>5, <1>8, <1>9, Zenon DEF ConnInv, ReaderInv, AckedOrLost, AckTaken

\* A message is received, and its goroutine consumes it.
LEMMA MessageKeeps ==
  ASSUME ConnInv, NEW m \in Messages, Receive(m) \/ Consume(m) \/ ConsumeEnds(m)
  PROVE  ConnInv'
  <1>0. /\ ConnTypeOK /\ WritersInv /\ ReaderInv /\ OnlyReader
        /\ UNCHANGED <<w, run, open, closer, binds>>
        /\ UNCHANGED <<pfs, peer, buf, acked, unacked, pings, forgets, ctx, key, srvKey, missing>>
        /\ h[m].pc \in {"server", "consume", "ack"}
    BY DEF ConnInv, OnlyReader, Receive, Consume, ConsumeEnds
  <1>1. /\ reader' = reader \/ (reader = "recv" /\ reader' = "top")
        /\ halt' \in BOOLEAN
    <2>1. halt \in BOOLEAN
      BY <1>0, Zenon DEF ConnTypeOK
    <2>2. CASE Receive(m)
      BY <2>1, <2>2, Zenon DEF Receive
    <2>3. CASE Consume(m)
      BY <2>1, <2>3 DEF Consume
    <2>4. CASE ConsumeEnds(m)
      BY <2>4, Zenon DEF ConsumeEnds
    <2> QED
      BY <2>2, <2>3, <2>4, Zenon
  <1>2. WritersInv'
    <2>1. reader' = "exchange" => Shared = {}
      BY <1>0, <1>1, Zenon DEF WritersInv, Locked
    <2> QED
      BY <1>0, <1>1, <2>1, ReaderMoves, Zenon
  <1>3. /\ h' \in [Messages -> [pc : {"server", "consume", "ack", "done"}, key : Nat]]
        /\ \A n \in Messages \ {m} : h'[n] = h[n]
    <2>1. h \in [Messages -> [pc : {"server", "consume", "ack", "done"}, key : Nat]]
      BY <1>0, Zenon DEF ConnTypeOK
    <2>2. \E g \in [pc : {"server", "consume", "ack", "done"}, key : Nat] :
            h' = [h EXCEPT ![m] = g]
      <3>1. CASE Receive(m)
        BY <1>0, <3>1 DEF Receive, ConnTypeOK
      <3>2. CASE Consume(m)
        BY <3>2 DEF Consume
      <3>3. CASE ConsumeEnds(m)
        BY <2>1, <3>3 DEF ConsumeEnds
      <3> QED
        BY <3>1, <3>2, <3>3, Zenon
    <2> QED
      BY <2>1, <2>2
  <1>4. ConnTypeOK'
    BY <1>0, <1>1, <1>3 DEF ConnTypeOK
  <1>5. Keys'
    BY <1>0, <1>1, Zenon DEF ReaderInv, Keys
  <1>6. AckedOrLost' /\ AckTaken'
    BY <1>0, <1>3, Zenon DEF ReaderInv, AckedOrLost, AckTaken, ConnTypeOK
  <1> QED
    BY <1>2, <1>4, <1>5, <1>6, Zenon DEF ConnInv, ReaderInv

\* bindTempAuthKey has returned: the loops start, or Run returns its error.
LEMMA BindReturnsKeeps ==
  ASSUME ConnInv, BindReturns
  PROVE  ConnInv'
  <1>0. /\ ConnTypeOK /\ WritersInv /\ ReaderInv /\ w[Bind].pc \in {"ok", "failed"}
        /\ UNCHANGED <<open, key, reader, closer, binds>>
        /\ UNCHANGED <<pfs, peer, srvKey, missing, halt, h, buf, acked, unacked, pings, forgets>>
    BY Zenon DEF ConnInv, BindReturns
  <1>1. CASE w[Bind].pc = "ok"
    <2>1. /\ run' = "group" /\ ctx' = ctx /\ w \in [Writers -> Writer]
          /\ w' = [x \in Writers |-> IF x \in Loops THEN [w[x] EXCEPT !.pc = "idle"] ELSE w[x]]
      BY <1>0, <1>1 DEF BindReturns, ConnTypeOK
    <2>2. /\ w' \in [Writers -> Writer]
          /\ \A x \in Loops : w'[x].pc = "idle"
          /\ \A x \in Callers : w'[x] = w[x]
      BY <2>1, WritersAre DEF Writer, Pcs
    <2>3. Writers = Callers \cup Loops
      BY Zenon DEF Writers
    <2>4. NoStaleFrame' /\ Locked'
      <3>1. /\ Shared' \subseteq Shared /\ Sending' \subseteq Sending
            /\ \A x \in Shared' : w'[x] = w[x]
        BY <2>2, <2>3 DEF Shared, Sending
      <3> QED
        BY <1>0, <3>1, Zenon DEF WritersInv, NoStaleFrame, Locked
    <2>5. Attempts' /\ AttemptLeft' /\ ClosedLast' /\ ClosedByCloser'
      BY <1>0, <2>2, WritersAre, Zenon DEF WritersInv, Attempts, AttemptLeft, ClosedLast, InDo,
                                    ClosedByCloser
    <2>6. ReturnedLast' /\ BindFirst'
      BY <1>0, <1>1, <2>1, <2>2, WritersAre, Zenon DEF WritersInv, ReturnedLast, BindFirst
    <2>7. ConnTypeOK'
      BY <1>0, <2>1, <2>2 DEF ConnTypeOK
    <2>8. ReaderInv'
      BY <1>0, <2>1, Zenon DEF ReaderInv, Keys, AckedOrLost, AckTaken
    <2> QED
      BY <2>4, <2>5, <2>6, <2>7, <2>8, Zenon DEF ConnInv, WritersInv
  <1>2. CASE w[Bind].pc = "failed"
    <2>1. run' = "returned" /\ ctx' = "done" /\ w' = w
      BY <1>0, <1>2, Zenon DEF BindReturns
    <2>2. WritersInv'
      BY <1>0, <1>2, <2>1, Zenon DEF WritersInv, NoStaleFrame, Locked, Shared, Sending, Attempts,
                        AttemptLeft, ClosedLast, InDo, ClosedByCloser, ReturnedLast, BindFirst
    <2>3. ConnTypeOK'
      BY <1>0, <2>1 DEF ConnTypeOK
    <2>4. ReaderInv'
      BY <1>0, <2>1, Zenon DEF ReaderInv, Keys, AckedOrLost, AckTaken
    <2> QED
      BY <2>2, <2>3, <2>4, Zenon DEF ConnInv
  <1> QED
    BY <1>0, <1>1, <1>2, Zenon

\* Run returns, handleClose does its two steps, and what comes from outside: no
\* writer moves.
LEMMA OuterKeeps ==
  ASSUME ConnInv,
         \/ RunReturns \/ ForceClose \/ CloseTransport \/ KernelGivesUp
         \/ Stop \/ ServerForgets \/ \E how \in {"silent", "gone"} : Disconnect(how)
  PROVE  ConnInv'
  <1>0. /\ ConnTypeOK /\ WritersInv /\ ReaderInv
        /\ UNCHANGED <<pfs, key, missing, w, reader, halt, h, buf, acked, unacked, binds, pings>>
    BY Zenon DEF ConnInv, RunReturns, ForceClose, CloseTransport, KernelGivesUp, Stop, ServerForgets,
           Disconnect
  <1>1. /\ run' = run \/ (run' = "returned" /\ GroupEnded)
        /\ \/ UNCHANGED <<open, closer>>
           \/ closer = "wait" /\ closer' = "force" /\ UNCHANGED open
           \/ closer = "force" /\ closer' = "done" /\ open' = FALSE /\ InDo = {}
        /\ peer' \in {peer, "silent", "gone"} /\ ctx' \in {ctx, "done"} /\ srvKey' \in {0, srvKey}
        /\ run' = run \/ UNCHANGED closer
    BY Zenon DEF RunReturns, ForceClose, CloseTransport, KernelGivesUp, Stop, ServerForgets, Disconnect
  <1>2. forgets' \in Nat
    <2>1. forgets \in Nat
      BY <1>0, Zenon DEF ConnTypeOK
    <2>2. forgets' = forgets \/ forgets' = forgets + 1
      BY Zenon DEF RunReturns, ForceClose, CloseTransport, KernelGivesUp, Stop, ServerForgets,
                   Disconnect
    <2> QED
      BY <2>1, <2>2
  <1>3. NoStaleFrame' /\ Locked' /\ Attempts' /\ AttemptLeft' /\ BindFirst'
    BY <1>0, Zenon DEF WritersInv, NoStaleFrame, Locked, Shared, Sending, Attempts, AttemptLeft,
                       BindFirst
  <1>4. ClosedLast' /\ ClosedByCloser'
    BY <1>0, <1>1 DEF WritersInv, ClosedLast, InDo, ClosedByCloser
  <1>5. ReturnedLast'
    BY <1>0, <1>1 DEF WritersInv, ReturnedLast, GroupEnded, Ended
  <1>6. ConnTypeOK'
    <2>1. open' \in BOOLEAN /\ pfs' \in BOOLEAN /\ halt' \in BOOLEAN
      BY <1>0, <1>1, Zenon DEF ConnTypeOK
    <2>2. /\ run' \in {"bind", "group", "returned"} /\ ctx' \in {"live", "done"}
          /\ peer' \in {"up", "silent", "gone"} /\ closer' \in {"wait", "force", "done"}
      BY <1>0, <1>1, Zenon DEF ConnTypeOK
    <2>3. srvKey' \in Nat
      BY <1>0, <1>1 DEF ConnTypeOK
    <2> QED
      BY <1>0, <1>2, <2>1, <2>2, <2>3, Zenon DEF ConnTypeOK
  <1>7. ReaderInv'
    BY <1>0, <1>1 DEF ReaderInv, Keys, AckedOrLost, AckTaken
  <1> QED
    BY <1>3, <1>4, <1>5, <1>6, <1>7, Zenon DEF ConnInv, WritersInv
-----------------------------------------------------------------------------
\* A connection that starts: nobody writes, nothing is acknowledged.
LEMMA InitConnInv ==
  ASSUME Init
  PROVE  ConnInv
  <1>1. /\ w \in [Writers -> Writer] /\ \A x \in Writers : w[x].pc \in {"off", "idle"}
        /\ \A x \in Writers : w[x].retries = 0
    BY DEF Init, Writer, Pcs
  <1>2. ConnTypeOK
    <2>1. pfs \in BOOLEAN /\ open \in BOOLEAN /\ halt \in BOOLEAN
      BY Zenon DEF Init
    <2>2. /\ run \in {"bind", "group", "returned"} /\ ctx \in {"live", "done"}
          /\ peer \in {"up", "silent", "gone"} /\ closer \in {"wait", "force", "done"}
          /\ reader \in {"recv", "top", "lock", "exchange", "wait", "done"}
          /\ h \in [Messages -> [pc : {"server", "consume", "ack", "done"}, key : Nat]]
          /\ key \in Nat /\ srvKey \in Nat /\ missing \in Nat
          /\ binds \in Nat /\ pings \in Nat /\ forgets \in Nat
      BY DEF Init
    <2>3. buf \subseteq Messages /\ acked \subseteq Messages /\ unacked \subseteq Messages
      BY Zenon DEF Init
    <2> QED
      BY <1>1, <2>1, <2>2, <2>3, Zenon DEF ConnTypeOK
  <1>3. NoStaleFrame /\ Locked /\ ClosedLast /\ ClosedByCloser /\ ReturnedLast
    BY <1>1, WritersAre, Zenon DEF Init, NoStaleFrame, Locked, Shared, Sending, ClosedLast, InDo,
                            ClosedByCloser, ReturnedLast
  <1>4. Attempts /\ AttemptLeft
    BY <1>1, WritersAre, Constants DEF Init, Attempts, AttemptLeft
  <1>5. BindFirst
    BY WritersAre, Constants DEF Init, BindFirst, Bind, Writers, Callers, Loops
  <1>6. ReaderInv
    BY DEF Init, ReaderInv, Keys, AckedOrLost, AckTaken
  <1> QED
    BY <1>2, <1>3, <1>4, <1>5, <1>6, Zenon DEF ConnInv, WritersInv

\* Every step of the run keeps the invariant.
LEMMA StepConnInv ==
  ASSUME ConnInv, [Next]_vars
  PROVE  ConnInv'
  <1>1. CASE UNCHANGED vars
    <2>1. ConnTypeOK'
      BY <1>1 DEF vars, ConnInv, ConnTypeOK
    <2>2. WritersInv'
      BY <1>1, Zenon DEF vars, ConnInv, WritersInv, NoStaleFrame, Locked, Shared, Sending, Attempts,
                  AttemptLeft, ClosedLast, InDo, ClosedByCloser, ReturnedLast, GroupEnded, Ended,
                  BindFirst
    <2>3. ReaderInv'
      BY <1>1, Zenon DEF vars, ConnInv, ReaderInv, Keys, AckedOrLost, AckTaken
    <2> QED
      BY <2>1, <2>2, <2>3, Zenon DEF ConnInv
  <1>2. CASE Stimulus
    BY <1>2, WritersAre, OuterKeeps, CallKeeps, MessageKeeps, BindKeeps, Zenon DEF Stimulus
  <1>3. CASE SystemStep
    BY <1>3, WritersAre, WriteKeeps, SendKeeps, CallKeeps, TakeAckKeeps, MessageKeeps, LoopKeeps,
       ReadLoopKeeps, BindReturnsKeeps, OuterKeeps, Zenon DEF SystemStep
  <1> QED
    BY <1>1, <1>2, <1>3, Zenon DEF Next

\* The invariant holds in every reachable state.
LEMMA AlwaysConnInv == Spec => []ConnInv
  BY InitConnInv, StepConnInv, PTL DEF Spec

\* A frame waiting for the transport or being sent is encrypted with the key the
\* connection has now (write, createAuthKey: exchangeLock).
THEOREM FramesCarryTheKey == Spec => []NoStaleFrame
  <1>1. ConnInv => NoStaleFrame
    BY Zenon DEF ConnInv, WritersInv
  <1> QED
    BY <1>1, AlwaysConnInv, PTL

\* Two frames are never written at a time, and none is encrypted, waiting or being
\* written during a key exchange (write: writeMux and exchangeLock).
THEOREM LocksHold == Spec => []Locked
  <1>1. ConnInv => Locked
    BY Zenon DEF ConnInv, WritersInv
  <1> QED
    BY <1>1, AlwaysConnInv, PTL

\* Only CreateAuthKey and a failing bind change the key, and only ackLoop what is acknowledged.
LEMMA WhoChanges ==
  ASSUME Next
  PROVE  /\ key' = key \/ CreateAuthKey \/ BindDropsKeys
         /\ \/ UNCHANGED <<buf, acked, unacked>>
            \/ \E m \in Messages : TakeAck(m)
            \/ \E x \in Writers : Sent(x) \/ SendFails(x)
  <1> DEFINE Quiet == key' = key /\ UNCHANGED <<buf, acked, unacked>>
  <1>1. CASE Stimulus
    BY <1>1, Zenon DEF Stimulus, Stop, ServerForgets, Disconnect, Do, Receive, Acknowledge, Answer,
                BindError, BindDropsKeys, OnlyWriter, OnlyReader
  <1>2. ASSUME NEW x \in Writers, Sent(x) \/ SendFails(x) PROVE key' = key
    BY <1>2, Zenon DEF Sent, SendFails
  <1>3. ASSUME NEW x \in Writers, Encrypt(x) \/ LockWrite(x) PROVE Quiet
    BY <1>3, Zenon DEF Encrypt, LockWrite, OnlyWriter
  <1>4. ASSUME NEW c \in Callers, Do(c) \/ RetryTimer(c) \/ Abort(c) PROVE Quiet
    BY <1>4 DEF Do, RetryTimer, Abort, OnlyWriter
  <1>5. ASSUME NEW m \in Messages, TakeAck(m) PROVE key' = key
    BY <1>5 DEF TakeAck
  <1>6. ASSUME NEW m \in Messages, Consume(m) \/ ConsumeEnds(m) PROVE Quiet
    BY <1>6, Zenon DEF Consume, ConsumeEnds, OnlyReader
  <1>7. ASSUME AckTicker \/ PingTicker \/ Pong \/ PongMissed \/ \E x \in Loops : LoopEnds(x)
        PROVE  Quiet
    BY <1>7, Zenon DEF AckTicker, PingTicker, Pong, PongMissed, LoopEnds, OnlyWriter
  <1>8. ASSUME \/ Top \/ RecvFails \/ AuthKeyNotFound \/ LockExchange \/ ExchangeFails
               \/ ReadLoopEnds
        PROVE  Quiet
    BY <1>8, Zenon DEF Top, RecvFails, AuthKeyNotFound, LockExchange, ExchangeFails, ReadLoopEnds,
                OnlyReader
  <1>9. CreateAuthKey => UNCHANGED <<buf, acked, unacked>>
    BY DEF CreateAuthKey, OnlyReader
  <1>10. ASSUME BindReturns \/ RunReturns \/ ForceClose \/ CloseTransport \/ KernelGivesUp
         PROVE  Quiet
    BY <1>10, Zenon DEF BindReturns, RunReturns, ForceClose, CloseTransport, KernelGivesUp
  <1> HIDE DEF Quiet
  <1>11. Quiet => key' = key /\ UNCHANGED <<buf, acked, unacked>>
    BY Zenon DEF Quiet
  <1> QED
    BY <1>1, <1>2, <1>3, <1>4, <1>5, <1>6, <1>7, <1>8, <1>9, <1>10, <1>11, WritersAre, Zenon
       DEF Next, SystemStep

\* The key changes with no frame between its encryption and the end of its Send:
\* without PFS it is replaced by the next one in a live run, with PFS it is
\* dropped by a bind that fails, before any loop has started.
KeyReplaced ==
  key' # key =>
    /\ Shared = {}
    /\ \/ ~pfs /\ ctx = "live" /\ key' = key + 1
       \/ pfs /\ key' = 0 /\ w'[Bind].pc = "failed" /\ \A x \in Loops : w'[x].pc = "off"

\* No step changes the key in any other way: exchangeLock keeps the writers from
\* an exchange; dropPFSKeys does not take it, and comes before there are others
\* (createAuthKey; bindTempAuthKey, dropPFSKeys).
THEOREM KeyReplacedAlone == Spec => [][KeyReplaced]_vars
  <1>1. ASSUME ConnInv, ConnInv', [Next]_vars PROVE KeyReplaced
    <2>1. CASE CreateAuthKey
      BY <1>1, <2>1, Zenon DEF CreateAuthKey, KeyReplaced, ConnInv, WritersInv, Locked, ReaderInv, Keys
    <2>2. CASE BindDropsKeys
      <3>1. w[Bind].pc \in {"wait", "acked"} /\ key' = 0 /\ w' = At(Bind, "failed")
        BY <2>2, Zenon DEF BindDropsKeys
      <3>2. pfs /\ Shared = {}
        BY <1>1, <3>1, Zenon DEF ConnInv, WritersInv, BindFirst, Shared, Writers, Callers
      <3>3. w'[Bind].pc = "failed"
        BY <1>1, <3>1, AtIs, WritersAre DEF ConnInv, ConnTypeOK, Pcs
      <3>4. \A x \in Loops : w'[x].pc = "off"
        BY <1>1, <3>3, Zenon DEF ConnInv, WritersInv, BindFirst
      <3> QED
        BY <3>1, <3>2, <3>3, <3>4, Zenon DEF KeyReplaced
    <2>3. CASE key' = key
      BY <2>3, Zenon DEF KeyReplaced
    <2> QED
      BY <1>1, <2>1, <2>2, <2>3, WhoChanges, Zenon DEF vars
  <1> QED
    BY <1>1, AlwaysConnInv, PTL DEF Spec

\* With PFS nothing but the bind is written before the temporary key is bound
\* (Run: bindTempAuthKey before the loops and the user callback are started).
THEOREM BoundBeforeUse == Spec => []BindFirst
  <1>1. ConnInv => BindFirst
    BY DEF ConnInv, WritersInv
  <1> QED
    BY <1>1, AlwaysConnInv, PTL

\* One Do writes its request at most MaxRetries times more, also when the key is
\* replaced meanwhile, and the temporary key is bound in at most MaxBind attempts
\* (retryUntilAck, bindTempAuthKey).
THEOREM AttemptsBounded == Spec => []Attempts
  <1>1. ConnInv => Attempts
    BY DEF ConnInv, WritersInv
  <1> QED
    BY <1>1, AlwaysConnInv, PTL

\* Once the transport is closed no call is inside Do, and none enters it
\* (handleClose: ForceClose before conn.Close).
THEOREM TransportClosedLast == Spec => []ClosedLast
  <1>1. ConnInv => ClosedLast
    BY DEF ConnInv, WritersInv
  <1> QED
    BY <1>1, AlwaysConnInv, PTL

\* "All goroutines are bound to current call" (Run): true of every run that did
\* not fail to bind its temporary key.
THEOREM RunReturnsLast == Spec => []ReturnedLast
  <1>1. ConnInv => ReturnedLast
    BY DEF ConnInv, WritersInv
  <1> QED
    BY <1>1, AlwaysConnInv, PTL

\* A message ackLoop has taken stays in its buffer until it is acknowledged or
\* given up; then that is final, and it is not taken again.
AckSettled ==
  /\ acked \subseteq acked' /\ unacked \subseteq unacked'
  /\ buf \subseteq buf' \cup acked' \cup unacked'
  /\ buf' \cap (acked \cup unacked) = {}
  /\ acked' \cap unacked' = {}

\* Every acknowledgement is settled once (ackLoop).
THEOREM AckedOnceOnly == Spec => [][AckSettled]_vars
  <1>1. ASSUME ConnInv, ConnInv', [Next]_vars PROVE AckSettled
    <2>1. \/ UNCHANGED <<buf, acked, unacked>>
          \/ \E m \in Messages : TakeAck(m)
          \/ \E x \in Writers : Sent(x) \/ SendFails(x)
      BY <1>1, WhoChanges DEF vars
    <2>2. \/ UNCHANGED <<acked, unacked>> /\ buf \subseteq buf'
          \/ acked' = acked \cup buf /\ UNCHANGED unacked
          \/ unacked' = unacked \cup buf /\ UNCHANGED acked
      <3>1. ASSUME NEW x \in Writers, SendFails(x)
            PROVE  \/ UNCHANGED <<acked, unacked, buf>>
                   \/ unacked' = unacked \cup buf /\ UNCHANGED acked
        <4>1. CASE x \in Callers
          BY <3>1, <4>1 DEF SendFails
        <4>2. CASE x = "ackLoop"
          BY <3>1, <4>2, WritersAre DEF SendFails
        <4>3. CASE x \notin Callers /\ x # "ackLoop"
          BY <3>1, <4>3, Zenon DEF SendFails
        <4> QED
          BY <4>1, <4>2, <4>3, Zenon
      <3> QED
        BY <2>1, <3>1, Zenon DEF TakeAck, Sent
    <2>3. buf' \cap (acked' \cup unacked') = {} /\ acked' \cap unacked' = {}
      BY <1>1 DEF ConnInv, ReaderInv, AckedOrLost
    <2> QED
      BY <2>2, <2>3, Zenon DEF AckSettled
  <1> QED
    BY <1>1, AlwaysConnInv, PTL DEF Spec
=============================================================================
