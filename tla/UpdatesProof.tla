---------------------------- MODULE UpdatesProof ----------------------------
(***************************************************************************)
(* The two stored counters of the updates manager implement AtLeastOnce,   *)
(* for every log, queue length and number of failures.  A message is       *)
(* accounted for once it was handed over, given up on or, in a channel of  *)
(* which the storage may forget the position, skipped.  The storage is     *)
(* always behind some position up to which the goroutines have accounted   *)
(* for every message: their box, the position they are about to save, or   *)
(* the end of a difference whose messages are handed over.                 *)
(***************************************************************************)
EXTENDS Updates, FiniteSetTheorems, WellFoundedInduction, TLAPS

\* Every message of the log up to n is accounted for.
To(log, n, acc) == \A p \in Of(log, "message") : p <= n => p \in acc

Boxes(log) == [state : Nat, gaps : SUBSET Int, pending : SUBSET (DOMAIN log)]

Diffs(log) ==
  [others : SUBSET (DOMAIN log), msgs : SUBSET (DOMAIN log), to : Nat, final : BOOLEAN]

Mains ==
  [pc : {"off", "idle", "push", "rpc", "others", "state"}, box : Boxes(CommonLog),
   save : Nat \cup {None}, todo : SUBSET (DOMAIN ChannelLog), diff : Diffs(CommonLog),
   changed : BOOLEAN, outer : Seq(Diffs(CommonLog))]

Works ==
  [pc : {"off", "idle", "wait", "rpc", "out", "give", "store"}, box : Boxes(ChannelLog),
   save : Nat \cup {None}, diff : Diffs(ChannelLog), wait : BOOLEAN]

\* The state goroutine, when acc is accounted for: so is all before its box, before
\* what it is about to save, and before the end of a difference but for the messages
\* still in it, that of the outer one while another is nested in it included.
MainOK(m, acc) ==
  /\ m \in Mains
  /\ To(CommonLog, m.box.state, acc)
  /\ To(CommonLog, m.save, acc)
  /\ m.pc = "others" => To(CommonLog, m.diff.to, acc \cup m.diff.msgs)
  /\ m.pc = "state" => To(CommonLog, m.diff.to, acc)
  /\ m.outer # << >> => To(CommonLog, m.outer[1].to, acc \cup m.outer[1].msgs)

\* The same for the channel's worker.
WorkOK(w, acc) ==
  /\ w \in Works
  /\ To(ChannelLog, w.box.state, acc)
  /\ To(ChannelLog, w.save, acc)
  /\ w.pc \in {"out", "give"} => To(ChannelLog, w.diff.to, acc \cup w.diff.msgs)
  /\ w.pc = "store" => To(ChannelLog, w.diff.to, acc)

TypeOK ==
  /\ pub \in [pts : Nat, ch : Nat]
  /\ store \in [pts : Nat, ch : Nat \cup {None}, known : BOOLEAN]
  /\ given \in [pts : SUBSET (DOMAIN CommonLog), ch : SUBSET (DOMAIN ChannelLog)]
  /\ lost \in [pts : SUBSET Of(CommonLog, "message"), ch : SUBSET Of(ChannelLog, "message"),
               silent : SUBSET Of(ChannelLog, "message")]
  /\ queue \in Seq(DOMAIN ChannelLog)
  /\ out \in Seq(SUBSET (DOMAIN ChannelLog))

\* The storage is never ahead of what is accounted for.
CommonGood ==
  MainOK(main, given.pts \cup lost.pts) /\ To(CommonLog, store.pts, given.pts \cup lost.pts)

\* What is accounted for in the channel.
ChAcc == given.ch \cup lost.ch \cup lost.silent

ChannelGood ==
  WorkOK(work, ChAcc) /\ To(ChannelLog, store.ch, ChAcc)

\* A storage that does not forget the channel has it once it was stored.
Kept == store.known /\ ~Wipes => store.ch # None

IInv == TypeOK /\ CommonGood /\ ChannelGood /\ Kept
-----------------------------------------------------------------------------
\* A set of natural numbers that is not empty has a least element.
LEMMA LeastNat ==
  ASSUME NEW S, S \subseteq Nat, S # {}
  PROVE  \E m \in S : \A k \in S : m <= k
  <1> DEFINE R == OpToRel(<, Nat)
  <1>1. IsWellFoundedOn(R, Nat)
    BY NatLessThanWellFounded, Zenon
  <1> HIDE DEF R
  <1>2. \E x \in S : \A y \in S : ~ (<<y, x>> \in R)
    BY <1>1, WFMin, Zenon
  <1>3. PICK x \in S : \A y \in S : ~ (<<y, x>> \in R)
    BY <1>2
  <1>4. \A y \in S : ~ (y < x)
    BY <1>3, Zenon DEF R, OpToRel
  <1> QED
    BY <1>3, <1>4

\* The positions of a log are the numbers from one to its length.
LEMMA Positions ==
  /\ DOMAIN CommonLog = 1 .. Len(CommonLog) /\ Len(CommonLog) \in Nat
  /\ DOMAIN ChannelLog = 1 .. Len(ChannelLog) /\ Len(ChannelLog) \in Nat
  BY Constants

\* applyPending applies what is pending next to the state: as many positions
\* as it has updates, without a hole.
LEMMA ReadyIs ==
  ASSUME NEW L \in Nat, NEW b \in [state : Nat, gaps : SUBSET Int, pending : SUBSET (1 .. L)]
  PROVE  /\ Ready(b) \subseteq 1 .. L
         /\ b.state + Cardinality(Ready(b)) \in Nat
         /\ \A p \in Nat : b.state < p /\ p <= b.state + Cardinality(Ready(b)) => p \in Ready(b)
  <1> DEFINE s == b.state
             R == Ready(b)
             Rest == {n \in Nat : n > s /\ n \notin R}
  <1>1. s \in Nat /\ R \subseteq 1 .. L
    BY DEF Ready
  <1>2. s + L + 1 \in Rest
    BY <1>1
  <1>3. PICK m \in Rest : \A k \in Rest : m <= k
    BY <1>2, LeastNat, Zenon
  <1>4. \A p \in Nat : s < p /\ p < m => p \in R
    BY <1>3
  <1>5. \A p \in R : s < p /\ p < m
    <2>1. SUFFICES ASSUME NEW p \in R, m <= p PROVE FALSE
      BY <1>1, <1>3 DEF Ready
    <2>2. s + 1 .. p \subseteq b.pending /\ p \in Nat
      BY <1>1 DEF Ready
    <2>3. m \in b.pending /\ s + 1 .. m \subseteq b.pending
      BY <1>1, <1>3, <2>1, <2>2
    <2> QED
      BY <1>3, <2>3 DEF Ready
  <1>6. R = s + 1 .. m - 1
    <2>1. m \in Nat
      BY <1>3
    <2> HIDE DEF R, s
    <2>2. \A p \in R : p \in s + 1 .. m - 1
      BY <1>1, <1>5, <2>1
    <2>3. \A p \in s + 1 .. m - 1 : p \in R
      BY <1>1, <1>4, <2>1
    <2> QED
      BY <2>2, <2>3, Zenon
  <1>7. Cardinality(R) = m - 1 - s
    <2>1. m \in Nat /\ s + 1 \in Int /\ m - 1 \in Int /\ s + 1 <= m
      BY <1>1, <1>3
    <2>2. Cardinality(s + 1 .. m - 1)
            = IF s + 1 > m - 1 THEN 0 ELSE m - 1 - (s + 1) + 1
      BY <2>1, FS_Interval, Zenon
    <2> HIDE DEF R, s, Rest
    <2> QED
      BY <1>1, <1>6, <2>1, <2>2
  <1> QED
    BY <1>1, <1>3, <1>4, <1>7

\* What accounts for messages may grow.
LEMMA Grows ==
  ASSUME NEW log, NEW n, NEW acc, NEW more, acc \subseteq more, To(log, n, acc)
  PROVE  To(log, n, more)
  BY DEF To

\* Positions that are not stored, or before the first message, need no account.
LEMMA Nothing ==
  ASSUME NEW log \in Seq(Kinds), NEW acc
  PROVE  To(log, None, acc) /\ To(log, 0, acc)
  <1>1. \A p \in Of(log, "message") : p \in Nat \ {0}
    BY DEF Of
  <1> QED
    BY <1>1 DEF To, None

\* sequenceBox.Handle: what the box applies lies in the log, and accounts for the
\* messages the box moves past.
LEMMA HandleBox ==
  ASSUME NEW log \in Seq(Kinds), NEW b \in Boxes(log), NEW u \in DOMAIN log, NEW acc,
         To(log, b.state, acc)
  PROVE  /\ Handle(b, u) \in Boxes(log)
         /\ Applies(b, u) \subseteq DOMAIN log
         /\ To(log, Handle(b, u).state, acc \cup Applies(b, u))
  <1> DEFINE t == TakeIn(b, u)
             L == Len(log)
  <1>1. DOMAIN log = 1 .. L /\ L \in Nat /\ u \in 1 .. L
    OBVIOUS
  <1>2. b \in [state : Nat, gaps : SUBSET Int, pending : SUBSET (1 .. L)]
    BY <1>1 DEF Boxes
  <1>3. t \in [state : Nat, gaps : SUBSET Int, pending : SUBSET (1 .. L)] /\ t.state = b.state
    <2>1. CASE u <= b.state
      BY <1>2, <2>1 DEF TakeIn
    <2>2. CASE ~ (u <= b.state)
      <3> DEFINE g == IF b.gaps # {} THEN b.gaps \ {u} ELSE (b.state + 1 .. u - 1) \ b.pending
      <3>1. t = [b EXCEPT !.pending = b.pending \cup {u}, !.gaps = g]
        BY <2>2 DEF TakeIn
      <3>2. g \in SUBSET Int /\ b.pending \cup {u} \in SUBSET (1 .. L)
        BY <1>1, <1>2
      <3> HIDE DEF g, t
      <3> QED
        BY <1>2, <3>1, <3>2, Zenon
    <2> QED
      BY <2>1, <2>2
  <1> HIDE DEF t, L
  <1> DEFINE n == t.state + Cardinality(Ready(t))
  <1>4. Ready(t) \subseteq 1 .. L /\ n \in Nat /\ \A p \in Nat : b.state < p /\ p <= n => p \in Ready(t)
    BY <1>1, <1>3, ReadyIs
  <1>5. Applied(t) = [t EXCEPT !.state = n, !.pending = {p \in t.pending : p > n}]
    BY DEF Applied
  <1> HIDE DEF n
  <1>6. Applied(t) \in [state : Nat, gaps : SUBSET Int, pending : SUBSET (1 .. L)] /\ Applied(t).state = n
    BY <1>3, <1>4, <1>5, Zenon
  <1>7. CASE Applies(b, u) = {}
    BY <1>1, <1>3, <1>7 DEF Handle, t, Boxes
  <1>8. CASE Applies(b, u) # {}
    <2>1. Applies(b, u) = Ready(t) /\ Handle(b, u) = Applied(t)
      BY <1>8 DEF Applies, Handle, t
    <2>2. \A p \in Of(log, "message") : p \in Nat
      BY <1>1 DEF Of
    <2>3. To(log, n, acc \cup Ready(t))
      BY <1>2, <1>4, <2>2 DEF To
    <2> QED
      BY <1>1, <1>4, <1>6, <2>1, <2>3 DEF Boxes
  <1> QED
    BY <1>7, <1>8

\* The box, cleared or at a position that is accounted for.
LEMMA BoxFacts ==
  ASSUME NEW log, NEW b \in Boxes(log), NEW n \in Nat
  PROVE  /\ Clear(b) \in Boxes(log) /\ Clear(b).state = b.state
         /\ SetState(b, n) \in Boxes(log) /\ SetState(b, n).state = n
         /\ NewBox(n) \in Boxes(log) /\ NewBox(n).state = n
  BY DEF Boxes, Clear, SetState, NewBox

\* A difference holds the messages between the position it was asked for and its
\* end.
LEMMA DiffFacts ==
  ASSUME NEW log \in Seq(Kinds), NEW n \in Nat, NEW to \in Nat, NEW last, NEW acc,
         To(log, n, acc)
  PROVE  /\ DiffTo(log, n, to, last) \in Diffs(log)
         /\ To(log, DiffTo(log, n, to, last).to, acc \cup DiffTo(log, n, to, last).msgs)
         /\ NewDiff \in Diffs(log)
  <1>1. \A k : Of(log, k) \subseteq DOMAIN log
    BY DEF Of
  <1>2. \A p \in DOMAIN log : p \in Nat
    OBVIOUS
  <1>3. DiffTo(log, n, to, last) \in Diffs(log) /\ NewDiff \in Diffs(log)
    BY <1>1 DEF DiffTo, NewDiff, Diffs
  <1>4. DiffTo(log, n, to, last).to = to
    BY DEF DiffTo
  <1>5. DiffTo(log, n, to, last).msgs = Of(log, "message") \cap (n + 1 .. to)
    BY DEF DiffTo
  <1>6. To(log, to, acc \cup (Of(log, "message") \cap (n + 1 .. to)))
    BY <1>1, <1>2 DEF To
  <1> QED
    BY <1>3, <1>4, <1>5, <1>6

\* The fields of the state goroutine.
LEMMA MainFields ==
  ASSUME NEW m \in Mains
  PROVE  /\ m.box \in Boxes(CommonLog) /\ m.box.state \in Nat /\ m.save \in Nat \cup {None}
         /\ m.diff \in Diffs(CommonLog) /\ m.diff.to \in Nat
         /\ m.outer \in Seq(Diffs(CommonLog))
         /\ m.outer # << >> => m.outer[1] \in Diffs(CommonLog)
  <1>1. m.box \in Boxes(CommonLog) /\ m.save \in Nat \cup {None}
    BY DEF Mains
  <1>2. m.diff \in Diffs(CommonLog) /\ m.outer \in Seq(Diffs(CommonLog))
    BY DEF Mains
  <1>3. m.box.state \in Nat
    BY <1>1 DEF Boxes
  <1>4. m.diff.to \in Nat
    BY <1>2 DEF Diffs
  <1>5. m.outer # << >> => m.outer[1] \in Diffs(CommonLog)
    BY <1>2
  <1> QED
    BY <1>1, <1>2, <1>3, <1>4, <1>5

\* The goroutine stays as it is when more is accounted for.
LEMMA MainGrows ==
  ASSUME NEW m, NEW acc, NEW more, acc \subseteq more, MainOK(m, acc)
  PROVE  MainOK(m, more)
  <1>1. \A s : acc \cup s \subseteq more \cup s
    OBVIOUS
  <1> QED
    BY <1>1, Grows DEF MainOK

\* A goroutine that starts, or is off, owes nothing but its position.
LEMMA MainStarts ==
  ASSUME NEW acc, NEW n \in Nat, To(CommonLog, n, acc)
  PROVE  MainOK(NewMain(n), acc) /\ MainOK(MainOff, acc)
  <1>1. NewDiff \in Diffs(CommonLog) /\ << >> \in Seq(Diffs(CommonLog))
    BY DEF NewDiff, Diffs
  <1>2. \A k \in Nat : NewBox(k) \in Boxes(CommonLog) /\ NewBox(k).state = k
    BY DEF NewBox, Boxes
  <1>3. To(CommonLog, None, acc) /\ To(CommonLog, 0, acc)
    BY Constants, Nothing
  <1>4. ASSUME NEW k \in Nat, To(CommonLog, k, acc),
               NEW m \in {NewMain(k), [NewMain(k) EXCEPT !.pc = "off"]}
        PROVE  MainOK(m, acc)
    <2>1. m \in Mains
      <3>1. NewMain(k) \in Mains
        BY <1>1, <1>2 DEF NewMain, Mains, None
      <3>2. [NewMain(k) EXCEPT !.pc = "off"] \in Mains
        BY <3>1 DEF Mains
      <3> QED
        BY <1>4, <3>1, <3>2
    <2>2. m.pc \in {"idle", "off"} /\ m.box = NewBox(k) /\ m.save = None /\ m.outer = << >>
      BY <1>4 DEF NewMain
    <2> QED
      BY <1>2, <1>3, <1>4, <2>1, <2>2 DEF MainOK
  <1> QED
    BY <1>3, <1>4, Zenon DEF MainOff

\* getDifference keeps the position of the box.
LEMMA MainAsks ==
  ASSUME NEW acc, NEW m, MainOK(m, acc)
  PROVE  MainOK(GetDifference(m), acc)
  <1> DEFINE g == GetDifference(m)
  <1>1. m \in Mains
    BY DEF MainOK
  <1>2. Clear(m.box) \in Boxes(CommonLog) /\ Clear(m.box).state = m.box.state
    BY <1>1, MainFields, BoxFacts
  <1>3. NewDiff \in Diffs(CommonLog)
    BY DEF NewDiff, Diffs
  <1>4. g \in Mains /\ g.pc = "rpc" /\ g.box = Clear(m.box) /\ g.save = m.save /\ g.outer = m.outer
    BY <1>1, <1>2, <1>3, Zenon DEF Mains, GetDifference
  <1> HIDE DEF g
  <1>5. MainOK(g, acc)
    BY <1>2, <1>4 DEF MainOK
  <1> QED
    BY <1>5 DEF g

\* The end of getDifference: the loop, or the rest of the outer difference.
LEMMA MainFinishes ==
  ASSUME NEW acc, NEW m, MainOK(m, acc)
  PROVE  MainOK(Finish(m), acc) /\ MainOK(FinishError(m), acc)
  <1>1. m \in Mains
    BY DEF MainOK
  <1>2. NewDiff \in Diffs(CommonLog) /\ << >> \in Seq(Diffs(CommonLog))
    BY DEF NewDiff, Diffs
  <1>3. ASSUME NEW o \in {<< >>, m.outer}
        PROVE  MainOK([m EXCEPT !.pc = "idle", !.diff = NewDiff, !.outer = o], acc)
    <2> DEFINE f == [m EXCEPT !.pc = "idle", !.diff = NewDiff, !.outer = o]
    <2>0. o \in Seq(Diffs(CommonLog))
      BY <1>1, <1>2, <1>3, MainFields, Zenon
    <2>1. f \in Mains /\ f.pc = "idle" /\ f.box = m.box /\ f.save = m.save /\ f.outer = o
      BY <1>1, <1>2, <2>0, Zenon DEF Mains
    <2> HIDE DEF f
    <2>2. MainOK(f, acc)
      BY <1>3, <2>1, Zenon DEF MainOK
    <2> QED
      BY <2>2 DEF f
  <1>4. [m EXCEPT !.pc = "idle", !.diff = NewDiff]
         = [m EXCEPT !.pc = "idle", !.diff = NewDiff, !.outer = m.outer]
    BY <1>1, Zenon DEF Mains
  <1>5. ASSUME m.outer # << >>
        PROVE  MainOK([m EXCEPT !.pc = "others", !.diff = [m.outer[1] EXCEPT !.others = {}],
                                !.outer = << >>], acc)
    <2> DEFINE d == [m.outer[1] EXCEPT !.others = {}]
               f == [m EXCEPT !.pc = "others", !.diff = d, !.outer = << >>]
    <2>1. m.outer[1] \in Diffs(CommonLog)
      BY <1>1, <1>5, MainFields
    <2>2. d \in Diffs(CommonLog) /\ d.to = m.outer[1].to /\ d.msgs = m.outer[1].msgs
      BY <2>1 DEF Diffs
    <2> HIDE DEF d
    <2>3. /\ f \in Mains /\ f.pc = "others" /\ f.box = m.box /\ f.save = m.save /\ f.outer = << >>
          /\ f.diff = d
      BY <1>1, <1>2, <2>2, Zenon DEF Mains
    <2> HIDE DEF f
    <2>4. MainOK(f, acc)
      BY <1>5, <2>2, <2>3, Zenon DEF MainOK
    <2> QED
      BY <2>4 DEF f, d
  <1>6. MainOK(Finish(m), acc)
    <2>1. CASE m.outer = << >>
      BY <1>3, <1>4, <2>1 DEF Finish
    <2>2. CASE m.outer # << >>
      BY <1>5, <2>2 DEF Finish
    <2> QED
      BY <2>1, <2>2
  <1> QED
    BY <1>3, <1>6 DEF FinishError

\* A step of the state goroutine: what it leaves alone when it only moves on.
LEMMA MainMoves ==
  ASSUME NEW acc, NEW m, MainOK(m, acc), NEW pc \in {"idle", "push"}, m.save = None,
         NEW todo \in SUBSET (DOMAIN ChannelLog)
  PROVE  MainOK([m EXCEPT !.pc = pc, !.todo = todo], acc)
  <1> DEFINE f == [m EXCEPT !.pc = pc, !.todo = todo]
  <1>1. m \in Mains
    BY DEF MainOK
  <1>2. f \in Mains /\ f.pc = pc /\ f.box = m.box /\ f.save = m.save /\ f.outer = m.outer
    BY <1>1, Zenon DEF Mains
  <1> HIDE DEF f
  <1>3. MainOK(f, acc)
    BY <1>2 DEF MainOK
  <1> QED
    BY <1>3 DEF f

\* The state goroutine handles an update: the handler gets what the box passes.
LEMMA MainHandled ==
  ASSUME TypeOK, MainOK(main, given.pts \cup lost.pts), NEW u \in DOMAIN CommonLog,
         main.pc \in {"idle", "others"}, MainHandles(u), lost' = lost
  PROVE  /\ MainOK(main', given'.pts \cup lost'.pts)
         /\ given' \in [pts : SUBSET (DOMAIN CommonLog), ch : SUBSET (DOMAIN ChannelLog)]
         /\ given.pts \subseteq given'.pts /\ given'.ch = given.ch
  <1> DEFINE acc == given.pts \cup lost.pts
             app == Applies(main.box, u)
             b == Handle(main.box, u)
             sv == IF app = {} THEN None ELSE b.state
  <1>1. main \in Mains /\ To(CommonLog, main.box.state, acc)
    BY DEF MainOK
  <1>2. b \in Boxes(CommonLog) /\ app \subseteq DOMAIN CommonLog /\ To(CommonLog, b.state, acc \cup app)
    BY <1>1, MainFields, HandleBox, Constants, Zenon
  <1>3. b.state \in Nat
    BY <1>2 DEF Boxes
  <1>4. given' = [given EXCEPT !.pts = given.pts \cup app]
    BY DEF MainHandles
  <1>5. main' = [main EXCEPT !.box = b, !.save = sv, !.diff.others = main.diff.others \ {u}]
    BY DEF MainHandles
  <1> HIDE DEF app, b
  <1>6. sv \in Nat \cup {None} /\ To(CommonLog, sv, acc \cup app)
    BY <1>2, <1>3, Nothing, Constants
  <1> HIDE DEF sv
  <1>7. /\ given' \in [pts : SUBSET (DOMAIN CommonLog), ch : SUBSET (DOMAIN ChannelLog)]
        /\ given'.pts = given.pts \cup app /\ given'.ch = given.ch
    BY <1>2, <1>4 DEF TypeOK
  <1> DEFINE d == [main.diff EXCEPT !.others = main.diff.others \ {u}]
  <1>8. d \in Diffs(CommonLog) /\ d.to = main.diff.to /\ d.msgs = main.diff.msgs
    BY <1>1, MainFields DEF Diffs
  <1>9. main' = [main EXCEPT !.box = b, !.save = sv, !.diff = d]
    BY <1>1, <1>5 DEF Mains
  <1> HIDE DEF d
  <1>10. /\ main' \in Mains /\ main'.pc = main.pc /\ main'.box = b /\ main'.save = sv
         /\ main'.diff = d /\ main'.outer = main.outer
    BY <1>1, <1>2, <1>6, <1>8, <1>9, Zenon DEF Mains
  <1>11. MainOK(main, acc \cup app)
    BY MainGrows
  <1>12. MainOK(main', acc \cup app)
    BY <1>2, <1>6, <1>8, <1>10, <1>11, Zenon DEF MainOK
  <1>13. given'.pts \cup lost'.pts = acc \cup app
    BY <1>7
  <1> QED
    BY <1>7, <1>12, <1>13

\* What a step does to the common counter, seen from the outside.
CommonMove ==
  \/ given.pts \subseteq given'.pts /\ lost'.pts = lost.pts /\ store'.pts = store.pts
  \/ /\ given'.pts = given.pts /\ lost'.pts = lost.pts
     /\ To(CommonLog, store'.pts, given.pts \cup lost.pts)
  \/ /\ given'.pts = given.pts /\ lost.pts \subseteq lost'.pts
     /\ lost'.pts \subseteq Of(CommonLog, "message")
     /\ store'.pts = store.pts \/ To(CommonLog, store'.pts, given.pts \cup lost'.pts)

\* What a step that is not about the common counter leaves alone.
CommonSame ==
  main' = main /\ given'.pts = given.pts /\ lost'.pts = lost.pts /\ store'.pts = store.pts

\* No step forgets what is accounted for, and the storage stays behind it.
LEMMA CommonMoveKeeps ==
  ASSUME CommonGood, CommonMove
  PROVE  /\ given.pts \cup lost.pts \subseteq given'.pts \cup lost'.pts
         /\ MainOK(main, given'.pts \cup lost'.pts)
         /\ To(CommonLog, store'.pts, given'.pts \cup lost'.pts)
  <1>1. given.pts \cup lost.pts \subseteq given'.pts \cup lost'.pts
    BY DEF CommonMove
  <1>2. MainOK(main, given'.pts \cup lost'.pts)
    BY <1>1, MainGrows DEF CommonGood
  <1>3. To(CommonLog, store'.pts, given'.pts \cup lost'.pts)
    <2>1. To(CommonLog, store.pts, given'.pts \cup lost'.pts)
      BY <1>1, Grows DEF CommonGood
    <2> QED
      BY <1>1, <2>1, Grows DEF CommonMove
  <1> QED
    BY <1>1, <1>2, <1>3

\* The worker, and the server, leave the common counter alone.
LEMMA WorkerLeavesCommon ==
  ASSUME TypeOK,
         \/ WorkerStep \/ Publish(CommonLog, "pts") \/ Publish(ChannelLog, "ch")
         \/ \E u \in DOMAIN ChannelLog : IgnoreUnknown(u)
  PROVE  CommonSame
  <1> USE DEF CommonSame
  <1>1. /\ store = [pts |-> store.pts, ch |-> store.ch, known |-> store.known]
        /\ given = [pts |-> given.pts, ch |-> given.ch]
        /\ lost = [pts |-> lost.pts, ch |-> lost.ch, silent |-> lost.silent]
    BY DEF TypeOK
  <1>3. \A x : [given EXCEPT !.ch = x].pts = given.pts
    BY <1>1
  <1>4. \A x : [lost EXCEPT !.ch = x].pts = lost.pts
    BY <1>1
  <1>5. CASE HandleUpdate \/ NewChannelMessages
    BY <1>3, <1>5, Zenon DEF HandleUpdate, NewChannelMessages
  <1>12. ASSUME NEW n, PersistChannel(n) PROVE store'.pts = store.pts
    BY <1>1, <1>12 DEF PersistChannel, Persist
  <1>6. CASE SetChannelPts \/ SetChannelState
    BY <1>6, <1>12, Zenon DEF SetChannelPts, SetChannelState
  <1>7. ASSUME NEW wait \in BOOLEAN, ChannelDifferenceEmpty(wait) PROVE CommonSame
    BY <1>7, <1>12, Zenon DEF ChannelDifferenceEmpty
  <1>8. ASSUME NEW wait \in BOOLEAN, ChannelDifferenceTooLong(wait) PROVE CommonSame
    <2>1. store' \in {store, [store EXCEPT !.ch = pub.ch, !.known = TRUE]}
      BY <1>8, Zenon DEF ChannelDifferenceTooLong
    <2>2. store'.pts = store.pts
      BY <1>1, <2>1
    <2> QED
      BY <1>4, <1>8, <2>2, Zenon DEF ChannelDifferenceTooLong
  <1>13. CASE HandleTooLong
    BY <1>4, <1>13, Zenon DEF HandleTooLong
  <1>9. CASE AskChannelDifference \/ IgnoreUpdate \/ WaitOver \/ ChannelDifferenceFails \/ SendOut
    BY <1>9 DEF AskChannelDifference, IgnoreUpdate, WaitOver, ChannelDifferenceFails, SendOut
  <1>10. ASSUME NEW to \in DOMAIN ChannelLog, NEW wait \in BOOLEAN, ChannelDifference(to, wait)
         PROVE  CommonSame
    BY <1>10 DEF ChannelDifference
  <1>11. CASE Publish(CommonLog, "pts") \/ Publish(ChannelLog, "ch")
    BY <1>11 DEF Publish
  <1>14. ASSUME NEW u \in DOMAIN ChannelLog, IgnoreUnknown(u) PROVE CommonSame
    BY <1>14 DEF IgnoreUnknown
  <1> QED
    BY <1>5, <1>6, <1>7, <1>8, <1>9, <1>10, <1>11, <1>13, <1>14, Zenon DEF WorkerStep

\* The steps in which the state goroutine only moves on.
LEMMA StateMovesOn ==
  ASSUME IInv,
         \/ \E u \in DOMAIN ChannelLog : HandleChannel(u)
         \/ Push \/ HandleInternal \/ AskDifference \/ DifferenceEmpty \/ NestedDifference
         \/ \E to \in DOMAIN CommonLog, changed \in BOOLEAN : Difference(to, changed)
         \/ DifferenceFails
  PROVE  /\ MainOK(main', given.pts \cup lost.pts)
         /\ given' = given /\ lost' = lost /\ store' = store /\ work' = work
  <1> DEFINE acc == given.pts \cup lost.pts
  <1>1. MainOK(main, acc) /\ main \in Mains /\ main.todo \in SUBSET (DOMAIN ChannelLog)
    BY Zenon DEF IInv, CommonGood, MainOK, Mains
  <1> HIDE DEF acc
  <1>2. ASSUME NEW u \in DOMAIN ChannelLog, HandleChannel(u) PROVE MainOK(main', acc)
    BY <1>1, <1>2, MainMoves, Zenon DEF HandleChannel, Arrive, MainAt
  <1>3. ASSUME Push PROVE MainOK(main', acc)
    <2>1. PICK u \in First(main.todo) :
             main' = [main EXCEPT !.todo = main.todo \ {u},
                                  !.pc = IF main.todo = {u} THEN "idle" ELSE main.pc]
      BY <1>3, Zenon DEF Push
    <2>2. main.pc = "push" /\ main.save = None
      BY <1>3, Zenon DEF Push, MainAt
    <2>3. PICK pc \in {"idle", "push"}, todo \in SUBSET (DOMAIN ChannelLog) :
             main' = [main EXCEPT !.pc = pc, !.todo = todo]
      <3> DEFINE l == IF main.todo = {u} THEN "idle" ELSE main.pc
      <3>1. l \in {"idle", "push"} /\ main.todo \ {u} \in SUBSET (DOMAIN ChannelLog)
        BY <1>1, <2>2
      <3>2. main' = [main EXCEPT !.pc = l, !.todo = main.todo \ {u}]
        BY <1>1, <2>1, Zenon DEF Mains
      <3> QED
        BY <3>1, <3>2, Zenon
    <2> QED
      BY <1>1, <2>2, <2>3, MainMoves, Zenon
  <1>4. ASSUME HandleInternal PROVE MainOK(main', acc)
    <2>1. Head(out) \in SUBSET (DOMAIN ChannelLog)
      BY <1>4 DEF HandleInternal, IInv, TypeOK
    <2> QED
      BY <1>1, <1>4, <2>1, MainMoves, Zenon DEF HandleInternal, MainAt
  <1>5. ASSUME AskDifference PROVE MainOK(main', acc)
    BY <1>1, <1>5, MainAsks, Zenon DEF AskDifference
  <1>6. ASSUME DifferenceEmpty \/ DifferenceFails PROVE MainOK(main', acc)
    BY <1>1, <1>6, MainFinishes DEF DifferenceEmpty, DifferenceFails
  <1>7. ASSUME NestedDifference PROVE MainOK(main', acc)
    <2> DEFINE o == <<main.diff>>
               m == [main EXCEPT !.outer = o]
    <2>1. main.pc = "others" /\ main.diff \in Diffs(CommonLog) /\ main' = GetDifference(m)
      BY <1>1, <1>7, MainFields DEF NestedDifference, MainAt
    <2>2. o \in Seq(Diffs(CommonLog)) /\ o[1] = main.diff
      BY <2>1
    <2> HIDE DEF o
    <2>3. /\ m \in Mains /\ m.pc = "others" /\ m.box = main.box /\ m.save = main.save
          /\ m.diff = main.diff /\ m.outer = o
      BY <1>1, <1>7, <2>2, Zenon DEF Mains, NestedDifference, MainAt
    <2> HIDE DEF m
    <2>4. MainOK(m, acc)
      BY <1>1, <2>1, <2>2, <2>3, Zenon DEF MainOK
    <2> QED
      BY <2>1, <2>4, MainAsks
  <1>8. ASSUME NEW to \in DOMAIN CommonLog, NEW changed \in BOOLEAN, Difference(to, changed)
        PROVE  MainOK(main', acc)
    <2> DEFINE d == DiffTo(CommonLog, main.box.state, to, pub.pts)
    <2>1. main' = [main EXCEPT !.pc = "others", !.changed = changed, !.diff = d]
      BY <1>8, Zenon DEF Difference
    <2>2. to \in Nat /\ main.box.state \in Nat /\ To(CommonLog, main.box.state, acc)
      BY <1>1, Positions, MainFields DEF MainOK
    <2>3. d \in Diffs(CommonLog) /\ To(CommonLog, d.to, acc \cup d.msgs)
      BY <2>2, DiffFacts, Constants, Zenon
    <2> HIDE DEF d
    <2>4. /\ main' \in Mains /\ main'.pc = "others" /\ main'.box = main.box /\ main'.save = main.save
          /\ main'.diff = d /\ main'.outer = main.outer
      BY <1>1, <2>1, <2>3, Zenon DEF Mains
    <2> QED
      BY <1>1, <2>3, <2>4 DEF MainOK
  <1>9. given' = given /\ lost' = lost /\ store' = store /\ work' = work
    BY Zenon DEF HandleChannel, Push, HandleInternal, AskDifference, DifferenceEmpty, NestedDifference,
           Difference, DifferenceFails
  <1> QED
    BY <1>2, <1>3, <1>4, <1>5, <1>6, <1>7, <1>8, <1>9, Zenon DEF acc

\* The steps that touch the common counter.
LEMMA CommonStep ==
  ASSUME IInv, [Next]_vars
  PROVE  CommonMove /\ MainOK(main', given'.pts \cup lost'.pts)
  <1> DEFINE acc == given.pts \cup lost.pts
  <1>1. /\ MainOK(main, acc) /\ main \in Mains /\ To(CommonLog, store.pts, acc) /\ TypeOK
        /\ CommonGood
    BY DEF IInv, CommonGood, MainOK
  <1>2. /\ store \in [pts : Nat, ch : Nat \cup {None}, known : BOOLEAN]
        /\ pub \in [pts : Nat, ch : Nat]
    BY <1>1 DEF TypeOK
  <1>3. lost \in [pts : SUBSET Of(CommonLog, "message"), ch : SUBSET Of(ChannelLog, "message"),
                  silent : SUBSET Of(ChannelLog, "message")]
    BY <1>1 DEF TypeOK
  <1>4. given \in [pts : SUBSET (DOMAIN CommonLog), ch : SUBSET (DOMAIN ChannelLog)]
    BY <1>1 DEF TypeOK
  <1>5. CASE CommonSame
    BY <1>1, <1>5 DEF CommonSame, CommonMove
  <1>6. ASSUME given'.pts = given.pts, lost'.pts = lost.pts, store'.pts = store.pts, MainOK(main', acc)
        PROVE  CommonMove /\ MainOK(main', given'.pts \cup lost'.pts)
    BY <1>6 DEF CommonMove
  <1>7. ASSUME NEW u \in DOMAIN CommonLog, MainHandles(u), main.pc \in {"idle", "others"},
               lost' = lost, store' = store
        PROVE  CommonMove /\ MainOK(main', given'.pts \cup lost'.pts)
    BY <1>1, <1>7, MainHandled, Zenon DEF CommonMove
  <1>8. ASSUME NEW u \in DOMAIN CommonLog, HandlePts(u)
        PROVE  CommonMove /\ MainOK(main', given'.pts \cup lost'.pts)
    BY <1>7, <1>8, Zenon DEF HandlePts, Arrive, MainAt
  <1>9. CASE OtherUpdate
    <2>1. PICK u \in First(main.diff.others) : MainHandles(u)
      BY <1>9 DEF OtherUpdate
    <2>2. u \in DOMAIN CommonLog
      BY <1>1, <2>1, MainFields DEF First, Diffs
    <2> QED
      BY <1>7, <1>9, <2>1, <2>2, Zenon DEF OtherUpdate, MainAt
  <1>10. CASE SetPts
    <2>1. To(CommonLog, main.save, acc) /\ main.save \in Nat
      BY <1>1, <1>10, MainFields DEF SetPts, MainOK
    <2>2. store'.pts = store.pts \/ store'.pts = main.save
      BY <1>2, <1>10 DEF SetPts, Persist
    <2>3. main' = [main EXCEPT !.save = None] /\ given' = given /\ lost' = lost
      BY <1>10 DEF SetPts
    <2>4. /\ main' \in Mains /\ main'.pc = main.pc /\ main'.box = main.box /\ main'.save = None
          /\ main'.diff = main.diff /\ main'.outer = main.outer
      BY <1>1, <2>3, Zenon DEF Mains
    <2>5. MainOK(main', acc)
      BY <1>1, <2>4, Nothing, Constants, Zenon DEF MainOK
    <2> QED
      BY <1>1, <2>1, <2>2, <2>3, <2>5, Zenon DEF CommonMove
  <1>11. CASE DifferenceTooLong
    <2> DEFINE gone == Of(CommonLog, "message") \cap 1 .. pub.pts
               m == [main EXCEPT !.box = SetState(main.box, pub.pts)]
    <2>1. /\ lost' = [lost EXCEPT !.pts = lost.pts \cup gone] /\ given' = given
          /\ store' \in {store, [store EXCEPT !.pts = pub.pts]} /\ main' = GetDifference(m)
      BY <1>11 DEF DifferenceTooLong
    <2>2. lost'.pts = lost.pts \cup gone /\ store'.pts \in {store.pts, pub.pts} /\ pub.pts \in Nat
      BY <1>2, <1>3, <2>1
    <2>3. \A p \in Of(CommonLog, "message") : p \in Nat \ {0}
      BY Positions DEF Of
    <2>4. To(CommonLog, pub.pts, given.pts \cup lost'.pts)
      BY <2>2, <2>3 DEF To
    <2>5. MainOK(main, given.pts \cup lost'.pts)
      <3>1. acc \subseteq given.pts \cup lost'.pts
        BY <2>2
      <3> QED
        BY <1>1, <3>1, MainGrows
    <2>6. SetState(main.box, pub.pts) \in Boxes(CommonLog) /\ SetState(main.box, pub.pts).state = pub.pts
      <3>1. main.box \in Boxes(CommonLog) /\ pub.pts \in Nat
        BY <1>1, <2>2, MainFields
      <3> QED
        BY <3>1, BoxFacts, Zenon
    <2>7. /\ m \in Mains /\ m.pc = main.pc /\ m.box = SetState(main.box, pub.pts) /\ m.save = main.save
          /\ m.diff = main.diff /\ m.outer = main.outer
      BY <1>1, <2>6 DEF Mains
    <2> HIDE DEF m
    <2>8. MainOK(m, given.pts \cup lost'.pts)
      BY <2>4, <2>5, <2>6, <2>7 DEF MainOK
    <2>9. MainOK(main', given'.pts \cup lost'.pts)
      BY <2>1, <2>8, MainAsks
    <2> HIDE DEF gone
    <2>10. CommonMove
      BY <1>3, <2>1, <2>2, <2>4 DEF CommonMove, gone
    <2> QED
      BY <2>9, <2>10
  <1>12. CASE NewMessages
    <2>1. /\ given' = [given EXCEPT !.pts = given.pts \cup main.diff.msgs] /\ lost' = lost
          /\ store' = store /\ main' = [main EXCEPT !.pc = "state"] /\ main.pc = "others"
      BY <1>12 DEF NewMessages, MainAt
    <2>2. given'.pts = given.pts \cup main.diff.msgs
      BY <1>4, <2>1
    <2>3. acc \cup main.diff.msgs = given'.pts \cup lost'.pts
      BY <2>1, <2>2
    <2>4. /\ main' \in Mains /\ main'.pc = "state" /\ main'.box = main.box /\ main'.save = main.save
          /\ main'.diff = main.diff /\ main'.outer = main.outer
      BY <1>1, <2>1 DEF Mains
    <2>5. MainOK(main, acc \cup main.diff.msgs) /\ To(CommonLog, main.diff.to, acc \cup main.diff.msgs)
      <3>1. To(CommonLog, main.diff.to, acc \cup main.diff.msgs)
        BY <1>1, <2>1 DEF MainOK
      <3>2. acc \subseteq acc \cup main.diff.msgs
        BY Zenon
      <3> HIDE DEF acc
      <3> QED
        BY <1>1, <3>1, <3>2, MainGrows
    <2>6. MainOK(main', acc \cup main.diff.msgs)
      BY <2>4, <2>5, Zenon DEF MainOK
    <2> QED
      BY <2>1, <2>2, <2>3, <2>6 DEF CommonMove
  <1>13. CASE SetDifferenceState
    <2> DEFINE m == [main EXCEPT !.box = SetState(main.box, main.diff.to)]
    <2>1. /\ main' \in {Finish(m), GetDifference(m)} /\ given' = given /\ lost' = lost
          /\ main.pc = "state"
      BY <1>13 DEF SetDifferenceState, MainAt
    <2>2. store'.pts = store.pts \/ store'.pts = main.diff.to
      BY <1>2, <1>13, Zenon DEF SetDifferenceState, Persist
    <2>3. To(CommonLog, main.diff.to, acc) /\ main.diff.to \in Nat
      BY <1>1, <2>1, MainFields DEF MainOK
    <2>4. /\ SetState(main.box, main.diff.to) \in Boxes(CommonLog)
          /\ SetState(main.box, main.diff.to).state = main.diff.to
      BY <1>1, <2>3, MainFields, BoxFacts, ZenonT(30)
    <2>5. /\ m \in Mains /\ m.pc = main.pc /\ m.box = SetState(main.box, main.diff.to)
          /\ m.save = main.save /\ m.diff = main.diff /\ m.outer = main.outer
      BY <1>1, <2>4 DEF Mains
    <2> HIDE DEF m
    <2>6. MainOK(m, acc)
      BY <1>1, <2>3, <2>4, <2>5 DEF MainOK
    <2>7. MainOK(main', acc)
      BY <2>1, <2>6, MainAsks, MainFinishes
    <2> QED
      BY <1>1, <2>1, <2>2, <2>3, <2>7 DEF CommonMove
  <1>14. CASE Run \/ RunWithoutHash \/ Stop
    <2>1. given' = given /\ store' = store /\ lost'.pts = lost.pts
      BY <1>14 DEF Run, RunWithoutHash, Stop
    <2>2. store.pts \in Nat
      BY <1>2
    <2>3. MainOK(NewMain(store.pts), acc) /\ MainOK(MainOff, acc)
      BY <1>1, <2>2, MainStarts
    <2>4. MainOK(GetDifference(NewMain(store.pts)), acc)
      BY <2>3, MainAsks
    <2>5. main' \in {MainOff, GetDifference(NewMain(store.pts))}
      BY <1>14 DEF Run, newState, RunWithoutHash, Stop
    <2>6. MainOK(main', acc)
      BY <2>3, <2>4, <2>5
    <2> QED
      BY <1>6, <2>1, <2>6
  <1>15. ASSUME NEW u \in DOMAIN ChannelLog, TrackChannel(u) \/ TrackAnew(u)
         PROVE  CommonMove /\ MainOK(main', given'.pts \cup lost'.pts)
    <2>1. given' = given
      BY <1>15, Zenon DEF TrackChannel, TrackAnew
    <2>2. lost'.pts = lost.pts
      BY <1>3, <1>15 DEF TrackChannel, TrackAnew
    <2>3. store'.pts = store.pts
      BY <1>2, <1>15 DEF TrackChannel, TrackAnew, PersistChannel, Persist
    <2>4. main' = [main EXCEPT !.pc = "push", !.todo = {u}] /\ main.save = None
      BY <1>15, Zenon DEF TrackChannel, TrackAnew, Track, Arrive, MainAt
    <2>5. MainOK(main', acc)
      BY <1>1, <2>4, MainMoves, Zenon
    <2> QED
      BY <1>6, <2>1, <2>2, <2>3, <2>5
  <1>20. CASE RunForget
    <2> DEFINE gone == Of(CommonLog, "message") \cap 1 .. pub.pts
    <2>1. /\ lost' = [lost EXCEPT !.pts = lost.pts \cup gone] /\ given' = given
          /\ store' = [store EXCEPT !.pts = pub.pts, !.ch = IF Wipes THEN None ELSE store.ch]
          /\ main' = GetDifference(NewMain(store'.pts))
      BY <1>20, Zenon DEF RunForget, newState
    <2>2. lost'.pts = lost.pts \cup gone /\ store'.pts = pub.pts /\ pub.pts \in Nat
      BY <1>2, <1>3, <2>1
    <2>3. \A p \in Of(CommonLog, "message") : p \in Nat \ {0}
      BY Positions DEF Of
    <2>4. To(CommonLog, pub.pts, given'.pts \cup lost'.pts)
      BY <2>1, <2>2, <2>3 DEF To
    <2>5. MainOK(main', given'.pts \cup lost'.pts)
      BY <2>1, <2>2, <2>4, MainStarts, MainAsks, Zenon
    <2> HIDE DEF gone
    <2>6. CommonMove
      BY <1>3, <2>1, <2>2, <2>4 DEF CommonMove, gone
    <2> QED
      BY <2>5, <2>6
  <1>16. CASE UNCHANGED vars
    BY <1>5, <1>16, Zenon DEF vars, CommonSame
  <1>17. CASE Stimulus
    BY <1>1, <1>5, <1>6, <1>8, <1>14, <1>15, <1>17, StateMovesOn, WorkerLeavesCommon, Zenon DEF Stimulus
  <1>18. CASE StateStep
    BY <1>6, <1>9, <1>10, <1>11, <1>12, <1>13, <1>18, StateMovesOn, Zenon DEF StateStep
  <1>19. CASE WorkerStep
    BY <1>1, <1>5, <1>19, WorkerLeavesCommon
  <1> QED
    BY <1>14, <1>16, <1>17, <1>18, <1>19, <1>20, Zenon DEF Next, SystemStep
-----------------------------------------------------------------------------
(* The channel's counter: the same for the worker goroutine.               *)

\* The fields of the worker.
LEMMA WorkFields ==
  ASSUME NEW w \in Works
  PROVE  /\ w.box \in Boxes(ChannelLog) /\ w.box.state \in Nat /\ w.save \in Nat \cup {None}
         /\ w.diff \in Diffs(ChannelLog) /\ w.diff.to \in Nat /\ w.wait \in BOOLEAN
  <1>1. w.box \in Boxes(ChannelLog) /\ w.save \in Nat \cup {None} /\ w.wait \in BOOLEAN
    BY DEF Works
  <1>2. w.diff \in Diffs(ChannelLog)
    BY DEF Works
  <1>3. w.box.state \in Nat
    BY <1>1 DEF Boxes
  <1>4. w.diff.to \in Nat
    BY <1>2 DEF Diffs
  <1> QED
    BY <1>1, <1>2, <1>3, <1>4

\* The worker stays as it is when more is accounted for.
LEMMA WorkGrows ==
  ASSUME NEW w, NEW acc, NEW more, acc \subseteq more, WorkOK(w, acc)
  PROVE  WorkOK(w, more)
  <1>1. \A s : acc \cup s \subseteq more \cup s
    OBVIOUS
  <1> QED
    BY <1>1, Grows DEF WorkOK

\* A worker that starts, or is off, owes nothing but its position.
LEMMA WorkStarts ==
  ASSUME NEW acc, NEW n \in Nat, To(ChannelLog, n, acc)
  PROVE  WorkOK(NewWork(n), acc) /\ WorkOK(WorkOff, acc)
  <1>1. NewDiff \in Diffs(ChannelLog)
    BY DEF NewDiff, Diffs
  <1>2. \A k \in Nat : NewBox(k) \in Boxes(ChannelLog) /\ NewBox(k).state = k
    BY DEF NewBox, Boxes
  <1>3. To(ChannelLog, None, acc) /\ To(ChannelLog, 0, acc)
    BY Constants, Nothing
  <1>4. ASSUME NEW k \in Nat, To(ChannelLog, k, acc),
               NEW w \in {NewWork(k), [NewWork(k) EXCEPT !.pc = "off"]}
        PROVE  WorkOK(w, acc)
    <2>1. w \in Works
      <3>1. NewWork(k) \in Works
        BY <1>1, <1>2 DEF NewWork, Works, None
      <3>2. [NewWork(k) EXCEPT !.pc = "off"] \in Works
        BY <3>1 DEF Works
      <3> QED
        BY <1>4, <3>1, <3>2
    <2>2. w.pc \in {"idle", "off"} /\ w.box = NewBox(k) /\ w.save = None
      BY <1>4 DEF NewWork
    <2> QED
      BY <1>2, <1>3, <1>4, <2>1, <2>2 DEF WorkOK
  <1> QED
    BY <1>3, <1>4, Zenon DEF WorkOff

\* getDifference keeps the position of the box.
LEMMA WorkAsks ==
  ASSUME NEW acc, NEW w, WorkOK(w, acc)
  PROVE  WorkOK(GetChannelDifference(w), acc)
  <1> DEFINE l == IF w.wait THEN "wait" ELSE "rpc"
             g == [w EXCEPT !.pc = l, !.box = Clear(w.box), !.diff = NewDiff]
  <1>1. w \in Works
    BY DEF WorkOK
  <1>2. Clear(w.box) \in Boxes(ChannelLog) /\ Clear(w.box).state = w.box.state
    <2>1. w.box \in Boxes(ChannelLog) /\ 0 \in Nat
      BY <1>1, WorkFields
    <2> QED
      BY <2>1, BoxFacts
  <1>3. NewDiff \in Diffs(ChannelLog)
    BY DEF NewDiff, Diffs
  <1>4. l \in {"wait", "rpc"}
    OBVIOUS
  <1> HIDE DEF l
  <1>5. g \in Works /\ g.pc = l /\ g.box = Clear(w.box) /\ g.save = w.save
    BY <1>1, <1>2, <1>3, <1>4, Zenon DEF Works
  <1> HIDE DEF g
  <1>6. WorkOK(g, acc)
    BY <1>2, <1>4, <1>5 DEF WorkOK
  <1>7. GetChannelDifference(w) = g
    BY DEF GetChannelDifference, g, l
  <1> QED
    BY <1>6, <1>7

\* No message of the channel is given up or skipped.
SameLost == lost'.ch = lost.ch /\ lost'.silent = lost.silent

\* What a step does to the channel's counter, seen from the outside.
ChannelMove ==
  \/ given.ch \subseteq given'.ch /\ SameLost /\ store'.ch = store.ch
  \/ given'.ch = given.ch /\ SameLost /\ To(ChannelLog, store'.ch, ChAcc)
  \/ /\ given'.ch = given.ch /\ lost.ch \subseteq lost'.ch /\ lost'.silent = lost.silent
     /\ lost'.ch \subseteq Of(ChannelLog, "message")
     /\ store'.ch = store.ch \/ To(ChannelLog, store'.ch, ChAcc')
  \/ /\ Wipes \/ ReadsFail
     /\ given'.ch = given.ch /\ lost'.ch = lost.ch /\ lost.silent \subseteq lost'.silent
     /\ lost'.silent \subseteq Of(ChannelLog, "message")
     /\ store'.ch = store.ch \/ To(ChannelLog, store'.ch, ChAcc')

\* What a step that is not about the channel's counter leaves alone.
ChannelSame ==
  work' = work /\ given'.ch = given.ch /\ SameLost /\ store'.ch = store.ch

\* No step forgets what is accounted for, and the storage stays behind it.
LEMMA ChannelMoveKeeps ==
  ASSUME ChannelGood, ChannelMove
  PROVE  /\ ChAcc \subseteq ChAcc'
         /\ WorkOK(work, ChAcc')
         /\ To(ChannelLog, store'.ch, ChAcc')
  <1>1. ChAcc \subseteq ChAcc'
    BY DEF ChannelMove, ChAcc, SameLost
  <1>2. WorkOK(work, ChAcc')
    BY <1>1, WorkGrows DEF ChannelGood
  <1>3. To(ChannelLog, store'.ch, ChAcc')
    <2>1. To(ChannelLog, store.ch, ChAcc')
      BY <1>1, Grows, Zenon DEF ChannelGood
    <2> QED
      BY <1>1, <2>1, Grows DEF ChannelMove
  <1> QED
    BY <1>1, <1>2, <1>3

\* The state goroutine, but for tracking a channel and writing a whole state, and
\* the server leave the channel's counter alone.
LEMMA StateLeavesChannel ==
  ASSUME IInv,
         \/ \E u \in DOMAIN CommonLog : HandlePts(u)
         \/ \E u \in DOMAIN ChannelLog : HandleChannel(u) \/ IgnoreUnknown(u)
         \/ SetPts \/ Push \/ HandleInternal \/ AskDifference \/ DifferenceEmpty
         \/ \E to \in DOMAIN CommonLog, changed \in BOOLEAN : Difference(to, changed)
         \/ DifferenceFails \/ DifferenceTooLong \/ OtherUpdate \/ NestedDifference \/ NewMessages
         \/ Publish(CommonLog, "pts") \/ Publish(ChannelLog, "ch")
  PROVE  ChannelSame
  <1> USE DEF ChannelSame, SameLost
  <1>1. /\ store = [pts |-> store.pts, ch |-> store.ch, known |-> store.known]
        /\ given = [pts |-> given.pts, ch |-> given.ch]
        /\ lost = [pts |-> lost.pts, ch |-> lost.ch, silent |-> lost.silent]
    BY DEF IInv, TypeOK
  <1>2. \A x : [store EXCEPT !.pts = x].ch = store.ch
    BY <1>1
  <1>3. \A x : [given EXCEPT !.pts = x].ch = given.ch
    BY <1>1
  <1>4. \A x : [lost EXCEPT !.pts = x].ch = lost.ch /\ [lost EXCEPT !.pts = x].silent = lost.silent
    BY <1>1
  <1>5. ASSUME NEW u \in DOMAIN CommonLog, HandlePts(u) PROVE ChannelSame
    BY <1>3, <1>5, Zenon DEF HandlePts, MainHandles
  <1>6. CASE OtherUpdate \/ NewMessages
    BY <1>3, <1>6, Zenon DEF OtherUpdate, MainHandles, NewMessages
  <1>7. CASE SetPts
    BY <1>2, <1>7, Zenon DEF SetPts, Persist
  <1>8. CASE DifferenceTooLong
    BY <1>2, <1>4, <1>8, Zenon DEF DifferenceTooLong
  <1>9. CASE Publish(CommonLog, "pts") \/ Publish(ChannelLog, "ch")
    BY <1>9 DEF Publish
  <1>10. ASSUME NEW u \in DOMAIN ChannelLog, IgnoreUnknown(u) PROVE ChannelSame
    BY <1>10 DEF IgnoreUnknown
  <1> QED
    BY <1>5, <1>6, <1>7, <1>8, <1>9, <1>10, StateMovesOn, Zenon

\* A worker with only its label, its wait and the OtherUpdates of its difference
\* changed, at a label that promises no more than its old one.
LEMMA WorkMoves ==
  ASSUME NEW acc, NEW w, WorkOK(w, acc), NEW v \in Works, v.box = w.box, v.save = w.save,
         v.diff.to = w.diff.to, v.diff.msgs = w.diff.msgs,
         \/ v.pc \in {"idle", "rpc"}
         \/ v.pc = "give" /\ w.pc = "out"
  PROVE  WorkOK(v, acc)
  BY Zenon DEF WorkOK

\* The steps in which the worker only moves on.
LEMMA WorkerMovesOn ==
  ASSUME IInv,
         \/ AskChannelDifference \/ IgnoreUpdate \/ WaitOver \/ ChannelDifferenceFails \/ SendOut
         \/ \E to \in DOMAIN ChannelLog, wait \in BOOLEAN : ChannelDifference(to, wait)
  PROVE  /\ WorkOK(work', ChAcc)
         /\ given' = given /\ lost' = lost /\ store' = store
  <1> DEFINE acc == ChAcc
  <1>1. WorkOK(work, acc) /\ work \in Works
    BY Zenon DEF IInv, ChannelGood, WorkOK
  <1> HIDE DEF acc
  <1>2. ASSUME AskChannelDifference PROVE WorkOK(work', acc)
    BY <1>1, <1>2, WorkAsks DEF AskChannelDifference
  <1>3. ASSUME IgnoreUpdate PROVE WorkOK(work', acc)
    BY <1>1, <1>3 DEF IgnoreUpdate
  <1>4. ASSUME WaitOver PROVE WorkOK(work', acc)
    <2>1. /\ work' \in Works /\ work'.pc = "rpc" /\ work'.box = work.box /\ work'.save = work.save
          /\ work'.diff = work.diff
      BY <1>1, <1>4, Zenon DEF WaitOver, Works
    <2> QED
      BY <1>1, <2>1, WorkMoves
  <1>5. ASSUME ChannelDifferenceFails PROVE WorkOK(work', acc)
    <2>1. /\ work' \in Works /\ work'.pc = "idle" /\ work'.box = work.box /\ work'.save = work.save
          /\ work'.diff = work.diff
      BY <1>1, <1>5 DEF ChannelDifferenceFails, Works
    <2> QED
      BY <1>1, <2>1, WorkMoves
  <1>6. ASSUME SendOut PROVE WorkOK(work', acc)
    <2> DEFINE d == [work.diff EXCEPT !.others = {}]
    <2>1. work' = [work EXCEPT !.pc = "give", !.diff.others = {}] /\ work.pc = "out"
      BY <1>6 DEF SendOut, WorkAt
    <2>2. d \in Diffs(ChannelLog) /\ d.to = work.diff.to /\ d.msgs = work.diff.msgs
      BY <1>1, WorkFields DEF Diffs
    <2>3. work' = [work EXCEPT !.pc = "give", !.diff = d]
      BY <1>1, <2>1 DEF Works
    <2> HIDE DEF d
    <2>4. /\ work' \in Works /\ work'.pc = "give" /\ work'.box = work.box /\ work'.save = work.save
          /\ work'.diff = d
      BY <1>1, <2>2, <2>3, Zenon DEF Works
    <2> QED
      BY <1>1, <2>1, <2>2, <2>4, WorkMoves, Zenon
  <1>7. ASSUME NEW to \in DOMAIN ChannelLog, NEW wait \in BOOLEAN, ChannelDifference(to, wait)
        PROVE  WorkOK(work', acc)
    <2> DEFINE d == DiffTo(ChannelLog, work.box.state, to, pub.ch)
               l == IF d.others = {} THEN "give" ELSE "out"
    <2>1. work' = [work EXCEPT !.pc = l, !.diff = d, !.wait = wait]
      BY <1>7, Zenon DEF ChannelDifference
    <2>2. to \in Nat /\ work.box.state \in Nat /\ To(ChannelLog, work.box.state, acc)
      BY <1>1, Positions, WorkFields DEF WorkOK
    <2>3. d \in Diffs(ChannelLog) /\ To(ChannelLog, d.to, acc \cup d.msgs)
      BY <2>2, DiffFacts, Constants, Zenon
    <2>4. l \in {"give", "out"}
      OBVIOUS
    <2> HIDE DEF d, l
    <2>5. /\ work' \in Works /\ work'.pc = l /\ work'.box = work.box /\ work'.save = work.save
          /\ work'.diff = d
      BY <1>1, <2>1, <2>3, <2>4, Zenon DEF Works
    <2> QED
      BY <1>1, <2>3, <2>4, <2>5 DEF WorkOK
  <1>8. given' = given /\ lost' = lost /\ store' = store
    BY Zenon DEF AskChannelDifference, IgnoreUpdate, WaitOver, ChannelDifferenceFails, SendOut,
           ChannelDifference
  <1> QED
    BY <1>2, <1>3, <1>4, <1>5, <1>6, <1>7, <1>8, Zenon DEF acc

\* The worker handles an update: the handler gets what the box passes.
LEMMA WorkHandled ==
  ASSUME TypeOK, WorkOK(work, ChAcc), HandleUpdate
  PROVE  /\ WorkOK(work', ChAcc')
         /\ given' \in [pts : SUBSET (DOMAIN CommonLog), ch : SUBSET (DOMAIN ChannelLog)]
         /\ given.ch \subseteq given'.ch /\ lost' = lost /\ store' = store
  <1> DEFINE acc == ChAcc
             u == Head(queue)
             app == Applies(work.box, u)
             b == Handle(work.box, u)
             sv == IF app = {} THEN None ELSE b.state
  <1>1. work \in Works /\ To(ChannelLog, work.box.state, acc)
    BY DEF WorkOK
  <1>2. u \in DOMAIN ChannelLog
    BY DEF HandleUpdate, TypeOK
  <1>3. b \in Boxes(ChannelLog) /\ app \subseteq DOMAIN ChannelLog /\ To(ChannelLog, b.state, acc \cup app)
    BY <1>1, <1>2, WorkFields, HandleBox, Constants, Zenon
  <1>4. b.state \in Nat
    BY <1>3 DEF Boxes
  <1>5. given' = [given EXCEPT !.ch = given.ch \cup app] /\ lost' = lost /\ store' = store
    BY DEF HandleUpdate
  <1>6. /\ work' = [work EXCEPT !.box = b, !.save = sv] \/ work' = [work EXCEPT !.box = b]
        /\ work.pc = "idle" /\ work.save = None
    BY DEF HandleUpdate, WorkAt
  <1> HIDE DEF app, b
  <1>7. sv \in Nat \cup {None} /\ To(ChannelLog, sv, acc \cup app) /\ To(ChannelLog, None, acc \cup app)
    BY <1>3, <1>4, Nothing, Constants
  <1> HIDE DEF sv
  <1>8. /\ given' \in [pts : SUBSET (DOMAIN CommonLog), ch : SUBSET (DOMAIN ChannelLog)]
        /\ given'.ch = given.ch \cup app
    BY <1>3, <1>5, Zenon DEF TypeOK
  <1>9. /\ work' \in Works /\ work'.pc = "idle" /\ work'.box = b /\ work'.save \in {sv, None}
    BY <1>1, <1>3, <1>6, <1>7, Zenon DEF Works
  <1>10. WorkOK(work', acc \cup app)
    BY <1>3, <1>7, <1>9 DEF WorkOK
  <1>11. ChAcc' = acc \cup app
    BY <1>5, <1>8 DEF ChAcc
  <1> QED
    BY <1>5, <1>8, <1>10, <1>11, Zenon

\* The steps that touch the channel's counter.
LEMMA ChannelStep ==
  ASSUME IInv, [Next]_vars
  PROVE  ChannelMove /\ WorkOK(work', ChAcc')
  <1> DEFINE acc == ChAcc
  <1>1. /\ WorkOK(work, acc) /\ work \in Works /\ To(ChannelLog, store.ch, acc) /\ TypeOK
    BY DEF IInv, ChannelGood, WorkOK
  <1>2. /\ store \in [pts : Nat, ch : Nat \cup {None}, known : BOOLEAN]
        /\ pub \in [pts : Nat, ch : Nat]
    BY <1>1 DEF TypeOK
  <1>3. lost \in [pts : SUBSET Of(CommonLog, "message"), ch : SUBSET Of(ChannelLog, "message"),
                  silent : SUBSET Of(ChannelLog, "message")]
    BY <1>1 DEF TypeOK
  <1>4. given \in [pts : SUBSET (DOMAIN CommonLog), ch : SUBSET (DOMAIN ChannelLog)]
    BY <1>1 DEF TypeOK
  <1>5. \A p \in Of(ChannelLog, "message") : p \in Nat \ {0}
    BY Positions DEF Of
  <1>6. CASE ChannelSame
    <2>1. ChAcc' = acc
      BY <1>6 DEF ChannelSame, SameLost, ChAcc
    <2> QED
      BY <1>1, <1>6, <2>1 DEF ChannelSame, ChannelMove
  <1>7. ASSUME given'.ch = given.ch, SameLost, WorkOK(work', acc),
               store'.ch = store.ch \/ To(ChannelLog, store'.ch, acc)
        PROVE  ChannelMove /\ WorkOK(work', ChAcc')
    <2>1. ChAcc' = acc
      BY <1>7 DEF SameLost, ChAcc
    <2> QED
      BY <1>7, <2>1 DEF ChannelMove
  <1>8. ASSUME given'.ch = given.ch, lost.ch \subseteq lost'.ch, lost'.silent = lost.silent,
               lost'.ch \subseteq Of(ChannelLog, "message"), WorkOK(work', ChAcc'),
               store'.ch = store.ch \/ To(ChannelLog, store'.ch, ChAcc')
        PROVE  ChannelMove /\ WorkOK(work', ChAcc')
    BY <1>8, Zenon DEF ChannelMove
  <1>9. CASE HandleUpdate
    BY <1>1, <1>9, WorkHandled, Zenon DEF ChannelMove, SameLost
  <1>10. CASE SetChannelPts
    <2>1. To(ChannelLog, work.save, acc) /\ given' = given /\ lost' = lost
      BY <1>1, <1>10 DEF WorkOK, SetChannelPts
    <2>2. store'.ch = store.ch \/ store'.ch = work.save
      BY <1>2, <1>10 DEF SetChannelPts, PersistChannel, Persist
    <2>3. /\ work' \in Works /\ work'.pc = work.pc /\ work'.box = work.box /\ work'.save = None
          /\ work'.diff = work.diff
      BY <1>1, <1>10, Zenon DEF SetChannelPts, Works
    <2>4. WorkOK(work', acc)
      BY <1>1, <2>3, Nothing, Constants, Zenon DEF WorkOK
    <2> QED
      BY <1>7, <2>1, <2>2, <2>4 DEF SameLost
  <1>11. ASSUME NEW wait \in BOOLEAN, ChannelDifferenceEmpty(wait)
         PROVE  ChannelMove /\ WorkOK(work', ChAcc')
    <2>1. To(ChannelLog, pub.ch, acc) /\ given' = given /\ lost' = lost
      BY <1>1, <1>11 DEF WorkOK, ChannelDifferenceEmpty
    <2>2. store'.ch = store.ch \/ store'.ch = pub.ch
      BY <1>2, <1>11 DEF ChannelDifferenceEmpty, PersistChannel, Persist
    <2>3. /\ work' \in Works /\ work'.pc = "idle" /\ work'.box = work.box /\ work'.save = work.save
          /\ work'.diff = work.diff
      BY <1>1, <1>11, Zenon DEF ChannelDifferenceEmpty, Works
    <2>4. WorkOK(work', acc)
      BY <1>1, <2>3, WorkMoves
    <2> QED
      BY <1>7, <2>1, <2>2, <2>4 DEF SameLost
  <1>12. ASSUME NEW wait \in BOOLEAN, ChannelDifferenceTooLong(wait)
         PROVE  ChannelMove /\ WorkOK(work', ChAcc')
    <2> DEFINE gone == Of(ChannelLog, "message") \cap 1 .. pub.ch
               b == SetState(work.box, pub.ch)
    <2>1. /\ lost' = [lost EXCEPT !.ch = lost.ch \cup gone] /\ given' = given
          /\ store' \in {store, [store EXCEPT !.ch = pub.ch, !.known = TRUE]}
          /\ \/ work' = [work EXCEPT !.pc = "idle", !.wait = wait, !.box = b]
             \/ work' = [work EXCEPT !.pc = "idle", !.wait = wait]
      BY <1>12 DEF ChannelDifferenceTooLong
    <2>2. /\ lost'.ch = lost.ch \cup gone /\ lost'.silent = lost.silent
          /\ store'.ch \in {store.ch, pub.ch} /\ pub.ch \in Nat
      BY <1>2, <1>3, <2>1
    <2>3. To(ChannelLog, pub.ch, ChAcc')
      BY <1>5, <2>2 DEF To, ChAcc
    <2>4. WorkOK(work, ChAcc')
      <3>1. acc \subseteq ChAcc'
        BY <2>1, <2>2 DEF ChAcc
      <3> QED
        BY <1>1, <3>1, WorkGrows, Zenon
    <2>5. b \in Boxes(ChannelLog) /\ b.state = pub.ch
      <3>1. work.box \in Boxes(ChannelLog) /\ pub.ch \in Nat
        BY <1>1, <2>2, WorkFields
      <3> QED
        BY <3>1, BoxFacts, ZenonT(30)
    <2> HIDE DEF b
    <2>6. /\ work' \in Works /\ work'.pc = "idle" /\ work'.box \in {work.box, b}
          /\ work'.save = work.save
      BY <1>1, <2>1, <2>5, Zenon DEF Works
    <2>7. WorkOK(work', ChAcc')
      BY <2>3, <2>4, <2>5, <2>6 DEF WorkOK
    <2>8. lost'.ch \subseteq Of(ChannelLog, "message") /\ lost.ch \subseteq lost'.ch
      BY <1>3, <2>2
    <2> QED
      BY <1>8, <2>1, <2>2, <2>3, <2>7, <2>8
  <1>13. CASE NewChannelMessages
    <2>1. /\ given' = [given EXCEPT !.ch = given.ch \cup work.diff.msgs] /\ lost' = lost
          /\ store' = store /\ work' = [work EXCEPT !.pc = "store"] /\ work.pc = "give"
      BY <1>13 DEF NewChannelMessages, WorkAt
    <2>2. given'.ch = given.ch \cup work.diff.msgs
      BY <1>4, <2>1
    <2>3. acc \cup work.diff.msgs = ChAcc'
      BY <2>1, <2>2 DEF ChAcc
    <2>4. /\ work' \in Works /\ work'.pc = "store" /\ work'.box = work.box /\ work'.save = work.save
          /\ work'.diff = work.diff
      BY <1>1, <2>1, Zenon DEF Works
    <2>5. WorkOK(work, acc \cup work.diff.msgs) /\ To(ChannelLog, work.diff.to, acc \cup work.diff.msgs)
      <3>1. To(ChannelLog, work.diff.to, acc \cup work.diff.msgs)
        BY <1>1, <2>1 DEF WorkOK
      <3>2. acc \subseteq acc \cup work.diff.msgs
        BY Zenon
      <3> HIDE DEF acc
      <3> QED
        BY <1>1, <3>1, <3>2, WorkGrows, Zenon
    <2>6. WorkOK(work', acc \cup work.diff.msgs)
      BY <2>4, <2>5 DEF WorkOK
    <2>7. given.ch \subseteq given'.ch
      BY <2>2
    <2> QED
      BY <2>1, <2>3, <2>6, <2>7, Zenon DEF ChannelMove, SameLost
  <1>14. CASE SetChannelState
    <2> DEFINE b == SetState(work.box, work.diff.to)
               w == [work EXCEPT !.box = b]
    <2>1. /\ work' \in {[w EXCEPT !.pc = "idle", !.diff = NewDiff], GetChannelDifference(w)}
          /\ given' = given /\ lost' = lost /\ work.pc = "store"
      BY <1>14 DEF SetChannelState, WorkAt
    <2>2. store'.ch = store.ch \/ store'.ch = work.diff.to
      BY <1>2, <1>14 DEF SetChannelState, PersistChannel, Persist
    <2>3. To(ChannelLog, work.diff.to, acc) /\ work.diff.to \in Nat /\ work.box \in Boxes(ChannelLog)
      BY <1>1, <2>1, WorkFields, Zenon DEF WorkOK
    <2>4. b \in Boxes(ChannelLog) /\ b.state = work.diff.to
      BY <2>3, BoxFacts, Zenon
    <2> HIDE DEF b
    <2>5. /\ w \in Works /\ w.pc = work.pc /\ w.box = b /\ w.save = work.save /\ w.diff = work.diff
      BY <1>1, <2>4 DEF Works
    <2> HIDE DEF w
    <2>6. WorkOK(w, acc)
      BY <1>1, <2>3, <2>4, <2>5 DEF WorkOK
    <2>7. WorkOK([w EXCEPT !.pc = "idle", !.diff = NewDiff], acc)
      <3> DEFINE v == [w EXCEPT !.pc = "idle", !.diff = NewDiff]
      <3>1. NewDiff \in Diffs(ChannelLog)
        BY DEF NewDiff, Diffs
      <3>2. v \in Works /\ v.pc = "idle" /\ v.box = w.box /\ v.save = w.save
        BY <2>5, <3>1, Zenon DEF Works
      <3> HIDE DEF v
      <3>3. WorkOK(v, acc)
        BY <2>6, <3>2 DEF WorkOK
      <3> QED
        BY <3>3 DEF v
    <2>8. WorkOK(work', acc)
      BY <2>1, <2>6, <2>7, WorkAsks
    <2> QED
      BY <1>7, <2>1, <2>2, <2>3, <2>8, Zenon DEF SameLost
  <1>15. CASE SetDifferenceState
    <2>1. given' = given /\ lost' = lost /\ work' = work
      BY <1>15 DEF SetDifferenceState
    <2>2. store'.ch = store.ch \/ store'.ch = None
      BY <1>2, <1>15, Zenon DEF SetDifferenceState, Persist
    <2> QED
      BY <1>1, <1>7, <2>1, <2>2, Nothing, Constants, Zenon DEF SameLost
  <1>16. CASE Run \/ RunForget \/ Stop
    <2>1. given' = given /\ store'.ch \in {store.ch, None} /\ SameLost
      BY <1>2, <1>3, <1>16 DEF Run, RunForget, Stop, SameLost
    <2>2. WorkOK(WorkOff, acc)
      BY WorkStarts, Nothing, Constants, Zenon
    <2>3. store.ch # None => WorkOK(GetChannelDifference(NewWork(store.ch)), acc)
      BY <1>1, <1>2, WorkStarts, WorkAsks
    <2>4. \/ work' = WorkOff
          \/ store.ch # None /\ work' = GetChannelDifference(NewWork(store.ch))
      BY <1>16, <2>1 DEF Run, RunForget, newState, Stop
    <2>5. WorkOK(work', acc)
      BY <2>2, <2>3, <2>4
    <2> QED
      BY <1>7, <2>1, <2>5, Nothing, Constants
  <1>17. CASE RunWithoutHash
    BY <1>6, <1>17 DEF RunWithoutHash, ChannelSame, SameLost
  <1>18. ASSUME NEW u \in DOMAIN ChannelLog, TrackChannel(u)
         PROVE  ChannelMove /\ WorkOK(work', ChAcc')
    <2>1. given' = given /\ store' = store /\ lost' = lost /\ store.ch # None
      BY <1>18, Zenon DEF TrackChannel
    <2>2. WorkOK(NewWork(store.ch), acc)
      BY <1>1, <1>2, <2>1, WorkStarts, Zenon
    <2>3. WorkOK(work', acc)
      BY <1>18, <2>2, WorkAsks, Zenon DEF TrackChannel, Track
    <2> QED
      BY <1>7, <2>1, <2>3 DEF SameLost
  <1>23. ASSUME NEW u \in DOMAIN ChannelLog, TrackAnew(u)
         PROVE  ChannelMove /\ WorkOK(work', ChAcc')
    <2> DEFINE passed == Of(ChannelLog, "message") \cap 1 .. u - 1
               more == passed \ (given.ch \cup lost.ch)
    <2>0. u - 1 \in Nat
      BY Positions
    <2>1. given' = given /\ u - 1 \in Nat /\ work' = GetChannelDifference(NewWork(u - 1))
      BY <1>23, <2>0, Zenon DEF TrackAnew, Track
    <2>2. store'.ch \in {store.ch, u - 1}
      BY <1>2, <1>23 DEF TrackAnew, PersistChannel, Persist
    <2>3. \/ ~store.known /\ lost' = [lost EXCEPT !.ch = lost.ch \cup passed]
          \/ store.known /\ lost' = [lost EXCEPT !.silent = lost.silent \cup more]
      BY <1>23, Zenon DEF TrackAnew
    <2>4. store.known => Wipes \/ ReadsFail
      BY <1>23 DEF TrackAnew, IInv, Kept
    <2>5. \/ /\ lost'.ch = lost.ch \cup passed /\ lost'.silent = lost.silent
          \/ /\ lost'.ch = lost.ch /\ lost'.silent = lost.silent \cup more
             /\ Wipes \/ ReadsFail
      BY <1>3, <2>3, <2>4
    <2>6. passed \subseteq ChAcc'
      BY <2>1, <2>5 DEF ChAcc
    <2>7. To(ChannelLog, u - 1, ChAcc')
      BY <1>5, <2>1, <2>6 DEF To
    <2>8. WorkOK(work', ChAcc')
      BY <2>1, <2>7, WorkStarts, WorkAsks, Zenon
    <2>9. store'.ch = store.ch \/ To(ChannelLog, store'.ch, ChAcc')
      BY <2>2, <2>7
    <2>10. lost.ch \subseteq Of(ChannelLog, "message") /\ lost.silent \subseteq Of(ChannelLog, "message")
      BY <1>3
    <2> QED
      BY <2>1, <2>5, <2>8, <2>9, <2>10 DEF ChannelMove
  <1>24. CASE HandleTooLong
    <2> DEFINE gone == Of(ChannelLog, "message") \cap 1 .. pub.ch
    <2>1. /\ lost' = [lost EXCEPT !.ch = lost.ch \cup gone] /\ given' = given
          /\ store' = store /\ work' = work
      BY <1>24 DEF HandleTooLong
    <2>2. /\ lost'.ch = lost.ch \cup gone /\ lost'.silent = lost.silent
          /\ lost'.ch \subseteq Of(ChannelLog, "message")
      BY <1>3, <2>1
    <2>3. acc \subseteq ChAcc'
      BY <2>1, <2>2 DEF ChAcc
    <2>4. WorkOK(work', ChAcc')
      BY <1>1, <2>1, <2>3, WorkGrows, Zenon
    <2> QED
      BY <1>8, <2>1, <2>2, <2>4
  <1>19. CASE UNCHANGED vars
    BY <1>6, <1>19, Zenon DEF vars, ChannelSame, SameLost
  <1>20. CASE Stimulus
    BY <1>6, <1>16, <1>18, <1>20, <1>23, StateLeavesChannel, Zenon DEF Stimulus
  <1>21. CASE StateStep
    BY <1>6, <1>15, <1>21, StateLeavesChannel, Zenon DEF StateStep
  <1>22. CASE WorkerStep
    BY <1>7, <1>9, <1>10, <1>11, <1>12, <1>13, <1>14, <1>22, <1>24, WorkerMovesOn, Zenon
       DEF WorkerStep, SameLost
  <1> QED
    BY <1>16, <1>17, <1>19, <1>20, <1>21, <1>22 DEF Next, SystemStep
-----------------------------------------------------------------------------
\* The server's logs, the storage, the histories and the queues keep their types.
LEMMA TypeStep ==
  ASSUME IInv, [Next]_vars
  PROVE  TypeOK'
  <1> DEFINE Pubs == [pts : Nat, ch : Nat]
             Stores == [pts : Nat, ch : Nat \cup {None}, known : BOOLEAN]
             Givens == [pts : SUBSET (DOMAIN CommonLog), ch : SUBSET (DOMAIN ChannelLog)]
             Losts == [pts : SUBSET Of(CommonLog, "message"), ch : SUBSET Of(ChannelLog, "message"),
                       silent : SUBSET Of(ChannelLog, "message")]
             Queues == Seq(DOMAIN ChannelLog)
             Outs == Seq(SUBSET (DOMAIN ChannelLog))
  <1>1. /\ pub \in Pubs /\ store \in Stores /\ given \in Givens /\ lost \in Losts
        /\ queue \in Queues /\ out \in Outs
    BY Zenon DEF IInv, TypeOK
  <1>2. /\ main \in Mains /\ main.save \in Nat \cup {None} /\ main.diff \in Diffs(CommonLog)
        /\ main.todo \subseteq DOMAIN ChannelLog
    BY MainFields, Zenon DEF IInv, CommonGood, MainOK, Mains
  <1>3. /\ work \in Works /\ work.save \in Nat \cup {None} /\ work.diff \in Diffs(ChannelLog)
        /\ work.box.state \in Nat
    BY WorkFields DEF IInv, ChannelGood, WorkOK
  <1>4. pub.pts \in Nat /\ pub.ch \in Nat
    BY <1>1
  <1>5. main.diff.to \in Nat /\ work.diff.to \in Nat
    BY <1>2, <1>3 DEF Diffs
  <1>6. /\ \A n \in Nat : [store EXCEPT !.pts = n] \in Stores
        /\ \A n \in Nat \cup {None} : [store EXCEPT !.ch = n] \in Stores
        /\ \A n \in Nat \cup {None} : [store EXCEPT !.ch = n, !.known = TRUE] \in Stores
    BY <1>1
  <1>7. /\ \A s \in SUBSET Of(CommonLog, "message") : [lost EXCEPT !.pts = s] \in Losts
        /\ \A s \in SUBSET Of(ChannelLog, "message") : [lost EXCEPT !.ch = s] \in Losts
        /\ \A s \in SUBSET Of(ChannelLog, "message") : [lost EXCEPT !.silent = s] \in Losts
        /\ lost.pts \subseteq Of(CommonLog, "message") /\ lost.ch \subseteq Of(ChannelLog, "message")
        /\ lost.silent \subseteq Of(ChannelLog, "message")
    BY <1>1, Zenon
  <1>8. \A s : s \subseteq DOMAIN ChannelLog => Append(out, s) \in Outs
    BY <1>1
  <1>9. \A n \in DOMAIN ChannelLog : Append(queue, n) \in Queues
    BY <1>1
  <1>10. queue # << >> => Tail(queue) \in Queues
    BY <1>1
  <1>11. out # << >> => Tail(out) \in Outs
    BY <1>1
  <1> USE DEF TypeOK
  <1>12. ASSUME NEW new \in Stores, Persist(new) PROVE store' \in Stores
    BY <1>1, <1>12, Zenon DEF Persist
  <1>13. CASE Publish(CommonLog, "pts") \/ Publish(ChannelLog, "ch")
    BY <1>1, <1>13 DEF Publish
  <1>14. ASSUME NEW u \in DOMAIN CommonLog, HandlePts(u) PROVE TypeOK'
    BY <1>1, <1>14, MainHandled, Zenon DEF HandlePts, Arrive, MainAt, IInv, CommonGood
  <1>15. CASE OtherUpdate
    <2>1. PICK u \in First(main.diff.others) : MainHandles(u)
      BY <1>15 DEF OtherUpdate
    <2>2. u \in DOMAIN CommonLog
      BY <1>2, <2>1, Zenon DEF First, Diffs
    <2>3. given' \in Givens
      BY <1>15, <2>1, <2>2, MainHandled DEF OtherUpdate, MainAt, IInv, CommonGood
    <2> QED
      BY <1>1, <1>15, <2>3, Zenon DEF OtherUpdate
  <1>16. CASE SetPts
    <2>1. store' \in Stores
      BY <1>2, <1>6, <1>12, <1>16 DEF SetPts
    <2> QED
      BY <1>1, <1>16, <2>1 DEF SetPts
  <1>17. ASSUME NEW u \in DOMAIN ChannelLog, TrackAnew(u) PROVE TypeOK'
    <2>1. u - 1 \in Nat
      BY Positions
    <2>2. store' \in Stores
      <3>1. \/ Persist([store EXCEPT !.ch = u - 1, !.known = TRUE])
            \/ store' \in {store, [store EXCEPT !.ch = u - 1]}
        BY <1>17, Zenon DEF TrackAnew, PersistChannel
      <3>2. /\ [store EXCEPT !.ch = u - 1] \in Stores
            /\ [store EXCEPT !.ch = u - 1, !.known = TRUE] \in Stores
        BY <1>6, <2>1
      <3> QED
        BY <1>1, <1>12, <3>1, <3>2, Zenon
    <2>3. lost' \in Losts
      <3> DEFINE passed == Of(ChannelLog, "message") \cap 1 .. u - 1
      <3>1. \/ lost' = [lost EXCEPT !.ch = lost.ch \cup passed]
            \/ lost' = [lost EXCEPT !.silent = lost.silent \cup (passed \ (given.ch \cup lost.ch))]
        BY <1>17, Zenon DEF TrackAnew
      <3>2. passed \subseteq Of(ChannelLog, "message")
        OBVIOUS
      <3> HIDE DEF passed
      <3> QED
        BY <1>7, <3>1, <3>2
    <2> QED
      BY <1>1, <1>17, <2>2, <2>3 DEF TrackAnew
  <1>18. CASE Stop
    BY <1>1, <1>18 DEF Stop
  <1>19. CASE Push
    <2>1. queue' \in Queues
      BY <1>2, <1>9, <1>19 DEF Push, First
    <2> QED
      BY <1>1, <1>19, <2>1 DEF Push
  <1>20. CASE HandleInternal
    BY <1>1, <1>11, <1>20 DEF HandleInternal
  <1>21. CASE DifferenceTooLong
    <2>1. store' \in Stores
      BY <1>1, <1>4, <1>6, <1>21 DEF DifferenceTooLong
    <2>2. lost' \in Losts
      BY <1>7, <1>21, Zenon DEF DifferenceTooLong
    <2> QED
      BY <1>1, <1>21, <2>1, <2>2, Zenon DEF DifferenceTooLong
  <1>22. CASE NewMessages
    <2>1. main.diff.msgs \subseteq DOMAIN CommonLog
      BY <1>2 DEF Diffs
    <2>2. given' \in Givens
      BY <1>1, <1>22, <2>1 DEF NewMessages
    <2> QED
      BY <1>1, <1>22, <2>2 DEF NewMessages
  <1>23. CASE SetDifferenceState
    <2> DEFINE new == [store EXCEPT !.pts = main.diff.to, !.ch = IF Wipes THEN None ELSE store.ch]
    <2>1. new \in Stores /\ Persist(new)
      BY <1>1, <1>5, <1>23, Zenon DEF SetDifferenceState
    <2> HIDE DEF new
    <2> QED
      BY <1>1, <1>12, <1>23, <2>1 DEF SetDifferenceState
  <1>24. CASE RunForget
    <2>1. store' \in Stores
      BY <1>1, <1>4, <1>24, Zenon DEF RunForget
    <2>2. lost' \in Losts
      BY <1>7, <1>24, Zenon DEF RunForget
    <2> QED
      BY <1>1, <1>24, <2>1, <2>2, Zenon DEF RunForget
  <1>25. CASE HandleUpdate
    <2>1. given' \in Givens
      BY <1>25, WorkHandled DEF IInv, ChannelGood
    <2> QED
      BY <1>1, <1>10, <1>25, <2>1, Zenon DEF HandleUpdate
  <1>26. CASE SetChannelPts
    <2>1. store' \in Stores
      <3>1. [store EXCEPT !.ch = work.save, !.known = TRUE] \in Stores
        BY <1>3, <1>6, Zenon
      <3>2. Persist([store EXCEPT !.ch = work.save, !.known = TRUE])
        BY <1>26, Zenon DEF SetChannelPts, PersistChannel
      <3> QED
        BY <1>12, <3>1, <3>2, Zenon
    <2> QED
      BY <1>1, <1>26, <2>1 DEF SetChannelPts
  <1>27. CASE IgnoreUpdate
    BY <1>1, <1>10, <1>27 DEF IgnoreUpdate
  <1>28. ASSUME NEW wait \in BOOLEAN, ChannelDifferenceEmpty(wait) PROVE TypeOK'
    <2>3. [store EXCEPT !.ch = pub.ch, !.known = TRUE] \in Stores
      BY <1>4, <1>6
    <2>4. Persist([store EXCEPT !.ch = pub.ch, !.known = TRUE])
      BY <1>28, Zenon DEF ChannelDifferenceEmpty, PersistChannel
    <2>1. store' \in Stores
      BY <1>12, <2>3, <2>4, Zenon
    <2> QED
      BY <1>1, <1>28, <2>1 DEF ChannelDifferenceEmpty
  <1>29. ASSUME NEW wait \in BOOLEAN, ChannelDifferenceTooLong(wait) PROVE TypeOK'
    <2>1. store' \in Stores
      BY <1>1, <1>4, <1>6, <1>29 DEF ChannelDifferenceTooLong
    <2>2. lost' \in Losts
      BY <1>7, <1>29 DEF ChannelDifferenceTooLong
    <2> QED
      BY <1>1, <1>29, <2>1, <2>2, Zenon DEF ChannelDifferenceTooLong
  <1>30. CASE SendOut
    <2>1. work.diff.others \subseteq DOMAIN ChannelLog
      BY <1>3 DEF Diffs
    <2>2. out' \in Outs
      BY <1>8, <1>30, <2>1, Zenon DEF SendOut
    <2> QED
      BY <1>1, <1>30, <2>2, Zenon DEF SendOut
  <1>31. CASE NewChannelMessages
    <2>1. work.diff.msgs \subseteq DOMAIN ChannelLog
      BY <1>3 DEF Diffs
    <2>2. given' \in Givens
      BY <1>1, <1>31, <2>1, Zenon DEF NewChannelMessages
    <2> QED
      BY <1>1, <1>31, <2>2, Zenon DEF NewChannelMessages
  <1>32. CASE SetChannelState
    <2>1. store' \in Stores
      BY <1>5, <1>6, <1>12, <1>32 DEF SetChannelState, PersistChannel
    <2> QED
      BY <1>1, <1>32, <2>1 DEF SetChannelState
  <1>38. CASE HandleTooLong
    <2>1. lost' \in Losts
      BY <1>7, <1>38 DEF HandleTooLong
    <2> QED
      BY <1>1, <1>38, <2>1, Zenon DEF HandleTooLong
  <1>33. CASE UNCHANGED <<pub, store, given, lost, queue, out>>
    BY <1>1, <1>33
  <1>34. ASSUME \/ Run \/ RunWithoutHash \/ AskDifference \/ DifferenceEmpty \/ DifferenceFails \/ NestedDifference
                \/ \E to \in DOMAIN CommonLog, changed \in BOOLEAN : Difference(to, changed)
                \/ \E u \in DOMAIN ChannelLog : HandleChannel(u) \/ TrackChannel(u) \/ IgnoreUnknown(u)
                \/ AskChannelDifference \/ WaitOver \/ ChannelDifferenceFails
                \/ \E to \in DOMAIN ChannelLog, wait \in BOOLEAN : ChannelDifference(to, wait)
                \/ UNCHANGED vars
         PROVE  UNCHANGED <<pub, store, given, lost, queue, out>>
    BY <1>34, Zenon DEF Run, AskDifference, DifferenceEmpty, DifferenceFails, NestedDifference, Difference,
                 HandleChannel, AskChannelDifference, WaitOver, ChannelDifferenceFails,
                 ChannelDifference, RunWithoutHash, TrackChannel, IgnoreUnknown, vars
  <1> HIDE DEF TypeOK
  <1>35. CASE Stimulus
    BY <1>13, <1>14, <1>17, <1>18, <1>33, <1>34, <1>35, Zenon DEF Stimulus
  <1>36. CASE StateStep
    BY <1>15, <1>16, <1>19, <1>20, <1>21, <1>22, <1>23, <1>33, <1>34, <1>36, Zenon DEF StateStep
  <1>37. CASE WorkerStep
    BY <1>25, <1>26, <1>27, <1>28, <1>29, <1>30, <1>31, <1>32, <1>33, <1>34, <1>37, <1>38, Zenon
       DEF WorkerStep
  <1> QED
    BY <1>24, <1>33, <1>34, <1>35, <1>36, <1>37, Zenon DEF Next, SystemStep

\* Only a storage that wipes the channels forgets one.
LEMMA KeptStep ==
  ASSUME IInv, [Next]_vars
  PROVE  Kept'
  <1>1. store \in [pts : Nat, ch : Nat \cup {None}, known : BOOLEAN] /\ pub.ch \in Nat /\ Kept
    BY DEF IInv, TypeOK
  <1>2. work \in Works /\ work.save \in Nat \cup {None} /\ work.diff.to \in Nat
    BY WorkFields DEF IInv, ChannelGood, WorkOK
  <1>3. CASE store'.ch = store.ch /\ store'.known = store.known
    BY <1>1, <1>3 DEF Kept
  <1>4. CASE store'.ch \in Nat \/ Wipes
    BY <1>4 DEF Kept, None
  <1>5. ASSUME NEW n \in Nat, PersistChannel(n) PROVE Kept'
    BY <1>1, <1>3, <1>4, <1>5 DEF PersistChannel, Persist
  <1>6. CASE SetPts \/ DifferenceTooLong
    BY <1>1, <1>3, <1>6 DEF SetPts, Persist, DifferenceTooLong
  <1>7. CASE SetDifferenceState \/ RunForget
    BY <1>1, <1>3, <1>4, <1>7 DEF SetDifferenceState, Persist, RunForget
  <1>8. CASE SetChannelPts
    BY <1>2, <1>5, <1>8 DEF SetChannelPts
  <1>9. ASSUME NEW wait \in BOOLEAN, ChannelDifferenceEmpty(wait) PROVE Kept'
    BY <1>1, <1>5, <1>9 DEF ChannelDifferenceEmpty
  <1>10. ASSUME NEW wait \in BOOLEAN, ChannelDifferenceTooLong(wait) PROVE Kept'
    BY <1>1, <1>3, <1>4, <1>10 DEF ChannelDifferenceTooLong
  <1>11. CASE SetChannelState
    BY <1>2, <1>5, <1>11 DEF SetChannelState
  <1>12. ASSUME NEW u \in DOMAIN ChannelLog, TrackAnew(u) PROVE Kept'
    <2>1. u - 1 \in Nat
      BY Positions
    <2> QED
      BY <1>1, <1>3, <1>4, <1>5, <1>12, <2>1 DEF TrackAnew
  <1>13. CASE store' = store
    BY <1>3, <1>13
  <1>14. CASE Stimulus
    BY <1>12, <1>13, <1>14, Zenon DEF Stimulus, Publish, HandlePts, HandleChannel, TrackChannel,
                                      IgnoreUnknown, Stop
  <1>15. CASE StateStep
    BY <1>6, <1>7, <1>13, <1>15, Zenon
       DEF StateStep, Push, HandleInternal, AskDifference, DifferenceEmpty, Difference,
           DifferenceFails, OtherUpdate, NestedDifference, NewMessages
  <1>16. CASE WorkerStep
    BY <1>8, <1>9, <1>10, <1>11, <1>13, <1>16, Zenon
       DEF WorkerStep, HandleUpdate, HandleTooLong, AskChannelDifference, IgnoreUpdate, WaitOver,
           ChannelDifference, ChannelDifferenceFails, SendOut, NewChannelMessages
  <1> QED
    BY <1>7, <1>13, <1>14, <1>15, <1>16, Zenon DEF Next, SystemStep, Run, RunWithoutHash, vars

\* Nothing is stored but the initial position, and nothing runs.
LEMMA InitIInv ==
  ASSUME Init
  PROVE  IInv
  <1>1. TypeOK
    BY DEF Init, TypeOK, None
  <1>2. To(CommonLog, 0, given.pts \cup lost.pts) /\ To(ChannelLog, 0, ChAcc)
    BY Nothing, Constants, Zenon
  <1>3. MainOK(main, given.pts \cup lost.pts) /\ WorkOK(work, ChAcc)
    BY <1>2, MainStarts, WorkStarts, Zenon DEF Init
  <1>4. store.pts = 0 /\ store.ch = None /\ Kept
    BY DEF Init, Kept
  <1> QED
    BY <1>1, <1>2, <1>3, <1>4, Nothing, Constants, Zenon DEF IInv, CommonGood, ChannelGood

\* Every step preserves the inductive invariant.
LEMMA StepIInv ==
  ASSUME IInv, [Next]_vars
  PROVE  IInv'
  <1>1. CommonGood'
    BY CommonStep, CommonMoveKeeps, Zenon DEF IInv, CommonGood
  <1>2. ChannelGood'
    BY ChannelStep, ChannelMoveKeeps DEF IInv, ChannelGood
  <1> QED
    BY <1>1, <1>2, TypeStep, KeptStep, Zenon DEF IInv

\* It holds in every reachable state.
LEMMA AlwaysIInv == Spec => []IInv
  BY InitIInv, StepIInv, PTL DEF Spec

\* The stored common pts implements AtLeastOnce: whatever is lost, repeated or
\* reordered, whenever storage and RPCs fail and wherever the manager is stopped,
\* it never passes a message that was neither handed over nor given up on.
THEOREM CommonImplements == Spec => CommonAtLeastOnce
  <1>1. Init => Common!Init
    BY DEF Init, Common!Init
  <1>2. IInv /\ [Next]_vars => [Common!Next]_(Common!vars)
    <2>1. SUFFICES ASSUME IInv, [Next]_vars PROVE Common!Next
      OBVIOUS
    <2>2. CommonMove
      BY <2>1, CommonStep, Zenon
    <2> QED
      BY <2>2 DEF CommonMove, To, Common!Next, Common!HandOver, Common!Save, Common!GiveUp,
                  Common!Passable
  <1> QED
    BY <1>1, <1>2, AlwaysIInv, PTL DEF Spec, CommonAtLeastOnce, Common!Spec

\* The channel's stored pts implements AtLeastOnce as well: it passes only messages
\* that were handed over or of which the application was told, those from before
\* the channel was first stored and, only if SetState wipes the channels or
\* GetChannelPts may fail, those handleChannel skips when it starts a worker
\* without the stored pts.
THEOREM ChannelImplements == Spec => ChannelAtLeastOnce
  <1>1. Init => Channel!Init
    BY DEF Init, Channel!Init
  <1>2. IInv /\ [Next]_vars => [Channel!Next]_(Channel!vars)
    <2>1. SUFFICES ASSUME IInv, [Next]_vars PROVE Channel!Next
      OBVIOUS
    <2>2. ChannelMove
      BY <2>1, ChannelStep
    <2> QED
      BY <2>2 DEF ChannelMove, SameLost, ChAcc, To, Channel!Next, Channel!HandOver, Channel!Save,
                  Channel!GiveUp, Channel!Skip, Channel!Passable
  <1> QED
    BY <1>1, <1>2, AlwaysIInv, PTL DEF Spec, ChannelAtLeastOnce, Channel!Spec
=============================================================================
