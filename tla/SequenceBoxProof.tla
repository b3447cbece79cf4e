-------------------------- MODULE SequenceBoxProof --------------------------
(***************************************************************************)
(* The safety properties of SequenceBox for every log without overlaps,    *)
(* every restored state and any number of messages.                        *)
(***************************************************************************)
EXTENDS SequenceBox, TLAPS

\* A value the counter can have on the server: inside no update's range.
Boundary(b) == \A u \in Updates : end(u) <= b \/ b <= start(u)

Known(m) == [State |-> m.State, Count |-> m.Count] \in Updates

\* Gaps end at boundaries and do not overlap.
GoodGaps(gs) ==
  /\ gs \subseteq Gaps
  /\ \A g \in gs : g.from < g.to /\ Boundary(g.from) /\ Boundary(g.to)
  /\ \A g, h \in gs : g = h \/ g.to <= h.from \/ h.to <= g.from

GapsOK == GoodGaps(gaps) /\ \A g \in gaps : state <= g.from

PositionsOK ==
  /\ Boundary(state) /\ Boundary(server) /\ Boundary(cur)
  /\ \A m \in pending : Known(m)

LoopsOK ==
  /\ pc # "consume" => todo = {}
  /\ pc = "consume" /\ gaps = {} => \E u \in pending : Covers(u, state + 1)
  /\ pc = "apply" => gaps = {} /\ Order!Chain(state, accepted, cur)

\* The inductive invariant.
IInv ==
  /\ TypeOK
  /\ PositionsOK
  /\ GapsOK
  /\ HolesTracked
  /\ LoopsOK
  /\ NoEmptyBuffer
  /\ GapHasTimer
  /\ InOrder
-----------------------------------------------------------------------------
\* What an update of the log looks like once it is in the buffer.
LEMMA KnownFacts ==
  ASSUME NEW m \in Received, Known(m)
  PROVE  /\ m.State \in Nat /\ m.Count \in Nat /\ m.State # 0
         /\ start(m) \in Nat /\ end(m) \in Nat /\ start(m) <= end(m)
  BY UpdatesAssumption DEF Known, Received, start, end

\* The updates of the server's log: their type and bounds.
LEMMA UpdateFacts ==
  ASSUME NEW u \in Updates
  PROVE  /\ u.State \in Nat /\ u.Count \in Nat /\ u.State # 0
         /\ start(u) \in Nat /\ end(u) \in Nat /\ start(u) <= end(u)
         /\ Boundary(start(u)) /\ Boundary(end(u))
         /\ u = [State |-> u.State, Count |-> u.Count]
  BY UpdatesAssumption DEF start, end, Boundary

\* checkGap only compares the local state with the start of the update.
LEMMA CheckFacts ==
  ASSUME NEW c \in Nat, NEW s \in Nat, NEW n \in Nat, s # 0
  PROVE  /\ checkGap(c, s, n) = "gapApply" <=> s - n = c
         /\ checkGap(c, s, n) = "gapIgnore" <=> s - n < c
         /\ checkGap(c, s, n) = "gapRefetch" <=> c < s - n
  BY DEF checkGap

\* An update that starts where a chain ends extends it.
LEMMA ChainAppend ==
  ASSUME NEW s \in Nat, NEW t \in Nat, NEW q \in Seq(Received), NEW r \in Received,
         Order!Chain(s, q, t), start(r) = t
  PROVE  Order!Chain(s, Append(q, r), r.State)
  <1> DEFINE a == Append(q, r)
  <1>1. Len(a) = Len(q) + 1 /\ a # << >> /\ a[Len(a)] = r
    OBVIOUS
  <1>2. \A i \in 1 .. Len(q) : a[i] = q[i]
    OBVIOUS
  <1>3. a[1].State - a[1].Count = s
    <2>1. CASE q = << >>
      BY <2>1, <1>1 DEF Order!Chain, start
    <2>2. CASE q # << >>
      BY <2>2, <1>2 DEF Order!Chain
    <2> QED BY <2>1, <2>2
  <1>4. ASSUME NEW i \in 1 .. Len(a) - 1
        PROVE  a[i + 1].State - a[i + 1].Count = a[i].State
    <2>1. CASE i = Len(q)
      BY <2>1, <1>1, <1>2 DEF Order!Chain, start
    <2>2. CASE i < Len(q)
      BY <2>2, <1>1, <1>2 DEF Order!Chain
    <2> QED BY <1>1, <2>1, <2>2
  <1> HIDE DEF a
  <1>5. Order!Chain(s, a, r.State)
    BY <1>1, <1>3, <1>4 DEF Order!Chain
  <1> QED BY <1>5 DEF a

\* Two chains that meet make one.
LEMMA ChainConcat ==
  ASSUME NEW s \in Nat, NEW t \in Nat, NEW w \in Nat,
         NEW q \in Seq(Received), NEW r \in Seq(Received),
         Order!Chain(s, q, t), Order!Chain(t, r, w)
  PROVE  Order!Chain(s, q \o r, w)
  <1> DEFINE a == q \o r
  <1>1. CASE q = << >>
    <2>1. q \o r = r BY <1>1
    <2> QED BY <1>1, <2>1 DEF Order!Chain
  <1>2. CASE r = << >>
    <2>1. q \o r = q BY <1>2
    <2> QED BY <1>2, <2>1 DEF Order!Chain
  <1>3. CASE q # << >> /\ r # << >>
    <2>1. Len(a) = Len(q) + Len(r) /\ a # << >> /\ Len(q) > 0 /\ Len(r) > 0
      BY <1>3
    <2>2. \A i \in 1 .. Len(q) : a[i] = q[i]
      OBVIOUS
    <2>3. \A i \in Len(q) + 1 .. Len(q) + Len(r) : a[i] = r[i - Len(q)]
      OBVIOUS
    <2> HIDE DEF a
    <2>4. a[1].State - a[1].Count = s
      <3>1. a[1] = q[1]
        BY <2>1, <2>2
      <3> QED BY <1>3, <3>1 DEF Order!Chain
    <2>5. a[Len(a)].State = w
      BY <1>3, <2>1, <2>3 DEF Order!Chain
    <2>6. ASSUME NEW i \in 1 .. Len(a) - 1
          PROVE  a[i + 1].State - a[i + 1].Count = a[i].State
      <3>1. CASE i < Len(q)
        BY <3>1, <2>2 DEF Order!Chain
      <3>2. CASE i = Len(q)
        <4>1. a[i] = q[Len(q)]
          BY <3>2, <2>1, <2>2
        <4>2. a[i + 1] = r[1]
          BY <3>2, <2>1, <2>3
        <4> QED BY <4>1, <4>2, <1>3 DEF Order!Chain
      <3>3. CASE i > Len(q)
        <4> DEFINE j == i - Len(q)
        <4>1. j \in 1 .. Len(r) - 1 /\ a[i] = r[j] /\ a[i + 1] = r[j + 1]
          BY <3>3, <2>1, <2>3
        <4> HIDE DEF j
        <4> QED BY <4>1 DEF Order!Chain
      <3> QED BY <2>1, <3>1, <3>2, <3>3
    <2> QED
      BY <2>1, <2>4, <2>5, <2>6 DEF Order!Chain, a
  <1> QED BY <1>1, <1>2, <1>3

InGaps(gs, p) == \E g \in gs : InGap(g, p)

\* An update of the log, or a buffered copy of one.
Whole(u) ==
  /\ start(u) \in Nat /\ end(u) \in Nat /\ start(u) <= end(u)
  /\ Boundary(start(u)) /\ Boundary(end(u))
  /\ \A b \in Nat : Boundary(b) => end(u) <= b \/ b <= start(u)

\* An update of the log covers what lies between its ends.
LEMMA UpdateWhole == \A u \in Updates : Whole(u)
  BY UpdateFacts DEF Whole, Boundary

\* So does a buffered copy of one.
LEMMA KnownWhole == ASSUME NEW m \in Received, Known(m) PROVE Whole(m)
  <1> DEFINE u == [State |-> m.State, Count |-> m.Count]
  <1>1. u \in Updates
    BY DEF Known
  <1>2. start(u) = start(m) /\ end(u) = end(m)
    BY DEF start, end
  <1> HIDE DEF u
  <1> QED BY <1>1, <1>2, UpdateWhole DEF Whole

\* gapBuffer.Consume removes the update's range from the gaps, and nothing
\* else; what it leaves is inside what there was.
LEMMA ConsumeFacts ==
  ASSUME NEW gs, GoodGaps(gs), NEW u, Whole(u)
  PROVE  /\ GoodGaps(Consume(gs, u))
         /\ \A h \in Consume(gs, u) : \E g \in gs : g.from <= h.from /\ h.to <= g.to
         /\ \A p \in Nat : InGaps(Consume(gs, u), p) <=> InGaps(gs, p) /\ ~ Covers(u, p)
  <1> DEFINE hit == {g \in gs : Accepts(g, u)}
  <1>1. ASSUME NEW g \in gs, NEW p \in Nat, InGap(g, p), Covers(u, p)
        PROVE  g \in hit
    BY <1>1 DEF GoodGaps, Gaps, Whole, InGap, Covers, Accepts
  <1>2. CASE hit = {}
    <2>1. Consume(gs, u) = gs
      BY <1>2 DEF Consume
    <2> QED BY <1>1, <1>2, <2>1 DEF GoodGaps, Gaps, InGaps
  <1>3. CASE hit # {}
    <2> DEFINE g == CHOOSE x \in hit : TRUE
               new == (gs \ {g}) \cup Split(g, u)
    <2>1. g \in hit
      BY <1>3
    <2>2. Consume(gs, u) = new
      BY <1>3 DEF Consume
    <2> HIDE DEF g
    <2>3. /\ g \in gs /\ g \in Gaps /\ g.from \in Nat /\ g.to \in Nat
          /\ g.from <= start(u) /\ end(u) <= g.to
          /\ Boundary(g.from) /\ Boundary(g.to)
      BY <2>1 DEF Accepts, GoodGaps, Gaps
    <2>4. \A h \in Split(g, u) :
             /\ h \in Gaps /\ h.from \in Nat /\ h.to \in Nat /\ h.from < h.to
             /\ g.from <= h.from /\ h.to <= g.to
             /\ Boundary(h.from) /\ Boundary(h.to)
             /\ h.to <= start(u) \/ end(u) <= h.from
      BY <2>3 DEF Split, Gaps, Whole
    <2>5. \A h, k \in Split(g, u) : h = k \/ h.to <= k.from \/ k.to <= h.from
      BY <2>3 DEF Split, Whole
    <2>6. \A h \in gs \ {g} : g.to <= h.from \/ h.to <= g.from
      BY <2>3 DEF GoodGaps, Gaps
    <2>7. GoodGaps(new)
      <3>1. /\ new \subseteq Gaps
            /\ \A h \in new : h.from < h.to /\ Boundary(h.from) /\ Boundary(h.to)
        BY <2>4 DEF GoodGaps
      <3>2. ASSUME NEW h \in gs \ {g}, NEW k \in Split(g, u)
            PROVE  h.to <= k.from \/ k.to <= h.from
        <4>1. h.from \in Nat /\ h.to \in Nat
          BY DEF GoodGaps, Gaps
        <4>2. g.to <= h.from \/ h.to <= g.from
          BY <2>6
        <4>3. k.from \in Nat /\ k.to \in Nat /\ g.from <= k.from /\ k.to <= g.to
          BY <2>4
        <4> QED BY <2>3, <4>1, <4>2, <4>3
      <3>3. \A h, k \in gs \ {g} : h = k \/ h.to <= k.from \/ k.to <= h.from
        BY DEF GoodGaps
      <3>4. \A h, k \in new : h = k \/ h.to <= k.from \/ k.to <= h.from
        BY <2>5, <3>2, <3>3
      <3> QED BY <3>1, <3>4 DEF GoodGaps
    <2>8. \A h \in new : \E k \in gs : k.from <= h.from /\ h.to <= k.to
      <3> TAKE h \in new
      <3>1. CASE h \in gs
        BY <3>1 DEF GoodGaps, Gaps
      <3>2. CASE h \in Split(g, u)
        BY <3>2, <2>3, <2>4
      <3> QED BY <3>1, <3>2
    <2>9. ASSUME NEW p \in Nat
          PROVE  InGaps(new, p) <=> InGaps(gs, p) /\ ~ Covers(u, p)
      <3>1. ASSUME InGaps(new, p)
            PROVE  InGaps(gs, p) /\ ~ Covers(u, p)
        <4>1. PICK h \in new : InGap(h, p)
          BY <3>1 DEF InGaps
        <4>2. CASE h \in Split(g, u)
          BY <4>1, <4>2, <2>3, <2>4 DEF InGaps, InGap, Covers, Whole
        <4>3. CASE h \in gs \ {g}
          <5>1. InGaps(gs, p)
            BY <4>1, <4>3 DEF InGaps
          <5>2. g.to <= h.from \/ h.to <= g.from
            BY <4>3, <2>6
          <5>3. h.from \in Nat /\ h.to \in Nat
            BY <4>3 DEF GoodGaps, Gaps
          <5>4. ~ Covers(u, p)
            BY <4>1, <5>2, <5>3, <2>3 DEF InGap, Covers, Whole
          <5> QED BY <5>1, <5>4
        <4> QED BY <4>1, <4>2, <4>3
      <3>2. ASSUME InGaps(gs, p), ~ Covers(u, p)
            PROVE  InGaps(new, p)
        <4>1. PICK h \in gs : InGap(h, p)
          BY <3>2 DEF InGaps
        <4>2. CASE h # g
          BY <4>1, <4>2 DEF InGaps
        <4>3. CASE h = g
          <5>1. CASE p <= start(u)
            <6> DEFINE k == [from |-> g.from, to |-> start(u)]
            <6>1. k \in Split(g, u) /\ InGap(k, p)
              BY <5>1, <4>1, <4>3, <2>3 DEF Split, InGap, Whole
            <6> QED BY <6>1 DEF InGaps
          <5>2. CASE end(u) < p
            <6> DEFINE k == [from |-> end(u), to |-> g.to]
            <6>1. k \in Split(g, u) /\ InGap(k, p)
              BY <5>2, <4>1, <4>3, <2>3 DEF Split, InGap, Whole
            <6> QED BY <6>1 DEF InGaps
          <5> QED BY <3>2, <5>1, <5>2 DEF Covers, Whole
        <4> QED BY <4>2, <4>3
      <3> QED BY <3>1, <3>2
    <2> QED BY <2>2, <2>7, <2>8, <2>9
  <1> QED BY <1>2, <1>3

\* The copy of an update that Handle puts in the buffer.
LEMMA TaggedFacts ==
  ASSUME NEW u \in Updates, handled \in Nat
  PROVE  /\ Tagged(u) \in Received /\ Known(Tagged(u))
         /\ start(Tagged(u)) = start(u) /\ end(Tagged(u)) = end(u)
         /\ Tagged(u).State = u.State
         /\ \A c : Check(c, Tagged(u)) = Check(c, u)
  BY UpdateFacts DEF Tagged, Received, Known, start, end, Check

\* Check on an update of the log.
LEMMA CheckUpdate ==
  ASSUME NEW c \in Nat, NEW u \in Updates
  PROVE  /\ Check(c, u) = "gapApply" <=> start(u) = c
         /\ Check(c, u) = "gapIgnore" <=> start(u) < c
         /\ Check(c, u) = "gapRefetch" <=> c < start(u)
  BY UpdateFacts, CheckFacts DEF Check, start

\* Check on a buffered copy.
LEMMA CheckKnown ==
  ASSUME NEW c \in Nat, NEW m \in Received, Known(m)
  PROVE  /\ Check(c, m) = "gapApply" <=> start(m) = c
         /\ Check(c, m) = "gapIgnore" <=> start(m) < c
         /\ Check(c, m) = "gapRefetch" <=> c < start(m)
  BY KnownFacts, CheckFacts DEF Check, start

\* An update over the position after a boundary starts at that boundary.
LEMMA CoversNext ==
  ASSUME NEW s \in Nat, Boundary(s), NEW u, Whole(u), Covers(u, s + 1)
  PROVE  start(u) = s
  BY DEF Whole, Covers

\* When the last gap is consumed, the update after the state is buffered.
LEMMA LastGap ==
  ASSUME IInv, gaps # {}, NEW u, Whole(u), Consume(gaps, u) = {}
  PROVE  \/ Covers(u, state + 1)
         \/ \E m \in pending : Covers(m, state + 1)
  <1>1. PICK g \in gaps : TRUE
    OBVIOUS
  <1>2. state \in Nat /\ g.from \in Nat /\ g.to \in Nat /\ state <= g.from /\ g.from < g.to
    BY <1>1 DEF IInv, TypeOK, GapsOK, GoodGaps, Gaps
  <1>3. state + 1 \in state + 1 .. g.to
    BY <1>2
  <1>4. InGaps(gaps, state + 1) <=> ~ \E m \in pending \ todo : Covers(m, state + 1)
    BY <1>1, <1>3 DEF IInv, HolesTracked, InGaps
  <1>5. InGaps(Consume(gaps, u), state + 1)
           <=> InGaps(gaps, state + 1) /\ ~ Covers(u, state + 1)
    <2>1. GoodGaps(gaps) /\ state + 1 \in Nat
      BY <1>2 DEF IInv, GapsOK
    <2> QED BY <2>1, ConsumeFacts
  <1>6. ~ InGaps(Consume(gaps, u), state + 1)
    BY DEF InGaps
  <1> QED BY <1>4, <1>5, <1>6

\* Consuming an update keeps the gaps in step with the buffer.
LEMMA ConsumeTracked ==
  ASSUME IInv, NEW u, Whole(u), NEW seen,
         \A p : (\E m \in seen : Covers(m, p))
                  <=> (\E m \in pending \ todo : Covers(m, p)) \/ Covers(u, p)
  PROVE  /\ GoodGaps(Consume(gaps, u))
         /\ \A g \in Consume(gaps, u) : state <= g.from
         /\ \A g \in Consume(gaps, u) : \A p \in state + 1 .. g.to :
               InGaps(Consume(gaps, u), p) <=> ~ \E m \in seen : Covers(m, p)
  <1> DEFINE new == Consume(gaps, u)
  <1>1. /\ GoodGaps(gaps) /\ state \in Nat
        /\ \A g \in gaps : g.from \in Nat /\ g.to \in Nat /\ state <= g.from
    BY DEF IInv, TypeOK, GapsOK, Gaps
  <1>2. /\ GoodGaps(new)
        /\ \A h \in new : \E g \in gaps : g.from <= h.from /\ h.to <= g.to
        /\ \A p \in Nat : InGaps(new, p) <=> InGaps(gaps, p) /\ ~ Covers(u, p)
    BY <1>1, ConsumeFacts
  <1> HIDE DEF new
  <1>3. \A h \in new : h.from \in Nat /\ h.to \in Nat
    BY <1>2 DEF GoodGaps, Gaps
  <1>4. \A h \in new : state <= h.from
    BY <1>1, <1>2, <1>3
  <1>5. ASSUME NEW h \in new, NEW p \in state + 1 .. h.to
        PROVE  InGaps(new, p) <=> ~ \E m \in seen : Covers(m, p)
    <2>1. PICK g \in gaps : h.to <= g.to
      BY <1>2
    <2>2. p \in Nat /\ p \in state + 1 .. g.to
      BY <1>1, <1>3, <2>1
    <2>3. InGaps(gaps, p) <=> ~ \E m \in pending \ todo : Covers(m, p)
      BY <2>1, <2>2 DEF IInv, HolesTracked, InGaps
    <2> QED BY <1>2, <2>2, <2>3
  <1> QED BY <1>2, <1>4, <1>5 DEF new

\* A new box satisfies IInv.
LEMMA InitIInv == Init => IInv
  <1> SUFFICES ASSUME Init PROVE IInv
    OBVIOUS
  <1>1. TypeOK
    <2>1. timer \in BOOLEAN
      BY Zenon DEF Init
    <2> QED BY <2>1, InitialAssumption DEF Init, TypeOK
  <1>2. PositionsOK
    BY InitialAssumption DEF Init, PositionsOK, Boundary
  <1>3. GapsOK /\ HolesTracked /\ LoopsOK /\ NoEmptyBuffer /\ GapHasTimer
    BY DEF Init, GapsOK, GoodGaps, HolesTracked, LoopsOK, NoEmptyBuffer, GapHasTimer
  <1>4. InOrder
    BY DEF Init, InOrder, Order!Chain
  <1> QED BY <1>1, <1>2, <1>3, <1>4 DEF IInv

\* The server's log grows: the box is as it was.
LEMMA PublishIInv == ASSUME IInv, NEW u \in Updates, Publish(u) PROVE IInv'
  <1>1. TypeOK' /\ PositionsOK'
    BY UpdateFacts DEF IInv, TypeOK, PositionsOK, Publish, Boundary
  <1>2. GapsOK' /\ HolesTracked' /\ LoopsOK' /\ NoEmptyBuffer' /\ GapHasTimer' /\ InOrder'
    BY DEF IInv, Publish, GapsOK, GoodGaps, HolesTracked, LoopsOK, NoEmptyBuffer,
           GapHasTimer, InOrder, Check
  <1> QED BY <1>1, <1>2 DEF IInv

\* Handle drops an outdated update.
LEMMA SkipIInv == ASSUME IInv, NEW u \in Updates, Skip(u) PROVE IInv'
  <1>1. TypeOK' /\ PositionsOK'
    BY DEF IInv, TypeOK, PositionsOK, Skip, Arrive
  <1>2. GapsOK' /\ HolesTracked' /\ LoopsOK' /\ NoEmptyBuffer' /\ GapHasTimer' /\ InOrder'
    BY DEF IInv, Skip, Arrive, GapsOK, GoodGaps, HolesTracked, LoopsOK, NoEmptyBuffer,
           GapHasTimer, InOrder, Check
  <1> QED BY <1>1, <1>2 DEF IInv

\* Handle buffers an update while a gap is open.
LEMMA BufferIInv == ASSUME IInv, NEW u \in Updates, Buffer(u) PROVE IInv'
  <1> DEFINE t == Tagged(u)
  <1>1. /\ t \in Received /\ Known(t) /\ Whole(u)
        /\ start(t) = start(u) /\ end(t) = end(u)
        /\ \A c : Check(c, t) = Check(c, u)
    BY TaggedFacts, UpdateWhole DEF IInv, TypeOK
  <1>2. /\ pc = "idle" /\ todo = {} /\ todo' = {} /\ state \in Nat /\ handled' \in Nat
        /\ pending' = pending \cup {t} /\ gaps' = Consume(gaps, u) /\ gaps # {}
        /\ UNCHANGED <<server, state, log>>
    BY DEF IInv, TypeOK, LoopsOK, Buffer, Arrive
  <1> HIDE DEF t
  <1>3. /\ GoodGaps(gaps') /\ \A g \in gaps' : state <= g.from
        /\ \A g \in gaps' : \A p \in state + 1 .. g.to :
               InGaps(gaps', p) <=> ~ \E m \in pending' : Covers(m, p)
    <2>1. \A p : (\E m \in pending' : Covers(m, p))
                    <=> (\E m \in pending \ todo : Covers(m, p)) \/ Covers(u, p)
      BY <1>1, <1>2 DEF Covers
    <2> DEFINE new == Consume(gaps, u)
    <2>2. /\ GoodGaps(new) /\ \A g \in new : state <= g.from
          /\ \A g \in new : \A p \in state + 1 .. g.to :
                InGaps(new, p) <=> ~ \E m \in pending' : Covers(m, p)
      BY <1>1, <2>1, ConsumeTracked
    <2> HIDE DEF new
    <2> QED BY <1>2, <2>2 DEF new
  <1>4. HolesTracked'
    BY <1>2, <1>3 DEF HolesTracked, InGaps
  <1>5. GapsOK'
    BY <1>2, <1>3 DEF GapsOK, GoodGaps
  <1>6. CASE gaps' = {}
    <2>1. pc' = "apply" /\ cur' = state /\ accepted' = << >> /\ timer' = FALSE
      BY <1>6 DEF Buffer, EnterApply
    <2>2. TypeOK' /\ PositionsOK'
      <3>1. timer' \in BOOLEAN
        BY <2>1, Zenon
      <3> QED BY <1>1, <1>2, <1>6, <2>1, <3>1 DEF IInv, TypeOK, PositionsOK, Boundary
    <2>3. \E m \in pending' : Check(state, m) = "gapApply"
      <3>1. PICK m \in pending' : Covers(m, state + 1)
        BY <1>1, <1>2, <1>6, LastGap DEF Covers
      <3>2. m \in Received /\ Known(m) /\ Boundary(state)
        BY <1>1, <1>2 DEF IInv, TypeOK, PositionsOK
      <3>3. start(m) = state
        BY <1>2, <3>1, <3>2, KnownWhole, CoversNext
      <3> QED BY <1>2, <3>2, <3>3, CheckKnown
    <2>4. LoopsOK' /\ NoEmptyBuffer' /\ GapHasTimer'
      BY <1>2, <1>6, <2>1, <2>3 DEF LoopsOK, NoEmptyBuffer, GapHasTimer, Check, Order!Chain
    <2>5. InOrder'
      BY <1>2 DEF IInv, InOrder
    <2> QED BY <1>4, <1>5, <2>2, <2>4, <2>5 DEF IInv
  <1>7. CASE gaps' # {}
    <2>1. UNCHANGED <<pc, cur, accepted, timer>>
      BY <1>7 DEF Buffer
    <2>2. TypeOK' /\ PositionsOK'
      BY <1>1, <1>2, <1>3, <2>1 DEF IInv, TypeOK, PositionsOK, GoodGaps
    <2>3. LoopsOK' /\ NoEmptyBuffer' /\ InOrder'
      BY <1>2, <2>1 DEF IInv, LoopsOK, NoEmptyBuffer, InOrder
    <2>4. GapHasTimer'
      BY <1>2, <2>1 DEF IInv, GapHasTimer
    <2> QED BY <1>4, <1>5, <2>2, <2>3, <2>4 DEF IInv
  <1> QED BY <1>6, <1>7

\* Handle takes the next update.
LEMMA AcceptIInv == ASSUME IInv, NEW u \in Updates, Accept(u) PROVE IInv'
  <1> DEFINE t == Tagged(u)
  <1>1. /\ t \in Received /\ Known(t) /\ t.State = u.State
        /\ start(t) = start(u) /\ end(t) = end(u)
        /\ \A c : Check(c, t) = Check(c, u)
    BY TaggedFacts DEF IInv, TypeOK
  <1>2. /\ pc = "idle" /\ todo = {} /\ todo' = {} /\ state \in Nat /\ handled' \in Nat
        /\ gaps = {} /\ gaps' = {} /\ Check(state, u) = "gapApply"
        /\ UNCHANGED <<server, timer>>
    BY DEF IInv, TypeOK, LoopsOK, Accept, Arrive
  <1> HIDE DEF t
  <1>3. GapsOK' /\ HolesTracked' /\ GapHasTimer'
    BY <1>2 DEF GapsOK, GoodGaps, HolesTracked, GapHasTimer
  <1>4. CASE pending = {}
    <2>1. /\ log' = Append(log, t) /\ state' = u.State
          /\ UNCHANGED <<pending, pc, cur, accepted>>
      BY <1>4 DEF Accept, t
    <2>2. TypeOK'
      BY <1>1, <1>2, <2>1, UpdateFacts DEF IInv, TypeOK
    <2>3. PositionsOK'
      BY <1>2, <2>1, UpdateFacts DEF IInv, PositionsOK, end, Boundary
    <2>4. LoopsOK' /\ NoEmptyBuffer'
      BY <1>2, <2>1 DEF LoopsOK, NoEmptyBuffer
    <2>5. InOrder'
      <3>1. start(t) = state
        BY <1>1, <1>2, CheckUpdate
      <3>2. Order!Chain(InitialState, Append(log, t), t.State)
        BY <1>1, <1>2, <3>1, ChainAppend, InitialAssumption DEF IInv, TypeOK, InOrder
      <3> QED BY <1>1, <2>1, <3>2 DEF InOrder
    <2> QED BY <1>3, <2>2, <2>3, <2>4, <2>5 DEF IInv
  <1>5. CASE pending # {}
    <2>1. /\ pending' = pending \cup {t} /\ pc' = "apply" /\ cur' = state
          /\ accepted' = << >> /\ UNCHANGED <<log, state>>
      BY <1>5 DEF Accept, EnterApply, t
    <2>2. TypeOK' /\ PositionsOK'
      BY <1>1, <1>2, <2>1 DEF IInv, TypeOK, PositionsOK
    <2>3. LoopsOK' /\ NoEmptyBuffer'
      BY <1>1, <1>2, <2>1 DEF LoopsOK, NoEmptyBuffer, Check, Order!Chain
    <2>4. InOrder'
      BY <2>1 DEF IInv, InOrder
    <2> QED BY <1>3, <2>2, <2>3, <2>4 DEF IInv
  <1> QED BY <1>4, <1>5

\* Handle finds a gap.
LEMMA OpenGapIInv == ASSUME IInv, NEW u \in Updates, OpenGap(u) PROVE IInv'
  <1> DEFINE t == Tagged(u)
             g == [from |-> state, to |-> start(u)]
  <1>1. t \in Received /\ Known(t)
    BY TaggedFacts DEF IInv, TypeOK
  <1>2. /\ pc' = "consume" /\ state \in Nat /\ handled' \in Nat
        /\ pending' = pending \cup {t} /\ todo' = pending' /\ gaps' = {g}
        /\ Check(state, u) = "gapRefetch"
        /\ UNCHANGED <<server, state, timer, cur, accepted, log>>
    BY DEF IInv, TypeOK, OpenGap, Arrive
  <1>3. start(u) \in Nat /\ state < start(u) /\ Boundary(state) /\ Boundary(start(u))
    BY <1>2, CheckUpdate, UpdateFacts DEF IInv, PositionsOK
  <1>4. g \in Gaps /\ g.from = state /\ g.to = start(u)
    BY <1>2, <1>3 DEF Gaps
  <1> HIDE DEF t, g
  <1>5. TypeOK' /\ PositionsOK'
    BY <1>1, <1>2, <1>4 DEF IInv, TypeOK, PositionsOK, Boundary
  <1>6. GapsOK'
    BY <1>2, <1>3, <1>4 DEF GapsOK, GoodGaps, Boundary
  <1>7. HolesTracked'
    BY <1>2, <1>3, <1>4 DEF HolesTracked, InGap
  <1>8. LoopsOK' /\ NoEmptyBuffer' /\ GapHasTimer' /\ InOrder'
    BY <1>2 DEF IInv, LoopsOK, NoEmptyBuffer, GapHasTimer, InOrder
  <1> QED BY <1>5, <1>6, <1>7, <1>8 DEF IInv

\* Handle's loop over the buffered updates.
LEMMA OfferPendingIInv == ASSUME IInv, NEW u \in todo, OfferPending(u) PROVE IInv'
  <1>1. /\ u \in pending /\ todo \subseteq pending /\ pc = "consume" /\ todo' = todo \ {u}
        /\ gaps' = Consume(gaps, u)
        /\ UNCHANGED <<server, state, timer, pending, handled, pc, cur, accepted, log>>
    BY DEF IInv, TypeOK, OfferPending
  <1>2. Whole(u)
    BY <1>1, KnownWhole DEF IInv, TypeOK, PositionsOK
  <1>3. /\ GoodGaps(gaps') /\ \A g \in gaps' : state <= g.from
        /\ \A g \in gaps' : \A p \in state + 1 .. g.to :
               InGaps(gaps', p) <=> ~ \E m \in pending \ todo' : Covers(m, p)
    <2> DEFINE seen == pending \ todo'
               new == Consume(gaps, u)
    <2>1. \A p : (\E m \in seen : Covers(m, p))
                    <=> (\E m \in pending \ todo : Covers(m, p)) \/ Covers(u, p)
      BY <1>1
    <2> HIDE DEF seen
    <2>2. /\ GoodGaps(new) /\ \A g \in new : state <= g.from
          /\ \A g \in new : \A p \in state + 1 .. g.to :
                InGaps(new, p) <=> ~ \E m \in seen : Covers(m, p)
      BY <1>2, <2>1, ConsumeTracked
    <2> HIDE DEF new
    <2> QED BY <1>1, <2>2 DEF seen, new
  <1>4. HolesTracked'
    BY <1>1, <1>3 DEF HolesTracked, InGaps
  <1>5. GapsOK'
    BY <1>1, <1>3 DEF GapsOK, GoodGaps, Boundary
  <1>6. TypeOK' /\ PositionsOK'
    BY <1>1, <1>3 DEF IInv, TypeOK, PositionsOK, GoodGaps
  <1>7. LoopsOK'
    <2>1. ASSUME gaps' = {} PROVE \E m \in pending : Covers(m, state + 1)
      <3>1. CASE gaps = {}
        BY <1>1, <3>1 DEF IInv, LoopsOK
      <3>2. CASE gaps # {}
        BY <1>1, <1>2, <2>1, <3>2, LastGap
      <3> QED BY <3>1, <3>2
    <2> QED BY <1>1, <2>1 DEF LoopsOK, Covers
  <1>8. NoEmptyBuffer' /\ GapHasTimer' /\ InOrder'
    BY <1>1 DEF IInv, NoEmptyBuffer, GapHasTimer, InOrder
  <1> QED BY <1>4, <1>5, <1>6, <1>7, <1>8 DEF IInv

\* The end of that loop.
LEMMA GapOpenedIInv == ASSUME IInv, GapOpened PROVE IInv'
  <1>1. /\ pc = "consume" /\ todo = {} /\ state \in Nat /\ Boundary(state)
        /\ UNCHANGED <<server, state, gaps, pending, handled, todo, log>>
    BY DEF IInv, TypeOK, PositionsOK, GapOpened
  <1>2. GapsOK' /\ HolesTracked' /\ InOrder'
    BY <1>1 DEF IInv, GapsOK, GoodGaps, HolesTracked, InOrder
  <1>3. CASE gaps = {}
    <2>1. pc' = "apply" /\ cur' = state /\ accepted' = << >> /\ timer' = timer
      BY <1>3 DEF GapOpened, EnterApply
    <2>2. TypeOK' /\ PositionsOK'
      BY <1>1, <2>1 DEF IInv, TypeOK, PositionsOK, Boundary
    <2>3. \E m \in pending : Check(state, m) = "gapApply"
      <3>1. PICK m \in pending : Covers(m, state + 1)
        BY <1>1, <1>3 DEF IInv, LoopsOK
      <3>2. m \in Received /\ Known(m)
        BY DEF IInv, TypeOK, PositionsOK
      <3>3. start(m) = state
        BY <1>1, <3>1, <3>2, KnownWhole, CoversNext
      <3> QED BY <1>1, <3>2, <3>3, CheckKnown
    <2>4. LoopsOK' /\ NoEmptyBuffer' /\ GapHasTimer'
      BY <1>1, <1>3, <2>1, <2>3 DEF LoopsOK, NoEmptyBuffer, GapHasTimer, Check, Order!Chain
    <2> QED BY <1>2, <2>2, <2>4 DEF IInv
  <1>4. CASE gaps # {}
    <2>1. pc' = "idle" /\ timer' = TRUE /\ UNCHANGED <<cur, accepted>>
      BY <1>4 DEF GapOpened
    <2>2. timer' \in BOOLEAN
      BY <2>1, Zenon
    <2>3. TypeOK' /\ PositionsOK'
      BY <1>1, <2>1, <2>2 DEF IInv, TypeOK, PositionsOK
    <2>4. GapHasTimer'
      BY <2>1, Zenon DEF GapHasTimer
    <2>5. LoopsOK' /\ NoEmptyBuffer'
      BY <1>1, <2>1 DEF LoopsOK, NoEmptyBuffer
    <2> QED BY <1>2, <2>3, <2>4, <2>5 DEF IInv
  <1> QED BY <1>3, <1>4

\* applyPending's loop over the sorted buffer.
LEMMA ApplyPendingIInv == ASSUME IInv, NEW u \in pending, ApplyPending(u) PROVE IInv'
  <1>1. /\ pc = "apply" /\ gaps = {} /\ todo = {} /\ cur \in Nat /\ state \in Nat
        /\ accepted \in Seq(Received) /\ Order!Chain(state, accepted, cur)
        /\ pending' = pending \ {u}
        /\ UNCHANGED <<server, state, gaps, timer, handled, pc, todo, log>>
    BY DEF IInv, TypeOK, LoopsOK, ApplyPending
  <1>2. u \in Received /\ Known(u)
    BY DEF IInv, TypeOK, PositionsOK
  <1>3. GapsOK' /\ HolesTracked' /\ GapHasTimer' /\ InOrder'
    BY <1>1 DEF IInv, GapsOK, GoodGaps, HolesTracked, GapHasTimer, InOrder
  <1>4. CASE Check(cur, u) = "gapApply"
    <2>1. accepted' = Append(accepted, u) /\ cur' = u.State
      BY <1>4 DEF ApplyPending
    <2>2. start(u) = cur /\ u.State \in Nat /\ Boundary(u.State)
      BY <1>1, <1>2, <1>4, CheckKnown, KnownFacts, KnownWhole DEF Whole, end
    <2>3. Order!Chain(state, accepted', cur')
      BY <1>1, <1>2, <2>1, <2>2, ChainAppend
    <2>4. TypeOK'
      BY <1>1, <1>2, <2>1, <2>2 DEF IInv, TypeOK
    <2>5. PositionsOK'
      BY <1>1, <2>1, <2>2 DEF IInv, PositionsOK, Boundary
    <2>6. accepted' # << >>
      BY <1>1, <2>1
    <2>7. NoEmptyBuffer'
      BY <2>6 DEF NoEmptyBuffer
    <2>8. LoopsOK'
      BY <1>1, <2>3 DEF LoopsOK, Order!Chain
    <2> QED BY <1>3, <2>4, <2>5, <2>7, <2>8 DEF IInv
  <1>5. CASE Check(cur, u) # "gapApply"
    <2>1. UNCHANGED <<accepted, cur>>
      BY <1>5 DEF ApplyPending
    <2>2. TypeOK' /\ PositionsOK'
      BY <1>1, <2>1 DEF IInv, TypeOK, PositionsOK
    <2>3. LoopsOK'
      BY <1>1, <2>1 DEF LoopsOK
    <2>4. NoEmptyBuffer'
      BY <1>1, <1>5, <2>1 DEF IInv, NoEmptyBuffer, Check
    <2> QED BY <1>3, <2>2, <2>3, <2>4 DEF IInv
  <1> QED BY <1>4, <1>5

\* The end of applyPending: the callback, and the new state.
LEMMA ApplyDoneIInv == ASSUME IInv, ApplyDone PROVE IInv'
  <1>1. /\ pc' = "idle" /\ gaps = {} /\ todo = {} /\ log' = log \o accepted /\ state' = cur
        /\ Order!Chain(state, accepted, cur)
        /\ UNCHANGED <<server, gaps, timer, pending, handled, todo, cur, accepted>>
    BY DEF IInv, LoopsOK, ApplyDone
  <1>2. TypeOK' /\ PositionsOK'
    BY <1>1 DEF IInv, TypeOK, PositionsOK, Boundary
  <1>3. GapsOK' /\ HolesTracked' /\ GapHasTimer' /\ LoopsOK' /\ NoEmptyBuffer'
    BY <1>1 DEF GapsOK, GoodGaps, HolesTracked, GapHasTimer, LoopsOK, NoEmptyBuffer
  <1>4. Order!Chain(InitialState, log \o accepted, cur)
    BY <1>1, ChainConcat, InitialAssumption DEF IInv, TypeOK, InOrder
  <1>5. InOrder'
    BY <1>1, <1>4 DEF InOrder
  <1> QED BY <1>2, <1>3, <1>5 DEF IInv

\* getDifference clears the gaps and moves the state.
LEMMA DifferenceIInv ==
  ASSUME IInv, timer' \in BOOLEAN, NEW to \in Nat, Boundary(to), Difference(to)
  PROVE  IInv'
  <1> DEFINE r == [State |-> to, Count |-> to - state, n |-> 0]
  <1>1. /\ pc' = "idle" /\ pc = "idle" /\ gaps' = {} /\ state' = to /\ todo = {}
        /\ state \in Nat /\ state <= to
        /\ log' = IF to = state THEN log ELSE Append(log, r)
        /\ UNCHANGED <<server, pending, handled, pc, todo, cur, accepted>>
    BY DEF IInv, TypeOK, LoopsOK, Difference
  <1>2. r \in Received /\ start(r) = state /\ r.State = to
    BY <1>1 DEF Received, start
  <1> HIDE DEF r
  <1>3. TypeOK'
    BY <1>1, <1>2 DEF IInv, TypeOK
  <1>4. PositionsOK'
    BY <1>1 DEF IInv, PositionsOK, Boundary
  <1>5. GapsOK' /\ HolesTracked' /\ GapHasTimer' /\ LoopsOK' /\ NoEmptyBuffer'
    BY <1>1 DEF GapsOK, GoodGaps, HolesTracked, GapHasTimer, LoopsOK, NoEmptyBuffer
  <1>6. Order!Chain(InitialState, Append(log, r), to)
    BY <1>1, <1>2, ChainAppend, InitialAssumption DEF IInv, TypeOK, InOrder
  <1>7. InOrder'
    BY <1>1, <1>6 DEF IInv, InOrder
  <1> QED BY <1>3, <1>4, <1>5, <1>7 DEF IInv

\* The three ways getDifference is called.
LEMMA CallsIInv ==
  ASSUME IInv, GapTimeout \/ GapTimeoutFails \/ OtherDifference
  PROVE  \E to \in Nat : Boundary(to) /\ Difference(to) /\ timer' \in BOOLEAN
  <1>1. /\ server \in Nat /\ Boundary(server) /\ state \in Nat /\ Boundary(state)
        /\ timer \in BOOLEAN
    BY DEF IInv, TypeOK, PositionsOK
  <1>2. CASE GapTimeout
    BY <1>1, <1>2 DEF GapTimeout
  <1>3. CASE GapTimeoutFails
    BY <1>1, <1>3 DEF GapTimeoutFails
  <1>4. CASE OtherDifference
    BY <1>1, <1>4, UpdateFacts DEF OtherDifference, end
  <1> QED BY <1>2, <1>3, <1>4

\* IInv is inductive.
THEOREM StepIInv == IInv /\ [Next]_vars => IInv'
  <1> SUFFICES ASSUME IInv, [Next]_vars PROVE IInv'
    OBVIOUS
  <1>1. ASSUME NEW u \in Updates, Publish(u) \/ Skip(u) \/ Buffer(u) \/ Accept(u) \/ OpenGap(u)
        PROVE  IInv'
    BY <1>1, PublishIInv, SkipIInv, BufferIInv, AcceptIInv, OpenGapIInv
  <1>2. ASSUME NEW u \in todo, OfferPending(u) PROVE IInv'
    BY <1>2, OfferPendingIInv
  <1>3. ASSUME NEW u \in pending, ApplyPending(u) PROVE IInv'
    BY <1>3, ApplyPendingIInv
  <1>4. CASE GapOpened
    BY <1>4, GapOpenedIInv
  <1>5. CASE ApplyDone
    BY <1>5, ApplyDoneIInv
  <1>6. CASE GapTimeout \/ GapTimeoutFails \/ OtherDifference
    BY <1>6, CallsIInv, DifferenceIInv
  <1>7. CASE UNCHANGED vars
    BY <1>7 DEF vars, IInv, TypeOK, PositionsOK, GapsOK, GoodGaps, HolesTracked, LoopsOK,
                NoEmptyBuffer, GapHasTimer, InOrder, Boundary, Check
  <1> QED BY <1>1, <1>2, <1>3, <1>4, <1>5, <1>6, <1>7 DEF Next

\* IInv holds in every state the box reaches.
THEOREM AlwaysIInv == Spec => []IInv
  BY InitIInv, StepIInv, PTL DEF Spec
-----------------------------------------------------------------------------
\* Every variable has its type, for every log and any number of messages.
THEOREM TypeCorrect == Spec => []TypeOK
  <1>1. IInv => TypeOK
    BY DEF IInv
  <1> QED BY AlwaysIInv, <1>1, PTL

\* What reaches the apply callback is one chain from the restored state to the
\* current one, whatever is lost, repeated or reordered.
THEOREM DeliveredInOrder == Spec => []InOrder
  <1>1. IInv => InOrder
    BY DEF IInv
  <1> QED BY AlwaysIInv, <1>1, PTL

\* The gap buffer and the pending updates agree on what is missing.
THEOREM GapsAreTheHoles == Spec => []HolesTracked
  <1>1. IInv => HolesTracked
    BY DEF IInv
  <1> QED BY AlwaysIInv, <1>1, PTL

\* applyPending is never called with nothing to apply.
THEOREM BufferNeverEmpty == Spec => []NoEmptyBuffer
  <1>1. IInv => NoEmptyBuffer
    BY DEF IInv
  <1> QED BY AlwaysIInv, <1>1, PTL

\* Between handlers, an open gap has its timer running.
THEOREM OpenGapIsTimed == Spec => []GapHasTimer
  <1>1. IInv => GapHasTimer
    BY DEF IInv
  <1> QED BY AlwaysIInv, <1>1, PTL
-----------------------------------------------------------------------------
\* A batch appended to the log is a step of UpdateOrder.
LEMMA BatchDelivers ==
  ASSUME log \in Seq(Received), NEW b \in Seq(Received), log' = log \o b,
         Order!Chain(state, b, state')
  PROVE  Order!Next
  <1>1. SubSeq(log', Len(log) + 1, Len(log')) = b
    BY SMTT(30)
  <1> QED BY <1>1 DEF Order!Next, Order!Deliver

\* One update appended to the log is a step of UpdateOrder.
LEMMA OneDelivers ==
  ASSUME log \in Seq(Received), NEW r \in Received, log' = Append(log, r),
         start(r) = state, r.State = state'
  PROVE  Order!Next
  <1> DEFINE b == <<r>>
  <1>1. b \in Seq(Received) /\ log' = log \o b
    OBVIOUS
  <1>2. Order!Chain(state, b, state')
    BY DEF Order!Chain, start
  <1> HIDE DEF b
  <1> QED BY <1>1, <1>2, BatchDelivers

\* The sequence box implements in-order delivery: a handler either dispatches
\* one unbroken batch or leaves what was dispatched alone.
THEOREM BoxImplementsOrder == Spec => ImplementsUpdateOrder
  <1>1. Init => Order!Init
    BY DEF Init, Order!Init
  <1>2. IInv /\ [Next]_vars => [Order!Next]_(Order!vars)
    <2> SUFFICES ASSUME IInv, [Next]_vars, ~ UNCHANGED <<state, log>> PROVE Order!Next
      BY DEF Order!vars
    <2>1. log \in Seq(Received) /\ state \in Nat /\ accepted \in Seq(Received)
      BY DEF IInv, TypeOK
    <2>2. ASSUME NEW u \in Updates, Publish(u) \/ Skip(u) \/ Buffer(u) \/ OpenGap(u)
          PROVE  FALSE
      BY <2>2 DEF Publish, Skip, Buffer, OpenGap
    <2>3. ASSUME NEW u \in Updates, Accept(u) PROVE Order!Next
      <3>1. /\ log' = Append(log, Tagged(u)) /\ state' = u.State
            /\ Check(state, u) = "gapApply" /\ handled \in Nat
        BY <2>3 DEF Accept, IInv, TypeOK
      <3>2. /\ Tagged(u) \in Received /\ start(Tagged(u)) = state
            /\ Tagged(u).State = state'
        BY <2>1, <3>1, TaggedFacts, CheckUpdate
      <3> QED BY <2>1, <3>1, <3>2, OneDelivers
    <2>4. ASSUME NEW u \in todo, OfferPending(u) PROVE FALSE
      BY <2>4 DEF OfferPending
    <2>5. ASSUME NEW u \in pending, ApplyPending(u) PROVE FALSE
      BY <2>5 DEF ApplyPending
    <2>6. CASE GapOpened
      BY <2>6 DEF GapOpened
    <2>7. CASE ApplyDone
      BY <2>1, <2>7, BatchDelivers DEF ApplyDone, IInv, LoopsOK
    <2>8. CASE GapTimeout \/ GapTimeoutFails \/ OtherDifference
      <3>1. PICK to \in Nat : Difference(to)
        BY <2>8, CallsIInv
      <3> DEFINE r == [State |-> to, Count |-> to - state, n |-> 0]
      <3>2. state' = to /\ state <= to /\ log' = Append(log, r)
        BY <3>1 DEF Difference
      <3>3. r \in Received /\ start(r) = state /\ r.State = to
        BY <2>1, <3>2 DEF Received, start
      <3> HIDE DEF r
      <3> QED BY <2>1, <3>2, <3>3, OneDelivers
    <2>9. CASE UNCHANGED vars
      BY <2>9 DEF vars
    <2> QED BY <2>2, <2>3, <2>4, <2>5, <2>6, <2>7, <2>8, <2>9 DEF Next
  <1> QED BY <1>1, <1>2, AlwaysIInv, PTL DEF Spec, ImplementsUpdateOrder, Order!Spec
=============================================================================
