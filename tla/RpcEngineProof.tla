--------------------------- MODULE RpcEngineProof ---------------------------
(***************************************************************************)
(* The safety of the RPC engine for any number of requests, readers and    *)
(* retries.  What ties the engine's two maps to the calls is that the two  *)
(* calls of Do of one Invoke share a message id but never overlap          *)
(* (Sequential): a handler or an ack channel registered under an id then   *)
(* belongs to the one call that is inside Do.                              *)
(***************************************************************************)
EXTENDS RpcEngine, TLAPS

Labels ==
  {"idle", "register", "waitAck", "send", "loop", "select", "drop", "unregister", "leave",
   "returned"}

\* Where a call has its handler set, and where it waits for an acknowledgement.
Inside == {"waitAck", "send", "loop", "select", "drop", "unregister"}
Unacked == {"send", "loop"}

TypeOK ==
  /\ rpc \in [Requests -> Calls \cup {NoCall, Nop}]
  /\ ack \in [Requests -> Calls \cup {NoCall}]
  /\ acked \subseteq Calls
  /\ closed \in BOOLEAN
  /\ reqDone \in BOOLEAN
  /\ closer \in {"open", "forced", "wait", "closed"}
  /\ pc \in [Calls -> Labels]
  /\ ackChan \in [Calls -> Calls \cup {NoCall}]
  /\ sends \in [Calls -> Nat]
  /\ ret \in [Calls -> Answers \cup Errors \cup {"none"}]
  /\ called \subseteq Calls
  /\ done \subseteq Calls
  /\ resultErr \in [Calls -> Answers \cup {"none"}]
  /\ reader \in [Readers -> [stage : {"idle", "found", "decode"}, call : Calls \cup {NoCall},
                             answer : Answers \cup {"none"}]]
  /\ cancelled \subseteq Requests
  /\ wire \subseteq Requests
  /\ early \subseteq Calls

\* Invoke calls Do again only when the first call has returned.
Sequential ==
  \A i \in Requests : 2 \in Attempts /\ pc[<<i, 2>>] # "idle" => pc[<<i, 1>>] = "returned"

\* A registered handler is that of a call inside Do with this id.
Handlers ==
  \A i \in Requests :
     /\ rpc[i] \in Calls => id(rpc[i]) = i /\ pc[rpc[i]] \in Inside
     /\ rpc[i] = Nop => \E c \in Calls : id(c) = i /\ pc[c] \in {"drop", "unregister"}

\* A registered ack channel is that of a call with this id which waits for it;
\* a call waits for a channel of its own, which was not closed before.
Channels ==
  /\ \A i \in Requests : ack[i] \in Calls => id(ack[i]) = i /\ pc[ack[i]] \in Unacked
  /\ \A c \in Calls : pc[c] \in Unacked => ackChan[c] = c
  /\ \A c \in acked : pc[c] \notin {"idle", "register", "waitAck"}
  /\ early \subseteq acked

\* Do has its result only on the way out.
NotYet ==
  \A c \in Calls : pc[c] \notin {"unregister", "leave", "returned"} => ret[c] = "none"

Closing == closer \in {"wait", "closed"} => closed

\* Who decodes an answer has set handlerCalled.
Decoding ==
  /\ \A n \in Readers : reader[n].stage # "idle" =>
        reader[n].call \in Calls /\ reader[n].answer \in Answers
  /\ \A n \in Readers : reader[n].stage = "decode" => reader[n].call \in called
  /\ done \subseteq called
  /\ \A c \in done : resultErr[c] \in Answers

IInv ==
  /\ TypeOK /\ Sequential /\ Handlers /\ Channels /\ NotYet /\ Closing /\ Decoding
  /\ CloseWaits /\ ClosedOnce /\ AckedNotRetried /\ ResultIsStored
-----------------------------------------------------------------------------
\* NoCall and Nop are not calls, and differ.
LEMMA NotCalls == NoCall \notin Calls /\ Nop \notin Calls /\ NoCall # Nop
  BY AttemptsAssumption DEF NoCall, Nop, Calls

\* A call is a request and an attempt.
LEMMA CallIs ==
  ASSUME NEW c \in Calls
  PROVE  id(c) \in Requests /\ c[2] \in Attempts /\ c = <<id(c), c[2]>> /\ c[2] \in {1, 2}
  BY AttemptsAssumption DEF Calls, id

\* The calls of an Invoke, by their number.
LEMMA CallOf ==
  ASSUME NEW i \in Requests
  PROVE  <<i, 1>> \in Calls /\ (2 \in Attempts => <<i, 2>> \in Calls)
  BY AttemptsAssumption DEF Calls

\* Two calls of one Invoke are not both inside Do, and while one is a first call
\* cannot begin.
LEMMA Alone ==
  ASSUME TypeOK, Sequential, NEW c \in Calls, NEW d \in Calls, id(c) = id(d), c # d,
         pc[c] \notin {"idle", "returned"}
  PROVE  pc[d] \in {"idle", "returned"}
  <1>1. c = <<id(c), c[2]>> /\ d = <<id(c), d[2]>> /\ id(c) \in Requests
    BY CallIs
  <1>2. c[2] \in {1, 2} /\ d[2] \in {1, 2} /\ c[2] \in Attempts /\ d[2] \in Attempts
    BY CallIs
  <1>3. CASE c[2] = 1 /\ d[2] = 2
    BY <1>1, <1>2, <1>3 DEF Sequential
  <1>4. CASE c[2] = 2 /\ d[2] = 1
    BY <1>1, <1>2, <1>4 DEF Sequential
  <1> QED
    BY <1>1, <1>2, <1>3, <1>4

\* What the steps of retryUntilAck have in common: the call waits on, goes to
\* Do's select, or gives up, and ErrEngineClosed is for the unacknowledged.
Retrying(c) ==
  /\ pc[c] \in Unacked
  /\ \/ Goto(c, "loop") /\ UNCHANGED <<ack, ret>>
     \/ Acknowledged(c)
     \/ \E e \in Errors : GiveUp(c, e) /\ (e = "ErrEngineClosed" => ackChan[c] \notin acked)
  /\ wire' \subseteq wire \cup {id(c)}
  /\ UNCHANGED <<rpc, acked, closing, ackChan, handlers, cancelled, early>>

\* What the steps of Do's select have in common: the request is dropped, or Do
\* returns an error of its own or the result that is there.
Selecting(c) ==
  /\ pc[c] \in {"select", "drop"}
  /\ \/ Goto(c, "drop") /\ rpc' = [rpc EXCEPT ![id(c)] = Nop] /\ UNCHANGED ret
     \/ \E v \in {"ctxErr", "canceled"} : Return(c, v) /\ UNCHANGED rpc
     \/ c \in done /\ Return(c, resultErr[c]) /\ UNCHANGED rpc
  /\ UNCHANGED <<ack, acked, closing, ackChan, sends, handlers, outside>>

\* The steps of retryUntilAck are such steps, and count their sends.
LEMMA Retries ==
  ASSUME TypeOK, NEW c \in Calls, Send(c) \/ LoopAcked(c) \/ LoopClosed(c) \/ LoopRetry(c)
  PROVE  Retrying(c) /\ sends' \in [Calls -> Nat]
  <1> USE DEF Retrying, Unacked, outside, closing
  <1>1. sends \in [Calls -> Nat] /\ pc \in [Calls -> Labels]
    BY DEF TypeOK
  <1>2. CASE Send(c)
    <2>1. sends' \in [Calls -> Nat] /\ wire' \subseteq wire \cup {id(c)}
      BY <1>1, <1>2 DEF Send, Counted, Transmit
    <2> QED
      BY <1>2, <2>1 DEF Send, Errors
  <1>3. CASE LoopAcked(c) \/ LoopClosed(c)
    BY <1>1, <1>3 DEF LoopAcked, LoopClosed, Errors
  <1>4. CASE LoopRetry(c)
    <2>1. sends' \in [Calls -> Nat] /\ wire' \subseteq wire \cup {id(c)}
      BY <1>1, <1>4 DEF LoopRetry, Counted, Transmit
    <2>2. UNCHANGED pc => Goto(c, "loop")
      BY <1>1, <1>4 DEF LoopRetry, Goto
    <2> QED
      BY <1>4, <2>1, <2>2 DEF LoopRetry, Errors
  <1> QED
    BY <1>2, <1>3, <1>4

\* So are those of Do's select.
LEMMA Selects ==
  ASSUME NEW c \in Calls,
         SelectCancelled(c) \/ Drop(c) \/ SelectClosed(c) \/ SelectDone(c)
  PROVE  Selecting(c)
  BY Zenon DEF SelectCancelled, Drop, SelectClosed, SelectDone, Selecting, engine

\* Every variable keeps its type.
LEMMA TypeStep ==
  ASSUME TypeOK, Decoding, [Next]_vars
  PROVE  TypeOK'
  <1> USE DEF TypeOK, Labels, Errors, Goto, Return, vars, engine, closing, calls, handlers, outside
  <1>1. ASSUME NEW c \in Calls, Begin(c) PROVE TypeOK'
    BY <1>1 DEF Begin
  <1>2. ASSUME NEW c \in Calls, Register(c) PROVE TypeOK'
    BY <1>2, CallIs DEF Register
  <1>3. ASSUME NEW c \in Calls, WaitAck(c) PROVE TypeOK'
    BY <1>3, CallIs DEF WaitAck
  <1>4. ASSUME NEW c \in Calls, Retrying(c), sends' \in [Calls -> Nat] PROVE TypeOK'
    BY <1>4, CallIs DEF Retrying, Acknowledged, GiveUp, removeAck
  <1>5. ASSUME NEW c \in Calls, Selecting(c) PROVE TypeOK'
    <2>1. id(c) \in Requests
      BY CallIs
    <2>2. rpc' \in [Requests -> Calls \cup {NoCall, Nop}]
      BY <1>5, <2>1 DEF Selecting
    <2>3. pc' \in [Calls -> Labels]
      BY <1>5 DEF Selecting
    <2>4. ret' \in [Calls -> Answers \cup Errors \cup {"none"}]
      BY <1>5 DEF Selecting
    <2> QED
      BY <1>5, <2>2, <2>3, <2>4 DEF Selecting
  <1>9. ASSUME NEW c \in Calls, Unregister(c) \/ Leave(c) PROVE TypeOK'
    BY <1>9, CallIs, Zenon DEF Unregister, Leave
  <1>10. ASSUME NEW ids \in SUBSET wire, NotifyAcks(ids) PROVE TypeOK'
    BY <1>10 DEF NotifyAcks
  <1>11. ASSUME NEW n \in Readers, NEW i \in wire, NEW a \in Answers, Notify(n, i, a) PROVE TypeOK'
    BY <1>11 DEF Notify
  <1>12. ASSUME NEW n \in Readers, Handler(n) PROVE TypeOK'
    <2> DEFINE Stages == [stage : {"idle", "found", "decode"}, call : Calls \cup {NoCall},
                          answer : Answers \cup {"none"}]
    <2>1. Idle \in Stages
      BY DEF Idle
    <2>2. reader[n] \in Stages /\ reader[n].call \in Calls
      BY <1>12 DEF Handler, Decoding
    <2>3. [reader[n] EXCEPT !.stage = "decode"] \in Stages
      BY <2>2
    <2>4. reader' \in [Readers -> Stages] /\ called' \subseteq Calls
      BY <1>12, <2>1, <2>2, <2>3 DEF Handler
    <2> QED
      BY <1>12, <2>4 DEF Handler
  <1>16. ASSUME NEW n \in Readers, HandlerDone(n) PROVE TypeOK'
    BY <1>16 DEF HandlerDone, Decoding, Idle
  <1>13. ASSUME NEW i \in Requests, Cancel(i) PROVE TypeOK'
    BY <1>13 DEF Cancel
  <1>14. ASSUME CancelRequests \/ Close \/ Wait PROVE TypeOK'
    BY <1>14, Zenon DEF CancelRequests, Close, Wait
  <1>15. CASE UNCHANGED vars
    BY <1>15
  <1> QED
    BY <1>1, <1>2, <1>3, <1>4, <1>5, <1>9, <1>10, <1>11, <1>12, <1>13, <1>14, <1>15, <1>16, Retries,
       Selects, Zenon DEF Next, Do

\* A step of another goroutine leaves the calls of Do where they are.
LEMMA OthersLeaveCalls ==
  ASSUME \/ UNCHANGED vars \/ CancelRequests \/ Close \/ Wait
         \/ \E i \in Requests : Cancel(i)
         \/ \E ids \in SUBSET wire : NotifyAcks(ids)
         \/ \E n \in Readers, i \in wire, a \in Answers : Notify(n, i, a)
         \/ \E n \in Readers : Handler(n) \/ HandlerDone(n)
  PROVE  UNCHANGED calls
  BY DEF vars, CancelRequests, Close, Wait, Cancel, NotifyAcks, Notify, Handler, HandlerDone

\* A second call of an Invoke begins after the first has returned.
LEMMA SequentialStep ==
  ASSUME TypeOK, Sequential, [Next]_vars
  PROVE  Sequential'
  <1> USE DEF Sequential
  <1>1. pc \in [Calls -> Labels]
    BY DEF TypeOK
  <1>2. ASSUME NEW c \in Calls, Begin(c) PROVE Sequential'
    <2>1. \E l : Goto(c, l) /\ l # "idle"
      BY <1>2 DEF Begin
    <2>2. CASE c[2] = 1
      <3>1. c = <<id(c), 1>> /\ id(c) \in Requests /\ pc[c] = "idle"
        BY <1>2, <2>2, CallIs DEF Begin, MayCall
      <3>2. ~ (2 \in Attempts /\ pc[<<id(c), 2>>] # "idle")
        BY <3>1
      <3> QED
        BY <1>1, <2>1, <3>1, <3>2, CallOf DEF Goto
    <2>3. CASE c[2] = 2
      <3>1. c = <<id(c), 2>> /\ id(c) \in Requests /\ pc[<<id(c), 1>>] = "returned"
        BY <1>2, <2>3, CallIs DEF Begin, MayCall
      <3> QED
        BY <1>1, <2>1, <3>1, CallOf DEF Goto
    <2> QED
      BY <2>2, <2>3, CallIs
  <1>3. ASSUME NEW c \in Calls, NEW l, Goto(c, l), pc[c] \notin {"idle", "returned"}
        PROVE  Sequential'
    <2>1. c = <<id(c), c[2]>> /\ id(c) \in Requests /\ c[2] \in {1, 2} /\ c[2] \in Attempts
      BY CallIs
    <2>2. CASE c[2] = 1
      <3>1. ~ (2 \in Attempts /\ pc[<<id(c), 2>>] # "idle")
        BY <1>3, <2>1, <2>2
      <3> QED
        BY <1>1, <1>3, <2>1, <2>2, <3>1, CallOf DEF Goto
    <2>3. CASE c[2] = 2
      BY <1>1, <1>3, <2>1, <2>3, CallOf DEF Goto
    <2> QED
      BY <2>1, <2>2, <2>3
  <1>4. ASSUME NEW c \in Calls, Do(c) PROVE \E l : Goto(c, l) /\ pc[c] \notin {"idle", "returned"}
    <2>1. ASSUME Retrying(c) PROVE \E l : Goto(c, l) /\ pc[c] \notin {"idle", "returned"}
      BY <2>1 DEF Retrying, Unacked, Acknowledged, GiveUp, Return
    <2>2. ASSUME Selecting(c) PROVE \E l : Goto(c, l) /\ pc[c] \notin {"idle", "returned"}
      BY <2>2 DEF Selecting, Return
    <2> QED
      BY <1>4, <2>1, <2>2, Retries, Selects DEF Do, Register, WaitAck, Unregister, Leave
  <1>5. CASE UNCHANGED calls
    BY <1>5, Zenon DEF calls
  <1> QED
    BY <1>2, <1>3, <1>4, <1>5, OthersLeaveCalls DEF Next

\* Do sets its handler where it has none and deletes it on every way out.
LEMMA HandlersStep ==
  ASSUME TypeOK, Handlers, [Next]_vars
  PROVE  Handlers'
  <1> USE DEF Handlers, Inside
  <1>1. pc \in [Calls -> Labels] /\ rpc \in [Requests -> Calls \cup {NoCall, Nop}]
    BY DEF TypeOK
  <1>2. ASSUME NEW c \in Calls, Begin(c) PROVE Handlers'
    <2>1. \E l : Goto(c, l) /\ pc[c] = "idle" /\ UNCHANGED rpc
      BY <1>2 DEF Begin, MayCall, engine
    <2> QED
      BY <1>1, <2>1 DEF Goto
  <1>3. ASSUME NEW c \in Calls, Register(c) PROVE Handlers'
    BY <1>1, <1>3, CallIs, NotCalls DEF Register, Goto
  <1>4. ASSUME NEW c \in Calls, WaitAck(c) PROVE Handlers'
    BY <1>1, <1>4 DEF WaitAck, Goto
  <1>5. ASSUME NEW c \in Calls, Retrying(c) PROVE Handlers'
    <2>1. \E l \in {"loop", "select", "unregister"} : Goto(c, l) /\ pc[c] \in {"send", "loop"}
      BY <1>5 DEF Retrying, Unacked, Acknowledged, GiveUp, Return
    <2>2. UNCHANGED rpc
      BY <1>5 DEF Retrying
    <2> QED
      BY <1>1, <2>1, <2>2 DEF Goto
  <1>6. ASSUME NEW c \in Calls, Selecting(c) PROVE Handlers'
    <2>1. CASE Goto(c, "drop") /\ rpc' = [rpc EXCEPT ![id(c)] = Nop] /\ UNCHANGED ret
      BY <1>1, <1>6, <2>1, CallIs, NotCalls DEF Selecting, Goto
    <2>2. CASE Goto(c, "unregister") /\ UNCHANGED rpc
      BY <1>1, <1>6, <2>2 DEF Selecting, Goto
    <2> QED
      BY <1>6, <2>1, <2>2 DEF Selecting, Return
  <1>7. ASSUME NEW c \in Calls, Unregister(c) PROVE Handlers'
    BY <1>1, <1>7, CallIs, NotCalls DEF Unregister, Goto
  <1>8. ASSUME NEW c \in Calls, Leave(c) PROVE Handlers'
    BY <1>1, <1>8 DEF Leave, Goto, engine
  <1>9. CASE UNCHANGED <<rpc, calls>>
    BY <1>9 DEF calls
  <1>10. ASSUME \/ UNCHANGED vars \/ CancelRequests \/ Close \/ Wait
                \/ \E i \in Requests : Cancel(i)
                \/ \E ids \in SUBSET wire : NotifyAcks(ids)
                \/ \E n \in Readers, i \in wire, a \in Answers : Notify(n, i, a)
                \/ \E n \in Readers : Handler(n) \/ HandlerDone(n)
         PROVE  UNCHANGED rpc
    BY <1>10, Zenon DEF vars, engine, CancelRequests, Close, Wait, Cancel, NotifyAcks, Notify, Handler,
                 HandlerDone
  <1> QED
    BY <1>2, <1>3, <1>4, <1>5, <1>6, <1>7, <1>8, <1>9, <1>10, Retries, Selects, OthersLeaveCalls
       DEF Next, Do

\* waitAck finds no channel under its id, so it makes the one it waits for;
\* NotifyAcks and removeAck take it out of the map.
LEMMA ChannelsStep ==
  ASSUME TypeOK, Sequential, Channels, [Next]_vars
  PROVE  Channels'
  <1> USE DEF Channels, Unacked
  <1>1. /\ pc \in [Calls -> Labels] /\ ackChan \in [Calls -> Calls \cup {NoCall}]
        /\ ack \in [Requests -> Calls \cup {NoCall}] /\ acked \subseteq Calls /\ wire \subseteq Requests
    BY DEF TypeOK
  <1>2. ASSUME NEW c \in Calls, Begin(c) PROVE Channels'
    <2>1. /\ Goto(c, "returned") \/ Goto(c, "register")
          /\ pc[c] = "idle" /\ UNCHANGED <<ack, acked, ackChan, early>>
      BY <1>2 DEF Begin, MayCall, engine, outside
    <2> QED
      BY <1>1, <2>1 DEF Goto
  <1>3. ASSUME NEW c \in Calls, Register(c) PROVE Channels'
    BY <1>1, <1>3 DEF Register, Goto, outside
  <1>4. ASSUME NEW c \in Calls, WaitAck(c) PROVE Channels'
    <2>1. id(c) \in Requests /\ pc[c] = "waitAck"
      BY <1>4, CallIs DEF WaitAck
    <2>2. ack[id(c)] = NoCall
      <3>1. SUFFICES ASSUME ack[id(c)] \in Calls PROVE FALSE
        BY <1>1, <2>1
      <3>2. id(ack[id(c)]) = id(c) /\ pc[ack[id(c)]] \in {"send", "loop"}
        BY <2>1, <3>1
      <3> QED
        BY <2>1, <3>1, <3>2, Alone
    <2>3. ackChan' = [ackChan EXCEPT ![c] = c] /\ ack' = [ack EXCEPT ![id(c)] = c]
      BY <1>1, <1>4, <2>2 DEF WaitAck
    <2> QED
      BY <1>1, <1>4, <2>1, <2>3 DEF WaitAck, Goto, outside
  <1>5. ASSUME NEW c \in Calls, Retrying(c) PROVE Channels'
    <2>1. pc[c] \in {"send", "loop"} /\ UNCHANGED <<acked, ackChan, early>> /\ id(c) \in Requests
      BY <1>5, CallIs DEF Retrying
    <2>2. CASE Goto(c, "loop") /\ UNCHANGED ack
      BY <1>1, <2>1, <2>2 DEF Goto
    <2>3. CASE removeAck(c) /\ (Goto(c, "select") \/ Goto(c, "unregister"))
      BY <1>1, <2>1, <2>3, NotCalls DEF Goto, removeAck
    <2> QED
      BY <1>5, <2>2, <2>3 DEF Retrying, Acknowledged, GiveUp, Return
  <1>6. ASSUME NEW c \in Calls, Selecting(c) PROVE Channels'
    <2>1. /\ Goto(c, "drop") \/ Goto(c, "unregister")
          /\ pc[c] \in {"select", "drop"} /\ UNCHANGED <<ack, acked, ackChan, early>>
      BY <1>6 DEF Selecting, Return, outside
    <2> QED
      BY <1>1, <2>1 DEF Goto
  <1>7. ASSUME NEW c \in Calls, Unregister(c) \/ Leave(c) PROVE Channels'
    <2>1. /\ Goto(c, "leave") \/ Goto(c, "returned")
          /\ pc[c] \in {"unregister", "leave"} /\ UNCHANGED <<ack, acked, ackChan, early>>
      BY <1>7 DEF Unregister, Leave, engine, outside
    <2> QED
      BY <1>1, <2>1 DEF Goto
  <1>8. ASSUME NEW ids \in SUBSET wire, NotifyAcks(ids) PROVE Channels'
    <2> DEFINE chans == {ack[i] : i \in ids} \ {NoCall}
    <2>1. /\ acked' = acked \cup chans /\ early' \subseteq early \cup chans /\ UNCHANGED <<pc, ackChan>>
          /\ ack' = [i \in Requests |-> IF i \in ids THEN NoCall ELSE ack[i]]
      BY <1>8 DEF NotifyAcks, calls
    <2>2. \A c \in chans : c \in Calls /\ pc[c] \in {"send", "loop"}
      BY <1>1
    <2>3. \A c \in acked' : pc[c] \notin {"idle", "register", "waitAck"}
      BY <2>1, <2>2
    <2>4. early' \subseteq acked'
      BY <2>1
    <2>5. \A i \in Requests : ack'[i] \in Calls => ack'[i] = ack[i]
      BY <2>1, NotCalls
    <2> HIDE DEF chans
    <2> QED
      BY <1>1, <2>1, <2>3, <2>4, <2>5, Zenon
  <1>9. CASE UNCHANGED <<ack, acked, early, calls>>
    BY <1>9 DEF calls
  <1>10. ASSUME \/ UNCHANGED vars \/ CancelRequests \/ Close \/ Wait
                \/ \E i \in Requests : Cancel(i)
                \/ \E n \in Readers, i \in wire, a \in Answers : Notify(n, i, a)
                \/ \E n \in Readers : Handler(n) \/ HandlerDone(n)
         PROVE  UNCHANGED <<ack, acked, early>>
    BY <1>10, Zenon DEF vars, engine, outside, CancelRequests, Close, Wait, Cancel, Notify, Handler,
                 HandlerDone
  <1> QED
    BY <1>2, <1>3, <1>4, <1>5, <1>6, <1>7, <1>8, <1>9, <1>10, Retries, Selects, OthersLeaveCalls, Zenon
       DEF Next, Do

\* Only the steps on the way out of Do set its result.
LEMMA NotYetStep ==
  ASSUME TypeOK, NotYet, [Next]_vars
  PROVE  NotYet'
  <1> USE DEF NotYet
  <1>1. pc \in [Calls -> Labels] /\ ret \in [Calls -> Answers \cup Errors \cup {"none"}]
    BY DEF TypeOK
  <1>2. ASSUME NEW c \in Calls, Begin(c) PROVE NotYet'
    BY <1>1, <1>2 DEF Begin, MayCall, Goto
  <1>3. ASSUME NEW c \in Calls, Register(c) \/ WaitAck(c) \/ Unregister(c) \/ Leave(c) PROVE NotYet'
    BY <1>1, <1>3 DEF Register, WaitAck, Unregister, Leave, Goto
  <1>4. ASSUME NEW c \in Calls, Retrying(c) PROVE NotYet'
    BY <1>1, <1>4 DEF Retrying, Unacked, Acknowledged, GiveUp, Return, Goto
  <1>5. ASSUME NEW c \in Calls, Selecting(c) PROVE NotYet'
    BY <1>1, <1>5 DEF Selecting, Return, Goto
  <1>6. CASE UNCHANGED calls
    BY <1>6, Zenon DEF calls
  <1> QED
    BY <1>2, <1>3, <1>4, <1>5, <1>6, Retries, Selects, OthersLeaveCalls DEF Next, Do

\* While Close waits, and after it, `closed' keeps new calls out; it returns when
\* there are none.
LEMMA CloseStep ==
  ASSUME TypeOK, Closing, CloseWaits, [Next]_vars
  PROVE  Closing' /\ CloseWaits'
  <1> USE DEF Closing, CloseWaits, Active
  <1>1. pc \in [Calls -> Labels]
    BY DEF TypeOK
  <1>2. ASSUME NEW c \in Calls, Begin(c) PROVE Closing' /\ CloseWaits'
    BY <1>1, <1>2 DEF Begin, MayCall, Goto, closing
  <1>3. ASSUME NEW c \in Calls, Do(c) PROVE Closing' /\ CloseWaits'
    <2>1. pc[c] \notin {"idle", "returned"}
      BY <1>3, Retries, Selects, Zenon
         DEF Do, Register, WaitAck, Unregister, Leave, Retrying, Selecting, Unacked
    <2>2. UNCHANGED closing
      BY <1>3, Retries, Selects DEF Do, Register, WaitAck, Unregister, Leave, Retrying, Selecting
    <2> QED
      BY <2>1, <2>2, Zenon DEF closing
  <1>4. CASE CancelRequests
    BY <1>4 DEF CancelRequests, calls
  <1>5. CASE Close \/ Wait
    BY <1>5 DEF Close, Wait, calls
  <1>6. CASE UNCHANGED <<closing, calls>>
    BY <1>6 DEF closing, calls
  <1>7. ASSUME \/ UNCHANGED vars
               \/ \E i \in Requests : Cancel(i)
               \/ \E ids \in SUBSET wire : NotifyAcks(ids)
               \/ \E n \in Readers, i \in wire, a \in Answers : Notify(n, i, a)
               \/ \E n \in Readers : Handler(n) \/ HandlerDone(n)
        PROVE  UNCHANGED closing
    BY <1>7 DEF vars, Cancel, NotifyAcks, Notify, Handler, HandlerDone
  <1> QED
    BY <1>2, <1>3, <1>4, <1>5, <1>6, <1>7, OthersLeaveCalls DEF Next

\* No other step touches what the handlers share.
LEMMA OthersLeaveHandlers ==
  ASSUME TypeOK,
         \/ UNCHANGED vars \/ CancelRequests \/ Close \/ Wait
         \/ \E c \in Calls : Begin(c) \/ Do(c)
         \/ \E i \in Requests : Cancel(i)
         \/ \E ids \in SUBSET wire : NotifyAcks(ids)
  PROVE  UNCHANGED handlers
  <1>1. ASSUME NEW c \in Calls, Begin(c) \/ Do(c) PROVE UNCHANGED handlers
    BY <1>1, Retries, Selects, Zenon
       DEF Begin, Do, Register, WaitAck, Unregister, Leave, Retrying, Selecting
  <1> QED
    BY <1>1, Zenon DEF vars, CancelRequests, Close, Wait, Cancel, NotifyAcks

\* Each reader has its own answer for a call; handlerCalled lets one of them
\* decode, so done is closed once and its result stays.
LEMMA DecodingStep ==
  ASSUME TypeOK, Decoding, ClosedOnce, [Next]_vars
  PROVE  /\ Decoding'
         /\ \A n \in Readers : reader'[n].stage = "decode" =>
               /\ reader'[n].call \notin done'
               /\ \A m \in Readers \ {n} :
                     reader'[m].stage = "decode" => reader'[m].call # reader'[n].call
         /\ \A c \in done : c \in done' /\ resultErr'[c] = resultErr[c]
  <1> DEFINE Once ==
        \A n \in Readers : reader[n].stage = "decode" =>
           /\ reader[n].call \notin done
           /\ \A m \in Readers \ {n} : reader[m].stage = "decode" => reader[m].call # reader[n].call
             Stored == \A c \in done : c \in done' /\ resultErr'[c] = resultErr[c]
  <1> USE DEF Decoding
  <1>1. /\ reader \in [Readers -> [stage : {"idle", "found", "decode"}, call : Calls \cup {NoCall},
                                   answer : Answers \cup {"none"}]]
        /\ resultErr \in [Calls -> Answers \cup {"none"}] /\ Once /\ wire \subseteq Requests
    BY DEF TypeOK, ClosedOnce
  <1>2. ASSUME NEW n \in Readers, NEW i \in wire, NEW a \in Answers, Notify(n, i, a)
        PROVE  Decoding' /\ Once' /\ Stored
    <2> DEFINE found == [stage |-> "found", call |-> rpc[i], answer |-> a]
    <2>1. /\ reader' = [reader EXCEPT ![n] = found] /\ rpc[i] \in Calls
          /\ UNCHANGED <<called, done, resultErr>>
      BY <1>2 DEF Notify
    <2>2. found.stage = "found" /\ found.call \in Calls /\ found.answer = a
      BY <2>1
    <2> HIDE DEF found
    <2> QED
      BY <1>1, <2>1, <2>2
  <1>3. ASSUME NEW n \in Readers, Handler(n) PROVE Decoding' /\ Once' /\ Stored
    <2> DEFINE c == reader[n].call
               next == IF c \in called THEN Idle ELSE [reader[n] EXCEPT !.stage = "decode"]
    <2>1. /\ reader' = [reader EXCEPT ![n] = next] /\ called' = called \cup {c}
          /\ UNCHANGED <<done, resultErr>> /\ c \in Calls /\ reader[n].answer \in Answers
      BY <1>3 DEF Handler
    <2>2. CASE c \in called
      <3>1. next.stage = "idle"
        BY <2>2 DEF Idle
      <3> HIDE DEF next
      <3> QED
        BY <1>1, <2>1, <2>2, <3>1
    <2>3. CASE c \notin called
      <3>1. next.stage = "decode" /\ next.call = c /\ next.answer \in Answers
        BY <1>1, <2>1, <2>3
      <3> HIDE DEF next
      <3> QED
        BY <1>1, <2>1, <2>3, <3>1
    <2> QED
      BY <2>2, <2>3
  <1>4. ASSUME NEW n \in Readers, HandlerDone(n) PROVE Decoding' /\ Once' /\ Stored
    <2> DEFINE c == reader[n].call
    <2>1. /\ reader' = [reader EXCEPT ![n] = Idle] /\ done' = done \cup {c} /\ UNCHANGED called
          /\ resultErr' = [resultErr EXCEPT ![c] = reader[n].answer]
          /\ c \in Calls /\ reader[n].answer \in Answers /\ c \in called /\ c \notin done
      BY <1>1, <1>4 DEF HandlerDone
    <2>2. Idle.stage = "idle"
      BY DEF Idle
    <2>3. Decoding' /\ Stored
      BY <1>1, <2>1, <2>2
    <2>4. Once'
      BY <1>1, <1>4, <2>1, <2>2 DEF HandlerDone
    <2> QED
      BY <2>3, <2>4
  <1>5. CASE UNCHANGED handlers
    BY <1>1, <1>5 DEF handlers
  <1> QED
    BY <1>2, <1>3, <1>4, <1>5, OthersLeaveHandlers, Zenon DEF Next

\* A channel in the map is open: waitAck registers a new one, and NotifyAcks takes
\* out the ones it closes.
LEMMA OpenStep ==
  ASSUME IInv, [Next]_vars
  PROVE  \A i \in Requests : ack'[i] \notin acked'
  <1> DEFINE Open == \A i \in Requests : ack[i] \notin acked
  <1>1. /\ ack \in [Requests -> Calls \cup {NoCall}] /\ acked \subseteq Calls /\ wire \subseteq Requests
        /\ Open
    BY DEF IInv, TypeOK, ClosedOnce
  <1>2. ASSUME NEW c \in Calls, WaitAck(c) PROVE Open'
    <2>1. c \notin acked /\ id(c) \in Requests
      BY <1>2, CallIs DEF WaitAck, IInv, Channels
    <2>2. \/ ack' = [ack EXCEPT ![id(c)] = c]
          \/ ack' = [ack EXCEPT ![id(c)] = ack[id(c)]]
      BY <1>2, Zenon DEF WaitAck, IInv, TypeOK
    <2> QED
      BY <1>1, <1>2, <2>1, <2>2 DEF WaitAck
  <1>3. ASSUME NEW c \in Calls, Retrying(c) PROVE Open'
    <2>1. UNCHANGED ack \/ ack' = [ack EXCEPT ![id(c)] = NoCall]
      BY <1>3 DEF Retrying, Acknowledged, GiveUp, removeAck
    <2> QED
      BY <1>1, <1>3, <2>1, NotCalls, CallIs DEF Retrying
  <1>4. ASSUME NEW ids \in SUBSET wire, NotifyAcks(ids) PROVE Open'
    <2>1. /\ acked' = acked \cup ({ack[i] : i \in ids} \ {NoCall})
          /\ ack' = [i \in Requests |-> IF i \in ids THEN NoCall ELSE ack[i]]
      BY <1>4 DEF NotifyAcks
    <2>2. \A i \in Requests : ack[i] \in Calls => id(ack[i]) = i
      BY DEF IInv, Channels
    <2> QED
      BY <1>1, <2>1, <2>2, NotCalls
  <1>5. ASSUME \/ UNCHANGED vars \/ CancelRequests \/ Close \/ Wait
               \/ \E c \in Calls : \/ Begin(c) \/ Register(c) \/ Selecting(c) \/ Unregister(c)
                                   \/ Leave(c)
               \/ \E i \in Requests : Cancel(i)
               \/ \E n \in Readers, i \in wire, a \in Answers : Notify(n, i, a)
               \/ \E n \in Readers : Handler(n) \/ HandlerDone(n)
        PROVE  UNCHANGED <<ack, acked>>
    BY <1>5 DEF vars, engine, CancelRequests, Close, Wait, Begin, Register, Selecting, Unregister,
                Leave, Cancel, Notify, Handler, HandlerDone
  <1>6. CASE UNCHANGED <<ack, acked>>
    BY <1>1, <1>6
  <1> QED
    BY <1>2, <1>3, <1>4, <1>5, <1>6, Retries, Selects DEF Next, Do, IInv

\* What Do returns: ErrEngineClosed before it registered, or while its channel was
\* not closed; the handler's result when it is there.
LEMMA ReturnStep ==
  ASSUME IInv, [Next]_vars
  PROVE  AckedNotRetried' /\ ResultIsStored'
  <1> DEFINE Gives(c, v) ==
        /\ ret' = [ret EXCEPT ![c] = v] /\ UNCHANGED early
        /\ v = "ErrEngineClosed" => c \notin early
        /\ v \in Errors \/ (c \in done /\ v = resultErr[c])
             Same == ret' = ret /\ early' = early
  <1>1. /\ pc \in [Calls -> Labels] /\ ret \in [Calls -> Answers \cup Errors \cup {"none"}]
        /\ early \subseteq Calls /\ done \subseteq Calls
    BY DEF IInv, TypeOK
  <1>2. \A c \in early : ret[c] # "ErrEngineClosed" /\ c \in acked /\ pc[c] # "idle"
    BY DEF IInv, AckedNotRetried, Channels
  <1>3. \A c \in Calls : ret[c] \in Answers => c \in done /\ ret[c] = resultErr[c]
    BY DEF IInv, ResultIsStored
  <1>4. \A c \in done : c \in done' /\ resultErr'[c] = resultErr[c] /\ resultErr[c] \in Answers
    BY DecodingStep DEF IInv, Decoding
  <1>5. "none" \notin Answers /\ \A e \in Errors : e \notin Answers
    BY AnswersAssumption
  <1>6. ASSUME NEW c \in Calls, NEW v, Gives(c, v) PROVE AckedNotRetried' /\ ResultIsStored'
    BY <1>1, <1>2, <1>3, <1>4, <1>5, <1>6 DEF AckedNotRetried, ResultIsStored
  <1>7. CASE Same
    BY <1>1, <1>2, <1>3, <1>4, <1>7 DEF AckedNotRetried, ResultIsStored
  <1>8. ASSUME NEW c \in Calls, Begin(c) PROVE Same \/ \E v : Gives(c, v)
    <2>1. UNCHANGED early /\ c \notin early
      BY <1>2, <1>8 DEF Begin, MayCall, outside
    <2>2. UNCHANGED ret \/ ret' = [ret EXCEPT ![c] = "ErrEngineClosed"]
      BY <1>8 DEF Begin
    <2>3. "ErrEngineClosed" \in Errors
      BY DEF Errors
    <2> QED
      BY <2>1, <2>2, <2>3, Zenon
  <1>9. ASSUME NEW c \in Calls, Retrying(c) PROVE Same \/ \E v : Gives(c, v)
    <2>1. UNCHANGED early /\ ackChan[c] = c
      BY <1>9 DEF Retrying, IInv, Channels
    <2>2. UNCHANGED ret \/ \E e \in Errors : /\ ret' = [ret EXCEPT ![c] = e]
                                             /\ e = "ErrEngineClosed" => c \notin acked
      BY <1>9, <2>1 DEF Retrying, Acknowledged, GiveUp, Return
    <2> QED
      BY <1>2, <2>1, <2>2, Zenon
  <1>10. ASSUME NEW c \in Calls, Selecting(c) PROVE Same \/ \E v : Gives(c, v)
    <2>1. UNCHANGED early
      BY <1>10, Zenon DEF Selecting, outside
    <2>2. \/ UNCHANGED ret
          \/ \E v \in {"ctxErr", "canceled"} : ret' = [ret EXCEPT ![c] = v]
          \/ c \in done /\ ret' = [ret EXCEPT ![c] = resultErr[c]]
      BY <1>10 DEF Selecting, Return
    <2>3. \A v \in {"ctxErr", "canceled"} : v \in Errors /\ v # "ErrEngineClosed"
      BY DEF Errors
    <2>4. c \in done => resultErr[c] # "ErrEngineClosed"
      BY <1>4, <1>5 DEF Errors
    <2> QED
      BY <2>1, <2>2, <2>3, <2>4, Zenon
  <1>11. ASSUME NEW ids \in SUBSET wire, NotifyAcks(ids) PROVE AckedNotRetried' /\ ResultIsStored'
    <2>1. UNCHANGED <<ret, done, resultErr>> /\ early' \subseteq early \cup ({ack[i] : i \in ids} \ {NoCall})
      BY <1>11 DEF NotifyAcks, calls, handlers
    <2>2. \A i \in ids : ack[i] # NoCall => ack[i] \in Calls /\ pc[ack[i]] \in {"send", "loop"}
      BY DEF IInv, TypeOK, Channels, Unacked
    <2>3. \A i \in ids : ack[i] # NoCall => ret[ack[i]] = "none"
      BY <2>2 DEF IInv, NotYet
    <2> QED
      BY <1>2, <1>3, <2>1, <2>3 DEF AckedNotRetried, ResultIsStored
  <1>12. ASSUME \/ UNCHANGED vars \/ CancelRequests \/ Close \/ Wait
                \/ \E c \in Calls : Register(c) \/ WaitAck(c) \/ Unregister(c) \/ Leave(c)
                \/ \E i \in Requests : Cancel(i)
                \/ \E n \in Readers, i \in wire, a \in Answers : Notify(n, i, a)
                \/ \E n \in Readers : Handler(n) \/ HandlerDone(n)
         PROVE  Same
    BY <1>12 DEF vars, calls, outside, CancelRequests, Close, Wait, Register, WaitAck, Unregister,
                 Leave, Cancel, Notify, Handler, HandlerDone
  <1> HIDE DEF Gives, Same
  <1> QED
    BY <1>6, <1>7, <1>8, <1>9, <1>10, <1>11, <1>12, Retries, Selects DEF Next, Do, IInv
-----------------------------------------------------------------------------
\* The empty engine satisfies the inductive invariant.
LEMMA InitIInv ==
  ASSUME Init
  PROVE  IInv
  <1> USE DEF Init
  <1>1. TypeOK
    BY Zenon DEF TypeOK, Labels, Idle
  <1>2. Sequential /\ NotYet
    BY CallOf DEF Sequential, NotYet
  <1>3. Handlers /\ Channels
    BY NotCalls DEF Handlers, Channels, Unacked
  <1>4. Decoding /\ ClosedOnce
    BY DEF Decoding, ClosedOnce, Idle
  <1>5. Closing /\ CloseWaits /\ AckedNotRetried
    BY DEF Closing, CloseWaits, AckedNotRetried
  <1>6. ResultIsStored
    BY AnswersAssumption DEF ResultIsStored
  <1> QED
    BY <1>1, <1>2, <1>3, <1>4, <1>5, <1>6 DEF IInv

\* Every step preserves the inductive invariant.
LEMMA StepIInv ==
  ASSUME IInv, [Next]_vars
  PROVE  IInv'
  <1>1. TypeOK' /\ Sequential' /\ Handlers' /\ Channels' /\ NotYet'
    BY TypeStep, SequentialStep, HandlersStep, ChannelsStep, NotYetStep DEF IInv
  <1>2. Closing' /\ CloseWaits' /\ Decoding'
    BY CloseStep, DecodingStep DEF IInv
  <1>3. ClosedOnce'
    BY OpenStep, DecodingStep DEF IInv, ClosedOnce
  <1>4. AckedNotRetried' /\ ResultIsStored'
    BY ReturnStep
  <1> QED
    BY <1>1, <1>2, <1>3, <1>4 DEF IInv

\* It holds in every reachable state.
LEMMA AlwaysIInv == Spec => []IInv
  BY InitIInv, StepIInv, PTL DEF Spec

\* The engine holds a handler or a channel only for a call that is inside Do, so
\* none is left when no call is active.
THEOREM MapsEmptied == Spec => []NothingLeft
  <1>1. ASSUME IInv PROVE NothingLeft
    <2>1. SUFFICES ASSUME Active = {}, NEW i \in Requests PROVE rpc[i] = NoCall /\ ack[i] = NoCall
      BY DEF NothingLeft
    <2>2. /\ rpc[i] \in Calls \cup {NoCall, Nop} /\ ack[i] \in Calls \cup {NoCall}
          /\ \A c \in Calls : pc[c] \in {"idle", "returned"}
      BY <1>1, <2>1 DEF IInv, TypeOK, Active
    <2>3. rpc[i] \notin Calls /\ rpc[i] # Nop
      BY <1>1, <2>2 DEF IInv, Handlers, Inside
    <2>4. ack[i] \notin Calls
      BY <1>1, <2>2 DEF IInv, Channels, Unacked
    <2> QED
      BY <2>2, <2>3, <2>4
  <1> QED
    BY <1>1, AlwaysIInv, PTL

\* Close and ForceClose return when no call is inside Do, and none enters later.
THEOREM NoCallAfterClose == Spec => []CloseWaits
  <1>1. IInv => CloseWaits
    BY DEF IInv
  <1> QED
    BY <1>1, AlwaysIInv, PTL

\* No ack channel and no done channel is closed twice.
THEOREM NoDoubleClose == Spec => []ClosedOnce
  <1>1. IInv => ClosedOnce
    BY DEF IInv
  <1> QED
    BY <1>1, AlwaysIInv, PTL

\* A request acknowledged before the engine was closed does not end in the error
\* on which callers send it again.
THEOREM AckedOnce == Spec => []AckedNotRetried
  <1>1. IInv => AckedNotRetried
    BY DEF IInv
  <1> QED
    BY <1>1, AlwaysIInv, PTL

\* Do returns a result only after the handler stored it, and then that one.
THEOREM ResultOfHandler == Spec => []ResultIsStored
  <1>1. IInv => ResultIsStored
    BY DEF IInv
  <1> QED
    BY <1>1, AlwaysIInv, PTL

\* A result, once stored, is never overwritten: repeated answers of the server
\* and late readers find handlerCalled set.
THEOREM ResultKept ==
  Spec => [][\A c \in done : c \in done' /\ resultErr'[c] = resultErr[c]]_vars
  <1>1. IInv /\ [Next]_vars => [\A c \in done : c \in done' /\ resultErr'[c] = resultErr[c]]_vars
    BY DecodingStep DEF IInv
  <1> QED
    BY <1>1, AlwaysIInv, PTL DEF Spec

\* The state of the engine and of its callers has its type.
THEOREM TypeCorrect == Spec => []TypeOK
  <1>1. IInv => TypeOK
    BY DEF IInv
  <1> QED
    BY <1>1, AlwaysIInv, PTL
=============================================================================
