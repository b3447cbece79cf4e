----------------------------- MODULE RpcEngine -----------------------------
(***************************************************************************)
(* The RPC engine (package rpc) and the calls mtproto.Conn makes of it.    *)
(* A call is one execution of Engine.Do; a request is one Conn.Invoke,     *)
(* which calls Do a second time, with the same message id, after a bad     *)
(* server salt.  The goroutines are the callers, the readers (readLoop     *)
(* starts one per incoming message), and whoever closes the engine.        *)
(* A step is what a goroutine does between two points where others can     *)
(* interfere: a section under Engine.mux, a channel operation, a send.     *)
(***************************************************************************)
EXTENDS Integers

CONSTANTS
  Requests,    \* the Invoke calls, each with its message id
  Attempts,    \* the calls of Do an Invoke may make: {1, 2}, or {1} as a bound
  Readers,     \* how many incoming messages are processed at once
  Answers,     \* what a server answers: results, errors, and "badSalt"
  MaxRetries   \* Options.MaxRetries

\* What Do returns when it has no answer: errors of the engine, of the send and of
\* the caller's context, which no server sends.
Errors == {"ErrEngineClosed", "sendErr", "retryLimit", "canceled", "ctxErr"}

ASSUME AnswersAssumption ==
  "badSalt" \in Answers /\ "none" \notin Answers /\ Answers \cap Errors = {}

ASSUME AttemptsAssumption == Attempts \in {{1}, {1, 2}}

ASSUME RetriesAssumption == MaxRetries \in Nat \ {0}

Calls == Requests \X Attempts

id(c) == c[1]

NoCall == <<"none", 0>>

Nop == <<"nop", 0>>

VARIABLES
  rpc,        \* Engine.rpc: message id -> the call whose handler is set
  ack,        \* Engine.ack: message id -> ack channel, named by its creator
  closed,     \* Engine.closed
  reqDone,    \* Engine.reqCtx is cancelled
  closer,     \* where Close / ForceClose is
  pc,         \* where each call of Do is
  ackChan,    \* retryUntilAck's ackChan
  sends,      \* how often the call has sent its request
  called,     \* calls with handlerCalled set
  done,       \* calls whose done channel is closed, with retryCtx cancelled
  resultErr,  \* what the handler left for Do
  ret,        \* what Do returns
  reader,     \* what each reader is doing
  acked,      \* ack channels that are closed
  cancelled,  \* requests whose caller cancelled its context
  wire,       \* requests the server has received
  early       \* calls acknowledged before reqCtx was cancelled (history)

engine == <<rpc, ack, acked>>
closing == <<closed, reqDone, closer>>
calls == <<pc, ackChan, sends, ret>>
handlers == <<called, done, resultErr, reader>>
outside == <<cancelled, wire, early>>

vars == <<engine, closing, calls, handlers, outside>>

\* The calls counted by Engine.wg.
Active == {c \in Calls : pc[c] \notin {"idle", "returned"}}

\* retryCtx of a call: derived from the caller's, cancelled by the handler.
retryDone(c) == id(c) \in cancelled \/ c \in done

Idle == [stage |-> "idle", call |-> NoCall, answer |-> "none"]

-----------------------------------------------------------------------------
Init ==
  /\ rpc = [i \in Requests |-> NoCall]
  /\ ack = [i \in Requests |-> NoCall]
  /\ acked = {}
  /\ closed = FALSE
  /\ reqDone = FALSE
  /\ closer = "open"
  /\ pc = [c \in Calls |-> "idle"]
  /\ ackChan = [c \in Calls |-> NoCall]
  /\ sends = [c \in Calls |-> 0]
  /\ ret = [c \in Calls |-> "none"]
  /\ called = {}
  /\ done = {}
  /\ resultErr = [c \in Calls |-> "none"]
  /\ reader = [n \in Readers |-> Idle]
  /\ cancelled = {}
  /\ wire = {}
  /\ early = {}

Goto(c, l) == pc' = [pc EXCEPT ![c] = l]

Return(c, v) == Goto(c, "unregister") /\ ret' = [ret EXCEPT ![c] = v]

\* Conn.Invoke: the first Do, and another one after a bad server salt.
MayCall(c) ==
  /\ pc[c] = "idle"
  /\ c[2] = 2 => ret[<<id(c), 1>>] = "badSalt" /\ pc[<<id(c), 1>>] = "returned"

\* Mutant: `closed' is not looked at together with wg.Add.
Begin_open(c) ==
  /\ MayCall(c)
  /\ Goto(c, "register")
  /\ UNCHANGED <<engine, closing, ackChan, sends, ret, handlers, outside>>

\* Do, first section: count the call unless the engine is closed.
Begin(c) ==
  /\ MayCall(c)
  /\ IF closed THEN Goto(c, "returned") /\ ret' = [ret EXCEPT ![c] = "ErrEngineClosed"]
               ELSE Goto(c, "register") /\ UNCHANGED ret
  /\ UNCHANGED <<engine, closing, ackChan, sends, handlers, outside>>

\* Do: set the handler.
Register(c) ==
  /\ pc[c] = "register"
  /\ rpc' = [rpc EXCEPT ![id(c)] = c]
  /\ Goto(c, "waitAck")
  /\ UNCHANGED <<ack, acked, closing, ackChan, sends, ret, handlers, outside>>

\* waitAck: the registered channel, or a new one.
WaitAck(c) ==
  /\ pc[c] = "waitAck"
  /\ ackChan' = [ackChan EXCEPT ![c] = IF ack[id(c)] = NoCall THEN c ELSE ack[id(c)]]
  /\ ack' = [ack EXCEPT ![id(c)] = ackChan'[c]]
  /\ Goto(c, "send")
  /\ UNCHANGED <<rpc, acked, closing, sends, ret, handlers, outside>>

\* A send puts the request on the wire, where it may be lost.
Transmit(c) == wire' = wire \/ wire' = wire \cup {id(c)}

Counted(c) == sends' = [sends EXCEPT ![c] = sends[c] + 1]

\* Mutant: the ack channel stays registered.
removeAck_keep(c) == UNCHANGED ack

\* removeAck, deferred by retryUntilAck.
removeAck(c) == ack' = [ack EXCEPT ![id(c)] = NoCall]

\* retryUntilAck returns nil or retryCtx's error: Do goes on to its select.
Acknowledged(c) == Goto(c, "select") /\ removeAck(c) /\ UNCHANGED ret

\* retryUntilAck returns another error, and so does Do.
GiveUp(c, e) == Return(c, e) /\ removeAck(c)

\* retryUntilAck: the first send.
Send(c) ==
  /\ pc[c] = "send"
  /\ Transmit(c)
  /\ \/ Counted(c) /\ Goto(c, "loop") /\ UNCHANGED <<ack, ret>>
     \/ GiveUp(c, "sendErr") /\ UNCHANGED sends
     \/ retryDone(c) /\ Acknowledged(c) /\ UNCHANGED sends
  /\ UNCHANGED <<rpc, acked, closing, ackChan, handlers, cancelled, early>>

\* retryUntilAck's loop: retryCtx or the ack.
LoopAcked(c) ==
  /\ pc[c] = "loop"
  /\ retryDone(c) \/ ackChan[c] \in acked
  /\ Acknowledged(c)
  /\ UNCHANGED <<rpc, acked, closing, ackChan, sends, handlers, outside>>

\* Mutant: forced close does not look for an ack that is already there.
LoopClosed_blind(c) ==
  /\ pc[c] = "loop"
  /\ reqDone
  /\ GiveUp(c, "ErrEngineClosed")
  /\ UNCHANGED <<rpc, acked, closing, ackChan, sends, handlers, outside>>

\* The loop: the engine is forcibly closed; an ack that is there is preferred.
LoopClosed(c) ==
  /\ pc[c] = "loop"
  /\ reqDone
  /\ IF ackChan[c] \in acked THEN Acknowledged(c) ELSE GiveUp(c, "ErrEngineClosed")
  /\ UNCHANGED <<rpc, acked, closing, ackChan, sends, handlers, outside>>

\* The loop: the retry timer; a send that is cancelled counts as the ack.
LoopRetry(c) ==
  /\ pc[c] = "loop"
  /\ Transmit(c)
  /\ \/ /\ Counted(c)
        /\ IF sends[c] >= MaxRetries THEN GiveUp(c, "retryLimit")
                                     ELSE UNCHANGED <<pc, ret, ack>>
     \/ GiveUp(c, "sendErr") /\ UNCHANGED sends
     \/ retryDone(c) /\ Acknowledged(c) /\ UNCHANGED sends
  /\ UNCHANGED <<rpc, acked, closing, ackChan, handlers, cancelled, early>>

\* Mutant: once the request is sent, the caller's context is ignored.
SelectCancelled_unsent(c) ==
  /\ pc[c] = "select"
  /\ id(c) \in cancelled
  /\ sends[c] = 0
  /\ Return(c, "ctxErr")
  /\ UNCHANGED <<engine, closing, ackChan, sends, handlers, outside>>

\* Do's select: the caller gave up; a request that was sent is dropped.
SelectCancelled(c) ==
  /\ pc[c] = "select"
  /\ id(c) \in cancelled
  /\ IF sends[c] = 0
     THEN Return(c, "ctxErr") /\ UNCHANGED rpc
     ELSE Goto(c, "drop") /\ rpc' = [rpc EXCEPT ![id(c)] = Nop] /\ UNCHANGED ret
  /\ UNCHANGED <<ack, acked, closing, ackChan, sends, handlers, outside>>

\* The DropHandler returns, with or without an error.
Drop(c) ==
  /\ pc[c] = "drop"
  /\ Return(c, "ctxErr")
  /\ UNCHANGED <<engine, closing, ackChan, sends, handlers, outside>>

\* Mutant: forced close is noticed only when the result is there as well.
SelectClosed_done(c) ==
  /\ pc[c] = "select"
  /\ reqDone /\ c \in done
  /\ Return(c, resultErr[c])
  /\ UNCHANGED <<engine, closing, ackChan, sends, handlers, outside>>

\* The select: forcibly closed; a result that is there is preferred.
SelectClosed(c) ==
  /\ pc[c] = "select"
  /\ reqDone
  /\ Return(c, IF c \in done THEN resultErr[c] ELSE "canceled")
  /\ UNCHANGED <<engine, closing, ackChan, sends, handlers, outside>>

SelectDone(c) ==
  /\ pc[c] = "select"
  /\ c \in done
  /\ Return(c, resultErr[c])
  /\ UNCHANGED <<engine, closing, ackChan, sends, handlers, outside>>

\* Do's deferred delete of the handler.
Unregister(c) ==
  /\ pc[c] = "unregister"
  /\ rpc' = [rpc EXCEPT ![id(c)] = NoCall]
  /\ Goto(c, "leave")
  /\ UNCHANGED <<ack, acked, closing, ackChan, sends, ret, handlers, outside>>

\* Do's deferred wg.Done.
Leave(c) ==
  /\ pc[c] = "leave"
  /\ Goto(c, "returned")
  /\ UNCHANGED <<engine, closing, ackChan, sends, ret, handlers, outside>>
-----------------------------------------------------------------------------
\* The caller cancels its context.
Cancel(i) ==
  /\ i \notin cancelled
  /\ cancelled' = cancelled \cup {i}
  /\ UNCHANGED <<engine, closing, calls, handlers, wire, early>>

\* Mutant: the channel is closed but stays in the map.
NotifyAcks_keep(ids) ==
  LET chans == {ack[i] : i \in ids} \ {NoCall}
  IN  /\ acked' = acked \cup chans
      /\ early' = IF reqDone THEN early ELSE early \cup chans
      /\ UNCHANGED <<rpc, ack, closing, calls, handlers, cancelled, wire>>

\* NotifyAcks(ids), all under the mutex; the server repeats acks at will.
NotifyAcks(ids) ==
  LET chans == {ack[i] : i \in ids} \ {NoCall}
  IN  /\ acked' = acked \cup chans
      /\ ack' = [i \in Requests |-> IF i \in ids THEN NoCall ELSE ack[i]]
      /\ early' = IF reqDone THEN early ELSE early \cup chans
      /\ UNCHANGED <<rpc, closing, calls, handlers, cancelled, wire>>

\* NotifyResult and NotifyError: look up the handler; it is called after the
\* mutex is released.
Notify(n, i, answer) ==
  /\ reader[n] = Idle
  /\ rpc[i] \in Calls
  /\ reader' = [reader EXCEPT ![n] = [stage |-> "found", call |-> rpc[i], answer |-> answer]]
  /\ UNCHANGED <<engine, closing, calls, called, done, resultErr, outside>>

\* Mutant: nothing stops a second call of the handler.
Handler_again(n) ==
  LET c == reader[n].call
  IN  /\ reader[n].stage = "found"
      /\ reader' = [reader EXCEPT ![n].stage = "decode"]
      /\ called' = called \cup {c}
      /\ UNCHANGED <<engine, closing, calls, done, resultErr, outside>>

\* The handler: only its first call goes on to decode the answer.
Handler(n) ==
  LET c == reader[n].call
  IN  /\ reader[n].stage = "found"
      /\ reader' = [reader EXCEPT ![n] = IF c \in called THEN Idle
                                         ELSE [reader[n] EXCEPT !.stage = "decode"]]
      /\ called' = called \cup {c}
      /\ UNCHANGED <<engine, closing, calls, done, resultErr, outside>>

\* The handler stores the result, closes done and cancels retryCtx.
HandlerDone(n) ==
  LET c == reader[n].call
  IN  /\ reader[n].stage = "decode"
      /\ resultErr' = [resultErr EXCEPT ![c] = reader[n].answer]
      /\ done' = done \cup {c}
      /\ reader' = [reader EXCEPT ![n] = Idle]
      /\ UNCHANGED <<engine, closing, calls, called, outside>>

\* ForceClose's reqCancel, before or after a graceful Close began.
CancelRequests ==
  /\ ~ reqDone
  /\ reqDone' = TRUE
  /\ closer' = IF closer = "open" THEN "forced" ELSE closer
  /\ UNCHANGED <<closed, engine, calls, handlers, outside>>

\* Close, on its own or called by ForceClose.
Close ==
  /\ closer \in {"open", "forced"}
  /\ closed' = TRUE
  /\ closer' = "wait"
  /\ UNCHANGED <<reqDone, engine, calls, handlers, outside>>

\* Close returns from wg.Wait.
Wait ==
  /\ closer = "wait"
  /\ Active = {}
  /\ closer' = "closed"
  /\ UNCHANGED <<closed, reqDone, engine, calls, handlers, outside>>

Do(c) ==
  \/ Register(c)
  \/ WaitAck(c)
  \/ Send(c)
  \/ LoopAcked(c)
  \/ LoopClosed(c)
  \/ LoopRetry(c)
  \/ SelectCancelled(c)
  \/ Drop(c)
  \/ SelectClosed(c)
  \/ SelectDone(c)
  \/ Unregister(c)
  \/ Leave(c)

Next ==
  \/ \E c \in Calls : Begin(c)
  \/ \E c \in Calls : Do(c)
  \/ \E i \in Requests : Cancel(i)
  \/ \E ids \in SUBSET wire : NotifyAcks(ids)
  \/ \E n \in Readers, i \in wire, a \in Answers : Notify(n, i, a)
  \/ \E n \in Readers : Handler(n)
  \/ \E n \in Readers : HandlerDone(n)
  \/ CancelRequests
  \/ Close
  \/ Wait

Spec == Init /\ [][Next]_vars

\* Goroutines run: a call of Do that can go on does (a send and the drop
\* handler return), and so does ForceClose once it has begun.
Fairness ==
  /\ \A c \in Calls : WF_vars(Do(c))
  /\ WF_vars(reqDone /\ Close)
  /\ WF_vars(Wait)

FairSpec == Spec /\ Fairness
-----------------------------------------------------------------------------
\* When no call is active the engine holds no handler and no ack channel:
\* every way out of Do and retryUntilAck undoes its registrations.
NothingLeft ==
  Active = {} => \A i \in Requests : rpc[i] = NoCall /\ ack[i] = NoCall

\* Once Close has returned no call is, or will be, inside Do: `closed' and
\* wg.Add change under one mutex (engine.go:35).
CloseWaits == closer = "closed" => Active = {}

\* No channel is closed twice, which would panic: not an ack channel when acks
\* are repeated, not done when a result is repeated or processed by two readers.
ClosedOnce ==
  /\ \A i \in Requests : ack[i] \notin acked
  /\ \A n \in Readers : reader[n].stage = "decode" =>
        /\ reader[n].call \notin done
        /\ \A m \in Readers \ {n} : reader[m].stage = "decode" => reader[m].call # reader[n].call

\* A request acknowledged before ForceClose never ends in ErrEngineClosed, the
\* error on which callers send it again (retryUntilAck, pool.DC.Invoke).
AckedNotRetried == \A c \in early : ret[c] # "ErrEngineClosed"

\* Do returns what the handler stored, never a result that is not there.
ResultIsStored == \A c \in Calls : ret[c] \in Answers => c \in done /\ ret[c] = resultErr[c]

\* ForceClose returns: wherever the calls of Do are, none blocks it, provided that
\* sends return (Do, retryUntilAck, Close).
ForceCloseEnds == reqDone ~> closer = "closed"

\* A call whose answer arrived, or whose caller gave up, returns (Do's select,
\* retryUntilAck's loop).
CallEnds == \A c \in Calls : pc[c] # "idle" /\ retryDone(c) ~> pc[c] = "returned"
-----------------------------------------------------------------------------
\* engine.go:178: "Result arrived concurrently with close, prefer it."
ResultPreferred ==
  [][\A c \in done : ret[c] = "none" => ret'[c] # "ErrEngineClosed"]_vars
=============================================================================
