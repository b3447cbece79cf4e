---------------------------- MODULE MtprotoConn ----------------------------
(***************************************************************************)
(* One run of mtproto.Conn: the goroutines of Conn.Run that share one      *)
(* transport.  The read loop starts a goroutine per message and, when the  *)
(* server has forgotten the key, makes a new one in place; the calls       *)
(* (rpc.Engine.Do, of which only the sends, the acknowledgement and the    *)
(* result matter here: RpcEngine has the rest) and the ack and ping loops  *)
(* all write; handleClose takes the connection down.  (saltLoop writes as   *)
(* pingLoop does and waits for no answer: it is left out.)                 *)
(*                                                                         *)
(* A writer holds exchangeLock for reading from the encryption to the end  *)
(* of the transport's Send, and writeMux during the Send.  Both locks are  *)
(* read off the program counters: holding is a value of pc.                *)
(***************************************************************************)
EXTENDS Naturals, FiniteSets

CONSTANTS Calls,       \* calls of Conn.Invoke
          MaxMessages, \* messages the server sends (bound)
          AckBatch,    \* Conn.ackBatchSize
          MaxRetries,  \* rpc.Engine.maxRetries
          MaxBind,     \* maxBindTempAuthKeyAttempts
          MaxPings,    \* pings sent while the peer answers (bound)
          MaxForgets,  \* times the server forgets the key (bound)
          GivesUp      \* the kernel ends a write to a silent peer

ASSUME Constants ==
    /\ {AckBatch, MaxRetries, MaxBind} \subseteq Nat \ {0}
    /\ {MaxMessages, MaxPings, MaxForgets} \subseteq Nat
    /\ GivesUp \in BOOLEAN
    /\ Calls \cap {"bind", "ackLoop", "pingLoop"} = {}

VARIABLES
    pfs,      \* Conn.pfs
    run,      \* Conn.Run: "bind" (bindTempAuthKey), "group" or "returned"
    ctx,      \* the group's context: "live" or "done"
    open,     \* the transport has not been closed by handleClose
    peer,     \* "up", "silent" (neither reads nor answers) or "gone" (reset)
    key,      \* Conn.authKey, as the number of its creation, 0 when dropped
    srvKey,   \* the key the server knows, 0 for none
    missing,  \* AuthKeyNotFound errors on their way to the client
    w,        \* the writers: the calls and the two loops
    reader,   \* readLoop
    halt,     \* readLoop's lastErr is set
    h,        \* the goroutines of consumeMessage, one per message
    buf,      \* ackLoop's buf
    acked,    \* messages whose acknowledgement was written
    unacked,  \* messages whose acknowledgement failed to be written
    closer,   \* handleClose
    binds,    \* attempts of bindTempAuthKey that were answered with an error
    pings, forgets

vars == <<pfs, run, ctx, open, peer, key, srvKey, missing, w, reader, halt, h,
          buf, acked, unacked, closer, binds, pings, forgets>>

Bind == "bind"
Loops == {"ackLoop", "pingLoop"}
Callers == Calls \cup {Bind}
Writers == Callers \cup Loops
Messages == 1 .. MaxMessages

\* exchangeLock held for reading, and writeMux held.
Shared == {x \in Writers : w[x].pc \in {"mux", "send"}}
Sending == {x \in Writers : w[x].pc = "send"}

\* rpc.Engine.wg: the calls inside Do.
InDo == {c \in Callers : w[c].pc \in {"rlock", "mux", "send", "wait", "acked"}}
Closed == closer # "wait"

Ended(x) == w[x].pc = "done"
GroupEnded == /\ reader = "done" /\ closer = "done"
              /\ \A x \in Loops : Ended(x)

Init ==
    /\ pfs \in BOOLEAN
    /\ run = IF pfs THEN "bind" ELSE "group"
    /\ ctx = "live" /\ open = TRUE /\ peer = "up"
    /\ key = 1 /\ srvKey = 1 /\ missing = 0
    /\ w = [x \in Writers |->
              [pc |-> IF (pfs /\ x \in Loops) \/ (~pfs /\ x = Bind) THEN "off" ELSE "idle",
               key |-> 0, retries |-> 0]]
    /\ reader = "recv" /\ halt = FALSE
    /\ h = [m \in Messages |-> [pc |-> "server", key |-> 0]]
    /\ buf = {} /\ acked = {} /\ unacked = {}
    /\ closer = "wait"
    /\ binds = 0 /\ pings = 0 /\ forgets = 0

\* A writer that holds no frame has forgotten its key, one that is through
\* its retries.
At(x, pc) ==
    [w EXCEPT ![x] =
       [pc |-> pc,
        key |-> IF pc \in {"send", "wait", "acked"} THEN @.key ELSE 0,
        retries |-> IF pc \in {"ok", "failed", "acked", "idle"} THEN 0 ELSE @.retries]]
OnlyWriter == UNCHANGED <<pfs, run, ctx, open, peer, key, srvKey, missing, reader,
                          halt, h, buf, acked, unacked, closer, binds, pings, forgets>>

\* A goroutine of the group returns an error: the group's context is done.
Fails(x) == /\ w' = At(x, "done")
            /\ ctx' = "done"

-----------------------------------------------------------------------------
(* write: every writer, step by step.                                       *)

\* exchangeLock.RLock, refused while a Lock is held or waited for; then
\* newEncryptedMessage reads the session.
Encrypt(x) ==
    /\ w[x].pc = "rlock"
    /\ reader \notin {"lock", "exchange"}
    /\ w' = [w EXCEPT ![x] = [pc |-> "mux", key |-> key, retries |-> @.retries]]
    /\ OnlyWriter

LockWrite(x) ==
    /\ w[x].pc = "mux" /\ Sending = {}
    /\ w' = At(x, "send")
    /\ OnlyWriter

\* Whether Send has a write deadline: the context of a ping carries one, the
\* context of ackLoop and of a plain call does not.
Deadline(x) == x = "pingLoop"

\* The write succeeds; the server answers a key it does not know with 404.
\* retryUntilAck gives up after its last retry, ackLoop's buffer is empty again.
Sent(x) ==
    /\ w[x].pc = "send" /\ open /\ peer = "up"
    /\ missing' = IF w[x].key # srvKey THEN missing + 1 ELSE missing
    /\ w' = At(x, IF x \in Callers /\ w[x].retries = MaxRetries THEN "failed"
                  ELSE IF x \in Callers \cup {"pingLoop"} THEN "wait" ELSE "idle")
    /\ acked' = IF x = "ackLoop" THEN acked \cup buf ELSE acked
    /\ buf' = IF x = "ackLoop" THEN {} ELSE buf
    /\ UNCHANGED <<pfs, run, ctx, open, peer, key, srvKey, reader, halt, h,
                   unacked, closer, binds, pings, forgets>>

CanFail(x) == ~open \/ peer = "gone" \/ (peer = "silent" /\ Deadline(x))

\* Mutant: pingLoop goes on after a ping that could not be written.
SendFails_pingTolerated(x) ==
    /\ w[x].pc = "send" /\ CanFail(x)
    /\ w' = At(x, IF x \in Callers THEN "failed" ELSE "idle")
    /\ buf' = IF x = "ackLoop" THEN {} ELSE buf
    /\ unacked' = IF x = "ackLoop" THEN unacked \cup buf ELSE unacked
    /\ UNCHANGED <<pfs, run, ctx, open, peer, key, srvKey, missing, reader, halt, h,
                   acked, closer, binds, pings, forgets>>

\* The write fails: a call returns the error, ackLoop logs it and forgets what
\* it had to acknowledge, the other loops return it.
SendFails(x) ==
    /\ w[x].pc = "send" /\ CanFail(x)
    /\ CASE x \in Callers -> /\ w' = At(x, "failed")
                             /\ UNCHANGED <<ctx, buf, unacked>>
         [] x = "ackLoop" -> /\ w' = At(x, "idle")
                             /\ buf' = {} /\ unacked' = unacked \cup buf
                             /\ UNCHANGED ctx
         [] OTHER -> Fails(x) /\ UNCHANGED <<buf, unacked>>
    /\ UNCHANGED <<pfs, run, open, peer, key, srvKey, missing, reader, halt, h,
                   acked, closer, binds, pings, forgets>>

-----------------------------------------------------------------------------
(* The calls.                                                               *)

\* Engine.Do on the engine as it is: refused once it is closed.  The manager's
\* calls come after the user callback has started, so after the bind.
Do(c) ==
    /\ w[c].pc = "idle"
    /\ IF c = Bind THEN run = "bind" ELSE run # "bind" /\ w[Bind].pc \in {"off", "ok"}
    /\ w' = At(c, IF Closed THEN "failed" ELSE "rlock")
    /\ OnlyWriter

\* The server reads a call it can decrypt: it acknowledges it or answers.
Heard(c) == peer = "up" /\ open /\ reader = "recv" /\ w[c].key = srvKey

Acknowledge(c) ==
    /\ w[c].pc = "wait" /\ Heard(c)
    /\ w' = At(c, "acked")
    /\ OnlyWriter

\* The result.
Answer(c) ==
    /\ w[c].pc \in {"wait", "acked"} /\ Heard(c)
    /\ w' = At(c, "ok")
    /\ OnlyWriter

\* An attempt to bind is answered with an error.  CONNECTION_NOT_INITED, and
\* ENCRYPTED_MESSAGE_INVALID for a permanent key that is young or of unknown
\* age, are tried again while attempts are left; any other error is final.
BindError(final) ==
    /\ w[Bind].pc \in {"wait", "acked"} /\ Heard(Bind)
    /\ binds' = binds + 1
    /\ w' = At(Bind, IF ~final /\ binds' < MaxBind THEN "idle" ELSE "failed")
    /\ UNCHANGED <<pfs, run, ctx, open, peer, key, srvKey, missing, reader,
                   halt, h, buf, acked, unacked, closer, pings, forgets>>

\* ENCRYPTED_MESSAGE_INVALID for a permanent key older than a minute, or at the
\* last attempt for one of unknown age: dropPFSKeys, then the error.
BindDropsKeys ==
    /\ w[Bind].pc \in {"wait", "acked"} /\ Heard(Bind)
    /\ binds' = binds + 1
    /\ key' = 0
    /\ w' = At(Bind, "failed")
    /\ UNCHANGED <<pfs, run, ctx, open, peer, srvKey, missing, reader,
                   halt, h, buf, acked, unacked, closer, pings, forgets>>

\* retryUntilAck's timer: send again.
RetryTimer(c) ==
    /\ w[c].pc = "wait"
    /\ w' = [w EXCEPT ![c] = [pc |-> "rlock", key |-> 0, retries |-> @.retries + 1]]
    /\ OnlyWriter

\* The engine's reqCtx is done: Do returns wherever it waits, not from a send.
Abort(c) ==
    /\ w[c].pc \in {"wait", "acked"} /\ Closed
    /\ w' = At(c, "failed")
    /\ OnlyWriter

-----------------------------------------------------------------------------
(* The loops.                                                               *)

\* ackLoop receives a message's id from its goroutine, and writes when the
\* batch is full.
TakeAck(m) ==
    /\ h[m].pc = "ack" /\ w["ackLoop"].pc = "idle"
    /\ h' = [h EXCEPT ![m].pc = "done"]
    /\ buf' = buf \cup {m}
    /\ w' = IF Cardinality(buf') >= AckBatch THEN At("ackLoop", "rlock") ELSE w
    /\ UNCHANGED <<pfs, run, ctx, open, peer, key, srvKey, missing, reader, halt,
                   acked, unacked, closer, binds, pings, forgets>>

\* Mutant: the ticker, too, waits for a full batch.
AckTicker_fullBatch ==
    /\ w["ackLoop"].pc = "idle" /\ Cardinality(buf) >= AckBatch
    /\ w' = At("ackLoop", "rlock")
    /\ OnlyWriter

AckTicker ==
    /\ w["ackLoop"].pc = "idle" /\ buf # {}
    /\ w' = At("ackLoop", "rlock")
    /\ OnlyWriter

\* pingLoop's ticker.  Pings that are answered are counted, to bound them.
PingTicker ==
    /\ w["pingLoop"].pc = "idle"
    /\ peer = "up" => pings < MaxPings
    /\ pings' = IF peer = "up" THEN pings + 1 ELSE pings
    /\ w' = At("pingLoop", "rlock")
    /\ UNCHANGED <<pfs, run, ctx, open, peer, key, srvKey, missing, reader, halt,
                   h, buf, acked, unacked, closer, binds, forgets>>

Pong ==
    /\ w["pingLoop"].pc = "wait" /\ Heard("pingLoop")
    /\ w' = At("pingLoop", "idle")
    /\ OnlyWriter

\* pingTimeout, or the group's end, while waiting for the pong.
PongMissed ==
    /\ w["pingLoop"].pc = "wait"
    /\ Fails("pingLoop")
    /\ UNCHANGED <<pfs, run, open, peer, key, srvKey, missing, reader, halt, h,
                   buf, acked, unacked, closer, binds, pings, forgets>>

LoopEnds(x) ==
    /\ ctx = "done" /\ w[x].pc = "idle"
    /\ Fails(x)
    /\ UNCHANGED <<pfs, run, open, peer, key, srvKey, missing, reader, halt, h,
                   buf, acked, unacked, closer, binds, pings, forgets>>

-----------------------------------------------------------------------------
(* readLoop and the goroutines of its messages.                             *)

OnlyReader == UNCHANGED <<pfs, run, open, peer, w, buf, acked, unacked, closer,
                          binds, pings, forgets>>

Receive(m) ==
    /\ reader = "recv" /\ open /\ peer = "up" /\ srvKey # 0
    /\ h[m].pc = "server" /\ \A n \in 1 .. m - 1 : h[n].pc # "server"
    /\ h' = [h EXCEPT ![m] = [pc |-> "consume", key |-> srvKey]]
    /\ reader' = "top"
    /\ UNCHANGED <<ctx, key, srvKey, missing, halt>> /\ OnlyReader

\* The loop's top: halting if a message could not be consumed.
Top ==
    /\ reader = "top"
    /\ reader' = IF halt THEN "wait" ELSE "recv"
    /\ UNCHANGED <<ctx, key, srvKey, missing, halt, h>> /\ OnlyReader

\* Recv fails for good.
RecvFails ==
    /\ reader = "recv" /\ (~open \/ peer = "gone")
    /\ reader' = "wait"
    /\ UNCHANGED <<ctx, key, srvKey, missing, halt, h>> /\ OnlyReader

\* The transport's 404: with PFS the loop ends, without it makes a new key.
AuthKeyNotFound ==
    /\ reader = "recv" /\ open /\ peer = "up" /\ missing > 0
    /\ missing' = missing - 1
    /\ reader' = IF ctx = "done" \/ pfs THEN "wait" ELSE "lock"
    /\ UNCHANGED <<ctx, key, srvKey, halt, h>> /\ OnlyReader

\* Mutant: the key is made while frames of the old one are being written.
LockExchange_noWait ==
    /\ reader = "lock"
    /\ reader' = "exchange"
    /\ UNCHANGED <<ctx, key, srvKey, missing, halt, h>> /\ OnlyReader

\* createAuthKey: exchangeLock.Lock, once no writer holds it.
LockExchange ==
    /\ reader = "lock" /\ Shared = {}
    /\ reader' = "exchange"
    /\ UNCHANGED <<ctx, key, srvKey, missing, halt, h>> /\ OnlyReader

CreateAuthKey ==
    /\ reader = "exchange" /\ open /\ peer = "up" /\ ctx = "live"
    /\ key' = key + 1 /\ srvKey' = key + 1
    /\ reader' = "top"
    /\ UNCHANGED <<ctx, missing, halt, h>> /\ OnlyReader

\* The exchange has a timeout of its own, and its reads may meet another 404.
ExchangeFails ==
    /\ reader = "exchange"
    /\ reader' = "wait"
    /\ UNCHANGED <<ctx, key, srvKey, missing, halt, h>> /\ OnlyReader

\* The deferred handlers.Wait comes before the error reaches the group.
ReadLoopEnds ==
    /\ reader = "wait" /\ \A m \in Messages : h[m].pc \notin {"consume", "ack"}
    /\ reader' = "done" /\ ctx' = "done"
    /\ UNCHANGED <<key, srvKey, missing, halt, h>> /\ OnlyReader

\* decryptMessage with the key of now: a message of a key that has been replaced
\* or dropped, or one damaged on its way, cannot be decrypted and halts the loop.
\* One it rejects (another session, an identifier out of time or seen before) is
\* ignored.  Then the handler and, if the message asks for it, the id for ackLoop.
Consume(m) ==
    /\ h[m].pc = "consume"
    /\ \/ /\ h[m].key = key /\ UNCHANGED halt
          /\ \E pc \in {"ack", "done"} : h' = [h EXCEPT ![m] = [pc |-> pc, key |-> 0]]
       \/ halt' = TRUE /\ h' = [h EXCEPT ![m] = [pc |-> "done", key |-> 0]]
    /\ UNCHANGED <<ctx, key, srvKey, missing, reader>> /\ OnlyReader

ConsumeEnds(m) ==
    /\ h[m].pc = "ack" /\ ctx = "done"
    /\ h' = [h EXCEPT ![m].pc = "done"]
    /\ halt' = TRUE
    /\ UNCHANGED <<ctx, key, srvKey, missing, reader>> /\ OnlyReader

-----------------------------------------------------------------------------
(* Run and handleClose.                                                     *)

\* bindTempAuthKey returned: the loops start, or Run returns its error at once
\* and its deferred cancel ends the context.
BindReturns ==
    /\ run = "bind" /\ w[Bind].pc \in {"ok", "failed"}
    /\ IF w[Bind].pc = "ok"
       THEN /\ run' = "group"
            /\ w' = [x \in Writers |-> IF x \in Loops THEN [w[x] EXCEPT !.pc = "idle"]
                                                      ELSE w[x]]
            /\ UNCHANGED ctx
       ELSE run' = "returned" /\ ctx' = "done" /\ UNCHANGED w
    /\ UNCHANGED <<pfs, open, peer, key, srvKey, missing, reader, halt, h, buf,
                   acked, unacked, closer, binds, pings, forgets>>

RunReturns ==
    /\ run = "group" /\ GroupEnded
    /\ run' = "returned"
    /\ UNCHANGED <<pfs, ctx, open, peer, key, srvKey, missing, w, reader, halt, h,
                   buf, acked, unacked, closer, binds, pings, forgets>>

\* handleClose: ForceClose cancels the calls and refuses new ones ...
ForceClose ==
    /\ closer = "wait" /\ ctx = "done"
    /\ closer' = "force"
    /\ UNCHANGED <<pfs, run, ctx, open, peer, key, srvKey, missing, w, reader, halt,
                   h, buf, acked, unacked, binds, pings, forgets>>

\* Mutant: only the engine is closed.
CloseTransport_engineOnly ==
    /\ closer = "force" /\ InDo = {}
    /\ closer' = "done"
    /\ UNCHANGED <<pfs, run, ctx, open, peer, key, srvKey, missing, w, reader, halt,
                   h, buf, acked, unacked, binds, pings, forgets>>

\* ... waits for the ones inside Do, and only then the transport is closed.
CloseTransport ==
    /\ closer = "force" /\ InDo = {}
    /\ closer' = "done" /\ open' = FALSE
    /\ UNCHANGED <<pfs, run, ctx, peer, key, srvKey, missing, w, reader, halt, h,
                   buf, acked, unacked, binds, pings, forgets>>

-----------------------------------------------------------------------------
(* What comes from outside: the caller of Run, the server, the network.     *)

\* The context given to Run ends, the user callback fails, or, with PFS, the
\* temporary key is due for renewal.
Stop ==
    /\ ctx = "live"
    /\ ctx' = "done"
    /\ UNCHANGED <<pfs, run, open, peer, key, srvKey, missing, w, reader, halt, h,
                   buf, acked, unacked, closer, binds, pings, forgets>>

ServerForgets ==
    /\ srvKey # 0 /\ forgets < MaxForgets
    /\ srvKey' = 0 /\ forgets' = forgets + 1
    /\ UNCHANGED <<pfs, run, ctx, open, peer, key, missing, w, reader, halt, h,
                   buf, acked, unacked, closer, binds, pings>>

Disconnect(how) ==
    /\ peer = "up"
    /\ peer' = how
    /\ UNCHANGED <<pfs, run, ctx, open, key, srvKey, missing, w, reader, halt, h,
                   buf, acked, unacked, closer, binds, pings, forgets>>

KernelGivesUp ==
    /\ GivesUp /\ peer = "silent" /\ Sending # {}
    /\ peer' = "gone"
    /\ UNCHANGED <<pfs, run, ctx, open, key, srvKey, missing, w, reader, halt, h,
                   buf, acked, unacked, closer, binds, pings, forgets>>

Stimulus ==
    \/ Stop
    \/ ServerForgets
    \/ \E how \in {"silent", "gone"} : Disconnect(how)
    \/ \E c \in Calls : Do(c)
    \/ \E m \in Messages : Receive(m)
    \/ \E c \in Callers : Acknowledge(c) \/ Answer(c)
    \/ \E final \in BOOLEAN : BindError(final)
    \/ BindDropsKeys

SystemStep ==
    \/ \E x \in Writers : Encrypt(x) \/ LockWrite(x) \/ Sent(x) \/ SendFails(x)
    \/ Do(Bind)
    \/ \E c \in Callers : RetryTimer(c) \/ Abort(c)
    \/ \E m \in Messages : TakeAck(m) \/ Consume(m) \/ ConsumeEnds(m)
    \/ AckTicker \/ PingTicker \/ Pong \/ PongMissed
    \/ \E x \in Loops : LoopEnds(x)
    \/ Top \/ RecvFails \/ AuthKeyNotFound \/ LockExchange
    \/ CreateAuthKey \/ ExchangeFails \/ ReadLoopEnds
    \/ BindReturns \/ RunReturns \/ ForceClose \/ CloseTransport
    \/ KernelGivesUp

Next == Stimulus \/ SystemStep

Spec == Init /\ [][Next]_vars

\* The goroutines are scheduled, the timers fire and the kernel gives up where
\* GivesUp says so.  Nothing is asked of the server, the callers or the network.
FairSpec == Spec /\ WF_vars(SystemStep)

-----------------------------------------------------------------------------
(* Properties.                                                              *)

\* A frame waiting for the transport or being sent is encrypted with the key
\* the connection has now: no new key is made between write's encryption and
\* the end of its Send (write.go, connect.go: exchangeLock).
NoStaleFrame == \A x \in Shared : w[x].key = key

\* A message that asks for it is acknowledged, or its acknowledgement was tried
\* and failed, or the connection ends: neither the one that waits for ackLoop
\* while that writes others nor the one short of a full batch is left behind
\* (read.go: consumeMessage; ack.go: ackLoop).
AcksWritten ==
    \A m \in Messages :
        run = "group" /\ (h[m].pc = "ack" \/ m \in buf)
            ~> (m \in acked \cup unacked \/ ctx = "done")

\* Once the context is done every goroutine of the run ends and Run returns,
\* also when writers, a key exchange and messages waiting for ackLoop are all
\* in progress (conn.go: Run, handleClose; read.go: readLoop).
ShutdownEnds == ctx = "done" ~> run = "returned" /\ reader = "done" /\ closer = "done"

\* A running connection whose peer is gone or silent comes to its end: by the
\* failed read, the failed write or the missed pong (ping.go: pingLoop).
LostPeerEndsRun == run = "group" /\ peer # "up" ~> run = "returned"

\* "Run initializes MTProto connection to server and blocks until
\* disconnection" (conn.go, Run): a disconnection ends Run, in whatever phase.
BlocksUntilDisconnection == peer = "gone" ~> run = "returned"

\* "handleClose closes rpc engine and underlying connection on context done"
\* (conn.go, handleClose).
ClosesTransport == ctx = "done" ~> ~open

\* "All goroutines are bound to current call" (conn.go, Run): none is left
\* when Run has returned.
BoundToRun == run = "returned" => GroupEnded
=============================================================================
