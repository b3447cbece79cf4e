------------------------------- MODULE PoolDC -------------------------------
(***************************************************************************)
(* The connection pool of one data center (pool.DC), with the primitives   *)
(* it is built on: reqMap, tdsync.Ready, tdsync.ResetReady and             *)
(* tdsync.Supervisor.  The goroutines are the callers of Invoke, one       *)
(* goroutine per connection, and the caller of Close.  A step is a section *)
(* under DC.mu or reqMap.mux, a select, or a call on the connection.       *)
(* DC.mu is explicit only where it is held across two steps (transfer).    *)
(***************************************************************************)
EXTENDS Integers, Sequences, FiniteSets

CONSTANTS
  Requests,  \* goroutines that call Invoke
  Again,     \* whether they call it again and again, or once
  Conns,     \* connection identities, used again when nothing refers to them
  Max        \* DC.max; zero is no limit

ASSUME MaxAssumption == Max \in Nat

ASSUME AgainAssumption == Again \in BOOLEAN

ASSUME ConnsAssumption == Conns \subseteq Nat /\ IsFiniteSet(Conns)

NoConn == -1

NoOne == "none"

VARIABLES
  mu,         \* the request that holds DC.mu between two steps
  total,      \* DC.total
  free,       \* DC.free
  freeReq,    \* DC.freeReq: the requests registered in the map
  chan,       \* the connection in a request's channel
  woken,      \* requests whose stuck.Ready() channel is closed
  closed,     \* DC.closed
  ctxDone,    \* DC.ctx is cancelled
  closer,     \* where Close is
  pc,         \* where each Invoke is
  conn,       \* the connection an Invoke works with
  target,     \* the requester a releasing Invoke transfers to
  cancelled,  \* requests whose context is cancelled
  status,     \* where each connection's goroutine is
  ready,      \* connections whose Ready() is closed
  deleted,    \* poolConn.deleted
  dead        \* connections whose Dead() is closed

pool == <<mu, total, free, freeReq, chan, woken>>
closing == <<closed, ctxDone, closer>>
requests == <<pc, conn, target, cancelled>>
conns == <<status, ready, deleted, dead>>

vars == <<pool, closing, requests, conns>>
-----------------------------------------------------------------------------
Init ==
  /\ mu = NoOne
  /\ total = 0
  /\ free = << >>
  /\ freeReq = {}
  /\ chan = [r \in Requests |-> NoConn]
  /\ woken = {}
  /\ closed = FALSE
  /\ ctxDone = FALSE
  /\ closer = "open"
  /\ pc = [r \in Requests |-> "idle"]
  /\ conn = [r \in Requests |-> NoConn]
  /\ target = [r \in Requests |-> NoOne]
  /\ cancelled = {}
  /\ status = [k \in Conns |-> "none"]
  /\ ready = {}
  /\ deleted = {}
  /\ dead = {}

Goto(r, l) == pc' = [pc EXCEPT ![r] = l]

Holds(r, k) == conn' = [conn EXCEPT ![r] = k]

MayCreate == Max < 1 \/ total < Max

\* The connection's Run is over, or about to be.
Down(k) == status[k] \in {"failed", "exit", "gone"}

InFree(k) == \E i \in 1 .. Len(free) : free[i] = k

\* dead()'s search goes on to the end of free: the last entry with k's id goes.
WithoutConn(k) ==
  IF InFree(k)
  THEN LET idx == CHOOSE i \in 1 .. Len(free) :
                    free[i] = k /\ \A j \in 1 .. Len(free) : free[j] = k => j <= i
       IN  [j \in 1 .. Len(free) - 1 |-> IF j < idx THEN free[j] ELSE free[j + 1]]
  ELSE free

\* No one refers to the connection any more: its identity can be used again.
Fresh(k) ==
  /\ status[k] \in {"none", "gone"}
  /\ ~ InFree(k)
  /\ \A r \in Requests : conn[r] # k /\ chan[r] # k

\* Mutant: only a connection that is free is taken off the count.
DeadLocked_free(k) ==
  /\ mu = NoOne
  /\ total' = IF InFree(k) THEN total - 1 ELSE total
  /\ free' = WithoutConn(k)
  /\ dead' = dead \cup {k}
  /\ woken' = woken \cup {r \in Requests : pc[r] = "wait"}
  /\ UNCHANGED <<mu, freeReq, chan>>

\* The part of dead() under DC.mu: stop counting k, drop it from free, close
\* Dead(), and signal stuck to the requests that already wait on it.
DeadLocked(k) ==
  /\ mu = NoOne
  /\ total' = total - 1
  /\ free' = WithoutConn(k)
  /\ dead' = dead \cup {k}
  /\ woken' = woken \cup {r \in Requests : pc[r] = "wait"}
  /\ UNCHANGED <<mu, freeReq, chan>>
-----------------------------------------------------------------------------
\* Invoke begins.
Invoke(r) ==
  /\ pc[r] = "idle" \/ (Again /\ pc[r] = "returned")
  /\ ~ closed
  /\ Goto(r, "acquire")
  /\ cancelled' = cancelled \ {r}
  /\ UNCHANGED <<pool, closing, conn, target, conns>>

Cancel(r) ==
  /\ pc[r] \notin {"idle", "returned"}
  /\ r \notin cancelled
  /\ cancelled' = cancelled \cup {r}
  /\ UNCHANGED <<pool, closing, pc, conn, target, conns>>

\* acquire, 1st case: take a free connection.
AcquireFree(r) ==
  /\ pc[r] = "acquire" /\ mu = NoOne
  /\ free # << >>
  /\ Holds(r, free[Len(free)])
  /\ free' = SubSeq(free, 1, Len(free) - 1)
  /\ Goto(r, "check")
  /\ UNCHANGED <<mu, total, freeReq, chan, woken, closing, target, cancelled, conns>>

\* ... and try again if it is dead; dead() then returns at once.
CheckDead(r) ==
  /\ pc[r] = "check"
  /\ IF conn[r] \in dead THEN Goto(r, "acquire") /\ Holds(r, NoConn)
                         ELSE Goto(r, "invoke") /\ UNCHANGED conn
  /\ UNCHANGED <<pool, closing, target, cancelled, conns>>

\* acquire, 2nd case: create a connection and start its goroutine.
AcquireNew(r, k) ==
  /\ pc[r] = "acquire" /\ mu = NoOne
  /\ free = << >>
  /\ MayCreate
  /\ Fresh(k) /\ \A j \in Conns : Fresh(j) => k <= j
  /\ total' = total + 1
  /\ status' = [status EXCEPT ![k] = "start"]
  /\ ready' = ready \ {k}
  /\ deleted' = deleted \ {k}
  /\ dead' = dead \ {k}
  /\ Holds(r, k)
  /\ Goto(r, "create")
  /\ UNCHANGED <<mu, free, freeReq, chan, woken, closing, target, cancelled>>

\* ... and wait for it: ready, dead, or a context is done.
CreateReady(r) ==
  /\ pc[r] = "create"
  /\ conn[r] \in ready
  /\ Goto(r, "invoke")
  /\ UNCHANGED <<pool, closing, conn, target, cancelled, conns>>

CreateDead(r) ==
  /\ pc[r] = "create"
  /\ conn[r] \in dead
  /\ Goto(r, "acquire")
  /\ Holds(r, NoConn)
  /\ UNCHANGED <<pool, closing, target, cancelled, conns>>

CreateDone(r) ==
  /\ pc[r] = "create"
  /\ ctxDone \/ r \in cancelled
  /\ Goto(r, "returned")
  /\ Holds(r, NoConn)
  /\ UNCHANGED <<pool, closing, target, cancelled, conns>>

\* acquire, 3rd case: register and unlock.
AcquireWait(r) ==
  /\ pc[r] = "acquire" /\ mu = NoOne
  /\ free = << >>
  /\ ~ MayCreate
  /\ freeReq' = freeReq \cup {r}
  /\ chan' = [chan EXCEPT ![r] = NoConn]
  /\ Goto(r, "enqueue")
  /\ UNCHANGED <<mu, total, free, woken, closing, conn, target, cancelled, conns>>

\* The select takes the channel stuck.Ready() returns now.
StuckReady(r) ==
  /\ pc[r] = "enqueue"
  /\ Goto(r, "wait")
  /\ UNCHANGED <<pool, closing, conn, target, cancelled, conns>>

WaitConn(r) ==
  /\ pc[r] = "wait"
  /\ chan[r] # NoConn
  /\ Holds(r, chan[r])
  /\ chan' = [chan EXCEPT ![r] = NoConn]
  /\ woken' = woken \ {r}
  /\ Goto(r, "invoke")
  /\ UNCHANGED <<mu, total, free, freeReq, closing, target, cancelled, conns>>

\* stuck was signalled, or a context is done: freeReq.delete(key).
WaitStuck(r) ==
  /\ pc[r] = "wait"
  /\ r \in woken
  /\ freeReq' = freeReq \ {r}
  /\ woken' = woken \ {r}
  /\ Goto(r, "drainRetry")
  /\ UNCHANGED <<mu, total, free, chan, closing, conn, target, cancelled, conns>>

\* Mutant: the 3rd case does not watch the caller's context.
WaitDone_dc(r) ==
  /\ pc[r] = "wait"
  /\ ctxDone
  /\ freeReq' = freeReq \ {r}
  /\ woken' = woken \ {r}
  /\ Goto(r, "drainReturn")
  /\ UNCHANGED <<mu, total, free, chan, closing, conn, target, cancelled, conns>>

\* Mutant: the 3rd case does not watch the data center's context.
WaitDone_caller(r) ==
  /\ pc[r] = "wait"
  /\ r \in cancelled
  /\ freeReq' = freeReq \ {r}
  /\ woken' = woken \ {r}
  /\ Goto(r, "drainReturn")
  /\ UNCHANGED <<mu, total, free, chan, closing, conn, target, cancelled, conns>>

WaitDone(r) ==
  /\ pc[r] = "wait"
  /\ ctxDone \/ r \in cancelled
  /\ freeReq' = freeReq \ {r}
  /\ woken' = woken \ {r}
  /\ Goto(r, "drainReturn")
  /\ UNCHANGED <<mu, total, free, chan, closing, conn, target, cancelled, conns>>

\* The non-blocking receive that follows, before retrying or returning.
Drain(r) ==
  /\ pc[r] \in {"drainRetry", "drainReturn"}
  /\ IF chan[r] # NoConn
     THEN /\ Holds(r, chan[r])
          /\ chan' = [chan EXCEPT ![r] = NoConn]
          /\ Goto(r, IF pc[r] = "drainRetry" THEN "invoke" ELSE "release")
     ELSE /\ Goto(r, IF pc[r] = "drainRetry" THEN "acquire" ELSE "returned")
          /\ UNCHANGED <<conn, chan>>
  /\ UNCHANGED <<mu, total, free, freeReq, woken, closing, target, cancelled, conns>>

\* conn.Invoke returns: with a result or an error that is not retried ...
InvokeReturns(r) ==
  /\ pc[r] = "invoke"
  /\ Goto(r, "release")
  /\ UNCHANGED <<pool, closing, conn, target, cancelled, conns>>

\* ... or, the connection being down, with one that is: dead() and try again.
InvokeDead(r) ==
  LET k == conn[r]
  IN  /\ pc[r] = "invoke"
      /\ Down(k)
      /\ r \notin cancelled
      /\ IF k \in deleted THEN Goto(r, "acquire") /\ Holds(r, NoConn)
                          ELSE Goto(r, "dead") /\ UNCHANGED conn
      /\ deleted' = deleted \cup {k}
      /\ UNCHANGED <<pool, closing, target, cancelled, status, ready, dead>>

Dead(r) ==
  /\ pc[r] = "dead"
  /\ DeadLocked(conn[r])
  /\ Goto(r, "acquire")
  /\ Holds(r, NoConn)
  /\ UNCHANGED <<closing, target, cancelled, status, ready, deleted>>

\* Mutant: release does not look for a requester.
ReleaseFree_blind(r) ==
  /\ pc[r] = "release" /\ mu = NoOne
  /\ free' = Append(free, conn[r])
  /\ Holds(r, NoConn)
  /\ Goto(r, "returned")
  /\ UNCHANGED <<mu, total, freeReq, chan, woken, closing, target, cancelled, conns>>

\* release with no requester: the connection becomes free.
ReleaseFree(r) ==
  /\ pc[r] = "release" /\ mu = NoOne
  /\ freeReq = {}
  /\ free' = Append(free, conn[r])
  /\ Holds(r, NoConn)
  /\ Goto(r, "returned")
  /\ UNCHANGED <<mu, total, freeReq, chan, woken, closing, target, cancelled, conns>>

\* Mutant: release goes on to append to free after a transfer.
ReleaseTransfer_free(r, q) ==
  /\ pc[r] = "release" /\ mu = NoOne
  /\ freeReq' = freeReq \ {q}
  /\ free' = Append(free, conn[r])
  /\ target' = [target EXCEPT ![r] = q]
  /\ mu' = r
  /\ Goto(r, "transfer")
  /\ UNCHANGED <<total, chan, woken, closing, conn, cancelled, conns>>

\* release with requesters: transfer removes one of them from the map ...
ReleaseTransfer(r, q) ==
  /\ pc[r] = "release" /\ mu = NoOne
  /\ freeReq' = freeReq \ {q}
  /\ target' = [target EXCEPT ![r] = q]
  /\ mu' = r
  /\ Goto(r, "transfer")
  /\ UNCHANGED <<total, free, chan, woken, closing, conn, cancelled, conns>>

\* A requester that still has the channel its registration made.
Listening(q) == pc[q] \in {"enqueue", "wait", "drainRetry", "drainReturn"}

\* ... and then sends it the connection; release unlocks DC.mu.
Transfer(r) ==
  /\ pc[r] = "transfer"
  /\ chan' = IF Listening(target[r]) THEN [chan EXCEPT ![target[r]] = conn[r]] ELSE chan
  /\ mu' = NoOne
  /\ target' = [target EXCEPT ![r] = NoOne]
  /\ Holds(r, NoConn)
  /\ Goto(r, "returned")
  /\ UNCHANGED <<total, free, freeReq, woken, closing, cancelled, conns>>
-----------------------------------------------------------------------------
\* The connection's goroutine: Run signals Ready, fails, and returns.
ConnReady(k) ==
  /\ status[k] = "start"
  /\ status' = [status EXCEPT ![k] = "run"]
  /\ ready' = ready \cup {k}
  /\ UNCHANGED <<pool, closing, requests, deleted, dead>>

ConnFails(k) ==
  /\ status[k] \in {"start", "run"}
  /\ status' = [status EXCEPT ![k] = "failed"]
  /\ UNCHANGED <<pool, closing, requests, ready, deleted, dead>>

\* The deferred dead(): the swap of deleted, then the part under DC.mu.
ConnExits(k) ==
  /\ status[k] = "failed"
  /\ status' = [status EXCEPT ![k] = IF k \in deleted THEN "gone" ELSE "exit"]
  /\ deleted' = deleted \cup {k}
  /\ UNCHANGED <<pool, closing, requests, ready, dead>>

ConnDead(k) ==
  /\ status[k] = "exit"
  /\ DeadLocked(k)
  /\ status' = [status EXCEPT ![k] = "gone"]
  /\ UNCHANGED <<closing, requests, ready, deleted>>

\* The context NewDC was given is done.
ParentDone ==
  /\ ~ ctxDone
  /\ ctxDone' = TRUE
  /\ UNCHANGED <<closed, closer, pool, requests, conns>>

\* Close: the flag and the context, then Supervisor.Wait.  Only a new Invoke
\* reads the flag, so nothing can tell the two assignments apart.
Close ==
  /\ ~ closed
  /\ closed' = TRUE
  /\ ctxDone' = TRUE
  /\ closer' = "wait"
  /\ UNCHANGED <<pool, requests, conns>>

CloseReturns ==
  /\ closer = "wait"
  /\ \A k \in Conns : status[k] \in {"none", "gone"}
  /\ closer' = "done"
  /\ UNCHANGED <<closed, ctxDone, pool, requests, conns>>

Acquire(r) == AcquireFree(r) \/ AcquireWait(r) \/ \E k \in Conns : AcquireNew(r, k)

Release(r) == ReleaseFree(r) \/ \E q \in freeReq : ReleaseTransfer(r, q)

Next ==
  \/ \E r \in Requests : Invoke(r) \/ Cancel(r)
  \/ \E r \in Requests : Acquire(r)
  \/ \E r \in Requests : CheckDead(r) \/ CreateReady(r) \/ CreateDead(r) \/ CreateDone(r)
  \/ \E r \in Requests : StuckReady(r) \/ WaitConn(r) \/ WaitStuck(r) \/ WaitDone(r) \/ Drain(r)
  \/ \E r \in Requests : InvokeReturns(r) \/ InvokeDead(r) \/ Dead(r)
  \/ \E r \in Requests : Release(r) \/ Transfer(r)
  \/ \E k \in Conns : ConnReady(k) \/ ConnFails(k) \/ ConnExits(k) \/ ConnDead(k)
  \/ ParentDone
  \/ Close
  \/ CloseReturns

Spec == Init /\ [][Next]_vars

\* conn.Invoke has to return: its context or its connection is done.
InvokeMust(r) ==
  \/ InvokeReturns(r) /\ (r \in cancelled \/ Down(conn[r]))
  \/ InvokeDead(r)

\* Weak fairness for a goroutine that can go on; strong fairness for one that
\* competes in acquire for DC.mu, and for a done context in a select reached again
\* and again: Go's mutex does not starve a goroutine and its select is random.
Goes(r) ==
  \/ CheckDead(r) \/ CreateReady(r) \/ CreateDead(r)
  \/ StuckReady(r) \/ WaitConn(r) \/ WaitStuck(r) \/ Drain(r)
  \/ InvokeMust(r) \/ Dead(r) \/ Release(r) \/ Transfer(r)

RequestFair(r) ==
  /\ WF_vars(Goes(r))
  /\ SF_vars(Acquire(r))
  /\ SF_vars(CreateDone(r) \/ WaitDone(r))

ConnFair(k) == WF_vars(ConnExits(k) \/ ConnDead(k) \/ (ctxDone /\ ConnFails(k)))

FairSpec ==
  /\ Spec
  /\ \A r \in Requests : RequestFair(r)
  /\ \A k \in Conns : ConnFair(k)
  /\ WF_vars(CloseReturns)
-----------------------------------------------------------------------------
\* Where an Invoke can be, and a connection's goroutine.
Labels == {"idle", "acquire", "check", "create", "enqueue", "wait", "drainRetry",
           "drainReturn", "invoke", "dead", "release", "transfer", "returned"}

Statuses == {"none", "start", "run", "failed", "exit", "gone"}

\* Every variable has its type.
TypeOK ==
  /\ mu \in Requests \cup {NoOne}
  /\ total \in Nat
  /\ free \in Seq(Conns)
  /\ freeReq \subseteq Requests
  /\ chan \in [Requests -> Conns \cup {NoConn}]
  /\ woken \subseteq Requests
  /\ closed \in BOOLEAN
  /\ ctxDone \in BOOLEAN
  /\ closer \in {"open", "wait", "done"}
  /\ pc \in [Requests -> Labels]
  /\ conn \in [Requests -> Conns \cup {NoConn}]
  /\ target \in [Requests -> Requests \cup {NoOne}]
  /\ cancelled \subseteq Requests
  /\ status \in [Conns -> Statuses]
  /\ ready \subseteq Conns
  /\ deleted \subseteq Conns
  /\ dead \subseteq Conns

\* The connections created and not yet declared dead.
Counted == {k \in Conns : status[k] # "none" /\ k \notin dead}

\* DC.total counts the connections that were created and are not yet declared
\* dead, each once, however many goroutines find out that it died, and stays
\* within DC.max (acquire, dead).
TotalCounts ==
  /\ total = Cardinality(Counted)
  /\ Max > 0 => total <= Max

\* A connection is in one place only: in free, once, or with one request, or in
\* one requester's channel.  Two Invokes never share a connection.
OneOwner ==
  /\ \A i, j \in 1 .. Len(free) : free[i] = free[j] => i = j
  /\ \A r, q \in Requests :
        /\ conn[r] # NoConn /\ conn[r] = conn[q] => r = q
        /\ chan[r] # NoConn /\ chan[r] = chan[q] => r = q
        /\ conn[r] # NoConn => conn[r] # chan[q]
  /\ \A r \in Requests : ~ InFree(conn[r]) /\ ~ InFree(chan[r])

\* No request waits while a connection is free (acquire, release).
FreeNoWaiters == free # << >> => freeReq = {}

\* An Invoke whose context is done returns, wherever it is (acquire, Invoke).
CancelledReturns == \A r \in Requests : r \in cancelled ~> pc[r] = "returned"

\* Close returns, and so does every Invoke that was going on (Close, acquire).
CloseEnds ==
  closed ~> (closer = "done" /\ \A r \in Requests : pc[r] \in {"idle", "returned"})

\* The comment on the stuck field: it is the signal "for cases when all
\* connections are dead, but all requests waiting for free connection in 3rd
\* acquire case", so with no connection left a waiting request wakes up.
StuckSignalled ==
  \A r \in Requests : total = 0 /\ pc[r] = "wait" ~> total > 0 \/ pc[r] # "wait"

\* The comment of acquire: "3rd case: no free connections, can't create yet one,
\* wait for free".  A request that waits on a full pool waits for some counted
\* connection that another goroutine still has, or that is on its way down.
WaitForFree ==
  \A r \in Requests :
     pc[r] = "wait" /\ r \notin woken /\ chan[r] = NoConn /\ ~ MayCreate =>
       \E k \in Counted : Down(k) \/ InFree(k) \/ \E q \in Requests : k \in {conn[q], chan[q]}
=============================================================================
