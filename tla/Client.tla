-------------------------------- MODULE Client --------------------------------
(* The primary connection of the client: the reconnection loop                *)
(* (telegram/connect.go), requests that wait out a reconnection               *)
(* (telegram/invoke.go), the change of the primary data centre                *)
(* (telegram/migrate_to_dc.go), the session events that make the client ready *)
(* and are stored (telegram/session.go), and what the connection manager does *)
(* with them (telegram/internal/manager/conn.go).                             *)
(*                                                                            *)
(* The connection is told by its data centre and the data centre whose        *)
(* authorisation key it was given.  A connection that was replaced has run    *)
(* and is dead, so only the newest one has a state.                           *)
EXTENDS Integers, Sequences, FiniteSets

CONSTANTS Calls,      \* goroutines in Client.Invoke
          Movers,     \* goroutines in Client.MigrateTo
          DCs, Home,  \* data centres; Home serves the account, the others answer _MIGRATE
          Start,      \* the data centre the client starts with
          MaxFaults   \* bound: failures, closing, cancellations, what pools' connections
                      \* do and events after a connection's first

None == "none"
NoKey == "no key"
Procs == Calls \cup Movers

ASSUME Constants ==
    {Home, Start} \subseteq DCs /\ None \notin Procs \cup DCs /\ MaxFaults \in Nat

\* The goroutines that call the handler's OnSession: the connection's init, the
\* reader that got a session event, and the reader of a pool's connection.
Sources == {"init", "event", "pool"}
Own == {"init", "event"}

VARIABLES conn,     \* c.conn: dc, key and st: "new", "running", "ready", "dead"
          loop,     \* reconnectUntilClosed: "start", "run", "stopping", "notify",
                    \* "dropping", "sleep", "ended"
          err,      \* what the run of the connection ends with
          closed,   \* the client's context is done
          sess,     \* c.session: dc and key
          ready,    \* c.ready
          drop,     \* the data centre that handlePrimaryConnDead has loaded for a
                    \* connection of Client.Pool, or None
          sem,      \* who holds c.migration
          proc,     \* per goroutine: pc, whether the connection it took was
                    \* replaced (its connChanged closed), how often it was
                    \* redirected, and whether it found the work done
          h,        \* per source: pc in OnSession, its batch, its data centre
          pending,  \* manager.Conn.pending
          events,   \* session events of the connection so far
          faults,   \* what MaxFaults bounds
          early,    \* how many of them came before the configuration
          handled   \* the last of those that the handler has been given

vars == <<conn, loop, err, closed, sess, ready, drop, sem, proc, h, pending,
          events, early, handled, faults>>
connVars == <<conn, loop, err, closed>>
sessVars == <<sess, ready, drop>>
eventVars == <<h, pending, events, early, handled>>

Fault == faults < MaxFaults /\ faults' = faults + 1

NoProc == [pc |-> "idle", old |-> FALSE, redirects |-> 0, found |-> FALSE]
Idle == [pc |-> "idle", batch |-> <<>>, dc |-> None]

Init ==
    /\ conn = [dc |-> Start, key |-> NoKey, st |-> "new"]
    /\ loop = "start" /\ err = None /\ closed = FALSE
    /\ sess = [dc |-> Start, key |-> NoKey]
    /\ ready = FALSE /\ drop = None /\ sem = None
    /\ proc = [p \in Procs |-> NoProc]
    /\ h = [s \in Sources |-> Idle]
    /\ pending = <<>> /\ events = 0 /\ faults = 0 /\ early = 0 /\ handled = 0

-----------------------------------------------------------------------------
(* reconnectUntilClosed and runUntilRestart.                                  *)

StartRun ==
    /\ loop = "start"
    /\ loop' = "run"
    /\ conn' = [conn EXCEPT !.st = "running"]
    /\ UNCHANGED <<err, closed, sessVars, sem, proc, eventVars, faults>>

\* The group of runUntilRestart is cancelled with error e.
Stop(e) == loop' = "stopping" /\ err' = e

\* The connection fails, is told to drop its keys while it binds them, before
\* the configuration, or fails for good (isPermanentError).  An error of init
\* marks the connection dead at once.
ConnFails ==
    /\ loop = "run"
    /\ Fault
    /\ \/ \E e \in {"network", "permanent"} : Stop(e)
       \/ conn.st = "running" /\ Stop("drop keys")
    /\ conn' = [conn EXCEPT !.st = IF @ = "running" THEN "dead" ELSE @]
    /\ UNCHANGED <<closed, sessVars, sem, proc, eventVars>>

ContextDone ==
    /\ loop = "run" /\ closed
    /\ Stop("cancelled")
    /\ UNCHANGED <<conn, closed, sessVars, sem, proc, eventVars, faults>>

\* Run of the connection waits for the handlers of its messages, unless the bind
\* failed: a handler that is left finds no configuration and ends.
RunReturns ==
    /\ loop = "stopping"
    /\ h["init"].pc = "idle"
    /\ h["event"].pc = "idle" \/ conn.st = "dead"
    /\ h' = [h EXCEPT !["event"] = Idle]
    /\ conn' = [conn EXCEPT !.st = "dead"]
    /\ loop' = "notify"
    /\ UNCHANGED <<err, closed, sessVars, sem, proc, pending, events, early, handled, faults>>

\* replaceConn(createPrimaryConn()): connChanged of the old connection closes.
ReplaceConn(s) ==
    /\ conn' = [dc |-> s.dc, key |-> s.key, st |-> "new"]
    /\ proc' = [p \in Procs |-> [proc[p] EXCEPT !.old = proc[p].pc \in {"invoke", "changed"}]]
    /\ pending' = <<>> /\ events' = 0 /\ early' = 0 /\ handled' = 0
    /\ loop' = "sleep" /\ err' = None

\* Mutant: the end of a cancelled group is taken for success, and the loop ends.
Notify_restartEnds ==
    /\ loop = "notify"
    /\ IF err \in {"permanent", "cancelled"} \/ closed
       THEN /\ loop' = "ended" /\ closed' = (closed \/ err = "permanent")
            /\ UNCHANGED <<conn, err, sess, proc, pending, events, early, handled>>
       ELSE ReplaceConn(sess) /\ UNCHANGED <<closed, sess>>
    /\ UNCHANGED <<ready, drop, sem, h, faults>>

\* backoff.RetryNotify: a permanent error ends the loop, and Run cancels the
\* client; a done context ends it; otherwise a new connection is made before
\* the pause.
Notify ==
    /\ loop = "notify"
    /\ \/ /\ err = "permanent" \/ closed
          /\ loop' = "ended" /\ closed' = TRUE
          /\ UNCHANGED <<conn, err, sess, proc, pending, events, early, handled>>
       \/ /\ err \in {"network", "cancelled"} /\ ~closed
          /\ ReplaceConn(sess)
          /\ UNCHANGED <<closed, sess>>
       \/ /\ err = "drop keys" /\ ~closed
          /\ loop' = "dropping" /\ err' = sess.dc
          /\ UNCHANGED <<conn, closed, sess, proc, pending, events, early, handled>>
    /\ UNCHANGED <<ready, drop, sem, h, faults>>

\* handlePrimaryConnDead, called by the loop under connMux, has loaded the data
\* centre and stores a session of it without keys.
DropKeys ==
    /\ loop = "dropping"
    /\ sess' = [dc |-> err, key |-> NoKey]
    /\ ReplaceConn(sess')
    /\ UNCHANGED <<closed, ready, drop, sem, h, faults>>

\* The same for a connection of Client.Pool whose bind failed: its OnDead takes
\* no lock, so that anything may happen between the load and the store.
PoolConnDead ==
    /\ drop = None /\ Fault
    /\ drop' = sess.dc
    /\ UNCHANGED <<connVars, sess, ready, sem, proc, eventVars>>

PoolDropKeys ==
    /\ drop # None
    /\ sess' = [dc |-> drop, key |-> NoKey]
    /\ drop' = None
    /\ UNCHANGED <<connVars, ready, sem, proc, eventVars, faults>>

Wake ==
    /\ loop = "sleep"
    /\ loop' = IF closed THEN "ended" ELSE "start"
    /\ UNCHANGED <<conn, err, closed, sessVars, sem, proc, eventVars, faults>>

\* The callback of Run returned, or the context given to Run is done.
CloseClient ==
    /\ ~closed /\ Fault
    /\ closed' = TRUE
    /\ UNCHANGED <<conn, loop, err, sessVars, sem, proc, eventVars>>

-----------------------------------------------------------------------------
(* Session events: manager.Conn and the client's onSession.                   *)

\* init got the configuration: it is published, then what is pending flushed.
GotConfig ==
    /\ loop = "run" /\ conn.st = "running"
    /\ conn' = [conn EXCEPT !.st = "ready"]
    /\ h' = [h EXCEPT !["init"] = [pc |-> "take", batch |-> <<>>, dc |-> conn.dc]]
    /\ UNCHANGED <<loop, err, closed, sessVars, sem, proc, pending, events, early, handled, faults>>

\* Mutant: only the first pending event is taken.
FlushPendingSession_one(s) ==
    /\ h' = [h EXCEPT ![s] = IF pending = <<>> THEN Idle
                             ELSE [@ EXCEPT !.pc = "check", !.batch = <<Head(pending)>>]]
    /\ pending' = IF pending = <<>> THEN pending ELSE Tail(pending)

\* flushPendingSession takes all that is pending under the mutex, and hands it
\* to the handler after it.
FlushPendingSession(s) ==
    /\ h' = [h EXCEPT ![s] = IF pending = <<>> THEN Idle
                             ELSE [@ EXCEPT !.pc = "check", !.batch = pending]]
    /\ pending' = <<>>

\* manager.Conn.OnSession: the event is kept, then flushed if the configuration
\* is there.  (The readers of one connection take turns here.)
SessionEvent ==
    /\ loop = "run" /\ h["event"].pc = "idle"
    /\ IF events = 0 THEN UNCHANGED faults ELSE Fault
    /\ events' = events + 1
    /\ pending' = Append(pending, events')
    /\ early' = IF conn.st = "running" THEN events' ELSE early
    /\ h' = [h EXCEPT !["event"] = [pc |-> "ready?", batch |-> <<>>, dc |-> conn.dc]]
    /\ UNCHANGED <<connVars, sessVars, sem, proc, handled>>

ConfigReady ==
    /\ h["event"].pc = "ready?"
    /\ IF conn.st = "ready" THEN FlushPendingSession("event")
       ELSE h' = [h EXCEPT !["event"] = Idle] /\ UNCHANGED pending
    /\ UNCHANGED <<connVars, sessVars, sem, proc, events, early, handled, faults>>

InitFlush ==
    /\ h["init"].pc = "take"
    /\ FlushPendingSession("init")
    /\ UNCHANGED <<connVars, sessVars, sem, proc, events, early, handled, faults>>

\* A connection of a pool tells of its session and passes the check of onSession:
\* the client gives the pools the same handler.  (An event of another data centre
\* than the primary one changes nothing.)
PoolSession ==
    /\ h["pool"].pc = "idle" /\ Fault
    /\ h' = [h EXCEPT !["pool"] = [pc |-> "store", batch |-> <<0>>, dc |-> sess.dc]]
    /\ UNCHANGED <<connVars, sessVars, sem, proc, pending, events, early, handled>>

NextOfBatch(s) ==
    IF Len(h[s].batch) = 1 THEN Idle
    ELSE [h[s] EXCEPT !.pc = "check", !.batch = Tail(@)]

\* onSession up to its check: a session of another data centre than the primary
\* one is not the client's.
OnSessionCheck(s) ==
    /\ h[s].pc = "check"
    /\ handled' = IF Head(h[s].batch) <= early THEN Head(h[s].batch) ELSE handled
    /\ h' = [h EXCEPT ![s] = IF sess.dc = h[s].dc THEN [@ EXCEPT !.pc = "store"]
                                                  ELSE NextOfBatch(s)]
    /\ UNCHANGED <<connVars, sessVars, sem, proc, pending, events, early, faults>>

\* The section under connMux: the session is stored and the client is ready.
\* (The reconnection loop holds connMux while it drops keys.  That the session
\* is also written to the session storage is left out.)
OnSessionStore(s) ==
    /\ h[s].pc = "store" /\ loop # "dropping"
    /\ sess' = [dc |-> h[s].dc, key |-> h[s].dc]
    /\ ready' = TRUE
    /\ h' = [h EXCEPT ![s] = NextOfBatch(s)]
    /\ UNCHANGED <<connVars, drop, sem, proc, pending, events, early, handled, faults>>

-----------------------------------------------------------------------------
(* Requests and migrations.                                                   *)

Goto(p, pc) == proc' = [proc EXCEPT ![p].pc = pc]

\* p returns; a migration gives the semaphore back.
Return(p, how) ==
    /\ proc' = [proc EXCEPT ![p].pc = how, ![p].old = FALSE, ![p].redirects = 0]
    /\ sem' = IF sem = p THEN None ELSE sem

Ended == {"done", "redirected", "failed"}

Begin(p) ==
    /\ proc[p].pc = "idle"
    /\ Goto(p, IF p \in Calls THEN "read" ELSE "acquire")
    /\ UNCHANGED <<connVars, sessVars, sem, eventVars, faults>>

\* invokeConn reads the connection and its connChanged.
ReadConn(p) ==
    /\ proc[p].pc = "read"
    /\ proc' = [proc EXCEPT ![p].pc = "invoke", ![p].old = FALSE]
    /\ UNCHANGED <<connVars, sessVars, sem, eventVars, faults>>

\* The server answers: the home data centre with a result, another with a
\* redirection, which invokeDirect follows once (invokeMigrate).
Answer(p) ==
    /\ proc[p].pc = "invoke" /\ ~proc[p].old
    /\ conn.st = "ready" /\ loop = "run"
    /\ \/ conn.dc = Home /\ Return(p, "done")
       \/ conn.dc # Home /\ proc[p].redirects = 1 /\ Return(p, "redirected")
       \/ /\ conn.dc # Home /\ proc[p].redirects = 0
          /\ proc' = [proc EXCEPT ![p].pc = "acquire", ![p].redirects = 1]
          /\ UNCHANGED sem
    /\ UNCHANGED <<connVars, sessVars, eventVars, faults>>

\* The connection died under the request: waitSession reports it, or the engine
\* was closed.  A request that was not acknowledged waits for a new connection.
ConnDied(p) ==
    /\ proc[p].pc = "invoke"
    /\ \/ proc[p].old
       \/ conn.st = "dead"
       \/ conn.st = "ready" /\ loop = "stopping"
    /\ \/ Goto(p, "changed") /\ UNCHANGED sem
       \/ ~proc[p].old /\ conn.st = "ready" /\ Return(p, "failed")
    /\ UNCHANGED <<connVars, sessVars, eventVars, faults>>

\* A new connection: the loop of invokeConn reads it.
ConnChanged(p) ==
    /\ proc[p].pc = "changed" /\ proc[p].old
    /\ proc' = [proc EXCEPT ![p].pc = "invoke", ![p].old = FALSE]
    /\ UNCHANGED <<connVars, sessVars, sem, eventVars, faults>>

ClientClosed(p) ==
    /\ proc[p].pc = "changed" /\ closed
    /\ Return(p, "failed")
    /\ UNCHANGED <<connVars, sessVars, eventVars, faults>>

Acquire(p) ==
    /\ proc[p].pc = "acquire" /\ sem = None
    /\ sem' = p
    /\ Goto(p, "migrate")
    /\ UNCHANGED <<connVars, sessVars, eventVars, faults>>

\* Mutant: the key of the old data centre is kept.
Migrate_keepKey(p) ==
    /\ proc[p].pc = "migrate"
    /\ IF p \in Calls /\ sess.dc = Home
       THEN /\ proc' = [proc EXCEPT ![p].pc = "read", ![p].found = TRUE]
            /\ UNCHANGED sess
       ELSE /\ sess' = [sess EXCEPT !.dc = Home]
            /\ Goto(p, "reset")
    /\ UNCHANGED <<connVars, ready, drop, sem, eventVars, faults>>

\* invokeMigrate: nothing to do if someone has migrated already.  MigrateTo
\* does not ask.
Migrate(p) ==
    /\ proc[p].pc = "migrate"
    /\ IF p \in Calls /\ sess.dc = Home
       THEN /\ proc' = [proc EXCEPT ![p].pc = "read", ![p].found = TRUE]
            /\ UNCHANGED sess
       ELSE /\ sess' = [dc |-> Home, key |-> NoKey]
            /\ Goto(p, "reset")
    /\ UNCHANGED <<connVars, ready, drop, sem, eventVars, faults>>

\* ensureRestart in three steps.
ResetReady(p) ==
    /\ proc[p].pc = "reset"
    /\ ready' = FALSE
    /\ Goto(p, "restart")
    /\ UNCHANGED <<connVars, sess, drop, sem, eventVars, faults>>

Restart(p) ==
    /\ proc[p].pc = "restart" /\ loop = "run"
    /\ Stop("cancelled")
    /\ Goto(p, "wait")
    /\ UNCHANGED <<conn, closed, sessVars, sem, eventVars, faults>>

Restarted(p) ==
    /\ proc[p].pc = "wait" /\ ready
    /\ IF p \in Calls THEN Goto(p, "read") /\ UNCHANGED sem
                      ELSE Return(p, "done")
    /\ UNCHANGED <<connVars, sessVars, eventVars, faults>>

\* The caller's context is done, or the timeout of the migration.
GiveUp(p) ==
    /\ proc[p].pc \in {"invoke", "changed", "acquire", "restart", "wait"}
    /\ Fault
    /\ Return(p, "failed")
    /\ UNCHANGED <<connVars, sessVars, eventVars>>

-----------------------------------------------------------------------------
SystemStep ==
    \/ StartRun \/ ContextDone \/ RunReturns \/ Notify \/ DropKeys \/ Wake
    \/ PoolDropKeys
    \/ GotConfig \/ InitFlush \/ SessionEvent \/ ConfigReady
    \/ \E s \in Own : OnSessionCheck(s)
    \/ \E s \in Sources : OnSessionStore(s)
    \/ \E p \in Procs :
         \/ ReadConn(p) \/ Answer(p) \/ ConnDied(p) \/ ConnChanged(p) \/ ClientClosed(p)
         \/ Acquire(p) \/ Migrate(p) \/ ResetReady(p) \/ Restart(p) \/ Restarted(p)

Stimulus ==
    \/ ConnFails \/ CloseClient \/ PoolSession \/ PoolConnDead
    \/ \E p \in Procs : Begin(p) \/ GiveUp(p)

Next == SystemStep \/ Stimulus
Spec == Init /\ [][Next]_vars

\* The goroutines and the server go on; failures, closing, new requests and
\* cancellations may happen or not.  All of them are bounded, so that one
\* condition for all steps leaves none out.
FairSpec == Spec /\ WF_vars(SystemStep)
-----------------------------------------------------------------------------
(* Properties.                                                                *)

\* A request or a migration ends, whatever connections and migrations it meets,
\* unless the client is closed: the reconnection loop goes on after every failure
\* and every restart, and no request misses the new connection (invokeConn,
\* replaceConn, reconnectUntilClosed, ensureRestart).  The one way to wait for
\* ever is a connection whose data centre is not the session's, of which
\* onSession wants no event: handlePrimaryConnDead put the old one back.
RequestsEnd ==
    \A p \in Procs : (proc[p].pc # "idle") ~>
        (proc[p].pc \in Ended \/ closed \/ [](conn.dc # sess.dc))

\* An authorisation key is kept and used with its own data centre only, however
\* events of old connections, pools and migrations meet (SyncSession.Migrate,
\* onSession, handlePrimaryConnDead, createConn).
KeyOfItsDC == \A s \in {conn, sess} : s.key \in {NoKey, s.dc}

\* "Preserve event ordering in case multiple session events arrive before
\* config is ready" (flushPendingSession): such events reach the handler in the
\* order they came in, though init and a reader flush at the same time.
EarlyInOrder == [][\A s \in Own :
    OnSessionCheck(s) /\ Head(h[s].batch) <= early => Head(h[s].batch) > handled]_vars

\* "Check if someone already migrated" (invokeMigrate): a request that finds
\* the session in the data centre it was sent to is served there.
AlreadyMigrated == \A p \in Calls : proc[p].found => proc[p].pc # "redirected"

\* "MigrateTo forces client to migrate to another DC": when it returns without
\* an error, that is the client's data centre.
MigrateLands == [][\A p \in Movers : Restarted(p) => sess.dc = Home]_vars

\* "MigrateTo forces client to migrate to another DC": it ends, unless the client
\* is closed.
MigrateEnds ==
    \A p \in Movers : (proc[p].pc # "idle") ~> (proc[p].pc \in Ended \/ closed)
=============================================================================
