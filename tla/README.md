# A verification of td: TLA+ models and proofs

td is a Telegram client in Go: an MTProto connection with an RPC engine, pools of
connections to data centers, and a manager that turns the server's updates into an
ordered stream. This directory models its concurrent core in TLA+, checks the models
with TLC on small instances, and proves their safety with TLAPS for instances of any size.

Every module is a translation of the code under `src/`. `PROJECT.json` lists, for each
definition, the lines it stands for.

## The parts of the system

| Part | Code | State | Hard behaviour | Module |
|---|---|---|---|---|
| sequence box | `telegram/updates/sequence_box.go`, `gap_buffer.go`, `gap_check.go` | counter, gaps, pending updates, gap timer | updates lost, repeated, reordered; differences in between | `SequenceBox` |
| RPC engine | `rpc/`, `mtproto/rpc.go` | handlers and ack channels by message id, `closed`, `reqCtx` | acks, results, cancellation, retries and two kinds of close, all racing | `RpcEngine` |
| pool of a data center | `pool/`, with `tdsync/` | `total`, `free`, waiting requests, `stuck`, one goroutine per connection | connections that die at any moment, hand-over to a waiter that gives up | `PoolDC` |
| updates manager, goroutines | `telegram/updates/state.go`, `state_channel.go` | a router, a worker per channel, bounded queues, a semaphore | everyone waits on everyone; channels lost; shutdown | `ChannelWorkers` |
| message identifiers | `proto/message_id.go` | last time used | the clock stands still or is set back | `MessageIDGen` |
| updates manager, stored state | `telegram/updates/manager.go`, `state.go`, `state_apply.go`, `state_channel.go`, `storage_mem.go` | common pts, a channel's pts, what is stored of both | dispatch, storage and differences fail or stop between any two steps; restart | `Updates`, `AtLeastOnce` |
| MTProto connection | `mtproto/conn.go`, `read.go`, `write.go`, `ack.go`, `ping.go`, `connect.go`, `bind.go`, `transport/connection.go` | one group of goroutines around one transport | sends that block, a key dropped by the server, a silent peer, close | `MtprotoConn` |
| client and connection manager | `telegram/connect.go`, `invoke.go`, `migrate_to_dc.go`, `session.go`, `telegram/internal/manager/conn.go` | primary connection, session, pending session events | reconnection, migration and session events meet | `Client` |
| CDN pools and keys | `telegram/cdn.go`, `cdn_pool_manager.go`, `cdn_conn_dead.go` | key cache with a generation, pools with reference counts, close queue | stale keys, a pool closed twice or never | `Cdn`, `CdnPools` |

They interact as follows. `telegram.Client` invokes through a `pool.DC` (or its primary
connection). The pool gives each request a connection. The connection's `Conn.Invoke`
runs `Engine.Do` with an identifier from `MessageIDGen`. Updates that the connection
reads go to the updates manager's router, which feeds its own sequence boxes and the
queues of the channel workers, each with a sequence box.

## The modules

**`SequenceBox`** (run by `MCSequenceBox`). One box and the server's log. `Skip`,
`Buffer`, `Accept` and `OpenGap` are the branches of `Handle`; the loops over `pending`
in `Handle` and `applyPending` are steps of their own (`OfferPending`/`GapOpened`,
`ApplyPending`/`ApplyDone`) during which nothing else is enabled, since a box belongs to
one goroutine. `GapTimeout`, `GapTimeoutFails` and `OtherDifference` are what
`getDifference` does to a box. `pending` is a set of updates tagged with their order of
arrival, which gives the order of the code's stable sort. `log` is a history of what the
apply callback received.

Simplified: the callback never fails and never re-enters the box. This is so for pts, qts
and channel pts; the seq box's callback may fetch a difference, which is
not modelled. A difference is one step, as it is for a channel's box, whose worker
clears the gaps, waits for the answer and sets the state. The router's own boxes see
more: the difference's `OtherUpdates` pass through them before the state is set. Those
steps are in `Updates`.

**`UpdateOrder`** is the abstract specification of a box: updates are delivered in
batches, each update starting where the previous one ended. `SequenceBox` implements it
with the identity as refinement mapping.

**`RpcEngine`** (run as it is). A call is one execution of `Do`; a request is one
`Conn.Invoke` with a first call and, after a bad salt, a second one with the same message
id. A step is a section under `Engine.mux`, a channel operation, or a send. A handler is
looked up in one step (`Notify`), entered in another (`Handler`) and finished in a third
(`HandlerDone`), so two readers can have the same handler in hand. `select` is a free
choice among the cases that are ready. The wire loses messages; the server repeats acks
and answers.

**`PoolDC`** (run as it is). `acquire` is split at each point where it unlocks or
waits: `AcquireFree`/`CheckDead` (1st case), `AcquireNew`/`Create...` (2nd),
`AcquireWait`/`StuckReady`/`Wait...`/`Drain` (3rd). `AcquireWait` (register, unlock) and
`StuckReady` (the select evaluates `stuck.Ready()`) are two steps, as in the code. `dead`
is the swap of `deleted` and then the part under the mutex. `DC.mu` is a variable only
because `transfer` holds it across two steps. Simplified: `total++` and the start of the
goroutine are one step; `Close` sets its flag and cancels in one step (only a new Invoke
reads the flag); an identity of a connection nobody refers to is used again, so that TLC
needs few of them.

**`ChannelWorkers`** (run as it is). The router (`worker`), the channels' workers (`at`),
the queues as lengths, `removeChannel` as a sequence. What an update leads to is a free
choice. `removeChannel` holds fewer channels than there are in the run, so a lost channel
may have to wait in `handleInaccessible`. Simplified: while the router waits for its own RPC it is in `push`; a difference
that fails because the context is done fails at once; a timer and an outside update are
"stimuli".

**`MessageIDGen`** (run by `MCMessageIDGen`). `New` is atomic, it holds the mutex. The
clock reading is an input.

**`Updates`** (run by `MCUpdates`). The manager end to end for two counters, the common pts
and the pts of one channel. Handing updates to the application, storing the position and
moving the box are separate steps, and `Stop` may come between any two of them; `Run`
starts again from the storage, `RunForget` from the server's state (`opt.Forget`, or no state
found), `RunWithoutHash` without the channel. A channel that is not tracked is started by its
first update: from the stored pts (`TrackChannel`), from just before the update if that pts is
not found or cannot be read (`TrackAnew`), or not at all (`IgnoreUnknown`). The storage is any
`StateStorage`: writes may fail, reads may fail (`ReadsFail`), and `SetState` may drop the
channels as the in-memory one does (`Wipes`). The branches of `getDifference` are actions
(`DifferenceEmpty`, `Difference`, `DifferenceTooLong`, `DifferenceFails`), followed by its
steps in the code's order: `OtherUpdate` with `NestedDifference`, `NewMessages`,
`SetDifferenceState`; the channel worker has the same, with `SendOut` through the router.
Every update counts one here, so a gap buffer is a set of missing positions; the box for
any counts is `SequenceBox`; what the code sorts by pts is a set, taken least first. Left out:
qts, seq and date, access hashes other than a missing one, the loss of access to a channel (in
`ChannelWorkers`), `handleAffected` (a box input with nothing to hand over), the conversion of
short updates.

**`AtLeastOnce`** is the abstract specification of a stored counter: the stored position
never moves past a message that was neither handed over before nor given up on, unless the
storage forgets: then messages may be skipped where a lost position is set anew. `Updates`
implements it twice, for the common pts and for the channel's, with
`INSTANCE AtLeastOnce WITH ...` as refinement mapping.

**`MtprotoConn`** (run as it is). The goroutines of one `Conn.Run`. A writer is a call, the
ack loop or the ping loop; its program counter says which of `exchangeLock` and `writeMux`
it holds. A send blocks, is written, or fails; `Disconnect` makes the peer gone or silent.
`Run` is in `bindTempAuthKey` first if PFS is on, and only then starts ackLoop and pingLoop and
lets calls in. A bind is answered, fails for good, fails in a way that is retried, or drops the
keys (`dropPFSKeys`). A message that is received needs an ack, needs none, or cannot be
consumed, which ends the read loop.
Of `Engine.Do` only what waits is kept, `RpcEngine` has the rest. Left out: salts (`saltLoop`
writes as pingLoop does), bad_msg, session_created, containers.

**`Client`** (run as it is). The reconnection loop (`StartRun` ... `Wake`), the callers of
`Invoke` and `MigrateTo` as processes with a program counter, and `onSession` called from
three goroutines, its check and its store as two steps. The third is a connection of
`Client.Pool`: it has the primary connection's session handler and its reaction to dropped keys
(`PoolConnDead`, `PoolDropKeys`), and takes no lock for either. The backoff is an arbitrary
wait. A connection has a data center, a state and the data center of its key.

**`CdnPools`** has the operations of `cdnPoolManager` as operators on a record of its
fields, one per section under its mutex. **`Cdn`** (run as it is) composes them with the
callers of `Client.CDN`, the key cache, the shared load (`singleflight`, external), the
reaction to a dead connection, the close workers and the cleanup at the end of `Run`.

Definitions whose names contain an underscore (`checkGap_late`) are mutants: plausible
bugs, each of which makes one property fail.

## The runs

| Run | Shows | Bounds | States |
|---|---|---|---|
| `SequenceBox` | gap-free delivery, gaps are the holes, each gap closes, refinement of `UpdateOrder` | log of five updates with counts 0, 1 and 2; four messages | 104,625 |
| `RpcEngine` | nothing stays registered, `Close` waits, no channel closed twice, the stored result is returned, an acknowledged request is never reported as safe to resend, calls and forced close end | one request with its second call, two readers, one retry | 149,964 |
| `PoolDC` | the count, one owner per connection, no waiter while one is free, a cancelled Invoke returns, `Close` ends | two callers, one Invoke each, at most one connection, two identities | 70,769 |
| `ChannelWorkers` | slots kept, lost channels forgotten, routing goes on, shutdown ends | two channels, queues of one entry (`removeChannel` too), one slot, four stimuli | 120,305 |
| `MessageIDGen` | types recovered, order kept | a "second" of 12, identifiers 16 apart, readings 0..26, three calls | 10,222 |
| `Cdn` | handles counted, a pool closed once and in the end, no close waits behind another, every `CDN` returns | two callers, two calls, three pools, two versions of the keys, two workers, a queue of two | 58,904 |
| `Client` | keys stay with their data center, early session events in order, requests end | one Invoke, one MigrateTo, two data centers, two faults | 787,530 |
| `Updates` | both stored counters implement `AtLeastOnce`, the client catches up | a message and an edit in each log, two arrivals, two faults, queues of one | 452,275 |
| `MtprotoConn` | no frame under an old key, a stop and a lost peer end `Run` | one call, one message, one retry, two bind attempts, one ping, one dropped key | 455,856 |
| `MtprotoConnAcks` | acks are written | two messages, a batch of two, no call, one bind attempt, one ping, one dropped key | 273,743 |

Why the bounds suffice for what they are used for. A gap needs two updates, a second hole
behind it three, and a late or repeated one four; the counts make ranges longer than a gap
and updates that move nothing. In the engine, the hard case is two calls under one message
id (the retry after a bad salt) with two readers that found the same handler. A hand-over in
the pool involves the releasing caller and the waiter, and a full pool is the hard case: a
limit of one fills it with one connection; the invariants are also proved for all sizes. In
`Cdn` three pools and a queue of two give an overflow of the queue, and a pool made by the
loser of a race. Two faults in `Client` are a failure and a close, a timeout of a migration
and a failure, or two failures; in `Updates` a failed storage write and a crash. An edit and
a message in each log are what differences treat differently. In `MtprotoConn` one message
is enough for a goroutine to wait on ackLoop, for `ackSendChan` has no buffer; a batch that is
partly full takes two, which `MtprotoConnAcks` has. In `ChannelWorkers` a queue of one entry is
full as soon as anything is in it, so every wait happens.

`RoutingGoesOn` has one exception, and the run reaches it: `removeChannel` is full (ten channels
in the code, one in the run) and the router is in `Push` to a channel that waits to be put in it
(`Entangled`). This wait ends only with the context; `DropsInaccessible` (below) is violated by
it. `sendOut`, which drains the queue the router pushes to, is not an exception.

In the run `Updates` the storage keeps the channels' positions when the common state is
set (`Wipes = FALSE`), and its reads may fail. `AtLeastOnce` then allows the channel to skip
messages in the one step that starts a worker past them (`TrackAnew`). The repository's
in-memory storage has no failing reads, but its `SetState` (`storage_mem.go:38`) drops the
channels: the run `UpdatesForgets` below has it.

`AcksWritten` says that while the run lives an ack is written, or given up because its write
failed; `unacked` has the latter. `KeyOfItsDC` is about mixed-up keys only: a session put back to
an old data center with no key does not violate it (`MigrateLands` and `MigrateEnds` do).
`CallReturns` is about callers of a load; the owner of a load, `singleflight`, is external, and
so is what its mutant breaks.

Deadlock is not checked, for each of these systems may stop: the bounded inputs run out, or
everything is closed. That nobody waits for ever is stated by the liveness properties.

### Where the code differs from what it says

Two runs check what a comment or a doc says, and TLC finds it violated.

- `PoolDCStuck`: `pool.go:45`, the purpose of `stuck`. The signal can come after the
  request is registered and before it listens; with no connection left nothing wakes it.
- `UpdatesForgets`: `config.go:25`, `OnChannelTooLong` is called "if manager cannot recover
  channel gap", and `state.go:390`, a channel that becomes tracked "reconciles pts from storage".
  The in-memory storage, used "if not provided", drops the channels whenever the common state is
  set. The manager's next `Run` does not know the channel; its next update starts the worker just
  before itself, and what was published in between is passed over with nobody told.

The modules state twelve more such sentences that TLC finds violated. They are not among the
runs; ten have a configuration to repeat the check with, `ClosesTransport` and `BoundToRun` are
checked by naming the property in `MtprotoConn.cfg`.

- `Restored` (`UpdatesIgnored.cfg`): `state_channel.go:320` and `440`, ignored updates "are
  restored by a future getChannelDifference call". Messages are. Edits come back in
  `OtherUpdates`, which go through the router to the channel's own queue; by then the box has
  been set to the difference's pts and drops them as old.
- `BlocksUntilDisconnection` (`MtprotoConnBind.cfg`): `conn.go:227`, Run "blocks until
  disconnection". While Run binds a temporary key there is no ackLoop; a message goroutine that
  waits for it keeps `readLoop` from returning its read error, and an acknowledged bind waits
  without a deadline.
- `MigrateEnds` (`ClientPutBack.cfg`): `pfs.go:19`, "Keep DC but wipe key/salt".
  `handlePrimaryConnDead` loads the data center (20) and stores it later (24), and so can undo a
  migration that comes in between.
- `ResultPreferred` (`RpcEnginePrefer.cfg`): `engine.go:178`, "Result arrived
  concurrently with close, prefer it." In `retryUntilAck` both `ctx.Done()` and
  `reqCtx.Done()` are ready, and the second may be taken: `ErrEngineClosed` instead of the
  result.
- `WaitForFree` (`PoolDCWait.cfg`): `pool.go:197`, "wait for free". An `acquire`
  cancelled while it creates a connection leaves one that is counted and that nobody will
  release.
- `DropsInaccessible` (`ChannelWorkersBlock.cfg`, `RemoveSize = 1`): `state_channel.go:130`, an update
  for an inaccessible channel is dropped "instead of blocking". With `removeChannel` full,
  the router in `Push` and the channel in `handleInaccessible` wait for each other.
- `NoCollision` (`MessageIDGenCollision.cfg`): `message_id.go:159`, no collisions. The two lowest bits of
  the time are dropped, so readings that differ only there give one identifier. (This needs
  a clock with a resolution under four nanoseconds, or a corrected time and then a reading
  just after it.)
- `NoStaleKeys` (`CdnStale.cfg`): `cdn_conn_dead.go:24`, results of loads "started before
  invalidation" are discarded. Between the unlock (27) and `Forget` (29) a caller takes the
  new generation and joins the old load. This takes more calls than the run `Cdn` has: with
  the constants of `Cdn.cfg` the property holds.
- `AlreadyMigrated` (`ClientFound.cfg`): `migrate_to_dc.go:43`, "Check if someone already migrated."
  The session changes before the restart, so a request can find it changed while the
  connection is still the old one.
- `MigrateLands` (`ClientMigrate.cfg`): `migrate_to_dc.go:64`, "MigrateTo forces
  client to migrate". `onSession` compares the data center (106) and stores it later (113)
  and so can undo a migration.
- `ClosesTransport` (with `GivesUp = FALSE`): `conn.go:209`, handleClose closes
  "rpc engine and underlying connection". It waits for the engine first, and the engine may
  wait for a write that only the close would end.
- `BoundToRun`: `conn.go:248`, "All
  goroutines are bound to current call." A failed bind returns without waiting for them.

Two more were read in the code while modelling and are checked by nothing here: a handler
found by `NotifyResult` before `Do` deletes it may run after `Do` has returned
(`engine.go:133` says it cannot); and `DC.Close`, documented to wait for ongoing requests,
cancels them and waits for the connections' goroutines only (`pool.go:282`).

## Fairness

- `SequenceBox`: weak fairness of the handler's loops, which are straight-line code, and of
  the armed gap timer, which the goroutine's select reads.
- `RpcEngine`: weak fairness of each call of `Do` and of `ForceClose` once begun. This
  includes that a send and the drop handler return. The drop handler has a timeout
  (`dropRPC`). A send has a write deadline only if the caller's context has one
  (`transport/connection.go:41`), so for other callers `ForceCloseEnds` and `CallEnds`
  depend on a transport that does not block a write for ever. Nothing else is assumed of
  the server or of the network.
- `PoolDC`: weak fairness of a goroutine that can go on, and of a connection's goroutine
  once its connection failed or its context is done. Strong fairness of `Acquire`, which
  competes for the mutex, and of the context cases in the selects: Go's mutex does not
  starve a goroutine, and its select chooses at random. `conn.Invoke` has to return only
  if its context is done or its connection is down. `CancelledReturns` is checked with
  callers that invoke once, for a caller that invokes again has a new context.
- `ChannelWorkers`: weak fairness of the router and of each channel's worker, which includes
  that RPCs return and the server's timeouts end. The stimuli are not fair. Since they are
  bounded, progress is shown for every finite burst of them.
- `Cdn`, `Client`, `Updates`, `MtprotoConn`: weak fairness of one action, the union of all
  steps of goroutines, timers and, in the first three, the server's answers. This asks less
  than fairness of each goroutine. It suffices because everything from outside (calls,
  failures, arrivals, cancellations) is bounded by a constant: then the system can only go
  on until each goroutine has done its part or waits for ever, which is what the liveness
  properties exclude. A stopped manager is run again (`Updates`). In `MtprotoConn` the
  server need not answer at all, and the kernel ends a write to a silent peer
  (`GivesUp = TRUE`), as TCP does.

## What is proved

Eight modules hold the theorems. Each extends the module it is about, defines an inductive
invariant (`IInv`; `GenInv` and `ConnInv` in `MtprotoProof`), and has one lemma for each
action or group of like actions; what the runs check follows from the invariant. Each
invariant was first checked by TLC on the run's instance.

`SequenceBoxProof` proves, for every log whose updates do not overlap, every restored state
that is a value of the server's counter, and any number of messages:

- `TypeCorrect` and `DeliveredInOrder`, `GapsAreTheHoles`, `BufferNeverEmpty`,
  `OpenGapIsTimed`: the invariants of the run;
- `BoxImplementsOrder`: the box implements `UpdateOrder`.

None of the invariants is inductive by itself. That `applyPending` finds something to apply
depends on the gaps being exactly the holes: when the last gap closes, the update after
`state` must be among the pending ones. That the gaps are exactly the holes depends on the
ends of gaps being boundaries of the log, so that an update lies in a gap with its whole
range or not at all. The inductive invariant `IInv` adds

- `PositionsOK`: `state`, `server` and `cur` are inside no update's range, and what is
  pending comes from the log;
- `GapsOK`: gaps are not empty, do not overlap, end at boundaries, and lie above `state`;
- `LoopsOK`: what is true inside the two loops: when pending updates have resolved the gap,
  one of them covers the next position; what `applyPending` has accepted is a chain from
  `state` to `cur`.

`StepIInv` has one lemma per action. `ConsumeFacts` and `ConsumeTracked` say what
`gapBuffer.Consume` does to the set of missing positions; `ChainAppend` and `ChainConcat`
carry the order of delivery.

The assumptions are those of `SequenceBox` (`UpdatesAssumption`, `InitialAssumption`,
`BoundAssumption`), which TLC evaluates in the run. They are about the server: its log is
one sequence, and no update ends at counter value zero, which `checkGap` reads as "no
counter".

`PoolDCProof` proves, for every set of callers, every finite set of connections and every
limit, with callers that invoke once or again and again: `TypeCorrect`, `TotalIsRight`
(`TotalCounts`), `ConnectionsAreOwned` (`OneOwner`) and `NobodyWaitsInVain`
(`FreeNoWaiters`). `TotalCounts` is not inductive: two goroutines find out about a death, and
that `total` is decremented once depends on which of them swapped `deleted` and has not yet
taken the mutex. The inductive invariant `IInv` adds

- `Held`: a caller has a connection in a variable exactly at the places where the code has;
- `Created`: whatever `free`, a channel or a variable refers to has been created, so that
  creating a connection adds one to the count;
- `Deletion`: `dead` connections are `deleted`; a connection that is `deleted` and not `dead`
  has exactly one goroutine, its own or an Invoke, on its way to the section under the mutex.

Each conjunct has a lemma with one step per action that can disturb it; the other actions are
shown to leave its variables alone. `PopFree`, `AppendFree` and `RemoveFree` say what `pop`,
`release` and the search in `dead` do to the list of free connections, `CountOff` what a death
does to the count. The assumptions are those of `PoolDC`: `Max` is a natural number, and the
connections are finitely many numbers (the pool's `nextConn` ids).

`RpcEngineProof` proves, for any requests, readers, answers and retries, all invariants of the
run: `MapsEmptied` (`NothingLeft`), `NoCallAfterClose` (`CloseWaits`), `NoDoubleClose`
(`ClosedOnce`), `AckedOnce` (`AckedNotRetried`), `ResultOfHandler` (`ResultIsStored`); further
`TypeCorrect`, and `ResultKept`: no later step changes a stored result. The maps are indexed
by message id and two calls share one. So `IInv` says that they never overlap (`Sequential`),
and with this whose handler (`Handlers`) and whose ack channel (`Channels`) is registered
under an id; `Decoding` says that a reader inside a handler has set `handlerCalled`, which
keeps the second one out. Assumed: a request has one or two calls, the errors of the engine
are none of the server's answers.

`UpdatesProof` proves that the stored common pts (`CommonImplements`) and the stored pts of the
channel (`ChannelImplements`) implement `AtLeastOnce`, for any logs, queue length, number of
arrivals and faults, and any storage: messages of the channel are skipped only if `Wipes` or
`ReadsFail`, and only where its worker is started anew. `IInv` is about more positions than the stored one:
every message up to the box's state, up to the position about to be saved, and up to the end
of the difference being applied is handed over, given up on, or still in that difference. A
nested difference has its outer one waiting, whose messages count as its own (`MainOK`). That
`applyPending` leaves no message out rests on one lemma: what it applies (`Ready`) is all
positions from the box's state up to the first hole.

`MtprotoProof` is about one connection. For `MessageIDGen`, with a second and a weight of the
seconds that are any multiples of four, the weight not below the second: `TypeOfId`
(`TypeRecovered`), `OrderOfCalls` (`Ordered`) and `ClockStandsStill`: an identifier made while
the clock does not advance is above all before it, which is what remains of "no collision".
The argument is arithmetic: an identifier is four times a slot plus the type, and the slot
does not fall while `nano` rises. `GenInv` says that each identifier was made at a time not
after `nano`.

For `MtprotoConn`, with any calls, messages, retries, pings and dropped keys:

- `FramesCarryTheKey` (`NoStaleFrame`), `LocksHold` (one Send at a time, none during a key
  exchange), `KeyReplacedAlone` (an action property: the key changes with no frame on its way,
  to the next one without PFS, or to none when a bind drops it);
- `BoundBeforeUse`: with PFS, nothing but the bind is written before the key is bound, which is
  why `dropPFSKeys` need not take `exchangeLock`;
- `AttemptsBounded`: `maxRetries` and the attempts to bind are kept;
- `TransportClosedLast`: once the transport is closed no call is inside `Do`, and none enters;
- `RunReturnsLast`: Run returns after all goroutines of its group, if the temporary key could
  be bound. `BoundToRun`, the comment's claim without this condition, is violated (above);
- `AckedOnceOnly` (an action property): what ackLoop has taken is acknowledged or given up,
  once.

`ConnInv` adds to these that a call which may try again has an attempt left, and that the server
knows the connection's key or none, unless the connection dropped it. The only assumption beyond
the bounds being numbers is that the calls are neither the loops nor the bind.

`ChannelWorkersProof` proves, for any finite set of channels and any sizes: `TypeCorrect`,
`NoSlotLost` (`SlotsKept`), `ForgetsOnce` (`ForgetsTheLost`), `NoneDroppedForTheRunning`
(an action property: `Push` drops only for a worker at its end), and `BlocksOverTheEnded`: a
worker waits in `handleInaccessible` only if as many other channels as `removeChannel` holds have
been lost and are not yet forgotten. So with ten or fewer channels lost at a time the exception
of `RoutingGoesOn` does not arise. `IInv` needs `Removals`: who is in `removeChannel` is there
once, is still tracked and at its end.

`ClientProof` proves, for any callers, data centers, events and faults: `TypeCorrect`,
`KeysStayHome` (`KeyOfItsDC`), `EarlyEventsInOrder` (`EarlyInOrder`, an action property) and
`OneMigration` (the semaphore is held by one goroutine, which neither waits for it again nor
returns with it). The order of early events depends on where they are: pending, or what is
left of one batch, never in two places (`Events`), though two goroutines flush them.

`CdnProof` proves, for any callers, pools, versions of the keys, number of workers and queue at
least as long: `ReferencesCounted` (`HandlesCounted`), `NoPoolClosedTwice` (`PoolClosedOnce`),
`SlowCloseBlocksNone` (`NoHeadOfLine`) and `PipelineConsistent`. `IInv` says that a pool is in
one place (`OnePlace`, `Apart`, `MakersOwn`), that what is somewhere has not been closed
(`NotClosed`), and that pools are pending only if the queue was filled up (`Bounds`). The
operators of `CdnPools` have a lemma each. The loops there are recursive functions; what a
loop does is proved by induction, as the absence of a first round that goes wrong
(well-foundedness of the natural numbers).

Only model-checked: every liveness property, for fairness is beyond the proof system. Every
invariant, action property and refinement that a passing run checks is also proved.

## Not modelled

- Cryptography, the handshake's content, transport framing, serialisation: arithmetic on
  large numbers, or pure I/O. `MessageIDBuf`, the protection against replayed messages, is
  left out: this project is about the correctness of the client's own concurrency and order.
- The generated schema (`tg/` and others). It is almost all of the repository's lines, over
  a million, and has no behaviour beyond encoding. The definitions stand for about 3,200
  lines: a quarter of a percent of all, and about four percent of the 73,000 lines that are
  not generated.
- Salts, bad_msg handling, containers (`mtproto/`) and the renewal of temporary keys: the
  state space of `MtprotoConn` is near what TLC can do in a few minutes, so they need a
  module of their own.
- qts, seq and date of the updates manager; seq's callback re-enters the difference.
- Uploader, downloader: one reader and several senders within one call. They can be modelled
  and have not been yet.
- Calls: driven by callbacks of a library outside the repository.
- Session files, authorisation dialogue, peers cache, message builders, query iterators, the
  test server: sequential code, or code used by tests only.

## Running

    tlc -config SequenceBox.cfg MCSequenceBox
    tlapm SequenceBoxProof.tla

The other modules of proofs are `RpcEngineProof`, `PoolDCProof`, `ChannelWorkersProof`,
`MtprotoProof`, `UpdatesProof`, `ClientProof` and `CdnProof`. The longest, `CdnProof`, takes
about ten minutes.
The module of each run and its configuration are listed in `PROJECT.json` under `runs`.
