# Verification of sixfrp's agent, frppc

This directory holds TLA+ models of `frppc`, the agent of sixfrp, the TLC
configurations that check them on small instances, and TLAPS proofs of their
main safety properties. The models are translated from the Go source; each
definition's source lines are in `PROJECT.json` under `map`.

`frppc` runs beside the services it exposes. It keeps a gRPC connection to
*master*, pulls from it which frp clients ("shadow clients", one per client and
server id) should run with which tunnels, keeps one frp `client.Service` per
such pair, obeys requests that master sends on a stream (update, start, stop,
remove, log streaming, remote shell, upgrade, restart), and reports that it
started or stopped. `src/` has the agent only; master is not in this
repository and appears in the models as an environment.

## 1. The system

| component | source | state | operations |
|---|---|---|---|
| RPC runner, pull runner, service lifecycle | `cmd/frppc/runners`, `frpcclient/service.go`, `rpc_handler.go` | contexts, the stream, `initOnce`, `shutdownOnce` | `Run`, `Shutdown`, `ConnectAndServeRPC`, `EnsureInitialized` |
| Tunnel synchronisation | `frpcclient/controller.go`, `handler.go`, `rpc_pull_config.go`, `rpc_update_tunnel.go`, `rpc_start_frpc.go`, `rpc_stop_frpc.go`, `utils/sync.go`, `utils/load.go` | a map of maps of handlers; per handler the config, the proxies, `running` | pull (fan-out, removal, recreation), update, start, stop, `StopAll`/`DeleteAll`, `go h.Run()` |
| Event debouncer | `utils/systemevent/debouncer.go` | open windows by key, `stopped` | `Submit`, `flush` (by timer), `Stop` |
| Lifecycle events | `frpcclient/rpc_push_event.go`, `aggregate.go`, `utils/systemevent/aggregate.go` | none of their own | submit to the debouncer, push to master |
| Log streaming | `frpcclient/rpc_stream_log.go`, `streamlog/sink.go` | the session (cancel, channel, done), the channel attached to the sink | start, stop, the pump, every logger |
| Remote shell | `frpcclient/rpc_pty_connect.go`, `rpc_pty_totp.go`, `totp.go` | the terminal, the shell, the stream, `totpBound` | request, bind, verify, the bridge and its two goroutines |
| Self-upgrade | `utils/selfupgrade`, `frpcclient/rpc_upgrade.go`, `rpc_restart.go` | the executable, its backup, a temporary file, restarts under way | download, replace, re-exec, respawn |
| In-memory websocket listener | `haokun/grpc/support/wsgrpc/listener.go` | a channel of connections, `done`, `closed` | `Enqueue`, `Accept`, `Close` |
| Websocket connections as `net.Conn` | `wsgrpc/fiber_conn.go`, `gorilla_conn.go` | the rest of the message being read, two mutexes, `done` | `Read`, `Write`, `Close`, deadlines |
| Command line, options, master's address | `cmd/frppc/main.go`, `config/app.go`, `config/frppc.go`, `frpcclient/options.go`, `master_client.go` | environment variables, the configuration, the options | start-up, up to the dialed connection or a reason not to run |
| Removal, proxy queries | `frpcclient/rpc_remove_tunnel.go`, `rpc_get_proxy_info.go` | an exit under way | `REMOVE_FRPC`, `GET_PROXY_INFO` |
| System service wrapper | `utils/system_service.go` | `done` | `Start`, `Stop` |

How they interact. The framework starts both runners and later shuts them down.
The RPC runner opens the stream, registers (which submits a *started* event to
the debouncer) and serves one request at a time; the pull runner pulls at every
tick. Both change the tunnels through the same controller without a common
lock: that is the agent's central race. `Service.Shutdown` submits *stopped*,
stops the debouncer, cancels the service's context, stops the log session, then
the tunnels, and closes the connection. The debouncer calls back into the
service to push. The sink is called by every goroutine that logs.

Hard behaviours and what makes each component right:

- *Tunnels*: operations of the two runners overlapping at every map access; a
  `go h.Run()` that begins after its handler was stopped or replaced; stale
  answers. Right means: no live tunnel the controller has lost but by the one race
  it is exposed to, never two runs of one handler, and in the end what master wants
  runs.
- *Debouncer*: a timer that expires while an event resets it; `Stop` racing
  `flush`. Right means: every event is reported once, counted exactly, and no
  window stays open for ever.
- *Log streaming*: stop gives up after a timeout; `Shutdown` races a start.
  Right means: one live session, nothing waits for ever, no pump is left.
- *Remote shell*: two goroutines and a deferred cleanup over a stream, a
  terminal and a process that may each fail or block. Right means: every end is
  noticed, everything is released, output is complete.
- *Self-upgrade*: crashes, exits and restarts between any two steps, and a restart
  that is itself two steps. Right means: the
  executable is always complete and the agent comes back with what was
  installed.
- *Runners*: a shutdown at any moment, in particular before a runner has a
  context. Right means: both return, and until then the stream is reopened.
- *Lifecycle events*: a timer, a submitting goroutine and `Stop` push at the same
  time, on a connection that `Shutdown` closes. Right means: master counts every
  registration once, and the stop is not cut off.
- *Websocket connections*: messages are cut into reads; a close must reach calls
  that hold a mutex while they wait. Right means: a byte stream in each
  direction, and a close that lets go of everybody.
- *Start-up*: four sources of the same settings, and an address that is
  normalised by two pieces of code. Right means: the agent runs only with all it
  needs, as it was told, and dials the address it was given.
- *Listener*: `Accept` takes no lock while `Close` drains. Right means: each
  connection is accepted, closed or refused, exactly once.

## 2. Modules

| module | what it models |
|---|---|
| `Debouncer`, `EventReports`, `DebouncerProofs` | the debouncer, with timers, flush goroutines and emit calls as separate steps; what it promises to who submits; its inductive invariant and theorems |
| `TunnelSync`, `MCTunnelSync`, `TunnelSyncProofs` | controller, handlers and all operations on them; values for TLC; types, single run, and what orphans and stops may leave, however operations overlap, proved |
| `StreamLog`, `StreamLogProofs` | log sessions, the sink, loggers; that there is one session, proved |
| `WsListener`, `Handoff`, `WsListenerProofs` | the listener; the abstract handoff it implements; the proof, as far as safety goes |
| `SelfUpgrade`, `AtomicUpgrade`, `SelfUpgradeProofs` | the executable on disk, requests, restarts, exits, crashes; the atomic upgrade they implement; what they leave and what is answered, and that implementation, proved |
| `PtyBridge`, `PtyBridgeProofs` | a remote shell from the request to the end of both goroutines; that nothing is left and no output lost, proved |
| `RpcSession` | both runners, the stream, `Shutdown` |
| `WsConn`, `ByteStream`, `WsConnProofs` | both ends of a websocket; the byte stream each direction implements; the proof, as far as safety goes |
| `Startup` | from the command line to the dialed connection |
| `LifecycleEvents` | `RpcSession` and an instance of `Debouncer` composed |
| `Agent`, `MCAgent`, `AgentProofs` | `Startup`, then `LifecycleEvents`: the process from its start to its end; values for TLC; the proofs about it, about `Startup` and about `RpcSession` |

Definitions whose comment begins "Seeded fault" are variants of the definition
that follows them, each with a plausible bug. No specification uses them; put in
place of the original they must make a property fail, which shows that the
property depends on that code.

### Debouncer

One action per critical section and per step outside the lock. `Submit(k)` is
`Submit` for the next event with key `k`; a window is identified by the event
that opened it, so a timer of an old window is told from the one of a newer
window under the same key. `armed` has the running timers, `fired` the flush
goroutines that timers have started and that still wait for the lock:
`Reset` on a timer that has already fired arms it again, as in the code, so one
window may be flushed early and its timer fire again later. Emit calls are made
outside the lock and complete at any time. `covers` in entries and calls is
history: the events a count stands for.

`EventReports` is what is left of it for who submits: events are open until they
are reported, one by itself or several of a key by the newest and their number.
`Implements` maps the open events to those that no completed call covers.

### TunnelSync

Three drivers (pull runner, RPC runner, `Shutdown`) run one operation at a time.
`op[p].pc` is where the operation is; an action is one access to a `SyncMap`
with the local work around it, so with `Overlap` the drivers interleave wherever
the code's mutexes let them. The two-level map keeps the identity of inner maps.
`Get`, `Delete`, `Stop` and `Run` load the inner map first (`LookUp`) and its slot
in a step of its own; `StopByClient` and `StopAll` load it and `Range` over it one
server at a time, in any order (`RangeStop`, `op[p].left`); `Add` goes on with the
inner map that `LoadOrStore` gave it, also after `DeleteAll` has dropped it.

Two fields of a handler are history. `raced` is set when `Store` finds that another
operation has stopped what it found in this slot and goes on to drop what is there
by then, or that it is a shutdown, or that the inner map has been detached
(`Races`, `Behind`, which only look at where the other operations are). `late` is
set when frp runs a service that was closed before. `NoOrphan` and `StopIsComplete`
name these two exceptions, which the code really has, and say that there is no
other. Deliberate simplifications:

- The slot's load and the comparison with the new config and `Running()` are one
  step (`Inspect`): nothing but `running` can change in between, and a change
  right after is the same as one right before the next step.
- `DeleteAll` is one step per client and one for the new map; the data race on the
  pointer to that map is not modelled beyond these steps.
- A config is its common part, the `start` filter in it, the set of its proxies
  and visitors, and which loader takes it: the strict one, which the pull uses,
  only the lenient one of `UPDATE_FRPC`, or none. `Loads` and `Started` are what
  `LoadClientConfig` does; an update that does not load changes nothing.
- Children of the agent's client are one level deep and listed once; they are
  pulled in any order.
- frp's `client.Service` is external. `Run` on a service that was closed before
  may return at once or run on (`EarlyClose`): `handler.go:98` runs it with a
  context nobody cancels, and nothing in `src/` decides which. A failed login ends
  `Run`.
- Handler records are reused when unreachable and at rest; `MaxHandlers` and
  `MaxMaps` bound how many are in use and are never reached by a valid step.

`Overlap` and `Prompt` choose the regime: whether operations of different
drivers may overlap and whether a `go h.Run()` begins before the next operation.

### StreamLog

A session is a number. `cur` is what `streamLogMu` guards, `sink` the channel
attached, `pump` and `queue` each session's goroutine and channel. `TypeOK` also
says that an operation that uses a session has one (`InHand`). `Shutdown` is
a second stopper beside the RPC loop. `GiveUp` is the timeout of a stop
(`MaxTimeouts` bounds it), which leaves the pump running but already forgotten. A logger
reads the attached channel in one step and sends in another.

### WsListener and Handoff

`Handoff` says what a listener promises: a connection is outside, then waiting
or refused, then accepted or closed; after the listener is shut every waiting
one is accepted or closed in the end. `WsListener` has the channel, the two
flags and Close's three steps; `H == INSTANCE Handoff WITH shut <- closed` and
the property `Implements` is `H!Spec` with its fairness. Nothing in `src/` uses
the listener yet (the agent only uses the connections); it is part of the
library and complete in itself.

### SelfUpgrade

The file system is three files (executable, backup, temporary), each a release
and whether it is whole. Every system call is a step after which the process may
crash, or be ended by the restart an earlier upgrade has scheduled or by the
exit that a removal has (`Remove`, `Leave`), ten seconds after its answer. A
respawn is two steps, `Spawn` (`os.StartProcess`) and `Exit` (`os.Exit`): until the
second the old process goes on handling requests, and what it installs or schedules
there, its successor does not know of (`spawned`). The new process is taken to
handle its first request when the old one has exited, and if several have been
started the model follows the last. A
crash is the end of the process; the code calls no fsync and nothing is claimed
about power loss. `Refused` is every way to fail before the temporary file exists,
in a Docker image for one. The file that is replaced is the one the agent runs
from: requests that name another one in `TargetPath` are left out. Upgrades and
restarts by an external command own everything they do
and are left out, as is Windows, where the handler refuses the other types.

`AtomicUpgrade` is what is left of it for who asks: the release installed, the one
that runs, the answers, and whether a request of unknown type is under way, which
the code installs and then refuses. Its `Install` is the rename, its `Restart`
every way to come up again; all other steps are answers, or change nothing of it.

### PtyBridge

One session. The RPC handler (`idle`, `open`, `ack`) becomes the bridge. Output
is numbered pieces so that completeness and order can be stated; input is
control only. A start that fails tells master first and then closes the terminal
(`tell`, `Told`); master need not read, so that step has no fairness until the
stream is over. `Report` is the closure `done`. Whether a read of the terminal
ends when the shell has exited is up to the pty library (it does when nobody
else, this process included, holds the other side open), so both cases are
checked.

### RpcSession

Each runner has a place; `derived` is "r.cancel is set", so a `Shutdown` that
comes while a runner is still in its initial pull finds nothing to call
(`CallsCancel`; `TypeOK` says that what it calls is set), and only
the service's context ends the runner. What a request or a pull does is in the
other modules; the events handed to the debouncer are `ReportStarted` and
`ReportStopped`. A stream whose registration master rejects is left open by the
code; `left` counts those, which only master, the network or the runner's
context ends.

### WsConn and ByteStream

Both ends of one websocket. A byte is its number in the order in which writers
take the mutex of their end, so that a read can be compared with what was
written. `writing` is the message of the goroutine that holds `writeMutex`,
`wire` what the network holds, `readBuffer` what `Read` has not handed out yet.
`Read` is two actions, from the buffer or from the next message; gRPC goes on
reading until a read fails. `ByteStream` is what a `net.Conn` promises in one
direction; `Implements` says that each direction is one, with the liveness of
it: all that is written arrives or the connection ends, and an end is told.
An empty message ends a read with `io.EOF`, and one of another type, which only
other software at the other end sends, fails it, as in the code; `odd` remembers
that such a message was sent, and only then may a read fail while the connection
lasts.

### Startup

Every step of the start is one action: `main.go` hands the command line over in
environment variables, `loadApp` panics without credentials, `loadFrppc` makes
the configuration, `NewService` resolves the options and dials. A credential is
named after its source, so that what runs can be traced to where it was given;
an address is a scheme, a host and a path, chosen among `Addresses` when it is
parsed. An address is normalised by code that is written twice: `LegacyURL` is the
copy in `resolveOptionsFromConfig`, for the address of an old variable, and
`WithScheme` the one in `newMasterClient`, for every address. Both ask
`inferWebSocketRPCURL`; of the addresses that contain `/grpc-ws` those whose path it
is are modelled.

### LifecycleEvents and Agent

`LifecycleEvents` extends `RpcSession` with the variables of an instance of
`Debouncer` whose keys are the two kinds of event. `ReportStarted` of
`RpcSession` becomes two steps, the submission and its return, with the emit
call between them when `Submit` emits on its own; `ReportStopped` likewise, with
`Stop` of the debouncer. `told` is what has reached master, as the payload
`MergeAggregateCount` makes. Requests and periodic pulls report nothing and do
not occur in it. `Agent` runs `Startup`, and when that ends in `running` the
runners; what a run was started with is forgotten there (`BeginRunners`), since
nothing reads it any more.

## 3. Runs

Each run answers one question. "Violation" runs state what a comment or a log
line says and find a behaviour of the code that breaks it; the quotations are in
`PROJECT.json` under `findings`.

| run | instance | shows |
|---|---|---|
| `debouncer` | 2 keys and the empty one, 4 events, a window of one unit of time | types; every event accounted for once and counted right; windows close; implements `EventReports`: every event is reported |
| `sync_serial` | root and a child that may be listed no more, 2 servers, 5 configs, one message, one change of mind, one failure, `Shutdown` | types, no orphan, clients get and keep what master wants, stopped ones are silent |
| `sync_unsettled` | one client and server, a pull, a start or stop and `Shutdown`, which overlap; goroutines that begin arbitrarily late; frp may run a closed service | no orphan and nothing alive after a stop, but the two exceptions |
| `sync_overlap` | one client, 2 configs, a message, a change; operations overlap | one run at a time per handler; pulls serve the client again (they never remove an orphan) |
| `sync_one_instance` | overlapping operations | violation: two live handlers for one pair, one out of reach |
| `stream_log` | 3 requests, a stop that may give up, a logger with 2 records, `Shutdown` | types; service, sink and pumps speak of one session; a stop need not give up although master never reads; no pump is left |
| `ws_listener` | 4 connections, 2 acceptors, a channel of 2 | types, no send on the closed channel; implements `Handoff`; everybody returns |
| `self_upgrade` | 3 requests of any type, a crash, a failure, a removal, a supervisor | types; complete executable and backup; implements `AtomicUpgrade`: upgrades are atomic, answers true; the upgrade takes effect |
| `pty_bridge` | a shell with or without a password, on either kind of terminal, or none allowed; 3 requests, 2 pieces, 2 messages from master | types; nothing left, output complete, cleanup ends, ends noticed |
| `rpc_session` | 2 failures, 2 requests, `Shutdown` at any time | types; initial pull first; both runners return and leave no stream; reconnection |
| `ws_conn` | a byte from the agent, two from the gateway, reads and writes of up to 2, a message without data, a deadline, a cut, closes | types; each direction is a `ByteStream`; a close lets go of every blocked call |
| `agent` | every start from the sources, 14 addresses, 4 periods; then 2 failures and a shutdown | master counts right; the closing connection spares the stop; runs as told; dials as addressed |

Why the bounds are enough. Races in these components are between two goroutines
and at most three successive operations: the debouncer needs two events of a key
to reset a window and two more to open the next while an old flush is under way;
the tunnels need one operation under way, one that overtakes it and a pull after
it, or a stop, an operation that outlives it and a goroutine that is late; a log session needs a start, a stop that gives up and a start after it;
upgrades need one restart scheduled, one upgrade it hits, at any of its steps and
between the two of the restart, and one after; a message
that is read in two parts has two bytes, and one more message is enough for the
reader to be ahead or behind; an aggregate of two needs three registrations, so
two failures. Every list of addresses has each combination the code tells apart:
scheme or none, host or none, master's port, a path or none or master's. Bounds
appear only in guards of the environment's actions (events, messages, failures,
crashes) and as the size of record pools. `CHECK_DEADLOCK FALSE` is in every
configuration because every component may stop: all events reported, the service
shut down, the bounds used up.

Disagreements between code and words that need no run, because the code is plain
once both are read side by side:

- `debouncer.go:143` says that `Stop` flushes everything before it returns;
  an aggregate that a timer's `flush` has taken out and not emitted yet is not
  waited for (`StopReturn`). `ClosingSparesTheStop` says what that can cost: a
  *started* aggregate, never the stop.
- `rpc_pull_config.go:54` takes the first result of `lo.Difference`, the
  children that are not running yet, where its log line says *expired*; children
  that master no longer lists keep running (`Expired`). Stopping a child that is
  about to be pulled is harmless.
- The README gives 30 seconds as the default period of pulls (line 175);
  `config/frppc.go` gives 300, and 30 is what a period that is not positive
  becomes (`LoadFrppc`, `ResolveOptions`).
- `FRPPC_ENABLED=false` is to keep the agent from running (README, line 171);
  `loadApp` panics without credentials before it is looked at (`LoadApp`).
- An address without a host is accepted: the path is dialed instead (`Dial`).
- `debouncer.go:9` promises a trailing event only after a silent window; `Submit`
  may reset a timer that has expired already, whose `flush` then reports at once
  (`Fire`, `SubmitBuffer`, `Flush`). Nothing is lost or miscounted by it.
- `STOP_FRPC` ignores the client it names and stops every client; the README of
  the repository (line 208) speaks of a certain one. `StopAll` and
  `DeleteAll` model what the code does.
- The README (line 55) says that invalid proxies are skipped; `Update` hands frp
  the ones `NewClientHandler` drops, which is why handlers have a set `proxies`.
- The README (line 181) and `.env.example:43` say that without
  `FRPPC_FEATURES_ENABLE_REMOTE_SHELL` every request for a terminal is refused;
  `rpc_pty_totp.go:11-37` does not look at the switch, and a bind or verify with the
  right code opens a session (`Verdict`).
- `sink.go:15` says that records are forwarded while a session is active; a pump
  whose send has failed leaves its channel attached (`PumpFailed`).
- `service.go:102` reports the stop while the stream is usable; the runner has
  canceled the stream's context before (`CancelRunner`, `ReportStopped`). The
  report is a call of its own, and the connection is still open.
- `rpc_upgrade.go:54` answers that frppc will respawn into the new binary shortly.
  Between `os.StartProcess` and `os.Exit` (`restart_unix.go:43` and `:46`) of an
  earlier respawn the old process still installs and answers an upgrade; the exit
  takes its restart with it, and what runs is the release before (`Spawn`, `Rename`,
  `Switch`, `Exit`). `UpgradeTakesEffect` names this exception.
- `restart_unix.go:27` counts on a supervisor or the new process; when the new
  process cannot be started the old one exits all the same (`RespawnFailed`), and
  only the supervisor that `Supervise` models brings the agent back.

Fairness. Goroutines are scheduled, timers expire, a killed process dies, a
supervisor starts an agent that has ended (without one see the last item above), a
call whose context is canceled returns. Not assumed: that master answers or reads,
that anybody submits, upgrades or stops, that a shell takes input. Where a property
needs more it says so: the parts of `EndIsNoticed` and `KeepsServing` name the one
call that may block. `WsConn` assumes that the websocket library returns from calls
on a closed connection, that the network delivers while it is not cut, and that gRPC
reads until a read fails; nobody has to write or to close. The debouncer's emit
returns because the service gives it five seconds. `RpcSession` assumes that the
handling of a request ends, which master must do its part for:
`rpc_pty_connect.go:108` waits for its ack without a timeout. `TunnelSync` assumes
that a pull returns, with an answer or an error (the errors are bounded): a call
that never returns stops synchronisation, in the model as in the code. The pull
runner's `SF` is Go's `select` between a canceled context and a ticker that is far
slower.

## 4. Proofs

Proved for all values of the constants that satisfy the named assumptions, by
TLAPS with its SMT, Zenon and LS4 backends.

- `DebouncerProofs`. `TypeCorrect` first; then the inductive invariant `IInv`,
  which is the conjunction of all safety invariants of the run. None is
  inductive alone: that an aggregate is disjoint from older calls needs that
  events in windows and in calls are disjoint, that its count is right needs
  `EntriesExact`, that a new event is in nothing yet needs `NoneForgotten`
  (only numbers up to `n` are anywhere). Theorems: `AccountsOnce`,
  `CountsAreExact`, `WindowsAreSound`, and `ReportsEachOnce`, that every step is
  one of `EventReports` or none; this also needs that an event without a key is
  never in an aggregate (`KeylessAlone`).
- `TunnelSyncProofs`. `TypeCorrect` and `RunsOnce` for any numbers of clients,
  servers and drivers, however operations overlap. The strengthening says which
  fields of an operation are set at which place (`OpOK`: an operation about to
  store has a handler and an inner map, one about to update has a handler), and
  that `running` counts the runs inside.
  `NoOrphans` and `StopsCompletely` have no hypothesis: operations may overlap at
  every map access, goroutines may begin at any later time, and frp may run a
  service that was closed before. Only handlers with `raced` or `late` are exempted,
  and these say what the code did, not what became of it. The invariant `SafeInv`
  has four parts beside `NoOrphan`. `Owned`: an inner map belongs to one client, for the
  controller and for every operation that has loaded it, and its handlers are filed
  under their own ids. The others say that whatever is about to be dropped may be:
  it has been stopped, or is an exception (`Spared`). `DroppedAreSpared` is about an
  operation that has passed a slot and goes on to drop its client or slot, which is
  where `Behind` is needed: what another one stores there in between is `raced`.
  `ReplacedAreSpared` is about the slot that `Add` has emptied and not filled yet,
  `DetachedAreSpared` about inner maps that only operations still hold. Each step
  either keeps all handlers and drops spared ones only (`HandlersKept`, `MapsKept`),
  or is `Create` or `Store`, which are argued apart.
- `StreamLogProofs`. `TypeCorrect` and `AlwaysAgree`, for any capacity, loggers,
  requests and timeouts. `SessionsAgree` speaks of the moments between requests;
  the strengthening says at each place of a request which session may be live
  (`Held`) and what service and sink know of it (`Known`), that a session about
  to be published is new (`Fresh`), and that nobody but the RPC goroutine opens
  sessions (`Placed`). A stop that gives up has detached and canceled before,
  which is why it does no harm.
- `WsListenerProofs`. `NeverPanics` (the channel is never sent to after it was
  closed, and holds no more than fits) and `HandsOff`: every step of the listener
  is a step of `Handoff` or none. What the argument needs is that a connection is
  in the channel exactly when it waits, and in it once.
- `SelfUpgradeProofs`. `TargetIsAlwaysWhole` and `DiskIsAlwaysSafe`, for any
  number of requests, crashes, exits and failures. The strengthening: once
  extraction is over the temporary file is whole, and when a request with backup
  reaches the rename the backup equals the executable.
  `UpgradesAtomically`, that every step is one of `AtomicUpgrade` or none, needs
  `Ahead`: before its rename a request is later than what is installed, the
  temporary file it extracted is its own and not what an earlier one left there,
  after it what is installed is its release, and it has no answer until it ends.
- `PtyBridgeProofs`. `TypeCorrect`, `LeavesNothing` and `OutputIsComplete`. The
  first two follow the bridge from place to place (`Places`); the third needs to
  know where every piece of output is (`Pieces`: sent, in the reader's hands, or
  in the terminal, in order) and that *exit* is reported only when the shell has
  exited, so that nothing is printed after it.
- `WsConnProofs`. `TypeCorrect`, whose types leave the byte 0 of a foreign message
  out of everything that is read, and `StreamsBothWays`: every step is a step of
  `ByteStream` in each direction or none, for any sizes of reads and writes and
  any capacity. The invariant `StreamInv` follows the bytes: what has been
  returned, what is left of the message at hand and the messages on their way are
  consecutive (`Arrived`, `OnTheWay`, with the place at which each message begins
  as a witness), they end where the network has got to unless the connection is
  over, and the message of the `Write` under way goes on from there as long as it
  can succeed (`Outgoing`). That no bytes are numbered and then lost by a failed
  `Write` while a later one succeeds is the heart of it: what fails one fails all.
- `AgentProofs`. On the start: `StartsAsTold` and `DialsWhatIsAsked`, for any
  addresses and periods; what the configuration and the options hold of each source
  is carried from stage to stage, and that an old variable's address is normalised
  by one copy of the code before the other makes no difference. On the session:
  `PullsFirst`, with the strengthening that a runner is past its beginning only when
  the initial pull is done, and `TypeCorrect`, which counts the streams that are
  left among the failures and the inbox among the requests, and says that `Shutdown`
  calls no cancel that has not been set. On the composed process:
  `MasterCountsRight`, `StopIsSpared`, `AgentStartsAsTold`, `AgentPullsFirst`. The
  invariant `EventsInv` contains that of `DebouncerProofs`, instantiated (its step
  lemma is cited, not repeated), and says of the composition that what master was
  told comes from a completed call (`ToldTrue`), that the stop is submitted once,
  opens a window and is called for before the debouncer is stopped (`StopOnce`), and
  that the connection closes after the debouncer has stopped (`ShutInOrder`).
  `DebouncerInAgent` and `SessionInAgent` say that the composition takes the
  components' steps and no others: the debouncer's invariants hold in the agent, and
  the session changes as `RpcSession` says, except that a lost push counts as a
  failure.

Model-checked only: all liveness (`WantedAreServed`, `HaltedAreSilent`,
`StopsReturn`, `PumpsEnd`, `AllReturn`, `UpgradeTakesEffect`, `CleanupEnds`,
`EndIsNoticed`, `ShutdownEnds`, `KeepsServing`, `CloseReleases`, and the liveness
of `EventReports`, `Handoff` and `ByteStream`), because liveness under fairness
and `ENABLED` are out of the prover's reach. Every invariant and every action
property of a run is proved.

## 5. Not modelled

- The system service wrapper (`utils/system_service.go`): nothing in `src/`
  calls it, and what it does is decided by a service manager that is not here.
- `utils/validate_client.go` and `utils/portutils`: pure functions on frp's
  config types that nothing in the agent calls; `envInt` likewise.
- `GET_PROXY_INFO` and the other queries change nothing.
- Upgrade and restart by an external command own all they do; on Windows the
  handler refuses the other types.
- Children of children: the pull recurses into whatever master lists, and two
  clients that list each other would make it recurse without end; master's
  answers are taken to be one level deep.
- Framework bootstrap, facades, version and hash helpers, build scripts: no
  state, or no part of the program. The debug copy of a pulled config on disk,
  and the encoding of messages.

## 6. Plan

Done, in this order: `Debouncer`; `TunnelSync`; `StreamLog`; `WsListener` with
`Handoff`; `SelfUpgrade`; `PtyBridge`; `RpcSession`; `WsConn` with `ByteStream`;
`LifecycleEvents`; `Startup`; `Agent`; `EventReports`; `AtomicUpgrade`; and proofs of every safety
property of the runs, the composition included.

Next:

1. An abstract specification of log streaming (one session at a time, records in
   order or dropped), implemented by `StreamLog`.
2. `TunnelSync` with the pull's removal of children as it was meant, and with
   children of children.
