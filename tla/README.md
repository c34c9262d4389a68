# A verification of Tabverse's stateful core

Tabverse keeps terminals and agent sessions alive outside its window: a GUI process talks
to a windowless *Runtime Supervisor*, which owns the shells and the agents and records them
in `runtime.db`. A shared terminal is followed by viewers on other machines. The window has
state of its own, which it writes to `app.db` and comes back to. The places modelled here are
those where threads, processes, callbacks or restarts hand something to each other:

1. **who may write `runtime.db`** (`RuntimeLease`), when several Supervisors start, stall
   and crash;
2. **what a terminal's clients see** (`TerminalRuntime`), when they spawn, attach, detach,
   type, close and disconnect while the shell writes and exits;
3. **what a shared terminal's viewers see** (`ShareHub`), when they join, lag, are kicked
   and the share ends while output flows;
4. **what an agent session does with calls, approvals and stops** (`AgentSession`), and what
   its transcript holds after a crash;
5. **whom an agent session belongs to** (`AgentOwnership`), when connections come and go;
6. **how the GUI routes a terminal's frames and shares its tab** (`GuiTerminal`), with a
   reader thread, commands and futures at work on the same maps;
7. **what the window finds again** (`DurableState`), through debounced writes, failures,
   quits, crashes and the sweep at startup;
8. **the panes of a terminal tab** (`TerminalPanes`), a pure tree with the store around it.

Where a component has a promise that can be stated on its own there is an abstract
specification it is shown to implement (`RuntimeLedger`, `TerminalStream`, `ViewerStream`).
TLC checks all of them on small configurations; for 1 to 7 there are proofs, checked by TLAPS, for
every value of the constants.

## 1. Inventory

Paths are relative to the repository.

### Runtime Supervisor

| Component | State | Operations | Called by / calls |
|---|---|---|---|
| Runtime store, `crates/tabverse-runtime/src/lib.rs` | `runtime_hosts` (the lease), `runtimes` (records), `runtime_interruptions` | `open` (validate, create, `claim_host`), `heartbeat`, `release`, `put`, `get`, `list` | every Supervisor process; SQLite in WAL mode |
| Supervisor process, `src-tauri/src/terminal_helper.rs` | its host instance, the endpoint file | `run_helper`, `ensure`, `connect_record`, `write_endpoint`, `remove_own_endpoint` | started by the GUI |
| Terminal runtime, `crates/tabverse-term/src/backend.rs`, `replay.rs` | session map, generation, sink, replay ring, attach reservation | spawn, write, resize, detach, begin/complete attach, terminate, kill_all | dispatcher threads, PTY threads; writes records |
| IPC dispatcher, `crates/tabverse-term/src/helper.rs` | one thread and one socket for each client; the spawn handoff (`active`, buffer) | one branch of `dispatch` for each frame kind, idle exit | Helper client |
| PTY engine, `crates/tabverse-term/src/lib.rs` | PTY handles, reader and waiter thread of a shell | create, write, resize, kill | Terminal runtime; callbacks for output and exit |
| Agent Supervisor, `src-tauri/src/agent_supervisor.rs`, `crates/tabverse-runtime/src/agent_ipc.rs` | owners: which client holds which session | start/attach, prompt, cancel, answer, close, detach, disconnect | Agent client; registry; writes records |
| Agent registry and approval gate, `src-tauri/src/agent_bridge.rs` | sessions, open approval requests, each session's event target | start, attach, prompt, answer, cancel, close | Agent Supervisor; session loop |
| Agent session loop, `crates/tabverse-agent/src/session.rs`, `log.rs` | conversation, transcript, turn | prompt, tool calls, compaction, append and replay of the transcript | provider (HTTP), tools (files, processes) |

### GUI process

| Component | State | Operations | Called by / calls |
|---|---|---|---|
| Helper client, `crates/tabverse-term/src/client.rs` | the one pending request | connect, send, request (with timeout), reader loop, close | GUI adapter |
| GUI terminal adapter, `src-tauri/src/terminal_commands.rs` | bridges, backlog and generations by session | term_create, write, resize, kill, detach, attach, helper callback | webview; Helper client; share glue |
| Session bridge, `crates/tabverse-remote/src/bridge.rs` | the bound share, one lock | data, exit, resize, attach/detach share, snapshot request | adapter; local view; Share |
| Remote hub and Share, `crates/tabverse-remote/src/lib.rs` | shares; for each its viewers (buffering or live, access, viewport), `stopped` | share_start, share_stop, share_kick, set_viewer_access, broadcast, snapshot_ready, one task for each connection | share glue; viewers' connections; share sources |
| Share glue, `src-tauri/src/share_commands.rs` | session to tab, share to session, tabs that are starting a share | share_start, share_stop, tab_runtime_died | webview; hub; source registry |
| Local view's snapshots, `packages/workbench/src/terminal/shareSnapshotController.ts` | — | handleRequest | the webview's channel |
| Agent client, `src-tauri/src/agent_client.rs` | sessions by handle, waiting requests by id | start, prompt, answer, cancel, close, detach, reader loop | webview; agent shares |
| App share, `src-tauri/src/app_share.rs`, `packages/runtime-remote/src/appMirror.ts` | the mirrored store | snapshot, action, RPC, clipboard | hub; webview; remote mirror |
| Durable state, `crates/tabverse-state`, `src/persist.ts` | scopes in `app.db`; for each scope the buffered payload, the debounce timer, the chain of calls, the refusal to write | saveState, deleteState, flush, loadStateResult, flushAll | webview |
| Session recovery and sweep, `src/sessionRecovery.ts`, `src/App.tsx`, `src/state/store.ts` | what startup found, open and closed tabs | boot, recover or initialize, sweepOrphanTabState, open, close, reopen, quit | persist.ts |
| Panes of a terminal tab, `src/paneTree.ts`, `src/state/store.ts` | the tree, focused and zoomed pane, the tab's terminal | split, remove, focus, resize, zoom, sleep, wake, restore | views |
| Files `crates/tabverse-fs`, browser, credentials, configuration | their own | one caller at a time, or I/O | webview |

### What is hard, and what makes each part correct

* **Lease.** Processes are not coordinated by anything but SQLite and clocks: two opens at
  once, a heartbeat between a claim's SELECT and its UPDATE, a process suspended past its
  lease, a crash at any statement. Correct: at most one open lease; a lease changes hands
  only after it expired; the holder alone writes; a dead host's runtimes are reported as
  interrupted, once.
* **Terminal runtime.** Reader, waiter and one thread per client share a session through a
  mutex, an atomic generation and the session map, and no operation holds one lock from
  beginning to end. Correct: each attachment's frames are a gapless suffix of the output;
  the shell never becomes unreachable or unlisted while it runs; the record agrees with what
  is attached.
* **Shared terminal.** The snapshot of a joiner comes back later, over another channel,
  than the output it has to fit; join, stop, kick and stall race. Correct: snapshot,
  buffer and live output meet exactly; a joiner is caught up or told the end; everyone agrees
  on who is there.
* **Agent session.** A turn runs on a thread of its own while the user answers, stops and
  closes; the gate parks it in between; compaction rewrites the history under a cursor; a
  crash cuts the transcript. Correct: nothing runs that was not allowed; each call has its
  result before the model is asked again; a stop stops; prompts are worked off.
* **Agent ownership.** A handler that lost its connection cleans up beside the handler that
  serves the next one; a request the client has given up on is still served; events are sent
  while the session is being handed over. Correct: the client that was given a session owns
  it and hears all of it; what nobody is connected to ends detached.
* **GUI terminal.** Frames arrive before the bridge they are for; an Exit comes while the
  command that opens the session is at work; a share is started across awaits while its tab
  dies. Correct: no frame is lost or shown twice; no row outlives what it names; a live share
  is fed.
* **Durable state.** Writes are debounced, chained per scope, retried and overtaken; a read
  that failed looks like nothing there. Correct: what was asked for last is what is on disk;
  a load is never older than a save; a quit that flushed has flushed; no reachable tab's state
  is deleted.
* **Panes.** Long sequences of splits, removals, sleeps and restarts on one tree. Correct: the
  layout tiles the tab, focus and zoom name panes on screen, a resize grows the focused pane.

`PROJECT.json` lists every hazard at its line, with the properties that cover it or the
reason why none does.

## 2. Plan

Written, in this order:

1. `RuntimeLease` implements `RuntimeLedger`; `RuntimeLeaseProofs`.
2. `TerminalRuntime` implements `TerminalStream`; `TerminalRuntimeProofs`.
3. `ShareHub` implements `ViewerStream`; `ShareHubProofs`.
4. `AgentSession`; `AgentSessionProofs`.
5. `AgentOwnership`, which takes from `AgentSession` that a session is a thread that writes
   events, and adds who is connected to it; `AgentOwnershipProofs`.
6. `GuiTerminal`: the GUI between `TerminalRuntime`'s frames and `ShareHub`'s bridge;
   `GuiTerminalProofs`.
7. `DurableState` and `DurableStateProofs`, then `TerminalPanes` inside one of its tabs;
   `TerminalPanesProofs`.

Left, in this order:

8. Timeouts and lost connections of `HelperClient` in `GuiTerminal`; the endpoint file and two
   GUIs that connect or start a Supervisor, composed with `RuntimeLease`.
9. Agent shares (history and live events overlap), the app mirror, access levels and viewports
   of `ShareHub`.

## 3. The modules

Three conventions hold throughout. A step is what one thread (or one turn of JavaScript) does
between two points where another can intervene, so an operation that holds no lock from
beginning to end is several actions, joined by a program counter. Variables marked `history` in
a module record what has happened for the properties; nothing the model does depends on them.
Definitions of which a module has two forms (`NextCall` and `NextCallAbandoned`) belong to the
list of mutants in `PROJECT.json`: the first is the code, the other a plausible mistake that the
named property detects.

### RuntimeLease

One action for each statement or transaction of a Supervisor process `h`:

| Action | Code |
|---|---|
| `Inspect`, `Connect`, `CommitSchema` | `RuntimeStore::open_at`: sample the clock, validate an existing file, create it, commit the schema |
| `ClaimRead`, `ClaimCommit` | `claim_host`: the SELECT, then interruptions, the two UPDATEs, the upsert and COMMIT |
| `Heartbeat`, `Release`, `ListenerStopped`, `Crash` | the main loop of `run_helper` and its ends |
| `Start`, `Advance`, `Finish` | `put`, from the client and waiter threads of terminals and agents |
| `Tick` | the wall clock |

`snapshot` models the one fact about SQLite on which the code relies: a deferred
transaction may upgrade to write only while its read snapshot is the newest. A process is
`"dying"` between the error that ends its loop and its exit; its other threads still
write in that time. `claim_host` computes `cutoff` from a clock sampled before validation, so
`claimTime` is set by `Inspect`.

`RuntimeLedger` is the abstract specification: a register `writer`, which a process takes
when it is free, turning other processes' active records into interrupted ones, and only
the writer changes records. The refinement maps `writer` to the process that is alive.

Two specifications: `Spec` lets time pass at will; `TimelySpec` (`TimelyTick`) lets no live
process go `StaleAfter` seconds without a heartbeat, nor an opening process `StaleAfter`
seconds without its claim. The code does not enforce that (nothing stops a suspended
process), so what needs it is stated under it and nothing else is.

### TerminalRuntime

One shell and any number of clients. `stateLock` and `lifecycle` are the mutexes that are held
across steps, and `pc[c]` is where the thread of client `c` is in its request. The stages of a
request, in order:

| Request | Steps |
|---|---|
| Spawn | `SpawnCreate`, `SpawnInsert`, `SpawnRecheck`, `SpawnRecord`, `SpawnAnnounce`, `SpawnActivate`, `SpawnDrain` |
| Input, Resize | `Input` (checks the generation), `InputSinkCheck`, `InputWrite` |
| Detach | `Detach` (checks), `DetachClearSink`, `DetachBump`, `DetachRecord` |
| Attach | `AttachBegin`, `AttachRecord`, `AttachCheck`, `AttachDeliver`, `AttachFinish` |
| Terminate | `Terminate` (checks), `TerminateUnlist`, `TerminateKill`, `TerminateRecord` |
| KillAll | `KillAll`, `SweepKill`, `SweepRecord` |
| reader thread | `ReaderRead`, then `ReaderSwitch`/`ReaderStash` (the spawn handoff) or `ReaderSend` |
| waiter thread | `WaiterExited`, `WaiterUnlist`, `WaiterLoad`, `WaiterStore`, `WaiterRelease` |

Output is numbered; the ring keeps the last `RingCap` numbers (the code bounds bytes and
frames, which only moves the cut). A client may name any generation it was ever told
(`known`), because requests are pipelined. `StoreMayFail` decides whether `put` may return an
error. `TerminalStream` is the promise: a generation opens with the most recent output and is
extended by the next piece, always. Generation one, whose frames pass the spawn handoff, is
outside it: its order is not promised and `NoOutputStranded` shows what happens.

### ShareHub

One shared terminal, its viewers' connection tasks, the thread that dispatches output and
the thread of host commands.

| Action | Code |
|---|---|
| `Lookup`, `Refuse`, `Insert` | `handle_incoming` up to the insertion into the viewers map |
| `Announce`, `Show` | `Share::presence`: under the viewers lock, then the callback outside it |
| `Ask` (with `BeginBuffering`) | `request_snapshot`, `inject_snapshot_request` under the bridge lock |
| `TaskEnds` | the end of `handle_incoming`, whoever caused it |
| `DispatchData` (with `Stalled`) | `dispatch_data`, `broadcast_output`, `broadcast` |
| `SnapshotReady`, `SnapshotUnknown` | `share_snapshot`, `snapshot_ready` |
| `Kick`, `Unbind`, `Unregister`, `EndAll` | `share_kick`; `detach_share`, `share_stop`, `end_all` |

A snapshot is the number of chunks the local view had processed when the marker reached it:
the view serializes its state behind every write that was queued before the marker, which is
what `shareSnapshotController.ts` does. `dispatch_exit` takes the share and stops it while it
holds the bridge lock; `Unbind`, `Unregister`, `EndAll` allow that order and everything the
stop command allows in between. The bridge lock needs no variable: the only steps it is held
across are those of a dispatch that dropped a viewer (`BridgeFree`).

`ViewerStream` is the promise: nothing until one catch-up, which is the output from its
beginning to a point after the viewer came in; then every piece of output; nothing after the
viewer is cut off. Kick, a stall and the end of the share are cut-offs.

`skipped` is not state of the code: it names the viewers whose buffer was full when the others were
last told their number. `presence` passes those over, since "a skipped update is superseded by the
next one", and `CountNotStale` excepts them and nobody else.

Left out: access levels and `Mode`, viewports and `Resize`, `Ping`, protocol versions (terminal
frames exist in all of them), the data streams of app shares, agent and app shares, whose
viewers start live. `set_viewer_access` also announces presence; it changes no membership.

### AgentSession

One session: the thread of `pump_prompts` and `Session::prompt`, the gate it parks on, and the
registry's calls beside it.

| Action | Code |
|---|---|
| `Recv` | `pump_prompts`: `recv`, the token is rearmed, `prompt` appends the text |
| `Compact` (with `Compacted`) | `compact::compact` at the start of a turn; past the threshold the model is asked for a summary, which may fail |
| `Check`, `Stream`, `StreamFails` | the loop's head, the request, what the model answers |
| `NextCall`, `Ask`, `Executed` (with `Finish`) | `run_one_call` for each call of the round; a name no tool has and a stop are answered at once |
| `Answered`, `Timeout`, `TimedOut` | `UiGate::request`: `recv_timeout`, and what it does when the time is over |
| `RoundEnds` | cancelled, out of rounds, or another round |
| `AppendMessage` | `append_new_messages_tracked`, one record at a time |
| `PumpEnds` | the channel is closed and empty |
| `Prompt`, `Answer` | the registry, under its lock |
| `Cancel`, `Close`, `StopRelease` | `stop_session`: the token, then `release_all` |
| `Crash`, `Start` | the process ends, perhaps within a record; `AgentRegistry::start` replays the transcript and refuses a cut one |

Each emitted event goes to the transcript first (`Emit`): a failed write is remembered and ends
the pump after the turn. A call is made once; the model may make up to two a round. The texts of
messages, the folding of results and the memory are left out; the token threshold of a
compaction lies anywhere beyond `keep_recent + 1` messages.

### AgentOwnership

The connections of one GUI to the Supervisor, each with its handler thread, over the sessions of
one tab. What a turn does is `AgentSession`'s; here a session is a thread that writes events.

| Action | Code |
|---|---|
| `Connect`, `Lose`, `AskStart`, `AskLeave`, `GiveUp` | `AgentClientRegistry`: connect when the last connection is dead, requests with `REQUEST_TIMEOUT`, the handle it keeps |
| `Attach`, `AttachRead`, `Replay` | `AgentRegistry::attach`: the session's events are pointed here, then, with the lock held, the transcript is read and sent |
| `Fresh`, `Insert`, `StartFails` | `AgentRegistry::start`: replay, thread and registration |
| `Own`, `Get`, `Put`, `Reply` | `dispatch` for Start: the owner, `set_runtime_state` (a get and a put), the answer |
| `Check`, `Close`, `Disown` | `ensure_owner`, then close or detach |
| `HandlerEnds`, `SweepNext`, `SweepRemove` | `handle_client`'s end: `detach_owned` |
| `Write`, `Aim`, `Send`, `ThreadEnds` | `TeeSink`: transcript, look up the target, send |

Bounds besides the constants: a connection is made once, and no connection is made while a Start
of an earlier one is still being served. Two Starts at once are possible in the code, and the
second would start a second session for the tab; that case is left out, but for the last two
steps of a Start that its connection no longer waits for. `raced` collects the connections whose
Start overlapped another connection's requests (`Overlapping`), and the properties except them:
a Start beside a handler that closes, detaches or sweeps, for which `NewestOwns` is refuted; and
a Start that was still recording its generation (`Get`, `Put`) when the next one began. The
second case takes three connections, one more than the run has: the late `Put` writes an old
generation over a newer one, and two connections are given the same.

### GuiTerminal

The GUI's end: `HelperClient`'s reader thread with its one pending request, the `term_*` commands
on the main thread, and `share_start` futures beside both. What the Supervisor sends is taken
from `TerminalRuntime`.

| Action | Code |
|---|---|
| `ReaderTakes`, `ReaderDelivers` | the reader thread of `HelperClient::connect`: a frame answers the request or goes to the callback, which looks the bridge up first |
| `ReaderDies`, `ReaderUnroutes`, `ReaderForgets` | an Exit: `tab_runtime_died`, then bridges, backlog and generations |
| `Create`, `Attach`, `Install`, `FlushTakes`, `FlushDelivers`, `Replay`, `Register` | `term_create`, `term_attach`, `install_helper_bridge`, `flush_helper_backlog`, the share source |
| `Detach`, `Kill`, `MainDies`, `Unroute`, `KillAll`, `KilledAll`, `Failed` | `term_detach`, `term_kill`, `term_helper_kill_all` and a request that failed |
| `StartReserve`, `StartBind`, `StartCheck`, `StartInsert` | `share_start`: reservation, hub, the check after the await, the row |
| `ShareStop`, `ShareSweep` | `share_stop` of a tab; the webview stops a share it was told of, and starts none in a tab that has one (`src/share/framework/actions.ts`) |
| `HelperOutputs`, `HelperExits` | frames of the Supervisor |

`Died`, `DiedRow`, `DiedShares` are the three locks `tab_runtime_died` takes one after the other.
A bridge is named by its session and by which opening made it, so that a frame for an old bridge
can be told from one for the new. An Exit that arrives while the command that opens its session
is still at work leaves that session's rows behind; `NoEarlyExit` excepts it, and `ExitShown`
shows it. A tab that dies between the last check of `share_start` and its insertion is in `raced`.
Left out: request timeouts and lost connections, listing, access levels, ink, viewports.

### DurableState

`persist.ts` over the carrier's calls, and on it startup, sweep, tabs and quitting. An action is
the code between two awaits; a call takes effect when it lands.

| Action | Code |
|---|---|
| `SaveState`, `DeleteStates`, `TimerFires`, `FlushScopes` | `saveState`, `deleteState`, the debounce, `flushScope` |
| `Lands`, `Fails` (with `Retry`) | the answer to a call at the head of its scope's chain, and the catch that keeps the payload |
| `Load`, `Read`, `Answered`, `ViewLoaded` | `loadStateResult`: buffered payload, calls in flight, carrier, and what refuses later writes |
| `StartRecovery`, `Restored`, `FirstLaunch`, `Unusable`, `Decline`, `Replace`, `Replaced` | `boot`, `recoverOrInitializeSession`, `initialize` |
| `SweepArchive`, `SweepDeletes` | `sweepOrphanTabState` |
| `OpenTab`, `CloseTab`, `ReopenTab`, `Mount`, `Touch` | the store's tabs and a view with its state |
| `FlushAll`, `CloseWindow`, `FlushDone`, `Dies`, `StartApp` | a close request, its flush, the 1.5 s it waits at most, a crash, the next start |

A payload is the number of the call that saved it. `spoilt` holds scopes in which a failure
overtook a later call: a delete is not tried again, and a save kept for a retry while a later call
is queued is written after it (`NewestWins` shows that). The store itself is atomic calls that may
fail; migrations and backups are left out, and so is the limit of 10 closed tabs (`CLOSED_LIMIT`), which
three tabs do not reach.

### TerminalPanes

`paneTree.ts` as operators (`SplitPane`, `RemovePane`, `Layout`, `Neighbor`, `PaneTakingOver`,
`ResizePane`, `SetPaneBoundary`, `PaneTreeSnapshot`, `ReadPaneTree`) and the store's actions on one tab
over them (`Split`, `RemoveTerminalPane`, `FocusPaneDir`, `FocusPane`, `TogglePaneZoom`,
`ResizePaneDir`, `SetPaneRatio`, `Started`, `Sleep`, `Wake`, `Restart`). Shares are whole numbers in
proportion, so geometry is exact.

A tree of the code is nested objects; here it is a root and, by id, the terminals of the leaves and
the axis, shares and children of the splits. The ids are the code's own: a pane's id, and for a
split the pair of panes its `id` is put together from. What the code does by walking down to one
node and rebuilding the way back (`replaceLeaf`, `insert`, `prune`, `replaceNode`) is a change at that
node, and reading order (`leaves`) is the relation `Before`. That a value of this form is a tree at
all is no longer given by its shape: `WellFormed`, a part of `TypeOK`, says so, and is proved.

## 4. The runs

| Run | Bounds | Shows |
|---|---|---|
| `lease` | 3 processes, a terminal and an agent session, lease of 2 s, 3 s of time, `TimelySpec` | `SingleLease`, `WriterHoldsLease`, `InterruptedOnce`, `ActiveOwnedByLive`, refinement of `RuntimeLedger` |
| `terminal_shared` | 2 clients, 2 chunks, ring of 1, 3 generations | `StreamUpToDate`, `FramesFollowReply`, `LiveProcessListed`, refinement of `TerminalStream` |
| `terminal_alone` | 1 client, 3 chunks, ring of 2, 5 generations, no store errors, fairness | `ReattachPossible`, `RecordTracksAttachment`, `StaleMutationsRefused`, `ExitReleasesRow` |
| `share_stream` | 2 viewers, 3 chunks, buffers of 2 frames | `NothingMissing`, `NeverNeither`, refinement of `ViewerStream` |
| `share_served` | 2 viewers, 1 chunk, buffers of 1 frame, fairness | `CountNotStale`, `JoinerServed` |
| `agent_turns` | a safe, an unsafe and an unknown call, 2 prompts, 2 rounds, 2 messages kept, 2 starts, crashes, full disk, fairness | `RefusedNeverRuns`, `CallsAnswered`, `StopEndsTurn`, `PromptsEnd` |
| `agent_owner` | 2 connections, 2 sessions, 1 event, generations up to 2, fairness | `OwnerServed`, `DetachedInTheEnd` |
| `gui_terminal` | 2 sessions in 1 tab, 2 share calls, 1 chunk, 2 openings, backlog of 1 frame | `DeliveredOnce`, `RowsOfLiving`, `SharesAreFed` |
| `durable_state` | 3 tabs, 3 saves or deletes, 2 starts; reads of the session and of one tab, writes of the session and of two tabs may fail | `NewestKept`, `LoadIsFresh`, `CleanQuitKeeps`, `TabStateKept` |
| `terminal_panes` | 4 panes, 2 positions of a divider, 1 move, 1 shell | `ScreenFollowsTree`, `ResizeGrows` |
| `agent_transcript` | 2 calls, 3 prompts, 2 rounds, no crash | violation of `TranscriptComplete` |
| `durable_sweep` | 3 tabs, the archive may be unreadable | violation of `TabStateKept` |

One run of each module also checks its type invariant, which carries a little more than types
where that matters: owners are connections still served, a backlog stays below its cap, pane
trees are well-formed and the focus is shown.

Why these bounds are enough to be interesting: three processes are the fewest of which two
race for the lease of a third; 3 seconds with a lease of 2 let it expire and be taken. Two
clients and three generations let an attach run into every step of another client's detach,
attach and terminate; a ring of one chunk with two chunks of output evicts. Two viewers with
buffers of two frames reach the drop of a stalled viewer both by output and by announcements,
beside a viewer that is live; in `share_served` a buffer of one frame skips announcements. Two prompts with three calls let a stop of the first turn reach the
second; four messages are past the compaction's threshold. The second connection takes over
while the first one's handler is anywhere in its request or its cleanup. Two sessions in one tab
let an Exit or a kill of one meet the opening of the other, two share calls let one be started
while another's tab dies, and a backlog of one frame overflows. Three tabs are an open one, an
archived one and one to open; two starts put what the first left before recovery and sweep.
Four panes give splits in splits, which three do not in both directions at once.

Interchangeable hosts, clients, viewers, sessions, share calls and panes are symmetric where the
run has no liveness property. Deadlock is not checked: time, output, prompts and calls are
bounded, and the systems may stop (every process gone, the shell dead, the share ended, the
window closed).

`terminal_alone` uses a store that does not fail: with failures `ReattachPossible` and
`RecordTracksAttachment` do not hold (a failed `put` in `begin_attach` leaves the reservation),
which is listed among the hazards.

Two properties come from comments and are violated by the code; each has a run of its own that
finds the counterexample:

* `agent_transcript`, `TranscriptComplete`: a compaction replaces `session.messages` by a shorter
  list under the cursor of `pump_prompts`; until the list has outgrown the old index nothing is
  appended to the log, and a restart continues a conversation that lacks those turns.
* `durable_sweep`, `TabStateKept`: the startup sweep reads the archive through `loadState`, which
  turns a failed read into null; null is taken for an empty archive, and the state of every
  archived tab is deleted.

More such statements are kept in the modules with the comment or document they come from. No run
repeats them; TLC refutes each when it is named in the configuration given here.

| Statement | Configuration | What happens |
|---|---|---|
| `StartsAgainOnDemand` | `RuntimeLease.cfg` | a crash between creating `runtime.db` and committing its tables leaves a file that every later `open` rejects |
| `OnlyOwnerWrites` (a PROPERTY) | `RuntimeLease.cfg` with `Spec` | `put` does not look at the lease; a process suspended past it writes after its successor's claim |
| `ReattachPossible` | `TerminalShared.cfg` | a detach that bumps the generation under another client's attach makes `complete_attach` return without `finish_attach`; no attach succeeds any more |
| `RecordTracksAttachment` | `TerminalShared.cfg` | an attach of another client finds the session in the map before its spawn has recorded generation one, which is then written over the attach's record |
| `StaleMutationsRefused` (a PROPERTY) | `TerminalShared.cfg` | the generation is checked before the operation, not with it; an attach in between makes it act on the new generation |
| `ClosedStaysStopped` (a PROPERTY) | `TerminalShared.cfg` | the waiter of the killed shell writes `exited` over `stopped` |
| `NoOutputStranded` | `TerminalShared.cfg` | an output callback that read `active` as false buffers its chunk after the buffer was drained |
| `CountTold` | `ShareServed.cfg` | `begin_buffering` throws away the `Presence` frame that the joiner's own announcement put into its buffer |
| `RosterShown` | `ShareServed.cfg` | `presence` computes the roster under the viewers lock and shows it after releasing it; two announcements can reach the host's UI in the wrong order |
| `StopReachesGate` | `AgentTurns.cfg` | a stop between the check of the token and the gate's insertion finds nothing to release; the call stays parked until its timeout |
| `NewestOwns` | `AgentOwner.cfg` | `detach_owned` checks the owner under one lock and removes it under another; in between a new connection became the owner |
| `ReplayFirst` | `GuiTerminal.cfg` | the backlog is flushed to a new bridge before the replay is |
| `ExitShown` | `GuiTerminal.cfg` | an Exit in the backlog is dropped with it, and the terminal is opened on a session that is gone |
| `NewestWins` | `DurableState.cfg` | a save that failed while a later delete or save was queued is kept for a retry and written after it |
| `SessionNotReplaced` (a PROPERTY) | `DurableState.cfg` with `EarlyUi = TRUE` | a tab opened before recovery is over saves the session, although nothing was restored yet |
| `ShareComesBack` | `TerminalPanes.cfg` | the last pane that remains has no terminal yet; when it starts, the tab's own terminal id stays empty |
| `Flat` | `TerminalPanes.cfg` | removing a pane can leave a split inside one of the same direction |

## 5. Fairness

* `terminal_alone`: the waiter thread and the threads that serve requests run when they can
  (`WF(WaiterStep)`, `WF(Serve(c))`); they block on the two mutexes only, whose holders are
  themselves served. Nothing is assumed of shells, clients, or output.
* `share_served`: connection tasks, the dispatcher and the host thread run; a share that is being
  stopped is stopped; the local view answers a request it was given (`WF(AnswerStep(v))`: it queues
  its answer behind writes it has already accepted). Nothing is assumed of peers, of output, or of
  the user. A viewer whose answer does not come is dropped by output; without output it would
  wait, which is why the assumption about the view is there.
* `agent_turns`: the session's thread runs, the provider and the tools return, the approval timer
  fires, and a `stop_session` that has begun ends (`WF(Thread)`, `WF(Timeout)`, `WF(StopRelease)`).
  Nobody has to answer an approval, and nothing has to be stopped.
* `agent_owner`: each handler thread runs (`WF(Handler(c) ...)`), which includes that it notices a
  lost connection: its blocking read returns. Clients and sessions owe nothing.

Weak fairness is enough everywhere: nothing that is enabled is disabled again by another thread
for ever, since requests, output, prompts and generations are bounded in the runs and each lock
holder releases.

## 6. What is proved

For every value of the constants, by TLAPS:

| Module | Theorem | Statement |
|---|---|---|
| `RuntimeLeaseProofs` | `TypeCorrect` | `Spec => []TypeOK` |
| | `OneLease` | `Spec => []SingleLease` |
| | `NoEarlyTakeover` | `Spec => LeaseTakenOnlyWhenExpired` |
| | `WritersHoldTheLease`, `ReportedOnce`, `NoForeignActiveRecord` | `WriterHoldsLease`, `InterruptedOnce`, `ActiveOwnedByLive`, under `TimelySpec` |
| | `ImplementsLedger` | `TimelySpec => LedgerSpec` |
| `ShareHubProofs` | `TypeCorrect` | `Spec => []TypeOK` |
| | `NobodyStranded` | `Spec => []NeverNeither` |
| | `GaplessHolds`, `NothingMissingHolds` | `Spec => []Gapless`, `Spec => []NothingMissing` |
| | `QueueBoundedHolds` | `Spec => []QueueBounded` |
| | `CountedHolds`, `CountNotStaleHolds` | `Spec => []Counted`, `Spec => []CountNotStale` |
| | `ImplementsViewerStream` | `Spec => StreamSpec` |
| `AgentSessionProofs` | `NothingRefusedRuns` | `Spec => []RefusedNeverRuns` |
| | `StopsEndTurns` | `Spec => []StopEndsTurn` |
| | `TypeCorrect` | `Spec => []TypeOK` |
| | `CallsGetResults` | `Spec => []CallsAnswered` |
| `TerminalRuntimeProofs` | `TypeCorrect` | `Spec => []TypeOK` |
| | `FramesCorrect` | `Spec => []FramesFollowReply` |
| | `LiveProcessCorrect` | `Spec => []LiveProcessListed` |
| | `StreamUpToDateCorrect` | `Spec => []StreamUpToDate` |
| | `ImplementsTerminalStream` | `Spec => StreamSpec` |
| | `ReattachAlone`, `RecordAlone`, `MutationsAlone` | `ReattachPossible`, `RecordTracksAttachment`, `StaleMutationsRefused`, if `Alone` |
| `AgentOwnershipProofs` | `TypeCorrect` | `Spec => []TypeOK` |
| | `OwnerServedCorrect` | `Spec => []OwnerServed` |
| `GuiTerminalProofs` | `TypeCorrect` | `Spec => []TypeOK` |
| | `DeliveredOnceCorrect` | `Spec => []DeliveredOnce` |
| | `RowsOfLivingCorrect` | `Spec => []RowsOfLiving` |
| | `SharesAreFedCorrect` | `Spec => []SharesAreFed` |
| `DurableStateProofs` | `TypeCorrect` | `Spec => []TypeOK`, if `~EarlyUi` |
| | `NewestIsKept` | `Spec => []NewestKept` |
| | `LoadsAreFresh` | `Spec => []LoadIsFresh` |
| | `CleanQuitsKeep` | `Spec => CleanQuitKeeps` |
| | `TabStatesKept` | `Spec => TabStateKept`, if `~EarlyUi` and `Archive \notin FlakyReads` |
| `TerminalPanesProofs` | `TypeCorrect` | `Spec => []TypeOK` |
| | `JumpsTakenBack` | `JumpsBack(tree, rects)` in every state, for every integer layout `rects` in which each pane has room |

`NoEarlyTakeover`, `QueueBoundedHolds` and `ShareHubProofs!TypeCorrect` are proved and therefore no
longer checked by a run.

Assumptions, all named in the modules: `StaleAfter` is positive, `NoHost` is no host; the set of
viewers is finite (a count of viewers has to be a number), the actors are distinct, `MaxPending`
is positive; of an agent session the number of prompts, of rounds, of starts and of messages a
fold keeps are positive (`BoundsAssumption`, used for the history only). `MaxTime` and
`MaxOut` of `ShareHub` are arbitrary. Of a terminal: its ring holds at least one chunk, there is
at least one generation, `Nobody` is no client. Of agent sessions' owners: the bounds are natural
numbers, `Nobody` is none of the actors. Of the GUI's terminals: the bounds are natural numbers and
a backlog holds at least one frame; threads, `share_start` futures, tabs and `Nothing` are distinct
things. Of the window: the tabs a first launch opens and archives
are tabs, the two other scopes are not, `Nothing` is no entry. Of panes: the tab's id is not given
out again, `Nobody` is no pane, and a split's id, a pair of panes, is neither (`PanesAssumption`);
how many panes there are is left open.

Three theorems about a terminal have the hypothesis `Alone` (one client, and a store that does not
fail), and two about the window that the user acts after recovery (`~EarlyUi`) and, for the sweep,
that the archive can be read. Without them the statements are false: section 4 has the
counterexamples, and with `EarlyUi` a tab can be open and closed at once.

*The lease.* `SingleLease` is not inductive: two claims that both read "no live host" would
break it. `LeaseInv` adds what the claim's snapshot guarantees: while the snapshot is current,
what `ClaimRead` saw still holds. The commit of the first claim invalidates the other's snapshot.
`TimelyInv` adds that clock samples lie within `StaleAfter` of `now` for live and opening
processes, so that a claim that passes means nobody is alive; from it follow one writer, settled
records of everybody else, and the step-by-step refinement of the ledger.

*The share.* `NeverNeither` speaks of the stopped share only; `Roles` says, in every state, where a
connection's task, its entry in the map and what it was sent can be together (whoever was let in
is in the map or was sent End; who is live was caught up; nobody is asked twice). `NothingMissing`
says nothing of a share that was unbound, and the refinement has to: a snapshot may arrive after
output stopped being buffered. `Gapless` therefore keeps, for a viewer whose snapshot is on its
way, that snapshot and buffer are a prefix of the output ending between its entry and now, and
exactly now while the share is bound. The lemmas on `Output`, append and concatenation carry the
arithmetic of sequences. `CountNotStale` speaks of the time when no announcement is under way, and
the number a joiner will be told waits in its buffer: `Counted` says that either somebody has yet
to announce, or what each viewer was told, or has last in its buffer, is the number of viewers.
Whoever changes the number is about to announce it, and whose announcement comes last does not
matter because the number is taken when it is sent. An earlier form of the property held only of
buffers that never fill; the attempt to prove it for all of them named what is excepted.

*The agent session.* That nothing refused runs is not inductive: an Allow on its way to the thread
has to belong to the call the thread is parked on. `GateInv` adds that the gate's map holds no
other call than that one, that an answered call has left the map, and that only known names get
as far as the gate. For the stop, `StopInv` follows the token through the turn: work begun after the
stop leaves the thread past every place that begins some, until the next prompt rearms the token;
a turn stopped at its tools is still there or has ended as cancelled.

`CallsAnswered` speaks of the moment a request is made; between two requests calls are open.
`HistoryInv` says what is open: a call's result either stands in its place behind the message
that asked for it, or that place is past the end of the conversation and the call is at the same
distance in the list the round still has to work off (`Owed`). Each result moves the boundary by
one. A fold keeps the first message and the latest ones; it cannot keep a call without its
results, because results follow their call and because the first message is a prompt
(`Grounded`), also in a conversation that was read back from the transcript: an entry is written
to an empty transcript only with the cursor at zero. Calls from before a restart are excepted in
`CallsAnswered`, because a crash may cut a round in the transcript; everything that is read back
is older than the restart.

*The terminal.* `LiveProcessListed` needs little more than what the waiter and a Terminate know of
the child (`Life`); the frames need more. `OneAttach` says that a generation granted to an attach
is the newest, that the session is reserved for it and that no second attach is past its begin;
`Sinks` and `Replies` say who may be sent frames and what has been answered. `Buffers` is what the
hand-over from replay to live output rests on: the ring, and while an attach is reserved the
replay and batch together, hold the most recent chunks up to the last one produced (`Latest`).
`Streams` concludes that the frames of a live generation end with the newest chunk, unless the
reader is about to send it, and this makes each step one of `TerminalStream` or a stutter. With
one client three more parts hold, because then nothing comes between check and effect of a
request: `Naming` (what a request names is the generation), `Reserving` (the reservation belongs
to the attach under way) and `Recording` (the record agrees with the sink, or the request that
will make it agree is under way).

*Agent ownership.* `OwnerServed` is about a connection at rest; the invariant follows the Start
that got it there. `Taking` says that a Start which attaches finds its session there until it owns it,
`Undisturbed` that what a client was given nobody else takes, closes or records afterwards (unless
they raced), `Generations` and `Newest` that generations grow along the record, and `Hands` and
`Events` that each event of the session has reached its client, but for the one its thread holds.
The attempt to prove that two clients never share a generation is what showed the overwritten
record with three connections; `raced` excepted too little before.

*The GUI's terminals.* Before a chunk can be counted, the types need a protocol: what is on the wire
and no event answers the pending request and is the only such frame (`Answered`), so backlogs and
the hands of the threads hold events only, and a command at a stage that expects an answer has one
of the kind it asked for (`Commanding`, `Answering`, `Handling`). `DeliveredOnce` then says where
chunks are: one that is under way is there once and was not taken before (`OnWire`); those the
reader has taken are each in one place, once (`Apiece`): in the reader's hand, among the frames
`flush_helper_backlog` has taken, in the backlog of the session or before a viewer; and nothing
that has been taken is in none of them, unless it was dropped where the code drops it
(`Accounted`). `Delivered` is the step from a hand to a view or a backlog, the same for both
threads; a backlog at its limit drops one frame, and what is kept of it is the subject of
`KeptFrames`.

`RowsOfLiving` is about the moment both threads rest; on the way there each removes rows in several
steps, in the middle of what the other does. The invariant (`RowsInv`) says of a session whose Exit
the reader works on or has done with (`Past`) that no command opens it any more (`Gone`): an Exit is
the last frame but output (`ExitLast`), and if it is heard while the session is being opened the
session is in `early`. It says what `tab_runtime_died` is at on each thread (`Removing`): the tab it
has looked up is the session's only one, has no source any more, and the command at work opens
another. A tab that is registered is the one the webview has the session in, and its frames come
here or it is being detached (`Rooms`), so a kill that fails because the session is gone leaves
nothing: its Exit came first (`Killing`). All that holds as long as no Exit was early (`Clean`).
The proof reduces each action to what it does to these variables (`Effects`); the steps are then
taken from there.

`SharesAreFed` says that the two looks `share_start` takes around its await are enough. The
invariant (`SharesInv`) follows each start and each share. A start holds its tab's reservation
alone (`Reserving`), and only it lists its share, binds it and inserts its row (`Listing`). The
source it has looked up is its tab's and its session's (`Sourced`), no bridge that is registered
later is taken for it (`Known`), and neither another start nor a share already started works with
it (`Alone`), so whoever unbinds that bridge means this share. The source stays bound until the
tab's runtime dies, and it has not died by the last check unless the share is in `raced`
(`Current`). A share that was started has its row, and a tab's source carries it or somebody is
on the way to stop it (`Fed`, `Doomed`): the thread that has taken the tab's source or row in
`tab_runtime_died`, or the main thread between the two halves of `term_share_stop`. That such a
sweep stops the share it means rests on the rows of `RowsInv`: one session to a tab, and the
source of a tab is its session's. What a step does to shares is in `ShareEffects`.

The first attempt failed, and with one session and two tabs TLC shows why. A start passes its last
check, its session is attached again in a second tab, and a start for that tab binds the new
bridge. The first start now inserts its row, which is stale, and a `share_stop` of the second tab
finds the session by that row and unbinds the second start's source. That start still passes its
check (the tab and the source are the same) and its share is listed with nothing that feeds it. The
webview never makes that call: `startShare` and `stopShare` of `src/share/framework/actions.ts`
look at the tab's share first, which a tab that is starting one does not have yet. The guard
`t \notin starting` of `ShareStop` now says so.

*Durable state.* For each scope, the newest of what is buffered, else last in the chain, else on
disk is `latest`, and versions grow from disk over chain to buffer (`Lines`, unless `spoilt`).
Whoever waits for the first n calls of a chain was promised what the n-th of them asked for
(`Promised`): that gives `LoadIsFresh` and `CleanQuitKeeps`, in any state of the user interface.
The sweep decides in one step what it deletes in another, so the invariant for `TabStateKept`
has to name everything that could make a tab reachable in between: the tabs that are open or
closed, that any version of the session record names (on disk, in flight or buffered), or that
are archived, are among those the sweep found alive or were touched since it began
(`SweepSpares`); what startup read is what the disk has (`Startup`); an unused tab has no state
(`GivenOut`); and nothing deletes the state of a recoverable tab, on disk or in flight
(`StateKept`).

*The panes.* `WellFormed` says that everything is below the root with the help of `Descendants`, a
recursive function, and an induction over trees cannot be given to TLAPS. The invariant (`TreeOK`)
says it of sets of nodes: a set that holds the root, and with a node its children, is all of the
tree (`Connected`); and every set of nodes has one with no child in the set, so that there is no
way down that does not end (`Grounded`). What is below a node is then the least set closed under
children that holds it (`Reach`), and `DescendantsReach` shows that this is what the recursion of
`Descendants` computes: if it were not at some node, then at one below which it is. The operations
reduce to three changes of shape: a node put in the place of another (`NestedTree`, when a pane
becomes a split of two; `GiveWayTree`, when a split of one gives way), and a child more or less in
one split (`BesideTree`, `ShrunkTree`). For each, a closed set of the new tree is carried to one of
the old, so that `Connected` and `Grounded` are kept, and each node remains one child of one split.
`SplitTree`, `RemoveTree`, `MovedTree`, `SnapshotTree` and `ReadTree` put these together; the last
shows that nothing is collapsed when a layout is read back that was saved. Focus follows from
what is chosen being a pane: the first of several leaves exists because reading order has no
cycle (`FirstBelow`), and `neighbor` and `paneTakingOver` choose a leaf or nobody (`BestIsLeaf`). When
one pane remains the root is a leaf, and there is no other (`LoneLeaf`).

`JumpsTakenBack` does not depend on where the rectangles are: touching and overlapping are
symmetric (`FacingBack`), the pane one came from therefore scores on the way back, and as no score
exceeds the size of the pane one is in, some score is the largest (`BestThere`). It has the
hypothesis that each pane has a width and a height in whole units. That the layout computed by
`layout` is of this kind is a part of `Tiled`, which `terminal_panes` checks.

Only model-checked: `ScreenFollowsTree` and `ResizeGrows`, for they speak of sums and products of
shares over splits of any depth, an induction over data that TLAPS cannot be given here, and
`ResizeGrows` is one of small layouts: among more than ten panes in a row a fair share
is below the least share, and a press then gives the focused pane less than it had, because the
upper bound of `resizePane` is applied last; the liveness properties `ExitReleasesRow`, `JoinerServed`,
`PromptsEnd` and `DetachedInTheEnd`, which are beyond its reach together with `ENABLED`; and the
violated properties, which are counterexamples. Every other property of a passing run is stated
by a theorem of section 6.

## 7. What is not modelled

* Helper endpoint and `ensure` (files, processes and a retry loop around connect), request
  timeouts of the Helper client, the idle exit of the listener.
* Agent provider and tools: HTTP, streaming decoders, tools over files and processes.
  `AgentSession` takes their outcomes as choices.
* App shares and the mirror, agent shares, viewer file streams, the remote viewer's reconnection:
  protocols of their own beside the terminal shares of `ShareHub`.
* Files, search and watching, browser, credentials, configuration, wire types: adapters, I/O,
  parsing and pure functions with one caller at a time.
* Groups of tabs, browsing of the archive, undo, and the views over the store.
* SQLite itself: `Commit` and `snapshot` state how its transactions behave, after the way the
  runtime store uses them (`BEGIN` deferred, WAL); `app.db` is atomic calls that may fail.
* A clock that is set back; back-pressure of sockets (`complete_attach` sends under the state
  mutex, so a client that does not read can block others); in `TerminalRuntime`, Exit frames and the
  order of exit and last output (`GuiTerminal` has them on the GUI's side).
* The content of output, messages, records and snapshots, and the limits of the snapshot's
  scrollback (1000 lines): "the output from its beginning" means the state that results from it.
