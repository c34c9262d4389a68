--------------------------- MODULE TerminalRuntime --------------------------
(***************************************************************************)
(* One terminal LiveProcess inside the Runtime Supervisor: HelperRuntime   *)
(* (crates/tabverse-term/src/backend.rs) with its replay ring (replay.rs), *)
(* the reader and waiter threads of the PTY engine (lib.rs) and the thread *)
(* that serves each client connection (helper.rs, dispatch).               *)
(*                                                                         *)
(* A step is what a thread does between two points at which another thread *)
(* may intervene: a lock taken or released, an atomic load or store, a     *)
(* frame sent, a record written.  `stateLock` and `lifecycle` are the two  *)
(* mutexes that are held across such points.                               *)
(*                                                                         *)
(* Abstractions: output is a sequence of numbered chunks and the ring      *)
(* keeps the last RingCap of them; a sink is named by the generation it    *)
(* tags its frames with, 0 for no sink; Resize is the same as Input; List, *)
(* which changes nothing, and the Exit frame are left out.                 *)
(***************************************************************************)
EXTENDS Naturals, Sequences

CONSTANTS
  Clients,       \* authenticated connections, one serving thread each
  MaxOut,        \* bound on the chunks the shell writes
  RingCap,       \* capacity of the replay ring, in chunks
  MaxGen,        \* bound on the generations granted
  StoreMayFail,  \* whether RuntimeStore::put may return an error
  Nobody         \* no client

ASSUME BoundsAssumption == MaxOut \in Nat /\ MaxGen \in Nat \ {0}
ASSUME RingAssumption == RingCap \in Nat \ {0}
ASSUME StoreAssumption == StoreMayFail \in BOOLEAN
ASSUME NobodyAssumption == Nobody \notin Clients

VARIABLES
  \* RuntimeState and RuntimeSession
  produced,    \* chunks read from the PTY so far
  ring,        \* replay.bytes
  reserved,    \* replay.attach is Some
  batch,       \* its snapshot followed by its delta
  sink,        \* the generation of the live sink, 0 for None
  exited,      \* state.exited is Some
  gen,         \* session.generation
  stateLock,   \* the client thread that holds the state mutex between steps
  \* HelperRuntime and the store
  listed,      \* the session is in `sessions`
  lifecycle,   \* the client thread that holds the lifecycle mutex
  record,      \* the row of runtime.db: state and generation
  \* PTY engine
  child,       \* "none", "running" or "dead"
  pty,         \* the engine still has the session's PTY handles
  reader, readerSink,     \* reader thread and the sink it cloned
  waiter, waiterRecord,   \* waiter thread and the record it loaded
  \* client threads
  pc, arg,     \* what the thread is doing, and with which generation
  up,          \* the peer still receives frames
  known,       \* the generations each client was told in a reply
  \* frames
  active, handoff,   \* the spawning client's switch and buffer
  grantee,     \* the client that each generation's frames go to
  seen        \* chunks sent in frames of each generation

replay == <<produced, ring, reserved, batch>>
session == <<replay, sink, exited, gen, stateLock>>
registry == <<listed, lifecycle, record>>
engine == <<child, pty>>
readerVars == <<reader, readerSink>>
waiterVars == <<waiter, waiterRecord>>
clients == <<pc, arg, up, known>>
spawning == <<active, handoff>>
egress == <<grantee, seen>>

threads == <<engine, readerVars, waiterVars>>
frames == <<spawning, egress>>

vars == <<session, registry, threads, clients, frames>>

Gens == 1 .. MaxGen
Chunks == 1 .. MaxOut
NoRecord == [state |-> "none", gen |-> 0]
Records ==
  [state : {"none", "attached", "attaching", "detached", "stopped", "exited"},
   gen : 0 .. MaxGen]

Stages ==
  {"idle",
   "insert", "recheck", "firstRecord", "announce", "activate", "drain",
   "sinkCheck", "write",
   "clearSink", "bump", "recordDetached",
   "recordAttaching", "check", "deliver", "recordAttached",
   "unlist", "kill", "recordStopped", "sweep", "recordSwept"}

TypeOK ==
  /\ produced \in 0 .. MaxOut
  /\ ring \in Seq(Chunks) /\ batch \in Seq(Chunks) /\ handoff \in Seq(Chunks)
  /\ reserved \in BOOLEAN /\ exited \in BOOLEAN /\ listed \in BOOLEAN
  /\ pty \in BOOLEAN /\ active \in BOOLEAN
  /\ sink \in 0 .. MaxGen /\ readerSink \in 0 .. MaxGen /\ gen \in 0 .. MaxGen
  /\ stateLock \in Clients \union {Nobody}
  /\ lifecycle \in Clients \union {Nobody}
  /\ record \in Records /\ waiterRecord \in Records
  /\ child \in {"none", "running", "dead"}
  /\ reader \in {"read", "switch", "send", "stash"}
  /\ waiter \in {"wait", "unlist", "load", "store", "release", "done"}
  /\ pc \in [Clients -> Stages]
  /\ arg \in [Clients -> 0 .. MaxGen]
  /\ up \in [Clients -> BOOLEAN]
  /\ known \in [Clients -> SUBSET Gens]
  /\ grantee \in [Gens -> Clients \union {Nobody}]
  /\ seen \in [Gens -> Seq(Chunks)]

Init ==
  /\ produced = 0 /\ ring = <<>> /\ reserved = FALSE /\ batch = <<>>
  /\ sink = 0 /\ exited = FALSE /\ gen = 0 /\ stateLock = Nobody
  /\ listed = FALSE /\ lifecycle = Nobody /\ record = NoRecord
  /\ child = "none" /\ pty = FALSE
  /\ reader = "read" /\ readerSink = 0
  /\ waiter = "wait" /\ waiterRecord = NoRecord
  /\ pc = [c \in Clients |-> "idle"] /\ arg = [c \in Clients |-> 0]
  /\ up = [c \in Clients |-> TRUE] /\ known = [c \in Clients |-> {}]
  /\ active = FALSE /\ handoff = <<>>
  /\ grantee = [g \in Gens |-> Nobody] /\ seen = [g \in Gens |-> <<>>]

\* The client's thread goes on with its request, with generation g.
GotoWith(c, stage, g) ==
  /\ pc' = [pc EXCEPT ![c] = stage]
  /\ arg' = [arg EXCEPT ![c] = g]

\* The same generation, which is forgotten when the request is over.
Goto(c, stage) == GotoWith(c, stage, IF stage = "idle" THEN 0 ELSE arg[c])

\* A reply frame tells the client a generation, when it is still there.
Reply(c, g) ==
  /\ Goto(c, "idle")
  /\ known' = [known EXCEPT ![c] = IF up[c] THEN @ \union {g} ELSE @]

PutNext(state, g) == record' = [state |-> state, gen |-> g + 1]

\* RuntimeStore::put of the session's row.
Put(state, g) == record' = [state |-> state, gen |-> g]

\* Frames of generation g reach its client while it is up.
Send(g, chunks) ==
  seen' = [seen EXCEPT ![g] = IF up[grantee[g]] THEN @ \o chunks ELSE @]

-----------------------------------------------------------------------------
(* The PTY engine's threads and their callbacks. *)

KeepFirst(s) == IF Len(s) > RingCap THEN SubSeq(s, 1, RingCap) ELSE s

\* enforce_limits evicts the oldest chunks.
KeepLast(s) ==
  IF Len(s) > RingCap THEN SubSeq(s, Len(s) - RingCap + 1, Len(s)) ELSE s

PushWithoutDelta(chunk) ==
  /\ ring' = KeepLast(Append(ring, chunk))
  /\ UNCHANGED batch

\* ReplayRing::push: the ring, and the delta of an attach in progress.
Push(chunk) ==
  /\ ring' = KeepLast(Append(ring, chunk))
  /\ batch' = IF reserved THEN Append(batch, chunk) ELSE batch

\* One read from the PTY: under the state mutex the chunk enters the ring and
\* the sink is cloned.  What the child wrote before it died is still read.
ReaderRead ==
  /\ child # "none" /\ reader = "read" /\ stateLock = Nobody
  /\ produced < MaxOut
  /\ produced' = produced + 1
  /\ Push(produced')
  /\ readerSink' = sink
  /\ reader' = CASE sink = 0 -> "read" [] sink = 1 -> "switch"
                 [] OTHER -> "send"
  /\ UNCHANGED <<reserved, sink, exited, gen, stateLock, registry, engine,
                 waiterVars, clients, frames>>

ReaderUnswitched ==
  /\ reader = "switch"
  /\ reader' = "send"
  /\ UNCHANGED <<session, registry, engine, readerSink, waiterVars, clients,
                 frames>>

\* The sink of the spawning client first asks whether its frames may go out.
ReaderSwitch ==
  /\ reader = "switch"
  /\ reader' = IF active THEN "send" ELSE "stash"
  /\ UNCHANGED <<session, registry, engine, readerSink, waiterVars, clients,
                 frames>>

ReaderStash ==
  /\ reader = "stash"
  /\ handoff' = Append(handoff, produced)
  /\ reader' = "read" /\ readerSink' = 0
  /\ UNCHANGED <<session, registry, engine, waiterVars, clients, active,
                 egress>>

ReaderSend ==
  /\ reader = "send"
  /\ Send(readerSink, <<produced>>)
  /\ reader' = "read" /\ readerSink' = 0
  /\ UNCHANGED <<session, registry, engine, waiterVars, clients, spawning,
                 grantee>>

ChildExits ==
  /\ child = "running"
  /\ child' = "dead"
  /\ UNCHANGED <<session, registry, pty, readerVars, waiterVars, clients,
                 frames>>

\* child.wait() returned and on_exit marks the state.
WaiterExited ==
  /\ child = "dead" /\ waiter = "wait" /\ stateLock = Nobody
  /\ exited' = TRUE
  /\ waiter' = "unlist"
  /\ UNCHANGED <<replay, sink, gen, stateLock, registry, engine, readerVars,
                 waiterRecord, clients, frames>>

WaiterUnlist ==
  /\ waiter = "unlist"
  /\ listed' = FALSE
  /\ waiter' = "load"
  /\ UNCHANGED <<session, lifecycle, record, engine, readerVars, waiterRecord,
                 clients, frames>>

\* store.get, and store.put as a second statement.
WaiterLoad ==
  /\ waiter = "load"
  /\ waiterRecord' = record
  /\ waiter' = IF record = NoRecord THEN "release" ELSE "store"
  /\ UNCHANGED <<session, registry, engine, readerVars, clients, frames>>

WaiterStore ==
  /\ waiter = "store"
  /\ \/ Put("exited", waiterRecord.gen)
     \/ StoreMayFail /\ UNCHANGED record
  /\ waiter' = "release" /\ waiterRecord' = NoRecord
  /\ UNCHANGED <<session, listed, lifecycle, engine, readerVars, clients,
                 frames>>

\* The engine forgets the session's PTY handles.
WaiterRelease ==
  /\ waiter = "release"
  /\ pty' = FALSE
  /\ waiter' = "done"
  /\ UNCHANGED <<session, registry, child, readerVars, waiterRecord, clients,
                 frames>>

-----------------------------------------------------------------------------
(* Spawn: generation one, whose frames wait until the reply has been sent. *)

SpawnCreate(c) ==
  /\ pc[c] = "idle" /\ child = "none" /\ lifecycle = Nobody
  /\ lifecycle' = c
  /\ child' = "running" /\ pty' = TRUE
  /\ sink' = 1 /\ gen' = 1
  /\ grantee' = [grantee EXCEPT ![1] = c]
  /\ Goto(c, "insert")
  /\ UNCHANGED <<replay, exited, stateLock, listed, record, readerVars,
                 waiterVars, up, known, spawning, seen>>

SpawnInsert(c) ==
  /\ pc[c] = "insert"
  /\ listed' = TRUE
  /\ Goto(c, "recheck")
  /\ UNCHANGED <<session, lifecycle, record, threads, up, known, frames>>

SpawnUnchecked(c) ==
  /\ pc[c] = "recheck" /\ stateLock = Nobody
  /\ Goto(c, "firstRecord")
  /\ UNCHANGED <<session, registry, threads, up, known, frames>>

\* A child that exited before the row was inserted is not listed again.
SpawnRecheck(c) ==
  /\ pc[c] = "recheck" /\ stateLock = Nobody
  /\ IF exited
     THEN listed' = FALSE /\ lifecycle' = Nobody /\ Goto(c, "announce")
     ELSE Goto(c, "firstRecord") /\ UNCHANGED <<listed, lifecycle>>
  /\ UNCHANGED <<session, record, threads, up, known, frames>>

\* When the record cannot be written the request fails, after the spawn.
SpawnRecord(c) ==
  /\ pc[c] = "firstRecord"
  /\ lifecycle' = Nobody
  /\ \/ Put("attached", 1) /\ Goto(c, "announce")
     \/ StoreMayFail /\ Goto(c, "idle") /\ UNCHANGED record
  /\ UNCHANGED <<session, listed, threads, up, known, frames>>

\* The Spawn reply; the handoff ends here when the client is gone.
SpawnAnnounce(c) ==
  /\ pc[c] = "announce"
  /\ IF up[c]
     THEN Goto(c, "activate") /\ known' = [known EXCEPT ![c] = @ \union {1}]
     ELSE Goto(c, "idle") /\ UNCHANGED known
  /\ UNCHANGED <<session, registry, threads, up, frames>>

SpawnActivate(c) ==
  /\ pc[c] = "activate"
  /\ active' = TRUE
  /\ Goto(c, "drain")
  /\ UNCHANGED <<session, registry, threads, up, known, handoff, egress>>

SpawnDrain(c) ==
  /\ pc[c] = "drain"
  /\ Send(1, handoff)
  /\ handoff' = <<>>
  /\ Goto(c, "idle")
  /\ UNCHANGED <<session, registry, threads, up, known, active, grantee>>

-----------------------------------------------------------------------------
(* Requests that name a generation: Input, Detach and Terminate. *)

AcceptsAny(g) == listed

\* session() finds the row and check_generation accepts the request.
Accepts(g) == listed /\ g = gen

\* A request carries a generation its client was told at some time, not
\* necessarily the last one: requests are pipelined.
Request(c, g, stage) ==
  /\ pc[c] = "idle" /\ g \in known[c]
  /\ Accepts(g)
  /\ GotoWith(c, stage, g)
  /\ UNCHANGED <<up, known>>

Input(c, g) ==
  /\ Request(c, g, "sinkCheck")
  /\ UNCHANGED <<session, registry, threads, frames>>

InputSinkCheck(c) ==
  /\ pc[c] = "sinkCheck" /\ stateLock = Nobody
  /\ Goto(c, IF sink = 0 THEN "idle" ELSE "write")
  /\ UNCHANGED <<session, registry, threads, up, known, frames>>

InputWrite(c) ==
  /\ pc[c] = "write"
  /\ Goto(c, "idle")
  /\ UNCHANGED <<session, registry, threads, up, known, frames>>

Detach(c, g) ==
  /\ Request(c, g, "clearSink")
  /\ UNCHANGED <<session, registry, threads, frames>>

DetachClearSink(c) ==
  /\ pc[c] = "clearSink" /\ stateLock = Nobody
  /\ sink' = 0
  /\ Goto(c, "bump")
  /\ UNCHANGED <<replay, exited, gen, stateLock, registry, threads, up, known,
                 frames>>

\* What generation.fetch_add grants.
Granted(c) == gen + 1

NextGen(c, stage) ==
  /\ gen < MaxGen
  /\ gen' = Granted(c)
  /\ GotoWith(c, stage, Granted(c))

DetachBump(c) ==
  /\ pc[c] = "bump"
  /\ NextGen(c, "recordDetached")
  /\ UNCHANGED <<replay, sink, exited, stateLock, registry, threads, up, known,
                 frames>>

DetachRecord(c) ==
  /\ pc[c] = "recordDetached"
  /\ \/ Put("detached", arg[c]) /\ Reply(c, arg[c])
     \/ StoreMayFail /\ Goto(c, "idle") /\ UNCHANGED <<record, known>>
  /\ UNCHANGED <<session, listed, lifecycle, threads, up, frames>>

\* Terminate holds the lifecycle mutex until its last step.
Terminate(c, g) ==
  /\ lifecycle = Nobody
  /\ Request(c, g, "unlist")
  /\ lifecycle' = c
  /\ UNCHANGED <<session, listed, record, threads, frames>>

TerminateUnlist(c) ==
  /\ pc[c] = "unlist"
  /\ listed' = FALSE
  /\ Goto(c, "kill")
  /\ UNCHANGED <<session, lifecycle, record, threads, up, known, frames>>

TerminateKillCurrent(c) ==
  /\ pc[c] = "kill"
  /\ IF arg[c] = gen /\ pty
     THEN /\ child' = "dead" /\ pty' = FALSE
          /\ Goto(c, "recordStopped") /\ UNCHANGED lifecycle
     ELSE /\ Goto(c, "idle") /\ lifecycle' = Nobody
          /\ UNCHANGED engine
  /\ UNCHANGED <<session, listed, record, readerVars, waiterVars, up, known,
                 frames>>

\* terms.kill fails when the waiter has already released the handles.
TerminateKill(c) ==
  /\ pc[c] = "kill"
  /\ IF pty
     THEN /\ child' = "dead" /\ pty' = FALSE
          /\ Goto(c, "recordStopped") /\ UNCHANGED lifecycle
     ELSE /\ Goto(c, "idle") /\ lifecycle' = Nobody
          /\ UNCHANGED engine
  /\ UNCHANGED <<session, listed, record, readerVars, waiterVars, up, known,
                 frames>>

TerminateRecord(c) ==
  /\ pc[c] = "recordStopped"
  /\ Put("stopped", arg[c]) \/ (StoreMayFail /\ UNCHANGED record)
  /\ lifecycle' = Nobody
  /\ Goto(c, "idle")
  /\ UNCHANGED <<session, listed, threads, up, known, frames>>

\* KillAll drains the map, asks for no generation and ignores every error.
KillAll(c) ==
  /\ pc[c] = "idle" /\ listed /\ lifecycle = Nobody
  /\ lifecycle' = c
  /\ listed' = FALSE
  /\ Goto(c, "sweep")
  /\ UNCHANGED <<session, record, threads, up, known, frames>>

SweepKill(c) ==
  /\ pc[c] = "sweep"
  /\ child' = IF pty THEN "dead" ELSE child
  /\ pty' = FALSE
  /\ Goto(c, "recordSwept")
  /\ UNCHANGED <<session, registry, readerVars, waiterVars, up, known, frames>>

SweepRecord(c) ==
  /\ pc[c] = "recordSwept"
  /\ Put("stopped", gen) \/ (StoreMayFail /\ UNCHANGED record)
  /\ lifecycle' = Nobody
  /\ Goto(c, "idle")
  /\ UNCHANGED <<session, listed, threads, up, known, frames>>

-----------------------------------------------------------------------------
(* Attach: a new generation, a frozen replay, then the live sink. *)

\* ReplayRing::begin_attach fails while another attach is in progress.
Reserve ==
  /\ ~reserved
  /\ reserved' = TRUE
  /\ batch' = ring

\* begin_attach: the replay is reserved before the generation advances, so a
\* second attach fails without a trace.
AttachBegin(c) ==
  /\ pc[c] = "idle" /\ listed /\ stateLock = Nobody
  /\ Reserve
  /\ sink' = 0
  /\ NextGen(c, "recordAttaching")
  /\ stateLock' = c
  /\ UNCHANGED <<produced, ring, exited, registry, threads, up, known, frames>>

AttachRecord(c) ==
  /\ pc[c] = "recordAttaching"
  /\ stateLock' = Nobody
  /\ \/ Put("attaching", arg[c]) /\ Goto(c, "check")
     \/ StoreMayFail /\ Goto(c, "idle") /\ UNCHANGED record
  /\ UNCHANGED <<replay, sink, exited, gen, listed, lifecycle, threads, up,
                 known, frames>>

\* complete_attach looks the session up again and checks the generation
\* before it takes the state mutex.
AttachCheck(c) ==
  /\ pc[c] = "check"
  /\ Goto(c, IF Accepts(arg[c]) THEN "deliver" ELSE "idle")
  /\ UNCHANGED <<session, registry, threads, up, known, frames>>

FinishIfDelivered(c) ==
  /\ reserved' = ~up[c]
  /\ batch' = IF up[c] THEN <<>> ELSE batch

\* ReplayRing::finish_attach comes before the frames are sent.
Finish(c) ==
  /\ reserved' = FALSE
  /\ batch' = <<>>

\* finish_attach, then the Snapshot and delta frames; when they cannot be sent
\* no sink is installed.
AttachDeliver(c) ==
  /\ pc[c] = "deliver" /\ stateLock = Nobody
  /\ Finish(c)
  /\ IF up[c]
     THEN /\ seen' = [seen EXCEPT ![arg[c]] = batch]
          /\ grantee' = [grantee EXCEPT ![arg[c]] = c]
          /\ known' = [known EXCEPT ![c] = @ \union {arg[c]}]
          /\ sink' = arg[c]
          /\ stateLock' = c
          /\ Goto(c, "recordAttached")
     ELSE /\ Goto(c, "idle")
          /\ UNCHANGED <<sink, stateLock, known, egress>>
  /\ UNCHANGED <<produced, ring, exited, gen, registry, threads, up, spawning>>

AttachUnrecorded(c) ==
  /\ pc[c] = "recordAttached"
  /\ stateLock' = Nobody
  /\ Goto(c, "idle")
  /\ UNCHANGED <<replay, sink, exited, gen, registry, threads, up, known,
                 frames>>

\* When the record cannot be written the sink stays installed.
AttachFinish(c) ==
  /\ pc[c] = "recordAttached"
  /\ Put("attached", arg[c]) \/ (StoreMayFail /\ UNCHANGED record)
  /\ stateLock' = Nobody
  /\ Goto(c, "idle")
  /\ UNCHANGED <<replay, sink, exited, gen, listed, lifecycle, threads, up,
                 known, frames>>

\* The peer closes its connection; requests it already sent are still served.
Disconnect(c) ==
  /\ up[c]
  /\ up' = [up EXCEPT ![c] = FALSE]
  /\ UNCHANGED <<session, registry, threads, pc, arg, known, frames>>

-----------------------------------------------------------------------------
ReaderStep == ReaderRead \/ ReaderSwitch \/ ReaderStash \/ ReaderSend

WaiterStep ==
  WaiterExited \/ WaiterUnlist \/ WaiterLoad \/ WaiterStore \/ WaiterRelease

\* The next step of a request in progress.
Serve(c) ==
  \/ SpawnInsert(c) \/ SpawnRecheck(c) \/ SpawnRecord(c)
  \/ SpawnAnnounce(c) \/ SpawnActivate(c) \/ SpawnDrain(c)
  \/ InputSinkCheck(c) \/ InputWrite(c)
  \/ DetachClearSink(c) \/ DetachBump(c) \/ DetachRecord(c)
  \/ TerminateUnlist(c) \/ TerminateKill(c) \/ TerminateRecord(c)
  \/ SweepKill(c) \/ SweepRecord(c)
  \/ AttachRecord(c) \/ AttachCheck(c) \/ AttachDeliver(c) \/ AttachFinish(c)

Ask(c) ==
  \/ SpawnCreate(c) \/ AttachBegin(c) \/ KillAll(c)
  \/ \E g \in Gens : Input(c, g) \/ Detach(c, g) \/ Terminate(c, g)

Next ==
  \/ ReaderStep \/ ChildExits \/ WaiterStep
  \/ \E c \in Clients : Ask(c) \/ Serve(c) \/ Disconnect(c)

Spec == Init /\ [][Next]_vars

\* Threads that have work to do are scheduled.
FairSpec ==
  /\ Spec
  /\ WF_vars(WaiterStep)
  /\ \A c \in Clients : WF_vars(Serve(c))

-----------------------------------------------------------------------------
(* Properties for any number of clients. *)

\* The generations that an attach grants.
Stream == INSTANCE TerminalStream WITH
            Generations <- 2 .. MaxGen,
            opened <- {g \in 2 .. MaxGen : grantee[g] # Nobody},
            stream <- [g \in 2 .. MaxGen |-> seen[g]]
\* From generation two on, the frames of every generation carry the output as
\* TerminalStream says, whatever attaches, detaches, exits and disconnects
\* happen between the steps of the attach handoff.
StreamSpec == Stream!Spec

\* Once the live sink is installed its client is never behind: unless the
\* reader holds the newest chunk, the last frame carried it.
StreamUpToDate ==
  sink >= 2 /\ up[grantee[sink]] /\ reader = "read" =>
    IF produced = 0 THEN seen[sink] = <<>>
    ELSE seen[sink] # <<>> /\ seen[sink][Len(seen[sink])] = produced

\* Frames of a generation only follow the reply that tells its client the
\* session id and the generation, even what the shell writes while it is
\* being spawned.
FramesFollowReply ==
  \A g \in Gens : seen[g] # <<>> => g \in known[grantee[g]]

\* A running child is in the session map, where Terminate, KillAll and the idle
\* check of the Supervisor find it, or a thread is about to insert or kill it.
LiveProcessListed ==
  child = "running" =>
    listed \/ \E c \in Clients : pc[c] \in {"insert", "kill", "sweep"}

\* A shell that exits leaves the session map for good, even when it exits
\* before spawn has inserted it: it does not keep the Supervisor from idling.
ExitReleasesRow == child = "dead" ~> ~listed

-----------------------------------------------------------------------------
(* Properties that one client at a time can rely on.  Two clients break      *)
(* StaleMutationsRefused and ReattachPossible: a detach whose generation was *)
(* checked acts after another client's attach began.                         *)

Quiet == \A c \in Clients : pc[c] = "idle"

\* runtime-model.md: "the new client obtains a new generation; stale mutations
\* are refused".  What a request does, it does to the generation it names.
StaleMutationsRefused ==
  [][\A c \in Clients :
       \/ pc[c] = "write" /\ pc'[c] = "idle" /\ pty
       \/ pc[c] = "bump" /\ pc'[c] = "recordDetached"
       \/ pc[c] = "kill" /\ pc'[c] = "recordStopped"
       => arg[c] = gen]_vars

\* No attach leaves its reservation behind, which would make every later
\* attach to the running shell fail with AttachInProgress.
ReattachPossible == Quiet /\ child = "running" => ~reserved

\* Between requests the record of a running shell says whether it is attached
\* and with which generation, the one live output goes to.
RecordTracksAttachment ==
  Quiet /\ child = "running" =>
    /\ record.state = "attached" <=> sink # 0
    /\ record.gen = gen
    /\ sink \in {0, gen}

-----------------------------------------------------------------------------
(* What documents and comments say and the code does not do. *)

\* runtime-model.md: "Logical tab close: the LiveProcess is terminated
\* explicitly and recorded as stopped."
ClosedStaysStopped ==
  [][record.state = "stopped" => record'.state = "stopped"]_vars

\* backend.rs: frames include "output a shell may produce immediately after
\* spawn".  What the handoff buffered is sent by the time spawn is over.
NoOutputStranded ==
  Quiet /\ active /\ reader = "read" => handoff = <<>>
=============================================================================
