------------------------------ MODULE ShareHub ------------------------------
(***************************************************************************)
(* One shared terminal: the Share and the connection tasks of RemoteHub    *)
(* (crates/tabverse-remote/src/lib.rs), the ordered dispatch of            *)
(* SessionBridge (bridge.rs), and the local view that answers snapshot     *)
(* requests later, over another channel (share_commands.rs).               *)
(*                                                                         *)
(* A step is what one task does while it holds the viewers lock, the       *)
(* `inner` lock of the bridge, or neither.  The bridge lock is held across *)
(* steps only while a broadcast that dropped a viewer tells the others, so *)
(* BridgeFree needs no variable.                                           *)
(*                                                                         *)
(* Abstractions: output is a sequence of numbered chunks and a snapshot is *)
(* the number of chunks the local view had processed at its marker.  What  *)
(* a viewer is sent is kept per kind: output, the last Presence count, and *)
(* whether End was sent.  Welcome, Mode, Pong and Resize, access levels,   *)
(* viewports and the protocol versions (terminal frames exist in all of    *)
(* them) are left out.                                                     *)
(***************************************************************************)
EXTENDS Naturals, Sequences, FiniteSets

CONSTANTS
  Viewers,      \* connections, each with the viewer id it would be given
  Dispatcher,   \* the thread that dispatches the session's output
  Host,         \* the thread that runs the host user's commands
  MaxOut,       \* bound on the chunks the shell writes
  MaxPending    \* MAX_PENDING_FRAMES

ASSUME BoundsAssumption == MaxOut \in Nat /\ MaxPending \in Nat \ {0}
ASSUME ActorsAssumption ==
  IsFiniteSet(Viewers) /\ Dispatcher \notin Viewers
  /\ Host \notin Viewers \union {Dispatcher}

VARIABLES
  \* SessionBridge
  bound,       \* `share` is Some
  produced,    \* chunks dispatched so far
  \* RemoteHub and Share
  registered,  \* the share is in hub.shares
  stopped,     \* Share.stopped
  mode,        \* the viewer's state in `viewers`, "out" when it is not there
  queued,      \* the output frames buffered for it
  notices,     \* the number of Presence frames buffered for it
  notice,      \* the count the last of these carries
  \* the local view
  asked,       \* viewers with a snapshot request that is not answered
  marker,      \* the stream position at which the request entered
  shown,       \* the roster the host's UI was last given
  \* tasks
  pc, roster,  \* what each task does, and the roster it computed
  \* what the viewers' channels were sent
  since,       \* where the output was when the viewer came in
  seen,        \* output, the snapshot's included
  caught,      \* viewers that were sent their snapshot
  told,        \* the count in the last Presence frame, 0 for none
  skipped,     \* viewers with a full buffer when the others were last told
  ended        \* viewers that were sent End

bridgeVars == <<bound, produced>>
buffers == <<queued, notices, notice>>
share == <<registered, stopped, mode, buffers>>
localView == <<asked, marker, shown>>
tasks == <<pc, roster>>
wire == <<since, seen, caught, told, skipped, ended>>

vars == <<bridgeVars, share, localView, tasks, wire>>

Actors == Viewers \union {Dispatcher, Host}
Outputs == Seq(1 .. MaxOut)
Counts == 0 .. Cardinality(Viewers)
Present == {v \in Viewers : mode[v] # "out"}
BridgeFree == pc[Dispatcher] = "idle"

Stages ==
  {"idle", "away", "found", "announce", "show", "ask", "reading",
   "farewell", "showFarewell", "gone"}

TypeOK ==
  /\ bound \in BOOLEAN /\ registered \in BOOLEAN /\ stopped \in BOOLEAN
  /\ produced \in 0 .. MaxOut
  /\ mode \in [Viewers -> {"out", "buffering", "live"}]
  /\ queued \in [Viewers -> Outputs]
  /\ notices \in [Viewers -> 0 .. MaxPending]
  /\ notice \in [Viewers -> Counts]
  /\ asked \subseteq Viewers /\ marker \in [Viewers -> 0 .. MaxOut]
  /\ shown \subseteq Viewers
  /\ pc \in [Actors -> Stages] /\ roster \in [Actors -> SUBSET Viewers]
  /\ since \in [Viewers -> 0 .. MaxOut]
  /\ seen \in [Viewers -> Outputs]
  /\ told \in [Viewers -> Counts]
  /\ caught \subseteq Viewers /\ ended \subseteq Viewers
  /\ skipped \subseteq Viewers

Init ==
  /\ bound = TRUE /\ registered = TRUE /\ stopped = FALSE
  /\ produced = 0
  /\ mode = [v \in Viewers |-> "out"]
  /\ queued = [v \in Viewers |-> <<>>]
  /\ notices = [v \in Viewers |-> 0] /\ notice = [v \in Viewers |-> 0]
  /\ asked = {} /\ marker = [v \in Viewers |-> 0] /\ shown = {}
  /\ pc = [a \in Actors |-> IF a \in Viewers THEN "away" ELSE "idle"]
  /\ roster = [a \in Actors |-> {}]
  /\ since = [v \in Viewers |-> 0] /\ seen = [v \in Viewers |-> <<>>]
  /\ told = [v \in Viewers |-> 0] /\ caught = {} /\ ended = {} /\ skipped = {}

Goto(a, stage) == pc' = [pc EXCEPT ![a] = stage]

Frames(v) == Len(queued[v]) + notices[v]

\* The output from its beginning.
Output(n) == [i \in 1 .. n |-> i]

\* A buffer is dropped with its viewer.
EmptyBuffers(V) ==
  /\ queued' = [v \in Viewers |-> IF v \in V THEN <<>> ELSE queued[v]]
  /\ notices' = [v \in Viewers |-> IF v \in V THEN 0 ELSE notices[v]]
  /\ notice' = [v \in Viewers |-> IF v \in V THEN 0 ELSE notice[v]]

\* The viewers leave the map; their channels close once what was queued is out.
Remove(V) ==
  /\ mode' = [v \in Viewers |-> IF v \in V THEN "out" ELSE mode[v]]
  /\ EmptyBuffers(V)

-----------------------------------------------------------------------------
(* Who is here: Share::presence, in two steps. *)

\* Under the viewers lock the count goes to every viewer.  A buffer that is
\* full is skipped.
Tell ==
  LET n == Cardinality(Present)
      fits == {v \in Viewers : mode[v] = "buffering" /\ Frames(v) < MaxPending}
  IN /\ skipped' = {v \in Viewers : mode[v] = "buffering"} \ fits
     /\ told' = [v \in Viewers |-> IF mode[v] = "live" THEN n ELSE told[v]]
     /\ notices' = [v \in Viewers |->
                      IF v \in fits THEN notices[v] + 1 ELSE notices[v]]
     /\ notice' = [v \in Viewers |-> IF v \in fits THEN n ELSE notice[v]]

Announce(a) ==
  /\ pc[a] \in {"announce", "farewell"}
  /\ Tell
  /\ roster' = [roster EXCEPT ![a] = Present]
  /\ Goto(a, IF pc[a] = "announce" THEN "show" ELSE "showFarewell")
  /\ UNCHANGED <<bridgeVars, registered, stopped, mode, queued, localView,
                 since, seen, caught, ended>>

\* The callback runs after the lock is released.
Show(a) ==
  /\ pc[a] \in {"show", "showFarewell"}
  /\ shown' = roster[a]
  /\ roster' = [roster EXCEPT ![a] = {}]
  /\ Goto(a, IF a \notin Viewers THEN "idle"
             ELSE IF pc[a] = "show" THEN "ask" ELSE "gone")
  /\ UNCHANGED <<bridgeVars, share, asked, marker, wire>>

-----------------------------------------------------------------------------
(* A connection, from Hello to the end of its task: handle_incoming. *)

\* A Hello that names the share and its token in time finds it.
Lookup(v) ==
  /\ pc[v] = "away" /\ registered
  /\ Goto(v, "found")
  /\ UNCHANGED <<bridgeVars, share, localView, roster, wire>>

\* Unknown share, wrong token, expired ticket, or too old a protocol.
Refuse(v) ==
  /\ pc[v] = "away"
  /\ Goto(v, "gone")
  /\ UNCHANGED <<bridgeVars, share, localView, roster, wire>>

InsertUnchecked(v) ==
  /\ pc[v] = "found"
  /\ mode' = [mode EXCEPT ![v] = "buffering"]
  /\ since' = [since EXCEPT ![v] = produced]
  /\ Goto(v, "announce")
  /\ UNCHANGED <<bridgeVars, registered, stopped, buffers, localView, roster,
                 seen, caught, told, skipped, ended>>

\* Under the viewers lock, which end_all holds when it sets `stopped`.
Insert(v) ==
  /\ pc[v] = "found"
  /\ IF stopped
     THEN /\ ended' = ended \union {v}
          /\ Goto(v, "gone")
          /\ UNCHANGED <<mode, since>>
     ELSE /\ mode' = [mode EXCEPT ![v] = "buffering"]
          /\ since' = [since EXCEPT ![v] = produced]
          /\ Goto(v, "announce")
          /\ UNCHANGED ended
  /\ UNCHANGED <<bridgeVars, registered, stopped, buffers, localView, roster,
                 seen, caught, told, skipped>>

\* What is buffered from before the marker is in the snapshot.
BeginBufferingKeeps(v) == UNCHANGED buffers

\* Share::begin_buffering starts from an empty buffer.
BeginBuffering(v) == EmptyBuffers({v} \intersect Present)

\* inject_snapshot_request, under the bridge lock: output before the marker
\* is in the snapshot, output after it is in the buffer.  A viewer that is no
\* longer there is asked for all the same.
Ask(v) ==
  /\ pc[v] = "ask" /\ BridgeFree
  /\ IF bound
     THEN /\ IF mode[v] = "live" THEN UNCHANGED buffers ELSE BeginBuffering(v)
          /\ asked' = asked \union {v}
          /\ marker' = [marker EXCEPT ![v] = produced]
     ELSE UNCHANGED <<buffers, asked, marker>>
  /\ Goto(v, "reading")
  /\ UNCHANGED <<bridgeVars, registered, stopped, mode, shown, roster, wire>>

\* The reader's loop ends: the peer went away, or the viewer was removed and
\* the writer has finished.  Only a viewer that was still there is announced.
TaskEnds(v) ==
  /\ pc[v] = "reading"
  /\ Remove({v})
  /\ Goto(v, IF v \in Present THEN "farewell" ELSE "gone")
  /\ UNCHANGED <<bridgeVars, registered, stopped, localView, roster, wire>>

-----------------------------------------------------------------------------
(* Output and snapshots. *)

Behind(v) == mode[v] = "buffering" /\ Frames(v) >= MaxPending

\* The viewers that Share::broadcast drops.
Stalled == IF bound THEN {v \in Viewers : Behind(v)} ELSE {}

\* dispatch_data: the local view first, then every viewer, under the bridge
\* lock.  It is kept while the others are told that stalled viewers are gone.
DispatchData ==
  /\ BridgeFree /\ produced < MaxOut
  /\ produced' = produced + 1
  /\ seen' = [v \in Viewers |->
                IF bound /\ mode[v] = "live"
                THEN Append(seen[v], produced + 1) ELSE seen[v]]
  /\ queued' = [v \in Viewers |->
                  IF v \in Stalled THEN <<>>
                  ELSE IF bound /\ mode[v] = "buffering"
                  THEN Append(queued[v], produced + 1) ELSE queued[v]]
  /\ notices' = [v \in Viewers |-> IF v \in Stalled THEN 0 ELSE notices[v]]
  /\ notice' = [v \in Viewers |-> IF v \in Stalled THEN 0 ELSE notice[v]]
  /\ mode' = [v \in Viewers |-> IF v \in Stalled THEN "out" ELSE mode[v]]
  /\ ended' = ended \union Stalled
  /\ Goto(Dispatcher, IF Stalled = {} THEN "idle" ELSE "announce")
  /\ UNCHANGED <<bound, registered, stopped, localView, roster, since, caught,
                 told, skipped>>

CaughtBare(v) == Output(marker[v])

\* Snapshot, then everything that was buffered behind it.
Caught(v) == Output(marker[v]) \o queued[v]

\* share_snapshot and Share::snapshot_ready: the local view's answer arrives.
\* When the viewer is gone nothing happens.
SnapshotReady(v) ==
  /\ v \in asked
  /\ asked' = asked \ {v}
  /\ IF v \in Present
     THEN /\ seen' = [seen EXCEPT ![v] = Caught(v)]
          /\ told' = [told EXCEPT ![v] = IF notices[v] > 0 THEN notice[v] ELSE @]
          /\ mode' = [mode EXCEPT ![v] = "live"]
          /\ caught' = caught \union {v}
          /\ EmptyBuffers({v})
     ELSE UNCHANGED <<seen, caught, told, mode, buffers>>
  /\ UNCHANGED <<bridgeVars, registered, stopped, marker, shown, tasks, since,
                 skipped, ended>>

\* The share is no longer in hub.shares when the answer looks it up.
SnapshotUnknown(v) ==
  /\ v \in asked /\ ~registered
  /\ asked' = asked \ {v}
  /\ UNCHANGED <<bridgeVars, share, marker, shown, tasks, wire>>

-----------------------------------------------------------------------------
(* The host removes a viewer, or the share ends. *)

KickSilently(v) ==
  /\ pc[Host] = "idle" /\ ~stopped /\ v \in Present
  /\ Remove({v})
  /\ ended' = ended \union {v}
  /\ UNCHANGED <<bridgeVars, registered, stopped, localView, tasks, since,
                 seen, caught, told, skipped>>

\* share_kick; the share was found in hub.shares before.
Kick(v) ==
  /\ pc[Host] = "idle" /\ ~stopped /\ v \in Present
  /\ Remove({v})
  /\ ended' = ended \union {v}
  /\ Goto(Host, "announce")
  /\ UNCHANGED <<bridgeVars, registered, stopped, localView, roster, since,
                 seen, caught, told, skipped>>

\* The stop command unbinds the source; on exit dispatch_exit takes the share.
Unbind ==
  /\ bound /\ BridgeFree
  /\ bound' = FALSE
  /\ UNCHANGED <<produced, share, localView, tasks, wire>>

\* RemoteHub::share_stop.
Unregister ==
  /\ ~bound /\ registered
  /\ registered' = FALSE
  /\ UNCHANGED <<bridgeVars, stopped, mode, buffers, localView, tasks, wire>>

EndLive ==
  /\ ~registered /\ ~stopped
  /\ stopped' = TRUE
  /\ ended' = ended \union {v \in Viewers : mode[v] = "live"}
  /\ Remove(Present)
  /\ UNCHANGED <<bridgeVars, registered, localView, tasks, since, seen, caught,
                 told, skipped>>

\* Share::end_all, under the viewers lock.
EndAll ==
  /\ ~registered /\ ~stopped
  /\ stopped' = TRUE
  /\ ended' = ended \union Present
  /\ Remove(Present)
  /\ UNCHANGED <<bridgeVars, registered, localView, tasks, since, seen, caught,
                 told, skipped>>

-----------------------------------------------------------------------------
\* What a connection's task does next without its peer.
TaskStep(v) ==
  \/ Insert(v) \/ Announce(v) \/ Show(v) \/ Ask(v)
  \/ TaskEnds(v) /\ v \notin Present

AnswerStep(v) == SnapshotReady(v) \/ SnapshotUnknown(v)

CommandStep(a) == Announce(a) \/ Show(a)

Next ==
  \/ \E v \in Viewers : Lookup(v) \/ Refuse(v) \/ TaskStep(v) \/ TaskEnds(v)
  \/ \E v \in Viewers : AnswerStep(v) \/ Kick(v)
  \/ \E a \in {Dispatcher, Host} : CommandStep(a)
  \/ DispatchData
  \/ Unbind \/ Unregister \/ EndAll

Spec == Init /\ [][Next]_vars

\* Runnable tasks and threads run, the local view answers what it is asked,
\* and a share that is being stopped is stopped.
FairSpec ==
  /\ Spec
  /\ \A v \in Viewers : WF_vars(TaskStep(v)) /\ WF_vars(AnswerStep(v))
  /\ \A a \in {Dispatcher, Host} : WF_vars(CommandStep(a))
  /\ WF_vars(Unregister) /\ WF_vars(EndAll)

-----------------------------------------------------------------------------
(* Properties, for any number of viewers. *)

\* A viewer follows the share once it is caught up, until it was sent an End.
Stream == INSTANCE ViewerStream WITH
            following <- caught, stream <- seen, cut <- ended
\* lib.rs: "`snapshot + buffered output` reproduces the byte stream with no gap
\* and no duplication", and no output follows an End.
StreamSpec == Stream!Spec

\* While the share is bound a live viewer has all the output there is, and one
\* whose snapshot is on its way will have it: nothing was broadcast past it
\* between the marker, the buffer and the flush.
NothingMissing ==
  bound =>
    \A v \in Viewers :
      /\ mode[v] = "live" => seen[v] = Output(produced)
      /\ mode[v] = "buffering" /\ v \in asked =>
           Caught(v) = Output(produced)

\* lib.rs, of a viewer that races the end of the share: it "either landed in
\* the map above (and received End) or observes `stopped` and bails, never
\* neither".  No connection is left open without an End.
NeverNeither ==
  stopped =>
    /\ Present = {}
    /\ \A v \in Viewers :
         pc[v] \in {"announce", "show", "ask", "reading"} => v \in ended

\* A viewer that does not catch up costs a bounded queue, however much output
\* and however many announcements pass it.
QueueBounded == \A v \in Viewers : Frames(v) <= MaxPending

\* No announcement is under way.
Settled ==
  \A a \in Actors : pc[a] \in {"idle", "away", "found", "reading", "gone"}

\* Once a live viewer was told how many viewers there are it is not left with
\* an old number, in whatever order joins, kicks and departures are announced.
\* lib.rs, of a buffer that is full: "a skipped update is superseded by the
\* next one"; only what the last announcement skipped is still missing.
CountNotStale ==
  Settled /\ ~stopped =>
    \A v \in Viewers \ skipped :
      mode[v] = "live" => told[v] \in {0, Cardinality(Present)}

\* A connection that found the share gets its snapshot or an End, or ends: the
\* buffer is not a place to be stranded in.
JoinerServed ==
  \A v \in Viewers :
    pc[v] = "found" ~> v \in caught \union ended \/ pc[v] = "gone"

-----------------------------------------------------------------------------
(* What a comment says and the code does not do.  lib.rs, Share::presence:   *)
(* "the local callback and remote viewers can never disagree on who is       *)
(* connected".                                                               *)

\* When all announcements are done the host's UI shows who is connected.
RosterShown == Settled /\ ~stopped => shown = Present

\* When all announcements are done every live viewer was told their number.
CountTold ==
  Settled /\ ~stopped =>
    \A v \in Viewers : mode[v] = "live" => told[v] = Cardinality(Present)
=============================================================================
