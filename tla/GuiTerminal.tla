----------------------------- MODULE GuiTerminal -----------------------------
(***************************************************************************)
(* The GUI's end of terminal runtimes: HelperClient with its reader thread *)
(* and one pending request, the term_* commands on the main thread with    *)
(* their bridges, backlog and generations, and the glue that shares a tab: *)
(* share_start futures beside both.  What the Supervisor sends is modelled *)
(* from TerminalRuntime, what the webview calls from its terminal handle.  *)
(* A bridge is named by its session and by which opening of it made it.    *)
(***************************************************************************)
EXTENDS Naturals, Sequences, SequencesExt, FiniteSets, Functions

CONSTANTS
  Sessions,   \* terminal sessions the Supervisor may create
  Tabs,       \* tabs they are shown in
  Sharers,    \* share_start calls, each of which makes one share
  MaxOut,     \* bound: chunks of output printed
  MaxOpens,   \* bound: times a terminal is opened (created or attached)
  MaxBacklog, \* HELPER_BACKLOG_MAX_FRAMES
  Nothing     \* absence, in a map or of a frame

ASSUME BoundsAssumption == {MaxOut, MaxOpens, MaxBacklog} \subseteq Nat /\ MaxBacklog > 0

VARIABLES
  run,      \* the shell of a session: none, live, dying, ended
  sink,     \* sessions whose output the Supervisor sends here
  out,      \* chunks each session has printed
  wire,     \* frames under way to the reader thread
  pc,       \* where the main thread, the reader and each share_start are
  cmd,      \* the command on the main thread
  pending,  \* HelperClient.pending
  answer,   \* what the reader answered the request with
  hand,     \* the frame in the callback and the bridge found for it
  flushed,  \* frames flush_helper_backlog has taken and not delivered
  dying,    \* tab and session tab_runtime_died works on, per thread
  bridges,  \* AppState.bridges
  backlog,  \* AppState.helper_backlog
  gens,     \* sessions in AppState.helper_generations
  tabOf,    \* ShareGlue.session_tabs
  source,   \* SourceRegistry: the bridge behind a tab's source
  rows,     \* ShareGlue.share_sessions
  starting, \* ShareGlue.starting_tabs
  hub,      \* live shares
  bound,    \* the bridge that carries each share
  task,     \* what each share_start holds
  ui,       \* the webview's handle: a tab, background or none
  opens,    \* bridges made for each session
  view,     \* what the webview got, by bridge
  got,      \* history: output the reader handed to the callback
  lost,     \* history: output dropped with a backlog
  early,    \* history: sessions with frames handled while they were opened
  exited,   \* history: sessions whose Exit was handled
  raced     \* history: shares whose tab died between last check and insertion

helperVars == <<run, sink, out>>
clientVars == <<pending, answer>>
viewVars == <<ui, opens, view>>
routeVars == <<bridges, backlog, gens>>
glueVars == <<tabOf, source, rows, hub, bound>>
startVars == <<starting, task>>
histVars == <<got, lost, early, exited, raced>>
localVars == <<cmd, hand, flushed, dying>>
vars == <<helperVars, clientVars, wire, viewVars, routeVars, glueVars, startVars,
          histVars, localVars, pc>>

Threads == {"main", "reader"}
Bridges == Sessions \X Nat
Frame(kind, s, n) == [kind |-> kind, sess |-> s, n |-> n]
OutputOf(s, n) == Frame("output", s, n)

Replies == {"spawn", "snapshot", "detach", "terminate", "kill_all"}
Frames == [kind : Replies \cup {"output", "exit", "error"}, sess : Sessions \cup {Nothing}, n : Nat]
Requests == [kind : Replies, sess : Sessions \cup {Nothing}]
Commands ==
  [op : {"create", "attach", "detach", "kill", "kill_all", "share_stop"},
   sess : Sessions \cup {Nothing}, tab : Tabs \cup {Nothing}]

ASSUME ActorsAssumption ==
  /\ Threads \cap Sharers = {}
  /\ {"none", "background"} \cap Tabs = {}
  /\ Nothing \notin Sessions \cup Tabs \cup Sharers \cup Bridges
  /\ Nothing \notin Frames \cup Requests \cup Commands
  /\ Nothing \notin [frame : Frames, to : Nat]
  /\ Nothing \notin [tab : Tabs, src : Bridges, sess : Sessions]

Init ==
  /\ run = [s \in Sessions |-> "none"] /\ sink = {} /\ out = [s \in Sessions |-> 0]
  /\ wire = <<>> /\ pending = Nothing /\ answer = Nothing
  /\ pc = [a \in Threads \cup Sharers |-> "idle"]
  /\ cmd = Nothing /\ hand = Nothing /\ flushed = <<>>
  /\ dying = [a \in Threads |-> [tab |-> Nothing, sess |-> Nothing]]
  /\ bridges = [s \in Sessions |-> 0] /\ backlog = [s \in Sessions |-> <<>>] /\ gens = {}
  /\ tabOf = [s \in Sessions |-> Nothing] /\ source = [t \in Tabs |-> Nothing]
  /\ rows = {} /\ starting = {} /\ hub = {}
  /\ bound = [p \in Sharers |-> Nothing] /\ task = [p \in Sharers |-> Nothing]
  /\ ui = [s \in Sessions |-> "none"] /\ opens = [s \in Sessions |-> 0]
  /\ view = [s \in Sessions |-> <<>>]
  /\ got = {} /\ lost = {} /\ early = {} /\ exited = {} /\ raced = {}

Goto(a, l) == pc' = [pc EXCEPT ![a] = l]

----------------------------------------------------------------------------
(* The Supervisor.                                                         *)

Sent(frame) == wire' = Append(wire, frame)

\* Serving a request does not depend on the GUI: it is part of the call
Served(kind, s) ==
  \/ /\ kind = "spawn"
     /\ \E new \in Sessions :
          /\ run[new] = "none"
          /\ run' = [run EXCEPT ![new] = "live"] /\ sink' = sink \cup {new}
          /\ Sent(Frame("spawn", new, 0))
  \/ /\ kind = "attach" /\ run[s] = "live"
     /\ Sent(Frame("snapshot", s, out[s]))
     /\ sink' = sink \cup {s} /\ UNCHANGED run
  \/ /\ kind = "detach" /\ run[s] = "live"
     /\ Sent(Frame(kind, s, 0)) /\ sink' = sink \ {s} /\ UNCHANGED run
  \/ /\ kind = "terminate" /\ run[s] # "ended"
     /\ Sent(Frame(kind, s, 0))
     /\ run' = [run EXCEPT ![s] = "dying"] /\ UNCHANGED sink
  \/ /\ kind = "kill_all"
     /\ Sent(Frame(kind, s, 0)) /\ UNCHANGED sink
     /\ run' = [x \in Sessions |-> IF run[x] = "live" THEN "dying" ELSE run[x]]
  \/ /\ \/ kind \in {"attach", "detach"} /\ run[s] # "live"
        \/ kind = "terminate" /\ run[s] = "ended"
     /\ Sent(Frame("error", s, 0)) /\ UNCHANGED <<run, sink>>

\* The reader of a shell's output may still be at it when the shell has ended.
\* What a detached session prints is in its next replay.
MayPrint == FoldFunction(+, 0, out) < MaxOut

HelperOutputs(s) ==
  /\ run[s] # "none" /\ MayPrint
  /\ out' = [out EXCEPT ![s] = @ + 1]
  /\ s \in sink /\ Sent(OutputOf(s, out[s] + 1))
  /\ UNCHANGED <<run, sink, clientVars, viewVars, routeVars, glueVars, startVars,
                 histVars, localVars, pc>>

HelperExits(s) ==
  /\ run[s] \in {"live", "dying"} /\ run' = [run EXCEPT ![s] = "ended"]
  /\ IF s \in sink THEN Sent(Frame("exit", s, 0)) ELSE UNCHANGED wire
  /\ UNCHANGED <<sink, out, clientVars, viewVars, routeVars, glueVars, startVars,
                 histVars, localVars, pc>>

----------------------------------------------------------------------------
(* Delivering a frame: deliver_helper_frame and SessionBridge's dispatch.  *)

\* The backlog gives up its oldest frames first, and an Exit last
DropFirst(frames) ==
  LET loose == {i \in DOMAIN frames : frames[i].kind # "exit"}
      at == IF loose = {} THEN 1 ELSE CHOOSE i \in loose : \A j \in loose : i <= j
  IN  RemoveAt(frames, at)

KeptUnbounded(frames) == frames

Kept(frames) == IF Len(frames) > MaxBacklog THEN DropFirst(frames) ELSE frames

OutputsIn(frames) ==
  {<<f.sess, f.n>> : f \in {x \in Range(frames) : x.kind = "output"}}

Held == {"output", "snapshot", "exit"}

Push(f) ==
  /\ IF f.kind \in Held
     THEN LET all == Append(backlog[f.sess], f)
          IN  /\ backlog' = [backlog EXCEPT ![f.sess] = Kept(all)]
              /\ lost' = lost \cup (OutputsIn(all) \ OutputsIn(Kept(all)))
     ELSE UNCHANGED <<backlog, lost>>
  /\ UNCHANGED <<view, hub, bound>>

Unbound(b) == [p \in Sharers |-> IF bound[p] = b THEN Nothing ELSE bound[p]]

\* An Exit stops the share the bridge carries, under the bridge's lock
Dispatch(f, k) ==
  /\ view' = [view EXCEPT ![f.sess] = Append(@, [to |-> k, kind |-> f.kind, n |-> f.n])]
  /\ IF f.kind = "exit"
     THEN /\ hub' = hub \ {p \in Sharers : bound[p] = <<f.sess, k>>}
          /\ bound' = Unbound(<<f.sess, k>>)
     ELSE UNCHANGED <<hub, bound>>
  /\ UNCHANGED <<backlog, lost>>

Deliver(f, k) ==
  IF k = 0 THEN Push(f)
  ELSE IF f.kind \in Held THEN Dispatch(f, k)
  ELSE UNCHANGED <<view, hub, bound, backlog, lost>>

----------------------------------------------------------------------------
(* tab_runtime_died, on either thread: the source goes first, then a row   *)
(* that names the tab, then the shares of that row's session.              *)

Die(a, t) == dying' = [dying EXCEPT ![a] = [tab |-> t, sess |-> Nothing]]
Rest(a) == Die(a, Nothing)

DiedUnbinds(a, s, next) ==
  LET t == tabOf[s]
  IN  /\ IF t = Nothing
         THEN Goto(a, next) /\ UNCHANGED <<dying, bound>>
         ELSE /\ bound' = IF source[t] = Nothing THEN bound ELSE Unbound(source[t])
              /\ Die(a, t) /\ Goto(a, "died")
      /\ UNCHANGED <<helperVars, clientVars, wire, viewVars, routeVars, tabOf, source, rows,
                     hub, startVars, histVars, cmd, hand, flushed>>

\* Nothing happens to a session that has no tab
Died(a, s, next) ==
  LET t == tabOf[s]
  IN  /\ IF t = Nothing
         THEN Goto(a, next) /\ UNCHANGED <<dying, bound, source, raced>>
         ELSE /\ bound' = IF source[t] = Nothing THEN bound ELSE Unbound(source[t])
              /\ source' = [source EXCEPT ![t] = Nothing]
              /\ raced' = raced \cup {p \in Sharers : pc[p] = "checked" /\ task[p].tab = t}
              /\ Die(a, t) /\ Goto(a, "died")
      /\ UNCHANGED <<helperVars, clientVars, wire, viewVars, routeVars, tabOf, rows, hub,
                     startVars, got, lost, early, exited, cmd, hand, flushed>>

DiedRow(a, next) ==
  LET t == dying[a].tab
      named == {s \in Sessions : tabOf[s] = t}
  IN  /\ IF named = {}
         THEN Goto(a, next) /\ Rest(a) /\ UNCHANGED tabOf
         ELSE \E s \in named :
                /\ tabOf' = [tabOf EXCEPT ![s] = Nothing]
                /\ dying' = [dying EXCEPT ![a].sess = s]
                /\ Goto(a, "died_row")
      /\ UNCHANGED <<helperVars, clientVars, wire, viewVars, routeVars, source, rows, hub,
                     bound, startVars, histVars, cmd, hand, flushed>>

StopSharesOf(s) ==
  LET stale == {r \in rows : r[2] = s}
  IN  /\ rows' = rows \ stale
      /\ hub' = hub \ {r[1] : r \in stale}

DiedShares(a, next) ==
  /\ StopSharesOf(dying[a].sess)
  /\ Goto(a, next) /\ Rest(a)
  /\ UNCHANGED <<helperVars, clientVars, wire, viewVars, routeVars, tabOf, source, bound,
                 startVars, histVars, cmd, hand, flushed>>

----------------------------------------------------------------------------
(* The reader thread: a frame answers the pending request or goes to the   *)
(* callback, which looks the bridge up before it does anything with it.    *)

Answers(f) ==
  /\ pending # Nothing
  /\ \/ f.kind = "error"
     \/ f.kind = pending.kind /\ pending.sess \in {Nothing, f.sess}

ReaderTakes ==
  /\ pc["reader"] = "idle" /\ wire # <<>>
  /\ wire' = Tail(wire)
  /\ LET f == Head(wire)
     IN  IF Answers(f)
         THEN /\ answer' = f /\ pending' = Nothing
              /\ UNCHANGED <<hand, pc, got>>
         ELSE /\ hand' = [frame |-> f, to |-> IF f.sess = Nothing THEN 0 ELSE bridges[f.sess]]
              /\ got' = got \cup OutputsIn(<<f>>)
              /\ Goto("reader", "deliver")
              /\ UNCHANGED <<answer, pending>>
  /\ UNCHANGED <<helperVars, viewVars, routeVars, glueVars, startVars, lost, early,
                 exited, raced, cmd, flushed, dying>>

\* The command that opens the session is still at work
Opening(s) ==
  /\ cmd # Nothing /\ cmd.op \in {"create", "attach"}
  /\ cmd.sess = s \/ (cmd.sess = Nothing /\ opens[s] = 0)

ReaderDelivers ==
  /\ pc["reader"] = "deliver"
  /\ Deliver(hand.frame, hand.to)
  /\ early' = IF Opening(hand.frame.sess) THEN early \cup {hand.frame.sess} ELSE early
  /\ Goto("reader", IF hand.frame.kind = "exit" THEN "lookup" ELSE "idle")
  /\ hand' = IF hand.frame.kind = "exit" THEN hand ELSE Nothing
  /\ UNCHANGED <<helperVars, clientVars, wire, ui, opens, bridges, gens, tabOf, source,
                 rows, startVars, got, exited, raced, cmd, flushed, dying>>

\* bridges first, then backlog and generations
ReaderUnroutes ==
  /\ pc["reader"] = "unroute"
  /\ bridges' = [bridges EXCEPT ![hand.frame.sess] = 0]
  /\ Goto("reader", "forget")
  /\ UNCHANGED <<helperVars, clientVars, wire, viewVars, backlog, gens, glueVars, startVars,
                 histVars, localVars>>

ReaderForgets ==
  /\ pc["reader"] = "forget"
  /\ LET s == hand.frame.sess
     IN  /\ lost' = lost \cup OutputsIn(backlog[s])
         /\ backlog' = [backlog EXCEPT ![s] = <<>>]
         /\ gens' = gens \ {s}
         /\ exited' = exited \cup {s}
  /\ hand' = Nothing /\ Goto("reader", "idle")
  /\ UNCHANGED <<helperVars, clientVars, wire, viewVars, bridges, glueVars, startVars,
                 got, early, raced, cmd, flushed, dying>>

\* An Exit of a session that has a tab: its runtime has died
ReaderDies ==
  \/ pc["reader"] = "lookup" /\ Died("reader", hand.frame.sess, "unroute")
  \/ pc["reader"] = "died" /\ DiedRow("reader", "unroute")
  \/ pc["reader"] = "died_row" /\ DiedShares("reader", "unroute")

Reader ==
  \/ ReaderTakes \/ ReaderDelivers \/ ReaderDies \/ ReaderUnroutes
  \/ ReaderForgets

----------------------------------------------------------------------------
(* The main thread.  The webview opens one terminal in a tab at a time and *)
(* closes or detaches what it opened.                                      *)

Call(op, s, t, kind, expected) ==
  /\ pc["main"] = "idle"
  /\ cmd' = [op |-> op, sess |-> s, tab |-> t]
  /\ Served(kind, s)
  /\ pending' = [kind |-> expected, sess |-> s]
  /\ answer' = Nothing
  /\ Goto("main", "wait")
  /\ UNCHANGED <<out, viewVars, routeVars, glueVars, startVars, histVars, hand, flushed,
                 dying>>

Open(s) == ui[s] \in Tabs
Free(t) == \A s \in Sessions : ui[s] # t
MayOpen == FoldFunction(+, 0, opens) < MaxOpens

Create(t) ==
  /\ Free(t) /\ MayOpen
  /\ \E s \in Sessions : run[s] = "none"
  /\ Call("create", Nothing, t, "spawn", "spawn")

Attach(s, t) ==
  /\ ui[s] = "background" /\ Free(t) /\ MayOpen
  /\ Call("attach", s, t, "attach", "snapshot")

Detach(s) == Open(s) /\ s \in gens /\ Call("detach", s, tabOf[s], "detach", "detach")

Kill(s) == ui[s] # "none" /\ Call("kill", s, Nothing, "terminate", "terminate")

KillAll == (\E s \in Sessions : ui[s] # "none") /\ Call("kill_all", Nothing, Nothing, "kill_all", "kill_all")

\* The request failed: the command returns its error and leaves all as it is
Failed ==
  /\ pc["main"] = "wait" /\ answer # Nothing /\ answer.kind = "error"
  /\ ui' = IF cmd.op = "kill" THEN [ui EXCEPT ![cmd.sess] = "none"] ELSE ui
  /\ answer' = Nothing /\ cmd' = Nothing /\ Goto("main", "idle")
  /\ UNCHANGED <<helperVars, pending, wire, opens, view, routeVars, glueVars,
                 startVars, histVars, hand, flushed, dying>>

Succeeded(op) ==
  pc["main"] = "wait" /\ answer # Nothing /\ answer.kind # "error" /\ cmd.op = op

\* install_helper_bridge: the bridge first, then what waited for it
Install ==
  /\ Succeeded("create") \/ Succeeded("attach")
  /\ LET s == answer.sess
     IN  /\ cmd' = [cmd EXCEPT !.sess = s]
         /\ gens' = gens \cup {s}
         /\ opens' = [opens EXCEPT ![s] = @ + 1]
         /\ bridges' = [bridges EXCEPT ![s] = opens'[s]]
  /\ Goto("main", "flush")
  /\ UNCHANGED <<helperVars, clientVars, wire, ui, view, backlog, glueVars, startVars,
                 histVars, hand, flushed, dying>>

AfterFlush(rest) ==
  IF rest # <<>> THEN "flushing" ELSE IF cmd.op = "attach" THEN "replay" ELSE "register"

FlushCopies ==
  /\ pc["main"] = "flush"
  /\ flushed' = backlog[cmd.sess]
  /\ Goto("main", AfterFlush(flushed'))
  /\ UNCHANGED <<helperVars, clientVars, wire, viewVars, routeVars, glueVars, startVars,
                 histVars, cmd, hand, dying>>

FlushTakes ==
  /\ pc["main"] = "flush"
  /\ flushed' = backlog[cmd.sess]
  /\ backlog' = [backlog EXCEPT ![cmd.sess] = <<>>]
  /\ Goto("main", AfterFlush(flushed'))
  /\ UNCHANGED <<helperVars, clientVars, wire, viewVars, bridges, gens, glueVars, startVars,
                 histVars, cmd, hand, dying>>

FlushDelivers ==
  /\ pc["main"] = "flushing"
  /\ Deliver(Head(flushed), bridges[cmd.sess])
  /\ flushed' = Tail(flushed)
  /\ Goto("main", AfterFlush(flushed'))
  /\ UNCHANGED <<helperVars, clientVars, wire, ui, opens, bridges, gens, tabOf, source,
                 rows, startVars, got, early, exited, raced, cmd, hand, dying>>

Replay ==
  /\ pc["main"] = "replay"
  /\ view' = [view EXCEPT ![cmd.sess] =
                Append(@, [to |-> opens[cmd.sess], kind |-> "snapshot", n |-> answer.n])]
  /\ Goto("main", "register")
  /\ UNCHANGED <<helperVars, clientVars, wire, ui, opens, routeVars, glueVars, startVars,
                 histVars, localVars>>

Return(handle) ==
  /\ ui' = [ui EXCEPT ![cmd.sess] = handle]
  /\ cmd' = Nothing /\ answer' = Nothing /\ Goto("main", "idle")

\* session_tabs, terminal_sources and the registry
Register ==
  /\ pc["main"] = "register"
  /\ tabOf' = [tabOf EXCEPT ![cmd.sess] = cmd.tab]
  /\ source' = [source EXCEPT ![cmd.tab] = <<cmd.sess, opens[cmd.sess]>>]
  /\ Return(cmd.tab)
  /\ UNCHANGED <<helperVars, pending, wire, opens, view, routeVars, rows, hub,
                 bound, startVars, histVars, hand, flushed, dying>>

\* A detached or killed session's runtime has died as far as its tab goes
MainDies ==
  \/ (Succeeded("detach") \/ Succeeded("kill")) /\ Died("main", cmd.sess, "unroute")
  \/ pc["main"] = "died" /\ DiedRow("main", "unroute")
  \/ pc["main"] = "died_row" /\ DiedShares("main", "unroute")

Unroute ==
  /\ pc["main"] = "unroute"
  /\ bridges' = [bridges EXCEPT ![cmd.sess] = 0]
  /\ gens' = IF cmd.op = "kill" THEN gens \ {cmd.sess} ELSE gens
  /\ Return(IF cmd.op = "kill" THEN "none" ELSE "background")
  /\ UNCHANGED <<helperVars, pending, wire, opens, view, backlog, glueVars,
                 startVars, histVars, hand, flushed, dying>>

\* The webview asks for it when the window closes: nothing is opened after it
KilledAll ==
  /\ Succeeded("kill_all")
  /\ bridges' = [s \in Sessions |-> 0] /\ gens' = {}
  /\ backlog' = [s \in Sessions |-> <<>>]
  /\ lost' = lost \cup UNION {OutputsIn(backlog[s]) : s \in Sessions}
  /\ cmd' = Nothing /\ answer' = Nothing /\ Goto("main", "quit")
  /\ UNCHANGED <<helperVars, pending, wire, viewVars, glueVars, startVars,
                 got, early, exited, raced, hand, flushed, dying>>

\* share_stop of a share the webview was told of: it has none for a tab that
\* it starts one for
ShareStop(t) ==
  /\ pc["main"] = "idle" /\ t \notin starting
  /\ \E r \in rows : tabOf[r[2]] = t /\ pc[r[1]] = "done"
  /\ bound' = IF source[t] = Nothing THEN bound ELSE Unbound(source[t])
  /\ cmd' = [op |-> "share_stop", sess |-> Nothing, tab |-> t]
  /\ Goto("main", "sweep")
  /\ UNCHANGED <<helperVars, clientVars, wire, viewVars, routeVars, tabOf, source, rows, hub,
                 startVars, histVars, hand, flushed, dying>>

ShareSweep ==
  /\ pc["main"] = "sweep"
  /\ \/ \E s \in Sessions : tabOf[s] = cmd.tab /\ StopSharesOf(s)
     \/ (\A s \in Sessions : tabOf[s] # cmd.tab) /\ UNCHANGED <<rows, hub>>
  /\ cmd' = Nothing /\ Goto("main", "idle")
  /\ UNCHANGED <<helperVars, clientVars, wire, viewVars, routeVars, tabOf, source, bound,
                 startVars, histVars, hand, flushed, dying>>

Main ==
  \/ Failed \/ Install \/ FlushTakes \/ FlushDelivers \/ Replay
  \/ Register \/ MainDies \/ Unroute \/ KilledAll \/ ShareSweep

----------------------------------------------------------------------------
(* share_start, a future on another thread.                                *)

startFrame == <<helperVars, clientVars, wire, viewVars, routeVars, tabOf, source, histVars,
                localVars>>

ReservedNever(t) == FALSE

Reserved(t) == t \in starting

\* The reservation goes with the future, however it ends
StartEnds(p, l) ==
  /\ starting' = starting \ {task[p].tab}
  /\ task' = [task EXCEPT ![p] = Nothing]
  /\ Goto(p, l)

\* What is looked up here in one step is checked again after the await
StartReserve(p, t) ==
  /\ pc[p] = "idle" /\ p \notin hub /\ ~Reserved(t) /\ source[t] # Nothing
  /\ \E s \in Sessions \ {r[2] : r \in rows} :
       /\ tabOf[s] = t
       /\ task' = [task EXCEPT ![p] = [tab |-> t, src |-> source[t], sess |-> s]]
  /\ starting' = starting \cup {t}
  /\ Goto(p, "reserved")
  /\ UNCHANGED <<startFrame, rows, hub, bound>>

\* RemoteHub::share_start: the share is listed and its source bound, or the
\* endpoint failed and nothing happened
StartBind(p) ==
  /\ pc[p] = "reserved"
  /\ \/ /\ hub' = hub \cup {p}
        /\ bound' = [Unbound(task[p].src) EXCEPT ![p] = task[p].src]
        /\ Goto(p, "bound") /\ UNCHANGED startVars
     \/ StartEnds(p, "idle") /\ UNCHANGED <<hub, bound>>
  /\ UNCHANGED <<startFrame, rows>>

StillCurrent(p) ==
  source[task[p].tab] = task[p].src /\ tabOf[task[p].sess] = task[p].tab

StartCheck(p) ==
  /\ pc[p] = "bound"
  /\ IF StillCurrent(p)
     THEN Goto(p, "checked") /\ UNCHANGED <<hub, bound, startVars>>
     ELSE /\ bound' = Unbound(task[p].src)
          /\ hub' = hub \ {p}
          /\ StartEnds(p, "idle")
  /\ UNCHANGED <<startFrame, rows>>

StartInsert(p) ==
  /\ pc[p] = "checked"
  /\ rows' = rows \cup {<<p, task[p].sess>>}
  /\ StartEnds(p, "done")
  /\ UNCHANGED <<startFrame, hub, bound>>

Sharer(p) == StartBind(p) \/ StartCheck(p) \/ StartInsert(p)

Next ==
  \/ \E s \in Sessions : HelperOutputs(s) \/ HelperExits(s)
  \/ Reader \/ Main \/ KillAll
  \/ \E s \in Sessions : Detach(s) \/ Kill(s) \/ \E t \in Tabs : Attach(s, t)
  \/ \E t \in Tabs : Create(t) \/ ShareStop(t) \/ \E p \in Sharers : StartReserve(p, t)
  \/ \E p \in Sharers : Sharer(p)

Spec == Init /\ [][Next]_vars

----------------------------------------------------------------------------
(* The state's types, and that no backlog outgrows its cap, however many   *)
(* frames a detached session still sends (push_helper_backlog).            *)
TypeOK ==
  /\ run \in [Sessions -> {"none", "live", "dying", "ended"}]
  /\ sink \subseteq Sessions /\ out \in [Sessions -> Nat] /\ wire \in Seq(Frames)
  /\ pending \in Requests \cup {Nothing} /\ answer \in Frames \cup {Nothing}
  /\ cmd \in Commands \cup {Nothing}
  /\ hand \in [frame : Frames, to : Nat] \cup {Nothing} /\ flushed \in Seq(Frames)
  /\ dying \in [Threads -> [tab : Tabs \cup {Nothing}, sess : Sessions \cup {Nothing}]]
  /\ bridges \in [Sessions -> Nat] /\ opens \in [Sessions -> Nat] /\ gens \subseteq Sessions
  /\ backlog \in [Sessions -> Seq(Frames)]
  /\ \A s \in Sessions : Len(backlog[s]) <= MaxBacklog
  /\ tabOf \in [Sessions -> Tabs \cup {Nothing}]
  /\ source \in [Tabs -> Bridges \cup {Nothing}]
  /\ rows \subseteq Sharers \X Sessions /\ starting \subseteq Tabs /\ hub \subseteq Sharers
  /\ bound \in [Sharers -> Bridges \cup {Nothing}]
  /\ task \in [Sharers -> [tab : Tabs, src : Bridges, sess : Sessions] \cup {Nothing}]
  /\ ui \in [Sessions -> {"none", "background"} \cup Tabs]
  /\ view \in [Sessions -> Seq([to : Nat, kind : Held, n : Nat])]
  /\ early \cup exited \subseteq Sessions /\ raced \subseteq Sharers

(* Every chunk the reader has taken is in one place: shown, in a thread's  *)
(* hands or in a backlog, unless the backlog was dropped, and none is      *)
(* shown twice: the reader and the command that installs the bridge move   *)
(* frames at the same time (deliver_helper_frame, flush_helper_backlog).   *)
PrintedAt(s) == {i \in DOMAIN view[s] : view[s][i].kind = "output"}
Shown == UNION {{<<s, view[s][i].n>> : i \in PrintedAt(s)} : s \in Sessions}

InBacklogs == UNION {OutputsIn(backlog[s]) : s \in Sessions}
InHand == IF hand = Nothing THEN {} ELSE OutputsIn(<<hand.frame>>)
Waiting == OutputsIn(flushed) \cup InBacklogs \cup InHand

DeliveredOnce ==
  /\ got \subseteq Shown \cup Waiting \cup lost
  /\ Shown \cap Waiting = {}
  /\ \A s \in Sessions : \A i, j \in PrintedAt(s) : view[s][i].n = view[s][j].n => i = j

Quiet == pc["main"] = "idle" /\ pc["reader"] = "idle"

NoEarlyExit == early \cap exited = {}

(* When the Exit of a session was handled nothing names the session any    *)
(* more ("Entries live exactly as long as what they name", ShareGlue),     *)
(* unless an Exit came while the command that opens it was at work.        *)
RowsOfLiving ==
  Quiet /\ NoEarlyExit =>
    \A s \in exited :
      /\ s \notin gens /\ bridges[s] = 0 /\ tabOf[s] = Nothing
      /\ \A t \in Tabs : source[t] = Nothing \/ source[t][1] # s

(* With no start in flight each live share is carried by the bridge of a   *)
(* registered source and has its row, so it is fed, can be found and ends  *)
(* with its runtime; save one whose tab died between share_start's last    *)
(* check and its insertion, and unless such an early Exit left its row in  *)
(* the tab.                                                                *)
SharesAreFed ==
  Quiet /\ NoEarlyExit /\ starting = {} =>
    \A p \in hub \ raced :
      /\ bound[p] # Nothing
      /\ \E t \in Tabs : source[t] = bound[p]
      /\ <<p, bound[p][1]>> \in rows

(* A bridge made by an attach shows the replay before any live output: "no *)
(* live byte can overtake replay" (backend.rs), and early events "arrive   *)
(* in order" (the test of deliver_helper_frame).                           *)
ReplayFirst ==
  \A s \in Sessions : \A i, j \in DOMAIN view[s] :
    i < j /\ view[s][i].to = view[s][j].to => view[s][j].kind # "snapshot"

(* An Exit that was handled reached the terminal the webview has open.     *)
ExitShown ==
  Quiet => \A s \in exited : Open(s) => \E i \in DOMAIN view[s] : view[s][i].kind = "exit"
=============================================================================
