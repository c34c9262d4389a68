--------------------------- MODULE AgentOwnership ---------------------------
(***************************************************************************)
(* Who an agent session of the Supervisor belongs to: the connections of   *)
(* the GUI with a handler thread each, the sessions a tab was given, their *)
(* owners, their runtime record, and where a session's events go while one *)
(* connection takes it over from another.  One tab; tabs share only locks. *)
(*                                                                         *)
(* Prompt, Cancel and Answer check the owner and change nothing here: what *)
(* they do is in AgentSession.                                             *)
(***************************************************************************)
EXTENDS Naturals, Sequences

CONSTANTS
  Clients,    \* connections, each made once
  MaxHandles, \* bound: sessions started
  MaxEvents,  \* bound: events the sessions emit
  MaxGen,     \* bound: no Start is asked for once the record has this generation
  Nobody      \* no connection, no handle, no record

ASSUME BoundsAssumption == {MaxHandles, MaxEvents, MaxGen} \subseteq Nat

VARIABLES
  conn,     \* a connection: new, open, lost
  pc,       \* where its handler thread is
  job,      \* the request the handler serves, and the row it has read
  waits,    \* the client waits for the answer
  known,    \* the handle the client was given: AgentClientRegistry.sessions
  owned,    \* the handler's own set
  owner,    \* SupervisorState.owners
  sessions, \* AgentRegistry.sessions
  locked,   \* the handler that holds the registry's lock over two steps
  target,   \* SessionHandle.event_target
  handles,  \* AgentRegistry.counter
  record,   \* the tab's row in runtime.db
  threads,  \* sessions whose thread runs
  log,      \* the transcript: which session wrote each event
  hand,     \* the event a thread has written and not sent
  aim,      \* where the thread is about to send it
  replay,   \* events a handler has read from the transcript
  heard,    \* events that were sent to a connection
  granted,  \* history: the generation a connection obtained
  raced     \* history: connections whose Start ran beside another one's requests

clientVars == <<conn, waits, known>>
ownerVars == <<owned, owner, record, granted>>
registryVars == <<sessions, locked, target, handles>>
eventVars == <<threads, log, hand, aim, replay, heard>>
vars == <<clientVars, pc, job, ownerVars, registryVars, eventVars, raced>>

Handles == 1..MaxHandles
Row(state, gen) == [state |-> state, gen |-> gen]
Job(kind, h) == [kind |-> kind, handle |-> h, row |-> Nobody]
NoJob == Job("none", Nobody)

Rows == [state : {"attached", "detached", "stopped"}, gen : Nat]
Jobs ==
  [kind : {"none", "start", "close", "detach", "sweep"},
   handle : Handles \cup {Nobody}, row : Rows \cup {Nobody}]

ASSUME NobodyAssumption == Nobody \notin Clients /\ Nobody \notin Handles /\ Nobody \notin Rows

Starting == {"attach", "read", "replay", "fresh", "insert", "own"}
Leaving == {"get", "put", "close", "disown", "remove"}
Stages == Starting \cup Leaving \cup {"off", "idle", "check", "reply", "sweep", "gone"}

Init ==
  /\ conn = [c \in Clients |-> "new"] /\ pc = [c \in Clients |-> "off"]
  /\ job = [c \in Clients |-> NoJob]
  /\ waits = {} /\ known = [c \in Clients |-> Nobody]
  /\ owned = [c \in Clients |-> {}] /\ owner = [h \in Handles |-> Nobody]
  /\ sessions = {} /\ locked = Nobody /\ target = [h \in Handles |-> Nobody]
  /\ handles = 0 /\ record = Nobody
  /\ threads = {} /\ log = <<>> /\ hand = [h \in Handles |-> 0]
  /\ aim = [h \in Handles |-> Nobody]
  /\ replay = [c \in Clients |-> {}] /\ heard = [c \in Clients |-> {}]
  /\ granted = [c \in Clients |-> 0] /\ raced = {}

At(c, stage) == pc[c] = stage
Goto(c, stage) == pc' = [pc EXCEPT ![c] = stage]
Done(c) == Goto(c, "idle") /\ job' = [job EXCEPT ![c] = NoJob]

\* What is sent on a lost connection nobody hears.
Hears(c, events) == [heard EXCEPT ![c] = IF conn[c] = "open" THEN @ \cup events ELSE @]

----------------------------------------------------------------------------
(* The client: AgentClientRegistry.                                        *)

\* connect: only when the last connection is not alive.  Bound: no Start of an
\* earlier connection is still being served.
Connect(c) ==
  /\ conn[c] = "new"
  /\ \A d \in Clients : conn[d] # "open" /\ pc[d] \notin Starting
  /\ conn' = [conn EXCEPT ![c] = "open"] /\ Goto(c, "idle")
  /\ UNCHANGED <<waits, known, job, ownerVars, registryVars, eventVars>>

Lose(c) ==
  /\ conn[c] = "open"
  /\ conn' = [conn EXCEPT ![c] = "lost"]
  /\ waits' = waits \ {c} /\ known' = [known EXCEPT ![c] = Nobody]
  /\ heard' = [heard EXCEPT ![c] = {}]
  /\ UNCHANGED <<pc, job, ownerVars, registryVars, threads, log, hand, aim, replay>>

\* Commands run on one thread and wait for their answer.  One that is sent
\* while the handler is busy waits in the socket.
Free(c) == conn[c] = "open" /\ At(c, "idle") /\ c \notin waits

AskStart(c) ==
  /\ Free(c) /\ (record # Nobody => record.gen < MaxGen)
  /\ job' = [job EXCEPT ![c] = Job("start", Nobody)] /\ waits' = waits \cup {c}
  /\ Goto(c, "attach")
  /\ UNCHANGED <<conn, known, ownerVars, registryVars, eventVars>>

\* close and detach of the handle the client has
AskLeave(c, kind) ==
  /\ Free(c) /\ known[c] # Nobody
  /\ job' = [job EXCEPT ![c] = Job(kind, known[c])] /\ waits' = waits \cup {c}
  /\ Goto(c, "check")
  /\ UNCHANGED <<conn, known, ownerVars, registryVars, eventVars>>

\* A close or detach forgets the handle whatever comes of it; a Start that
\* failed leaves the client what it had.
Forgets(c) == IF job[c].kind = "start" THEN known ELSE [known EXCEPT ![c] = Nobody]

\* REQUEST_TIMEOUT: an answer that comes later finds nobody waiting for its id.
GiveUp(c) ==
  /\ c \in waits
  /\ waits' = waits \ {c} /\ known' = Forgets(c)
  /\ UNCHANGED <<conn, pc, job, ownerVars, registryVars, eventVars>>

----------------------------------------------------------------------------
(* handle_client and dispatch: Start.                                      *)

\* AgentRegistry::attach finds the tab's session, points its events here and,
\* holding the lock, reads the transcript; or finds none.
Attach(c) ==
  /\ At(c, "attach") /\ locked = Nobody
  /\ \/ /\ sessions = {} /\ Goto(c, "fresh") /\ UNCHANGED <<job, locked, target>>
     \/ \E h \in sessions :
          /\ target' = [target EXCEPT ![h] = c]
          /\ job' = [job EXCEPT ![c].handle = h]
          /\ locked' = c /\ Goto(c, "read")
  /\ UNCHANGED <<clientVars, ownerVars, sessions, handles, eventVars>>

AttachRead(c) ==
  /\ At(c, "read")
  /\ replay' = [replay EXCEPT ![c] = DOMAIN log]
  /\ locked' = Nobody /\ Goto(c, "replay")
  /\ UNCHANGED <<clientVars, job, ownerVars, sessions, target, handles, threads, log, hand,
                 aim, heard>>

Replay(c) ==
  /\ At(c, "replay")
  /\ heard' = Hears(c, replay[c]) /\ replay' = [replay EXCEPT ![c] = {}]
  /\ Goto(c, "own")
  /\ UNCHANGED <<clientVars, job, ownerVars, registryVars, threads, log, hand, aim>>

\* The transcript cannot be read, or a record in it is not whole
StartFails(c) ==
  /\ pc[c] \in {"read", "fresh"}
  /\ locked' = IF locked = c THEN Nobody ELSE locked
  /\ waits' = waits \ {c} /\ Done(c)
  /\ UNCHANGED <<conn, known, ownerVars, sessions, target, handles, eventVars>>

\* AgentRegistry::start: the transcript is shown and the thread started
Fresh(c) ==
  /\ At(c, "fresh") /\ handles < MaxHandles
  /\ handles' = handles + 1
  /\ job' = [job EXCEPT ![c].handle = handles']
  /\ heard' = Hears(c, DOMAIN log)
  /\ target' = [target EXCEPT ![handles'] = c]
  /\ Goto(c, "insert")
  /\ UNCHANGED <<clientVars, ownerVars, sessions, locked, threads, log, hand, aim, replay>>

Insert(c) ==
  /\ At(c, "insert") /\ locked = Nobody
  /\ sessions' = sessions \cup {job[c].handle} /\ threads' = threads \cup {job[c].handle}
  /\ Goto(c, "own")
  /\ UNCHANGED <<clientVars, job, ownerVars, locked, target, handles, log, hand, aim, replay,
                 heard>>

OwnUnlisted(c) ==
  /\ At(c, "own")
  /\ owner' = [owner EXCEPT ![job[c].handle] = c]
  /\ Goto(c, "get")
  /\ UNCHANGED <<clientVars, job, owned, record, granted, registryVars, eventVars>>

Own(c) ==
  /\ At(c, "own")
  /\ owner' = [owner EXCEPT ![job[c].handle] = c]
  /\ owned' = [owned EXCEPT ![c] = @ \cup {job[c].handle}]
  /\ Goto(c, "get")
  /\ UNCHANGED <<clientVars, job, record, granted, registryVars, eventVars>>

----------------------------------------------------------------------------
(* set_runtime_state is a get and a put.                                   *)

After(c) ==
  CASE job[c].kind = "start" -> "reply" [] job[c].kind = "close" -> "close"
    [] job[c].kind = "detach" -> "disown" [] job[c].kind = "sweep" -> "sweep"

StateOf(kind) ==
  CASE kind = "start" -> "attached" [] kind = "close" -> "stopped" [] OTHER -> "detached"

\* Only a Start does not look the session up first
Get(c) ==
  /\ At(c, "get") /\ locked = Nobody
  /\ IF job[c].kind = "start" \/ job[c].handle \in sessions
     THEN job' = [job EXCEPT ![c].row = record] /\ Goto(c, "put")
     ELSE UNCHANGED job /\ Goto(c, After(c))
  /\ UNCHANGED <<clientVars, ownerVars, registryVars, eventVars>>

Put(c) ==
  /\ At(c, "put")
  /\ LET row == job[c].row
         gen == IF row = Nobody THEN 1
                ELSE IF job[c].kind = "start" THEN row.gen + 1 ELSE row.gen
     IN  /\ record' = Row(StateOf(job[c].kind), gen)
         /\ granted' = IF job[c].kind = "start" THEN [granted EXCEPT ![c] = gen] ELSE granted
  /\ Goto(c, After(c))
  /\ UNCHANGED <<clientVars, job, owned, owner, registryVars, eventVars>>

\* The answer, to a client that still waits for it
Reply(c) ==
  /\ At(c, "reply")
  /\ waits' = waits \ {c}
  /\ known' = IF c \notin waits THEN known
              ELSE IF job[c].kind = "start" THEN [known EXCEPT ![c] = job[c].handle]
              ELSE Forgets(c)
  /\ Done(c)
  /\ UNCHANGED <<conn, ownerVars, registryVars, eventVars>>

----------------------------------------------------------------------------
(* Close, Detach, and what is left when the connection is gone.            *)

\* ensure_owner: a stale client is refused
Check(c) ==
  /\ At(c, "check")
  /\ Goto(c, IF owner[job[c].handle] = c THEN "get" ELSE "reply")
  /\ UNCHANGED <<clientVars, job, ownerVars, registryVars, eventVars>>

Close(c) ==
  /\ At(c, "close") /\ locked = Nobody
  /\ sessions' = sessions \ {job[c].handle}
  /\ Goto(c, "disown")
  /\ UNCHANGED <<clientVars, job, ownerVars, locked, target, handles, eventVars>>

Disown(c) ==
  /\ At(c, "disown")
  /\ owner' = [owner EXCEPT ![job[c].handle] = Nobody]
  /\ owned' = [owned EXCEPT ![c] = @ \ {job[c].handle}]
  /\ Goto(c, "reply")
  /\ UNCHANGED <<clientVars, job, record, granted, registryVars, eventVars>>

HandlerQuits(c) ==
  /\ At(c, "idle") /\ conn[c] = "lost"
  /\ Goto(c, "gone")
  /\ UNCHANGED <<clientVars, job, ownerVars, registryVars, eventVars>>

HandlerEnds(c) ==
  /\ At(c, "idle") /\ conn[c] = "lost"
  /\ Goto(c, "sweep")
  /\ UNCHANGED <<clientVars, job, ownerVars, registryVars, eventVars>>

SweepUnchecked(c) ==
  /\ At(c, "sweep")
  /\ \/ owned[c] = {} /\ Goto(c, "gone") /\ UNCHANGED <<job, owned>>
     \/ \E h \in owned[c] :
          /\ owned' = [owned EXCEPT ![c] = @ \ {h}]
          /\ job' = [job EXCEPT ![c] = Job("sweep", h)] /\ Goto(c, "remove")
  /\ UNCHANGED <<clientVars, owner, record, granted, registryVars, eventVars>>

\* detach_owned: what it owns no more it leaves alone
SweepNext(c) ==
  /\ At(c, "sweep")
  /\ \/ owned[c] = {} /\ Goto(c, "gone") /\ UNCHANGED <<job, owned>>
     \/ \E h \in owned[c] :
          /\ owned' = [owned EXCEPT ![c] = @ \ {h}]
          /\ IF owner[h] = c
             THEN job' = [job EXCEPT ![c] = Job("sweep", h)] /\ Goto(c, "remove")
             ELSE UNCHANGED <<job, pc>>
  /\ UNCHANGED <<clientVars, owner, record, granted, registryVars, eventVars>>

\* The owner is removed under a second lock, whoever it is by then
SweepRemove(c) ==
  /\ At(c, "remove")
  /\ owner' = [owner EXCEPT ![job[c].handle] = Nobody]
  /\ Goto(c, "get")
  /\ UNCHANGED <<clientVars, job, owned, record, granted, registryVars, eventVars>>

Handler(c) ==
  \/ Attach(c) \/ AttachRead(c) \/ Replay(c) \/ StartFails(c) \/ Fresh(c) \/ Insert(c)
  \/ Own(c) \/ Get(c) \/ Put(c) \/ Reply(c) \/ Check(c) \/ Close(c) \/ Disown(c)
  \/ HandlerEnds(c) \/ SweepNext(c) \/ SweepRemove(c)

----------------------------------------------------------------------------
(* A session's thread: TeeSink writes an event to the transcript, looks up *)
(* where it goes, and sends it.  A closed session runs on until it stops.  *)

Write(h) ==
  /\ h \in threads /\ hand[h] = 0 /\ Len(log) < MaxEvents
  /\ log' = Append(log, h) /\ hand' = [hand EXCEPT ![h] = Len(log')]
  /\ UNCHANGED <<clientVars, pc, job, ownerVars, registryVars, threads, aim, replay, heard>>

Aim(h) ==
  /\ hand[h] # 0 /\ aim[h] = Nobody
  /\ aim' = [aim EXCEPT ![h] = target[h]]
  /\ UNCHANGED <<clientVars, pc, job, ownerVars, registryVars, threads, log, hand, replay,
                 heard>>

Send(h) ==
  /\ aim[h] # Nobody
  /\ heard' = Hears(aim[h], {hand[h]})
  /\ hand' = [hand EXCEPT ![h] = 0] /\ aim' = [aim EXCEPT ![h] = Nobody]
  /\ UNCHANGED <<clientVars, pc, job, ownerVars, registryVars, threads, log, replay>>

ThreadEnds(h) ==
  /\ h \in threads \ sessions /\ hand[h] = 0
  /\ threads' = threads \ {h} /\ target' = [target EXCEPT ![h] = Nobody]
  /\ UNCHANGED <<clientVars, pc, job, ownerVars, sessions, locked, handles, log, hand, aim,
                 replay, heard>>

Step ==
  \/ \E c \in Clients : \/ Connect(c) \/ Lose(c) \/ AskStart(c) \/ GiveUp(c) \/ Handler(c)
                         \/ \E kind \in {"close", "detach"} : AskLeave(c, kind)
  \/ \E h \in Handles : Write(h) \/ Aim(h) \/ Send(h) \/ ThreadEnds(h)

\* A Start that ran beside the leaving of another connection, and one that was
\* still recording its generation when the next connection's Start began
Overlapping ==
  {c \in Clients : \E d \in Clients \ {c} :
     \/ pc[c] \in Starting /\ pc[d] \in Leaving
     \/ pc[c] \in {"get", "put"} /\ job[c].kind = "start" /\ pc[d] \in Starting}

Next == Step /\ raced' = raced \cup Overlapping'

Spec == Init /\ [][Next]_vars

\* Handler threads run and a lost connection is noticed
FairSpec == Spec /\ \A c \in Clients : WF_vars(Handler(c) /\ raced' = raced \cup Overlapping')

----------------------------------------------------------------------------
(* The state's types, and that owners names only connections that are      *)
(* still served, whatever races: a handler that ends leaves no handle      *)
(* behind that nobody could be told apart from its owner for (detach_owned *)
(* goes through the handler's own set).                                    *)
TypeOK ==
  /\ conn \in [Clients -> {"new", "open", "lost"}] /\ pc \in [Clients -> Stages]
  /\ waits \subseteq Clients /\ raced \subseteq Clients
  /\ known \in [Clients -> Handles \cup {Nobody}]
  /\ owned \in [Clients -> SUBSET Handles] /\ owner \in [Handles -> Clients \cup {Nobody}]
  /\ job \in [Clients -> Jobs] /\ record \in Rows \cup {Nobody}
  /\ granted \in [Clients -> Nat] /\ handles \in 0 .. MaxHandles
  /\ sessions \subseteq Handles /\ threads \subseteq Handles /\ sessions \subseteq threads
  /\ locked \in Clients \cup {Nobody} /\ target \in [Handles -> Clients \cup {Nobody}]
  /\ log \in Seq(Handles) /\ hand \in [Handles -> Nat] /\ aim \in [Handles -> Clients \cup {Nobody}]
  /\ replay \in [Clients -> SUBSET Nat] /\ heard \in [Clients -> SUBSET Nat]
  /\ \A h \in Handles : owner[h] # Nobody => pc[owner[h]] # "gone"

(* A client that was given the tab's session and is still connected has    *)
(* it: the session is registered, its commands pass ensure_owner, the      *)
(* record says attached with a generation no other client got, and every   *)
(* event of the session was sent to it or is about to be; whatever earlier *)
(* connections leave behind, save those still leaving when it attached.    *)
OwnerServed ==
  \A c \in Clients \ raced :
    conn[c] = "open" /\ At(c, "idle") /\ known[c] # Nobody =>
      LET h == known[c]
      IN  /\ h \in sessions /\ owner[h] = c /\ target[h] = c
          /\ record = Row("attached", granted[c])
          /\ \A d \in Clients \ raced : d # c => granted[d] # granted[c]
          /\ \A i \in DOMAIN log : log[i] = h => i \in heard[c] \cup {hand[h]}

Abandoned == \A c \in Clients : conn[c] # "open"

(* With no client left the tab's record does not stay attached: a handler  *)
(* that loses its connection detaches what it owns (detach_owned), also    *)
(* when it was lost in the middle of a Start.                              *)
DetachedInTheEnd ==
  Abandoned ~> (~Abandoned \/ raced # {} \/ record = Nobody \/ record.state # "attached")

(* docs/architecture/runtime-model.md: "the new client obtains a new       *)
(* generation; stale mutations are refused".  The connection that attached *)
(* last is not the stale one, even while an earlier one is leaving.        *)
NewestOwns ==
  \A c \in Clients :
    conn[c] = "open" /\ At(c, "idle") /\ known[c] \in sessions => owner[known[c]] = c
=============================================================================
