------------------------ MODULE AgentOwnershipProofs ------------------------
(***************************************************************************)
(* Proofs about the ownership of agent sessions, for any number of         *)
(* connections, sessions and events: the types, and that a client that was *)
(* given the tab's session is served, whatever earlier connections do.     *)
(***************************************************************************)
EXTENDS AgentOwnership, SequenceTheorems, TLAPS

-----------------------------------------------------------------------------
(* The steps, by what takes them. *)

ClientStep(c) ==
  \/ Connect(c) \/ Lose(c) \/ AskStart(c) \/ GiveUp(c)
  \/ \E kind \in {"close", "detach"} : AskLeave(c, kind)

StartStep(c) ==
  \/ Attach(c) \/ AttachRead(c) \/ Replay(c) \/ StartFails(c) \/ Fresh(c) \/ Insert(c)
  \/ Own(c)

RecordStep(c) == Get(c) \/ Put(c) \/ Reply(c)

LeaveStep(c) ==
  \/ Check(c) \/ Close(c) \/ Disown(c)
  \/ HandlerEnds(c) \/ SweepNext(c) \/ SweepRemove(c)

ThreadStep(h) == Write(h) \/ Aim(h) \/ Send(h) \/ ThreadEnds(h)

LEMMA Steps ==
  ASSUME [Next]_vars
  PROVE  \/ \E c \in Clients :
              ClientStep(c) \/ StartStep(c) \/ RecordStep(c) \/ LeaveStep(c)
         \/ \E h \in Handles : ThreadStep(h)
         \/ UNCHANGED vars
BY DEF Next, Step, Handler, ClientStep, StartStep, RecordStep, LeaveStep, ThreadStep

-----------------------------------------------------------------------------
(* Types, in groups, and what a handler serves at each of its stages. *)

ConnTypes ==
  /\ conn \in [Clients -> {"new", "open", "lost"}] /\ pc \in [Clients -> Stages]
  /\ waits \subseteq Clients
  /\ known \in [Clients -> Handles \cup {Nobody}]
  /\ \A c \in Clients : conn[c] = "new" <=> pc[c] = "off"

JobTypes ==
  /\ job \in [Clients -> Jobs]
  /\ \A c \in Clients :
       /\ pc[c] \in {"off", "idle"} => job[c].kind = "none"
       /\ pc[c] \in Starting => job[c].kind = "start"
       /\ pc[c] \in {"check", "close", "disown"} => job[c].kind \in {"close", "detach"}
       /\ pc[c] = "remove" => job[c].kind = "sweep"
       /\ pc[c] \in {"get", "put"} => job[c].kind # "none"
       /\ pc[c] = "reply" => job[c].kind \in {"start", "close", "detach"}
       /\ pc[c] \in {"sweep", "gone"} => job[c].kind \in {"none", "sweep"}
       /\ pc[c] \in {"check", "read", "replay", "insert", "own", "reply"} \cup Leaving =>
            job[c].handle \in Handles

RecordTypes == record \in Rows \cup {Nobody} /\ granted \in [Clients -> Nat]

OwnerTypes ==
  owned \in [Clients -> SUBSET Handles] /\ owner \in [Handles -> Clients \cup {Nobody}]

SessionTypes ==
  /\ sessions \subseteq Handles /\ threads \subseteq Handles /\ sessions \subseteq threads
  /\ locked \in Clients \cup {Nobody} /\ target \in [Handles -> Clients \cup {Nobody}]
  /\ handles \in 0 .. MaxHandles

EventTypes ==
  /\ log \in Seq(Handles) /\ hand \in [Handles -> Nat]
  /\ aim \in [Handles -> Clients \cup {Nobody}]
  /\ replay \in [Clients -> SUBSET Nat] /\ heard \in [Clients -> SUBSET Nat]

TypeInv ==
  ConnTypes /\ JobTypes /\ RecordTypes /\ OwnerTypes /\ SessionTypes /\ EventTypes

LEMMA JobUpdate ==
  ASSUME NEW j \in Jobs
  PROVE  /\ \A h \in Handles \cup {Nobody} :
              LET k == [j EXCEPT !.handle = h]
              IN  k \in Jobs /\ k.kind = j.kind /\ k.handle = h /\ k.row = j.row
         /\ \A r \in Rows \cup {Nobody} :
              LET k == [j EXCEPT !.row = r]
              IN  k \in Jobs /\ k.kind = j.kind /\ k.handle = j.handle /\ k.row = r
BY DEF Jobs

-----------------------------------------------------------------------------
(* The inductive invariant. *)

Active(c) == conn[c] = "open" \/ pc[c] \in Starting

\* One connection at a time is open or being started; a client that is gone,
\* or that gave a close or detach up, has forgotten its handle.
Connections ==
  /\ \A c, d \in Clients : Active(c) /\ Active(d) => c = d
  /\ \A c \in Clients :
       /\ conn[c] # "open" => known[c] = Nobody /\ c \notin waits
       /\ job[c].kind \in {"close", "detach"} /\ c \notin waits => known[c] = Nobody
       /\ job[c].kind = "sweep" \/ pc[c] \in {"sweep", "gone"} => conn[c] = "lost"

\* What a handler owns it has in its own set, or is about to let go.
Owners ==
  /\ \A c \in Clients, h \in Handles :
       owner[h] = c => h \in owned[c] \/ (pc[c] = "remove" /\ job[c].handle = h)
  /\ \A c \in Clients : pc[c] = "gone" => owned[c] = {}

\* The tab has one session, and a Start makes one only when there is none.
OneSession ==
  /\ \A h, k \in sessions : h = k
  /\ threads \subseteq 1 .. handles
  /\ \A c \in Clients :
       /\ pc[c] \in {"fresh", "insert"} => sessions = {}
       /\ pc[c] = "insert" => job[c].handle \in (1 .. handles) \ threads

\* What a Start ran beside is remembered.
Apart == Overlapping \subseteq raced

\* A Start that attaches finds its session there until it owns it.
Taking ==
  \A c \in Clients \ raced : pc[c] \in {"read", "replay", "own"} => job[c].handle \in sessions

\* The client was told of session h and does not ask for it to be closed.
Shown(c, h) ==
  \/ job[c].kind = "start" /\ pc[c] = "reply" /\ job[c].handle = h
  \/ known[c] = h /\ job[c].kind \in {"none", "start"}

Holds(c, h) ==
  \/ job[c].kind = "start" /\ pc[c] \in {"get", "put"} /\ job[c].handle = h
  \/ conn[c] = "open" /\ Shown(c, h)

\* What the holder has nobody else takes, closes or records.
Calm(c, h) ==
  /\ h \in sessions /\ owner[h] = c
  /\ \A d \in Clients \ {c} :
       /\ pc[d] \in Leaving => job[d].kind # "start" /\ job[d].handle # h
       /\ pc[d] # "put"

Undisturbed ==
  \A c \in Clients \ raced : \A h \in Handles : Holds(c, h) => Calm(c, h)

\* The generation that a handler with this row will record.
Recorded(row, kind) ==
  IF row = Nobody THEN 1 ELSE IF kind = "start" THEN row.gen + 1 ELSE row.gen

\* No generation that was granted is ahead of the record, now or after a
\* record that is being written; the holder's is the newest.
Generations ==
  /\ \A c \in Clients \ raced :
       granted[c] <= IF record = Nobody THEN 0 ELSE record.gen
  /\ \A c \in Clients : pc[c] = "put" =>
       \A d \in Clients \ raced : granted[d] <= Recorded(job[c].row, job[c].kind)
  /\ \A c \in Clients \ raced :
       pc[c] = "put" /\ job[c].kind = "start" => job[c].row = record

Newest ==
  \A c \in Clients \ raced :
    conn[c] = "open" /\ (\E h \in Handles : Shown(c, h)) =>
      /\ record = Row("attached", granted[c])
      /\ \A d \in Clients \ raced : d # c => granted[d] < granted[c]

Got(c) == heard[c] \cup (IF pc[c] = "replay" THEN replay[c] ELSE {})

\* Every event of session h reached c, but for the one its thread holds; what
\* is on its way to somebody else c has too.
Fed(c, h) ==
  /\ target[h] = c
  /\ \A i \in DOMAIN log : log[i] = h => i \in Got(c) \/ i = hand[h]
  /\ aim[h] \in Clients \ {c} => hand[h] \in Got(c)

Taken(c, h) ==
  /\ job[c].kind = "start" /\ job[c].handle = h
  /\ pc[c] \in {"replay", "insert", "own", "get", "put", "reply"}

Hands ==
  \A h \in Handles :
    /\ aim[h] # Nobody => hand[h] # 0
    /\ hand[h] # 0 => h \in threads /\ hand[h] \in DOMAIN log

Events ==
  \A c \in Clients \ raced : conn[c] = "open" =>
    /\ pc[c] = "read" => target[job[c].handle] = c
    /\ \A h \in Handles : Taken(c, h) \/ Shown(c, h) => Fed(c, h)

-----------------------------------------------------------------------------
(* The types are kept.                                                     *)

LEMMA ConnTypesStep == TypeInv /\ [Next]_vars => ConnTypes'
<1> SUFFICES ASSUME TypeInv, [Next]_vars PROVE ConnTypes'
  OBVIOUS
<1> USE DEF TypeInv, ConnTypes, JobTypes, Jobs, Stages, Starting, Leaving, At,
   Goto, clientVars, ownerVars, registryVars, eventVars
<1>1. ASSUME NEW c \in Clients, ClientStep(c) PROVE ConnTypes'
  <2>1. CASE Connect(c)
    BY <2>1 DEF Connect
  <2>2. CASE Lose(c)
    BY <2>2 DEF Lose
  <2>3. CASE AskStart(c)
    BY <2>3 DEF AskStart, Free
  <2>4. CASE \E kind \in {"close", "detach"} : AskLeave(c, kind)
    BY <2>4 DEF AskLeave, Free
  <2>5. CASE GiveUp(c)
    BY <2>5 DEF GiveUp, Forgets
  <2> QED BY <1>1, <2>1, <2>2, <2>3, <2>4, <2>5 DEF ClientStep
<1>2. ASSUME NEW c \in Clients, StartStep(c) PROVE ConnTypes'
  BY <1>2 DEF StartStep, Attach, AttachRead, Replay, Hears, StartFails, Done,
     Fresh, Insert, Own
<1>3. ASSUME NEW c \in Clients, RecordStep(c) PROVE ConnTypes'
  <2>1. CASE Get(c)
    BY <2>1 DEF Get, After
  <2>2. CASE Put(c)
    BY <2>2 DEF Put, After, StateOf
  <2>3. CASE Reply(c)
    BY <2>3 DEF Reply, Done, Forgets
  <2> QED BY <1>3, <2>1, <2>2, <2>3 DEF RecordStep
<1>4. ASSUME NEW c \in Clients, LeaveStep(c) PROVE ConnTypes'
  BY <1>4 DEF LeaveStep, Check, Close, Disown, HandlerEnds, SweepNext,
     SweepRemove
<1>5. ASSUME NEW h \in Handles, ThreadStep(h) PROVE ConnTypes'
  BY <1>5 DEF ThreadStep, Write, Aim, Send, Hears, ThreadEnds
<1>6. CASE UNCHANGED vars
  BY <1>6 DEF vars
<1> QED BY <1>1, <1>2, <1>3, <1>4, <1>5, <1>6, Steps

LEMMA JobTypesStep == TypeInv /\ [Next]_vars => JobTypes'
<1> SUFFICES ASSUME TypeInv, [Next]_vars PROVE JobTypes'
  OBVIOUS
<1> USE BoundsAssumption, NobodyAssumption DEF TypeInv, ConnTypes, JobTypes,
   RecordTypes, OwnerTypes, SessionTypes, Handles, Jobs, Job, NoJob, Starting,
   Leaving, At, Goto, clientVars, ownerVars, registryVars, eventVars
<1>1. ASSUME NEW c \in Clients, ClientStep(c) PROVE JobTypes'
  <2>1. CASE Connect(c)
    BY <2>1 DEF Connect
  <2>2. CASE Lose(c)
    BY <2>2 DEF Lose
  <2>3. CASE AskStart(c)
    BY <2>3 DEF AskStart, Free
  <2>4. CASE \E kind \in {"close", "detach"} : AskLeave(c, kind)
    BY <2>4 DEF AskLeave, Free
  <2>5. CASE GiveUp(c)
    BY <2>5 DEF GiveUp, Forgets
  <2> QED BY <1>1, <2>1, <2>2, <2>3, <2>4, <2>5 DEF ClientStep
<1>2. ASSUME NEW c \in Clients, StartStep(c) PROVE JobTypes'
  <2>1. CASE Attach(c)
    <3>1. CASE sessions = {} /\ Goto(c, "fresh") /\ UNCHANGED <<job, locked, target>>
      BY <2>1, <3>1 DEF Attach
    <3>2. ASSUME NEW h \in sessions, job' = [job EXCEPT ![c].handle = h], Goto(c, "read")
          PROVE  JobTypes'
      <4>1. h \in Handles
        OBVIOUS
      <4>2. job'[c] = [job[c] EXCEPT !.handle = h] /\ job'[c] \in Jobs
        BY <3>2, <4>1, JobUpdate
      <4>3. job'[c].kind = "start" /\ job'[c].handle \in Handles
        BY <2>1, <4>1, <4>2, JobUpdate DEF Attach
      <4> QED BY <2>1, <3>2, <4>2, <4>3 DEF Attach
    <3> QED BY <2>1, <3>1, <3>2 DEF Attach
  <2>2. CASE AttachRead(c)
    BY <2>2 DEF AttachRead
  <2>3. CASE Replay(c)
    BY <2>3 DEF Replay, Hears
  <2>4. CASE StartFails(c)
    BY <2>4 DEF StartFails, Done
  <2>5. CASE Fresh(c)
    <3>1. handles' \in Handles /\ job' = [job EXCEPT ![c].handle = handles']
          /\ pc' = [pc EXCEPT ![c] = "insert"] /\ conn' = conn
      BY <2>5 DEF Fresh
    <3>2. job'[c] = [job[c] EXCEPT !.handle = handles'] /\ job'[c] \in Jobs
      BY <3>1, JobUpdate
    <3>3. job'[c].kind = "start" /\ job'[c].handle \in Handles
      BY <2>5, <3>1, <3>2, JobUpdate DEF Fresh
    <3> QED BY <2>5, <3>1, <3>2, <3>3 DEF At, Fresh
  <2>6. CASE Insert(c)
    BY <2>6 DEF Insert
  <2>7. CASE Own(c)
    BY <2>7 DEF Own
  <2> QED BY <1>2, <2>1, <2>2, <2>3, <2>4, <2>5, <2>6, <2>7 DEF StartStep
<1>3. ASSUME NEW c \in Clients, RecordStep(c) PROVE JobTypes'
  <2>1. CASE Get(c)
    <3>1. CASE Goto(c, After(c)) /\ UNCHANGED job
      BY <2>1, <3>1 DEF Get, After
    <3>2. CASE Goto(c, "put") /\ job' = [job EXCEPT ![c].row = record]
      <4>1. job'[c] = [job[c] EXCEPT !.row = record] /\ job'[c] \in Jobs
        BY <3>2, JobUpdate
      <4>2. job'[c].kind = job[c].kind /\ job'[c].handle = job[c].handle
        BY <4>1, JobUpdate
      <4> QED BY <2>1, <3>2, <4>1, <4>2 DEF Get
    <3> QED BY <2>1, <3>1, <3>2 DEF Get
  <2>2. CASE Put(c)
    BY <2>2 DEF Put, After, StateOf
  <2>3. CASE Reply(c)
    BY <2>3 DEF Reply, Done, Forgets
  <2> QED BY <1>3, <2>1, <2>2, <2>3 DEF RecordStep
<1>4. ASSUME NEW c \in Clients, LeaveStep(c) PROVE JobTypes'
  <2>1. CASE Check(c)
    BY <2>1 DEF Check
  <2>2. CASE Close(c)
    BY <2>2 DEF Close
  <2>3. CASE Disown(c)
    BY <2>3 DEF Disown
  <2>4. CASE HandlerEnds(c)
    BY <2>4 DEF HandlerEnds
  <2>5. CASE SweepNext(c)
    <3>1. CASE Goto(c, "gone") /\ UNCHANGED job
      BY <2>5, <3>1 DEF SweepNext
    <3>2. ASSUME NEW h \in owned[c], job' = [job EXCEPT ![c] = Job("sweep", h)], Goto(c, "remove")
          PROVE  JobTypes'
      <4>1. h \in Handles /\ job'[c] = Job("sweep", h)
        BY <3>2
      <4> QED BY <3>2, <4>1
    <3>3. CASE UNCHANGED <<job, pc>>
      BY <3>3
    <3> QED BY <2>5, <3>1, <3>2, <3>3 DEF SweepNext
  <2>6. CASE SweepRemove(c)
    BY <2>6 DEF SweepRemove
  <2> QED BY <1>4, <2>1, <2>2, <2>3, <2>4, <2>5, <2>6 DEF LeaveStep
<1>5. ASSUME NEW h \in Handles, ThreadStep(h) PROVE JobTypes'
  BY <1>5 DEF ThreadStep, Write, Aim, Send, Hears, ThreadEnds
<1>6. CASE UNCHANGED vars
  BY <1>6 DEF vars
<1> QED BY <1>1, <1>2, <1>3, <1>4, <1>5, <1>6, Steps

LEMMA RecordTypesStep == TypeInv /\ [Next]_vars => RecordTypes'
<1> SUFFICES ASSUME TypeInv, [Next]_vars PROVE RecordTypes'
  OBVIOUS
<1> USE BoundsAssumption, NobodyAssumption DEF TypeInv, JobTypes, RecordTypes,
   Jobs, Rows, Row, At, clientVars, ownerVars, registryVars, eventVars
<1>1. ASSUME NEW c \in Clients, ClientStep(c) PROVE RecordTypes'
  BY <1>1 DEF ClientStep, Connect, Lose, AskStart, Free, AskLeave, GiveUp,
     Forgets
<1>2. ASSUME NEW c \in Clients, StartStep(c) PROVE RecordTypes'
  BY <1>2 DEF StartStep, Attach, AttachRead, Replay, Hears, StartFails, Done,
     Fresh, Insert, Own
<1>3. ASSUME NEW c \in Clients, RecordStep(c) PROVE RecordTypes'
  <2>1. CASE Get(c)
    BY <2>1 DEF Get, After
  <2>2. CASE Put(c)
    BY <2>2 DEF Put, After, StateOf
  <2>3. CASE Reply(c)
    BY <2>3 DEF Reply, Done, Forgets
  <2> QED BY <1>3, <2>1, <2>2, <2>3 DEF RecordStep
<1>4. ASSUME NEW c \in Clients, LeaveStep(c) PROVE RecordTypes'
  BY <1>4 DEF LeaveStep, Check, Close, Disown, HandlerEnds, SweepNext,
     SweepRemove
<1>5. ASSUME NEW h \in Handles, ThreadStep(h) PROVE RecordTypes'
  BY <1>5 DEF ThreadStep, Write, Aim, Send, Hears, ThreadEnds
<1>6. CASE UNCHANGED vars
  BY <1>6 DEF vars
<1> QED BY <1>1, <1>2, <1>3, <1>4, <1>5, <1>6, Steps

LEMMA OwnerTypesStep == TypeInv /\ [Next]_vars => OwnerTypes'
<1> SUFFICES ASSUME TypeInv, [Next]_vars PROVE OwnerTypes'
  OBVIOUS
<1> USE DEF TypeInv, JobTypes, OwnerTypes, Starting, Leaving, At, clientVars,
   ownerVars, registryVars, eventVars
<1>1. ASSUME NEW c \in Clients, ClientStep(c) PROVE OwnerTypes'
  BY <1>1 DEF ClientStep, Connect, Lose, AskStart, Free, AskLeave, GiveUp,
     Forgets
<1>2. ASSUME NEW c \in Clients, StartStep(c) PROVE OwnerTypes'
  BY <1>2 DEF StartStep, Attach, AttachRead, Replay, Hears, StartFails, Done,
     Fresh, Insert, Own
<1>3. ASSUME NEW c \in Clients, RecordStep(c) PROVE OwnerTypes'
  BY <1>3 DEF RecordStep, Get, After, Put, StateOf, Reply, Done, Forgets
<1>4. ASSUME NEW c \in Clients, LeaveStep(c) PROVE OwnerTypes'
  BY <1>4 DEF LeaveStep, Check, Close, Disown, HandlerEnds, SweepNext,
     SweepRemove
<1>5. ASSUME NEW h \in Handles, ThreadStep(h) PROVE OwnerTypes'
  BY <1>5 DEF ThreadStep, Write, Aim, Send, Hears, ThreadEnds
<1>6. CASE UNCHANGED vars
  BY <1>6 DEF vars
<1> QED BY <1>1, <1>2, <1>3, <1>4, <1>5, <1>6, Steps

LEMMA SessionTypesStep == TypeInv /\ [Next]_vars => SessionTypes'
<1> SUFFICES ASSUME TypeInv, [Next]_vars PROVE SessionTypes'
  OBVIOUS
<1> USE BoundsAssumption, NobodyAssumption DEF TypeInv, JobTypes, SessionTypes,
   Handles, Starting, Leaving, At, clientVars, ownerVars, registryVars,
   eventVars
<1>1. ASSUME NEW c \in Clients, ClientStep(c) PROVE SessionTypes'
  BY <1>1 DEF ClientStep, Connect, Lose, AskStart, Free, AskLeave, GiveUp,
     Forgets
<1>2. ASSUME NEW c \in Clients, StartStep(c) PROVE SessionTypes'
  <2>1. CASE Attach(c)
    BY <2>1 DEF Attach
  <2>2. CASE AttachRead(c)
    BY <2>2 DEF AttachRead
  <2>3. CASE Replay(c)
    BY <2>3 DEF Replay, Hears
  <2>4. CASE StartFails(c)
    BY <2>4 DEF StartFails, Done
  <2>5. CASE Fresh(c)
    BY <2>5 DEF Fresh, Hears
  <2>6. CASE Insert(c)
    BY <2>6 DEF Insert
  <2>7. CASE Own(c)
    BY <2>7 DEF Own
  <2> QED BY <1>2, <2>1, <2>2, <2>3, <2>4, <2>5, <2>6, <2>7 DEF StartStep
<1>3. ASSUME NEW c \in Clients, RecordStep(c) PROVE SessionTypes'
  BY <1>3 DEF RecordStep, Get, After, Put, StateOf, Reply, Done, Forgets
<1>4. ASSUME NEW c \in Clients, LeaveStep(c) PROVE SessionTypes'
  BY <1>4 DEF LeaveStep, Check, Close, Disown, HandlerEnds, SweepNext,
     SweepRemove
<1>5. ASSUME NEW h \in Handles, ThreadStep(h) PROVE SessionTypes'
  BY <1>5 DEF ThreadStep, Write, Aim, Send, Hears, ThreadEnds
<1>6. CASE UNCHANGED vars
  BY <1>6 DEF vars
<1> QED BY <1>1, <1>2, <1>3, <1>4, <1>5, <1>6, Steps

LEMMA EventTypesStep == TypeInv /\ [Next]_vars => EventTypes'
<1> SUFFICES ASSUME TypeInv, [Next]_vars PROVE EventTypes'
  OBVIOUS
<1> USE BoundsAssumption, NobodyAssumption DEF TypeInv, SessionTypes,
   EventTypes, clientVars, ownerVars, registryVars, eventVars
<1>1. ASSUME NEW c \in Clients, ClientStep(c) PROVE EventTypes'
  BY <1>1 DEF ClientStep, Connect, Lose, AskStart, Free, AskLeave, GiveUp,
     Forgets
<1>2. ASSUME NEW c \in Clients, StartStep(c) PROVE EventTypes'
  <2>1. CASE Attach(c)
    BY <2>1 DEF Attach
  <2>2. CASE AttachRead(c)
    BY <2>2 DEF AttachRead
  <2>3. CASE Replay(c)
    BY <2>3 DEF Replay, Hears
  <2>4. CASE StartFails(c)
    BY <2>4 DEF StartFails, Done
  <2>5. CASE Fresh(c)
    BY <2>5 DEF Fresh, Hears
  <2>6. CASE Insert(c)
    BY <2>6 DEF Insert
  <2>7. CASE Own(c)
    BY <2>7 DEF Own
  <2> QED BY <1>2, <2>1, <2>2, <2>3, <2>4, <2>5, <2>6, <2>7 DEF StartStep
<1>3. ASSUME NEW c \in Clients, RecordStep(c) PROVE EventTypes'
  BY <1>3 DEF RecordStep, Get, After, Put, StateOf, Reply, Done, Forgets
<1>4. ASSUME NEW c \in Clients, LeaveStep(c) PROVE EventTypes'
  BY <1>4 DEF LeaveStep, Check, Close, Disown, HandlerEnds, SweepNext,
     SweepRemove
<1>5. ASSUME NEW h \in Handles, ThreadStep(h) PROVE EventTypes'
  <2>1. CASE Write(h)
    BY <2>1 DEF Write
  <2>2. CASE Aim(h)
    BY <2>2 DEF Aim
  <2>3. CASE Send(h)
    BY <2>3 DEF Send, Hears
  <2>4. CASE ThreadEnds(h)
    BY <2>4 DEF ThreadEnds
  <2> QED BY <1>5, <2>1, <2>2, <2>3, <2>4 DEF ThreadStep
<1>6. CASE UNCHANGED vars
  BY <1>6 DEF vars
<1> QED BY <1>1, <1>2, <1>3, <1>4, <1>5, <1>6, Steps

LEMMA TypeInit == Init => TypeInv
<1> SUFFICES ASSUME Init PROVE TypeInv
  OBVIOUS
<1> USE BoundsAssumption, NobodyAssumption DEF Init
<1>1. ConnTypes
  BY DEF ConnTypes, Stages
<1>2. JobTypes
  BY DEF JobTypes, Jobs, NoJob, Job, Starting, Leaving
<1>3. RecordTypes /\ OwnerTypes /\ SessionTypes
  BY DEF RecordTypes, OwnerTypes, SessionTypes
<1>4. EventTypes
  BY DEF EventTypes
<1> QED BY <1>1, <1>2, <1>3, <1>4 DEF TypeInv

LEMMA TypeStep == TypeInv /\ [Next]_vars => TypeInv'
BY ConnTypesStep, JobTypesStep, RecordTypesStep, OwnerTypesStep, SessionTypesStep,
   EventTypesStep DEF TypeInv

-----------------------------------------------------------------------------
(* Who is connected, who owns what, and the one session of the tab.        *)

LEMMA ConnectionsStep == TypeInv /\ Connections /\ [Next]_vars => Connections'
<1> SUFFICES ASSUME TypeInv, Connections, [Next]_vars PROVE Connections'
  OBVIOUS
<1> USE DEF TypeInv, ConnTypes, JobTypes, Connections, Active, Starting,
   Leaving, Jobs, Job, NoJob, At, Goto, clientVars, ownerVars, registryVars,
   eventVars
<1>1. ASSUME NEW c \in Clients, ClientStep(c) PROVE Connections'
  <2>1. CASE Connect(c)
    BY <2>1 DEF Connect
  <2>2. CASE Lose(c)
    BY <2>2 DEF Lose
  <2>3. CASE AskStart(c)
    BY <2>3 DEF AskStart, Free
  <2>4. CASE \E kind \in {"close", "detach"} : AskLeave(c, kind)
    BY <2>4 DEF AskLeave, Free
  <2>5. CASE GiveUp(c)
    BY <2>5 DEF GiveUp, Forgets
  <2> QED BY <1>1, <2>1, <2>2, <2>3, <2>4, <2>5 DEF ClientStep
<1>2. ASSUME NEW c \in Clients, StartStep(c) PROVE Connections'
  <2>1. CASE Attach(c)
    BY <2>1 DEF Attach
  <2>2. CASE AttachRead(c)
    BY <2>2 DEF AttachRead
  <2>3. CASE Replay(c)
    BY <2>3 DEF Replay, Hears
  <2>4. CASE StartFails(c)
    BY <2>4 DEF StartFails, Done
  <2>5. CASE Fresh(c)
    BY <2>5 DEF Fresh, Hears
  <2>6. CASE Insert(c)
    BY <2>6 DEF Insert
  <2>7. CASE Own(c)
    BY <2>7 DEF Own
  <2> QED BY <1>2, <2>1, <2>2, <2>3, <2>4, <2>5, <2>6, <2>7 DEF StartStep
<1>3. ASSUME NEW c \in Clients, RecordStep(c) PROVE Connections'
  <2>1. CASE Get(c)
    BY <2>1 DEF Get, After
  <2>2. CASE Put(c)
    BY <2>2 DEF Put, After, StateOf
  <2>3. CASE Reply(c)
    BY <2>3 DEF Reply, Done, Forgets
  <2> QED BY <1>3, <2>1, <2>2, <2>3 DEF RecordStep
<1>4. ASSUME NEW c \in Clients, LeaveStep(c) PROVE Connections'
  <2>1. CASE Check(c)
    BY <2>1 DEF Check
  <2>2. CASE Close(c)
    BY <2>2 DEF Close
  <2>3. CASE Disown(c)
    BY <2>3 DEF Disown
  <2>4. CASE HandlerEnds(c)
    BY <2>4 DEF HandlerEnds
  <2>5. CASE SweepNext(c)
    BY <2>5 DEF SweepNext
  <2>6. CASE SweepRemove(c)
    BY <2>6 DEF SweepRemove
  <2> QED BY <1>4, <2>1, <2>2, <2>3, <2>4, <2>5, <2>6 DEF LeaveStep
<1>5. ASSUME NEW h \in Handles, ThreadStep(h) PROVE Connections'
  BY <1>5 DEF ThreadStep, Write, Aim, Send, Hears, ThreadEnds
<1>6. CASE UNCHANGED vars
  BY <1>6 DEF vars
<1> QED BY <1>1, <1>2, <1>3, <1>4, <1>5, <1>6, Steps

LEMMA OwnersStep == TypeInv /\ Owners /\ [Next]_vars => Owners'
<1> SUFFICES ASSUME TypeInv, Owners, [Next]_vars PROVE Owners'
  OBVIOUS
<1> USE NobodyAssumption DEF TypeInv, ConnTypes, JobTypes, OwnerTypes, Owners,
   Starting, Leaving, Jobs, Job, NoJob, At, Goto, clientVars, ownerVars,
   registryVars, eventVars
<1>1. ASSUME NEW c \in Clients, ClientStep(c) PROVE Owners'
  <2>1. CASE Connect(c)
    BY <2>1 DEF Connect
  <2>2. CASE Lose(c)
    BY <2>2 DEF Lose
  <2>3. CASE AskStart(c)
    BY <2>3 DEF AskStart, Free
  <2>4. CASE \E kind \in {"close", "detach"} : AskLeave(c, kind)
    BY <2>4 DEF AskLeave, Free
  <2>5. CASE GiveUp(c)
    BY <2>5 DEF GiveUp, Forgets
  <2> QED BY <1>1, <2>1, <2>2, <2>3, <2>4, <2>5 DEF ClientStep
<1>2. ASSUME NEW c \in Clients, StartStep(c) PROVE Owners'
  <2>1. CASE Attach(c)
    BY <2>1 DEF Attach
  <2>2. CASE AttachRead(c)
    BY <2>2 DEF AttachRead
  <2>3. CASE Replay(c)
    BY <2>3 DEF Replay, Hears
  <2>4. CASE StartFails(c)
    BY <2>4 DEF StartFails, Done
  <2>5. CASE Fresh(c)
    BY <2>5 DEF Fresh, Hears
  <2>6. CASE Insert(c)
    BY <2>6 DEF Insert
  <2>7. CASE Own(c)
    BY <2>7 DEF Own
  <2> QED BY <1>2, <2>1, <2>2, <2>3, <2>4, <2>5, <2>6, <2>7 DEF StartStep
<1>3. ASSUME NEW c \in Clients, RecordStep(c) PROVE Owners'
  <2>1. CASE Get(c)
    BY <2>1 DEF Get, After
  <2>2. CASE Put(c)
    BY <2>2 DEF Put, After, StateOf
  <2>3. CASE Reply(c)
    BY <2>3 DEF Reply, Done, Forgets
  <2> QED BY <1>3, <2>1, <2>2, <2>3 DEF RecordStep
<1>4. ASSUME NEW c \in Clients, LeaveStep(c) PROVE Owners'
  <2>1. CASE Check(c)
    BY <2>1 DEF Check
  <2>2. CASE Close(c)
    BY <2>2 DEF Close
  <2>3. CASE Disown(c)
    BY <2>3 DEF Disown
  <2>4. CASE HandlerEnds(c)
    BY <2>4 DEF HandlerEnds
  <2>5. CASE SweepNext(c)
    BY <2>5 DEF SweepNext
  <2>6. CASE SweepRemove(c)
    BY <2>6 DEF SweepRemove
  <2> QED BY <1>4, <2>1, <2>2, <2>3, <2>4, <2>5, <2>6 DEF LeaveStep
<1>5. ASSUME NEW h \in Handles, ThreadStep(h) PROVE Owners'
  BY <1>5 DEF ThreadStep, Write, Aim, Send, Hears, ThreadEnds
<1>6. CASE UNCHANGED vars
  BY <1>6 DEF vars
<1> QED BY <1>1, <1>2, <1>3, <1>4, <1>5, <1>6, Steps

LEMMA Racing == ASSUME [Next]_vars PROVE raced \subseteq raced'
BY DEF Next, vars

LEMMA ApartStep == [Next]_vars /\ Apart => Apart' /\ raced \subseteq raced'
<1> SUFFICES ASSUME Apart, [Next]_vars PROVE Apart' /\ raced \subseteq raced'
  OBVIOUS
<1>1. CASE Next
  BY <1>1 DEF Next, Apart
<1>2. CASE UNCHANGED vars
  BY <1>2 DEF vars, Apart, Overlapping
<1> QED BY <1>1, <1>2

LEMMA OneSessionStep == TypeInv /\ OneSession /\ Connections /\ [Next]_vars => OneSession'
<1> SUFFICES ASSUME TypeInv, OneSession, Connections, [Next]_vars PROVE OneSession'
  OBVIOUS
<1> USE BoundsAssumption DEF TypeInv, ConnTypes, JobTypes, SessionTypes,
   OneSession, Connections, Active, Jobs, Handles, Starting, Leaving, At, Goto,
   clientVars, ownerVars, registryVars, eventVars
<1>1. ASSUME NEW c \in Clients, ClientStep(c) PROVE OneSession'
  <2>1. CASE Connect(c)
    BY <2>1 DEF Connect
  <2>2. CASE Lose(c)
    BY <2>2 DEF Lose
  <2>3. CASE AskStart(c)
    BY <2>3 DEF AskStart, Free
  <2>4. CASE \E kind \in {"close", "detach"} : AskLeave(c, kind)
    BY <2>4 DEF AskLeave, Free
  <2>5. CASE GiveUp(c)
    BY <2>5 DEF GiveUp, Forgets
  <2> QED BY <1>1, <2>1, <2>2, <2>3, <2>4, <2>5 DEF ClientStep
<1>2. ASSUME NEW c \in Clients, StartStep(c) PROVE OneSession'
  <2>1. CASE Attach(c)
    BY <2>1 DEF Attach
  <2>2. CASE AttachRead(c)
    BY <2>2 DEF AttachRead
  <2>3. CASE Replay(c)
    BY <2>3 DEF Replay, Hears
  <2>4. CASE StartFails(c)
    BY <2>4 DEF StartFails, Done
  <2>5. CASE Fresh(c)
    BY <2>5 DEF Fresh, Hears
  <2>6. CASE Insert(c)
    <3>1. /\ sessions' = {job[c].handle} /\ threads' = threads \cup {job[c].handle}
          /\ handles' = handles /\ job[c].handle \in 1 .. handles
      BY <2>6 DEF Insert
    <3>2. \A d \in Clients : pc'[d] \notin {"fresh", "insert"}
      BY <2>6 DEF Insert
    <3> QED BY <3>1, <3>2
  <2>7. CASE Own(c)
    BY <2>7 DEF Own
  <2> QED BY <1>2, <2>1, <2>2, <2>3, <2>4, <2>5, <2>6, <2>7 DEF StartStep
<1>3. ASSUME NEW c \in Clients, RecordStep(c) PROVE OneSession'
  <2>1. CASE Get(c)
    BY <2>1 DEF Get, After
  <2>2. CASE Put(c)
    BY <2>2 DEF Put, After, StateOf
  <2>3. CASE Reply(c)
    BY <2>3 DEF Reply, Done, Forgets
  <2> QED BY <1>3, <2>1, <2>2, <2>3 DEF RecordStep
<1>4. ASSUME NEW c \in Clients, LeaveStep(c) PROVE OneSession'
  <2>1. CASE Check(c)
    BY <2>1 DEF Check
  <2>2. CASE Close(c)
    BY <2>2 DEF Close
  <2>3. CASE Disown(c)
    BY <2>3 DEF Disown
  <2>4. CASE HandlerEnds(c)
    BY <2>4 DEF HandlerEnds
  <2>5. CASE SweepNext(c)
    BY <2>5 DEF SweepNext
  <2>6. CASE SweepRemove(c)
    BY <2>6 DEF SweepRemove
  <2> QED BY <1>4, <2>1, <2>2, <2>3, <2>4, <2>5, <2>6 DEF LeaveStep
<1>5. ASSUME NEW h \in Handles, ThreadStep(h) PROVE OneSession'
  <2>1. CASE Write(h)
    BY <2>1 DEF Write
  <2>2. CASE Aim(h)
    BY <2>2 DEF Aim
  <2>3. CASE Send(h)
    BY <2>3 DEF Send, Hears
  <2>4. CASE ThreadEnds(h)
    BY <2>4 DEF ThreadEnds
  <2> QED BY <1>5, <2>1, <2>2, <2>3, <2>4 DEF ThreadStep
<1>6. CASE UNCHANGED vars
  BY <1>6 DEF vars
<1> QED BY <1>1, <1>2, <1>3, <1>4, <1>5, <1>6, Steps

LEMMA LogGrows ==
  ASSUME NEW s \in Seq(Handles), NEW h \in Handles
  PROVE  /\ Len(Append(s, h)) # 0 /\ Len(Append(s, h)) \in DOMAIN Append(s, h)
         /\ DOMAIN s \subseteq DOMAIN Append(s, h)
         /\ \A i \in DOMAIN Append(s, h) :
              (i \in DOMAIN s /\ Append(s, h)[i] = s[i]) \/ i = Len(Append(s, h))
         /\ Append(s, h)[Len(Append(s, h))] = h
BY AppendProperties, LenProperties

LEMMA HandsStep == TypeInv /\ Hands /\ [Next]_vars => Hands'
<1> SUFFICES ASSUME TypeInv, Hands, [Next]_vars PROVE Hands'
  OBVIOUS
<1> USE NobodyAssumption, LogGrows DEF TypeInv, SessionTypes, EventTypes, Hands,
   clientVars, ownerVars, registryVars, eventVars
<1>1. ASSUME NEW c \in Clients, ClientStep(c) PROVE Hands'
  BY <1>1 DEF ClientStep, Connect, Lose, AskStart, Free, AskLeave, GiveUp,
     Forgets
<1>2. ASSUME NEW c \in Clients, StartStep(c) PROVE Hands'
  BY <1>2 DEF StartStep, Attach, AttachRead, Replay, Hears, StartFails, Done,
     Fresh, Insert, Own
<1>3. ASSUME NEW c \in Clients, RecordStep(c) PROVE Hands'
  BY <1>3 DEF RecordStep, Get, After, Put, StateOf, Reply, Done, Forgets
<1>4. ASSUME NEW c \in Clients, LeaveStep(c) PROVE Hands'
  BY <1>4 DEF LeaveStep, Check, Close, Disown, HandlerEnds, SweepNext,
     SweepRemove
<1>5. ASSUME NEW h \in Handles, ThreadStep(h) PROVE Hands'
  <2>1. CASE Write(h)
    <3>1. /\ log' = Append(log, h) /\ hand' = [hand EXCEPT ![h] = Len(log')]
          /\ h \in threads /\ UNCHANGED <<aim, threads>> /\ hand[h] = 0
      BY <2>1 DEF Write
    <3>2. Len(log') # 0 /\ Len(log') \in DOMAIN log' /\ DOMAIN log \subseteq DOMAIN log'
      BY <3>1, LogGrows
    <3> QED BY <3>1, <3>2
  <2>2. CASE Aim(h)
    BY <2>2 DEF Aim
  <2>3. CASE Send(h)
    BY <2>3 DEF Send, Hears
  <2>4. CASE ThreadEnds(h)
    BY <2>4 DEF ThreadEnds
  <2> QED BY <1>5, <2>1, <2>2, <2>3, <2>4 DEF ThreadStep
<1>6. CASE UNCHANGED vars
  BY <1>6 DEF vars
<1> QED BY <1>1, <1>2, <1>3, <1>4, <1>5, <1>6, Steps

-----------------------------------------------------------------------------
(* A step of one connection leaves what the others have, and a step of a   *)
(* session's thread leaves all of them.                                    *)

HandlerStep(c) == StartStep(c) \/ RecordStep(c) \/ LeaveStep(c)

Same(c) ==
  /\ conn'[c] = conn[c] /\ pc'[c] = pc[c] /\ job'[c] = job[c] /\ known'[c] = known[c]
  /\ replay'[c] = replay[c] /\ granted'[c] = granted[c]

LEMMA OthersSame ==
  ASSUME TypeInv, NEW a \in Clients, ClientStep(a) \/ HandlerStep(a)
  PROVE  \A c \in Clients \ {a} : Same(c)
<1> USE DEF TypeInv, ConnTypes, JobTypes, RecordTypes, EventTypes, Same, Goto,
            clientVars, ownerVars, registryVars, eventVars
<1>1. CASE ClientStep(a)
  BY <1>1 DEF ClientStep, Connect, Lose, AskStart, AskLeave, GiveUp, Forgets
<1>2. CASE StartStep(a)
  BY <1>2 DEF StartStep, Attach, AttachRead, Replay, StartFails, Fresh, Insert, Own, Done
<1>3. CASE RecordStep(a)
  BY <1>3 DEF RecordStep, Get, Put, Reply, Done, Forgets
<1>4. CASE LeaveStep(a)
  BY <1>4 DEF LeaveStep, Check, Close, Disown, HandlerEnds, SweepNext, SweepRemove
<1> QED BY <1>1, <1>2, <1>3, <1>4 DEF HandlerStep

LEMMA ThreadSame ==
  ASSUME NEW h \in Handles, ThreadStep(h)
  PROVE  /\ UNCHANGED <<clientVars, pc, job, ownerVars, sessions, handles, replay>>
         /\ \A c \in Clients : Same(c)
BY DEF ThreadStep, Write, Aim, Send, ThreadEnds, Same, clientVars, ownerVars, registryVars

LEMMA StutterSame == ASSUME UNCHANGED vars PROVE \A c \in Clients : Same(c)
BY DEF vars, Same, clientVars, ownerVars, registryVars, eventVars

LEMMA TakingStep ==
  TypeInv /\ Apart /\ Connections /\ Taking /\ [Next]_vars => Taking'
<1> SUFFICES ASSUME TypeInv, Apart, Connections, Taking, [Next]_vars,
                    NEW c \in Clients, c \notin raced', pc'[c] \in {"read", "replay", "own"}
             PROVE  job'[c].handle \in sessions'
  BY DEF Taking
<1>0. c \notin raced
  BY ApartStep
<1>1. ASSUME Same(c), sessions \subseteq sessions' PROVE job'[c].handle \in sessions'
  BY <1>0, <1>1 DEF Taking, Same
<1>2. ASSUME NEW a \in Clients, ClientStep(a) \/ HandlerStep(a), a # c
      PROVE  job'[c].handle \in sessions'
  <2>1. Same(c) /\ pc[c] \in Starting
    BY <1>2, OthersSame DEF Same, Starting
  <2>2. pc[a] \notin Leaving
    BY <1>0, <1>2, <2>1 DEF Apart, Overlapping
  <2>3. sessions \subseteq sessions'
    BY <1>2, <2>2 DEF ClientStep, Connect, Lose, AskStart, AskLeave, GiveUp, HandlerStep,
       StartStep, Attach, AttachRead, Replay, StartFails, Fresh, Insert, Own, RecordStep,
       Get, Put, Reply, LeaveStep, Check, Close, Disown, HandlerEnds, SweepNext,
       SweepRemove, At, Leaving, registryVars
  <2> QED BY <1>1, <2>1, <2>3
<1>3. CASE ClientStep(c)
  BY <1>0, <1>3 DEF TypeInv, ConnTypes, ClientStep, Connect, Lose, AskStart, AskLeave,
     GiveUp, Goto, registryVars, Taking
<1>4. CASE StartStep(c)
  <2> USE <1>0 DEF TypeInv, ConnTypes, JobTypes, At, Goto, Done, registryVars, Taking
  <2>1. CASE Attach(c)
    <3>1. PICK h \in sessions : job' = [job EXCEPT ![c].handle = h]
      BY <2>1 DEF Attach
    <3> QED BY <2>1, <3>1, JobUpdate DEF Attach
  <2>2. CASE AttachRead(c) \/ Replay(c) \/ StartFails(c) \/ Own(c) \/ Fresh(c)
    BY <2>2 DEF AttachRead, Replay, StartFails, Own, Fresh
  <2>3. CASE Insert(c)
    BY <2>3 DEF Insert
  <2> QED BY <1>4, <2>1, <2>2, <2>3 DEF StartStep
<1>5. CASE RecordStep(c) \/ LeaveStep(c)
  <2>1. pc'[c] \notin {"read", "replay", "own"}
    BY <1>5 DEF TypeInv, ConnTypes, JobTypes, Jobs, RecordStep, Get, Put, Reply, Done, After,
       LeaveStep, Check, Close, Disown, HandlerEnds, SweepNext, SweepRemove, At, Goto, Leaving
  <2> QED BY <2>1
<1>6. ASSUME NEW h \in Handles, ThreadStep(h) PROVE job'[c].handle \in sessions'
  BY <1>1, <1>6, ThreadSame
<1>7. CASE UNCHANGED vars
  BY <1>1, <1>7, StutterSame DEF vars, registryVars
<1> QED BY <1>2, <1>3, <1>4, <1>5, <1>6, <1>7, Steps DEF HandlerStep

-----------------------------------------------------------------------------
(* What a holder has stays undisturbed. *)

\* A step of another connection.
LEMMA CalmByOther ==
  ASSUME TypeInv, Apart, Connections, OneSession, NEW c \in Clients \ raced,
         NEW h \in Handles, Holds(c, h), Calm(c, h),
         NEW a \in Clients \ {c}, ClientStep(a) \/ HandlerStep(a)
  PROVE  Calm(c, h)'
<1>0. pc[a] \notin Starting /\ pc[a] # "put"
  BY DEF Holds, Apart, Overlapping, Connections, Active, Calm
<1>1. \A d \in Clients \ {a} : pc'[d] = pc[d] /\ job'[d] = job[d]
  BY OthersSame DEF Same
<1>2. SUFFICES /\ h \in sessions' /\ owner'[h] = c
               /\ pc'[a] \in Leaving => job'[a].kind # "start" /\ job'[a].handle # h
               /\ pc'[a] # "put"
  BY <1>1 DEF Calm
<1> USE DEF TypeInv, ConnTypes, JobTypes, OwnerTypes, Calm, At, Goto, Leaving
<1>3. CASE ClientStep(a)
  BY <1>0, <1>3 DEF ClientStep, Connect, Lose, AskStart, AskLeave, GiveUp,
     ownerVars, registryVars
<1>4. CASE StartStep(a)
  BY <1>0, <1>4 DEF StartStep, Attach, AttachRead, Replay, StartFails, Fresh, Insert,
     Own, Starting
<1>5. CASE Get(a)
  <2>1. job[a].kind \in {"close", "detach", "sweep"} /\ job[a].handle \notin sessions
    BY <1>5 DEF Get, Jobs, OneSession
  <2> QED BY <1>5, <2>1 DEF Get, After, ownerVars, registryVars
<1>6. CASE Reply(a)
  BY <1>6 DEF Reply, Done, ownerVars, registryVars
<1>7. CASE Check(a) \/ Close(a) \/ HandlerEnds(a)
  BY <1>7 DEF Check, Close, HandlerEnds, ownerVars, registryVars
<1>8. CASE Disown(a) \/ SweepRemove(a)
  BY <1>8 DEF Disown, SweepRemove, registryVars
<1>9. CASE SweepNext(a)
  <2>1. CASE \E k \in owned[a] : owner[k] = a /\ job' = [job EXCEPT ![a] = Job("sweep", k)]
                                 /\ Goto(a, "remove")
    BY <1>9, <2>1 DEF SweepNext, Job, registryVars
  <2>2. CASE pc'[a] \in {"gone", "sweep"}
    BY <1>9, <2>2 DEF SweepNext, registryVars
  <2> QED BY <1>9, <2>1, <2>2 DEF SweepNext
<1> QED
  BY <1>0, <1>3, <1>4, <1>5, <1>6, <1>7, <1>8, <1>9
     DEF HandlerStep, RecordStep, LeaveStep, Put

\* What the holder itself holds after its step it held before, or has just owned.
LEMMA HeldBefore ==
  ASSUME TypeInv, Connections, NEW c \in Clients, NEW h \in Handles,
         ClientStep(c) \/ HandlerStep(c), ~Own(c), Holds(c, h)'
  PROVE  Holds(c, h)
<1> USE NobodyAssumption
        DEF TypeInv, ConnTypes, JobTypes, Connections, Holds, Shown, At, Goto, Job, NoJob,
            Jobs, clientVars
<1>1. CASE ClientStep(c)
  BY <1>1 DEF ClientStep, Connect, Lose, AskStart, AskLeave, GiveUp, Forgets, Free
<1>2. CASE Attach(c)
  BY <1>2 DEF Attach, Starting
<1>3. CASE AttachRead(c) \/ Replay(c) \/ StartFails(c) \/ Fresh(c) \/ Insert(c)
  BY <1>3 DEF AttachRead, Replay, StartFails, Fresh, Insert, Done, Starting
<1>4. CASE Get(c)
  BY <1>4 DEF Get, After
<1>5. CASE Put(c)
  BY <1>5 DEF Put, After
<1>6. CASE Reply(c)
  BY <1>6 DEF Reply, Done, Forgets
<1>7. CASE LeaveStep(c)
  BY <1>7 DEF LeaveStep, Check, Close, Disown, HandlerEnds, SweepNext, SweepRemove
<1> QED BY <1>1, <1>2, <1>3, <1>4, <1>5, <1>6, <1>7 DEF HandlerStep, StartStep, RecordStep

LEMMA CalmBySelf ==
  ASSUME TypeInv, Apart, Connections, Taking, NEW c \in Clients \ raced, NEW h \in Handles,
         Holds(c, h) => Calm(c, h),
         ClientStep(c) \/ HandlerStep(c), Holds(c, h)'
  PROVE  Calm(c, h)'
<1>1. \A d \in Clients \ {c} : pc'[d] = pc[d] /\ job'[d] = job[d]
  BY OthersSame DEF Same
<1>2. CASE ~Own(c)
  <2>1. Holds(c, h) /\ Calm(c, h)
    BY <1>2, HeldBefore
  <2>2. h \in sessions' /\ owner'[h] = c
    <3>1. CASE ClientStep(c)
      BY <2>1, <3>1 DEF ClientStep, Connect, Lose, AskStart, AskLeave, GiveUp, ownerVars,
         registryVars, Calm
    <3>2. CASE StartStep(c)
      BY <1>2, <2>1, <3>2 DEF StartStep, Attach, AttachRead, Replay, StartFails, Fresh,
         Insert, ownerVars, registryVars, Calm
    <3>3. CASE RecordStep(c)
      BY <2>1, <3>3 DEF RecordStep, Get, Put, Reply, ownerVars, registryVars, Calm
    <3>4. ~LeaveStep(c)
      BY <2>1 DEF LeaveStep, Check, Close, Disown, HandlerEnds, SweepNext, SweepRemove, At,
         Holds, Shown, TypeInv, JobTypes, Connections
    <3> QED BY <3>1, <3>2, <3>3, <3>4 DEF HandlerStep
  <2> QED BY <1>1, <2>1, <2>2 DEF Calm
<1>3. CASE Own(c)
  <2>1. /\ pc[c] = "own" /\ sessions' = sessions
        /\ owner' = [owner EXCEPT ![job[c].handle] = c]
        /\ pc' = [pc EXCEPT ![c] = "get"]
    BY <1>3 DEF Own, At, Goto, registryVars
  <2>2. job[c].handle \in sessions
    BY <2>1 DEF Taking
  <2>3. \A d \in Clients \ {c} : pc[d] \notin Leaving
    BY <2>1 DEF Apart, Overlapping, Starting
  <2>4. h = job[c].handle \/ Holds(c, h)
    BY <1>3, <2>1 DEF Own, Holds, Shown, clientVars, Starting, TypeInv, ConnTypes, JobTypes
  <2>5. h \in sessions' /\ owner'[h] = c
    BY <2>1, <2>2, <2>4 DEF Calm, TypeInv, OwnerTypes
  <2> QED BY <1>1, <2>3, <2>5 DEF Calm, Leaving
<1> QED BY <1>2, <1>3

LEMMA UndisturbedStep ==
  TypeInv /\ Apart /\ Connections /\ OneSession /\ Taking /\ Undisturbed /\ [Next]_vars
  => Undisturbed'
<1> SUFFICES ASSUME TypeInv, Apart, Connections, OneSession, Taking, Undisturbed,
                    [Next]_vars, NEW c \in Clients, c \notin raced',
                    NEW h \in Handles, Holds(c, h)'
             PROVE  Calm(c, h)'
  BY DEF Undisturbed
<1>0. c \in Clients \ raced /\ (Holds(c, h) => Calm(c, h))
  BY ApartStep DEF Undisturbed
<1>1. ASSUME NEW a \in Clients, ClientStep(a) \/ HandlerStep(a) PROVE Calm(c, h)'
  <2>1. CASE a = c
    BY <1>0, <1>1, <2>1, CalmBySelf
  <2>2. CASE a # c
    <3>1. Holds(c, h)
      BY <1>1, <2>2, OthersSame DEF Same, Holds, Shown
    <3> QED BY <1>0, <1>1, <2>2, <3>1, CalmByOther
  <2> QED BY <2>1, <2>2
<1>2. ASSUME NEW k \in Handles, ThreadStep(k) PROVE Calm(c, h)'
  <2>1. UNCHANGED <<conn, known, pc, job, sessions, owner>>
    BY <1>2, ThreadSame DEF clientVars, ownerVars
  <2> QED BY <1>0, <2>1 DEF Holds, Shown, Calm
<1>3. CASE UNCHANGED vars
  <2>1. UNCHANGED <<conn, known, pc, job, sessions, owner>>
    BY <1>3 DEF vars, clientVars, ownerVars, registryVars
  <2> QED BY <1>0, <2>1 DEF Holds, Shown, Calm
<1> QED BY <1>1, <1>2, <1>3, Steps DEF HandlerStep

-----------------------------------------------------------------------------
(* The generations granted and the record. *)

LEMMA OnlyPutRecords ==
  ASSUME TypeInv, [Next]_vars
  PROVE  \/ \E a \in Clients : Put(a) \/ Get(a)
         \/ /\ UNCHANGED <<record, granted>>
            /\ \A c \in Clients : pc'[c] = "put" => pc[c] = "put" /\ job'[c] = job[c]
<1> USE DEF TypeInv, ConnTypes, Goto, At, clientVars, ownerVars
<1>1. ASSUME NEW a \in Clients, ClientStep(a)
      PROVE  /\ UNCHANGED <<record, granted>>
             /\ \A c \in Clients : pc'[c] = "put" => pc[c] = "put" /\ job'[c] = job[c]
  BY <1>1 DEF ClientStep, Connect, Lose, AskStart, AskLeave, GiveUp, JobTypes
<1>2. ASSUME NEW a \in Clients, StartStep(a)
      PROVE  /\ UNCHANGED <<record, granted>>
             /\ \A c \in Clients : pc'[c] = "put" => pc[c] = "put" /\ job'[c] = job[c]
  BY <1>2 DEF StartStep, Attach, AttachRead, Replay, StartFails, Fresh, Insert, Own, Done,
     JobTypes
<1>3. ASSUME NEW a \in Clients, Reply(a) \/ LeaveStep(a)
      PROVE  /\ UNCHANGED <<record, granted>>
             /\ \A c \in Clients : pc'[c] = "put" => pc[c] = "put" /\ job'[c] = job[c]
  BY <1>3 DEF Reply, Done, LeaveStep, Check, Close, Disown, HandlerEnds, SweepNext,
     SweepRemove, JobTypes
<1>4. ASSUME NEW h \in Handles, ThreadStep(h)
      PROVE  UNCHANGED <<record, granted, pc, job>>
  BY <1>4, ThreadSame
<1>5. CASE UNCHANGED vars
  BY <1>5 DEF vars
<1> QED BY <1>1, <1>2, <1>3, <1>4, <1>5, Steps DEF RecordStep

LEMMA GenerationsStep ==
  TypeInv /\ Undisturbed /\ Generations /\ [Next]_vars => Generations'
<1> SUFFICES ASSUME TypeInv, Undisturbed, Generations, [Next]_vars PROVE Generations'
  OBVIOUS
<1>0. /\ raced \subseteq raced' /\ granted \in [Clients -> Nat]
      /\ record # Nobody => record.gen \in Nat
      /\ \A c \in Clients : job[c].row # Nobody => job[c].row.gen \in Nat
  BY Racing, NobodyAssumption DEF TypeInv, RecordTypes, JobTypes, Jobs, Rows
<1>1. ASSUME NEW a \in Clients, Get(a) PROVE Generations'
  <2>1. /\ UNCHANGED <<record, granted>>
        /\ \A c \in Clients \ {a} : pc'[c] = pc[c] /\ job'[c] = job[c]
    BY <1>1, OthersSame DEF HandlerStep, RecordStep, Same, Get, ownerVars
  <2>2. pc'[a] = "put" => job'[a].row = record
    <3>1. After(a) # "put"
      BY <1>1 DEF Get, At, After, TypeInv, JobTypes, Jobs
    <3>2. job[a] \in Jobs /\ record \in Rows \cup {Nobody}
      BY DEF TypeInv, JobTypes, RecordTypes
    <3>3. CASE Goto(a, After(a))
      BY <3>1, <3>3 DEF Goto, TypeInv, ConnTypes
    <3>4. CASE job' = [job EXCEPT ![a].row = record]
      BY <3>2, <3>4, JobUpdate DEF TypeInv, JobTypes
    <3> QED BY <1>1, <3>3, <3>4 DEF Get
  <2> QED BY <1>0, <2>1, <2>2 DEF Generations, Recorded
<1>2. ASSUME NEW a \in Clients, Put(a) PROVE Generations'
  <2> DEFINE gen == Recorded(job[a].row, job[a].kind)
  <2>1. /\ record' = Row(StateOf(job[a].kind), gen)
        /\ granted' = IF job[a].kind = "start" THEN [granted EXCEPT ![a] = gen] ELSE granted
        /\ \A c \in Clients \ {a} : pc'[c] = pc[c] /\ job'[c] = job[c]
        /\ pc[a] = "put" /\ pc'[a] # "put"
    BY <1>2 DEF Put, Recorded, At, After, Goto, TypeInv, ConnTypes, JobTypes, Jobs
  <2>2. record' # Nobody /\ record'.gen = gen /\ gen \in Nat
    BY <1>0, <2>1, NobodyAssumption, TypeStep
       DEF Row, Recorded, TypeInv, RecordTypes, JobTypes, Jobs, StateOf, Rows
  <2>3. \A d \in Clients \ raced : granted[d] <= gen
    BY <2>1 DEF Generations
  <2>4. \A c \in Clients \ raced' : granted'[c] <= gen
    BY <1>0, <2>1, <2>2, <2>3
  <2>5. ASSUME NEW c \in Clients \ raced, pc[c] = "put", job[c].kind = "start"
        PROVE  \A p \in Clients \ {c} : pc[p] # "put"
    <3>1. Holds(c, job[c].handle) /\ job[c].handle \in Handles
      BY <2>5 DEF Holds, TypeInv, JobTypes, Leaving
    <3> QED BY <3>1 DEF Undisturbed, Calm
  <2>6. ASSUME NEW p \in Clients, pc'[p] = "put", NEW d \in Clients \ raced'
        PROVE  granted'[d] <= Recorded(job'[p].row, job'[p].kind)
    <3>1. p # a /\ pc[p] = "put" /\ job'[p] = job[p]
      BY <2>1, <2>6
    <3>2. granted'[d] = granted[d]
      BY <1>0, <2>1, <2>5, <3>1
    <3> QED BY <1>0, <3>1, <3>2 DEF Generations
  <2>7. ASSUME NEW c \in Clients \ raced' PROVE ~(pc'[c] = "put" /\ job'[c].kind = "start")
    BY <1>0, <2>1, <2>5
  <2> HIDE DEF gen
  <2> QED BY <2>2, <2>4, <2>6, <2>7 DEF Generations
<1>3. CASE /\ UNCHANGED <<record, granted>>
           /\ \A c \in Clients : pc'[c] = "put" => pc[c] = "put" /\ job'[c] = job[c]
  BY <1>0, <1>3 DEF Generations
<1> QED BY <1>1, <1>2, <1>3, OnlyPutRecords

\* Only its Put shows a client what it had not been shown.
LEMMA ShownBefore ==
  ASSUME TypeInv, Connections, NEW c \in Clients, NEW h \in Handles,
         ClientStep(c) \/ HandlerStep(c), ~Put(c), conn'[c] = "open", Shown(c, h)'
  PROVE  conn[c] = "open" /\ Shown(c, h)
<1> USE NobodyAssumption
        DEF TypeInv, ConnTypes, JobTypes, Connections, Shown, At, Goto, Job, NoJob,
            Jobs, clientVars
<1>1. CASE ClientStep(c)
  BY <1>1 DEF ClientStep, Connect, Lose, AskStart, AskLeave, GiveUp, Forgets, Free
<1>2. CASE Attach(c)
  BY <1>2 DEF Attach, Starting
<1>3. CASE AttachRead(c) \/ Replay(c) \/ StartFails(c) \/ Fresh(c) \/ Insert(c) \/ Own(c)
  BY <1>3 DEF AttachRead, Replay, StartFails, Fresh, Insert, Own, Done, Starting
<1>4. CASE Get(c)
  BY <1>4 DEF Get, After
<1>5. CASE Reply(c)
  BY <1>5 DEF Reply, Done, Forgets
<1>6. CASE LeaveStep(c)
  BY <1>6 DEF LeaveStep, Check, Close, Disown, HandlerEnds, SweepNext, SweepRemove
<1> QED BY <1>1, <1>2, <1>3, <1>4, <1>5, <1>6 DEF HandlerStep, StartStep, RecordStep

LEMMA NewestStep ==
  /\ TypeInv /\ Connections /\ Undisturbed /\ Generations /\ Newest
  /\ [Next]_vars
  => Newest'
<1> SUFFICES ASSUME TypeInv, Connections, Undisturbed, Generations, Newest, [Next]_vars,
                    NEW c \in Clients \ raced', conn'[c] = "open",
                    NEW h \in Handles, Shown(c, h)'
             PROVE  /\ record' = Row("attached", granted'[c])
                    /\ \A d \in Clients \ raced' : d # c => granted'[d] < granted'[c]
  BY DEF Newest
<1>0. /\ raced \subseteq raced' /\ granted \in [Clients -> Nat]
      /\ record # Nobody => record.gen \in Nat
  BY Racing, NobodyAssumption DEF TypeInv, RecordTypes, Rows
<1>1. ASSUME conn[c] = "open", Shown(c, h), UNCHANGED <<record, granted>>
      PROVE  /\ record' = Row("attached", granted'[c])
             /\ \A d \in Clients \ raced' : d # c => granted'[d] < granted'[c]
  BY <1>0, <1>1 DEF Newest
<1>2. CASE Put(c)
  <2>1. pc[c] = "put" /\ job[c].kind = "start" /\ job[c].row = record
    <3>1. pc[c] = "put" /\ job' = job /\ pc'[c] = After(c)
      BY <1>2 DEF Put, At, Goto, TypeInv, ConnTypes
    <3>2. job[c].kind = "start"
      BY <3>1 DEF Shown, After, TypeInv, JobTypes, Jobs
    <3> QED BY <1>0, <3>1, <3>2 DEF Generations
  <2>2. granted' = [granted EXCEPT ![c] = Recorded(record, "start")]
    BY <1>2, <2>1 DEF Put, Recorded
  <2>3. record' = Row("attached", Recorded(record, "start"))
    BY <1>2, <2>1 DEF Put, Recorded, StateOf
  <2>4. \A d \in Clients \ raced : granted[d] < Recorded(record, "start")
    BY <1>0 DEF Generations, Recorded
  <2> QED BY <1>0, <2>2, <2>3, <2>4
<1>3. ASSUME NEW a \in Clients, ClientStep(a) \/ HandlerStep(a), ~Put(c)
      PROVE  /\ record' = Row("attached", granted'[c])
             /\ \A d \in Clients \ raced' : d # c => granted'[d] < granted'[c]
  <2>1. conn[c] = "open" /\ Shown(c, h)
    <3>1. CASE a = c
      BY <1>3, <3>1, ShownBefore
    <3>2. CASE a # c
      BY <1>3, <3>2, OthersSame DEF Same, Shown
    <3> QED BY <3>1, <3>2
  <2>2. \A d \in Clients \ {c} : pc[d] # "put"
    BY <1>0, <2>1 DEF Undisturbed, Holds, Calm
  <2>3. ~Put(a)
    BY <1>3, <2>2 DEF Put, At
  <2>4. UNCHANGED <<record, granted>>
    BY <1>3, <2>3 DEF ClientStep, Connect, Lose, AskStart, AskLeave, GiveUp, HandlerStep,
       StartStep, Attach, AttachRead, Replay, StartFails, Fresh, Insert, Own, RecordStep,
       Get, Reply, LeaveStep, Check, Close, Disown, HandlerEnds, SweepNext, SweepRemove,
       ownerVars
  <2> QED BY <1>1, <2>1, <2>4
<1>4. ASSUME NEW k \in Handles, ThreadStep(k)
      PROVE  /\ record' = Row("attached", granted'[c])
             /\ \A d \in Clients \ raced' : d # c => granted'[d] < granted'[c]
  BY <1>1, <1>4, ThreadSame DEF clientVars, ownerVars, Shown
<1>5. CASE UNCHANGED vars
  BY <1>1, <1>5 DEF vars, clientVars, ownerVars, Shown
<1> QED BY <1>2, <1>3, <1>4, <1>5, Steps DEF HandlerStep

-----------------------------------------------------------------------------
(* What the client that takes over is sent. *)

\* The sessions whose events c has to have.
Follows(c, h) == Taken(c, h) \/ Shown(c, h)

LEMMA FollowsBefore ==
  ASSUME TypeInv, Connections, NEW c \in Clients, NEW h \in Handles,
         ClientStep(c) \/ HandlerStep(c), ~AttachRead(c), ~Fresh(c),
         conn'[c] = "open", Follows(c, h)'
  PROVE  conn[c] = "open" /\ Follows(c, h)
<1>1. CASE Shown(c, h)' /\ ~Put(c)
  BY <1>1, ShownBefore DEF Follows
<1>2. CASE Put(c)
  BY <1>2 DEF Put, At, Goto, After, clientVars, Follows, Shown, Taken, TypeInv, ConnTypes,
     JobTypes, Jobs
<1>3. CASE Taken(c, h)' /\ ~Put(c)
  <2> USE DEF TypeInv, ConnTypes, JobTypes, Jobs, Taken, Follows, At, Goto, clientVars,
              Starting
  <2>1. CASE ClientStep(c)
    BY <1>3, <2>1 DEF ClientStep, Connect, Lose, AskStart, AskLeave, GiveUp, Free, Job
  <2>2. CASE StartStep(c)
    BY <1>3, <2>2 DEF StartStep, Attach, Replay, StartFails, Insert, Own, Done
  <2>3. CASE Get(c)
    <3>1. job[c].kind = "start" => pc'[c] = "put"
      BY <2>3 DEF Get
    <3>2. job'[c].kind = job[c].kind /\ job'[c].handle = job[c].handle /\ conn' = conn
      BY <2>3, JobUpdate DEF Get, RecordTypes
    <3> QED BY <1>3, <2>3, <3>1, <3>2 DEF Get
  <2>4. CASE Reply(c)
    BY <1>3, <2>4 DEF Reply, Done
  <2>5. CASE LeaveStep(c)
    BY <1>3, <2>5 DEF LeaveStep, Check, Close, Disown, HandlerEnds, SweepNext, SweepRemove,
       Connections, Job
  <2> QED BY <1>3, <2>1, <2>2, <2>3, <2>4, <2>5 DEF HandlerStep, RecordStep
<1> QED BY <1>1, <1>2, <1>3 DEF Follows

\* Neither another connection nor the requests of c itself take anything back.
LEMMA FedStays ==
  ASSUME TypeInv, NEW c \in Clients, NEW h \in Handles, Fed(c, h),
         target'[h] = c, UNCHANGED <<log, hand, aim>>, Got(c) \subseteq Got(c)'
  PROVE  Fed(c, h)'
BY DEF Fed

LEMMA FedByOther ==
  ASSUME TypeInv, Connections, NEW c \in Clients, conn'[c] = "open",
         NEW a \in Clients \ {c}, ClientStep(a) \/ HandlerStep(a)
  PROVE  UNCHANGED <<target, log, hand, aim>> /\ heard'[c] = heard[c]
<1>1. conn[c] = "open" /\ pc[a] \notin Starting
  BY OthersSame DEF Same, Connections, Active
<1> USE DEF TypeInv, EventTypes, registryVars, eventVars, At, Starting
<1>2. CASE ClientStep(a)
  BY <1>2 DEF ClientStep, Connect, Lose, AskStart, AskLeave, GiveUp
<1>3. CASE RecordStep(a)
  BY <1>3 DEF RecordStep, Get, Put, Reply
<1>4. CASE LeaveStep(a)
  BY <1>4 DEF LeaveStep, Check, Close, Disown, HandlerEnds, SweepNext, SweepRemove
<1>5. ~StartStep(a)
  BY <1>1 DEF StartStep, Attach, AttachRead, Replay, StartFails, Fresh, Insert, Own
<1> QED BY <1>2, <1>3, <1>4, <1>5 DEF HandlerStep

LEMMA GotBySelf ==
  ASSUME TypeInv, NEW c \in Clients, conn[c] = "open", conn'[c] = "open",
         ClientStep(c) \/ HandlerStep(c)
  PROVE  /\ UNCHANGED <<log, hand, aim>> /\ Got(c) \subseteq Got(c)'
         /\ \A h \in Handles : target[h] = c => target'[h] = c
<1> USE DEF TypeInv, ConnTypes, SessionTypes, EventTypes, JobTypes, registryVars, eventVars, At,
            Goto, Got
<1>1. CASE ClientStep(c)
  BY <1>1 DEF ClientStep, Connect, Lose, AskStart, AskLeave, GiveUp, Free
<1>2. CASE Attach(c) \/ AttachRead(c) \/ StartFails(c) \/ Insert(c) \/ Own(c)
  BY <1>2 DEF Attach, AttachRead, StartFails, Insert, Own, Done
<1>3. CASE Replay(c)
  BY <1>3 DEF Replay, Hears
<1>4. CASE Fresh(c)
  BY <1>4 DEF Fresh, Hears
<1>5. CASE RecordStep(c)
  BY <1>5 DEF RecordStep, Get, Put, Reply, Done
<1>6. CASE LeaveStep(c)
  BY <1>6 DEF LeaveStep, Check, Close, Disown, HandlerEnds, SweepNext, SweepRemove
<1> QED BY <1>1, <1>2, <1>3, <1>4, <1>5, <1>6 DEF HandlerStep, StartStep

\* A Start that reads the transcript, or starts the session, has all that was
\* written so far; the thread may still hold an event for another connection.
LEMMA FedAtStart ==
  ASSUME TypeInv, Hands, NEW c \in Clients, NEW h \in Handles, target'[h] = c,
         UNCHANGED <<log, hand, aim>>, DOMAIN log \subseteq Got(c)'
  PROVE  Fed(c, h)'
<1>1. aim[h] \in Clients \ {c} => hand[h] \in DOMAIN log
  BY NobodyAssumption DEF Hands
<1> QED BY <1>1 DEF Fed

\* A session whose thread may end is one that nobody follows.
LEMMA FollowedRuns ==
  ASSUME TypeInv, OneSession, Taking, Undisturbed, NEW c \in Clients \ raced,
         conn[c] = "open", NEW h \in Handles, Follows(c, h)
  PROVE  h \in sessions \/ h \notin threads
<1>1. CASE Holds(c, h)
  BY <1>1 DEF Undisturbed, Calm
<1>2. CASE Taken(c, h) /\ ~Holds(c, h)
  <2>1. pc[c] \in {"replay", "own", "insert"} /\ job[c].handle = h
    BY <1>2 DEF Taken, Holds, Shown
  <2>2. pc[c] \in {"replay", "own"} => h \in sessions
    BY <2>1 DEF Taking
  <2>3. pc[c] = "insert" => h \notin threads
    BY <2>1 DEF OneSession
  <2> QED BY <2>1, <2>2, <2>3
<1> QED BY <1>1, <1>2 DEF Follows, Holds

LEMMA FedBySelf ==
  ASSUME TypeInv, Connections, Hands, NEW c \in Clients, NEW h \in Handles,
         conn[c] = "open" =>
           /\ pc[c] = "read" => target[job[c].handle] = c
           /\ Follows(c, h) => Fed(c, h),
         ClientStep(c) \/ HandlerStep(c), conn'[c] = "open", Follows(c, h)'
  PROVE  Fed(c, h)'
<1>1. CASE conn[c] = "open" /\ Follows(c, h)
  BY <1>1, GotBySelf, FedStays DEF Fed
<1>2. CASE AttachRead(c) /\ ~Follows(c, h)
  <2>1. /\ pc[c] = "read" /\ conn[c] = "open" /\ pc'[c] = "replay"
        /\ replay'[c] = DOMAIN log /\ UNCHANGED <<target, log, hand, aim>>
        /\ job' = job /\ known' = known
    BY <1>2 DEF AttachRead, At, Goto, clientVars, TypeInv, ConnTypes, EventTypes
  <2>2. h = job[c].handle
    BY <1>2, <2>1 DEF Follows, Taken, Shown
  <2>3. target'[h] = c /\ DOMAIN log \subseteq Got(c)'
    BY <2>1, <2>2 DEF Got
  <2> QED BY <2>1, <2>3, FedAtStart
<1>3. CASE Fresh(c) /\ ~Follows(c, h)
  <2>1. /\ conn[c] = "open" /\ pc'[c] = "insert" /\ known' = known
        /\ heard'[c] = heard[c] \cup DOMAIN log /\ UNCHANGED <<log, hand, aim>>
        /\ job' = [job EXCEPT ![c].handle = handles']
        /\ target' = [target EXCEPT ![handles'] = c]
        /\ handles' \in Handles
    BY <1>3, BoundsAssumption
       DEF Fresh, Hears, At, Goto, clientVars, TypeInv, ConnTypes, SessionTypes, EventTypes,
           Handles
  <2>2. job'[c].kind = job[c].kind /\ job'[c].handle = handles'
    BY <2>1, JobUpdate DEF TypeInv, JobTypes
  <2>3. h = handles'
    BY <1>3, <2>1, <2>2 DEF Follows, Taken, Shown
  <2>4. target'[h] = c /\ DOMAIN log \subseteq Got(c)'
    BY <2>1, <2>3 DEF Got, TypeInv, SessionTypes
  <2> QED BY <2>1, <2>4, FedAtStart
<1>4. AttachRead(c) \/ Fresh(c) => conn[c] = "open"
  BY DEF AttachRead, Fresh, clientVars
<1>5. AttachRead(c) \/ Fresh(c) \/ (conn[c] = "open" /\ Follows(c, h))
  BY FollowsBefore
<1> QED BY <1>1, <1>2, <1>3, <1>4, <1>5

LEMMA FedByThread ==
  ASSUME TypeInv, Hands, NEW c \in Clients, conn[c] = "open", NEW h \in Handles, Fed(c, h),
         NEW k \in Handles, ThreadStep(k), ThreadEnds(k) => h # k
  PROVE  Fed(c, h)'
<1>0. /\ UNCHANGED <<pc, replay>>
      /\ log \in Seq(Handles) /\ hand \in [Handles -> Nat]
      /\ aim \in [Handles -> Clients \cup {Nobody}] /\ heard \in [Clients -> SUBSET Nat]
      /\ target \in [Handles -> Clients \cup {Nobody}]
  BY ThreadSame DEF TypeInv, EventTypes, SessionTypes
<1>1. CASE Write(k)
  <2>1. /\ log' = Append(log, k) /\ hand' = [hand EXCEPT ![k] = Len(log')]
        /\ hand[k] = 0 /\ UNCHANGED <<target, aim, heard>>
    BY <1>1 DEF Write, registryVars
  <2>2. target'[h] = c /\ Got(c)' = Got(c)
    BY <1>0, <2>1 DEF Got, Fed
  <2>3. ASSUME NEW i \in DOMAIN log', log'[i] = h PROVE i \in Got(c) \/ i = hand'[h]
    <3>1. CASE i \in DOMAIN log /\ log'[i] = log[i]
      <4>1. i \in Got(c) \/ i = hand[h]
        BY <2>3, <3>1 DEF Fed
      <4>2. i # 0
        BY <1>0, <3>1
      <4> QED BY <1>0, <2>1, <4>1, <4>2
    <3>2. CASE i = Len(log') /\ log'[i] = k
      BY <1>0, <2>1, <2>3, <3>2
    <3> QED BY <1>0, <2>1, <2>3, <3>1, <3>2, LogGrows
  <2>4. aim'[h] \in Clients \ {c} => hand'[h] \in Got(c)
    BY <1>0, <2>1, NobodyAssumption DEF Fed, Hands
  <2> QED BY <2>2, <2>3, <2>4 DEF Fed
<1>2. CASE Aim(k)
  BY <1>0, <1>2, NobodyAssumption DEF Aim, Fed, Got, registryVars
<1>3. CASE Send(k)
  <2>1. /\ hand' = [hand EXCEPT ![k] = 0] /\ aim' = [aim EXCEPT ![k] = Nobody]
        /\ UNCHANGED <<target, log>> /\ aim[k] \in Clients
        /\ heard'[c] = IF aim[k] = c THEN heard[c] \cup {hand[k]} ELSE heard[c]
    BY <1>0, <1>3 DEF Send, Hears, registryVars
  <2>2. Got(c)' = IF aim[k] = c THEN Got(c) \cup {hand[k]} ELSE Got(c)
    BY <1>0, <2>1 DEF Got
  <2>3. hand[k] \in Got(c)' \/ h # k
    BY <2>1, <2>2 DEF Fed
  <2>4. ASSUME NEW i \in DOMAIN log', log'[i] = h PROVE i \in Got(c)' \/ i = hand'[h]
    BY <1>0, <2>1, <2>2, <2>3, <2>4 DEF Fed
  <2>5. aim'[h] \in Clients \ {c} => hand'[h] \in Got(c)'
    BY <1>0, <2>1, <2>2, NobodyAssumption DEF Fed
  <2>6. target'[h] = c
    BY <2>1 DEF Fed
  <2> QED BY <2>4, <2>5, <2>6 DEF Fed
<1>4. CASE ThreadEnds(k)
  BY <1>0, <1>4 DEF ThreadEnds, Fed, Got
<1> QED BY <1>1, <1>2, <1>3, <1>4 DEF ThreadStep

LEMMA EventsStep ==
  /\ TypeInv /\ Apart /\ Connections /\ OneSession /\ Taking /\ Undisturbed /\ Hands
  /\ Events /\ [Next]_vars
  => Events'
<1> SUFFICES ASSUME TypeInv, Apart, Connections, OneSession, Taking, Undisturbed, Hands,
                    Events, [Next]_vars, NEW c \in Clients, c \notin raced', conn'[c] = "open"
             PROVE  /\ pc'[c] = "read" => target'[job'[c].handle] = c
                    /\ \A h \in Handles : Follows(c, h)' => Fed(c, h)'
  BY DEF Events, Follows
<1>0. /\ c \notin raced
      /\ conn[c] = "open" =>
           /\ pc[c] = "read" => target[job[c].handle] = c
           /\ \A h \in Handles : Follows(c, h) => Fed(c, h)
  BY Racing DEF Events, Follows
<1>1. ASSUME NEW a \in Clients \ {c}, ClientStep(a) \/ HandlerStep(a)
      PROVE  /\ pc'[c] = "read" => target'[job'[c].handle] = c
             /\ \A h \in Handles : Follows(c, h)' => Fed(c, h)'
  <2>1. Same(c)
    BY <1>1, OthersSame
  <2>2. UNCHANGED <<target, log, hand, aim>> /\ heard'[c] = heard[c]
    BY <1>1, FedByOther
  <2>3. \A h \in Handles : Follows(c, h)' => Follows(c, h)
    BY <2>1 DEF Same, Follows, Taken, Shown
  <2>4. Got(c)' = Got(c)
    BY <2>1, <2>2 DEF Same, Got
  <2>5. ASSUME NEW h \in Handles, Follows(c, h)' PROVE Fed(c, h)'
    BY <1>0, <2>1, <2>2, <2>3, <2>4, <2>5 DEF Same, Fed
  <2> QED BY <1>0, <2>1, <2>2, <2>5 DEF Same
<1>2. ASSUME ClientStep(c) \/ HandlerStep(c)
      PROVE  /\ pc'[c] = "read" => target'[job'[c].handle] = c
             /\ \A h \in Handles : Follows(c, h)' => Fed(c, h)'
  <2>1. \A h \in Handles : Follows(c, h)' => Fed(c, h)'
    BY <1>0, <1>2, FedBySelf
  <2>2. ASSUME pc'[c] = "read" PROVE target'[job'[c].handle] = c
    <3>1. CASE Attach(c)
      <4>1. PICK h \in sessions : /\ job' = [job EXCEPT ![c].handle = h]
                                  /\ target' = [target EXCEPT ![h] = c]
        BY <2>2, <3>1 DEF Attach, Goto, TypeInv, ConnTypes
      <4>2. job'[c].handle = h /\ target'[h] = c
        BY <4>1, JobUpdate DEF TypeInv, JobTypes, SessionTypes
      <4> QED BY <4>2
    <3>2. CASE ClientStep(c)
      BY <1>0, <2>2, <3>2 DEF ClientStep, Connect, Lose, AskStart, AskLeave, GiveUp, Goto,
         TypeInv, ConnTypes, registryVars
    <3>3. ~Attach(c) /\ StartStep(c) => FALSE
      BY <2>2 DEF StartStep, AttachRead, Replay, StartFails, Fresh, Insert, Own, Goto, Done,
         TypeInv, ConnTypes
    <3>4. RecordStep(c) \/ LeaveStep(c) => FALSE
      BY <2>2 DEF RecordStep, Get, Put, Reply, Done, After, LeaveStep, Check, Close, Disown,
         HandlerEnds, SweepNext, SweepRemove, At, Goto, TypeInv, ConnTypes, JobTypes, Jobs
    <3> QED BY <1>2, <3>1, <3>2, <3>3, <3>4 DEF HandlerStep
  <2> QED BY <2>1, <2>2
<1>3. ASSUME NEW k \in Handles, ThreadStep(k)
      PROVE  /\ pc'[c] = "read" => target'[job'[c].handle] = c
             /\ \A h \in Handles : Follows(c, h)' => Fed(c, h)'
  <2>1. UNCHANGED <<conn, known, pc, job>>
    BY <1>3, ThreadSame DEF clientVars
  <2>2. ThreadEnds(k) => k \in threads \ sessions
    BY DEF ThreadEnds
  <2>3. ASSUME NEW h \in Handles, Follows(c, h)' PROVE Fed(c, h)'
    <3>1. conn[c] = "open" /\ Follows(c, h) /\ Fed(c, h)
      BY <1>0, <2>1, <2>3 DEF Follows, Taken, Shown
    <3>2. ThreadEnds(k) => h # k
      BY <1>0, <2>2, <3>1, FollowedRuns
    <3> QED BY <1>3, <3>1, <3>2, FedByThread
  <2>4. ASSUME pc[c] = "read" PROVE target'[job[c].handle] = c
    <3>1. job[c].handle \in sessions /\ target[job[c].handle] = c
      BY <1>0, <2>1, <2>4 DEF Taking
    <3>2. target'[job[c].handle] = target[job[c].handle]
      BY <1>3, <2>2, <3>1 DEF ThreadStep, Write, Aim, Send, ThreadEnds, registryVars, TypeInv,
         SessionTypes
    <3> QED BY <3>1, <3>2
  <2> QED BY <2>1, <2>3, <2>4
<1>4. CASE UNCHANGED vars
  BY <1>0, <1>4 DEF vars, clientVars, ownerVars, registryVars, eventVars, Follows, Taken, Shown,
     Fed, Got
<1> QED BY <1>1, <1>2, <1>3, <1>4, Steps DEF HandlerStep

-----------------------------------------------------------------------------
(* The inductive invariant, and what follows from it.                      *)

OwnershipInv ==
  /\ TypeInv /\ raced \subseteq Clients
  /\ Connections /\ Owners /\ OneSession /\ Apart /\ Taking /\ Undisturbed
  /\ Generations /\ Newest /\ Hands /\ Events

LEMMA OwnershipInit == Init => OwnershipInv
<1> SUFFICES ASSUME Init PROVE OwnershipInv
  OBVIOUS
<1>1. TypeInv
  BY TypeInit
<1> USE NobodyAssumption DEF Init
<1>2. Connections /\ Owners /\ OneSession
  BY DEF Connections, Active, Starting, Owners, OneSession, NoJob, Job
<1>3. raced \subseteq Clients /\ Apart /\ Taking
  BY DEF Apart, Overlapping, Starting, Leaving, Taking
<1>4. Undisturbed /\ Newest /\ Events
  BY DEF Undisturbed, Newest, Events, Holds, Shown, Taken, NoJob, Job
<1>5. Generations /\ Hands
  BY DEF Generations, Hands
<1> QED BY <1>1, <1>2, <1>3, <1>4, <1>5 DEF OwnershipInv

LEMMA RacedStep ==
  ASSUME raced \subseteq Clients, [Next]_vars PROVE raced' \subseteq Clients
BY DEF Next, vars, Overlapping

LEMMA OwnershipStep == OwnershipInv /\ [Next]_vars => OwnershipInv'
BY TypeStep, RacedStep, ConnectionsStep, OwnersStep, OneSessionStep, ApartStep, TakingStep,
   UndisturbedStep, GenerationsStep, NewestStep, HandsStep, EventsStep DEF OwnershipInv

LEMMA OwnershipInvariant == Spec => []OwnershipInv
BY OwnershipInit, OwnershipStep, PTL DEF Spec

\* A handler that ends has let go of everything it owned: whatever races, the
\* owners name only connections that are still served (detach_owned of
\* agent_supervisor.rs), and the state has its types.
THEOREM TypeCorrect == Spec => []TypeOK
<1>1. ASSUME OwnershipInv PROVE TypeOK
  <2>1. ASSUME NEW h \in Handles, owner[h] # Nobody PROVE pc[owner[h]] # "gone"
    <3>1. owner[h] \in Clients
      BY <1>1, <2>1 DEF OwnershipInv, TypeInv, OwnerTypes
    <3> QED BY <1>1, <3>1 DEF OwnershipInv, Owners
  <2> QED BY <1>1, <2>1
    DEF OwnershipInv, TypeInv, ConnTypes, JobTypes, RecordTypes, OwnerTypes, SessionTypes,
        EventTypes, TypeOK
<1> QED BY <1>1, OwnershipInvariant, PTL

\* The client that was given the tab's session by Start (dispatch and
\* AgentRegistry::attach, agent_supervisor.rs and agent_bridge.rs) has it, owns
\* it, holds the newest generation and misses none of its events, for any
\* number of connections that were lost before it and are still being swept.
THEOREM OwnerServedCorrect == Spec => []OwnerServed
<1>1. ASSUME OwnershipInv, NEW c \in Clients \ raced, conn[c] = "open", At(c, "idle"),
             known[c] # Nobody
      PROVE  /\ known[c] \in sessions /\ owner[known[c]] = c /\ target[known[c]] = c
             /\ record = Row("attached", granted[c])
             /\ \A d \in Clients \ raced : d # c => granted[d] # granted[c]
             /\ \A i \in DOMAIN log : log[i] = known[c] => i \in heard[c] \cup {hand[known[c]]}
  <2>1. known[c] \in Handles /\ job[c].kind = "none" /\ pc[c] = "idle"
    BY <1>1 DEF OwnershipInv, TypeInv, ConnTypes, JobTypes, At
  <2>2. Shown(c, known[c]) /\ Holds(c, known[c])
    BY <1>1, <2>1 DEF Shown, Holds
  <2>3. known[c] \in sessions /\ owner[known[c]] = c
    BY <1>1, <2>1, <2>2 DEF OwnershipInv, Undisturbed, Calm
  <2>4. /\ record = Row("attached", granted[c])
        /\ \A d \in Clients \ raced : d # c => granted[d] < granted[c]
    BY <1>1, <2>1, <2>2 DEF OwnershipInv, Newest
  <2>5. \A d \in Clients \ raced : d # c => granted[d] # granted[c]
    BY <1>1, <2>4 DEF OwnershipInv, TypeInv, RecordTypes
  <2>6. Fed(c, known[c]) /\ Got(c) = heard[c]
    BY <1>1, <2>1, <2>2 DEF OwnershipInv, Events, Got
  <2> QED BY <2>3, <2>4, <2>5, <2>6 DEF Fed
<1>2. OwnershipInv => OwnerServed
  BY <1>1 DEF OwnerServed
<1> QED BY <1>2, OwnershipInvariant, PTL
====
