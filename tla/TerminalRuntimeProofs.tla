------------------------ MODULE TerminalRuntimeProofs ------------------------
(***************************************************************************)
(* Proofs about one terminal of the Supervisor, for any number of clients, *)
(* generations and chunks, any ring, and a store that may fail: its types, *)
(* that no frame precedes the reply it belongs to, that a running shell    *)
(* can be found, and that the frames of every generation are what          *)
(* TerminalStream promises.                                                *)
(***************************************************************************)
EXTENDS TerminalRuntime, SequenceTheorems, TLAPS

-----------------------------------------------------------------------------
(* The inductive invariant, in parts. *)

Spawning == {"insert", "recheck", "firstRecord", "announce", "activate", "drain"}
Attaching == {"recordAttaching", "check", "deliver"}

\* The types, in groups.
Flags ==
  /\ reserved \in BOOLEAN /\ exited \in BOOLEAN /\ listed \in BOOLEAN
  /\ pty \in BOOLEAN /\ active \in BOOLEAN

Counters ==
  /\ produced \in 0 .. MaxOut /\ gen \in 0 .. MaxGen
  /\ sink \in 0 .. MaxGen /\ readerSink \in 0 .. MaxGen
  /\ child \in {"none", "running", "dead"}
  /\ reader \in {"read", "switch", "send", "stash"}
  /\ waiter \in {"wait", "unlist", "load", "store", "release", "done"}
  /\ stateLock \in Clients \union {Nobody} /\ lifecycle \in Clients \union {Nobody}
  /\ reader # "read" => produced \in Chunks

Rows == record \in Records /\ waiterRecord \in Records

Requests ==
  /\ pc \in [Clients -> Stages] /\ arg \in [Clients -> 0 .. MaxGen]
  /\ up \in [Clients -> BOOLEAN] /\ known \in [Clients -> SUBSET Gens]

Outputs ==
  /\ ring \in Seq(Chunks) /\ batch \in Seq(Chunks) /\ handoff \in Seq(Chunks)
  /\ grantee \in [Gens -> Clients \union {Nobody}]
  /\ seen \in [Gens -> Seq(Chunks)]

\* A request that was granted a generation carries it.
Granting ==
  \A c \in Clients :
    pc[c] \in Attaching \union {"recordDetached", "recordAttached"} =>
      arg[c] \in Gens

TypeInv == Flags /\ Counters /\ Rows /\ Requests /\ Outputs /\ Granting

\* Nothing happens before the one spawn, and generation one is its.
Unspawned ==
  IF child = "none"
  THEN /\ gen = 0 /\ sink = 0 /\ ~listed /\ ~reserved
       /\ \A c \in Clients : pc[c] = "idle" /\ known[c] = {}
       /\ \A g \in Gens : grantee[g] = Nobody
  ELSE gen >= 1

\* A generation an attach was granted is the newest and nobody's until its
\* frames are sent; a second attach has to wait for the reservation.
OneAttach ==
  /\ \A c \in Clients : pc[c] \in Attaching =>
       /\ reserved /\ arg[c] \in 2 .. gen
       /\ \A g \in Gens : grantee[g] # Nobody => g < arg[c]
  /\ \A c, d \in Clients : pc[c] \in Attaching /\ pc[d] \in Attaching => c = d
  /\ \A g \in Gens : grantee[g] # Nobody => g <= gen
  /\ \A g \in Gens : grantee[g] = Nobody => seen[g] = <<>>

\* A sink that is installed, or that the reader has cloned, belongs to somebody.
Sinks ==
  /\ sink # 0 => grantee[sink] \in Clients
  /\ readerSink # 0 => grantee[readerSink] \in Clients
  /\ reader = "read" <=> readerSink = 0
  /\ reader \in {"switch", "stash"} => readerSink = 1

\* Generation one is the spawning client's and its frames wait for the reply;
\* later generations are told and filled in one step.
Replies ==
  /\ \A c \in Clients : pc[c] \in Spawning => grantee[1] = c
  /\ \A c \in Clients : pc[c] \in {"activate", "drain"} => 1 \in known[c]
  /\ active => grantee[1] \in Clients /\ 1 \in known[grantee[1]]
  /\ reader = "send" /\ readerSink = 1 => active
  /\ \A g \in 2 .. MaxGen : grantee[g] # Nobody => g \in known[grantee[g]]
  /\ FramesFollowReply

\* What the waiter and a terminate know of the child.
Life ==
  /\ child = "running" => pty
  /\ waiter # "wait" => child = "dead"
  /\ exited => child = "dead"
  /\ LiveProcessListed

\* The last chunks of n.
Latest(s, n) ==
  /\ Len(s) <= n
  /\ n > 0 => s # <<>>
  /\ \A i \in 1 .. Len(s) : s[i] = n - Len(s) + i

\* A stream that has come to chunk n.
Ends(s, n) == IF n = 0 THEN s = <<>> ELSE s # <<>> /\ s[Len(s)] = n

Buffers == Latest(ring, produced) /\ (reserved => Latest(batch, produced))

Sending(g) == reader = "send" /\ readerSink = g

\* A generation whose client is there has the newest chunk once it is the
\* sink, unless the reader is about to send it.
Live(g) == grantee[g] # Nobody /\ up[grantee[g]]

Current(g) ==
  /\ Sending(g) => Ends(seen[g], produced - 1)
  /\ sink = g /\ ~Sending(g) => Ends(seen[g], produced)

Streams == \A g \in 2 .. MaxGen : Live(g) => Current(g)

-----------------------------------------------------------------------------
(* The steps of a client's thread, by request. *)

SpawnStep(c) ==
  \/ SpawnCreate(c) \/ SpawnInsert(c) \/ SpawnRecheck(c) \/ SpawnRecord(c)
  \/ SpawnAnnounce(c) \/ SpawnActivate(c) \/ SpawnDrain(c)

InputStep(c) == (\E g \in Gens : Input(c, g)) \/ InputSinkCheck(c) \/ InputWrite(c)

DetachStep(c) ==
  \/ \E g \in Gens : Detach(c, g)
  \/ DetachClearSink(c) \/ DetachBump(c) \/ DetachRecord(c)

TerminateStep(c) ==
  \/ \E g \in Gens : Terminate(c, g)
  \/ TerminateUnlist(c) \/ TerminateKill(c) \/ TerminateRecord(c)

SweepStep(c) == KillAll(c) \/ SweepKill(c) \/ SweepRecord(c)

AttachStep(c) ==
  \/ AttachBegin(c) \/ AttachRecord(c) \/ AttachCheck(c)
  \/ AttachDeliver(c) \/ AttachFinish(c)

LEMMA Steps ==
  ASSUME [Next]_vars
  PROVE  \/ ReaderStep \/ ChildExits \/ WaiterStep \/ UNCHANGED vars
         \/ \E c \in Clients :
              \/ SpawnStep(c) \/ InputStep(c) \/ DetachStep(c)
              \/ TerminateStep(c) \/ SweepStep(c) \/ AttachStep(c)
              \/ Disconnect(c)
BY DEF Next, Ask, Serve, SpawnStep, InputStep, DetachStep, TerminateStep,
       SweepStep, AttachStep

LEMMA KeepLastType == ASSUME NEW s \in Seq(Chunks) PROVE KeepLast(s) \in Seq(Chunks)
<1>1. Len(s) \in Nat /\ RingCap \in Nat
  BY RingAssumption
<1>2. \A i \in Len(s) - RingCap + 1 .. Len(s) : Len(s) > RingCap => s[i] \in Chunks
  BY <1>1, ElementOfSeq
<1> QED BY <1>1, <1>2, SubSeqProperties DEF KeepLast

LEMMA SendType ==
  ASSUME seen \in [Gens -> Seq(Chunks)], NEW g, NEW cs \in Seq(Chunks), Send(g, cs)
  PROVE  seen' \in [Gens -> Seq(Chunks)]
<1>1. g \in Gens => seen[g] \o cs \in Seq(Chunks)
  BY ConcatProperties
<1> QED BY <1>1 DEF Send

LEMMA FlagsStep == Flags /\ [Next]_vars => Flags'
<1> SUFFICES ASSUME Flags, [Next]_vars PROVE Flags'
  OBVIOUS
<1> USE DEF Flags,
  session, replay, registry, threads, engine, readerVars, waiterVars, clients,
  frames, spawning, egress
<1>1. CASE ReaderStep
  BY <1>1 DEF ReaderStep, ReaderRead, ReaderSwitch, ReaderStash, ReaderSend,
     Push
<1>2. CASE WaiterStep \/ ChildExits
  BY <1>2 DEF WaiterStep, WaiterExited, WaiterUnlist, WaiterLoad, WaiterStore,
     WaiterRelease, ChildExits
<1>3. ASSUME NEW c \in Clients, SpawnStep(c) PROVE Flags'
  BY <1>3 DEF SpawnStep, SpawnCreate, SpawnInsert, SpawnRecheck, SpawnRecord,
     SpawnAnnounce, SpawnActivate, SpawnDrain
<1>4. ASSUME NEW c \in Clients, InputStep(c) PROVE Flags'
  BY <1>4 DEF InputStep, Request, Input, InputSinkCheck, InputWrite
<1>5. ASSUME NEW c \in Clients, DetachStep(c) PROVE Flags'
  BY <1>5 DEF DetachStep, Request, Detach, DetachClearSink, DetachBump,
     DetachRecord, NextGen, Granted
<1>6. ASSUME NEW c \in Clients, TerminateStep(c) PROVE Flags'
  BY <1>6 DEF TerminateStep, Request, Terminate, TerminateUnlist,
     TerminateKill, TerminateRecord
<1>7. ASSUME NEW c \in Clients, SweepStep(c) PROVE Flags'
  BY <1>7 DEF SweepStep, KillAll, SweepKill, SweepRecord
<1>8. ASSUME NEW c \in Clients, AttachStep(c) PROVE Flags'
  BY <1>8 DEF AttachStep, AttachBegin, AttachRecord, AttachCheck,
     AttachDeliver, AttachFinish, NextGen, Granted, Reserve, Finish
<1>9. ASSUME NEW c \in Clients, Disconnect(c) PROVE Flags'
  BY <1>9 DEF Disconnect
<1>10. CASE UNCHANGED vars
  BY <1>10 DEF vars
<1> QED BY <1>1, <1>2, <1>3, <1>4, <1>5, <1>6, <1>7, <1>8, <1>9, <1>10, Steps

LEMMA CountersStep == TypeInv /\ [Next]_vars => Counters'
<1> SUFFICES ASSUME TypeInv, [Next]_vars PROVE Counters'
  OBVIOUS
<1> USE BoundsAssumption, NobodyAssumption
        DEF TypeInv, Counters, Requests, Granting, Gens, Chunks, Goto,
            GotoWith, Reply,
  session, replay, registry, threads, engine, readerVars, waiterVars, clients,
  frames, spawning, egress
<1>1. CASE ReaderStep
  BY <1>1 DEF ReaderStep, ReaderRead, ReaderSwitch, ReaderStash, ReaderSend,
     Push
<1>2. CASE WaiterStep \/ ChildExits
  BY <1>2 DEF WaiterStep, WaiterExited, WaiterUnlist, WaiterLoad, WaiterStore,
     WaiterRelease, ChildExits
<1>3. ASSUME NEW c \in Clients, SpawnStep(c) PROVE Counters'
  BY <1>3 DEF SpawnStep, SpawnCreate, SpawnInsert, SpawnRecheck, SpawnRecord,
     SpawnAnnounce, SpawnActivate, SpawnDrain
<1>4. ASSUME NEW c \in Clients, InputStep(c) PROVE Counters'
  BY <1>4 DEF InputStep, Request, Input, InputSinkCheck, InputWrite
<1>5. ASSUME NEW c \in Clients, DetachStep(c) PROVE Counters'
  BY <1>5 DEF DetachStep, Request, Detach, DetachClearSink, DetachBump,
     DetachRecord, NextGen, Granted
<1>6. ASSUME NEW c \in Clients, TerminateStep(c) PROVE Counters'
  BY <1>6 DEF TerminateStep, Request, Terminate, TerminateUnlist,
     TerminateKill, TerminateRecord
<1>7. ASSUME NEW c \in Clients, SweepStep(c) PROVE Counters'
  BY <1>7 DEF SweepStep, KillAll, SweepKill, SweepRecord
<1>8. ASSUME NEW c \in Clients, AttachStep(c) PROVE Counters'
  BY <1>8 DEF AttachStep, AttachBegin, AttachRecord, AttachCheck,
     AttachDeliver, AttachFinish, NextGen, Granted, Reserve, Finish
<1>9. ASSUME NEW c \in Clients, Disconnect(c) PROVE Counters'
  BY <1>9 DEF Disconnect
<1>10. CASE UNCHANGED vars
  BY <1>10 DEF vars
<1> QED BY <1>1, <1>2, <1>3, <1>4, <1>5, <1>6, <1>7, <1>8, <1>9, <1>10, Steps

LEMMA RowsStep == TypeInv /\ [Next]_vars => Rows'
<1> SUFFICES ASSUME TypeInv, [Next]_vars PROVE Rows'
  OBVIOUS
<1> USE BoundsAssumption
        DEF TypeInv, Rows, Counters, Requests, Records, NoRecord, Put, Goto,
            GotoWith, Reply,
  session, replay, registry, threads, engine, readerVars, waiterVars, clients,
  frames, spawning, egress
<1>1. CASE ReaderStep
  BY <1>1 DEF ReaderStep, ReaderRead, ReaderSwitch, ReaderStash, ReaderSend,
     Push
<1>2. CASE WaiterStep \/ ChildExits
  BY <1>2 DEF WaiterStep, WaiterExited, WaiterUnlist, WaiterLoad, WaiterStore,
     WaiterRelease, ChildExits
<1>3. ASSUME NEW c \in Clients, SpawnStep(c) PROVE Rows'
  BY <1>3 DEF SpawnStep, SpawnCreate, SpawnInsert, SpawnRecheck, SpawnRecord,
     SpawnAnnounce, SpawnActivate, SpawnDrain
<1>4. ASSUME NEW c \in Clients, InputStep(c) PROVE Rows'
  BY <1>4 DEF InputStep, Request, Input, InputSinkCheck, InputWrite
<1>5. ASSUME NEW c \in Clients, DetachStep(c) PROVE Rows'
  BY <1>5 DEF DetachStep, Request, Detach, DetachClearSink, DetachBump,
     DetachRecord, NextGen, Granted
<1>6. ASSUME NEW c \in Clients, TerminateStep(c) PROVE Rows'
  BY <1>6 DEF TerminateStep, Request, Terminate, TerminateUnlist,
     TerminateKill, TerminateRecord
<1>7. ASSUME NEW c \in Clients, SweepStep(c) PROVE Rows'
  BY <1>7 DEF SweepStep, KillAll, SweepKill, SweepRecord
<1>8. ASSUME NEW c \in Clients, AttachStep(c) PROVE Rows'
  BY <1>8 DEF AttachStep, AttachBegin, AttachRecord, AttachCheck,
     AttachDeliver, AttachFinish, NextGen, Granted, Reserve, Finish
<1>9. ASSUME NEW c \in Clients, Disconnect(c) PROVE Rows'
  BY <1>9 DEF Disconnect
<1>10. CASE UNCHANGED vars
  BY <1>10 DEF vars
<1> QED BY <1>1, <1>2, <1>3, <1>4, <1>5, <1>6, <1>7, <1>8, <1>9, <1>10, Steps

LEMMA RequestsStep == TypeInv /\ [Next]_vars => Requests' /\ Granting'
<1> SUFFICES ASSUME TypeInv, [Next]_vars PROVE Requests' /\ Granting'
  OBVIOUS
<1> USE BoundsAssumption
        DEF TypeInv, Requests, Granting, Counters, Stages, Attaching, Gens,
            Goto, GotoWith, Reply,
  session, replay, registry, threads, engine, readerVars, waiterVars, clients,
  frames, spawning, egress
<1>1. CASE ReaderStep
  BY <1>1 DEF ReaderStep, ReaderRead, ReaderSwitch, ReaderStash, ReaderSend,
     Push
<1>2. CASE WaiterStep \/ ChildExits
  BY <1>2 DEF WaiterStep, WaiterExited, WaiterUnlist, WaiterLoad, WaiterStore,
     WaiterRelease, ChildExits
<1>3. ASSUME NEW c \in Clients, SpawnStep(c) PROVE Requests' /\ Granting'
  <2>1. CASE SpawnCreate(c)
    BY <2>1 DEF SpawnCreate
  <2>2. CASE SpawnInsert(c)
    BY <2>2 DEF SpawnInsert
  <2>3. CASE SpawnRecheck(c)
    BY <2>3 DEF SpawnRecheck
  <2>4. CASE SpawnRecord(c)
    BY <2>4 DEF SpawnRecord
  <2>5. CASE SpawnAnnounce(c)
    BY <2>5 DEF SpawnAnnounce
  <2>6. CASE SpawnActivate(c)
    BY <2>6 DEF SpawnActivate
  <2>7. CASE SpawnDrain(c)
    BY <2>7 DEF SpawnDrain
  <2> QED BY <1>3, <2>1, <2>2, <2>3, <2>4, <2>5, <2>6, <2>7 DEF SpawnStep
<1>4. ASSUME NEW c \in Clients, InputStep(c) PROVE Requests' /\ Granting'
  BY <1>4 DEF InputStep, Request, Input, InputSinkCheck, InputWrite
<1>5. ASSUME NEW c \in Clients, DetachStep(c) PROVE Requests' /\ Granting'
  BY <1>5 DEF DetachStep, Request, Detach, DetachClearSink, DetachBump,
     DetachRecord, NextGen, Granted
<1>6. ASSUME NEW c \in Clients, TerminateStep(c) PROVE Requests' /\ Granting'
  BY <1>6 DEF TerminateStep, Request, Terminate, TerminateUnlist,
     TerminateKill, TerminateRecord
<1>7. ASSUME NEW c \in Clients, SweepStep(c) PROVE Requests' /\ Granting'
  BY <1>7 DEF SweepStep, KillAll, SweepKill, SweepRecord
<1>8. ASSUME NEW c \in Clients, AttachStep(c) PROVE Requests' /\ Granting'
  BY <1>8 DEF AttachStep, AttachBegin, AttachRecord, AttachCheck,
     AttachDeliver, AttachFinish, NextGen, Granted, Reserve, Finish
<1>9. ASSUME NEW c \in Clients, Disconnect(c) PROVE Requests' /\ Granting'
  BY <1>9 DEF Disconnect
<1>10. CASE UNCHANGED vars
  BY <1>10 DEF vars
<1> QED BY <1>1, <1>2, <1>3, <1>4, <1>5, <1>6, <1>7, <1>8, <1>9, <1>10, Steps

LEMMA OutputsStep == TypeInv /\ [Next]_vars => Outputs'
<1> SUFFICES ASSUME TypeInv, [Next]_vars PROVE Outputs'
  OBVIOUS
<1> USE BoundsAssumption, KeepLastType
        DEF TypeInv, Counters, Outputs, Requests, Granting, Attaching, Gens,
            Goto, GotoWith, Send,
  session, replay, registry, threads, engine, readerVars, waiterVars, clients,
  frames, spawning, egress
<1>1. CASE ReaderStep
  <2>1. CASE ReaderRead
    <3>1. produced' \in Chunks
      BY <2>1 DEF ReaderRead, Chunks
    <3>2. Append(ring, produced') \in Seq(Chunks) /\ Append(batch, produced') \in Seq(Chunks)
      BY <3>1
    <3>3. KeepLast(Append(ring, produced')) \in Seq(Chunks)
      BY <3>2, KeepLastType
    <3>4. ring' = KeepLast(Append(ring, produced'))
      BY <2>1 DEF ReaderRead, Push
    <3>5. batch' \in Seq(Chunks)
      BY <2>1, <3>2, Zenon DEF ReaderRead, Push
    <3> QED BY <2>1, <3>3, <3>4, <3>5 DEF ReaderRead
  <2>2. CASE ReaderSwitch
    BY <2>2 DEF ReaderSwitch
  <2>3. CASE ReaderStash
    BY <2>3 DEF ReaderStash
  <2>4. CASE ReaderSend
    <3>1. <<produced>> \in Seq(Chunks) /\ UNCHANGED <<ring, batch, handoff, grantee>>
      BY <2>4 DEF ReaderSend
    <3>2. Send(readerSink, <<produced>>)
      BY <2>4, Zenon DEF ReaderSend
    <3>3. seen' \in [Gens -> Seq(Chunks)]
      BY <3>1, <3>2, SendType
    <3> QED BY <3>1, <3>3
  <2> QED BY <1>1, <2>1, <2>2, <2>3, <2>4 DEF ReaderStep
<1>2. CASE WaiterStep \/ ChildExits
  BY <1>2 DEF WaiterStep, WaiterExited, WaiterUnlist, WaiterLoad, WaiterStore,
     WaiterRelease, ChildExits
<1>3. ASSUME NEW c \in Clients, SpawnStep(c) PROVE Outputs'
  <2>1. CASE SpawnCreate(c)
    BY <2>1 DEF SpawnCreate
  <2>2. CASE SpawnInsert(c)
    BY <2>2 DEF SpawnInsert
  <2>3. CASE SpawnRecheck(c)
    BY <2>3 DEF SpawnRecheck
  <2>4. CASE SpawnRecord(c)
    BY <2>4 DEF SpawnRecord
  <2>5. CASE SpawnAnnounce(c)
    BY <2>5 DEF SpawnAnnounce
  <2>6. CASE SpawnActivate(c)
    BY <2>6 DEF SpawnActivate
  <2>7. CASE SpawnDrain(c)
    BY <2>7 DEF SpawnDrain
  <2> QED BY <1>3, <2>1, <2>2, <2>3, <2>4, <2>5, <2>6, <2>7 DEF SpawnStep
<1>4. ASSUME NEW c \in Clients, InputStep(c) PROVE Outputs'
  BY <1>4 DEF InputStep, Request, Input, InputSinkCheck, InputWrite
<1>5. ASSUME NEW c \in Clients, DetachStep(c) PROVE Outputs'
  BY <1>5 DEF DetachStep, Request, Detach, DetachClearSink, DetachBump,
     DetachRecord, NextGen, Granted
<1>6. ASSUME NEW c \in Clients, TerminateStep(c) PROVE Outputs'
  BY <1>6 DEF TerminateStep, Request, Terminate, TerminateUnlist,
     TerminateKill, TerminateRecord
<1>7. ASSUME NEW c \in Clients, SweepStep(c) PROVE Outputs'
  BY <1>7 DEF SweepStep, KillAll, SweepKill, SweepRecord
<1>8. ASSUME NEW c \in Clients, AttachStep(c) PROVE Outputs'
  <2>1. CASE AttachBegin(c)
    BY <2>1 DEF AttachBegin, Reserve, NextGen, Granted
  <2>2. CASE AttachRecord(c)
    BY <2>2 DEF AttachRecord
  <2>3. CASE AttachCheck(c)
    BY <2>3 DEF AttachCheck
  <2>4. CASE AttachDeliver(c)
    <3>1. UNCHANGED <<ring, handoff>> /\ batch' = <<>> /\ arg[c] \in Gens
      BY <2>4 DEF AttachDeliver, Finish
    <3>2. CASE up[c]
      <4>1. /\ seen' = [seen EXCEPT ![arg[c]] = batch]
            /\ grantee' = [grantee EXCEPT ![arg[c]] = c]
        BY <2>4, <3>2 DEF AttachDeliver
      <4> QED BY <3>1, <4>1
    <3>3. CASE ~up[c]
      <4>1. UNCHANGED <<seen, grantee>>
        BY <2>4, <3>3 DEF AttachDeliver
      <4> QED BY <3>1, <4>1
    <3> QED BY <3>2, <3>3
  <2>5. CASE AttachFinish(c)
    BY <2>5 DEF AttachFinish
  <2> QED BY <1>8, <2>1, <2>2, <2>3, <2>4, <2>5 DEF AttachStep
<1>9. ASSUME NEW c \in Clients, Disconnect(c) PROVE Outputs'
  BY <1>9 DEF Disconnect
<1>10. CASE UNCHANGED vars
  BY <1>10 DEF vars
<1> QED BY <1>1, <1>2, <1>3, <1>4, <1>5, <1>6, <1>7, <1>8, <1>9, <1>10, Steps

LEMMA TypeInit == Init => TypeInv
<1> SUFFICES ASSUME Init PROVE TypeInv
  OBVIOUS
<1> USE BoundsAssumption, NobodyAssumption DEF Init
<1>1. Flags
  BY DEF Flags
<1>1a. Counters
  BY DEF Counters
<1>2. Rows
  BY DEF Rows, Records, NoRecord
<1>3. Requests /\ Granting
  BY DEF Requests, Granting, Attaching, Stages
<1>4. Outputs
  BY DEF Outputs
<1> QED BY <1>1, <1>1a, <1>2, <1>3, <1>4 DEF TypeInv

LEMMA TypeStep == TypeInv /\ [Next]_vars => TypeInv'
BY FlagsStep, CountersStep, RowsStep, RequestsStep, OutputsStep DEF TypeInv

(* Every variable of the terminal and of the threads around it has the     *)
(* type TypeOK gives it (backend.rs, helper.rs).                           *)
THEOREM TypeCorrect == Spec => []TypeOK
<1>1. TypeInv => TypeOK
  BY DEF TypeInv, Flags, Counters, Rows, Requests, Outputs, TypeOK
<1> QED BY <1>1, TypeInit, TypeStep, PTL DEF Spec

LEMMA UnspawnedStep == TypeInv /\ Unspawned /\ [Next]_vars => Unspawned'
<1> SUFFICES ASSUME TypeInv /\ Unspawned, [Next]_vars PROVE Unspawned'
  OBVIOUS
<1> USE BoundsAssumption
        DEF TypeInv, Requests, Counters, Granting, Gens, Unspawned, Outputs,
            Goto, GotoWith, Reply,
  session, replay, registry, threads, engine, readerVars, waiterVars, clients,
  frames, spawning, egress
<1>1. CASE ReaderStep
  BY <1>1 DEF ReaderStep, ReaderRead, ReaderSwitch, ReaderStash, ReaderSend,
     Push
<1>2. CASE WaiterStep \/ ChildExits
  BY <1>2 DEF WaiterStep, WaiterExited, WaiterUnlist, WaiterLoad, WaiterStore,
     WaiterRelease, ChildExits
<1>3. ASSUME NEW c \in Clients, SpawnStep(c) PROVE Unspawned'
  BY <1>3 DEF SpawnStep, SpawnCreate, SpawnInsert, SpawnRecheck, SpawnRecord,
     SpawnAnnounce, SpawnActivate, SpawnDrain
<1>4. ASSUME NEW c \in Clients, InputStep(c) PROVE Unspawned'
  BY <1>4 DEF InputStep, Request, Input, InputSinkCheck, InputWrite
<1>5. ASSUME NEW c \in Clients, DetachStep(c) PROVE Unspawned'
  BY <1>5 DEF DetachStep, Request, Detach, DetachClearSink, DetachBump,
     DetachRecord, NextGen, Granted
<1>6. ASSUME NEW c \in Clients, TerminateStep(c) PROVE Unspawned'
  BY <1>6 DEF TerminateStep, Request, Terminate, TerminateUnlist,
     TerminateKill, TerminateRecord
<1>7. ASSUME NEW c \in Clients, SweepStep(c) PROVE Unspawned'
  BY <1>7 DEF SweepStep, KillAll, SweepKill, SweepRecord
<1>8. ASSUME NEW c \in Clients, AttachStep(c) PROVE Unspawned'
  <2>1. CASE AttachBegin(c)
    BY <2>1 DEF AttachBegin, Reserve, NextGen, Granted
  <2>2. CASE AttachRecord(c)
    BY <2>2 DEF AttachRecord
  <2>3. CASE AttachCheck(c)
    BY <2>3 DEF AttachCheck
  <2>4. CASE AttachDeliver(c)
    BY <2>4 DEF AttachDeliver, Finish
  <2>5. CASE AttachFinish(c)
    BY <2>5 DEF AttachFinish
  <2> QED BY <1>8, <2>1, <2>2, <2>3, <2>4, <2>5 DEF AttachStep
<1>9. ASSUME NEW c \in Clients, Disconnect(c) PROVE Unspawned'
  BY <1>9 DEF Disconnect
<1>10. CASE UNCHANGED vars
  BY <1>10 DEF vars
<1> QED BY <1>1, <1>2, <1>3, <1>4, <1>5, <1>6, <1>7, <1>8, <1>9, <1>10, Steps

LEMMA SinksStep == TypeInv /\ Sinks /\ [Next]_vars => Sinks'
<1> SUFFICES ASSUME TypeInv /\ Sinks, [Next]_vars PROVE Sinks'
  OBVIOUS
<1> USE BoundsAssumption, NobodyAssumption
        DEF TypeInv, Requests, Counters, Granting, Gens, Outputs, Sinks,
            Attaching, Goto, GotoWith,
  session, replay, registry, threads, engine, readerVars, waiterVars, clients,
  frames, spawning, egress
<1>1. CASE ReaderStep
  BY <1>1 DEF ReaderStep, ReaderRead, ReaderSwitch, ReaderStash, ReaderSend,
     Push
<1>2. CASE WaiterStep \/ ChildExits
  BY <1>2 DEF WaiterStep, WaiterExited, WaiterUnlist, WaiterLoad, WaiterStore,
     WaiterRelease, ChildExits
<1>3. ASSUME NEW c \in Clients, SpawnStep(c) PROVE Sinks'
  <2>1. CASE SpawnCreate(c)
    BY <2>1 DEF SpawnCreate
  <2>2. CASE SpawnInsert(c)
    BY <2>2 DEF SpawnInsert
  <2>3. CASE SpawnRecheck(c)
    BY <2>3 DEF SpawnRecheck
  <2>4. CASE SpawnRecord(c)
    BY <2>4 DEF SpawnRecord
  <2>5. CASE SpawnAnnounce(c)
    BY <2>5 DEF SpawnAnnounce
  <2>6. CASE SpawnActivate(c)
    BY <2>6 DEF SpawnActivate
  <2>7. CASE SpawnDrain(c)
    BY <2>7 DEF SpawnDrain
  <2> QED BY <1>3, <2>1, <2>2, <2>3, <2>4, <2>5, <2>6, <2>7 DEF SpawnStep
<1>4. ASSUME NEW c \in Clients, InputStep(c) PROVE Sinks'
  BY <1>4 DEF InputStep, Request, Input, InputSinkCheck, InputWrite
<1>5. ASSUME NEW c \in Clients, DetachStep(c) PROVE Sinks'
  BY <1>5 DEF DetachStep, Request, Detach, DetachClearSink, DetachBump,
     DetachRecord, NextGen, Granted
<1>6. ASSUME NEW c \in Clients, TerminateStep(c) PROVE Sinks'
  BY <1>6 DEF TerminateStep, Request, Terminate, TerminateUnlist,
     TerminateKill, TerminateRecord
<1>7. ASSUME NEW c \in Clients, SweepStep(c) PROVE Sinks'
  BY <1>7 DEF SweepStep, KillAll, SweepKill, SweepRecord
<1>8. ASSUME NEW c \in Clients, AttachStep(c) PROVE Sinks'
  <2>1. CASE AttachBegin(c)
    BY <2>1 DEF AttachBegin, Reserve, NextGen, Granted
  <2>2. CASE AttachRecord(c)
    BY <2>2 DEF AttachRecord
  <2>3. CASE AttachCheck(c)
    BY <2>3 DEF AttachCheck
  <2>4. CASE AttachDeliver(c)
    <3>1. /\ arg[c] \in Gens /\ UNCHANGED <<reader, readerSink>>
          /\ \/ UNCHANGED <<sink, grantee>>
             \/ sink' = arg[c] /\ grantee' = [grantee EXCEPT ![arg[c]] = c]
      BY <2>4 DEF AttachDeliver
    <3>2. \A g \in Gens : grantee[g] \in Clients => grantee'[g] \in Clients
      BY <3>1
    <3>3. sink' # 0 => grantee'[sink'] \in Clients
      BY <3>1, <3>2
    <3>4. readerSink' # 0 => grantee'[readerSink'] \in Clients
      BY <3>1, <3>2
    <3> QED BY <3>1, <3>3, <3>4
  <2>5. CASE AttachFinish(c)
    BY <2>5 DEF AttachFinish
  <2> QED BY <1>8, <2>1, <2>2, <2>3, <2>4, <2>5 DEF AttachStep
<1>9. ASSUME NEW c \in Clients, Disconnect(c) PROVE Sinks'
  BY <1>9 DEF Disconnect
<1>10. CASE UNCHANGED vars
  BY <1>10 DEF vars
<1> QED BY <1>1, <1>2, <1>3, <1>4, <1>5, <1>6, <1>7, <1>8, <1>9, <1>10, Steps

LEMMA LifeStep == TypeInv /\ Life /\ [Next]_vars => Life'
<1> SUFFICES ASSUME TypeInv /\ Life, [Next]_vars PROVE Life'
  OBVIOUS
<1> USE BoundsAssumption
        DEF TypeInv, Requests, Counters, Granting, Gens, Life,
            LiveProcessListed, Goto, GotoWith, Reply,
  session, replay, registry, threads, engine, readerVars, waiterVars, clients,
  frames, spawning, egress
<1>1. CASE ReaderStep
  BY <1>1 DEF ReaderStep, ReaderRead, ReaderSwitch, ReaderStash, ReaderSend,
     Push
<1>2. CASE WaiterStep \/ ChildExits
  BY <1>2 DEF WaiterStep, WaiterExited, WaiterUnlist, WaiterLoad, WaiterStore,
     WaiterRelease, ChildExits
<1>3. ASSUME NEW c \in Clients, SpawnStep(c) PROVE Life'
  BY <1>3 DEF SpawnStep, SpawnCreate, SpawnInsert, SpawnRecheck, SpawnRecord,
     SpawnAnnounce, SpawnActivate, SpawnDrain
<1>4. ASSUME NEW c \in Clients, InputStep(c) PROVE Life'
  BY <1>4 DEF InputStep, Request, Input, InputSinkCheck, InputWrite
<1>5. ASSUME NEW c \in Clients, DetachStep(c) PROVE Life'
  BY <1>5 DEF DetachStep, Request, Detach, DetachClearSink, DetachBump,
     DetachRecord, NextGen, Granted
<1>6. ASSUME NEW c \in Clients, TerminateStep(c) PROVE Life'
  BY <1>6 DEF TerminateStep, Request, Terminate, TerminateUnlist,
     TerminateKill, TerminateRecord
<1>7. ASSUME NEW c \in Clients, SweepStep(c) PROVE Life'
  BY <1>7 DEF SweepStep, KillAll, SweepKill, SweepRecord
<1>8. ASSUME NEW c \in Clients, AttachStep(c) PROVE Life'
  BY <1>8 DEF AttachStep, AttachBegin, AttachRecord, AttachCheck,
     AttachDeliver, AttachFinish, NextGen, Granted, Reserve, Finish
<1>9. ASSUME NEW c \in Clients, Disconnect(c) PROVE Life'
  BY <1>9 DEF Disconnect
<1>10. CASE UNCHANGED vars
  BY <1>10 DEF vars
<1> QED BY <1>1, <1>2, <1>3, <1>4, <1>5, <1>6, <1>7, <1>8, <1>9, <1>10, Steps

-----------------------------------------------------------------------------
(* The steps that touch neither the output nor the frames. *)

Elsewhere ==
  /\ UNCHANGED <<produced, ring, reserved, batch, reader, readerSink, active,
                 grantee, seen>>
  /\ gen <= gen'
  /\ sink' = sink \/ sink' = 0
  /\ \A c \in Clients :
       /\ pc'[c] \in Attaching => pc[c] \in Attaching /\ arg'[c] = arg[c]
       /\ pc'[c] \in Spawning => pc[c] \in Spawning
       /\ pc'[c] \in {"activate", "drain"} =>
            pc[c] \in {"activate", "drain"} \/ 1 \in known'[c]
       /\ known[c] \subseteq known'[c]
       /\ up'[c] => up[c]

FrameStep(c) ==
  \/ SpawnCreate(c) \/ SpawnActivate(c) \/ SpawnDrain(c)
  \/ AttachBegin(c) \/ AttachDeliver(c)

LEMMA ElsewhereOrNot ==
  ASSUME TypeInv, [Next]_vars
  PROVE  Elsewhere \/ ReaderStep \/ \E c \in Clients : FrameStep(c)
<1> USE DEF TypeInv, Counters, Requests, Elsewhere, Attaching, Spawning,
            Goto, GotoWith, Reply,
            session, replay, registry, threads, engine, readerVars, waiterVars,
            clients, frames, spawning, egress
<1>1. CASE WaiterStep \/ ChildExits
  BY <1>1 DEF WaiterStep, WaiterExited, WaiterUnlist, WaiterLoad, WaiterStore,
     WaiterRelease, ChildExits
<1>2. ASSUME NEW c \in Clients, SpawnStep(c), ~FrameStep(c) PROVE Elsewhere
  BY <1>2 DEF SpawnStep, SpawnInsert, SpawnRecheck, SpawnRecord,
     SpawnAnnounce, FrameStep
<1>3. ASSUME NEW c \in Clients, InputStep(c) PROVE Elsewhere
  BY <1>3 DEF InputStep, Request, Input, InputSinkCheck, InputWrite
<1>4. ASSUME NEW c \in Clients, DetachStep(c) PROVE Elsewhere
  BY <1>4 DEF DetachStep, Request, Detach, DetachClearSink, DetachBump,
     DetachRecord, NextGen, Granted
<1>5. ASSUME NEW c \in Clients, TerminateStep(c) PROVE Elsewhere
  BY <1>5 DEF TerminateStep, Request, Terminate, TerminateUnlist,
     TerminateKill, TerminateRecord
<1>6. ASSUME NEW c \in Clients, SweepStep(c) PROVE Elsewhere
  BY <1>6 DEF SweepStep, KillAll, SweepKill, SweepRecord
<1>7. ASSUME NEW c \in Clients, AttachStep(c), ~FrameStep(c) PROVE Elsewhere
  BY <1>7 DEF AttachStep, AttachRecord, AttachCheck, AttachFinish, FrameStep
<1>8. ASSUME NEW c \in Clients, Disconnect(c) PROVE Elsewhere
  BY <1>8 DEF Disconnect
<1>9. CASE UNCHANGED vars
  BY <1>9 DEF vars
<1> QED BY <1>1, <1>2, <1>3, <1>4, <1>5, <1>6, <1>7, <1>8, <1>9, Steps

LEMMA OneAttachStep ==
  TypeInv /\ Unspawned /\ OneAttach /\ Sinks /\ Replies /\ [Next]_vars => OneAttach'
<1> SUFFICES ASSUME TypeInv, Unspawned, OneAttach, Sinks, Replies, [Next]_vars
             PROVE  OneAttach'
  OBVIOUS
<1>0. /\ pc \in [Clients -> Stages] /\ arg \in [Clients -> 0 .. MaxGen]
      /\ gen \in Nat /\ gen' \in Nat /\ 1 \in Gens
      /\ grantee \in [Gens -> Clients \union {Nobody}] /\ seen \in [Gens -> Seq(Chunks)]
      /\ \A c \in Clients : pc[c] \in Attaching => arg[c] \in Gens
  <2>1. Counters /\ Counters' /\ Requests /\ Outputs /\ Granting
    BY TypeStep DEF TypeInv
  <2>2. gen \in Nat /\ gen' \in Nat /\ 1 \in Gens
    BY <2>1, BoundsAssumption DEF Counters, Gens
  <2>3. \A c \in Clients : pc[c] \in Attaching => arg[c] \in Gens
    BY <2>1 DEF Granting
  <2> QED BY <2>1, <2>2, <2>3 DEF Requests, Outputs
<1> USE DEF OneAttach
<1>1. CASE Elsewhere
  BY <1>0, <1>1 DEF Elsewhere, Gens
<1>2. CASE ReaderStep
  <2>1. UNCHANGED <<pc, arg, gen, grantee, reserved>>
    BY <1>2 DEF ReaderStep, ReaderRead, ReaderSwitch, ReaderStash, ReaderSend,
       session, replay, clients, frames, spawning, egress
  <2>2. \A g \in Gens : grantee[g] = Nobody => seen'[g] = seen[g]
    BY <1>0, <1>2, NobodyAssumption DEF ReaderStep, ReaderRead, ReaderSwitch,
       ReaderStash, ReaderSend, Send, Sinks, frames, spawning, egress
  <2> QED BY <1>0, <2>1, <2>2
<1>3. ASSUME NEW c \in Clients, SpawnCreate(c) PROVE OneAttach'
  <2>1. /\ \A d \in Clients : pc[d] = "idle" /\ pc'[d] \notin Attaching
        /\ \A g \in Gens : grantee[g] = Nobody
        /\ grantee' = [grantee EXCEPT ![1] = c] /\ seen' = seen /\ gen' = 1
    BY <1>0, <1>3 DEF SpawnCreate, Unspawned, Goto, GotoWith, Attaching
  <2> QED BY <1>0, <2>1, NobodyAssumption
<1>4. ASSUME NEW c \in Clients, SpawnActivate(c) PROVE OneAttach'
  <2>1. /\ \A d \in Clients : pc'[d] \in Attaching => pc[d] \in Attaching /\ arg'[d] = arg[d]
        /\ UNCHANGED <<gen, reserved, grantee, seen>>
    BY <1>0, <1>4 DEF SpawnActivate, Goto, GotoWith, Attaching, session, replay, egress
  <2> QED BY <1>0, <2>1
<1>5. ASSUME NEW c \in Clients, SpawnDrain(c) PROVE OneAttach'
  <2>1. /\ \A d \in Clients : pc'[d] \in Attaching => pc[d] \in Attaching /\ arg'[d] = arg[d]
        /\ UNCHANGED <<gen, reserved, grantee>>
    BY <1>0, <1>5 DEF SpawnDrain, Goto, GotoWith, Attaching, session, replay
  <2>2. \A g \in Gens : grantee[g] = Nobody => seen'[g] = seen[g]
    BY <1>0, <1>5, NobodyAssumption DEF SpawnDrain, Send, Replies, Spawning
  <2> QED BY <1>0, <2>1, <2>2
<1>6. ASSUME NEW c \in Clients, AttachBegin(c) PROVE OneAttach'
  <2>1. /\ \A d \in Clients : pc[d] \notin Attaching
        /\ \A d \in Clients : d # c => pc'[d] \notin Attaching
        /\ reserved' /\ gen' = gen + 1 /\ arg'[c] = gen + 1 /\ gen >= 1
        /\ UNCHANGED <<grantee, seen>>
    BY <1>0, <1>6 DEF AttachBegin, Reserve, NextGen, Granted, GotoWith, Unspawned,
       frames, egress
  <2>2. \A g \in Gens : grantee[g] # Nobody => g < gen'
    BY <1>0, <2>1 DEF Gens
  <2>3. \A d \in Clients : pc'[d] \in Attaching => d = c
    BY <2>1
  <2>4. arg'[c] = gen' /\ arg'[c] \in 2 .. gen'
    BY <1>0, <2>1
  <2>5. \A g \in Gens : grantee'[g] # Nobody => g < gen' /\ g <= gen'
    BY <1>0, <2>1, <2>2 DEF Gens
  <2>6. \A g \in Gens : grantee'[g] = Nobody => seen'[g] = <<>>
    BY <2>1
  <2> QED BY <2>1, <2>3, <2>4, <2>5, <2>6
<1>7. ASSUME NEW c \in Clients, AttachDeliver(c) PROVE OneAttach'
  <2>1. /\ pc[c] \in Attaching /\ \A d \in Clients : pc'[d] \notin Attaching
        /\ gen' = gen
    BY <1>0, <1>7 DEF AttachDeliver, Goto, GotoWith, Attaching
  <2>2. \/ UNCHANGED <<grantee, seen>>
        \/ /\ grantee' = [grantee EXCEPT ![arg[c]] = c]
           /\ seen' = [seen EXCEPT ![arg[c]] = batch]
    BY <1>7 DEF AttachDeliver, egress
  <2> QED BY <1>0, <2>1, <2>2, NobodyAssumption
<1> QED BY <1>1, <1>2, <1>3, <1>4, <1>5, <1>6, <1>7, ElsewhereOrNot DEF FrameStep

LEMMA RepliesStep ==
  TypeInv /\ Unspawned /\ OneAttach /\ Sinks /\ Replies /\ [Next]_vars => Replies'
<1> SUFFICES ASSUME TypeInv, Unspawned, OneAttach, Sinks, Replies, [Next]_vars
             PROVE  Replies'
  OBVIOUS
<1>0. /\ pc \in [Clients -> Stages] /\ arg \in [Clients -> 0 .. MaxGen]
      /\ known \in [Clients -> SUBSET Gens] /\ 1 \in Gens
      /\ \A g \in 2 .. MaxGen : g \in Gens
      /\ \A g \in Gens : g = 1 \/ g \in 2 .. MaxGen
      /\ readerSink \in 0 .. MaxGen
      /\ grantee \in [Gens -> Clients \union {Nobody}] /\ seen \in [Gens -> Seq(Chunks)]
  <2>1. Counters /\ Requests /\ Outputs
    BY DEF TypeInv
  <2>2. /\ 1 \in Gens /\ \A g \in 2 .. MaxGen : g \in Gens
        /\ \A g \in Gens : g = 1 \/ g \in 2 .. MaxGen
    BY BoundsAssumption DEF Gens
  <2> QED BY <2>1, <2>2 DEF Counters, Requests, Outputs
<1>a. \A g \in Gens : seen[g] # <<>> => grantee[g] \in Clients
  BY <1>0 DEF OneAttach
<1> USE DEF Replies, FramesFollowReply
<1>1. CASE Elsewhere
  BY <1>0, <1>a, <1>1 DEF Elsewhere
<1>2. CASE ReaderStep
  <2>1. UNCHANGED <<pc, arg, known, active, grantee>>
    BY <1>2 DEF ReaderStep, ReaderRead, ReaderSwitch, ReaderStash, ReaderSend,
       clients, frames, spawning, egress
  <2>2. reader' = "send" /\ readerSink' = 1 => active'
    BY <1>0, <1>2, <2>1 DEF ReaderStep, ReaderRead, ReaderSwitch, ReaderStash,
       ReaderSend
  <2>3. \A g \in Gens : seen'[g] # <<>> => g \in known[grantee[g]]
    <3>1. CASE ReaderSend
      <4>1. readerSink # 0 /\ grantee[readerSink] \in Clients
        BY <3>1 DEF ReaderSend, Sinks
      <4>2. readerSink \in known[grantee[readerSink]]
        BY <1>0, <3>1, <4>1, NobodyAssumption DEF ReaderSend
      <4>3. \A g \in Gens : g # readerSink => seen'[g] = seen[g]
        BY <1>0, <3>1 DEF ReaderSend, Send
      <4> QED BY <4>2, <4>3
    <3>2. CASE ~ReaderSend
      BY <1>2, <3>2 DEF ReaderStep, ReaderRead, ReaderSwitch, ReaderStash,
         frames, egress
    <3> QED BY <3>1, <3>2
  <2> QED BY <2>1, <2>2, <2>3
<1>3. ASSUME NEW c \in Clients, SpawnCreate(c) PROVE Replies'
  <2>1. /\ \A g \in Gens : grantee[g] = Nobody /\ seen[g] = <<>>
        /\ grantee' = [grantee EXCEPT ![1] = c]
        /\ \A d \in Clients : pc'[d] \notin {"activate", "drain"}
        /\ UNCHANGED <<seen, active, reader, readerSink, known>>
    BY <1>0, <1>3 DEF SpawnCreate, Unspawned, OneAttach, Goto, GotoWith, Spawning,
       readerVars, spawning
  <2>2. \A d \in Clients : pc'[d] \in Spawning => d = c
    BY <1>0, <1>3 DEF SpawnCreate, Unspawned, Goto, GotoWith, Spawning
  <2>3. ~active
    BY <1>0, <2>1, NobodyAssumption
  <2> QED BY <1>0, <2>1, <2>2, <2>3
<1>4. ASSUME NEW c \in Clients, SpawnActivate(c) PROVE Replies'
  <2>1. /\ pc[c] = "activate" /\ pc[c] \in Spawning
        /\ \A d \in Clients : pc'[d] \in Spawning => pc[d] \in Spawning
        /\ \A d \in Clients : pc'[d] \in {"activate", "drain"} =>
             pc[d] \in {"activate", "drain"}
        /\ UNCHANGED <<known, grantee, seen, reader, readerSink>> /\ active'
    BY <1>0, <1>4 DEF SpawnActivate, Goto, GotoWith, Spawning, egress, threads,
       readerVars
  <2> QED BY <1>0, <2>1
<1>5. ASSUME NEW c \in Clients, SpawnDrain(c) PROVE Replies'
  <2>1. /\ pc[c] = "drain" /\ pc[c] \in Spawning
        /\ \A d \in Clients : pc'[d] \in Spawning => pc[d] \in Spawning
        /\ \A d \in Clients : pc'[d] \in {"activate", "drain"} =>
             pc[d] \in {"activate", "drain"}
        /\ UNCHANGED <<known, grantee, reader, readerSink, active>>
    BY <1>0, <1>5 DEF SpawnDrain, Goto, GotoWith, Spawning, threads, readerVars
  <2>2. \A g \in Gens : g # 1 => seen'[g] = seen[g]
    BY <1>0, <1>5 DEF SpawnDrain, Send
  <2>3. 1 \in known[grantee[1]]
    BY <2>1
  <2> QED BY <1>0, <2>1, <2>2, <2>3
<1>6. ASSUME NEW c \in Clients, AttachBegin(c) PROVE Replies'
  <2>1. /\ \A d \in Clients : pc'[d] \in Spawning => pc[d] \in Spawning
        /\ \A d \in Clients : pc'[d] \in {"activate", "drain"} =>
             pc[d] \in {"activate", "drain"}
        /\ UNCHANGED <<known, grantee, seen, reader, readerSink, active>>
    BY <1>0, <1>6 DEF AttachBegin, NextGen, GotoWith, Spawning, threads,
       readerVars, frames, spawning, egress
  <2> QED BY <1>0, <2>1
<1>7. ASSUME NEW c \in Clients, AttachDeliver(c) PROVE Replies'
  <2>1. /\ arg[c] \in 2 .. MaxGen
        /\ \A d \in Clients : pc'[d] \in Spawning => pc[d] \in Spawning
        /\ \A d \in Clients : pc'[d] \in {"activate", "drain"} =>
             pc[d] \in {"activate", "drain"}
        /\ UNCHANGED <<reader, readerSink, active>>
    BY <1>0, <1>7 DEF AttachDeliver, Goto, GotoWith, Spawning, Attaching, threads,
       readerVars, spawning, OneAttach
  <2>2. CASE UNCHANGED <<known, grantee, seen>>
    BY <1>0, <2>1, <2>2
  <2>3. CASE /\ known' = [known EXCEPT ![c] = @ \union {arg[c]}]
             /\ grantee' = [grantee EXCEPT ![arg[c]] = c]
             /\ seen' = [seen EXCEPT ![arg[c]] = batch]
    <3>1. \A d \in Clients : known[d] \subseteq known'[d]
      BY <1>0, <2>3
    <3>2. arg[c] \in known'[c] /\ grantee'[arg[c]] = c
      BY <1>0, <2>1, <2>3
    <3>3. \A g \in Gens : g # arg[c] => grantee'[g] = grantee[g] /\ seen'[g] = seen[g]
      BY <1>0, <2>3
    <3>4. 1 # arg[c] /\ grantee'[1] = grantee[1]
      BY <1>0, <2>1, <3>3
    <3>5. \A d \in Clients : pc'[d] \in Spawning => grantee'[1] = d
      BY <2>1, <3>4
    <3>6. \A d \in Clients : pc'[d] \in {"activate", "drain"} => 1 \in known'[d]
      BY <2>1, <3>1
    <3>7. active' => grantee'[1] \in Clients /\ 1 \in known'[grantee'[1]]
      BY <2>1, <3>1, <3>4
    <3>8. \A g \in 2 .. MaxGen : grantee'[g] # Nobody => g \in known'[grantee'[g]]
      BY <1>0, <3>1, <3>2, <3>3
    <3>9. \A g \in Gens : seen'[g] # <<>> => g \in known'[grantee'[g]]
      BY <1>0, <1>a, <3>1, <3>2, <3>3
    <3> QED BY <2>1, <3>5, <3>6, <3>7, <3>8, <3>9
  <2> QED BY <1>7, <2>2, <2>3 DEF AttachDeliver, egress
<1> QED BY <1>1, <1>2, <1>3, <1>4, <1>5, <1>6, <1>7, ElsewhereOrNot DEF FrameStep

-----------------------------------------------------------------------------
(* What the replay ring, the reserved batch and the streams hold. *)

LEMMA LatestAppend ==
  ASSUME NEW s \in Seq(Chunks), NEW n \in Nat, Latest(s, n), n + 1 \in Chunks
  PROVE  Latest(Append(s, n + 1), n + 1)
<1>1. /\ Len(Append(s, n + 1)) = Len(s) + 1
      /\ \A i \in 1 .. Len(s) : Append(s, n + 1)[i] = s[i]
      /\ Append(s, n + 1)[Len(s) + 1] = n + 1
      /\ Append(s, n + 1) # <<>>
  BY AppendProperties
<1>2. Len(s) \in Nat
  BY LenProperties
<1> HIDE DEF Chunks
<1> DEFINE t == Append(s, n + 1)
<1>3. \A i \in 1 .. Len(s) + 1 : t[i] = n + 1 - (Len(s) + 1) + i
  <2> TAKE i \in 1 .. Len(s) + 1
  <2>1. CASE i = Len(s) + 1
    BY <1>1, <1>2, <2>1
  <2>2. CASE i # Len(s) + 1
    BY <1>1, <1>2, <2>2 DEF Latest
  <2> QED BY <2>1, <2>2
<1> QED BY <1>1, <1>2, <1>3 DEF Latest

LEMMA LatestKeepLast ==
  ASSUME NEW s \in Seq(Chunks), NEW n \in Nat, Latest(s, n)
  PROVE  Latest(KeepLast(s), n)
<1>1. Len(s) \in Nat /\ RingCap \in Nat \ {0}
  BY RingAssumption, LenProperties
<1>2. CASE Len(s) <= RingCap
  BY <1>1, <1>2 DEF KeepLast
<1>3. CASE Len(s) > RingCap
  <2> DEFINE first == Len(s) - RingCap + 1
             t == SubSeq(s, first, Len(s))
  <2>1. first \in 1 .. Len(s) + 1 /\ Len(s) - first + 1 = RingCap
    BY <1>1, <1>3
  <2>2. /\ Len(t) = RingCap
        /\ \A i \in 1 .. RingCap : t[i] = s[first + i - 1]
    BY <1>1, <1>3, <2>1, SubSeqProperties
  <2>3. KeepLast(s) = t
    BY <1>3 DEF KeepLast
  <2>4. \A i \in 1 .. RingCap : first + i - 1 \in 1 .. Len(s)
    BY <1>1, <1>3
  <2>5. \A i \in 1 .. RingCap : t[i] = n - RingCap + i
    BY <1>1, <1>3, <2>2, <2>4 DEF Latest
  <2>6. RingCap <= n
    BY <1>1, <1>3 DEF Latest
  <2>7. t # <<>>
    <3> HIDE DEF t
    <3> QED BY <1>1, <2>2, EmptySeq
  <2> QED BY <2>2, <2>3, <2>5, <2>6, <2>7 DEF Latest
<1> QED BY <1>1, <1>2, <1>3

LEMMA LatestEnds ==
  ASSUME NEW s \in Seq(Chunks), NEW n \in Nat, Latest(s, n)
  PROVE  Ends(s, n)
<1>1. Len(s) \in Nat /\ (s # <<>> => Len(s) >= 1) /\ (Len(s) = 0 => s = <<>>)
  BY EmptySeq, LenProperties
<1>2. s # <<>> => s[Len(s)] = n
  BY <1>1 DEF Latest
<1> QED BY <1>1, <1>2 DEF Latest, Ends

LEMMA EndsAppend ==
  ASSUME NEW s \in Seq(Chunks), NEW n \in Chunks
  PROVE  s \o <<n>> = Append(s, n) /\ Ends(s \o <<n>>, n)
<1>1. s \o <<n>> = Append(s, n)
  BY AppendIsConcat
<1>2. n # 0
  BY DEF Chunks
<1> QED BY <1>1, <1>2, AppendProperties DEF Ends

LEMMA BuffersStep == TypeInv /\ Buffers /\ [Next]_vars => Buffers'
<1> SUFFICES ASSUME TypeInv, Buffers, [Next]_vars PROVE Buffers'
  OBVIOUS
<1>0. ring \in Seq(Chunks) /\ batch \in Seq(Chunks) /\ produced \in Nat
  BY BoundsAssumption DEF TypeInv, Outputs, Counters
<1>1. CASE Elsewhere
  BY <1>1 DEF Elsewhere, Buffers
<1>2. CASE ReaderRead
  <2>1. /\ produced' = produced + 1 /\ produced + 1 \in Chunks
        /\ ring' = KeepLast(Append(ring, produced + 1))
        /\ reserved' = reserved
        /\ reserved => batch' = Append(batch, produced + 1)
    BY <1>0, <1>2, BoundsAssumption DEF ReaderRead, Push, Chunks
  <2>2. Append(ring, produced + 1) \in Seq(Chunks) /\ produced + 1 \in Nat
    BY <1>0, <2>1, AppendProperties
  <2>3. Latest(ring', produced')
    BY <1>0, <2>1, <2>2, LatestAppend, LatestKeepLast DEF Buffers
  <2>4. reserved' => Latest(batch', produced')
    BY <1>0, <2>1, LatestAppend DEF Buffers
  <2> QED BY <2>3, <2>4 DEF Buffers
<1>3. CASE ReaderSwitch \/ ReaderStash \/ ReaderSend
  BY <1>3 DEF ReaderSwitch, ReaderStash, ReaderSend, session, replay, Buffers
<1>4. ASSUME NEW c \in Clients, FrameStep(c) PROVE Buffers'
  BY <1>4 DEF FrameStep, SpawnCreate, SpawnActivate, SpawnDrain, AttachBegin,
     AttachDeliver, Reserve, Finish, session, replay, Buffers
<1> QED BY <1>1, <1>2, <1>3, <1>4, ElsewhereOrNot DEF ReaderStep

LEMMA StreamsStep ==
  TypeInv /\ OneAttach /\ Sinks /\ Buffers /\ Streams /\ [Next]_vars => Streams'
<1> SUFFICES ASSUME TypeInv, OneAttach, Sinks, Buffers, Streams, [Next]_vars,
                    NEW g \in 2 .. MaxGen, Live(g)'
             PROVE  Current(g)'
  BY DEF Streams
<1>0. /\ g \in Gens /\ g # 1 /\ g # 0 /\ produced \in Nat
      /\ grantee \in [Gens -> Clients \union {Nobody}] /\ seen \in [Gens -> Seq(Chunks)]
      /\ batch \in Seq(Chunks) /\ up \in [Clients -> BOOLEAN]
      /\ readerSink \in 0 .. MaxGen /\ sink \in 0 .. MaxGen
      /\ reader # "read" => produced \in Chunks
  <2>1. Counters /\ Requests /\ Outputs
    BY DEF TypeInv
  <2>2. g \in Gens /\ g # 1 /\ g # 0
    BY BoundsAssumption DEF Gens
  <2> QED BY <2>1, <2>2, BoundsAssumption DEF Counters, Requests, Outputs
<1>a. Live(g) => Current(g)
  BY DEF Streams
<1>1. CASE Elsewhere
  <2>1. Live(g)
    BY <1>0, <1>1 DEF Elsewhere, Live
  <2>2. UNCHANGED <<produced, reader, readerSink, seen>> /\ sink' \in {sink, 0}
    BY <1>1 DEF Elsewhere
  <2> QED BY <1>0, <1>a, <2>1, <2>2 DEF Current, Sending
<1>2. CASE ReaderStep
  <2>1. UNCHANGED <<grantee, up, sink>> /\ Live(g) /\ Current(g)
    BY <1>2, <1>a DEF ReaderStep, ReaderRead, ReaderSwitch, ReaderStash,
       ReaderSend, session, clients, frames, spawning, egress, Live
  <2>2. CASE ReaderRead
    <3>1. /\ reader = "read" /\ produced' = produced + 1 /\ seen' = seen
          /\ readerSink' = sink
          /\ reader' = "send" => sink # 0
          /\ sink = g => reader' = "send"
      BY <1>0, <2>2 DEF ReaderRead, frames, egress
    <3>2. produced' - 1 = produced
      BY <1>0, <3>1
    <3> QED BY <2>1, <3>1, <3>2 DEF Current, Sending
  <2>3. CASE ReaderSwitch \/ ReaderStash
    <3>1. /\ produced' = produced /\ seen' = seen
          /\ readerSink = 1 /\ readerSink' # g
      BY <1>0, <2>3 DEF ReaderSwitch, ReaderStash, Sinks, session, replay,
         frames, egress
    <3> QED BY <1>0, <2>1, <3>1 DEF Current, Sending
  <2>4. CASE ReaderSend
    <3>1. /\ reader = "send" /\ reader' = "read" /\ produced' = produced
          /\ produced \in Chunks
      BY <1>0, <2>4 DEF ReaderSend, session, replay
    <3>2. CASE g = readerSink
      <4>1. seen'[g] = seen[g] \o <<produced>>
        BY <1>0, <2>1, <2>4, <3>2 DEF ReaderSend, Send, Live
      <4>2. Ends(seen'[g], produced)
        BY <1>0, <3>1, <4>1, EndsAppend
      <4> QED BY <3>1, <4>2 DEF Current, Sending
    <3>3. CASE g # readerSink
      <4>1. seen'[g] = seen[g]
        BY <1>0, <2>4, <3>3 DEF ReaderSend, Send
      <4> QED BY <2>1, <3>1, <3>3, <4>1 DEF Current, Sending
    <3> QED BY <3>2, <3>3
  <2> QED BY <1>2, <2>2, <2>3, <2>4 DEF ReaderStep
<1>3. ASSUME NEW c \in Clients, SpawnCreate(c) PROVE Current(g)'
  <2>1. /\ grantee'[g] = grantee[g] /\ up' = up /\ sink' = 1
        /\ UNCHANGED <<seen, reader, readerSink, produced>>
    BY <1>0, <1>3 DEF SpawnCreate, replay, readerVars
  <2> QED BY <1>0, <1>a, <2>1 DEF Live, Current, Sending
<1>4. ASSUME NEW c \in Clients, SpawnActivate(c) \/ SpawnDrain(c) PROVE Current(g)'
  <2>1. /\ seen'[g] = seen[g]
        /\ UNCHANGED <<grantee, up, sink, reader, readerSink, produced>>
    BY <1>0, <1>4 DEF SpawnActivate, SpawnDrain, Send, session, replay, threads,
       readerVars, egress
  <2> QED BY <1>a, <2>1 DEF Live, Current, Sending
<1>5. ASSUME NEW c \in Clients, AttachBegin(c) PROVE Current(g)'
  <2>1. /\ sink' = 0
        /\ UNCHANGED <<grantee, up, seen, reader, readerSink, produced>>
    BY <1>5 DEF AttachBegin, threads, readerVars, frames, egress
  <2> QED BY <1>0, <1>a, <2>1 DEF Live, Current, Sending
<1>6. ASSUME NEW c \in Clients, AttachDeliver(c) PROVE Current(g)'
  <2>1. /\ pc[c] \in Attaching
        /\ UNCHANGED <<up, reader, readerSink, produced>>
    BY <1>6 DEF AttachDeliver, Attaching, threads, readerVars
  <2>2. CASE UNCHANGED <<sink, egress>>
    BY <1>a, <2>1, <2>2 DEF egress, Live, Current, Sending
  <2>3. CASE /\ seen' = [seen EXCEPT ![arg[c]] = batch]
             /\ grantee' = [grantee EXCEPT ![arg[c]] = c]
             /\ sink' = arg[c]
    <3>1. CASE g = arg[c]
      <4>1. reserved /\ grantee[g] = Nobody
        BY <1>0, <2>1, <3>1 DEF OneAttach, Gens
      <4>2. ~Sending(g)
        BY <1>0, <4>1, NobodyAssumption DEF Sinks, Sending
      <4>3. Ends(batch, produced) /\ seen'[g] = batch
        BY <1>0, <2>3, <3>1, <4>1, LatestEnds DEF Buffers
      <4> QED BY <2>1, <4>2, <4>3 DEF Current, Sending
    <3>2. CASE g # arg[c]
      <4>1. grantee'[g] = grantee[g] /\ seen'[g] = seen[g] /\ sink' # g
        BY <1>0, <2>3, <3>2
      <4> QED BY <1>a, <2>1, <4>1 DEF Live, Current, Sending
    <3> QED BY <3>1, <3>2
  <2> QED BY <1>6, <2>2, <2>3 DEF AttachDeliver
<1> QED BY <1>1, <1>2, <1>3, <1>4, <1>5, <1>6, ElsewhereOrNot DEF FrameStep

-----------------------------------------------------------------------------
(* The invariant and what follows from it. *)

TerminalInv ==
  TypeInv /\ Unspawned /\ OneAttach /\ Sinks /\ Replies /\ Life /\ Buffers /\ Streams

LEMMA InvInit == Init => TerminalInv
<1> SUFFICES ASSUME Init PROVE TerminalInv
  OBVIOUS
<1>0. TypeInv
  BY TypeInit
<1> USE BoundsAssumption, NobodyAssumption DEF Init
<1>1. Unspawned /\ Sinks
  BY DEF Unspawned, Sinks
<1>2. OneAttach
  BY DEF OneAttach, Attaching
<1>3. Replies
  BY DEF Replies, Spawning, FramesFollowReply, Gens
<1>4. Life
  BY DEF Life, LiveProcessListed
<1>5. Buffers
  BY EmptySeq DEF Buffers, Latest
<1>6. Streams
  BY DEF Streams, Live, Gens
<1> QED BY <1>0, <1>1, <1>2, <1>3, <1>4, <1>5, <1>6 DEF TerminalInv

LEMMA InvStep == TerminalInv /\ [Next]_vars => TerminalInv'
BY TypeStep, UnspawnedStep, OneAttachStep, SinksStep, RepliesStep, LifeStep,
   BuffersStep, StreamsStep DEF TerminalInv

LEMMA InvAlways == Spec => []TerminalInv
BY InvInit, InvStep, PTL DEF Spec

(* No frame of a generation is sent before the reply that tells its client *)
(* the generation: the handoff of helper.rs keeps what the shell writes    *)
(* while it is being spawned until the Spawn reply is out.                 *)
THEOREM FramesCorrect == Spec => []FramesFollowReply
<1>1. TerminalInv => FramesFollowReply
  BY DEF TerminalInv, Replies
<1> QED BY <1>1, InvAlways, PTL

(* A running shell is in the map of sessions (backend.rs), or the thread    *)
(* that will insert or kill it is at work.                                  *)
THEOREM LiveProcessCorrect == Spec => []LiveProcessListed
<1>1. TerminalInv => LiveProcessListed
  BY DEF TerminalInv, Life
<1> QED BY <1>1, InvAlways, PTL

(* The client of the live sink has been sent every chunk, but for the one  *)
(* the reader holds: nothing is lost between the replay of complete_attach *)
(* and the sink it installs.                                               *)
THEOREM StreamUpToDateCorrect == Spec => []StreamUpToDate
<1>1. TerminalInv => StreamUpToDate
  <2> SUFFICES ASSUME TerminalInv, sink >= 2, up[grantee[sink]], reader = "read"
               PROVE  Ends(seen[sink], produced)
    BY DEF StreamUpToDate, Ends
  <2>1. sink \in 2 .. MaxGen
    BY BoundsAssumption DEF TerminalInv, TypeInv, Counters
  <2>2. Live(sink) /\ ~Sending(sink)
    BY <2>1, NobodyAssumption DEF TerminalInv, Sinks, Live, Sending
  <2> QED BY <2>1, <2>2 DEF TerminalInv, Streams, Current
<1> QED BY <1>1, InvAlways, PTL

-----------------------------------------------------------------------------
(* The frames of every attach implement TerminalStream. *)

Opened == {g \in 2 .. MaxGen : grantee[g] # Nobody}
Sent == [g \in 2 .. MaxGen |-> seen[g]]

LEMMA StreamStutter ==
  ASSUME UNCHANGED <<produced, grantee>>,
         \A g \in 2 .. MaxGen : seen'[g] = seen[g]
  PROVE  UNCHANGED Stream!vars
BY DEF Stream!vars

LEMMA LatestIs ==
  ASSUME NEW s \in Seq(Chunks), NEW n \in Nat, Latest(s, n)
  PROVE  s = [i \in 1 .. Len(s) |-> n - Len(s) + i]
<1> s = [i \in 1 .. Len(s) |-> s[i]]
  BY SeqDef, LenProperties
<1> QED BY DEF Latest

LEMMA StreamInit == Init => Stream!Init
BY BoundsAssumption DEF Init, Stream!Init, Gens

LEMMA StreamRead ==
  ASSUME ReaderRead PROVE Stream!Produce
BY DEF ReaderRead, Stream!Produce, frames, egress

LEMMA StreamSend ==
  ASSUME TerminalInv, ReaderSend
  PROVE  UNCHANGED Stream!vars \/ \E g \in 2 .. MaxGen : Stream!Extend(g)
<1> DEFINE g == readerSink
<1>0. /\ produced \in Chunks /\ produced \in Nat /\ seen \in [Gens -> Seq(Chunks)]
      /\ g \in 0 .. MaxGen /\ g # 0 /\ grantee[g] \in Clients
      /\ UNCHANGED <<produced, grantee>>
      /\ \A h \in 2 .. MaxGen : h \in Gens
  BY BoundsAssumption DEF TerminalInv, TypeInv, Counters, Outputs, Sinks, Gens,
     ReaderSend, session, replay
<1>1. CASE g = 1
  <2>1. \A h \in 2 .. MaxGen : seen'[h] = seen[h]
    BY <1>0, <1>1 DEF ReaderSend, Send
  <2> QED BY <1>0, <2>1, StreamStutter
<1>2. CASE g # 1 /\ ~up[grantee[g]]
  <2>1. \A h \in 2 .. MaxGen : seen'[h] = seen[h]
    BY <1>0, <1>2 DEF ReaderSend, Send
  <2> QED BY <1>0, <2>1, StreamStutter
<1>3. CASE g # 1 /\ up[grantee[g]]
  <2>1. g \in 2 .. MaxGen /\ g \in Gens /\ grantee[g] # Nobody
    BY <1>0, <1>3, BoundsAssumption, NobodyAssumption
  <2>2. Ends(seen[g], produced - 1)
    BY <1>3, <2>1 DEF TerminalInv, Streams, Live, Current, Sending, ReaderSend
  <2>3. Stream!Following(seen[g]) = produced
    BY <1>0, <2>2 DEF Ends, Stream!Following
  <2>4. seen[g] \o <<produced>> = Append(seen[g], produced)
    BY <1>0, <2>1, EndsAppend
  <2>5. seen' = [seen EXCEPT ![g] = Append(seen[g], produced)]
    BY <1>3, <2>4 DEF ReaderSend, Send
  <2>6. Sent' = [Sent EXCEPT ![g] = Append(Sent[g], produced)]
    BY <1>0, <2>1, <2>5 DEF Sent
  <2>7. \E k \in 2 .. MaxGen : Stream!Extend(k)
    <3>1. g \in Opened /\ Opened' = Opened /\ Sent[g] = seen[g]
      BY <1>0, <2>1 DEF Opened, Sent
    <3>2. Stream!Following(seen[g]) <= produced
      BY <1>0, <2>3
    <3>3. Sent' = [Sent EXCEPT ![g] = Append(@, Stream!Following(@))]
      BY <2>3, <2>6, <3>1
    <3>4. PICK k \in 2 .. MaxGen : k = g
      BY <2>1
    <3>5. Stream!Extend(k)
      BY <1>0, <3>1, <3>2, <3>3, <3>4, Zenon DEF Stream!Extend, Opened, Sent
    <3> QED BY <3>5
  <2> QED BY <2>7
<1> QED BY <1>1, <1>2, <1>3

LEMMA StreamDeliver ==
  ASSUME TerminalInv, NEW c \in Clients, AttachDeliver(c)
  PROVE  \/ UNCHANGED Stream!vars
         \/ \E g \in 2 .. MaxGen, kept \in 0 .. produced : Stream!Open(g, kept)
<1> DEFINE g == arg[c]
           kept == Len(batch)
<1>0. /\ pc[c] \in Attaching /\ produced' = produced
      /\ seen \in [Gens -> Seq(Chunks)] /\ grantee \in [Gens -> Clients \union {Nobody}]
      /\ batch \in Seq(Chunks) /\ produced \in Nat
      /\ \A h \in 2 .. MaxGen : h \in Gens
  BY BoundsAssumption DEF TerminalInv, TypeInv, Counters, Outputs, Gens,
     AttachDeliver, Attaching
<1>1. CASE ~up[c]
  BY <1>0, <1>1, StreamStutter DEF AttachDeliver, egress
<1>2. CASE up[c]
  <2>1. /\ g \in 2 .. MaxGen /\ reserved
        /\ \A h \in Gens : grantee[h] # Nobody => h < g
    <3>1. g \in 2 .. gen /\ gen \in 0 .. MaxGen
      BY <1>0 DEF TerminalInv, OneAttach, TypeInv, Counters
    <3> QED BY <1>0, <3>1, BoundsAssumption DEF TerminalInv, OneAttach
  <2>2. Latest(batch, produced)
    BY <2>1 DEF TerminalInv, Buffers
  <2>3. batch = [i \in 1 .. kept |-> produced - kept + i] /\ kept \in 0 .. produced
    BY <1>0, <2>2, LatestIs, LenProperties DEF Latest
  <2>4. /\ seen' = [seen EXCEPT ![g] = batch]
        /\ grantee' = [grantee EXCEPT ![g] = c]
    BY <1>2 DEF AttachDeliver
  <2>5. Opened' = Opened \union {g}
    BY <1>0, <2>1, <2>4, NobodyAssumption DEF Opened
  <2>6. Sent' = [Sent EXCEPT ![g] = batch]
    BY <1>0, <2>1, <2>4 DEF Sent
  <2>7. \A older \in Opened : older < g
    BY <1>0, <2>1 DEF Opened
  <2> HIDE DEF g, kept
  <2>8. PICK h \in 2 .. MaxGen, n \in 0 .. produced : h = g /\ n = kept
    BY <2>1, <2>3
  <2>9. Stream!Open(h, n)
    <3>1. Sent' = [Sent EXCEPT ![g] = [i \in 1 .. kept |-> produced - kept + i]]
      BY <2>3, <2>6, Zenon
    <3> QED BY <1>0, <2>5, <2>7, <2>8, <3>1, Zenon DEF Stream!Open, Opened, Sent
  <2> QED BY <2>9
<1> QED BY <1>1, <1>2

LEMMA StreamStep == TerminalInv /\ [Next]_vars => [Stream!Next]_(Stream!vars)
<1> SUFFICES ASSUME TerminalInv, [Next]_vars
             PROVE  Stream!Next \/ UNCHANGED Stream!vars
  OBVIOUS
<1>0. /\ seen \in [Gens -> Seq(Chunks)] /\ grantee \in [Gens -> Clients \union {Nobody}]
      /\ \A h \in 2 .. MaxGen : h \in Gens /\ h # 1
  BY BoundsAssumption DEF TerminalInv, TypeInv, Outputs, Gens
<1>1. CASE Elsewhere
  BY <1>1, StreamStutter DEF Elsewhere
<1>2. CASE ReaderRead
  BY <1>2, StreamRead DEF Stream!Next
<1>3. CASE ReaderSwitch \/ ReaderStash
  BY <1>3, StreamStutter DEF ReaderSwitch, ReaderStash, session, replay, frames, egress
<1>4. CASE ReaderSend
  BY <1>4, StreamSend DEF Stream!Next
<1>5. ASSUME NEW c \in Clients, SpawnCreate(c) PROVE UNCHANGED Stream!vars
  <2>1. /\ UNCHANGED <<produced, seen>>
        /\ \A h \in 2 .. MaxGen : grantee'[h] = grantee[h]
    BY <1>0, <1>5 DEF SpawnCreate, replay
  <2> QED BY <2>1 DEF Stream!vars
<1>6. ASSUME NEW c \in Clients, SpawnActivate(c) \/ SpawnDrain(c) \/ AttachBegin(c)
      PROVE UNCHANGED Stream!vars
  <2>1. /\ UNCHANGED <<produced, grantee>>
        /\ \A h \in 2 .. MaxGen : seen'[h] = seen[h]
    BY <1>0, <1>6 DEF SpawnActivate, SpawnDrain, AttachBegin, Send, session,
       replay, frames, egress
  <2> QED BY <2>1, StreamStutter
<1>7. ASSUME NEW c \in Clients, AttachDeliver(c)
      PROVE Stream!Next \/ UNCHANGED Stream!vars
  BY <1>7, StreamDeliver DEF Stream!Next
<1> QED
  BY <1>1, <1>2, <1>3, <1>4, <1>5, <1>6, <1>7, ElsewhereOrNot
     DEF TerminalInv, ReaderStep, FrameStep

(* The frames of every attach are what TerminalStream promises: the latest *)
(* output there was when the snapshot was taken, and then each chunk once  *)
(* and in order, whatever detaches, exits and disconnections there are     *)
(* between the steps of begin_attach and complete_attach (backend.rs).     *)
THEOREM ImplementsTerminalStream == Spec => StreamSpec
<1>1. Spec => Stream!Init /\ [][Stream!Next]_(Stream!vars)
  BY InvAlways, StreamInit, StreamStep, PTL DEF Spec
<1> QED BY <1>1 DEF StreamSpec, Stream!Spec

-----------------------------------------------------------------------------
(* One client at a time, with a store that does not fail. *)

Alone == ~StoreMayFail /\ \A c, d \in Clients : c = d

\* What a request names is the generation, until it is over.
Naming ==
  \A c \in Clients :
    pc[c] \in {"sinkCheck", "write", "clearSink", "bump", "unlist", "kill",
               "recordDetached", "recordAttached"} \union Attaching =>
      arg[c] = gen

\* A reservation belongs to the attach in progress.
Reserving ==
  reserved /\ child = "running" => \E c \in Clients : pc[c] \in Attaching

Settled ==
  /\ record.state = "attached" <=> sink # 0
  /\ record.gen = gen
  /\ sink \in {0, gen}

Resting ==
  {"idle", "announce", "activate", "drain", "sinkCheck", "write", "clearSink",
   "unlist", "kill", "sweep"}

\* How far the record of a running shell is behind its sink.
Recording ==
  child = "running" =>
    /\ (\A c \in Clients : pc[c] \in Resting) => Settled
    /\ \A c \in Clients :
         /\ pc[c] \in {"insert", "recheck", "firstRecord"} => sink = 1 /\ gen = 1
         /\ pc[c] \in {"bump", "recordDetached"} \union Attaching => sink = 0
         /\ pc[c] \in {"check", "deliver"} =>
              record = [state |-> "attaching", gen |-> gen]
         /\ pc[c] = "recordAttached" => sink = gen /\ gen # 0
         /\ pc[c] \notin {"recordStopped", "recordSwept"}

LEMMA NamingStep == Alone /\ TypeInv /\ Naming /\ [Next]_vars => Naming'
<1> SUFFICES ASSUME Alone /\ TypeInv /\ Naming, [Next]_vars PROVE Naming'
  OBVIOUS
<1> USE BoundsAssumption
        DEF TypeInv, Requests, Counters, Granting, Gens, Alone, Naming,
            Accepts, Attaching, Goto, GotoWith, Reply,
  session, replay, registry, threads, engine, readerVars, waiterVars, clients,
  frames, spawning, egress
<1>1. CASE ReaderStep
  BY <1>1 DEF ReaderStep, ReaderRead, ReaderSwitch, ReaderStash, ReaderSend,
     Push
<1>2. CASE WaiterStep \/ ChildExits
  BY <1>2 DEF WaiterStep, WaiterExited, WaiterUnlist, WaiterLoad, WaiterStore,
     WaiterRelease, ChildExits
<1>3. ASSUME NEW c \in Clients, SpawnStep(c) PROVE Naming'
  BY <1>3 DEF SpawnStep, SpawnCreate, SpawnInsert, SpawnRecheck, SpawnRecord,
     SpawnAnnounce, SpawnActivate, SpawnDrain
<1>4. ASSUME NEW c \in Clients, InputStep(c) PROVE Naming'
  BY <1>4 DEF InputStep, Request, Input, InputSinkCheck, InputWrite
<1>5. ASSUME NEW c \in Clients, DetachStep(c) PROVE Naming'
  BY <1>5 DEF DetachStep, Request, Detach, DetachClearSink, DetachBump,
     DetachRecord, NextGen, Granted
<1>6. ASSUME NEW c \in Clients, TerminateStep(c) PROVE Naming'
  BY <1>6 DEF TerminateStep, Request, Terminate, TerminateUnlist,
     TerminateKill, TerminateRecord
<1>7. ASSUME NEW c \in Clients, SweepStep(c) PROVE Naming'
  BY <1>7 DEF SweepStep, KillAll, SweepKill, SweepRecord
<1>8. ASSUME NEW c \in Clients, AttachStep(c) PROVE Naming'
  BY <1>8 DEF AttachStep, AttachBegin, AttachRecord, AttachCheck,
     AttachDeliver, AttachFinish, NextGen, Granted, Reserve, Finish
<1>9. ASSUME NEW c \in Clients, Disconnect(c) PROVE Naming'
  BY <1>9 DEF Disconnect
<1>10. CASE UNCHANGED vars
  BY <1>10 DEF vars
<1> QED BY <1>1, <1>2, <1>3, <1>4, <1>5, <1>6, <1>7, <1>8, <1>9, <1>10, Steps

LEMMA ReservingStep == Alone /\ TypeInv /\ Unspawned /\ Naming /\ Life /\ Reserving /\ [Next]_vars => Reserving'
<1> SUFFICES ASSUME Alone /\ TypeInv /\ Unspawned /\ Naming /\ Life /\ Reserving, [Next]_vars PROVE Reserving'
  OBVIOUS
<1> USE BoundsAssumption
        DEF TypeInv, Requests, Counters, Granting, Gens, Alone, Naming, Life,
            LiveProcessListed, Unspawned, Reserving, Accepts, Attaching, Goto,
            GotoWith, Reply,
  session, replay, registry, threads, engine, readerVars, waiterVars, clients,
  frames, spawning, egress
<1>1. CASE ReaderStep
  BY <1>1 DEF ReaderStep, ReaderRead, ReaderSwitch, ReaderStash, ReaderSend,
     Push
<1>2. CASE WaiterStep \/ ChildExits
  BY <1>2 DEF WaiterStep, WaiterExited, WaiterUnlist, WaiterLoad, WaiterStore,
     WaiterRelease, ChildExits
<1>3. ASSUME NEW c \in Clients, SpawnStep(c) PROVE Reserving'
  BY <1>3 DEF SpawnStep, SpawnCreate, SpawnInsert, SpawnRecheck, SpawnRecord,
     SpawnAnnounce, SpawnActivate, SpawnDrain
<1>4. ASSUME NEW c \in Clients, InputStep(c) PROVE Reserving'
  BY <1>4 DEF InputStep, Request, Input, InputSinkCheck, InputWrite
<1>5. ASSUME NEW c \in Clients, DetachStep(c) PROVE Reserving'
  BY <1>5 DEF DetachStep, Request, Detach, DetachClearSink, DetachBump,
     DetachRecord, NextGen, Granted
<1>6. ASSUME NEW c \in Clients, TerminateStep(c) PROVE Reserving'
  BY <1>6 DEF TerminateStep, Request, Terminate, TerminateUnlist,
     TerminateKill, TerminateRecord
<1>7. ASSUME NEW c \in Clients, SweepStep(c) PROVE Reserving'
  BY <1>7 DEF SweepStep, KillAll, SweepKill, SweepRecord
<1>8. ASSUME NEW c \in Clients, AttachStep(c) PROVE Reserving'
  BY <1>8 DEF AttachStep, AttachBegin, AttachRecord, AttachCheck,
     AttachDeliver, AttachFinish, NextGen, Granted, Reserve, Finish
<1>9. ASSUME NEW c \in Clients, Disconnect(c) PROVE Reserving'
  BY <1>9 DEF Disconnect
<1>10. CASE UNCHANGED vars
  BY <1>10 DEF vars
<1> QED BY <1>1, <1>2, <1>3, <1>4, <1>5, <1>6, <1>7, <1>8, <1>9, <1>10, Steps

LEMMA RecordingStep == Alone /\ TypeInv /\ Unspawned /\ Naming /\ Life /\ Recording /\ [Next]_vars => Recording'
<1> SUFFICES ASSUME Alone /\ TypeInv /\ Unspawned /\ Naming /\ Life /\ Recording, [Next]_vars PROVE Recording'
  OBVIOUS
<1> USE BoundsAssumption
        DEF TypeInv, Requests, Counters, Granting, Gens, Rows, Records, Alone,
            Unspawned, Naming, Life, LiveProcessListed, Recording, Resting,
            Settled, Attaching, Put, Goto, GotoWith, Reply,
  session, replay, registry, threads, engine, readerVars, waiterVars, clients,
  frames, spawning, egress
<1>1. CASE ReaderStep
  BY <1>1 DEF ReaderStep, ReaderRead, ReaderSwitch, ReaderStash, ReaderSend,
     Push
<1>2. CASE WaiterStep \/ ChildExits
  BY <1>2 DEF WaiterStep, WaiterExited, WaiterUnlist, WaiterLoad, WaiterStore,
     WaiterRelease, ChildExits
<1>3. ASSUME NEW c \in Clients, SpawnStep(c) PROVE Recording'
  BY <1>3 DEF SpawnStep, SpawnCreate, SpawnInsert, SpawnRecheck, SpawnRecord,
     SpawnAnnounce, SpawnActivate, SpawnDrain
<1>4. ASSUME NEW c \in Clients, InputStep(c) PROVE Recording'
  BY <1>4 DEF InputStep, Request, Input, InputSinkCheck, InputWrite
<1>5. ASSUME NEW c \in Clients, DetachStep(c) PROVE Recording'
  BY <1>5 DEF DetachStep, Request, Detach, DetachClearSink, DetachBump,
     DetachRecord, NextGen, Granted
<1>6. ASSUME NEW c \in Clients, TerminateStep(c) PROVE Recording'
  BY <1>6 DEF TerminateStep, Request, Terminate, TerminateUnlist,
     TerminateKill, TerminateRecord
<1>7. ASSUME NEW c \in Clients, SweepStep(c) PROVE Recording'
  BY <1>7 DEF SweepStep, KillAll, SweepKill, SweepRecord
<1>8. ASSUME NEW c \in Clients, AttachStep(c) PROVE Recording'
  BY <1>8 DEF AttachStep, AttachBegin, AttachRecord, AttachCheck,
     AttachDeliver, AttachFinish, NextGen, Granted, Reserve, Finish
<1>9. ASSUME NEW c \in Clients, Disconnect(c) PROVE Recording'
  BY <1>9 DEF Disconnect
<1>10. CASE UNCHANGED vars
  BY <1>10 DEF vars
<1> QED BY <1>1, <1>2, <1>3, <1>4, <1>5, <1>6, <1>7, <1>8, <1>9, <1>10, Steps

AloneInv == TerminalInv /\ Naming /\ Reserving /\ Recording

LEMMA AloneAlways == Alone => (Spec => []AloneInv)
<1> SUFFICES ASSUME Alone PROVE Spec => []AloneInv
  OBVIOUS
<1>1. Init => AloneInv
  <2> SUFFICES ASSUME Init PROVE AloneInv
    OBVIOUS
  <2>1. Naming /\ Reserving /\ Recording
    BY DEF Init, Naming, Reserving, Recording, Attaching
  <2> QED BY <2>1, InvInit DEF AloneInv
<1>2. AloneInv /\ [Next]_vars => AloneInv'
  BY InvStep, NamingStep, ReservingStep, RecordingStep DEF AloneInv, TerminalInv
<1> QED BY <1>1, <1>2, PTL DEF Spec

(* One client at a time can always attach again to a running shell: no     *)
(* attach that fails or loses its peer leaves the reservation of the       *)
(* replay ring behind (replay.rs, begin_attach and finish_attach).         *)
THEOREM ReattachAlone == Alone => (Spec => []ReattachPossible)
<1>1. AloneInv => ReattachPossible
  BY DEF AloneInv, Reserving, ReattachPossible, Quiet, Attaching
<1> QED BY <1>1, AloneAlways, PTL

(* Between the requests of one client the record of a running shell has    *)
(* the generation of its live sink, and says attached when there is one.   *)
THEOREM RecordAlone == Alone => (Spec => []RecordTracksAttachment)
<1>1. AloneInv => RecordTracksAttachment
  BY DEF AloneInv, Recording, RecordTracksAttachment, Quiet, Resting, Settled
<1> QED BY <1>1, AloneAlways, PTL

(* With one client at a time, what a request does to the terminal it does  *)
(* to the generation it names: between check_generation and the effect     *)
(* nothing advances the generation.                                        *)
THEOREM MutationsAlone == Alone => (Spec => StaleMutationsRefused)
<1> DEFINE Refused ==
      \A c \in Clients :
        \/ pc[c] = "write" /\ pc'[c] = "idle" /\ pty
        \/ pc[c] = "bump" /\ pc'[c] = "recordDetached"
        \/ pc[c] = "kill" /\ pc'[c] = "recordStopped"
        => arg[c] = gen
<1>1. AloneInv /\ [Next]_vars => [Refused]_vars
  BY DEF AloneInv, Naming
<1>2. Alone => (Spec => [][Refused]_vars)
  BY <1>1, AloneAlways, PTL DEF Spec
<1> QED BY <1>2 DEF StaleMutationsRefused
====
