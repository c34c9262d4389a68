------------------------- MODULE DurableStateProofs -------------------------
(***************************************************************************)
(* Proofs about the window's state on disk, for any tabs, calls, failures  *)
(* and restarts: the writer of persist.ts keeps and returns what was asked *)
(* for last, a quit that flushed has flushed, and the sweep deletes the    *)
(* state of no tab that can be reached, if the archive can be read.        *)
(***************************************************************************)
EXTENDS DurableState, SequenceTheorems, TLAPS

-----------------------------------------------------------------------------
(* The steps, by what they do to the writer: save, move what is buffered   *)
(* into the chains, delete, answer a call, or leave it alone.              *)

SaveStep(t) ==
  \/ OpenTab(t) \/ CloseTab(t) \/ ReopenTab(t) \/ Touch(t) \/ FirstLaunch(t) \/ Replaced(t)
FlushStep == FlushAll \/ CloseWindow \/ \E s \in Scopes : TimerFires(s)
DeleteStep == Replace \/ SweepDeletes
StillStep ==
  \/ StartRecovery \/ Restored \/ Unusable \/ Decline \/ SweepArchive
  \/ \E s \in Scopes : Read(s)
  \/ \E t \in Tabs : Mount(t) \/ ViewLoaded(t)
EndStep == FlushDone \/ Dies

LEMMA Steps ==
  ASSUME [Next]_vars
  PROVE  \/ \E t \in Tabs : SaveStep(t)
         \/ FlushStep \/ DeleteStep \/ StillStep \/ EndStep \/ StartApp
         \/ \E s \in Scopes : Lands(s) \/ Fails(s)
         \/ UNCHANGED vars
BY DEF Next, SaveStep, FlushStep, DeleteStep, StillStep, EndStep

LEMMA ScopeFacts ==
  /\ Session \in Scopes /\ Archive \in Scopes /\ Tabs \subseteq Scopes /\ Session # Archive
  /\ \A t \in Tabs : t # Session /\ t # Archive
BY DurableAssumption DEF Scopes

LEMMA EntryFacts ==
  /\ \A n \in Nat, ts \in SUBSET Tabs :
       Value(n, ts) \in Entry /\ Value(n, ts).at = n /\ Value(n, ts).tabs = ts
       /\ Value(n, ts).is = "value"
  /\ \A n \in Nat : Gone(n) \in Entry /\ Gone(n).at = n /\ Gone(n).tabs = {}
                    /\ Gone(n).is = "missing"
  /\ \A e \in Entry :
       LET u == [e EXCEPT !.is = "unreadable"]
       IN  u \in Entry /\ u.at = e.at /\ u.tabs = e.tabs /\ u.is = "unreadable"
BY DEF Value, Gone, Entry

\* A chain that a call joins, and one whose head was answered.
LEMMA Grown ==
  ASSUME NEW q \in Seq(Entry), NEW e \in Entry
  PROVE  /\ Append(q, e) \in Seq(Entry) /\ Append(q, e) # <<>>
         /\ Len(Append(q, e)) = Len(q) + 1 /\ Len(q) \in Nat
         /\ \A i \in 1 .. Len(q) : Append(q, e)[i] = q[i]
         /\ Append(q, e)[Len(q) + 1] = e
BY AppendProperties, LenProperties

LEMMA Shrunk ==
  ASSUME NEW q \in Seq(Entry), q # <<>>
  PROVE  /\ Len(q) \in Nat \ {0} /\ Head(q) = q[1] /\ Head(q) \in Entry
         /\ Tail(q) \in Seq(Entry) /\ Len(Tail(q)) = Len(q) - 1
         /\ Tail(q) = <<>> <=> Len(q) = 1
         /\ \A i \in 1 .. Len(q) - 1 : Tail(q)[i] = q[i + 1]
<1>1. Len(q) \in Nat \ {0} /\ Head(q) \in Entry /\ Tail(q) \in Seq(Entry)
      /\ Len(Tail(q)) = Len(q) - 1
  BY HeadTailProperties, EmptySeq, LenProperties
<1>2. Head(q) = q[1] /\ \A i \in 1 .. Len(q) - 1 : Tail(q)[i] = q[i + 1]
  BY <1>1, HeadTailProperties, LenProperties
<1>3. Tail(q) = <<>> <=> Len(Tail(q)) = 0
  BY <1>1, EmptySeq
<1> QED BY <1>1, <1>2, <1>3

-----------------------------------------------------------------------------
(* Types, in groups. *)

WriterTypes ==
  /\ disk \in [Scopes -> Entry] /\ latest \in [Scopes -> Entry]
  /\ pending \in [Scopes -> Entry \union {Nothing}] /\ chain \in [Scopes -> Seq(Entry)]
  /\ timer \subseteq Scopes /\ blocked \subseteq Scopes /\ spoilt \subseteq Scopes
  /\ calls \in Nat
  /\ \A s \in timer : pending[s] # Nothing

StoreTypes ==
  /\ boot \in {"off", "starting", "restoring", "asking", "replacing", "up", "preserved"}
  /\ result \in {"null", "restored", "missing", "failed"}
  /\ tabs \subseteq used /\ closed \subseteq used /\ loaded \subseteq tabs
  /\ used \subseteq Tabs /\ raced \subseteq used /\ boots \in Nat /\ clean \in BOOLEAN

ReadTypes == reads \in [Scopes -> Reads]
SweepTypes == sweep \in [phase : {"idle", "archive", "listing"}, live : SUBSET Tabs]
QuitTypes == quit \in Quits

TypeInv == WriterTypes /\ StoreTypes /\ ReadTypes /\ SweepTypes /\ QuitTypes

-----------------------------------------------------------------------------
(* What the writer's operations do to one scope. *)

Rests(s) ==
  disk'[s] = disk[s] /\ pending'[s] = pending[s] /\ chain'[s] = chain[s] /\ latest'[s] = latest[s]

Saves(s) ==
  /\ disk'[s] = disk[s] /\ chain'[s] = chain[s]
  /\ pending'[s] = latest'[s] /\ latest'[s] \in Entry
  /\ latest'[s].is = "value" /\ latest'[s].at = calls + 1 /\ calls' = calls + 1

Deletes(s) ==
  /\ disk'[s] = disk[s] /\ pending'[s] = Nothing
  /\ chain'[s] = Append(chain[s], Gone(calls + 1)) /\ latest'[s] = Gone(calls + 1)
  /\ calls' = calls + 1

Moves(s) ==
  /\ disk'[s] = disk[s] /\ latest'[s] = latest[s] /\ pending'[s] = Nothing
  /\ chain'[s] = IF pending[s] = Nothing THEN chain[s] ELSE Append(chain[s], pending[s])

Writes(s) == Rests(s) \/ Saves(s) \/ Deletes(s) \/ Moves(s)

LEMMA SaveWrites ==
  ASSUME WriterTypes, NEW s \in Scopes, NEW ts \in SUBSET Tabs, SaveState(s, ts),
         UNCHANGED <<disk, chain, spoilt>>, blocked' \subseteq Scopes
  PROVE  /\ WriterTypes' /\ calls <= calls'
         /\ \A x \in Scopes : Rests(x) \/ (x = s /\ Saves(x) /\ latest'[x] = Value(calls + 1, ts))
<1> USE DEF WriterTypes, Rests, Saves
<1>1. CASE s \in blocked
  BY <1>1 DEF SaveState
<1>2. CASE s \notin blocked
  <2> DEFINE v == Value(calls + 1, ts)
  <2>0. calls \in Nat /\ calls + 1 \in Nat
    OBVIOUS
  <2>1. v \in Entry /\ v.is = "value" /\ v.at = calls + 1
    BY <2>0, EntryFacts
  <2>2. v # Nothing
    BY <2>1, NothingAssumption
  <2>3. /\ pending' = [pending EXCEPT ![s] = v] /\ latest' = [latest EXCEPT ![s] = v]
        /\ timer' = timer \union {s} /\ calls' = calls + 1
    BY <1>2 DEF SaveState
  <2> HIDE DEF v
  <2>4. WriterTypes' /\ calls <= calls'
    BY <2>0, <2>1, <2>2, <2>3
  <2> QED BY <2>1, <2>3, <2>4 DEF v
<1> QED BY <1>1, <1>2

LEMMA PersistWrites ==
  ASSUME WriterTypes, NEW ts \in SUBSET Tabs, Persist(ts),
         UNCHANGED <<disk, chain, spoilt>>, blocked' \subseteq Scopes
  PROVE  /\ WriterTypes' /\ calls <= calls'
         /\ \A x \in Scopes :
              Rests(x) \/ (x = Session /\ Saves(x) /\ latest'[x] = Value(calls + 1, ts))
<1>1. CASE SaveState(Session, ts)
  BY <1>1, SaveWrites, ScopeFacts
<1>2. CASE UNCHANGED <<pending, timer, latest, calls>>
  BY <1>2 DEF WriterTypes, Rests
<1> QED BY <1>1, <1>2 DEF Persist

LEMMA DeleteWrites ==
  ASSUME WriterTypes, NEW S \in SUBSET Scopes, DeleteStates(S),
         UNCHANGED <<disk, blocked, spoilt>>
  PROVE  /\ WriterTypes' /\ calls <= calls'
         /\ \A x \in Scopes : IF x \in S THEN Deletes(x) ELSE Rests(x)
<1> USE DEF WriterTypes, DeleteStates
<1>1. Gone(calls + 1) \in Entry
  BY EntryFacts
<1>2. chain' \in [Scopes -> Seq(Entry)]
  BY <1>1, Grown
<1>3. WriterTypes' /\ calls <= calls'
  BY <1>1, <1>2
<1>4. \A x \in S : Deletes(x)
  BY DEF Deletes
<1>5. \A x \in Scopes \ S : Rests(x)
  BY DEF Rests
<1> QED BY <1>3, <1>4, <1>5

LEMMA FlushWrites ==
  ASSUME WriterTypes, NEW S \in SUBSET Scopes, FlushScopes(S),
         UNCHANGED <<disk, blocked, spoilt, latest, calls>>
  PROVE  /\ WriterTypes' /\ calls <= calls'
         /\ \A x \in Scopes : IF x \in S THEN Moves(x) ELSE Rests(x)
<1> USE DEF WriterTypes, FlushScopes
<1>1. chain' \in [Scopes -> Seq(Entry)]
  BY Grown
<1>2. WriterTypes' /\ calls <= calls'
  BY <1>1
<1>3. \A x \in S : Moves(x)
  BY DEF Moves
<1>4. \A x \in Scopes \ S : Rests(x)
  BY DEF Rests
<1> QED BY <1>2, <1>3, <1>4

LEMMA AnswerWrites ==
  ASSUME WriterTypes, NEW s \in Scopes, Lands(s) \/ Fails(s)
  PROVE  /\ WriterTypes' /\ UNCHANGED <<calls, latest>>
         /\ \A x \in Scopes \ {s} : Rests(x)
<1> USE DEF WriterTypes
<1>1. CASE Lands(s)
  <2>1. Head(chain[s]) \in Entry /\ Tail(chain[s]) \in Seq(Entry)
    BY <1>1, Shrunk DEF Lands
  <2> QED BY <1>1, <2>1 DEF Lands, Rests, ghosts
<1>2. CASE Fails(s)
  <2>1. Head(chain[s]) \in Entry /\ Tail(chain[s]) \in Seq(Entry)
    BY <1>2, Shrunk DEF Fails
  <2>2. pending' \in [Scopes -> Entry \union {Nothing}] /\ (\A x \in timer : pending'[x] # Nothing)
        /\ \A x \in Scopes \ {s} : pending'[x] = pending[x]
    BY <1>2, <2>1, NothingAssumption DEF Fails, Retry
  <2> QED BY <1>2, <2>1, <2>2 DEF Fails, Rests
<1> QED BY <1>1, <1>2

-----------------------------------------------------------------------------
(* Each step, scope by scope. *)

Reading(x) ==
  \/ reads'[x] \in {reads[x], NoRead}
  \/ Rests(x) /\ (reads'[x] = Load(x) \/ Read(x))

Scopewise ==
  /\ WriterTypes' /\ calls <= calls' /\ UNCHANGED spoilt
  /\ \A x \in Scopes : Writes(x) /\ Reading(x)

LEMMA SaveScopewise ==
  ASSUME TypeInv, NEW t \in Tabs, SaveStep(t)
  PROVE  Scopewise /\ UNCHANGED quit
<1> USE ScopeFacts DEF TypeInv, StoreTypes, ReadTypes
<1>0. Session \in Scopes /\ Archive \in Scopes /\ Session # Archive /\ blocked \subseteq Scopes
  BY DEF WriterTypes
<1>1. CASE OpenTab(t)
  <2>1. tabs' \in SUBSET Tabs /\ Persist(tabs') /\ blocked' \subseteq Scopes
        /\ UNCHANGED <<disk, chain, spoilt, quit, reads>>
    BY <1>0, <1>1 DEF OpenTab
  <2> QED BY <2>1, PersistWrites DEF Scopewise, Writes, Reading
<1>2. CASE CloseTab(t)
  <2>1. tabs' \in SUBSET Tabs /\ Persist(tabs') /\ blocked' \subseteq Scopes
        /\ UNCHANGED <<disk, chain, spoilt, quit, reads>>
    BY <1>0, <1>2 DEF CloseTab
  <2> QED BY <2>1, PersistWrites DEF Scopewise, Writes, Reading
<1>3. CASE ReopenTab(t)
  <2>1. tabs' \in SUBSET Tabs /\ Persist(tabs') /\ blocked' \subseteq Scopes
        /\ UNCHANGED <<disk, chain, spoilt, quit, reads>>
    BY <1>0, <1>3 DEF ReopenTab
  <2> QED BY <2>1, PersistWrites DEF Scopewise, Writes, Reading
<1>4. CASE Touch(t)
  <2>1. SaveState(t, {}) /\ blocked' \subseteq Scopes
        /\ UNCHANGED <<disk, chain, spoilt, quit, reads>> /\ t \in Scopes
    BY <1>0, <1>4 DEF Touch
  <2> QED BY <2>1, SaveWrites DEF Scopewise, Writes, Reading
<1>5. CASE FirstLaunch(t)
  <2>1. tabs' \in SUBSET Tabs /\ Persist(tabs') /\ blocked' \subseteq Scopes
        /\ UNCHANGED <<disk, chain, spoilt, quit>>
    BY <1>0, <1>5 DEF FirstLaunch, Restoring, Answered, Initialize
  <2>2. reads' = [reads EXCEPT ![Session] = NoRead, ![Archive] = Load(Archive)]
    BY <1>5 DEF FirstLaunch
  <2> QED BY <1>0, <2>1, <2>2, PersistWrites DEF Scopewise, Writes, Reading
<1>6. CASE Replaced(t)
  <2>1. tabs' \in SUBSET Tabs /\ Persist(tabs') /\ blocked' \subseteq Scopes
        /\ UNCHANGED <<disk, chain, spoilt, quit>>
    BY <1>0, <1>6 DEF Replaced, Initialize
  <2>2. reads' = [reads EXCEPT ![Archive] = Load(Archive)]
    BY <1>6 DEF Replaced
  <2> QED BY <1>0, <2>1, <2>2, PersistWrites DEF Scopewise, Writes, Reading
<1> QED BY <1>1, <1>2, <1>3, <1>4, <1>5, <1>6 DEF SaveStep

LEMMA FlushScopewise ==
  ASSUME TypeInv, FlushStep
  PROVE  Scopewise /\ UNCHANGED reads /\ (UNCHANGED quit \/ CloseWindow)
<1> USE DEF TypeInv, Scopewise, Writes, Reading, ghosts
<1>1. CASE FlushAll \/ CloseWindow
  BY <1>1, FlushWrites DEF FlushAll, CloseWindow
<1>2. ASSUME NEW s \in Scopes, TimerFires(s)
      PROVE  Scopewise /\ UNCHANGED <<reads, quit>>
  <2>1. FlushScopes({s}) /\ UNCHANGED <<disk, blocked, spoilt, latest, calls, reads, quit>>
    BY <1>2 DEF TimerFires
  <2> QED BY <2>1, FlushWrites
<1> QED BY <1>1, <1>2 DEF FlushStep

LEMMA DeleteScopewise ==
  ASSUME TypeInv, DeleteStep
  PROVE  Scopewise /\ UNCHANGED <<reads, quit>>
<1> USE DEF TypeInv, Scopewise, Writes, Reading
<1>1. CASE Replace
  <2>1. {Session} \in SUBSET Scopes
    BY ScopeFacts
  <2> QED BY <1>1, <2>1, DeleteWrites DEF Replace
<1>2. CASE SweepDeletes
  <2>1. Listed \ sweep.live \in SUBSET Scopes
    BY ScopeFacts DEF Listed
  <2> QED BY <1>2, <2>1, DeleteWrites DEF SweepDeletes
<1> QED BY <1>1, <1>2 DEF DeleteStep

LEMMA StillScopewise ==
  ASSUME TypeInv, StillStep
  PROVE  Scopewise /\ UNCHANGED <<disk, pending, timer, chain, latest, calls, quit>>
<1> USE ScopeFacts DEF TypeInv, ReadTypes
<1>1. /\ UNCHANGED <<disk, pending, timer, chain, latest, calls, quit, spoilt>>
      /\ blocked' \subseteq Scopes
  BY DEF StillStep, StartRecovery, Restored, Unusable, Restoring, Decline, SweepArchive, Read, Mount,
     ViewLoaded, Answered, carrier, ghosts, WriterTypes
<1>2. WriterTypes' /\ calls <= calls' /\ \A x \in Scopes : Rests(x)
  BY <1>1 DEF WriterTypes, Rests
<1>3. \A x \in Scopes : reads'[x] \in {reads[x], NoRead, Load(x)} \/ Read(x)
  <2>1. CASE StartRecovery \/ Restored \/ Unusable \/ Decline \/ SweepArchive
    BY <2>1 DEF StartRecovery, Restored, Unusable, Decline, SweepArchive
  <2>2. ASSUME NEW t \in Tabs, Mount(t) \/ ViewLoaded(t)
        PROVE  \A x \in Scopes : reads'[x] \in {reads[x], NoRead, Load(x)}
    BY <2>2 DEF Mount, ViewLoaded
  <2>3. ASSUME NEW s \in Scopes, Read(s)
        PROVE  \A x \in Scopes : x # s => reads'[x] = reads[x]
    BY <2>3 DEF Read
  <2> QED BY <2>1, <2>2, <2>3 DEF StillStep
<1> QED BY <1>1, <1>2, <1>3 DEF Scopewise, Writes, Reading

LEMMA StepKinds ==
  ASSUME TypeInv, [Next]_vars
  PROVE  \/ Scopewise /\ (UNCHANGED quit \/ CloseWindow)
         \/ \E s \in Scopes : Lands(s) \/ Fails(s)
         \/ EndStep \/ StartApp
<1>1. CASE UNCHANGED vars
  <2>1. Scopewise /\ UNCHANGED quit
    BY <1>1 DEF vars, carrier, ghosts, Scopewise, Writes, Rests, Reading, TypeInv, WriterTypes
  <2> QED BY <2>1
<1> QED
  BY <1>1, Steps, SaveScopewise, FlushScopewise, DeleteScopewise, StillScopewise

-----------------------------------------------------------------------------
(* The types are kept. *)

LEMMA ReadFacts ==
  /\ NoRead \in Reads /\ NoRead.phase = "none"
  /\ WriterTypes => \A s \in Scopes :
       /\ Load(s) \in Reads /\ Load(s).want = latest[s].at
       /\ Load(s).phase = IF pending[s] = Nothing THEN "waiting" ELSE "read"
       /\ pending[s] = Nothing => Load(s).ahead = Len(chain[s])
       /\ pending[s] # Nothing => Load(s).raw = pending[s]
<1>1. NoRead \in Reads /\ NoRead.phase = "none"
  BY EntryFacts DEF NoRead, Reads
<1>2. ASSUME WriterTypes, NEW s \in Scopes
      PROVE  /\ Load(s) \in Reads /\ Load(s).want = latest[s].at
             /\ Load(s).phase = IF pending[s] = Nothing THEN "waiting" ELSE "read"
             /\ pending[s] = Nothing => Load(s).ahead = Len(chain[s])
             /\ pending[s] # Nothing => Load(s).raw = pending[s]
  <2>1. /\ latest[s].at \in Nat /\ Len(chain[s]) \in Nat /\ Gone(0) \in Entry
        /\ pending[s] # Nothing => pending[s] \in Entry
    BY <1>2, EntryFacts, LenProperties DEF WriterTypes, Entry
  <2> QED BY <2>1 DEF Load, Reads
<1> QED BY <1>1, <1>2

LEMMA LessFacts ==
  \A n \in Nat : Less(n) \in Nat /\ (n = 0 => Less(n) = 0) /\ (n > 0 => Less(n) = n - 1)
BY DEF Less

LEMMA LessBelow == \A n, k \in Nat : k > 0 /\ n <= k => Less(n) <= k - 1
BY DEF Less

LEMMA ReadTypesStep == TypeInv /\ [Next]_vars => ReadTypes'
<1> SUFFICES ASSUME TypeInv, [Next]_vars PROVE ReadTypes'
  OBVIOUS
<1> USE ReadFacts DEF TypeInv, ReadTypes
<1>0. \A s \in Scopes : reads[s] \in Reads /\ reads[s].ahead \in Nat /\ disk[s] \in Entry
  BY DEF Reads, WriterTypes
<1>1. ASSUME NEW t \in Tabs, SaveStep(t) PROVE ReadTypes'
  BY <1>1, ScopeFacts
     DEF SaveStep, OpenTab, CloseTab, ReopenTab, Touch, FirstLaunch, Replaced
<1>2. CASE FlushStep \/ DeleteStep
  BY <1>2, FlushScopewise, DeleteScopewise
<1>3. CASE StillStep
  <2>1. CASE StartRecovery \/ Restored \/ Unusable \/ Decline \/ SweepArchive
    BY <2>1, ScopeFacts DEF StartRecovery, Restored, Unusable, Decline, SweepArchive
  <2>2. ASSUME NEW t \in Tabs, Mount(t) \/ ViewLoaded(t) PROVE ReadTypes'
    BY <2>2, ScopeFacts DEF Mount, ViewLoaded
  <2>3. ASSUME NEW s \in Scopes, Read(s) PROVE ReadTypes'
    <3>1. PICK raw \in {disk[s], [disk[s] EXCEPT !.is = "unreadable"]} :
            reads' = [reads EXCEPT ![s].phase = "read", ![s].raw = raw]
      BY <2>3 DEF Read
    <3>2. raw \in Entry
      BY <1>0, EntryFacts
    <3>3. reads'[s] \in Reads /\ \A x \in Scopes \ {s} : reads'[x] = reads[x]
      BY <1>0, <3>1, <3>2 DEF Reads
    <3> QED BY <3>1, <3>3
  <2> QED BY <1>3, <2>1, <2>2, <2>3 DEF StillStep
<1>4. ASSUME NEW s \in Scopes, Lands(s) \/ Fails(s) PROVE ReadTypes'
  <2>1. Less(reads[s].ahead) \in Nat
    BY <1>0, LessFacts
  <2>2. CASE Lands(s)
    BY <1>0, <2>1, <2>2 DEF Lands, Reads
  <2>3. CASE Fails(s)
    BY <1>0, <2>1, <2>3 DEF Fails, Reads
  <2> QED BY <1>4, <2>2, <2>3
<1>5. CASE EndStep
  BY <1>5 DEF EndStep, FlushDone, Dies, Exit
<1>6. CASE StartApp \/ UNCHANGED vars
  BY <1>6 DEF StartApp, vars
<1> QED BY <1>1, <1>2, <1>3, <1>4, <1>5, <1>6, Steps

LEMMA SweepTypesStep == TypeInv /\ [Next]_vars => SweepTypes'
<1> SUFFICES ASSUME TypeInv, [Next]_vars PROVE SweepTypes'
  OBVIOUS
<1> USE DEF TypeInv, StoreTypes, SweepTypes, ReadTypes, NoSweep, BeginSweep
<1>1. ASSUME NEW t \in Tabs, SaveStep(t) PROVE SweepTypes'
  <2>1. CASE FirstLaunch(t) \/ Replaced(t)
    <3>1. tabs' \subseteq Tabs /\ BeginSweep(tabs')
      BY <2>1 DEF FirstLaunch, Replaced, Initialize
    <3> QED BY <3>1
  <2>2. CASE OpenTab(t) \/ CloseTab(t) \/ ReopenTab(t) \/ Touch(t)
    BY <2>2 DEF OpenTab, CloseTab, ReopenTab, Touch
  <2> QED BY <1>1, <2>1, <2>2 DEF SaveStep
<1>2. CASE FlushStep \/ DeleteStep
  <2>1. UNCHANGED sweep \/ sweep' = NoSweep
    BY <1>2 DEF FlushStep, FlushAll, CloseWindow, TimerFires, DeleteStep, Replace, SweepDeletes
  <2> QED BY <2>1
<1>3. CASE StillStep
  <2>1. \A s \in Scopes : reads[s].raw.tabs \subseteq Tabs
    BY DEF Reads, Entry
  <2>2. CASE Restored
    <3>1. tabs' \subseteq Tabs /\ BeginSweep(tabs')
      BY <2>1, <2>2, ScopeFacts DEF Restored
    <3> QED BY <3>1
  <2>3. CASE SweepArchive
    BY <2>1, <2>3, ScopeFacts DEF SweepArchive
  <2>4. UNCHANGED sweep => SweepTypes'
    OBVIOUS
  <2> QED BY <1>3, <2>2, <2>3, <2>4
    DEF StillStep, StartRecovery, Unusable, Decline, Read, Mount, ViewLoaded
<1>4. ASSUME NEW s \in Scopes, Lands(s) \/ Fails(s) PROVE SweepTypes'
  BY <1>4 DEF Lands, Fails
<1>5. CASE EndStep
  BY <1>5 DEF EndStep, FlushDone, Dies, Exit
<1>6. CASE StartApp \/ UNCHANGED vars
  BY <1>6 DEF StartApp, vars
<1> QED BY <1>1, <1>2, <1>3, <1>4, <1>5, <1>6, Steps

LEMMA QuitTypesStep == TypeInv /\ [Next]_vars => QuitTypes'
<1> SUFFICES ASSUME TypeInv, [Next]_vars PROVE QuitTypes'
  OBVIOUS
<1> USE DEF TypeInv, QuitTypes, Quits
<1>0. NoQuit \in Quits /\ \A s \in Scopes : quit.ahead[s] \in Nat /\ latest[s].at \in Nat
  BY DEF NoQuit, WriterTypes, Entry
<1>1. CASE Scopewise /\ UNCHANGED quit
  BY <1>1
<1>2. CASE Scopewise /\ CloseWindow
  <2>1. \A s \in Scopes : Len(chain'[s]) \in Nat
    BY <1>2, LenProperties DEF Scopewise, WriterTypes
  <2> QED BY <1>0, <1>2, <2>1 DEF CloseWindow
<1>3. ASSUME NEW s \in Scopes, Lands(s) \/ Fails(s) PROVE QuitTypes'
  <2>1. Less(quit.ahead[s]) \in Nat
    BY <1>0, LessFacts
  <2>2. CASE Lands(s)
    BY <2>1, <2>2 DEF Lands
  <2>3. CASE Fails(s)
    BY <2>1, <2>3 DEF Fails
  <2> QED BY <1>3, <2>2, <2>3
<1>4. CASE EndStep
  BY <1>0, <1>4 DEF EndStep, FlushDone, Dies, Exit
<1>5. CASE StartApp
  BY <1>0, <1>5 DEF StartApp
<1> QED BY <1>1, <1>2, <1>3, <1>4, <1>5, StepKinds

LEMMA StoreTypesStep == TypeInv /\ [Next]_vars => StoreTypes'
<1> SUFFICES ASSUME TypeInv, [Next]_vars PROVE StoreTypes'
  OBVIOUS
<1> USE DEF TypeInv, StoreTypes, ReadTypes
<1>0. \A s \in Scopes : reads[s].raw.tabs \subseteq Tabs
  BY DEF Reads, Entry
<1>1. ASSUME NEW t \in Tabs, SaveStep(t) PROVE StoreTypes'
  BY <1>1 DEF SaveStep, OpenTab, CloseTab, ReopenTab, Touch, FirstLaunch, Replaced, Initialize, store
<1>2. CASE FlushStep \/ DeleteStep
  BY <1>2 DEF FlushStep, FlushAll, CloseWindow, TimerFires, DeleteStep, Replace, SweepDeletes,
     store, ghosts
<1>3. CASE StillStep
  <2>1. CASE Restored
    BY <1>0, <2>1, ScopeFacts DEF Restored, Restoring, ghosts
  <2>2. CASE StartRecovery \/ Unusable \/ Decline \/ SweepArchive
    BY <2>2 DEF StartRecovery, Unusable, Restoring, Decline, SweepArchive, store, ghosts
  <2>3. ASSUME NEW t \in Tabs, Mount(t) \/ ViewLoaded(t) PROVE StoreTypes'
    BY <2>3 DEF Mount, ViewLoaded, Alive, store, ghosts
  <2>4. ASSUME NEW s \in Scopes, Read(s) PROVE StoreTypes'
    BY <2>4 DEF Read, store, ghosts
  <2> QED BY <1>3, <2>1, <2>2, <2>3, <2>4 DEF StillStep
<1>4. ASSUME NEW s \in Scopes, Lands(s) \/ Fails(s) PROVE StoreTypes'
  BY <1>4 DEF Lands, Fails, store, ghosts
<1>5. ASSUME NEW c \in BOOLEAN, Exit(c) PROVE StoreTypes'
  BY <1>5 DEF Exit
<1>6. CASE StartApp
  <2>1. /\ boot' = "starting" /\ boots' = boots + 1 /\ clean' = FALSE
        /\ UNCHANGED <<result, tabs, closed, loaded, used, raced>>
    BY <1>6 DEF StartApp
  <2>2. boots' \in Nat
    BY <2>1
  <2>3. clean' \in BOOLEAN
    BY <2>1
  <2> QED BY <2>1, <2>2, <2>3
<1>7. CASE UNCHANGED vars
  BY <1>7 DEF vars, store, ghosts
<1> QED
  BY <1>1, <1>2, <1>3, <1>4, <1>5, <1>6, <1>7, Steps DEF EndStep, FlushDone, Dies

LEMMA WriterTypesStep == TypeInv /\ [Next]_vars => WriterTypes'
<1> SUFFICES ASSUME TypeInv, [Next]_vars PROVE WriterTypes'
  OBVIOUS
<1>1. CASE EndStep
  <2>1. /\ pending' = [s \in Scopes |-> Nothing] /\ timer' = {}
        /\ chain' = [s \in Scopes |-> <<>>] /\ blocked' = {}
        /\ UNCHANGED <<disk, calls, latest, spoilt>>
    BY <1>1 DEF EndStep, FlushDone, Dies, Exit
  <2>2. <<>> \in Seq(Entry)
    BY EmptySeq
  <2> QED BY <2>1, <2>2 DEF TypeInv, WriterTypes
<1>2. CASE StartApp
  BY <1>2 DEF StartApp, carrier, TypeInv, WriterTypes
<1> QED BY <1>1, <1>2, StepKinds, AnswerWrites DEF Scopewise, TypeInv

LEMMA TypeStep == TypeInv /\ [Next]_vars => TypeInv'
BY WriterTypesStep, StoreTypesStep, ReadTypesStep, SweepTypesStep, QuitTypesStep DEF TypeInv

LEMMA TypeInit == Init => TypeInv
<1> SUFFICES ASSUME Init PROVE TypeInv
  OBVIOUS
<1>1. disk \in [Scopes -> Entry]
  <2>1. PICK x \in FoundSession, y \in FoundArchive :
          disk = [s \in Scopes |->
                    IF s = Session THEN x ELSE IF s = Archive THEN y
                    ELSE IF s \in Open0 \union Shelved0 THEN Value(0, {}) ELSE Gone(0)]
    BY DEF Init
  <2>2. x \in Entry /\ y \in Entry /\ Value(0, {}) \in Entry /\ Gone(0) \in Entry
    BY DurableAssumption DEF FoundSession, FoundArchive, Value, Gone, Entry
  <2> QED BY <2>1, <2>2
<1>2. WriterTypes
  BY <1>1, EmptySeq DEF Init, WriterTypes
<1>3. StoreTypes /\ SweepTypes
  BY DurableAssumption DEF Init, StoreTypes, SweepTypes, NoSweep
<1>4. ReadTypes /\ QuitTypes
  BY ReadFacts DEF Init, ReadTypes, QuitTypes, Quits, NoQuit
<1> QED BY <1>2, <1>3, <1>4 DEF TypeInv

-----------------------------------------------------------------------------
(* The calls of one scope, in the order they were asked for. *)

\* What was asked for last, wherever it is: buffered, in flight or on disk.
Newest(s) ==
  IF pending[s] # Nothing THEN pending[s]
  ELSE IF chain[s] # <<>> THEN chain[s][Len(chain[s])] ELSE disk[s]

\* A save or a delete, with the number of its call.
Sound(s) ==
  /\ disk[s].at <= calls /\ latest[s].at <= calls
  /\ pending[s] # Nothing => pending[s].is = "value" /\ pending[s].at <= calls
  /\ \A i \in 1 .. Len(chain[s]) :
       chain[s][i].is \in {"value", "missing"} /\ chain[s][i].at <= calls

Ordered(s) ==
  /\ pending[s] # Nothing => disk[s].at <= pending[s].at
  /\ \A i \in 1 .. Len(chain[s]) :
       /\ disk[s].at <= chain[s][i].at
       /\ pending[s] # Nothing => chain[s][i].at <= pending[s].at
       /\ \A j \in i .. Len(chain[s]) : chain[s][i].at <= chain[s][j].at

InLine(s) == Newest(s) = latest[s] /\ Ordered(s)

LEMMA AtNat ==
  ASSUME WriterTypes, NEW s \in Scopes
  PROVE  /\ calls \in Nat /\ Len(chain[s]) \in Nat /\ chain[s] \in Seq(Entry)
         /\ disk[s] \in Entry /\ latest[s] \in Entry
         /\ disk[s].at \in Nat /\ latest[s].at \in Nat
         /\ pending[s] # Nothing => pending[s] \in Entry /\ pending[s].at \in Nat
         /\ \A i \in 1 .. Len(chain[s]) : chain[s][i] \in Entry /\ chain[s][i].at \in Nat
         /\ chain[s] = <<>> <=> Len(chain[s]) = 0
<1>1. chain[s] \in Seq(Entry) /\ disk[s] \in Entry /\ latest[s] \in Entry /\ calls \in Nat
      /\ (pending[s] # Nothing => pending[s] \in Entry)
  BY DEF WriterTypes
<1>2. Len(chain[s]) \in Nat /\ \A i \in 1 .. Len(chain[s]) : chain[s][i] \in Entry
  BY <1>1, LenProperties, ElementOfSeq
<1>3. chain[s] = <<>> <=> Len(chain[s]) = 0
  BY <1>1, EmptySeq
<1>4. \A e \in Entry : e.at \in Nat
  BY DEF Entry
<1> QED BY <1>1, <1>2, <1>3, <1>4

LEMMA WriteInLine ==
  ASSUME WriterTypes, WriterTypes', NEW s \in Scopes, Writes(s), calls <= calls', Sound(s)
  PROVE  Sound(s)' /\ (InLine(s) => InLine(s)')
<1> USE AtNat
<1>0. calls' \in Nat /\ calls \in Nat
  BY DEF WriterTypes
<1>1. CASE Rests(s)
  BY <1>0, <1>1 DEF Rests, Sound, InLine, Ordered, Newest
<1>2. CASE Saves(s)
  <2>1. pending'[s] # Nothing /\ pending'[s].at = calls + 1 /\ pending'[s].is = "value"
        /\ latest'[s] = pending'[s] /\ disk'[s] = disk[s] /\ chain'[s] = chain[s]
        /\ calls' = calls + 1
    BY <1>2, NothingAssumption DEF Saves
  <2>2. Sound(s)'
    BY <1>0, <2>1 DEF Sound
  <2>3. Ordered(s) => Ordered(s)'
    BY <1>0, <2>1 DEF Sound, Ordered
  <2> QED BY <2>1, <2>2, <2>3 DEF InLine, Newest
<1>3. ASSUME NEW e \in Entry, e.is \in {"value", "missing"}, e.at <= calls',
             chain'[s] = Append(chain[s], e), pending'[s] = Nothing, disk'[s] = disk[s],
             latest'[s].at <= calls'
      PROVE  /\ Sound(s)'
             /\ e = latest'[s] /\ Ordered(s) /\ disk[s].at <= e.at
                /\ (\A i \in 1 .. Len(chain[s]) : chain[s][i].at <= e.at) => InLine(s)'
  <2>1. Len(chain'[s]) = Len(chain[s]) + 1 /\ chain'[s] # <<>>
        /\ chain'[s][Len(chain[s]) + 1] = e
        /\ \A i \in 1 .. Len(chain[s]) : chain'[s][i] = chain[s][i]
    BY <1>3, Grown
  <2>2. \A i \in 1 .. Len(chain'[s]) : i \in 1 .. Len(chain[s]) \/ i = Len(chain[s]) + 1
    BY <2>1
  <2>3. Sound(s)'
    BY <1>0, <1>3, <2>1, <2>2 DEF Sound
  <2>4. ASSUME Ordered(s), disk[s].at <= e.at, \A i \in 1 .. Len(chain[s]) : chain[s][i].at <= e.at
        PROVE  Ordered(s)'
    <3>1. ASSUME NEW i \in 1 .. Len(chain'[s])
          PROVE  /\ disk'[s].at <= chain'[s][i].at
                 /\ \A j \in i .. Len(chain'[s]) : chain'[s][i].at <= chain'[s][j].at
      <4>1. CASE i \in 1 .. Len(chain[s])
        <5>1. disk'[s].at <= chain'[s][i].at
          BY <1>3, <2>1, <2>4, <4>1 DEF Ordered
        <5>2. ASSUME NEW j \in i .. Len(chain'[s]) PROVE chain'[s][i].at <= chain'[s][j].at
          <6>1. CASE j \in i .. Len(chain[s])
            <7>1. j \in 1 .. Len(chain[s])
              BY <4>1, <6>1
            <7>2. chain'[s][i] = chain[s][i] /\ chain'[s][j] = chain[s][j]
              BY <2>1, <4>1, <7>1
            <7>3. chain[s][i].at <= chain[s][j].at
              BY <2>4, <4>1, <6>1 DEF Ordered
            <7> QED BY <7>2, <7>3
          <6>2. CASE j = Len(chain[s]) + 1
            BY <2>1, <2>4, <4>1, <6>2
          <6> QED BY <2>1, <5>2, <6>1, <6>2
        <5> QED BY <5>1, <5>2
      <4>2. CASE i = Len(chain[s]) + 1
        <5>1. \A j \in i .. Len(chain'[s]) : j = i
          BY <2>1, <4>2
        <5>2. e.at <= e.at
          BY <1>3 DEF Entry
        <5> QED BY <1>3, <2>1, <2>4, <4>2, <5>1, <5>2
      <4> QED BY <2>2, <4>1, <4>2
    <3> QED BY <1>3, <3>1 DEF Ordered
  <2> QED BY <1>3, <2>1, <2>3, <2>4 DEF InLine, Newest
<1>4. CASE Deletes(s)
  <2> DEFINE e == Gone(calls + 1)
  <2>1. e \in Entry /\ e.is = "missing" /\ e.at = calls + 1
    BY <1>0, EntryFacts
  <2>2. e.at <= calls' /\ chain'[s] = Append(chain[s], e) /\ pending'[s] = Nothing
        /\ disk'[s] = disk[s] /\ latest'[s] = e
    BY <1>0, <1>4, <2>1 DEF Deletes
  <2>3. disk[s].at <= e.at /\ \A i \in 1 .. Len(chain[s]) : chain[s][i].at <= e.at
    BY <1>0, <2>1 DEF Sound
  <2> HIDE DEF e
  <2> QED BY <1>3, <2>1, <2>2, <2>3 DEF InLine
<1>5. CASE Moves(s) /\ pending[s] # Nothing
  <2> DEFINE e == pending[s]
  <2>1. e \in Entry /\ e.is = "value" /\ e.at <= calls'
    BY <1>0, <1>5 DEF Sound
  <2>2. chain'[s] = Append(chain[s], e) /\ pending'[s] = Nothing
        /\ disk'[s] = disk[s] /\ latest'[s] = latest[s] /\ latest'[s].at <= calls'
    BY <1>0, <1>5 DEF Moves, Sound
  <2>3. InLine(s) => /\ e = latest[s] /\ disk[s].at <= e.at
                     /\ \A i \in 1 .. Len(chain[s]) : chain[s][i].at <= e.at
    BY <1>5 DEF InLine, Newest, Ordered
  <2> HIDE DEF e
  <2> QED BY <1>3, <2>1, <2>2, <2>3 DEF InLine
<1>6. CASE Moves(s) /\ pending[s] = Nothing
  BY <1>0, <1>6 DEF Moves, Sound, InLine, Ordered, Newest
<1> QED BY <1>1, <1>2, <1>4, <1>5, <1>6 DEF Writes

\* The head of the chain is answered.
LEMMA LandInLine ==
  ASSUME WriterTypes, NEW s \in Scopes, Lands(s), Sound(s)
  PROVE  Sound(s)' /\ (InLine(s) => InLine(s)')
<1> DEFINE q == chain[s]
<1>1. q \in Seq(Entry) /\ q # <<>> /\ Len(q) \in Nat \ {0}
  BY Shrunk DEF WriterTypes, Lands
<1>2. /\ disk'[s] = q[1] /\ pending'[s] = pending[s] /\ latest' = latest /\ calls' = calls
      /\ chain'[s] = Tail(q)
  BY <1>1, Shrunk DEF Lands, WriterTypes, ghosts
<1>3. /\ Len(chain'[s]) = Len(q) - 1 /\ (chain'[s] = <<>> <=> Len(q) = 1)
      /\ \A i \in 1 .. Len(chain'[s]) : chain'[s][i] = q[i + 1]
      /\ \A i \in 1 .. Len(chain'[s]) : i + 1 \in 1 .. Len(q)
  BY <1>1, <1>2, Shrunk
<1>4. Sound(s)'
  BY <1>1, <1>2, <1>3 DEF Sound
<1>5. ASSUME InLine(s) PROVE Newest(s)' = latest'[s]
  <2>1. CASE Len(q) = 1
    BY <1>1, <1>2, <1>3, <1>5, <2>1 DEF InLine, Newest
  <2>2. CASE Len(q) # 1
    <3>1. chain'[s] # <<>> /\ chain'[s][Len(chain'[s])] = q[Len(q)]
      BY <1>1, <1>3, <2>2
    <3> QED BY <1>1, <1>2, <1>5, <3>1 DEF InLine, Newest
  <2> QED BY <2>1, <2>2
<1>6. ASSUME InLine(s) PROVE Ordered(s)'
  <2>1. \A i \in 1 .. Len(q) : \A j \in i .. Len(q) : q[i].at <= q[j].at
    BY <1>6 DEF InLine, Ordered
  <2>2. pending'[s] # Nothing => \A i \in 1 .. Len(q) : q[i].at <= pending'[s].at
    BY <1>2, <1>6 DEF InLine, Ordered
  <2>3. ASSUME NEW i \in 1 .. Len(chain'[s])
        PROVE  /\ disk'[s].at <= chain'[s][i].at
               /\ pending'[s] # Nothing => chain'[s][i].at <= pending'[s].at
               /\ \A j \in i .. Len(chain'[s]) : chain'[s][i].at <= chain'[s][j].at
    <3>1. i + 1 \in 1 .. Len(q) /\ 1 \in 1 .. Len(q) /\ chain'[s][i] = q[i + 1]
      BY <1>1, <1>3
    <3>2. i + 1 \in 1 .. Len(q)
      BY <3>1
    <3>3. disk'[s].at <= chain'[s][i].at
      BY <1>2, <2>1, <3>1
    <3>4. ASSUME NEW j \in i .. Len(chain'[s]) PROVE chain'[s][i].at <= chain'[s][j].at
      <4>1. j \in 1 .. Len(chain'[s]) /\ j + 1 \in (i + 1) .. Len(q)
        BY <1>1, <1>3
      <4> QED BY <1>3, <2>1, <3>1, <4>1
    <3> QED BY <2>2, <3>1, <3>3, <3>4
  <2>4. pending'[s] # Nothing => disk'[s].at <= pending'[s].at
    BY <1>1, <1>2, <2>2
  <2> QED BY <2>3, <2>4 DEF Ordered
<1> QED BY <1>4, <1>5, <1>6 DEF InLine

\* The head of the chain is refused.
LEMMA FailInLine ==
  ASSUME WriterTypes, NEW s \in Scopes, Fails(s), Sound(s)
  PROVE  Sound(s)' /\ (InLine(s) /\ s \notin spoilt' => InLine(s)')
<1> DEFINE q == chain[s]
<1>1. q \in Seq(Entry) /\ q # <<>> /\ Len(q) \in Nat \ {0} /\ Head(q) = q[1]
  BY Shrunk DEF WriterTypes, Fails
<1>2. /\ disk'[s] = disk[s] /\ latest' = latest /\ calls' = calls /\ chain'[s] = Tail(q)
      /\ pending'[s] = IF q[1].is = "value" /\ pending[s] = Nothing THEN q[1] ELSE pending[s]
      /\ s \notin spoilt' => q[1].is # "missing" /\ (Len(q) > 1 => pending[s] # Nothing)
  BY <1>1 DEF Fails, Retry, Overtakes, WriterTypes
<1>3. /\ Len(chain'[s]) = Len(q) - 1 /\ (chain'[s] = <<>> <=> Len(q) = 1)
      /\ \A i \in 1 .. Len(chain'[s]) : chain'[s][i] = q[i + 1]
      /\ \A i \in 1 .. Len(chain'[s]) : i + 1 \in 1 .. Len(q)
  BY <1>1, <1>2, Shrunk
<1>4. Sound(s)'
  BY <1>1, <1>2, <1>3 DEF Sound
<1>5. CASE InLine(s) /\ pending[s] # Nothing
  <2>1. \A i \in 1 .. Len(q) : \A j \in i .. Len(q) : q[i].at <= q[j].at
    BY <1>5 DEF InLine, Ordered
  <2>2. \A i \in 1 .. Len(q) : q[i].at <= pending[s].at /\ disk[s].at <= q[i].at
    BY <1>5 DEF InLine, Ordered
  <2>3. \A i \in 1 .. Len(chain'[s]) : \A j \in i .. Len(chain'[s]) :
          chain'[s][i].at <= chain'[s][j].at
    <3> SUFFICES ASSUME NEW i \in 1 .. Len(chain'[s]), NEW j \in i .. Len(chain'[s])
                 PROVE  chain'[s][i].at <= chain'[s][j].at
      OBVIOUS
    <3>1. j \in 1 .. Len(chain'[s]) /\ j + 1 \in (i + 1) .. Len(q) /\ i + 1 \in 1 .. Len(q)
      BY <1>1, <1>3
    <3> QED BY <1>3, <2>1, <3>1
  <2>4. Ordered(s)'
    BY <1>2, <1>3, <1>5, <2>2, <2>3 DEF InLine, Ordered
  <2> QED BY <1>2, <1>4, <1>5, <2>4 DEF InLine, Newest
<1>6. CASE InLine(s) /\ s \notin spoilt' /\ pending[s] = Nothing
  <2>1. Len(q) = 1 /\ q[1].is = "value" /\ pending'[s] = q[1] /\ chain'[s] = <<>>
    BY <1>1, <1>2, <1>3, <1>6 DEF Sound
  <2>2. q[1] # Nothing /\ latest[s] = q[1] /\ disk[s].at <= q[1].at
    BY <1>1, <1>6, <2>1, NothingAssumption, AtNat DEF InLine, Newest, Ordered
  <2>3. Len(chain'[s]) = 0
    BY <1>3, <2>1
  <2> QED BY <1>2, <1>4, <2>1, <2>2, <2>3 DEF InLine, Newest, Ordered
<1> QED BY <1>4, <1>5, <1>6

-----------------------------------------------------------------------------
(* Nothing is left in memory when the application is off. *)

Empty ==
  boot = "off" =>
    /\ tabs = {} /\ closed = {} /\ sweep = NoSweep /\ quit.phase = "no" /\ timer = {}
    /\ \A s \in Scopes :
         pending[s] = Nothing /\ chain[s] = <<>> /\ reads[s] = NoRead

LEMMA OffSteps ==
  ASSUME TypeInv, Empty, boot = "off", [Next]_vars
  PROVE  StartApp \/ UNCHANGED vars
<1>1. \A s \in Scopes : reads[s].phase = "none"
  BY ReadFacts DEF Empty
<1>2. \A t \in Tabs : ~SaveStep(t)
  BY <1>1 DEF SaveStep, OpenTab, CloseTab, ReopenTab, Touch, FirstLaunch, Replaced, MayAct,
     Restoring
<1>3. ~FlushStep /\ ~DeleteStep /\ ~EndStep
  <2>1. timer = {} /\ sweep.phase = "idle" /\ quit.phase = "no"
    BY DEF Empty, NoSweep
  <2>2. ~FlushStep
    BY <2>1 DEF FlushStep, FlushAll, CloseWindow, TimerFires
  <2>3. ~DeleteStep
    BY <2>1 DEF DeleteStep, Replace, SweepDeletes
  <2>4. ~EndStep
    BY <2>1 DEF EndStep, FlushDone, Flushed, Dies
  <2> QED BY <2>2, <2>3, <2>4
<1>4. ~StillStep
  BY <1>1, ScopeFacts DEF Empty, StillStep, StartRecovery, Restored, Unusable, Restoring, Decline, SweepArchive,
     Answered, NoSweep, Read, Mount, ViewLoaded
<1>5. \A s \in Scopes : ~Lands(s) /\ ~Fails(s)
  BY DEF Empty, Lands, Fails
<1> QED BY <1>2, <1>3, <1>4, <1>5, Steps

LEMMA BootStays ==
  ASSUME TypeInv, boot # "off", [Next]_vars, ~EndStep PROVE boot' # "off"
<1>1. ASSUME NEW t \in Tabs, SaveStep(t) PROVE boot' # "off"
  BY <1>1 DEF SaveStep, OpenTab, CloseTab, ReopenTab, Touch, FirstLaunch, Replaced, Initialize, store
<1>2. CASE FlushStep \/ DeleteStep
  BY <1>2 DEF FlushStep, FlushAll, CloseWindow, TimerFires, DeleteStep, Replace, SweepDeletes, store
<1>3. CASE StillStep
  BY <1>3 DEF StillStep, StartRecovery, Restored, Unusable, Decline, SweepArchive, Read, Mount,
     ViewLoaded, store
<1>4. ASSUME NEW s \in Scopes, Lands(s) \/ Fails(s) PROVE boot' # "off"
  BY <1>4 DEF Lands, Fails, store
<1>5. CASE StartApp \/ UNCHANGED vars
  BY <1>5 DEF StartApp, vars, store
<1> QED BY <1>1, <1>2, <1>3, <1>4, <1>5, Steps

LEMMA EmptyStep == TypeInv /\ Empty /\ [Next]_vars => Empty'
<1> SUFFICES ASSUME TypeInv, Empty, [Next]_vars, boot' = "off" PROVE Empty'
  BY DEF Empty
<1>1. CASE EndStep
  BY <1>1 DEF EndStep, FlushDone, Dies, Exit, Empty, NoQuit
<1>2. CASE UNCHANGED vars
  BY <1>2 DEF vars, carrier, store, Empty
<1>3. ~StartApp
  BY DEF StartApp
<1> QED BY <1>1, <1>2, <1>3, OffSteps, BootStays

-----------------------------------------------------------------------------
(* The writer as a whole. *)

Lines ==
  \A s \in Scopes : Sound(s) /\ (boot # "off" /\ s \notin spoilt => InLine(s))

LEMMA LinesStep == TypeInv /\ Empty /\ Lines /\ [Next]_vars => Lines'
<1> SUFFICES ASSUME TypeInv, Empty, Lines, [Next]_vars PROVE Lines'
  OBVIOUS
<1> USE DEF TypeInv
<1>0. WriterTypes'
  BY WriterTypesStep
<1>1. CASE Scopewise /\ ~EndStep /\ ~StartApp
  <2>1. boot' # "off" => boot # "off"
    BY <1>1, OffSteps DEF vars, store
  <2> QED BY <1>0, <1>1, <2>1, WriteInLine DEF Scopewise, Lines
<1>2. ASSUME NEW a \in Scopes, Lands(a) \/ Fails(a) PROVE Lines'
  <2>1. \A s \in Scopes \ {a} : Sound(s)' /\ (InLine(s) => InLine(s)')
    <3>1. \A s \in Scopes \ {a} : Rests(s)
      BY <1>2, AnswerWrites
    <3>2. calls <= calls'
      BY <1>2, AnswerWrites DEF WriterTypes
    <3> QED BY <1>0, <3>1, <3>2, WriteInLine DEF Writes, Lines
  <2>2. boot # "off" /\ spoilt \subseteq spoilt'
    BY <1>2 DEF Lands, Fails, Empty, ghosts
  <2>3. Sound(a)' /\ (InLine(a) /\ a \notin spoilt' => InLine(a)')
    BY <1>2, LandInLine, FailInLine DEF Lines
  <2> QED BY <2>1, <2>2, <2>3 DEF Lines
<1>3. CASE EndStep
  <2>1. /\ boot' = "off" /\ pending' = [s \in Scopes |-> Nothing]
        /\ chain' = [s \in Scopes |-> <<>>] /\ UNCHANGED <<disk, calls, latest>>
    BY <1>3 DEF EndStep, FlushDone, Dies, Exit
  <2>2. \A s \in Scopes : Len(chain'[s]) = 0
    BY <1>0, <2>1, EmptySeq DEF WriterTypes
  <2> QED BY <2>1, <2>2 DEF Lines, Sound
<1>4. CASE StartApp
  <2>1. boot = "off" /\ latest' = disk /\ UNCHANGED <<disk, pending, chain, calls>>
    BY <1>4 DEF StartApp, carrier
  <2>2. \A s \in Scopes : pending'[s] = Nothing /\ chain'[s] = <<>> /\ Len(chain'[s]) = 0
    BY <1>0, <2>1, EmptySeq DEF WriterTypes, Empty
  <2> QED BY <2>1, <2>2 DEF Lines, Sound, InLine, Newest, Ordered
<1> QED BY <1>1, <1>2, <1>3, <1>4, StepKinds

LEMMA LinesInit == Init => Lines
<1> SUFFICES ASSUME Init, NEW s \in Scopes PROVE Sound(s) /\ InLine(s)
  BY DEF Lines
<1>1. pending[s] = Nothing /\ chain[s] = <<>> /\ Len(chain[s]) = 0 /\ latest = disk
  BY EmptySeq DEF Init
<1>2. disk[s].at = 0 /\ calls = 0
  <2>1. PICK x \in FoundSession, y \in FoundArchive :
          disk = [z \in Scopes |->
                    IF z = Session THEN x ELSE IF z = Archive THEN y
                    ELSE IF z \in Open0 \union Shelved0 THEN Value(0, {}) ELSE Gone(0)]
    BY DEF Init
  <2>2. x.at = 0 /\ y.at = 0 /\ Value(0, {}).at = 0 /\ Gone(0).at = 0
    BY DEF FoundSession, FoundArchive, Value, Gone
  <2> QED BY <2>1, <2>2 DEF Init
<1> QED BY <1>1, <1>2 DEF Sound, InLine, Newest, Ordered

-----------------------------------------------------------------------------
(* Who waits for the first n calls of a scope is promised what n asked for. *)

\* With d on disk and the calls q in flight.
Promised(d, q, n, want) == n <= Len(q) /\ want <= IF n = 0 THEN d.at ELSE q[n].at

Waits(s) ==
  /\ reads[s].phase = "waiting" => Promised(disk[s], chain[s], reads[s].ahead, reads[s].want)
  /\ reads[s].phase = "read" => reads[s].want <= reads[s].raw.at
  /\ quit.phase = "flushing" => Promised(disk[s], chain[s], quit.ahead[s], quit.mark[s])
  /\ boot = "off" /\ clean => quit.mark[s] <= disk[s].at

Waiting == \A s \in Scopes \ spoilt : Waits(s)

LEMMA PromiseByWrite ==
  ASSUME WriterTypes, NEW s \in Scopes, Writes(s), NEW n \in Nat, NEW want \in Nat,
         Promised(disk[s], chain[s], n, want)
  PROVE  Promised(disk'[s], chain'[s], n, want)
<1> USE AtNat
<1>1. ASSUME NEW e \in Entry, chain'[s] = Append(chain[s], e), disk'[s] = disk[s]
      PROVE  Promised(disk'[s], chain'[s], n, want)
  <2>1. Len(chain'[s]) = Len(chain[s]) + 1
        /\ \A i \in 1 .. Len(chain[s]) : chain'[s][i] = chain[s][i]
    BY <1>1, Grown
  <2>2. n = 0 \/ n \in 1 .. Len(chain[s])
    BY DEF Promised
  <2> QED BY <1>1, <2>1, <2>2 DEF Promised
<1>2. CASE chain'[s] = chain[s] /\ disk'[s] = disk[s]
  BY <1>2 DEF Promised
<1>3. Gone(calls + 1) \in Entry
  <2>1. calls + 1 \in Nat
    BY DEF WriterTypes
  <2> QED BY <2>1, EntryFacts
<1> QED BY <1>1, <1>2, <1>3 DEF Writes, Rests, Saves, Deletes, Moves

LEMMA PromiseByLand ==
  ASSUME WriterTypes, NEW s \in Scopes, Lands(s), Ordered(s), NEW n \in Nat, NEW want \in Nat,
         Promised(disk[s], chain[s], n, want)
  PROVE  Promised(disk'[s], chain'[s], Less(n), want)
<1> DEFINE q == chain[s]
<1>1. q \in Seq(Entry) /\ q # <<>> /\ Len(q) \in Nat \ {0}
  BY Shrunk DEF WriterTypes, Lands
<1>2. disk'[s] = q[1] /\ chain'[s] = Tail(q)
  BY <1>1, Shrunk DEF Lands, WriterTypes
<1>3. /\ Len(chain'[s]) = Len(q) - 1
      /\ \A i \in 1 .. Len(q) - 1 : chain'[s][i] = q[i + 1]
  BY <1>1, <1>2, Shrunk
<1>4. CASE n = 0
  <2>1. want <= disk[s].at /\ disk[s].at <= q[1].at
    BY <1>1, <1>4 DEF Promised, Ordered
  <2>2. want <= q[1].at
    BY <1>1, <2>1, AtNat
  <2> QED BY <1>1, <1>2, <1>3, <1>4, <2>2, LessFacts DEF Promised
<1>5. CASE n = 1
  BY <1>1, <1>2, <1>3, <1>5, LessFacts DEF Promised
<1>6. CASE n > 1
  <2>1. Less(n) = n - 1 /\ n - 1 \in 1 .. Len(q) - 1 /\ n - 1 # 0
    BY <1>1, <1>6, LessFacts DEF Promised
  <2>2. chain'[s][n - 1] = q[n]
    BY <1>3, <2>1
  <2>3. want <= q[n].at
    BY <1>6 DEF Promised
  <2> QED BY <1>1, <1>3, <2>1, <2>2, <2>3 DEF Promised
<1> QED BY <1>4, <1>5, <1>6

\* Everything that was asked for is promised to who waits for the whole chain.
LEMMA AllPromised ==
  ASSUME WriterTypes, NEW s \in Scopes, InLine(s), pending[s] = Nothing
  PROVE  Promised(disk[s], chain[s], Len(chain[s]), latest[s].at)
BY AtNat DEF InLine, Newest, Promised

LEMMA WaitsByWrite ==
  ASSUME TypeInv, WriterTypes', Scopewise, NEW s \in Scopes, Sound(s), InLine(s), Waits(s),
         boot # "off", boot' # "off", UNCHANGED quit \/ CloseWindow
  PROVE  Waits(s)'
<1> USE AtNat DEF TypeInv
<1>0. /\ Writes(s) /\ calls <= calls' /\ reads[s] \in Reads /\ latest[s].at \in Nat
      /\ \A s1 \in Scopes : quit.ahead[s1] \in Nat /\ quit.mark[s1] \in Nat
  BY DEF Scopewise, ReadTypes, QuitTypes, Quits
<1>1. /\ reads'[s].phase = "waiting" => Promised(disk'[s], chain'[s], reads'[s].ahead, reads'[s].want)
      /\ reads'[s].phase = "read" => reads'[s].want <= reads'[s].raw.at
  <2>1. CASE reads'[s] = reads[s]
    <3>1. reads[s].ahead \in Nat /\ reads[s].want \in Nat
      BY <1>0 DEF Reads
    <3>2. reads[s].phase = "waiting" => Promised(disk'[s], chain'[s], reads[s].ahead, reads[s].want)
      BY <1>0, <3>1, PromiseByWrite DEF Waits
    <3> QED BY <2>1, <3>2 DEF Waits, Promised
  <2>2. CASE reads'[s] = NoRead
    BY <2>2, ReadFacts
  <2>3. CASE reads'[s] = Load(s) /\ Rests(s) /\ pending[s] = Nothing
    <3>1. Promised(disk'[s], chain'[s], Len(chain[s]), latest[s].at)
      BY <2>3, AllPromised DEF Rests, Promised
    <3>2. reads'[s].phase = "waiting" /\ reads'[s].ahead = Len(chain[s])
          /\ reads'[s].want = latest[s].at
      BY <2>3, ReadFacts
    <3> QED BY <2>3, <3>1, <3>2
  <2>4. CASE reads'[s] = Load(s) /\ pending[s] # Nothing
    <3>1. reads'[s].phase = "read" /\ reads'[s].raw = pending[s] /\ reads'[s].want = latest[s].at
      BY <2>4, ReadFacts
    <3>2. pending[s] = latest[s]
      BY <2>4 DEF InLine, Newest
    <3> QED BY <1>0, <3>1, <3>2
  <2>5. CASE Read(s)
    <3>1. PICK raw \in {disk[s], [disk[s] EXCEPT !.is = "unreadable"]} :
            reads' = [reads EXCEPT ![s].phase = "read", ![s].raw = raw]
      BY <2>5 DEF Read
    <3>2. raw.at = disk[s].at
      <4>1. disk[s] \in Entry
        BY AtNat
      <4> QED BY <3>1, <4>1 DEF Entry
    <3>3. reads'[s].phase = "read" /\ reads'[s].raw = raw /\ reads'[s].want = reads[s].want
      BY <1>0, <3>1 DEF ReadTypes, Reads
    <3>4. reads[s].want <= disk[s].at
      BY <2>5 DEF Read, Waits, Promised
    <3> QED BY <3>2, <3>3, <3>4
  <2> QED BY <1>0, <2>1, <2>2, <2>3, <2>4, <2>5 DEF Scopewise, Reading
<1>2. quit'.phase = "flushing" => Promised(disk'[s], chain'[s], quit'.ahead[s], quit'.mark[s])
  <2>1. CASE UNCHANGED quit
    <3>1. quit.phase = "flushing" => Promised(disk'[s], chain'[s], quit.ahead[s], quit.mark[s])
      BY <1>0, PromiseByWrite DEF Waits
    <3> QED BY <2>1, <3>1 DEF Promised
  <2>2. CASE CloseWindow
    <3>1. pending'[s] = Nothing /\ latest' = latest
      BY <2>2 DEF CloseWindow, FlushScopes, ghosts
    <3>2. InLine(s)'
      BY <1>0, WriteInLine
    <3>3. chain'[s] = <<>> <=> Len(chain'[s]) = 0
      BY EmptySeq DEF WriterTypes
    <3>4. latest'[s].at \in Nat /\ Len(chain'[s]) \in Nat
      BY LenProperties DEF WriterTypes, Entry
    <3>5. Promised(disk'[s], chain'[s], Len(chain'[s]), latest'[s].at)
      BY <3>1, <3>2, <3>3, <3>4 DEF InLine, Newest, Promised
    <3>6. quit'.ahead[s] = Len(chain'[s]) /\ quit'.mark[s] = latest'[s].at
      BY <2>2, <3>1 DEF CloseWindow
    <3> QED BY <3>5, <3>6
  <2> QED BY <2>1, <2>2
<1> QED BY <1>1, <1>2 DEF Waits

LEMMA WaitsByAnswer ==
  ASSUME TypeInv, NEW s \in Scopes, Lands(s) \/ Fails(s), Sound(s), InLine(s), Waits(s),
         boot # "off"
  PROVE  Waits(s)'
<1> USE DEF TypeInv
<1> DEFINE a == reads[s].ahead
           b == quit.ahead[s]
<1>0. /\ a \in Nat /\ reads[s].want \in Nat /\ reads[s] \in Reads
      /\ b \in Nat /\ quit.mark[s] \in Nat
  BY DEF ReadTypes, Reads, QuitTypes, Quits
<1>1. CASE Lands(s)
  <2>1. /\ reads'[s].phase = reads[s].phase /\ reads'[s].ahead = Less(a)
        /\ reads'[s].want = reads[s].want /\ reads'[s].raw = reads[s].raw
    BY <1>0, <1>1 DEF Lands, ReadTypes, Reads
  <2>2. quit'.phase = quit.phase /\ quit'.ahead[s] = Less(b) /\ quit'.mark[s] = quit.mark[s]
    BY <1>0, <1>1 DEF Lands, QuitTypes, Quits
  <2>3. reads[s].phase = "waiting" => Promised(disk'[s], chain'[s], Less(a), reads[s].want)
    BY <1>0, <1>1, PromiseByLand DEF Waits, InLine
  <2>4. quit.phase = "flushing" => Promised(disk'[s], chain'[s], Less(b), quit.mark[s])
    BY <1>0, <1>1, PromiseByLand DEF Waits, InLine
  <2>5. boot' = boot
    BY <1>1 DEF Lands, store
  <2> QED BY <2>1, <2>2, <2>3, <2>4, <2>5 DEF Waits, Promised
<1>2. CASE Fails(s)
  <2>1. /\ reads'[s].phase = reads[s].phase /\ reads'[s].ahead = Less(a) /\ reads'[s].want = 0
        /\ reads'[s].raw = reads[s].raw
    BY <1>0, <1>2 DEF Fails, ReadTypes, Reads
  <2>2. quit'.phase \in {quit.phase, "failed"} /\ quit'.ahead[s] = Less(b) /\ quit'.mark[s] = 0
    BY <1>0, <1>2 DEF Fails, QuitTypes, Quits
  <2>3. WriterTypes' /\ boot' # "off" /\ Len(chain'[s]) = Len(chain[s]) - 1
        /\ Len(chain[s]) \in Nat \ {0}
    BY <1>2, AnswerWrites, Shrunk DEF Fails, WriterTypes
  <2>4. ASSUME NEW n \in Nat, n <= Len(chain[s]) PROVE Promised(disk'[s], chain'[s], Less(n), 0)
    <3>1. Less(n) \in Nat /\ Less(n) <= Len(chain'[s]) /\ Len(chain'[s]) \in Nat
      <4>1. Len(chain'[s]) \in Nat /\ Len(chain[s]) > 0
        BY <2>3
      <4>2. Less(n) <= Len(chain[s]) - 1
        BY <2>3, <2>4, <4>1, LessBelow
      <4> QED BY <2>3, <4>1, <4>2, LessFacts
    <3>2. disk'[s].at \in Nat /\ \A i \in 1 .. Len(chain'[s]) : chain'[s][i].at \in Nat
      <4>1. disk'[s] \in Entry /\ chain'[s] \in Seq(Entry)
        BY <2>3 DEF WriterTypes
      <4>2. \A i \in 1 .. Len(chain'[s]) : chain'[s][i] \in Entry
        BY <4>1, ElementOfSeq
      <4> QED BY <4>1, <4>2 DEF Entry
    <3>3. Less(n) # 0 => Less(n) \in 1 .. Len(chain'[s])
      BY <2>3, <3>1, LenProperties
    <3> QED BY <3>1, <3>2, <3>3 DEF Promised
  <2>5. reads[s].raw.at \in Nat
    BY <1>0 DEF Reads, Entry
  <2> QED BY <1>0, <2>1, <2>2, <2>3, <2>4, <2>5 DEF Waits, Promised
<1> QED BY <1>1, <1>2

LEMMA WaitingStep == TypeInv /\ Empty /\ Lines /\ Waiting /\ [Next]_vars => Waiting'
<1> SUFFICES ASSUME TypeInv, Empty, Lines, Waiting, [Next]_vars,
                    NEW s \in Scopes, s \notin spoilt'
             PROVE  Waits(s)'
  BY DEF Waiting
<1>0. WriterTypes'
  BY WriterTypesStep
<1>1. CASE boot # "off" /\ Scopewise /\ (UNCHANGED quit \/ CloseWindow) /\ ~EndStep
  <2>1. s \notin spoilt /\ Sound(s) /\ InLine(s) /\ Waits(s)
    BY <1>1 DEF Scopewise, Lines, Waiting
  <2> QED BY <1>0, <1>1, <2>1, BootStays, WaitsByWrite
<1>2. ASSUME NEW a \in Scopes, Lands(a) \/ Fails(a) PROVE Waits(s)'
  <2>1. boot # "off" /\ s \notin spoilt
    BY <1>2 DEF Lands, Fails, Empty, ghosts
  <2>2. Sound(s) /\ InLine(s) /\ Waits(s)
    BY <2>1 DEF Lines, Waiting
  <2>3. CASE a = s
    BY <1>2, <2>1, <2>2, <2>3, WaitsByAnswer
  <2>4. CASE a # s
    <3>1. Rests(s)
      BY <1>2, <2>4, AnswerWrites DEF TypeInv
    <3>2. reads'[s] = reads[s] /\ boot' # "off"
      BY <1>2, <2>1, <2>4 DEF Lands, Fails, TypeInv, ReadTypes, store
    <3>3. quit'.phase \in {quit.phase, "failed"} /\ quit'.ahead[s] = quit.ahead[s]
          /\ quit'.mark[s] = quit.mark[s]
      <4>1. quit \in Quits
        BY DEF TypeInv, QuitTypes
      <4>2. CASE Lands(a)
        BY <2>4, <4>1, <4>2 DEF Lands, Quits
      <4>3. CASE Fails(a)
        BY <2>4, <4>1, <4>3 DEF Fails, Quits
      <4> QED BY <1>2, <4>2, <4>3
    <3> QED BY <2>2, <3>1, <3>2, <3>3 DEF Waits, Promised, Rests
  <2> QED BY <2>3, <2>4
<1>3. CASE boot # "off" /\ EndStep
  <2>1. PICK c \in BOOLEAN : Exit(c) /\ (c => Flushed)
    BY <1>3 DEF EndStep, FlushDone, Dies
  <2>2. /\ boot' = "off" /\ clean' = c /\ reads'[s] = NoRead /\ quit'.phase = "no"
        /\ quit'.mark = quit.mark /\ disk' = disk /\ spoilt' = spoilt
    BY <2>1 DEF Exit, NoQuit
  <2>3. c => quit.mark[s] <= disk[s].at
    BY <2>1, <2>2 DEF Flushed, Waiting, Waits, Promised
  <2> QED BY <2>2, <2>3, ReadFacts DEF Waits
<1>4. CASE boot = "off" /\ StartApp
  <2>1. /\ boot' = "starting" /\ reads' = reads /\ quit' = NoQuit
    BY <1>4 DEF StartApp
  <2>2. reads[s].phase = "none" /\ quit'.phase = "no"
    BY <1>4, <2>1, ReadFacts DEF Empty, NoQuit
  <2> QED BY <2>1, <2>2 DEF Waits
<1>5. CASE UNCHANGED vars
  BY <1>5 DEF vars, carrier, store, ghosts, Waiting, Waits, Promised
<1>6. boot # "off" => ~StartApp
  BY DEF StartApp
<1> QED BY <1>1, <1>2, <1>3, <1>4, <1>5, <1>6, StepKinds, OffSteps

LEMMA WaitingInit == Init => Waiting
<1> SUFFICES ASSUME Init, NEW s \in Scopes PROVE Waits(s)
  BY DEF Waiting
<1>1. reads[s].phase = "none" /\ quit.phase = "no" /\ boot = "starting"
  BY ReadFacts DEF Init, NoQuit
<1> QED BY <1>1 DEF Waits

-----------------------------------------------------------------------------
(* The writer keeps, returns and flushes what it was given. *)

WriterInv == TypeInv /\ Empty /\ Lines /\ Waiting

LEMMA WriterInvariant == Spec => []WriterInv
<1>1. Init => WriterInv
  <2>1. Init => Empty
    BY DEF Init, Empty
  <2> QED BY <2>1, TypeInit, LinesInit, WaitingInit DEF WriterInv
<1>2. WriterInv /\ [Next]_vars => WriterInv'
  BY TypeStep, EmptyStep, LinesStep, WaitingStep DEF WriterInv
<1> QED BY <1>1, <1>2, PTL DEF Spec

\* saveState, flushScope, enqueue and deleteStateNow (persist.ts) together: once
\* nothing of a scope is buffered or in flight, app.db holds what its callers
\* asked for last, for any interleaving of debounces, calls, failures, retries
\* and restarts in which no failure overtook a later call.
THEOREM NewestIsKept == Spec => []NewestKept
<1>1. Lines => NewestKept
  BY DEF Lines, InLine, Newest, NewestKept
<1> QED BY <1>1, WriterInvariant, PTL DEF WriterInv

\* loadStateResult (persist.ts), which takes the buffered payload or awaits the
\* calls in flight before it asks the carrier, returns nothing older than what
\* had been saved or deleted when it was called.
THEOREM LoadsAreFresh == Spec => []LoadIsFresh
<1>1. TypeInv /\ Waiting => LoadIsFresh
  <2> SUFFICES ASSUME TypeInv, Waiting, NEW s \in Scopes, reads[s].phase = "read", s \notin spoilt
               PROVE  reads[s].raw.at >= reads[s].want
    BY DEF LoadIsFresh
  <2>1. reads[s].raw.at \in Nat /\ reads[s].want \in Nat
    BY DEF TypeInv, ReadTypes, Reads, Entry
  <2> QED BY <2>1 DEF Waiting, Waits
<1> QED BY <1>1, WriterInvariant, PTL DEF WriterInv

\* A window destroyed after its flushAll resolved (the close handler of
\* App.tsx awaits it) left on disk all that was saved or deleted before
\* the close request, whichever calls were in flight by then.
THEOREM CleanQuitsKeep == Spec => []CleanQuitKeeps
<1>1. TypeInv /\ Waiting => CleanQuitKeeps
  <2> SUFFICES ASSUME TypeInv, Waiting, boot = "off", clean, NEW s \in Scopes \ spoilt
               PROVE  disk[s].at >= quit.mark[s]
    BY DEF CleanQuitKeeps
  <2>1. disk[s].at \in Nat /\ quit.mark[s] \in Nat
    BY DEF TypeInv, WriterTypes, Entry, QuitTypes, Quits
  <2> QED BY <2>1 DEF Waiting, Waits
<1> QED BY <1>1, WriterInvariant, PTL DEF WriterInv

-----------------------------------------------------------------------------
(* What becomes of the session, the archive and a tab's state in a step.   *)

PersistStep(t) ==
  OpenTab(t) \/ CloseTab(t) \/ ReopenTab(t) \/ FirstLaunch(t) \/ Replaced(t)

ArchiveMove == Rests(Archive) \/ Moves(Archive)

SessionMove ==
  \/ Rests(Session) \/ Moves(Session)
  \/ Saves(Session) /\ latest'[Session].tabs = tabs' /\ \E t \in Tabs : PersistStep(t)
  \/ Deletes(Session) /\ Replace

TabMove(t) ==
  \/ Rests(t) \/ Moves(t)
  \/ Saves(t) /\ Touch(t)
  \/ Deletes(t) /\ SweepDeletes /\ t \in Listed \ sweep.live

Movement == ArchiveMove /\ SessionMove /\ \A t \in Tabs : TabMove(t)

\* A close or a crash, of the writer.
Emptied ==
  \A s \in Scopes :
    /\ disk'[s] = disk[s] /\ latest'[s] = latest[s]
    /\ pending'[s] = Nothing /\ chain'[s] = <<>> /\ Len(chain'[s]) = 0

LEMMA PersistMoves ==
  ASSUME TypeInv, NEW t \in Tabs, PersistStep(t) PROVE Movement
<1> USE ScopeFacts DEF TypeInv, StoreTypes
<1>1. /\ tabs' \in SUBSET Tabs /\ Persist(tabs') /\ blocked' \subseteq Scopes
      /\ UNCHANGED <<disk, chain, spoilt>>
  <2>1. CASE OpenTab(t) \/ CloseTab(t) \/ ReopenTab(t)
    BY <2>1 DEF OpenTab, CloseTab, ReopenTab, WriterTypes
  <2>2. CASE FirstLaunch(t)
    BY <2>2 DEF FirstLaunch, Restoring, Answered, Initialize, WriterTypes
  <2>3. CASE Replaced(t)
    BY <2>3 DEF Replaced, Initialize, WriterTypes
  <2> QED BY <2>1, <2>2, <2>3 DEF PersistStep
<1>2. \A x \in Scopes :
        Rests(x) \/ (x = Session /\ Saves(x) /\ latest'[x] = Value(calls + 1, tabs'))
  BY <1>1, PersistWrites
<1>3. Value(calls + 1, tabs').tabs = tabs'
  BY DEF Value
<1> QED BY <1>2, <1>3 DEF Movement, ArchiveMove, SessionMove, TabMove

LEMMA TouchMoves ==
  ASSUME TypeInv, NEW t \in Tabs, Touch(t) PROVE Movement
<1>1. /\ t \in Scopes /\ SaveState(t, {}) /\ blocked' \subseteq Scopes
      /\ UNCHANGED <<disk, chain, spoilt>>
  BY ScopeFacts DEF Touch, TypeInv, WriterTypes
<1>2. \A x \in Scopes : Rests(x) \/ (x = t /\ Saves(x))
  BY <1>1, SaveWrites DEF TypeInv
<1> QED BY <1>2, ScopeFacts DEF Movement, ArchiveMove, SessionMove, TabMove

LEMMA FlushMoves ==
  ASSUME TypeInv, FlushStep PROVE Movement
<1>1. \A x \in Scopes : Rests(x) \/ Moves(x)
  <2>1. CASE FlushAll \/ CloseWindow
    <3>1. FlushScopes(Scopes) /\ UNCHANGED <<disk, blocked, spoilt, latest, calls>>
      BY <2>1 DEF FlushAll, CloseWindow, ghosts
    <3> QED BY <3>1, FlushWrites DEF TypeInv
  <2>2. ASSUME NEW s \in Scopes, TimerFires(s) PROVE \A x \in Scopes : Rests(x) \/ Moves(x)
    <3>1. FlushScopes({s}) /\ UNCHANGED <<disk, blocked, spoilt, latest, calls>>
      BY <2>2 DEF TimerFires, ghosts
    <3> QED BY <3>1, FlushWrites DEF TypeInv
  <2> QED BY <2>1, <2>2 DEF FlushStep
<1> QED BY <1>1, ScopeFacts DEF Movement, ArchiveMove, SessionMove, TabMove

LEMMA DeleteMoves ==
  ASSUME TypeInv, DeleteStep PROVE Movement
<1>1. CASE Replace
  <2>1. DeleteStates({Session}) /\ UNCHANGED <<disk, blocked, spoilt>>
    BY <1>1 DEF Replace
  <2>2. \A x \in Scopes : IF x = Session THEN Deletes(x) ELSE Rests(x)
    BY <2>1, DeleteWrites, ScopeFacts DEF TypeInv
  <2> QED BY <1>1, <2>2, ScopeFacts DEF Movement, ArchiveMove, SessionMove, TabMove
<1>2. CASE SweepDeletes
  <2> DEFINE S == Listed \ sweep.live
  <2>1. DeleteStates(S) /\ UNCHANGED <<disk, blocked, spoilt>> /\ S \in SUBSET Tabs
    BY <1>2 DEF SweepDeletes, Listed
  <2> HIDE DEF S
  <2>2. \A x \in Scopes : IF x \in S THEN Deletes(x) ELSE Rests(x)
    BY <2>1, DeleteWrites, ScopeFacts DEF TypeInv
  <2> QED BY <1>2, <2>1, <2>2, ScopeFacts DEF Movement, ArchiveMove, SessionMove, TabMove, S
<1> QED BY <1>1, <1>2 DEF DeleteStep

LEMMA Movements ==
  ASSUME TypeInv, [Next]_vars
  PROVE  \/ Movement
         \/ \E a \in Scopes : Lands(a) \/ Fails(a)
         \/ EndStep /\ Emptied
         \/ StartApp
<1>1. ASSUME NEW t \in Tabs, SaveStep(t) PROVE Movement
  BY <1>1, PersistMoves, TouchMoves DEF SaveStep, PersistStep
<1>2. CASE UNCHANGED <<disk, pending, chain, latest>>
  BY <1>2, ScopeFacts DEF Movement, ArchiveMove, SessionMove, TabMove, Rests
<1>3. CASE EndStep
  <2>1. /\ UNCHANGED <<disk, latest>> /\ pending' = [s \in Scopes |-> Nothing]
        /\ chain' = [s \in Scopes |-> <<>>]
    BY <1>3 DEF EndStep, FlushDone, Dies, Exit
  <2> QED BY <1>3, <2>1, EmptySeq DEF Emptied
<1>4. UNCHANGED vars => UNCHANGED <<disk, pending, chain, latest>>
  BY DEF vars, carrier, ghosts
<1> QED
  BY <1>1, <1>2, <1>3, <1>4, Steps, FlushMoves, DeleteMoves, StillScopewise

-----------------------------------------------------------------------------
(* Every record is whole: a tab's state is a value or deleted, the session *)
(* lists tabs only if it is a value, the archive stays as it was found.    *)

Plain(t) == disk[t].is \in {"value", "missing"} /\ latest[t].is \in {"value", "missing"}

Bare ==
  /\ disk[Session].is # "value" => disk[Session].tabs = {}
  /\ \A i \in 1 .. Len(chain[Session]) :
       chain[Session][i].is # "value" => chain[Session][i].tabs = {}

Shelved ==
  /\ disk[Archive] \in FoundArchive /\ pending[Archive] = Nothing /\ chain[Archive] = <<>>
  /\ Archive \notin FlakyReads /\ reads[Archive].phase = "read" => reads[Archive].raw = disk[Archive]

Whole == Bare /\ Shelved /\ \A t \in Tabs : Plain(t)

\* Only a tab that was given out has state.
Fresh(t) == disk[t] = Gone(0) /\ latest[t] = Gone(0) /\ pending[t] = Nothing /\ chain[t] = <<>>

LEMMA AnswerOf ==
  ASSUME WriterTypes, NEW a \in Scopes, Lands(a) \/ Fails(a)
  PROVE  /\ Len(chain[a]) \in Nat \ {0} /\ chain'[a] \in Seq(Entry)
         /\ Len(chain'[a]) = Len(chain[a]) - 1 /\ (chain'[a] = <<>> <=> Len(chain[a]) = 1)
         /\ \A i \in 1 .. Len(chain'[a]) :
              chain'[a][i] = chain[a][i + 1] /\ i + 1 \in 1 .. Len(chain[a])
         /\ 1 \in 1 .. Len(chain[a]) /\ latest'[a] = latest[a]
         /\ Lands(a) => disk'[a] = chain[a][1] /\ pending'[a] = pending[a]
         /\ Fails(a) => /\ disk'[a] = disk[a]
                        /\ pending'[a] = IF chain[a][1].is = "value" /\ pending[a] = Nothing
                                         THEN chain[a][1] ELSE pending[a]
<1>1. chain[a] \in Seq(Entry) /\ chain[a] # <<>> /\ chain'[a] = Tail(chain[a])
  BY DEF Lands, Fails, WriterTypes
<1>2. /\ Len(chain[a]) \in Nat \ {0} /\ chain'[a] \in Seq(Entry)
      /\ Len(chain'[a]) = Len(chain[a]) - 1 /\ (chain'[a] = <<>> <=> Len(chain[a]) = 1)
      /\ \A i \in 1 .. Len(chain[a]) - 1 : chain'[a][i] = chain[a][i + 1]
      /\ Head(chain[a]) = chain[a][1]
  BY <1>1, Shrunk
<1>3. \A i \in 1 .. Len(chain'[a]) :
        chain'[a][i] = chain[a][i + 1] /\ i + 1 \in 1 .. Len(chain[a])
  BY <1>2
<1>4. 1 \in 1 .. Len(chain[a]) /\ latest'[a] = latest[a]
  BY <1>2 DEF Lands, Fails, ghosts
<1>5. Lands(a) => disk'[a] = chain[a][1] /\ pending'[a] = pending[a]
  BY <1>2 DEF Lands, WriterTypes
<1>6. Fails(a) => /\ disk'[a] = disk[a]
                  /\ pending'[a] = IF chain[a][1].is = "value" /\ pending[a] = Nothing
                                   THEN chain[a][1] ELSE pending[a]
  BY <1>2 DEF Fails, Retry, WriterTypes
<1> QED BY <1>2, <1>3, <1>4, <1>5, <1>6

\* What a write leaves in the chain: what was there and at most one call more,
\* a delete or what was buffered.
LEMMA WriteOf ==
  ASSUME WriterTypes, NEW s \in Scopes, Writes(s)
  PROVE  /\ disk'[s] = disk[s]
         /\ \A i \in 1 .. Len(chain'[s]) :
              \/ i \in 1 .. Len(chain[s]) /\ chain'[s][i] = chain[s][i]
              \/ Deletes(s) /\ chain'[s][i] = Gone(calls + 1)
              \/ Moves(s) /\ pending[s] # Nothing /\ chain'[s][i] = pending[s]
<1>0. chain[s] \in Seq(Entry) /\ calls \in Nat
  BY DEF WriterTypes
<1>1. ASSUME NEW e \in Entry, chain'[s] = Append(chain[s], e), NEW i \in 1 .. Len(chain'[s])
      PROVE  (i \in 1 .. Len(chain[s]) /\ chain'[s][i] = chain[s][i]) \/ chain'[s][i] = e
  <2>1. i \in 1 .. Len(chain[s]) \/ i = Len(chain[s]) + 1
    BY <1>0, <1>1, Grown
  <2> QED BY <1>0, <1>1, <2>1, Grown
<1>2. Gone(calls + 1) \in Entry
  BY <1>0, EntryFacts
<1>3. CASE chain'[s] = chain[s]
  BY <1>3 DEF Writes, Rests, Saves, Deletes, Moves
<1>4. CASE Deletes(s)
  BY <1>1, <1>2, <1>4 DEF Deletes
<1>5. CASE Moves(s) /\ pending[s] # Nothing
  <2>1. pending[s] \in Entry /\ chain'[s] = Append(chain[s], pending[s])
    BY <1>5 DEF WriterTypes, Moves
  <2> QED BY <1>1, <1>5, <2>1 DEF Moves
<1> QED BY <1>3, <1>4, <1>5 DEF Writes, Rests, Saves, Moves

LEMMA PlainStep ==
  ASSUME TypeInv, Lines, NEW t \in Tabs, Plain(t), [Next]_vars PROVE Plain(t)'
<1> USE DEF TypeInv, Plain
<1>0. t \in Scopes /\ calls \in Nat
  BY ScopeFacts DEF WriterTypes
<1>1. CASE Movement
  <2>1. TabMove(t)
    BY <1>1 DEF Movement
  <2>2. Deletes(t) => latest'[t].is = "missing"
    BY DEF Deletes, Gone
  <2> QED BY <2>1, <2>2 DEF TabMove, Rests, Saves, Deletes, Moves
<1>2. ASSUME NEW a \in Scopes, Lands(a) \/ Fails(a) PROVE Plain(t)'
  <2>1. CASE a # t
    BY <1>0, <1>2, <2>1, AnswerWrites DEF Rests
  <2>2. CASE a = t
    BY <1>2, <2>2, AnswerOf DEF Lines, Sound
  <2> QED BY <2>1, <2>2
<1>3. CASE Emptied
  BY <1>0, <1>3 DEF Emptied
<1>4. CASE StartApp
  BY <1>4 DEF StartApp, carrier
<1> QED BY <1>1, <1>2, <1>3, <1>4, Movements

LEMMA BareStep ==
  ASSUME TypeInv, Lines, Bare, [Next]_vars PROVE Bare'
<1> USE ScopeFacts DEF TypeInv
<1>1. CASE Movement
  <2>1. Writes(Session)
    BY <1>1 DEF Movement, SessionMove, Writes
  <2>2. calls \in Nat /\ Gone(calls + 1).tabs = {}
    BY DEF WriterTypes, Gone
  <2>3. pending[Session] # Nothing => pending[Session].is = "value"
    BY DEF Lines, Sound
  <2> QED BY <2>1, <2>2, <2>3, WriteOf DEF Bare
<1>2. ASSUME NEW a \in Scopes, Lands(a) \/ Fails(a) PROVE Bare'
  <2>1. CASE a # Session
    BY <1>2, <2>1, AnswerWrites DEF Bare, Rests
  <2>2. CASE a = Session
    <3>1. \A i \in 1 .. Len(chain[Session]) :
            chain[Session][i].is # "value" => chain[Session][i].tabs = {}
      BY DEF Bare
    <3>2. \A i \in 1 .. Len(chain'[Session]) :
            chain'[Session][i] = chain[Session][i + 1] /\ i + 1 \in 1 .. Len(chain[Session])
      BY <1>2, <2>2, AnswerOf
    <3>3. 1 \in 1 .. Len(chain[Session]) /\ disk'[Session] \in {disk[Session], chain[Session][1]}
      BY <1>2, <2>2, AnswerOf
    <3> QED BY <3>1, <3>2, <3>3 DEF Bare
  <2> QED BY <2>1, <2>2
<1>3. CASE Emptied
  BY <1>3 DEF Emptied, Bare
<1>4. CASE StartApp
  BY <1>4 DEF StartApp, carrier, Bare
<1> QED BY <1>1, <1>2, <1>3, <1>4, Movements

\* A read is as far as it was, is given up, begins or is answered.
LEMMA ReadMoves ==
  ASSUME TypeInv, [Next]_vars, NEW x \in Scopes
  PROVE  \/ reads'[x].phase = reads[x].phase /\ reads'[x].raw = reads[x].raw
         \/ reads'[x].phase = "none"
         \/ reads'[x] = Load(x)
         \/ /\ reads[x].phase = "waiting" /\ UNCHANGED disk
            /\ \/ reads'[x].raw = disk[x]
               \/ x \in FlakyReads /\ reads'[x].raw = [disk[x] EXCEPT !.is = "unreadable"]
<1> USE DEF TypeInv, ReadTypes
<1>1. CASE Scopewise
  <2>1. reads'[x] \in {reads[x], NoRead, Load(x)} \/ Read(x)
    BY <1>1 DEF Scopewise, Reading
  <2>2. CASE Read(x)
    BY <2>2 DEF Read, carrier, Reads
  <2> QED BY <2>1, <2>2, ReadFacts
<1>2. ASSUME NEW a \in Scopes, Lands(a) \/ Fails(a)
      PROVE  reads'[x].phase = reads[x].phase /\ reads'[x].raw = reads[x].raw
  <2>1. reads[x] \in Reads
    OBVIOUS
  <2>2. CASE Lands(a)
    BY <2>1, <2>2 DEF Lands, Reads
  <2>3. CASE Fails(a)
    BY <2>1, <2>3 DEF Fails, Reads
  <2> QED BY <1>2, <2>2, <2>3
<1>3. EndStep => reads'[x].phase = "none"
  BY ReadFacts DEF EndStep, FlushDone, Dies, Exit
<1>4. StartApp => reads' = reads
  BY DEF StartApp
<1> QED BY <1>1, <1>2, <1>3, <1>4, StepKinds

LEMMA ShelvedStep ==
  ASSUME TypeInv, Shelved, [Next]_vars PROVE Shelved'
<1> USE ScopeFacts DEF TypeInv
<1>1. disk'[Archive] = disk[Archive] /\ pending'[Archive] = Nothing /\ chain'[Archive] = <<>>
  <2>1. CASE Movement
    BY <2>1 DEF Movement, ArchiveMove, Rests, Moves, Shelved
  <2>2. ASSUME NEW a \in Scopes, Lands(a) \/ Fails(a) PROVE a # Archive
    BY <2>2 DEF Lands, Fails, Shelved
  <2>3. CASE StartApp
    BY <2>3 DEF StartApp, carrier, Shelved
  <2>4. CASE Emptied
    BY <2>4 DEF Emptied
  <2> QED BY <2>1, <2>2, <2>3, <2>4, Movements, AnswerWrites DEF Rests, Shelved
<1>2. pending[Archive] = Nothing /\ Load(Archive).phase # "read"
  BY ReadFacts DEF Shelved
<1>3. Archive \notin FlakyReads /\ reads'[Archive].phase = "read"
        => reads'[Archive].raw = disk'[Archive]
  BY <1>1, <1>2, ReadMoves DEF Shelved
<1> QED BY <1>1, <1>3 DEF Shelved

LEMMA WholeStep == TypeInv /\ Lines /\ Whole /\ [Next]_vars => Whole'
BY PlainStep, BareStep, ShelvedStep DEF Whole

LEMMA WholeInit == Init => Whole
<1> SUFFICES ASSUME Init PROVE Whole
  OBVIOUS
<1>1. PICK x \in FoundSession, y \in FoundArchive :
        disk = [s \in Scopes |->
                  IF s = Session THEN x ELSE IF s = Archive THEN y
                  ELSE IF s \in Open0 \union Shelved0 THEN Value(0, {}) ELSE Gone(0)]
  BY DEF Init
<1>2. disk[Session] = x /\ disk[Archive] = y
      /\ \A t \in Tabs : disk[t] \in {Value(0, {}), Gone(0)}
  BY <1>1, ScopeFacts
<1>3. x.is # "value" => x.tabs = {}
  BY DEF FoundSession, Value, Gone
<1>4. latest = disk /\ Len(chain[Session]) = 0 /\ chain[Archive] = <<>>
      /\ pending[Archive] = Nothing /\ reads[Archive].phase = "none"
  BY ScopeFacts, EmptySeq, ReadFacts DEF Init
<1>5. \A t \in Tabs : Plain(t)
  BY <1>2, <1>4 DEF Plain, Value, Gone
<1> QED BY <1>2, <1>3, <1>4, <1>5 DEF Whole, Bare, Shelved

-----------------------------------------------------------------------------
(* Startup, when the user acts only after it: there are no tabs, nothing    *)
(* of the session is on its way to disk but the delete its owner asked for, *)
(* and a read of it has what is on disk.                                    *)

Early == {"starting", "restoring", "asking", "replacing"}

Startup ==
  /\ boot \in Early => tabs = {} /\ closed = {} /\ pending[Session] = Nothing
  /\ boot \in Early \ {"replacing"} => chain[Session] = <<>>
  /\ boot = "restoring" /\ reads[Session].phase = "read" =>
       reads[Session].raw \in {disk[Session], [disk[Session] EXCEPT !.is = "unreadable"]}
  /\ boot = "replacing" =>
       \/ Len(chain[Session]) = 1 /\ chain[Session][1].is = "missing"
       \/ chain[Session] = <<>> /\ disk[Session].is = "missing"
  /\ tabs \intersect closed = {}

LEMMA EarlySteps ==
  ASSUME TypeInv, ~EarlyUi, [Next]_vars, boot' \in Early
  PROVE  /\ \A t \in Tabs : ~PersistStep(t) /\ ~Touch(t)
         /\ \/ UNCHANGED <<boot, tabs, closed>> /\ ~Replace
            \/ StartRecovery \/ Unusable \/ Replace \/ StartApp
<1>1. ASSUME NEW t \in Tabs PROVE ~PersistStep(t) /\ ~Touch(t)
  BY DEF Early, PersistStep, OpenTab, CloseTab, ReopenTab, FirstLaunch, Replaced, Initialize, Touch,
     MayAct, store
<1>2. CASE FlushStep \/ SweepDeletes
  BY <1>1, <1>2 DEF FlushStep, FlushAll, CloseWindow, TimerFires, SweepDeletes, store, Replace
<1>3. CASE Restored \/ Decline
  BY <1>3 DEF Restored, Decline, Early
<1>4. CASE SweepArchive \/ \E s \in Scopes : Read(s)
  BY <1>1, <1>4 DEF SweepArchive, Read, store, Replace
<1>5. ASSUME NEW t \in Tabs, Mount(t) \/ ViewLoaded(t)
      PROVE  UNCHANGED <<boot, tabs, closed>> /\ ~Replace
  BY <1>5 DEF Mount, ViewLoaded, store, Replace
<1>6. ASSUME NEW a \in Scopes, Lands(a) \/ Fails(a)
      PROVE  UNCHANGED <<boot, tabs, closed>> /\ ~Replace
  BY <1>6 DEF Lands, Fails, store, Early, Replace
<1>7. ~EndStep
  BY DEF EndStep, FlushDone, Dies, Exit, Early
<1>8. CASE UNCHANGED vars
  BY <1>1, <1>8 DEF vars, store, Replace
<1> QED
  BY <1>1, <1>2, <1>3, <1>4, <1>5, <1>6, <1>7, <1>8, Steps
     DEF SaveStep, PersistStep, DeleteStep, StillStep

LEMMA TabsApart ==
  ASSUME TypeInv, ~EarlyUi, Startup, [Next]_vars PROVE (tabs \intersect closed = {})'
<1> USE DEF TypeInv, StoreTypes
<1>0. tabs \intersect closed = {}
  BY DEF Startup
<1>1. ASSUME NEW t \in Tabs, SaveStep(t) PROVE (tabs \intersect closed = {})'
  BY <1>0, <1>1 DEF SaveStep, OpenTab, CloseTab, ReopenTab, Touch, FirstLaunch, Replaced, Initialize, store
<1>2. CASE FlushStep \/ DeleteStep
  BY <1>0, <1>2 DEF FlushStep, FlushAll, CloseWindow, TimerFires, DeleteStep, Replace, SweepDeletes, store
<1>3. CASE Restored
  <2>1. closed = {}
    BY <1>3 DEF Restored, Restoring, Startup, Early
  <2> QED BY <1>3, <2>1 DEF Restored
<1>4. CASE StillStep /\ ~Restored
  BY <1>0, <1>4 DEF StillStep, StartRecovery, Unusable, Decline, SweepArchive, Read, Mount,
     ViewLoaded, store
<1>5. ASSUME NEW s \in Scopes, Lands(s) \/ Fails(s) PROVE (tabs \intersect closed = {})'
  BY <1>0, <1>5 DEF Lands, Fails, store
<1>6. CASE EndStep \/ StartApp \/ UNCHANGED vars
  BY <1>0, <1>6 DEF EndStep, FlushDone, Dies, Exit, StartApp, vars, store
<1> QED BY <1>1, <1>2, <1>3, <1>4, <1>5, <1>6, Steps

LEMMA StartupStep ==
  ASSUME TypeInv, Empty, ~EarlyUi, Startup, [Next]_vars PROVE Startup'
<1> USE ScopeFacts DEF TypeInv
<1>0. CASE boot' \notin Early
  BY <1>0, TabsApart DEF Startup, Early
<1>1. CASE boot' \in Early /\ UNCHANGED <<boot, tabs, closed>> /\ ~Replace
  <2>1. /\ tabs' = {} /\ closed' = {} /\ boot \in Early /\ pending[Session] = Nothing
        /\ boot # "off"
    BY <1>1 DEF Startup, Early
  <2>2. CASE Rests(Session) \/ Moves(Session)
    <3>1. disk'[Session] = disk[Session] /\ chain'[Session] = chain[Session]
          /\ pending'[Session] = Nothing
      BY <2>1, <2>2 DEF Rests, Moves
    <3>2. Load(Session).phase # "read"
      BY <2>1, ReadFacts
    <3>3. boot = "restoring" /\ reads'[Session].phase = "read" =>
            reads'[Session].raw \in {disk[Session], [disk[Session] EXCEPT !.is = "unreadable"]}
      BY <3>2, ReadMoves DEF Startup
    <3> QED BY <1>1, <2>1, <3>1, <3>3 DEF Startup
  <2>3. CASE Lands(Session)
    <3>1. chain[Session] # <<>>
      BY <2>3 DEF Lands
    <3>2. boot = "replacing" /\ Len(chain[Session]) = 1 /\ chain[Session][1].is = "missing"
      BY <2>1, <3>1 DEF Startup
    <3>3. disk'[Session].is = "missing" /\ chain'[Session] = <<>> /\ pending'[Session] = Nothing
      BY <2>1, <2>3, <3>2, AnswerOf
    <3> QED BY <1>1, <2>1, <3>2, <3>3 DEF Startup
  <2>4. ~Fails(Session)
    <3> SUFFICES ASSUME Fails(Session) PROVE FALSE
      OBVIOUS
    <3>1. chain[Session] # <<>>
      BY DEF Fails
    <3>2. boot = "replacing"
      BY <2>1, <3>1 DEF Startup
    <3> QED BY <1>1, <3>2 DEF Fails
  <2>5. ~EndStep /\ ~StartApp
    BY <1>1, <2>1 DEF EndStep, FlushDone, Dies, Exit, StartApp, Early
  <2>6. Movement => Rests(Session) \/ Moves(Session)
    BY <1>1, EarlySteps DEF Movement, SessionMove
  <2>7. \A a \in Scopes \ {Session} : Lands(a) \/ Fails(a) => Rests(Session)
    BY AnswerWrites
  <2> QED BY <2>2, <2>3, <2>4, <2>5, <2>6, <2>7, Movements
<1>2. CASE StartRecovery
  <2>1. /\ boot = "starting" /\ boot' = "restoring" /\ reads'[Session] = Load(Session)
        /\ UNCHANGED <<disk, pending, chain, tabs, closed>>
    BY <1>2 DEF StartRecovery, carrier, ReadTypes
  <2>2. pending[Session] = Nothing
    BY <2>1 DEF Startup, Early
  <2>3. reads'[Session].phase = "waiting"
    BY <2>1, <2>2, ReadFacts
  <2> QED BY <2>1, <2>3 DEF Startup, Early
<1>3. CASE Unusable
  <2>1. /\ boot = "restoring" /\ boot' = "asking" /\ UNCHANGED <<disk, pending, chain, tabs, closed>>
    BY <1>3 DEF Unusable, Restoring
  <2> QED BY <2>1 DEF Startup, Early
<1>4. CASE Replace
  <2>1. /\ boot = "asking" /\ boot' = "replacing" /\ UNCHANGED <<tabs, closed>>
        /\ pending'[Session] = Nothing /\ chain'[Session] = Append(chain[Session], Gone(calls + 1))
    BY <1>4 DEF Replace, DeleteStates
  <2>2. chain[Session] = <<>> /\ chain[Session] \in Seq(Entry) /\ calls + 1 \in Nat
    BY <2>1 DEF Startup, Early, WriterTypes
  <2>3. Len(chain[Session]) = 0 /\ Gone(calls + 1) \in Entry /\ Gone(calls + 1).is = "missing"
    BY <2>2, EmptySeq, EntryFacts
  <2>4. Len(chain'[Session]) = 1 /\ chain'[Session][1].is = "missing"
    BY <2>1, <2>2, <2>3, Grown
  <2> QED BY <2>1, <2>4 DEF Startup, Early
<1>5. CASE StartApp
  <2>1. /\ boot = "off" /\ boot' = "starting" /\ UNCHANGED <<disk, pending, chain, tabs, closed>>
    BY <1>5 DEF StartApp, carrier
  <2> QED BY <2>1 DEF Startup, Early, Empty
<1> QED BY <1>0, <1>1, <1>2, <1>3, <1>4, <1>5, EarlySteps

LEMMA StartupInit == Init => Startup
<1> SUFFICES ASSUME Init PROVE Startup
  OBVIOUS
<1>1. /\ boot = "starting" /\ tabs = {} /\ closed = {} /\ pending[Session] = Nothing
      /\ chain[Session] = <<>>
  BY ScopeFacts DEF Init
<1> QED BY <1>1 DEF Startup

-----------------------------------------------------------------------------
(* Which tabs can be got at, and that a tab never given out has no state.  *)

InRecord ==
  {t \in Tabs :
     \/ t \in disk[Session].tabs
     \/ pending[Session] # Nothing /\ t \in pending[Session].tabs
     \/ \E i \in 1 .. Len(chain[Session]) : t \in chain[Session][i].tabs}

Recoverable == tabs \union closed \union InRecord \union disk[Archive].tabs

GivenOut == Recoverable \subseteq used /\ \A t \in Tabs \ used : Fresh(t)

LEMMA Growing ==
  ASSUME TypeInv, [Next]_vars
  PROVE  used \subseteq used' /\ raced \subseteq raced'
<1>1. ASSUME NEW t \in Tabs, SaveStep(t) PROVE used \subseteq used' /\ raced \subseteq raced'
  BY <1>1 DEF SaveStep, OpenTab, CloseTab, ReopenTab, Touch, FirstLaunch, Replaced, Initialize, store, ghosts
<1>2. CASE FlushStep \/ DeleteStep
  BY <1>2 DEF FlushStep, FlushAll, CloseWindow, TimerFires, DeleteStep, Replace, SweepDeletes, store, ghosts
<1>3. CASE StillStep
  BY <1>3 DEF StillStep, StartRecovery, Restored, Unusable, Decline, SweepArchive, Read, Mount,
     ViewLoaded, store, ghosts
<1>4. ASSUME NEW s \in Scopes, Lands(s) \/ Fails(s) PROVE used \subseteq used' /\ raced \subseteq raced'
  BY <1>4 DEF Lands, Fails, store, ghosts
<1>5. CASE EndStep \/ StartApp \/ UNCHANGED vars
  BY <1>5 DEF EndStep, FlushDone, Dies, Exit, StartApp, vars, store, ghosts
<1> QED BY <1>1, <1>2, <1>3, <1>4, <1>5, Steps

\* A record of the session on its way names what an earlier one did, or the
\* tabs there are now.
LEMMA RecordStep ==
  ASSUME TypeInv, [Next]_vars, NEW t \in InRecord'
  PROVE  t \in InRecord \/ (t \in tabs' /\ \E u \in Tabs : PersistStep(u))
<1> USE ScopeFacts DEF TypeInv
<1>0. t \in Tabs
  BY DEF InRecord
<1>1. CASE Movement
  <2>1. CASE Saves(Session) /\ latest'[Session].tabs = tabs' /\ \E u \in Tabs : PersistStep(u)
    BY <2>1 DEF Saves, InRecord
  <2>2. CASE Rests(Session)
    BY <2>2 DEF Rests, InRecord
  <2>3. CASE Moves(Session) \/ Deletes(Session)
    <3>1. Gone(calls + 1).tabs = {} /\ pending'[Session] = Nothing
      BY <2>3 DEF Moves, Deletes, Gone
    <3>2. Writes(Session)
      BY <2>3 DEF Writes
    <3> QED BY <1>0, <3>1, <3>2, WriteOf DEF InRecord
  <2> QED BY <1>1, <2>1, <2>2, <2>3 DEF Movement, SessionMove
<1>2. ASSUME NEW a \in Scopes, Lands(a) \/ Fails(a) PROVE t \in InRecord
  <2>1. CASE a # Session
    BY <1>2, <2>1, AnswerWrites DEF InRecord, Rests
  <2>2. CASE a = Session
    <3>1. \A i \in 1 .. Len(chain'[Session]) :
            chain'[Session][i] = chain[Session][i + 1] /\ i + 1 \in 1 .. Len(chain[Session])
      BY <1>2, <2>2, AnswerOf
    <3>2. /\ 1 \in 1 .. Len(chain[Session]) /\ disk'[Session] \in {disk[Session], chain[Session][1]}
          /\ pending'[Session] \in {pending[Session], chain[Session][1]}
      BY <1>2, <2>2, AnswerOf
    <3> QED BY <1>0, <3>1, <3>2 DEF InRecord
  <2> QED BY <2>1, <2>2
<1>3. CASE Emptied
  BY <1>3 DEF Emptied, InRecord
<1>4. CASE StartApp
  BY <1>4 DEF StartApp, carrier, InRecord
<1> QED BY <1>1, <1>2, <1>3, <1>4, Movements

\* A tab of this window was one before, is new or was restored.
LEMMA TabsStep ==
  ASSUME TypeInv, [Next]_vars, NEW t \in tabs' \union closed'
  PROVE  \/ t \in tabs \union closed
         \/ t \in tabs' /\ t \notin used
         \/ Restored /\ t \in reads[Session].raw.tabs
<1>1. ASSUME NEW u \in Tabs, SaveStep(u)
      PROVE  t \in tabs \union closed \/ (t \in tabs' /\ t \notin used)
  BY <1>1 DEF SaveStep, OpenTab, CloseTab, ReopenTab, Touch, FirstLaunch, Replaced, Initialize, store
<1>2. CASE FlushStep \/ DeleteStep
  BY <1>2 DEF FlushStep, FlushAll, CloseWindow, TimerFires, DeleteStep, Replace, SweepDeletes, store
<1>3. CASE Restored
  BY <1>3 DEF Restored
<1>4. CASE StillStep /\ ~Restored
  BY <1>4 DEF StillStep, StartRecovery, Unusable, Decline, SweepArchive, Read, Mount,
     ViewLoaded, store
<1>5. ASSUME NEW s \in Scopes, Lands(s) \/ Fails(s) PROVE t \in tabs \union closed
  BY <1>5 DEF Lands, Fails, store
<1>6. CASE EndStep \/ StartApp \/ UNCHANGED vars
  BY <1>6 DEF EndStep, FlushDone, Dies, Exit, StartApp, vars, store
<1> QED BY <1>1, <1>2, <1>3, <1>4, <1>5, <1>6, Steps

LEMMA ArchiveStays ==
  ASSUME TypeInv, Shelved, [Next]_vars PROVE disk'[Archive] = disk[Archive]
<1>1. \A a \in Scopes : Lands(a) \/ Fails(a) => a # Archive
  BY DEF Lands, Fails, Shelved
<1> QED
  BY <1>1, Movements, AnswerWrites, ScopeFacts
     DEF TypeInv, Movement, ArchiveMove, Rests, Moves, Emptied, StartApp, carrier

\* What a restored session or a first launch has found on disk.
LEMMA FoundOnDisk ==
  ASSUME TypeInv, Startup, boot = "restoring", reads[Session].phase = "read"
  PROVE  /\ reads[Session].raw.is \in {disk[Session].is, "unreadable"}
         /\ reads[Session].raw.tabs = disk[Session].tabs
<1>1. disk[Session] \in Entry
  BY ScopeFacts DEF TypeInv, WriterTypes
<1>2. LET u == [disk[Session] EXCEPT !.is = "unreadable"]
      IN  u.is = "unreadable" /\ u.tabs = disk[Session].tabs
  BY <1>1, EntryFacts
<1> QED BY <1>2 DEF Startup

LEMMA RecoverStep ==
  ASSUME TypeInv, Startup, Shelved, [Next]_vars, NEW t \in Recoverable'
  PROVE  t \in Recoverable \/ (t \in tabs' /\ t \notin used)
<1>1. Restored => reads[Session].raw.tabs \subseteq InRecord
  <2> SUFFICES ASSUME Restored PROVE reads[Session].raw.tabs \subseteq InRecord
    OBVIOUS
  <2>1. reads[Session].raw.tabs = disk[Session].tabs
    BY FoundOnDisk DEF Restored, Restoring, Answered
  <2>2. disk[Session].tabs \subseteq Tabs
    BY ScopeFacts DEF TypeInv, WriterTypes, Entry
  <2> QED BY <2>1, <2>2 DEF InRecord
<1>2. CASE t \in tabs' \union closed'
  BY <1>1, <1>2, TabsStep DEF Recoverable
<1>3. CASE t \in InRecord'
  <2>1. t \in InRecord \/ t \in tabs'
    BY <1>3, RecordStep
  <2> QED BY <1>2, <2>1 DEF Recoverable
<1>4. CASE t \in (disk'[Archive]).tabs
  BY <1>4, ArchiveStays DEF Recoverable
<1> QED BY <1>2, <1>3, <1>4 DEF Recoverable

LEMMA FreshStep ==
  ASSUME TypeInv, NEW t \in Tabs, t \notin used, Fresh(t), [Next]_vars PROVE Fresh(t)'
<1> USE DEF Fresh
<1>0. t \in Scopes /\ disk[t].is = "missing"
  BY ScopeFacts DEF Gone
<1>1. CASE Movement
  <2>1. ~Touch(t) /\ t \notin Listed
    BY <1>0 DEF Touch, TypeInv, StoreTypes, Listed
  <2>2. Rests(t) \/ Moves(t)
    BY <1>1, <2>1 DEF Movement, TabMove
  <2> QED BY <2>2 DEF Rests, Moves
<1>2. ASSUME NEW a \in Scopes, Lands(a) \/ Fails(a) PROVE Fresh(t)'
  <2>1. a # t
    BY <1>2 DEF Lands, Fails
  <2> QED BY <1>0, <1>2, <2>1, AnswerWrites DEF TypeInv, Rests
<1>3. CASE Emptied
  BY <1>0, <1>3 DEF Emptied
<1>4. CASE StartApp
  BY <1>4 DEF StartApp, carrier
<1> QED BY <1>1, <1>2, <1>3, <1>4, Movements

LEMMA GivenOutStep ==
  ASSUME TypeInv, Startup, Shelved, GivenOut, [Next]_vars PROVE GivenOut'
<1>1. tabs' \subseteq used'
  BY StoreTypesStep DEF StoreTypes
<1>2. (Recoverable \subseteq used)'
  BY <1>1, Growing, RecoverStep DEF GivenOut
<1>3. \A t \in Tabs \ used' : Fresh(t)'
  BY Growing, FreshStep DEF GivenOut
<1> QED BY <1>2, <1>3 DEF GivenOut

LEMMA GivenOutInit == Init => GivenOut
<1> SUFFICES ASSUME Init PROVE GivenOut
  OBVIOUS
<1>1. PICK x \in FoundSession, y \in FoundArchive :
        disk = [s \in Scopes |->
                  IF s = Session THEN x ELSE IF s = Archive THEN y
                  ELSE IF s \in Open0 \union Shelved0 THEN Value(0, {}) ELSE Gone(0)]
  BY DEF Init
<1>2. /\ disk[Session] = x /\ disk[Archive] = y
      /\ \A t \in Tabs \ (Open0 \union Shelved0) : disk[t] = Gone(0)
  BY <1>1, ScopeFacts
<1>3. x.tabs \subseteq Open0 /\ y.tabs \subseteq Shelved0
  BY DEF FoundSession, FoundArchive, Value, Gone
<1>4. /\ tabs = {} /\ closed = {} /\ used = Open0 \union Shelved0 /\ latest = disk
      /\ \A s \in Scopes : pending[s] = Nothing /\ chain[s] = <<>> /\ Len(chain[s]) = 0
  BY EmptySeq DEF Init
<1>5. InRecord \subseteq Open0
  BY <1>2, <1>3, <1>4, ScopeFacts DEF InRecord
<1>6. \A t \in Tabs \ used : Fresh(t)
  BY <1>2, <1>4, ScopeFacts DEF Fresh
<1> QED BY <1>2, <1>3, <1>4, <1>5, <1>6 DEF GivenOut, Recoverable

-----------------------------------------------------------------------------
(* The sweep takes every tab that can be got at as live.                   *)

SweepSpares ==
  /\ sweep.phase # "idle" =>
       boot = "up" /\ tabs \union closed \union InRecord \subseteq sweep.live \union raced
  /\ sweep.phase = "listing" => disk[Archive].tabs \subseteq sweep.live

\* Recovery is over and the sweep has the tabs there are.
LEMMA SweepBegins ==
  ASSUME TypeInv, ~EarlyUi, Startup, Bare, [Next]_vars,
         Restored \/ \E t \in Tabs : FirstLaunch(t) \/ Replaced(t)
  PROVE  SweepSpares'
<1>1. closed' = {} /\ boot' = "up" /\ sweep' = [phase |-> "archive", live |-> tabs']
  BY DEF Restored, FirstLaunch, Replaced, Restoring, Initialize, BeginSweep, Startup, Early
<1>2. InRecord \subseteq tabs'
  <2>1. pending[Session] = Nothing /\ chain[Session] = <<>> /\ Len(chain[Session]) = 0
    BY EmptySeq DEF Restored, FirstLaunch, Replaced, Restoring, Startup, Early
  <2>2. InRecord = disk[Session].tabs \intersect Tabs
    BY <2>1 DEF InRecord
  <2>3. CASE Restored
    <3>1. tabs' = reads[Session].raw.tabs /\ reads[Session].raw.tabs = disk[Session].tabs
      BY <2>3, FoundOnDisk DEF Restored, Restoring, Answered
    <3> QED BY <2>2, <3>1
  <2>4. ASSUME NEW t \in Tabs, FirstLaunch(t) PROVE disk[Session].is # "value"
    BY <2>4, FoundOnDisk DEF FirstLaunch, Restoring, Answered
  <2>5. ASSUME NEW t \in Tabs, Replaced(t) PROVE disk[Session].is # "value"
    BY <2>1, <2>5 DEF Replaced, Startup
  <2> QED BY <2>2, <2>3, <2>4, <2>5 DEF Bare
<1>3. InRecord' \subseteq tabs'
  BY <1>2, RecordStep
<1> QED BY <1>1, <1>3 DEF SweepSpares

LEMMA SweepArchives ==
  ASSUME TypeInv, Shelved, Archive \notin FlakyReads, SweepSpares, [Next]_vars, SweepArchive
  PROVE  SweepSpares'
<1> DEFINE raw == reads[Archive].raw
<1>1. /\ sweep.phase = "archive" /\ UNCHANGED <<disk, pending, chain, boot, tabs, closed, raced>>
      /\ raw = disk[Archive] /\ raw.is \in {"value", "odd"}
  BY DEF SweepArchive, store, ghosts, Answered, Shelved, FoundArchive, Value
<1>2. sweep' = NoSweep \/ sweep' = [phase |-> "listing", live |-> sweep.live \union raw.tabs]
  BY <1>1 DEF SweepArchive
<1>3. InRecord' = InRecord
  BY <1>1 DEF InRecord
<1> QED BY <1>1, <1>2, <1>3 DEF SweepSpares, NoSweep

\* While a sweep is under way tabs are opened, closed and reopened.
LEMMA SweepGoesOn ==
  ASSUME TypeInv, SweepSpares, Shelved, [Next]_vars, boot' = boot,
         sweep' = sweep \/ sweep' = NoSweep,
         \A t \in tabs' : t \notin used => sweep.phase = "idle" \/ t \in raced'
  PROVE  SweepSpares'
<1>0. ~Restored
  BY DEF Restored, Restoring
<1>1. CASE sweep' = NoSweep
  BY <1>1 DEF SweepSpares, NoSweep
<1>2. CASE sweep' = sweep /\ sweep.phase # "idle"
  <2>1. \A t \in tabs' \union closed' : t \in sweep.live \union raced'
    BY <1>0, <1>2, TabsStep, Growing DEF SweepSpares
  <2>2. \A t \in InRecord' : t \in sweep.live \union raced'
    BY <1>2, <2>1, RecordStep, Growing DEF SweepSpares
  <2>3. sweep.phase = "listing" => disk'[Archive].tabs \subseteq sweep.live
    BY ArchiveStays DEF SweepSpares
  <2> QED BY <1>2, <2>1, <2>2, <2>3 DEF SweepSpares
<1> QED BY <1>1, <1>2 DEF SweepSpares

LEMMA SweepStep ==
  ASSUME TypeInv, Empty, ~EarlyUi, Startup, Bare, Shelved, Archive \notin FlakyReads, SweepSpares,
         [Next]_vars
  PROVE  SweepSpares'
<1> DEFINE Spared ==
      /\ sweep' = sweep \/ sweep' = NoSweep
      /\ \A t \in tabs' : t \notin used => sweep.phase = "idle" \/ t \in raced'
<1>0. \A t \in tabs : t \in used
  BY DEF TypeInv, StoreTypes
<1>1. ASSUME NEW t \in Tabs, OpenTab(t) \/ CloseTab(t) \/ ReopenTab(t) \/ Touch(t)
      PROVE  boot' = boot /\ Spared
  BY <1>0, <1>1 DEF OpenTab, CloseTab, ReopenTab, Touch, store, TypeInv, StoreTypes
<1>2. FlushStep \/ SweepDeletes => boot' = boot /\ Spared
  BY <1>0 DEF FlushStep, FlushAll, CloseWindow, TimerFires, SweepDeletes, store
<1>3. CASE StartRecovery \/ Unusable \/ Decline \/ Replace
  <2>1. sweep' = sweep /\ boot # "up"
    BY <1>3 DEF StartRecovery, Unusable, Restoring, Decline, Replace
  <2> QED BY <2>1 DEF SweepSpares
<1>4. ASSUME NEW t \in Tabs, Mount(t) \/ ViewLoaded(t) PROVE boot' = boot /\ Spared
  BY <1>0, <1>4 DEF Mount, ViewLoaded, store
<1>5. ASSUME NEW s \in Scopes, Read(s) PROVE boot' = boot /\ Spared
  BY <1>0, <1>5 DEF Read, store
<1>6. ASSUME NEW s \in Scopes, Lands(s) \/ Fails(s)
      PROVE  Spared /\ (boot = "replacing" \/ boot' = boot)
  BY <1>0, <1>6 DEF Lands, Fails, store
<1>7. EndStep => sweep' = NoSweep
  BY DEF EndStep, FlushDone, Dies, Exit
<1>8. CASE StartApp
  <2>1. sweep' = sweep /\ sweep.phase = "idle"
    BY <1>8 DEF StartApp, Empty, NoSweep
  <2> QED BY <2>1 DEF SweepSpares
<1>9. UNCHANGED vars => boot' = boot /\ Spared
  BY <1>0 DEF vars, store, ghosts
<1>10. ASSUME boot' = boot, Spared PROVE SweepSpares'
  BY <1>10, SweepGoesOn
<1>11. ASSUME sweep' = NoSweep PROVE SweepSpares'
  BY <1>11 DEF SweepSpares, NoSweep
<1>12. ASSUME boot = "replacing", Spared PROVE SweepSpares'
  BY <1>11, <1>12 DEF SweepSpares
<1> HIDE DEF Spared
<1>13. ASSUME NEW t \in Tabs, SaveStep(t) PROVE SweepSpares'
  BY <1>1, <1>10, <1>13, SweepBegins DEF SaveStep
<1>14. CASE StillStep
  BY <1>3, <1>4, <1>5, <1>10, <1>14, SweepBegins, SweepArchives DEF StillStep
<1>15. ASSUME NEW s \in Scopes, Lands(s) \/ Fails(s) PROVE SweepSpares'
  BY <1>6, <1>10, <1>12, <1>15
<1> QED
  BY <1>2, <1>3, <1>7, <1>8, <1>9, <1>10, <1>11, <1>13, <1>14, <1>15, Steps DEF DeleteStep

-----------------------------------------------------------------------------
(* No state of a tab that can be got at is deleted, on disk, on its way    *)
(* there or in what was asked for.                                         *)

Deleted(e) == e.is = "missing" /\ e.at > 0

Kept(t) ==
  /\ ~Deleted(disk[t]) /\ ~Deleted(latest[t])
  /\ \A i \in 1 .. Len(chain[t]) : ~Deleted(chain[t][i])

StateKept == \A t \in Tabs : t \in Recoverable \ raced => Kept(t)

LEMMA KeptStep ==
  ASSUME TypeInv, Lines, NEW t \in Tabs, Kept(t), [Next]_vars,
         ~(SweepDeletes /\ t \in Listed \ sweep.live)
  PROVE  Kept(t)'
<1> USE DEF Deleted
<1>0. t \in Scopes /\ WriterTypes /\ Sound(t)
  BY ScopeFacts DEF TypeInv, Lines
<1>1. CASE Movement
  <2>1. Rests(t) \/ Moves(t) \/ Saves(t)
    BY <1>1 DEF Movement, TabMove
  <2>2. disk'[t] = disk[t] /\ ~Deleted(latest'[t])
    BY <2>1 DEF Rests, Moves, Saves, Kept
  <2>3. CASE Rests(t) \/ Saves(t)
    BY <2>2, <2>3 DEF Rests, Saves, Kept
  <2>4. CASE Moves(t) /\ ~Rests(t)
    <3>1. Writes(t) /\ (pending[t] # Nothing => pending[t].is = "value")
      BY <1>0, <2>4 DEF Writes, Sound
    <3>2. ~Deletes(t) \/ chain'[t] = chain[t]
      <4>1. CASE pending[t] = Nothing
        BY <2>4, <4>1 DEF Moves
      <4>2. CASE pending[t] # Nothing
        <5> SUFFICES ASSUME Deletes(t) PROVE FALSE
          OBVIOUS
        <5>1. chain[t] \in Seq(Entry) /\ pending[t] \in Entry /\ calls + 1 \in Nat
          BY <1>0, <4>2 DEF WriterTypes
        <5>2. Append(chain[t], Gone(calls + 1)) = Append(chain[t], pending[t])
          BY <2>4, <4>2 DEF Moves, Deletes
        <5>3. Gone(calls + 1) = pending[t]
          BY <5>1, <5>2, Grown, EntryFacts
        <5> QED BY <3>1, <4>2, <5>3 DEF Gone
      <4> QED BY <4>1, <4>2
    <3>3. \A i \in 1 .. Len(chain'[t]) : ~Deleted(chain'[t][i])
      BY <1>0, <3>1, <3>2, WriteOf DEF Kept
    <3> QED BY <2>2, <3>3 DEF Kept
  <2> QED BY <2>1, <2>3, <2>4
<1>2. ASSUME NEW a \in Scopes, Lands(a) \/ Fails(a) PROVE Kept(t)'
  <2>1. CASE a # t
    BY <1>0, <1>2, <2>1, AnswerWrites DEF Rests, Kept
  <2>2. CASE a = t
    <3>1. \A i \in 1 .. Len(chain'[t]) :
            chain'[t][i] = chain[t][i + 1] /\ i + 1 \in 1 .. Len(chain[t])
      BY <1>0, <1>2, <2>2, AnswerOf
    <3>2. /\ 1 \in 1 .. Len(chain[t]) /\ disk'[t] \in {disk[t], chain[t][1]}
          /\ latest'[t] = latest[t]
      BY <1>0, <1>2, <2>2, AnswerOf
    <3> QED BY <3>1, <3>2 DEF Kept
  <2> QED BY <2>1, <2>2
<1>3. CASE Emptied
  BY <1>0, <1>3 DEF Emptied, Kept
<1>4. CASE StartApp
  BY <1>4 DEF StartApp, carrier, Kept
<1> QED BY <1>1, <1>2, <1>3, <1>4, Movements

LEMMA StateKeptStep ==
  ASSUME TypeInv, Lines, Startup, Shelved, GivenOut, SweepSpares, StateKept, [Next]_vars
  PROVE  StateKept'
<1> SUFFICES ASSUME NEW t \in Tabs, t \in Recoverable', t \notin raced' PROVE Kept(t)'
  BY DEF StateKept
<1>1. t \notin raced /\ (t \in Recoverable \/ (t \in tabs' /\ t \notin used))
  BY Growing, RecoverStep
<1>2. Kept(t)
  <2>1. CASE t \in Recoverable
    BY <1>1, <2>1 DEF StateKept
  <2>2. CASE t \notin used
    <3>1. disk[t].is = "missing" /\ disk[t].at = 0 /\ latest[t] = disk[t] /\ Len(chain[t]) = 0
      BY <2>2, EmptySeq DEF GivenOut, Fresh, Gone
    <3> QED BY <3>1 DEF Kept, Deleted
  <2> QED BY <1>1, <2>1, <2>2
<1>3. ~(SweepDeletes /\ t \in Listed \ sweep.live)
  <2> SUFFICES ASSUME SweepDeletes PROVE t \in sweep.live
    OBVIOUS
  <2>1. sweep.phase = "listing" /\ tabs' = tabs
    BY DEF SweepDeletes, store
  <2>2. t \in Recoverable
    BY <1>1, <2>1 DEF TypeInv, StoreTypes
  <2> QED BY <1>1, <2>1, <2>2 DEF SweepSpares, Recoverable
<1> QED BY <1>2, <1>3, KeptStep

LEMMA StateKeptInit == Init => StateKept
<1> SUFFICES ASSUME Init, NEW t \in Tabs PROVE Kept(t)
  BY DEF StateKept
<1>1. PICK x \in FoundSession, y \in FoundArchive :
        disk = [s \in Scopes |->
                  IF s = Session THEN x ELSE IF s = Archive THEN y
                  ELSE IF s \in Open0 \union Shelved0 THEN Value(0, {}) ELSE Gone(0)]
  BY DEF Init
<1>2. disk[t] \in {Value(0, {}), Gone(0)}
  BY <1>1, ScopeFacts
<1>3. disk[t].at = 0 /\ latest = disk /\ Len(chain[t]) = 0
  BY <1>2, ScopeFacts, EmptySeq DEF Init, Value, Gone
<1> QED BY <1>3 DEF Kept, Deleted

-----------------------------------------------------------------------------
(* The application as a whole, when the user acts once recovery is over.   *)

AppInv ==
  WriterInv /\ Whole /\ Startup /\ GivenOut
  /\ (Archive \notin FlakyReads => SweepSpares /\ StateKept)

LEMMA AppInvariant == ~EarlyUi => (Spec => []AppInv)
<1> SUFFICES ASSUME ~EarlyUi PROVE Spec => []AppInv
  OBVIOUS
<1>1. Init => AppInv
  <2> SUFFICES ASSUME Init PROVE AppInv
    OBVIOUS
  <2>1. WriterInv
    <3>1. Empty
      BY DEF Init, Empty
    <3> QED BY <3>1, TypeInit, LinesInit, WaitingInit DEF WriterInv
  <2>2. SweepSpares
    BY DEF Init, NoSweep, SweepSpares
  <2> QED BY <2>1, <2>2, WholeInit, StartupInit, GivenOutInit, StateKeptInit DEF AppInv
<1>2. AppInv /\ [Next]_vars => AppInv'
  <2> SUFFICES ASSUME AppInv, [Next]_vars PROVE AppInv'
    OBVIOUS
  <2>1. WriterInv' /\ Whole' /\ Startup' /\ GivenOut'
    BY TypeStep, EmptyStep, LinesStep, WaitingStep, WholeStep, StartupStep, GivenOutStep
       DEF AppInv, WriterInv, Whole
  <2>2. ASSUME Archive \notin FlakyReads PROVE SweepSpares' /\ StateKept'
    BY <2>2, SweepStep, StateKeptStep DEF AppInv, WriterInv, Whole
  <2> QED BY <2>1, <2>2 DEF AppInv
<1> QED BY <1>1, <1>2, PTL DEF Spec

\* The types of the window's state, that a tab is not open and closed at once,
\* which holds when the user acts once boot (App.tsx) has ended recovery, and
\* that a scope whose debounce runs has a payload (pending, persist.ts).
THEOREM TypeCorrect == ~EarlyUi => (Spec => []TypeOK)
<1>1. AppInv => TypeOK
  BY DEF AppInv, WriterInv, TypeInv, WriterTypes, StoreTypes, ReadTypes, SweepTypes, QuitTypes, Startup, TypeOK
<1> QED BY <1>1, AppInvariant, PTL

\* sweepOrphanTabState (store.ts) deletes the state of no tab that is
\* open, can be reopened or is archived, through restarts, failed and refused
\* sessions and first launches, when the user acts once recovery is over and the
\* archive can be read: loadState reads a failure as an empty archive.
THEOREM TabStatesKept ==
  ~EarlyUi /\ Archive \notin FlakyReads => (Spec => []TabStateKept)
<1> SUFFICES ASSUME ~EarlyUi, Archive \notin FlakyReads PROVE Spec => []TabStateKept
  OBVIOUS
<1>1. ASSUME AppInv, NEW t \in Reachable \ raced, latest[t].at > 0
      PROVE  latest[t].is = "value"
  <2>1. t \in Tabs /\ t \in Recoverable
    BY <1>1, ScopeFacts
       DEF Reachable, Recoverable, AppInv, WriterInv, TypeInv, StoreTypes, WriterTypes, Entry
  <2>2. Kept(t) /\ Plain(t)
    BY <1>1, <2>1 DEF AppInv, StateKept, Whole
  <2> QED BY <1>1, <2>2 DEF Kept, Deleted, Plain
<1>2. AppInv => TabStateKept
  BY <1>1 DEF TabStateKept
<1> QED BY <1>2, AppInvariant, PTL
=============================================================================
