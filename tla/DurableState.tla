---------------------------- MODULE DurableState ----------------------------
(***************************************************************************)
(* The application state of one desktop window: the debounced, per-scope   *)
(* writer of src/persist.ts over the state commands and the app.db store,  *)
(* and what is built on it: session recovery at startup, the sweep of the  *)
(* state of tabs that are gone, per-tab state, and quitting.               *)
(*                                                                         *)
(* JavaScript runs one turn at a time, so an action is the code between    *)
(* two awaits.  A carrier call is a step of its own and takes effect when  *)
(* it lands; calls of one scope are chained, reads are not.  A payload is  *)
(* the number of the call that saved it; the session's payload is also the *)
(* set of tabs it lists.                                                   *)
(***************************************************************************)
EXTENDS Integers, FiniteSets, Sequences

CONSTANTS
  Tabs,        \* tab ids; every tab has one scope, named by the tab
  Session,     \* the scope of the session record
  Archive,     \* the scope of the browser archive
  Open0,       \* the tabs of the session record found at the first start
  Shelved0,    \* the tabs of the archive found at the first start
  FlakyReads,  \* scopes a read of which may fail
  FlakyWrites, \* scopes a save or delete of which may fail
  EarlyUi,     \* whether the user may act before recovery is over
  MaxCalls,    \* how many saves and deletes user actions may ask for
  MaxBoots,    \* how many times the application starts
  Nothing      \* no buffered payload

ASSUME DurableAssumption ==
  /\ Open0 \subseteq Tabs /\ Shelved0 \subseteq Tabs
  /\ {Session, Archive} \intersect Tabs = {} /\ Session # Archive
  /\ EarlyUi \in BOOLEAN
  /\ MaxCalls \in Nat /\ MaxBoots \in Nat

Scopes == Tabs \union {Session, Archive}

\* What a scope holds, or a read of it returns: valid JSON the module can
\* decode, no row, text that is not JSON, JSON that does not decode, or a
\* failed read.  "at" is the call that wrote it.
Entry ==
  [at : Nat, tabs : SUBSET Tabs,
   is : {"value", "missing", "junk", "odd", "unreadable"}]
Value(n, ts) == [at |-> n, tabs |-> ts, is |-> "value"]
Gone(n) == [at |-> n, tabs |-> {}, is |-> "missing"]

ASSUME NothingAssumption == Nothing \notin Entry

VARIABLES
  disk,     \* app.db: state_scopes
  pending,  \* persist.ts: pending, one slot per scope
  timer,    \* persist.ts: timers
  chain,    \* persist.ts: chains, the carrier calls not yet answered
  blocked,  \* persist.ts: writeBlocked
  reads,    \* loadStateResult in progress, at most one per scope
  boot,     \* where startup is
  result,   \* store.ts: sessionRestoreResult
  tabs, closed,  \* store.ts: tabs, closedTabs
  loaded,   \* tabs whose view has its state (FilesView: restored)
  sweep,    \* sweepOrphanTabState in progress and the tabs it took as live
  quit,     \* the close request in progress
  used,     \* tab ids ever given out
  calls, boots,  \* bounds
  latest,   \* history: what each scope's callers asked for last
  spoilt,   \* history: scopes in which a failure overtook a later call
  raced,    \* history: tabs opened while a sweep was under way
  clean     \* history: the last exit came after its flush was over

carrier == <<disk, pending, timer, chain, blocked>>
store == <<boot, result, tabs, closed, loaded, used>>
ghosts == <<latest, spoilt, raced, clean>>
vars == <<carrier, reads, store, sweep, quit, calls, boots, ghosts>>

Reads ==
  [phase : {"none", "waiting", "read"}, ahead : Nat, raw : Entry, want : Nat]
Quits ==
  [phase : {"no", "flushing", "failed"}, ahead : [Scopes -> Nat],
   own : SUBSET Scopes, mark : [Scopes -> Nat]]
NoRead == [phase |-> "none", ahead |-> 0, raw |-> Gone(0), want |-> 0]
NoSweep == [phase |-> "idle", live |-> {}]
NoQuit == [phase |-> "no", ahead |-> [s \in Scopes |-> 0], own |-> {},
           mark |-> [s \in Scopes |-> 0]]

\* What the first start may find: a record, none, or a damaged one.
FoundSession == {Value(0, Open0), Gone(0), [Value(0, {}) EXCEPT !.is = "junk"]}
FoundArchive ==
  {Value(0, Shelved0), [Value(0, Shelved0) EXCEPT !.is = "odd"]}

Init ==
  /\ \E x \in FoundSession, y \in FoundArchive :
       disk = [s \in Scopes |->
                 IF s = Session THEN x ELSE IF s = Archive THEN y
                 ELSE IF s \in Open0 \union Shelved0 THEN Value(0, {})
                 ELSE Gone(0)]
  /\ pending = [s \in Scopes |-> Nothing] /\ timer = {}
  /\ chain = [s \in Scopes |-> <<>>] /\ blocked = {}
  /\ reads = [s \in Scopes |-> NoRead]
  /\ boot = "starting" /\ result = "null"
  /\ tabs = {} /\ closed = {} /\ loaded = {}
  /\ used = Open0 \union Shelved0
  /\ sweep = NoSweep /\ quit = NoQuit
  /\ calls = 0 /\ boots = 1
  /\ latest = disk /\ spoilt = {} /\ raced = {} /\ clean = FALSE

-----------------------------------------------------------------------------
(* persist.ts *)

\* saveState: a refused scope takes no write; otherwise the buffered payload is
\* replaced and the debounce starts again.
SaveState(s, ts) ==
  IF s \in blocked
  THEN UNCHANGED <<pending, timer, latest, calls>>
  ELSE /\ pending' = [pending EXCEPT ![s] = Value(calls + 1, ts)]
       /\ latest' = [latest EXCEPT ![s] = Value(calls + 1, ts)]
       /\ timer' = timer \union {s}
       /\ calls' = calls + 1

\* deleteState of every scope in S: the buffered save is cancelled and the
\* delete queues behind the calls in flight.
DeleteStates(S) ==
  /\ timer' = timer \ S
  /\ pending' = [s \in Scopes |-> IF s \in S THEN Nothing ELSE pending[s]]
  /\ chain' = [s \in Scopes |-> IF s \in S
                                THEN Append(chain[s], Gone(calls + 1))
                                ELSE chain[s]]
  /\ latest' = [s \in Scopes |-> IF s \in S THEN Gone(calls + 1)
                                 ELSE latest[s]]
  /\ calls' = IF S = {} THEN calls ELSE calls + 1

FlushUnchained(S) ==
  /\ timer' = timer \ S
  /\ pending' = [s \in Scopes |-> IF s \in S THEN Nothing ELSE pending[s]]
  /\ chain' = [s \in Scopes |-> IF s \in S /\ pending[s] # Nothing
                                THEN <<pending[s]>> \o chain[s] ELSE chain[s]]

\* flushScope of every scope in S: the payload moves to the end of the chain.
FlushScopes(S) ==
  /\ timer' = timer \ S
  /\ pending' = [s \in Scopes |-> IF s \in S THEN Nothing ELSE pending[s]]
  /\ chain' = [s \in Scopes |-> IF s \in S /\ pending[s] # Nothing
                                THEN Append(chain[s], pending[s]) ELSE chain[s]]

TimerFires(s) ==
  /\ s \in timer
  /\ FlushScopes({s})
  /\ UNCHANGED <<disk, blocked, reads, store, sweep, quit, calls, boots,
                 ghosts>>

\* flushOnExit of a terminal view: a close request that is then cancelled.
FlushAll ==
  /\ quit.phase = "no" /\ boot \in {"up", "preserved"}
  /\ \E s \in Scopes : pending[s] # Nothing
  /\ FlushScopes(Scopes)
  /\ UNCHANGED <<disk, blocked, reads, store, sweep, quit, calls, boots,
                 ghosts>>

\* A call of s was answered: who waits for the tail of its chain is closer.
Less(n) == IF n > 0 THEN n - 1 ELSE 0

\* The carrier call at the head of the chain succeeds.
Lands(s) ==
  /\ chain[s] # <<>>
  /\ disk' = [disk EXCEPT ![s] = Head(chain[s])]
  /\ chain' = [chain EXCEPT ![s] = Tail(@)]
  /\ blocked' = IF Head(chain[s]).is = "missing" THEN blocked \ {s} ELSE blocked
  /\ reads' = [reads EXCEPT ![s].ahead = Less(@)]
  /\ quit' = [quit EXCEPT !.ahead[s] = Less(@)]
  /\ UNCHANGED <<pending, timer, store, sweep, calls, boots, ghosts>>

\* The catch of flushScope: the payload is kept unless a newer one is buffered.
Retry(s) ==
  pending' = IF Head(chain[s]).is = "value" /\ pending[s] = Nothing
             THEN [pending EXCEPT ![s] = Head(chain[s])] ELSE pending

\* Whether the failure of the head of the chain leaves the scope behind what
\* its callers asked for with nothing left to put it right: a delete is not
\* tried again, and a save kept for a retry while a later call is queued will
\* be written after that call.
Overtakes(s) ==
  \/ Head(chain[s]).is = "missing"
  \/ Len(chain[s]) > 1 /\ pending[s] = Nothing

\* The carrier call at the head of the chain fails.  deleteStateNow rethrows,
\* which ends recovery; the flush of a quit that made the call is rejected,
\* while a call made before it fails unnoticed.  A read or a quit that awaited
\* the call is promised nothing of it.
Fails(s) ==
  /\ s \in FlakyWrites /\ chain[s] # <<>>
  /\ chain' = [chain EXCEPT ![s] = Tail(@)]
  /\ Retry(s)
  /\ reads' = [reads EXCEPT ![s].ahead = Less(@), ![s].want = 0]
  /\ spoilt' = IF Overtakes(s) THEN spoilt \union {s} ELSE spoilt
  /\ boot' = IF s = Session /\ boot = "replacing" THEN "preserved" ELSE boot
  /\ quit' = [quit EXCEPT
       !.ahead[s] = Less(@), !.mark[s] = 0,
       !.phase = IF @ = "flushing" /\ s \in quit.own /\ quit.ahead[s] = 1
                 THEN "failed" ELSE @]
  /\ UNCHANGED <<disk, timer, blocked, result, tabs, closed, loaded, used,
                 sweep, calls, boots, latest, raced, clean>>

-----------------------------------------------------------------------------
(* loadStateResult *)

LoadUnchained(s) ==
  IF pending[s] # Nothing
  THEN [phase |-> "read", ahead |-> 0, raw |-> pending[s], want |-> latest[s].at]
  ELSE [phase |-> "waiting", ahead |-> 0, raw |-> Gone(0), want |-> latest[s].at]

\* A buffered payload is fresher than the disk; else the calls in flight are
\* awaited before the carrier is asked.
Load(s) ==
  IF pending[s] # Nothing
  THEN [phase |-> "read", ahead |-> 0, raw |-> pending[s], want |-> latest[s].at]
  ELSE [phase |-> "waiting", ahead |-> Len(chain[s]), raw |-> Gone(0),
        want |-> latest[s].at]

\* The carrier answers the read, or refuses it.
Read(s) ==
  /\ reads[s].phase = "waiting" /\ reads[s].ahead = 0
  /\ \/ reads' = [reads EXCEPT ![s].phase = "read", ![s].raw = disk[s]]
     \/ /\ s \in FlakyReads
        /\ reads' = [reads EXCEPT ![s].phase = "read",
                                  ![s].raw = [disk[s] EXCEPT !.is = "unreadable"]]
  /\ UNCHANGED <<carrier, store, sweep, quit, calls, boots, ghosts>>

\* A session without tabs does not decode (restoreSession).
Good(s) ==
  \/ reads[s].raw.is = "missing"
  \/ reads[s].raw.is = "value" /\ (s = Session => reads[s].raw.tabs # {})

\* The answer reaches its caller, which refuses writes to what does not decode.
Answered(s) ==
  /\ reads[s].phase = "read"
  /\ blocked' = IF Good(s) THEN blocked \ {s} ELSE blocked \union {s}

Remembered(t) == {t}

\* A view that is gone when its state arrives drops it.
Alive(t) == {t} \intersect tabs

\* The view of a tab has its state, or starts empty.
ViewLoaded(t) ==
  /\ Answered(t)
  /\ reads' = [reads EXCEPT ![t] = NoRead]
  /\ loaded' = loaded \union Alive(t)
  /\ UNCHANGED <<disk, pending, timer, chain, boot, result, tabs, closed, used,
                 sweep, quit, calls, boots, ghosts>>

-----------------------------------------------------------------------------
(* Startup: boot in App.tsx and recoverOrInitializeSession. *)

\* persist in store.ts: a session that could not be restored is left alone.
Persist(ts) ==
  IF result' \in {"null", "restored", "missing"}
  THEN SaveState(Session, ts)
  ELSE UNCHANGED <<pending, timer, latest, calls>>

\* sweepOrphanTabState takes the open tabs as live and asks for the archive.
BeginSweep(live) == sweep' = [phase |-> "archive", live |-> live]

\* After the configuration is read.  The tabs boot looks at are those of the
\* state it took before, when there were none.
StartRecovery ==
  /\ boot = "starting"
  /\ boot' = "restoring"
  /\ reads' = [reads EXCEPT ![Session] = Load(Session)]
  /\ UNCHANGED <<carrier, result, tabs, closed, loaded, used, sweep, quit, calls,
                 boots, ghosts>>

Restoring == boot = "restoring" /\ Answered(Session)

Restored ==
  /\ Restoring /\ Good(Session) /\ reads[Session].raw.is = "value"
  /\ boot' = "up" /\ result' = "restored"
  /\ tabs' = reads[Session].raw.tabs
  /\ used' = used \union tabs'
  /\ loaded' = loaded \intersect tabs'
  /\ BeginSweep(tabs')
  /\ reads' = [reads EXCEPT ![Session] = NoRead, ![Archive] = Load(Archive)]
  /\ UNCHANGED <<disk, pending, timer, chain, closed, quit, calls, boots,
                 ghosts>>

\* initialize: a first terminal tab is opened and the session saved.
Initialize(t) ==
  /\ t \notin used
  /\ boot' = "up" /\ result' = "missing"
  /\ tabs' = tabs \union {t} /\ used' = used \union {t}
  /\ Persist(tabs')
  /\ BeginSweep(tabs')
  /\ UNCHANGED <<closed, loaded, quit, boots, spoilt, raced, clean>>

FirstLaunch(t) ==
  /\ Restoring /\ reads[Session].raw.is = "missing"
  /\ Initialize(t)
  /\ reads' = [reads EXCEPT ![Session] = NoRead, ![Archive] = Load(Archive)]
  /\ UNCHANGED <<disk, chain>>

\* A session that is there and cannot be used: its owner is asked.
Unusable ==
  /\ Restoring /\ ~Good(Session)
  /\ boot' = "asking" /\ result' = "failed"
  /\ reads' = [reads EXCEPT ![Session] = NoRead]
  /\ UNCHANGED <<disk, pending, timer, chain, tabs, closed, loaded, used, sweep,
                 quit, calls, boots, ghosts>>

DeclineSweeps ==
  /\ boot = "asking"
  /\ boot' = "preserved"
  /\ BeginSweep(tabs)
  /\ reads' = [reads EXCEPT ![Archive] = Load(Archive)]
  /\ UNCHANGED <<carrier, result, tabs, closed, loaded, used, quit, calls,
                 boots, ghosts>>

\* A preserved session has no tab list to sweep by.
Decline ==
  /\ boot = "asking"
  /\ boot' = "preserved"
  /\ UNCHANGED <<carrier, reads, result, tabs, closed, loaded, used, sweep, quit,
                 calls, boots, ghosts>>

\* deleteStateNow(session), awaited.
Replace ==
  /\ boot = "asking"
  /\ boot' = "replacing"
  /\ DeleteStates({Session})
  /\ UNCHANGED <<disk, blocked, reads, result, tabs, closed, loaded, used, sweep,
                 quit, boots, spoilt, raced, clean>>

Replaced(t) ==
  /\ boot = "replacing" /\ chain[Session] = <<>>
  /\ Initialize(t)
  /\ reads' = [reads EXCEPT ![Archive] = Load(Archive)]
  /\ UNCHANGED <<disk, chain, blocked>>

\* The archive's tabs are live too.  loadState turns every failure into null,
\* which reads as an empty archive; only a record that does not decode stops
\* the sweep.
SweepArchive ==
  /\ sweep.phase = "archive" /\ Answered(Archive)
  /\ sweep' = CASE reads[Archive].raw.is = "odd" -> NoSweep
                [] reads[Archive].raw.is = "value" ->
                     [phase |-> "listing",
                      live |-> sweep.live \union reads[Archive].raw.tabs]
                [] OTHER -> [sweep EXCEPT !.phase = "listing"]
  /\ reads' = [reads EXCEPT ![Archive] = NoRead]
  /\ UNCHANGED <<disk, pending, timer, chain, store, quit, calls, boots, ghosts>>

\* listScopes: what is stored and what is buffered.
Listed == {t \in Tabs : disk[t].is # "missing" \/ pending[t] # Nothing}

SweepDeletes ==
  /\ sweep.phase = "listing"
  /\ DeleteStates(Listed \ sweep.live)
  /\ sweep' = NoSweep
  /\ UNCHANGED <<disk, blocked, reads, store, quit, boots, spoilt, raced, clean>>

-----------------------------------------------------------------------------
(* The user. *)

MayAct ==
  /\ boot \in {"up", "preserved"} \/ (EarlyUi /\ boot # "off")
  /\ calls < MaxCalls

OpenTab(t) ==
  /\ MayAct /\ t \notin used
  /\ tabs' = tabs \union {t} /\ used' = used \union {t}
  /\ UNCHANGED result /\ Persist(tabs')
  /\ raced' = IF sweep.phase # "idle" THEN raced \union {t} ELSE raced
  /\ UNCHANGED <<disk, chain, blocked, reads, boot, closed, loaded, sweep, quit,
                 boots, spoilt, clean>>

\* closeTab: the state of the tab stays, so that it can be reopened.
CloseTab(t) ==
  /\ MayAct /\ t \in tabs
  /\ tabs' = tabs \ {t} /\ closed' = closed \union {t}
  /\ loaded' = loaded \ {t}
  /\ UNCHANGED result /\ Persist(tabs')
  /\ UNCHANGED <<disk, chain, blocked, reads, boot, used, sweep, quit, boots,
                 spoilt, raced, clean>>

ReopenTab(t) ==
  /\ MayAct /\ t \in closed
  /\ tabs' = tabs \union {t} /\ closed' = closed \ {t}
  /\ UNCHANGED result /\ Persist(tabs')
  /\ UNCHANGED <<disk, chain, blocked, reads, boot, loaded, used, sweep, quit,
                 boots, spoilt, raced, clean>>

\* The view of a tab mounts and loads its state.
Mount(t) ==
  /\ boot # "off" /\ t \in tabs \ loaded /\ reads[t].phase = "none"
  /\ reads' = [reads EXCEPT ![t] = Load(t)]
  /\ UNCHANGED <<carrier, store, sweep, quit, calls, boots, ghosts>>

\* A view that has its state saves a change of it.
Touch(t) ==
  /\ MayAct /\ t \in loaded
  /\ SaveState(t, {})
  /\ UNCHANGED <<disk, chain, blocked, reads, store, sweep, quit, boots, spoilt,
                 raced, clean>>

\* onCloseRequested once the terminals are settled: flushAll.
CloseWindow ==
  /\ quit.phase = "no" /\ boot \in {"up", "preserved"}
  /\ FlushScopes(Scopes)
  /\ quit' = [phase |-> "flushing",
              ahead |-> [s \in Scopes |-> Len(chain'[s])],
              own |-> {s \in Scopes : pending[s] # Nothing},
              mark |-> [s \in Scopes |-> latest[s].at]]
  /\ UNCHANGED <<disk, blocked, reads, store, sweep, calls, boots, ghosts>>

\* What is in memory is lost.
Exit(c) ==
  /\ boot' = "off" /\ result' = "null" /\ clean' = c
  /\ pending' = [s \in Scopes |-> Nothing] /\ timer' = {}
  /\ chain' = [s \in Scopes |-> <<>>] /\ blocked' = {}
  /\ reads' = [s \in Scopes |-> NoRead]
  /\ tabs' = {} /\ closed' = {} /\ loaded' = {}
  /\ sweep' = NoSweep /\ quit' = [NoQuit EXCEPT !.mark = quit.mark]
  /\ UNCHANGED <<disk, used, calls, boots, latest, spoilt, raced>>

FlushedEarly == quit.phase = "flushing"

\* Every call the flush awaits was answered.
Flushed == quit.phase = "flushing" /\ \A s \in Scopes : quit.ahead[s] = 0

FlushDone == Flushed /\ Exit(TRUE)

\* A crash; the 1.5 s a quit waits at most; a second close request, which a
\* rejected flush leaves to pass through.
Dies == boot # "off" /\ Exit(FALSE)

StartApp ==
  /\ boot = "off" /\ boots < MaxBoots
  /\ boot' = "starting" /\ boots' = boots + 1
  /\ quit' = NoQuit
  /\ latest' = disk /\ spoilt' = {} /\ clean' = FALSE
  /\ UNCHANGED <<carrier, reads, result, tabs, closed, loaded, used, sweep,
                 calls, raced>>

Next ==
  \/ FlushAll \/ StartRecovery \/ Restored \/ Unusable \/ Decline \/ Replace
  \/ SweepArchive \/ SweepDeletes \/ CloseWindow \/ FlushDone \/ Dies \/ StartApp
  \/ \E s \in Scopes : TimerFires(s) \/ Lands(s) \/ Fails(s) \/ Read(s)
  \/ \E t \in Tabs : \/ FirstLaunch(t) \/ Replaced(t) \/ OpenTab(t)
                      \/ CloseTab(t) \/ ReopenTab(t) \/ Mount(t) \/ Touch(t)
                      \/ ViewLoaded(t)

Spec == Init /\ [][Next]_vars

-----------------------------------------------------------------------------
(* Properties. *)

TypeOK ==
  /\ disk \in [Scopes -> Entry] /\ latest \in [Scopes -> Entry]
  /\ pending \in [Scopes -> Entry \union {Nothing}] /\ chain \in [Scopes -> Seq(Entry)]
  /\ timer \subseteq Scopes /\ blocked \subseteq Scopes /\ spoilt \subseteq Scopes
  /\ reads \in [Scopes -> Reads] /\ calls \in Nat /\ boots \in Nat /\ clean \in BOOLEAN
  /\ boot \in {"off", "starting", "restoring", "asking", "replacing", "up",
               "preserved"}
  /\ result \in {"null", "restored", "missing", "failed"}
  /\ tabs \subseteq used /\ closed \subseteq used /\ tabs \intersect closed = {}
  /\ loaded \subseteq tabs /\ used \subseteq Tabs /\ raced \subseteq used
  /\ sweep \in [phase : {"idle", "archive", "listing"}, live : SUBSET Tabs]
  /\ quit \in Quits
  /\ \A s \in timer : pending[s] # Nothing

\* persist.ts, "keeps them in call order": when nothing of a scope is buffered
\* or in flight, the disk holds what the last saveState or deleteState asked
\* for, through debounces, retries and failures, unless a failure was overtaken.
NewestKept ==
  \A s \in Scopes :
    boot # "off" /\ pending[s] = Nothing /\ chain[s] = <<>> /\ s \notin spoilt
      => disk[s] = latest[s]

\* loadStateResult returns nothing older than what was saved or deleted when it
\* was called, wherever that save is: buffered, in flight or on disk.
LoadIsFresh ==
  \A s \in Scopes :
    reads[s].phase = "read" /\ s \notin spoilt => reads[s].raw.at >= reads[s].want

\* persist.test.ts: "flushed" has to mean "on disk".  A window destroyed after
\* its flush leaves on disk everything saved before the close request.
CleanQuitKeeps ==
  boot = "off" /\ clean =>
    \A s \in Scopes \ spoilt : disk[s].at >= quit.mark[s]

\* The tabs a user can still get at: open, closed and reopenable, or archived.
Reachable ==
  tabs \union closed
    \union (IF disk[Archive].is = "value" THEN disk[Archive].tabs ELSE {})

\* The sweep of orphaned scopes deletes the state of no tab that can still be
\* reached, whatever startup found; a tab opened while it runs is excepted.
TabStateKept ==
  \A t \in Reachable \ raced : latest[t].at > 0 => latest[t].is = "value"

-----------------------------------------------------------------------------
(* What comments say and the code does not do. *)

\* persist.ts, flushScope: "that newer buffered value already wins".
NewestWins ==
  \A s \in Scopes :
    boot # "off" /\ pending[s] = Nothing /\ chain[s] = <<>>
      /\ latest[s].is = "value"
      => disk[s].at >= latest[s].at

\* sessionRecovery.ts: "The single startup gate allowed to create a default
\* session"; a session on disk is only overwritten after it was restored or its
\* owner chose to replace it.
SessionNotReplaced ==
  [][disk[Session].is # "missing" /\ disk'[Session] # disk[Session]
       => result \in {"restored", "missing"} \/ boot = "replacing"]_vars
=============================================================================
