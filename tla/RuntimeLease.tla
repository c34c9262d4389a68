---------------------------- MODULE RuntimeLease ----------------------------
(***************************************************************************)
(* The writer lease of runtime.db (crates/tabverse-runtime/src/lib.rs) and  *)
(* the Supervisor processes that compete for it                            *)
(* (src-tauri/src/terminal_helper.rs, run_helper).                         *)
(*                                                                         *)
(* Several `tabverse --helper` processes may be started, each with a fresh  *)
(* host instance.  A process opens the database, claims the lease in one   *)
(* deferred SQLite transaction, renews it with a heartbeat, writes the     *)
(* records of the LiveProcesses it hosts, and leaves by an idle exit, by   *)
(* an error, or by a crash.  `put` does not look at the lease, so what     *)
(* keeps the records in one hand is only that a superseded process stops   *)
(* running in time; the two specifications at the end differ in exactly    *)
(* that assumption.                                                        *)
(*                                                                         *)
(* Abstractions: a record keeps its state class and host instance; the      *)
(* states attached, attaching and detached, which a claim treats alike,    *)
(* are "active".  Wall-clock seconds are the natural number `now`, which   *)
(* never goes back.                                                        *)
(***************************************************************************)
EXTENDS Naturals, FiniteSets

CONSTANTS
  Hosts,       \* host instances, one per Supervisor process ever started
  Terminals,   \* runtime ids of terminals, a fresh uuid for each
  Agents,      \* runtime ids of agent sessions, kept from one run to the next
  StaleAfter,  \* HOST_STALE_AFTER_SECONDS
  MaxTime,     \* bound on `now`
  NoHost       \* the host instance of a runtime that has no record

ASSUME StaleAssumption == StaleAfter \in Nat \ {0}
ASSUME BoundAssumption == MaxTime \in Nat
ASSUME NoHostAssumption == NoHost \notin Hosts

VARIABLES
  now,            \* unix_time(), in seconds
  db,             \* the file: "absent", "created" (no tables yet) or "ready"
  row,            \* runtime_hosts: "none", "open" (stopped_at NULL), "stopped"
  beat,           \* runtime_hosts.heartbeat_at
  record,         \* runtimes.state, "none" without a row
  owner,          \* runtimes.host_instance
  interruptions,  \* rows of runtime_interruptions for each runtime, counted by
                  \* the host instance its record named at that moment
  pc,             \* where each Supervisor process is
  claimTime,      \* the `now` its RuntimeStore::open sampled
  snapshot,       \* claim transactions whose read snapshot is still current
  live            \* the LiveProcesses each Supervisor process runs

vars == <<now, db, row, beat, record, owner, interruptions, pc, claimTime,
          snapshot, live>>

Runtimes == Terminals \union Agents

store == <<row, beat, record, owner, interruptions>>

Settled == {"stopped", "exited", "interrupted"}
RecordStates == Settled \union {"none", "active"}
Opening == {"inspected", "connected", "open", "claiming"}
Stages == Opening \union {"idle", "running", "dying", "gone"}

\* A process whose threads can still write records.
Alive(h) == pc[h] \in {"running", "dying"}

TypeOK ==
  /\ now \in Nat
  /\ db \in {"absent", "created", "ready"}
  /\ row \in [Hosts -> {"none", "open", "stopped"}]
  /\ beat \in [Hosts -> Nat]
  /\ record \in [Runtimes -> RecordStates]
  /\ owner \in [Runtimes -> Hosts \union {NoHost}]
  /\ interruptions \in [Runtimes -> [Hosts -> Nat]]
  /\ pc \in [Hosts -> Stages]
  /\ claimTime \in [Hosts -> Nat]
  /\ snapshot \in SUBSET Hosts
  /\ live \in [Hosts -> SUBSET Runtimes]

Init ==
  /\ now = 0
  /\ db = "absent"
  /\ row = [h \in Hosts |-> "none"]
  /\ beat = [h \in Hosts |-> 0]
  /\ record = [r \in Runtimes |-> "none"]
  /\ owner = [r \in Runtimes |-> NoHost]
  /\ interruptions = [r \in Runtimes |-> [h \in Hosts |-> 0]]
  /\ pc = [h \in Hosts |-> "idle"]
  /\ claimTime = [h \in Hosts |-> 0]
  /\ snapshot = {}
  /\ live = [h \in Hosts |-> {}]

Goto(h, stage) == pc' = [pc EXCEPT ![h] = stage]

\* Every committed write overtakes the read snapshots of open transactions.
Commit == snapshot' = {}

\* LiveProcesses die with the process that hosts them.
KillProcesses(h) == live' = [live EXCEPT ![h] = {}]

-----------------------------------------------------------------------------
(* Opening the store. *)

\* unix_time() is sampled first; then an existing file must carry the current
\* schema, or this process gives up.
Inspect(h) ==
  /\ pc[h] = "idle"
  /\ claimTime' = [claimTime EXCEPT ![h] = now]
  /\ Goto(h, IF db = "created" THEN "gone" ELSE "inspected")
  /\ UNCHANGED <<now, db, store, snapshot, live>>

\* Connection::open creates the file before any table exists in it.
Connect(h) ==
  /\ pc[h] = "inspected"
  /\ db' = IF db = "absent" THEN "created" ELSE db
  /\ Goto(h, "connected")
  /\ UNCHANGED <<now, store, claimTime, snapshot, live>>

CommitSchema(h) ==
  /\ pc[h] = "connected"
  /\ db' = "ready"
  /\ Commit
  /\ Goto(h, "open")
  /\ UNCHANGED <<now, store, claimTime, live>>

ExpiredEarly(h, g) == beat[g] + StaleAfter <= claimTime[h] + 1

\* heartbeat_at <= cutoff, where cutoff = claimTime - StaleAfter.
Expired(h, g) == beat[g] + StaleAfter <= claimTime[h]

LiveHostAtAnyAge(h, g) == g # h /\ row[g] = "open" /\ beat[g] > claimTime[h]

\* claim_host's SELECT: another host with stopped_at NULL, not expired.
LiveHost(h, g) == g # h /\ row[g] = "open" /\ ~Expired(h, g)

ClaimReadUnguarded(h) ==
  /\ pc[h] = "open"
  /\ Goto(h, "claiming")
  /\ snapshot' = snapshot \union {h}
  /\ UNCHANGED <<now, db, store, claimTime, live>>

ClaimRead(h) ==
  /\ pc[h] = "open"
  /\ IF \E g \in Hosts : LiveHost(h, g)
     THEN Goto(h, "gone") /\ UNCHANGED snapshot
     ELSE Goto(h, "claiming") /\ snapshot' = snapshot \union {h}
  /\ UNCHANGED <<now, db, store, claimTime, live>>

OrphansAgain(h) ==
  {r \in Runtimes : owner[r] # h /\ record[r] \in {"active", "interrupted"}}

OrphansOfOpenRows(h) ==
  {r \in Runtimes : /\ owner[r] # h
                    /\ record[r] = "active"
                    /\ row[owner[r]] = "open"}

\* The records a claim by h interrupts: not its own, not already settled.
Orphans(h) == {r \in Runtimes : owner[r] # h /\ record[r] = "active"}

CountInterruptions(h) ==
  interruptions' = [r \in Runtimes |->
    IF r \in Orphans(h) THEN [interruptions[r] EXCEPT ![owner[r]] = @ + 1]
                        ELSE interruptions[r]]

MarkWithReason(h) ==
  record' = [r \in Runtimes |->
    IF r \in Orphans(h) THEN "runtime-host-stale" ELSE record[r]]

MarkInterrupted(h) ==
  record' = [r \in Runtimes |->
    IF r \in Orphans(h) THEN "interrupted" ELSE record[r]]

\* Expired hosts are stopped and the claimant's own row is inserted or reset.
TakeLease(h) ==
  /\ row' = [g \in Hosts |->
       IF g = h THEN "open"
       ELSE IF row[g] = "open" /\ Expired(h, g) THEN "stopped" ELSE row[g]]
  /\ beat' = [beat EXCEPT ![h] = claimTime[h]]

\* The claim's writes and its COMMIT.  SQLite lets a deferred transaction write
\* only while its snapshot is the newest one; otherwise open() fails.
ClaimCommit(h) ==
  /\ pc[h] = "claiming"
  /\ IF h \in snapshot
     THEN /\ CountInterruptions(h)
          /\ MarkInterrupted(h)
          /\ TakeLease(h)
          /\ Commit
          /\ Goto(h, "running")
     ELSE /\ Goto(h, "gone")
          /\ UNCHANGED <<interruptions, record, row, beat, snapshot>>
  /\ UNCHANGED <<now, db, owner, claimTime, live>>

-----------------------------------------------------------------------------
(* The Supervisor's main loop. *)

\* unix_time() is sampled before the UPDATE waits for the write lock, so the
\* time written may be older than the commit.
Heartbeat(h) ==
  /\ pc[h] = "running"
  /\ IF row[h] = "open"
     THEN /\ \E sampled \in beat[h] .. now :
               beat' = [beat EXCEPT ![h] = sampled]
          /\ Commit
          /\ UNCHANGED pc
     ELSE Goto(h, "dying") /\ UNCHANGED <<beat, snapshot>>
  /\ UNCHANGED <<now, db, row, record, owner, interruptions, claimTime, live>>

\* `agent.is_alive()` turned false: run_helper returns an error.
ListenerStopped(h) ==
  /\ pc[h] = "running"
  /\ Goto(h, "dying")
  /\ UNCHANGED <<now, db, store, claimTime, snapshot, live>>

\* The idle window passed with no LiveProcess: release the lease and exit.
Release(h) ==
  /\ pc[h] = "running"
  /\ live[h] = {}
  /\ row' = [row EXCEPT ![h] = IF @ = "open" THEN "stopped" ELSE @]
  /\ Commit
  /\ Goto(h, "gone")
  /\ UNCHANGED <<now, db, beat, record, owner, interruptions, claimTime, live>>

\* A crash, or the end of a process that failed; nothing more is written.
Crash(h) ==
  /\ pc[h] \notin {"idle", "gone"}
  /\ Goto(h, "gone")
  /\ snapshot' = snapshot \ {h}
  /\ KillProcesses(h)
  /\ UNCHANGED <<now, db, store, claimTime>>

-----------------------------------------------------------------------------
(* Records, written by the client and waiter threads of a process. *)

\* RuntimeStore::put: an upsert that asks nothing about the lease.
Put(h, r, state) ==
  /\ record' = [record EXCEPT ![r] = state]
  /\ owner' = [owner EXCEPT ![r] = h]
  /\ Commit

\* A LiveProcess starts: a terminal under a new id, or an agent session under
\* the id it had before.
Start(h, r) ==
  /\ Alive(h)
  /\ r \notin live[h]
  /\ r \in Terminals => owner[r] = NoHost
  /\ Put(h, r, "active")
  /\ live' = [live EXCEPT ![h] = @ \union {r}]
  /\ UNCHANGED <<now, db, row, beat, interruptions, pc, claimTime>>

\* An attach or a detach is recorded.  The thread that records it may do so
\* after the LiveProcess has ended and that end has been recorded.
Advance(h, r) ==
  /\ Alive(h)
  /\ r \in live[h] \/ owner[r] = h
  /\ Put(h, r, "active")
  /\ UNCHANGED <<now, db, row, beat, interruptions, pc, claimTime, live>>

\* A LiveProcess is closed (or killed by a dying process), or a shell exits.
Finish(h, r, state) ==
  /\ Alive(h)
  /\ r \in live[h]
  /\ state = "exited" => r \in Terminals
  /\ Put(h, r, state)
  /\ live' = [live EXCEPT ![h] = @ \ {r}]
  /\ UNCHANGED <<now, db, row, beat, interruptions, pc, claimTime>>

-----------------------------------------------------------------------------
(* Time. *)

Tick ==
  /\ now < MaxTime
  /\ now' = now + 1
  /\ UNCHANGED <<db, store, pc, claimTime, snapshot, live>>

\* The time from which a process counts as expired once StaleAfter has passed.
LeaseTime(h) == IF Alive(h) THEN beat[h] ELSE claimTime[h]

\* No live process lets StaleAfter seconds pass since its last heartbeat, or,
\* while it opens the store, since it sampled the clock.
TimelyTick ==
  /\ \A h \in Hosts :
       Alive(h) \/ pc[h] \in Opening => LeaseTime(h) + StaleAfter > now + 1
  /\ Tick

HostStep(h) ==
  \/ Inspect(h)
  \/ Connect(h)
  \/ CommitSchema(h)
  \/ ClaimRead(h)
  \/ ClaimCommit(h)
  \/ Heartbeat(h)
  \/ ListenerStopped(h)
  \/ Release(h)
  \/ Crash(h)

RecordStep(h, r) ==
  \/ Start(h, r)
  \/ Advance(h, r)
  \/ \E state \in {"stopped", "exited"} : Finish(h, r, state)

Step ==
  \E h \in Hosts : HostStep(h) \/ \E r \in Runtimes : RecordStep(h, r)

Next == Step \/ Tick
TimelyNext == Step \/ TimelyTick

Spec == Init /\ [][Next]_vars
TimelySpec == Init /\ [][TimelyNext]_vars

-----------------------------------------------------------------------------
(* Properties of every schedule. *)

\* At most one row of runtime_hosts has stopped_at NULL: two processes that
\* open the store at once cannot both pass claim_host.
SingleLease ==
  \A g, h \in Hosts : row[g] = "open" /\ row[h] = "open" => g = h

\* A lease is taken from another process only once StaleAfter seconds have
\* passed since the last heartbeat that process committed, even when the
\* heartbeat lands between the claim's SELECT and its UPDATE.
LeaseTakenOnlyWhenExpired ==
  [][\A g \in Hosts :
       row[g] = "open" /\ row'[g] # "open" /\ pc'[g] = pc[g]
         => beat[g] + StaleAfter <= now]_vars

(* Properties that also need live processes to be timely. *)

\* A process that can still write records holds the lease.
WriterHoldsLease == \A h \in Hosts : Alive(h) => row[h] = "open"

\* The end of one Supervisor process is reported at most once for each
\* runtime: no claim repeats the interruption an earlier claim inserted.
InterruptedOnce ==
  \A r \in Runtimes, h \in Hosts : interruptions[r][h] <= 1

\* While a process runs, no record is active in the name of another one: the
\* claim settled them all, and nobody writes behind its back.
ActiveOwnedByLive ==
  \A h \in Hosts, r \in Runtimes :
    Alive(h) /\ record[r] = "active" => owner[r] = h

\* The process that may write, if there is one.
Writer == IF \E h \in Hosts : Alive(h)
          THEN CHOOSE h \in Hosts : Alive(h)
          ELSE NoHost

Ledger == INSTANCE RuntimeLedger WITH writer <- Writer
\* Under TimelySpec claim_host, heartbeat, release and put implement a register
\* of one writer at a time.
LedgerSpec == Ledger!Spec

\* docs/architecture/runtime-model.md calls the Supervisor the only writer of
\* runtime.db, and the lease makes one process the Supervisor: every record is
\* written by the process whose row is open.
OnlyOwnerWrites ==
  [][\A r \in Runtimes :
       <<record'[r], owner'[r]>> # <<record[r], owner[r]>>
         /\ record'[r] # "interrupted"
         => row[owner'[r]] = "open"]_vars

\* ADR-0008 lets the sidecar start again on demand: a database file without
\* tables is only ever the work in progress of a process that is still there.
StartsAgainOnDemand ==
  db = "created" => \E h \in Hosts : pc[h] = "connected"
=============================================================================
