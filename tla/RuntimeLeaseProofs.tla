------------------------- MODULE RuntimeLeaseProofs -------------------------
(***************************************************************************)
(* Proofs about the runtime.db lease, for any sets of hosts and runtimes    *)
(* and any StaleAfter.  LeaseInv strengthens SingleLease and holds in every *)
(* schedule; TimelyInv holds when live processes are timely, and implies    *)
(* the other properties and the refinement of RuntimeLedger.               *)
(***************************************************************************)
EXTENDS RuntimeLease, TLAPS

-----------------------------------------------------------------------------
(* Every schedule. *)

\* Clock samples are not in the future, and a claim whose read snapshot is
\* still current sees no live host, exactly as when it read.
LeaseInv ==
  /\ SingleLease
  /\ \A h \in Hosts : claimTime[h] <= now
  /\ \A h \in snapshot : pc[h] = "claiming" /\ \A g \in Hosts : ~LiveHost(h, g)

\* Type correctness of the lease and of the Supervisor processes around it.
THEOREM TypeCorrect == Spec => []TypeOK
<1> USE StaleAssumption, BoundAssumption, NoHostAssumption
<1>1. Init => TypeOK
  BY DEF Init, TypeOK, Stages, Opening, RecordStates, Settled
<1>2. TypeOK /\ [Next]_vars => TypeOK'
  <2> SUFFICES ASSUME TypeOK, [Next]_vars PROVE TypeOK'
    OBVIOUS
  <2> USE DEF TypeOK, Stages, Opening, RecordStates, Settled, Goto, Commit,
              store
  <2>1. ASSUME NEW h \in Hosts, Inspect(h) PROVE TypeOK'
    BY <2>1 DEF Inspect
  <2>2. ASSUME NEW h \in Hosts, Connect(h) PROVE TypeOK'
    BY <2>2 DEF Connect
  <2>3. ASSUME NEW h \in Hosts, CommitSchema(h) PROVE TypeOK'
    BY <2>3 DEF CommitSchema
  <2>4. ASSUME NEW h \in Hosts, ClaimRead(h) PROVE TypeOK'
    BY <2>4 DEF ClaimRead
  <2>5. ASSUME NEW h \in Hosts, ClaimCommit(h) PROVE TypeOK'
    <3> USE DEF ClaimCommit, CountInterruptions, MarkInterrupted, TakeLease
    <3>1. CASE h \notin snapshot
      BY <2>5, <3>1
    <3>2. CASE h \in snapshot
      <4>1. interruptions' \in [Runtimes -> [Hosts -> Nat]]
        <5> SUFFICES ASSUME NEW r \in Runtimes
                     PROVE  (IF r \in Orphans(h)
                             THEN [interruptions[r] EXCEPT ![owner[r]] = @ + 1]
                             ELSE interruptions[r]) \in [Hosts -> Nat]
          BY <2>5, <3>2
        <5>1. interruptions[r] \in [Hosts -> Nat]
          OBVIOUS
        <5>2. CASE r \in Orphans(h)
          <6>1. CASE owner[r] \in Hosts
            BY <5>1, <6>1
          <6>2. CASE owner[r] \notin Hosts
            BY <5>1, <6>2
          <6> QED BY <5>2, <6>1, <6>2
        <5> QED BY <5>1, <5>2
      <4>2. record' \in [Runtimes -> RecordStates]
        BY <2>5, <3>2
      <4>3. row' \in [Hosts -> {"none", "open", "stopped"}]
        BY <2>5, <3>2
      <4> QED BY <2>5, <3>2, <4>1, <4>2, <4>3
    <3> QED BY <3>1, <3>2
  <2>6. ASSUME NEW h \in Hosts, Heartbeat(h) PROVE TypeOK'
    <3>1. beat' \in [Hosts -> Nat]
      BY <2>6 DEF Heartbeat
    <3> QED BY <2>6, <3>1 DEF Heartbeat
  <2>7. ASSUME NEW h \in Hosts, ListenerStopped(h) PROVE TypeOK'
    BY <2>7 DEF ListenerStopped
  <2>8. ASSUME NEW h \in Hosts, Release(h) PROVE TypeOK'
    BY <2>8 DEF Release
  <2>9. ASSUME NEW h \in Hosts, Crash(h) PROVE TypeOK'
    BY <2>9 DEF Crash, KillProcesses
  <2>10. ASSUME NEW h \in Hosts, NEW r \in Runtimes, Start(h, r) PROVE TypeOK'
    BY <2>10 DEF Start, Put
  <2>11. ASSUME NEW h \in Hosts, NEW r \in Runtimes, Advance(h, r) PROVE TypeOK'
    BY <2>11 DEF Advance, Put
  <2>12. ASSUME NEW h \in Hosts, NEW r \in Runtimes,
                NEW state \in {"stopped", "exited"}, Finish(h, r, state)
         PROVE TypeOK'
    BY <2>12 DEF Finish, Put
  <2>13. CASE Tick
    BY <2>13 DEF Tick
  <2>14. CASE UNCHANGED vars
    BY <2>14 DEF vars
  <2> QED BY <2>1, <2>2, <2>3, <2>4, <2>5, <2>6, <2>7, <2>8, <2>9, <2>10,
             <2>11, <2>12, <2>13, <2>14 DEF Next, Step, HostStep, RecordStep
<1> QED BY <1>1, <1>2, PTL DEF Spec

LEMMA LeaseInvInductive ==
  ASSUME TypeOK, LeaseInv, [Next]_vars
  PROVE  LeaseInv'
<1> USE StaleAssumption, BoundAssumption DEF TypeOK, LeaseInv, SingleLease,
        LiveHost, Expired, Goto, Commit, store
<1>1. ASSUME NEW h \in Hosts, Inspect(h) PROVE LeaseInv'
  BY <1>1 DEF Inspect
<1>2. ASSUME NEW h \in Hosts, Connect(h) PROVE LeaseInv'
  BY <1>2 DEF Connect
<1>3. ASSUME NEW h \in Hosts, CommitSchema(h) PROVE LeaseInv'
  BY <1>3 DEF CommitSchema
<1>4. ASSUME NEW h \in Hosts, ClaimRead(h) PROVE LeaseInv'
  <2>1. CASE \E g \in Hosts : LiveHost(h, g)
    BY <1>4, <2>1 DEF ClaimRead
  <2>2. CASE ~ \E g \in Hosts : LiveHost(h, g)
    BY <1>4, <2>2 DEF ClaimRead
  <2> QED BY <2>1, <2>2
<1>5. ASSUME NEW h \in Hosts, ClaimCommit(h) PROVE LeaseInv'
  <2> USE DEF ClaimCommit, CountInterruptions, MarkInterrupted, TakeLease
  <2>1. CASE h \notin snapshot
    BY <1>5, <2>1
  <2>2. CASE h \in snapshot
    <3>1. \A g \in Hosts : row'[g] = "open" => g = h
      BY <1>5, <2>2
    <3> QED BY <1>5, <2>2, <3>1
  <2> QED BY <2>1, <2>2
<1>6. ASSUME NEW h \in Hosts, Heartbeat(h) PROVE LeaseInv'
  BY <1>6 DEF Heartbeat
<1>7. ASSUME NEW h \in Hosts, ListenerStopped(h) PROVE LeaseInv'
  BY <1>7 DEF ListenerStopped
<1>8. ASSUME NEW h \in Hosts, Release(h) PROVE LeaseInv'
  BY <1>8 DEF Release
<1>9. ASSUME NEW h \in Hosts, Crash(h) PROVE LeaseInv'
  BY <1>9 DEF Crash, KillProcesses
<1>10. ASSUME NEW h \in Hosts, NEW r \in Runtimes, Start(h, r) PROVE LeaseInv'
  BY <1>10 DEF Start, Put
<1>11. ASSUME NEW h \in Hosts, NEW r \in Runtimes, Advance(h, r) PROVE LeaseInv'
  BY <1>11 DEF Advance, Put
<1>12. ASSUME NEW h \in Hosts, NEW r \in Runtimes,
              NEW state \in {"stopped", "exited"}, Finish(h, r, state)
       PROVE LeaseInv'
  BY <1>12 DEF Finish, Put
<1>13. CASE Tick
  BY <1>13 DEF Tick
<1>14. CASE UNCHANGED vars
  BY <1>14 DEF vars
<1> QED BY <1>1, <1>2, <1>3, <1>4, <1>5, <1>6, <1>7, <1>8, <1>9, <1>10,
           <1>11, <1>12, <1>13, <1>14 DEF Next, Step, HostStep, RecordStep

LEMMA LeaseInvHolds == Spec => []LeaseInv
<1>1. Init => LeaseInv
  BY DEF Init, LeaseInv, SingleLease
<1>2. TypeOK /\ LeaseInv /\ [Next]_vars => LeaseInv'
  BY LeaseInvInductive
<1> QED BY <1>1, <1>2, TypeCorrect, PTL DEF Spec

\* Two processes that open the store at once never both hold the lease.
THEOREM OneLease == Spec => []SingleLease
<1>1. LeaseInv => SingleLease
  BY DEF LeaseInv
<1> QED BY <1>1, LeaseInvHolds, PTL

\* Nobody loses the lease to another process before it has expired.
THEOREM NoEarlyTakeover == Spec => LeaseTakenOnlyWhenExpired
<1> DEFINE TakenExpired(g) ==
       row[g] = "open" /\ row'[g] # "open" /\ pc'[g] = pc[g]
         => beat[g] + StaleAfter <= now
<1>1. ASSUME TypeOK, LeaseInv, [Next]_vars, NEW g \in Hosts
      PROVE  TakenExpired(g)
  <2> USE <1>1, StaleAssumption
  <2> USE DEF TypeOK, Goto, store
  <2>1. ASSUME NEW h \in Hosts, ClaimCommit(h) PROVE TakenExpired(g)
    BY <2>1 DEF ClaimCommit, CountInterruptions, MarkInterrupted,
                  TakeLease, LeaseInv, Expired
  <2>2. ASSUME NEW h \in Hosts, Release(h) PROVE TakenExpired(g)
    BY <2>2 DEF Release
  <2>3. ASSUME NEW h \in Hosts,
               Inspect(h) \/ Connect(h) \/ CommitSchema(h) \/ ClaimRead(h)
                 \/ Heartbeat(h) \/ ListenerStopped(h) \/ Crash(h)
        PROVE  UNCHANGED row
    BY <2>3 DEF Inspect, Connect, CommitSchema, ClaimRead, Heartbeat,
                ListenerStopped, Crash
  <2>4. ASSUME NEW h \in Hosts, NEW r \in Runtimes, RecordStep(h, r)
        PROVE  UNCHANGED row
    BY <2>4 DEF RecordStep, Start, Advance, Finish
  <2>5. CASE Tick \/ UNCHANGED vars
    BY <2>5 DEF Tick, vars
  <2> QED BY <2>1, <2>2, <2>3, <2>4, <2>5 DEF Next, Step, HostStep
<1>2. TypeOK /\ LeaseInv /\ [Next]_vars => [\A g \in Hosts : TakenExpired(g)]_vars
  BY <1>1
<1> QED BY <1>2, TypeCorrect, LeaseInvHolds, PTL
           DEF Spec, LeaseTakenOnlyWhenExpired

-----------------------------------------------------------------------------
(* Schedules in which live processes are timely. *)

\* A timely schedule is a schedule.
LEMMA TimelyIsSpec == TimelySpec => Spec
<1>1. [TimelyNext]_vars => [Next]_vars
  BY DEF TimelyNext, Next, TimelyTick
<1> QED BY <1>1, PTL DEF TimelySpec, Spec

\* Live processes hold an unexpired lease and opening ones a recent clock
\* sample.  An instance that is not yet running owns no record; once its end has
\* been reported for a runtime it is gone, and that record is settled.
TimelyInv ==
  /\ \A h \in Hosts : Alive(h) => row[h] = "open" /\ beat[h] + StaleAfter > now
  /\ \A h \in Hosts : pc[h] \in Opening => claimTime[h] + StaleAfter > now
  /\ \A r \in Runtimes : owner[r] \in Hosts => pc[owner[r]] \in {"running", "dying", "gone"}
  /\ \A r \in Runtimes : record[r] = "active" => owner[r] \in Hosts
  /\ \A r \in Runtimes, h \in Hosts : interruptions[r][h] # 0 =>
       /\ interruptions[r][h] = 1
       /\ pc[h] = "gone"
       /\ ~(owner[r] = h /\ record[r] = "active")
  /\ ActiveOwnedByLive

\* While a claim can still commit, no process is alive: a live one would hold an
\* unexpired lease that the claim's snapshot shows.
LEMMA ClaimMeansNobodyAlive ==
  ASSUME TypeOK, LeaseInv, TimelyInv, NEW h \in snapshot, NEW g \in Hosts
  PROVE  ~Alive(g)
<1> SUFFICES ASSUME Alive(g) PROVE FALSE
  OBVIOUS
<1>1. h \in Hosts /\ pc[h] = "claiming" /\ ~LiveHost(h, g) /\ claimTime[h] <= now
  BY DEF LeaseInv, TypeOK
<1>2. row[g] = "open" /\ beat[g] + StaleAfter > now
  BY DEF TimelyInv
<1>3. g # h
  BY <1>1 DEF Alive
<1> QED BY <1>1, <1>2, <1>3, StaleAssumption DEF LiveHost, Expired, TypeOK

\* There is never more than one live process.
LEMMA AtMostOneAlive ==
  ASSUME LeaseInv, TimelyInv, NEW g \in Hosts, NEW h \in Hosts, Alive(g), Alive(h)
  PROVE  g = h
BY DEF LeaseInv, SingleLease, TimelyInv

LEMMA TimelyInvInductive ==
  ASSUME TypeOK, LeaseInv, TimelyInv, [TimelyNext]_vars
  PROVE  TimelyInv'
<1> USE StaleAssumption, NoHostAssumption
<1> USE DEF TypeOK, TimelyInv, ActiveOwnedByLive, Alive, Opening, Goto, Commit,
            store
<1>1. ASSUME NEW h \in Hosts, Inspect(h) PROVE TimelyInv'
  BY <1>1 DEF Inspect
<1>2. ASSUME NEW h \in Hosts, Connect(h) PROVE TimelyInv'
  BY <1>2 DEF Connect
<1>3. ASSUME NEW h \in Hosts, CommitSchema(h) PROVE TimelyInv'
  BY <1>3 DEF CommitSchema
<1>4. ASSUME NEW h \in Hosts, ClaimRead(h) PROVE TimelyInv'
  BY <1>4 DEF ClaimRead
<1>5. ASSUME NEW h \in Hosts, ClaimCommit(h) PROVE TimelyInv'
  <2> USE DEF ClaimCommit, CountInterruptions, MarkInterrupted, TakeLease
  <2>1. CASE h \notin snapshot
    BY <1>5, <2>1
  <2>2. CASE h \in snapshot
    <3>1. \A g \in Hosts : ~Alive(g)
      BY <2>2, ClaimMeansNobodyAlive
    <3>2. \A r \in Orphans(h) : owner[r] \in Hosts /\ pc[owner[r]] = "gone"
      BY <3>1 DEF Orphans
    <3>3. pc' = [pc EXCEPT ![h] = "running"] /\ pc[h] = "claiming"
      BY <1>5, <2>2
    <3>4. UNCHANGED <<now, owner, claimTime>>
      BY <1>5
    <3>5. \A r \in Runtimes : record'[r] = "active" => record[r] = "active" /\ owner[r] = h
      BY <1>5, <2>2 DEF Orphans
    <3>6. \A r \in Runtimes, g \in Hosts : interruptions'[r][g] # 0 =>
            /\ interruptions'[r][g] = 1
            /\ pc[g] = "gone"
      <4> SUFFICES ASSUME NEW r \in Runtimes, NEW g \in Hosts
                   PROVE  interruptions'[r][g] # 0 =>
                            interruptions'[r][g] = 1 /\ pc[g] = "gone"
        OBVIOUS
      <4>1. CASE r \notin Orphans(h)
        BY <1>5, <2>2, <4>1
      <4>2. CASE r \in Orphans(h)
        <5>1. interruptions'[r] = [interruptions[r] EXCEPT ![owner[r]] = @ + 1]
          BY <1>5, <2>2, <4>2
        <5>2. interruptions[r][owner[r]] = 0
          BY <3>2, <4>2 DEF Orphans
        <5> QED BY <3>2, <4>2, <5>1, <5>2
      <4> QED BY <4>1, <4>2
    <3>7. row'[h] = "open" /\ beat'[h] = claimTime[h]
      BY <1>5, <2>2
    <3>8. \A g \in Hosts : Alive(g)' => g = h
      BY <3>1, <3>3
    <3> QED BY <3>3, <3>4, <3>5, <3>6, <3>7, <3>8
  <2> QED BY <2>1, <2>2
<1>6. ASSUME NEW h \in Hosts, Heartbeat(h) PROVE TimelyInv'
  BY <1>6 DEF Heartbeat
<1>7. ASSUME NEW h \in Hosts, ListenerStopped(h) PROVE TimelyInv'
  BY <1>7 DEF ListenerStopped
<1>8. ASSUME NEW h \in Hosts, Release(h) PROVE TimelyInv'
  BY <1>8 DEF Release
<1>9. ASSUME NEW h \in Hosts, Crash(h) PROVE TimelyInv'
  BY <1>9 DEF Crash, KillProcesses
<1>10. ASSUME NEW h \in Hosts, NEW r \in Runtimes, NEW s \in {"active", "stopped", "exited"},
              Alive(h), Put(h, r, s), UNCHANGED <<now, row, beat, interruptions, pc, claimTime>>
       PROVE  TimelyInv'
  <2>1. \A g \in Hosts : Alive(g) => g = h
    BY <1>10, AtMostOneAlive
  <2> QED BY <1>10, <2>1 DEF Put
<1>11. ASSUME NEW h \in Hosts, NEW r \in Runtimes, RecordStep(h, r) PROVE TimelyInv'
  BY <1>10, <1>11 DEF RecordStep, Start, Advance, Finish
<1>12. CASE TimelyTick
  BY <1>12 DEF TimelyTick, Tick, LeaseTime
<1>13. CASE UNCHANGED vars
  BY <1>13 DEF vars
<1> QED BY <1>1, <1>2, <1>3, <1>4, <1>5, <1>6, <1>7, <1>8, <1>9, <1>11,
           <1>12, <1>13 DEF TimelyNext, Step, HostStep

LEMMA TimelyInvHolds == TimelySpec => [](TypeOK /\ LeaseInv /\ TimelyInv)
<1>1. Init => TimelyInv
  BY NoHostAssumption DEF Init, TimelyInv, ActiveOwnedByLive, Alive, Opening
<1>2. TypeOK /\ LeaseInv /\ TimelyInv /\ [TimelyNext]_vars => TimelyInv'
  BY TimelyInvInductive
<1> QED BY <1>1, <1>2, TimelyIsSpec, TypeCorrect, LeaseInvHolds, PTL DEF TimelySpec

\* Timely processes write only while they hold the lease.
THEOREM WritersHoldTheLease == TimelySpec => []WriterHoldsLease
<1>1. TimelyInv => WriterHoldsLease
  BY DEF TimelyInv, WriterHoldsLease
<1> QED BY <1>1, TimelyInvHolds, PTL

\* The end of a process is reported once for each runtime it left behind.
THEOREM ReportedOnce == TimelySpec => []InterruptedOnce
<1>1. TypeOK /\ TimelyInv => InterruptedOnce
  BY DEF TypeOK, TimelyInv, InterruptedOnce
<1> QED BY <1>1, TimelyInvHolds, PTL

\* While a process runs, every active record is in its name.
THEOREM NoForeignActiveRecord == TimelySpec => []ActiveOwnedByLive
<1>1. TimelyInv => ActiveOwnedByLive
  BY DEF TimelyInv
<1> QED BY <1>1, TimelyInvHolds, PTL

-----------------------------------------------------------------------------
(* Refinement of RuntimeLedger. *)

LEMMA ChooseOnly ==
  ASSUME NEW S, NEW f, NEW X, NEW x \in S, f[x] \in X,
         \A y \in S : f[y] \in X => y = x
  PROVE  (CHOOSE y \in S : f[y] \in X) = x
OBVIOUS

LEMMA WriterWhenAlive ==
  ASSUME LeaseInv, TimelyInv, NEW h \in Hosts, Alive(h)
  PROVE  Writer = h
<1>1. \A g \in Hosts : pc[g] \in {"running", "dying"} => g = h
  BY AtMostOneAlive DEF Alive
<1>2. (CHOOSE g \in Hosts : pc[g] \in {"running", "dying"}) = h
  BY <1>1, ChooseOnly DEF Alive
<1> QED BY <1>2 DEF Writer, Alive

\* The same in the next state.
LEMMA WriterWhenAliveNext ==
  ASSUME LeaseInv', TimelyInv', NEW h \in Hosts, Alive(h)'
  PROVE  Writer' = h
<1>1. \A g \in Hosts : pc'[g] \in {"running", "dying"} => g = h
  BY DEF Alive, LeaseInv, SingleLease, TimelyInv
<1>2. (CHOOSE g \in Hosts : pc'[g] \in {"running", "dying"}) = h
  BY <1>1, ChooseOnly DEF Alive
<1> QED BY <1>2 DEF Writer, Alive

\* A step that keeps the set of live processes keeps the writer.
LEMMA SameWriter ==
  ASSUME LeaseInv, TimelyInv, LeaseInv', TimelyInv',
         \A h \in Hosts : Alive(h)' <=> Alive(h)
  PROVE  Writer' = Writer
<1>1. CASE \E h \in Hosts : Alive(h)
  BY <1>1, WriterWhenAlive, WriterWhenAliveNext
<1>2. CASE ~ \E h \in Hosts : Alive(h)
  <2>1. Writer = NoHost
    BY <1>2 DEF Writer
  <2>2. Writer' = NoHost
    BY <1>2 DEF Writer
  <2> QED BY <2>1, <2>2
<1> QED BY <1>1, <1>2

\* The end of a process is Leave when it was alive, and a stutter otherwise.
LEMMA DepartureRefines ==
  ASSUME TypeOK, LeaseInv, TimelyInv, LeaseInv', TimelyInv', NEW h \in Hosts,
         pc' = [pc EXCEPT ![h] = "gone"], UNCHANGED <<record, owner>>
  PROVE  [Ledger!Next]_(Ledger!vars)
<1>1. CASE Alive(h)
  <2>1. Writer = h
    BY <1>1, WriterWhenAlive
  <2>2. \A g \in Hosts : ~Alive(g)'
    BY <1>1, AtMostOneAlive DEF Alive, TypeOK
  <2>3. Writer' = NoHost
    BY <2>2 DEF Writer
  <2>4. Ledger!Leave
    BY <2>1, <2>3, NoHostAssumption DEF Ledger!Leave
  <2> QED BY <2>4 DEF Ledger!Next
<1>2. CASE ~Alive(h)
  <2>1. \A g \in Hosts : Alive(g)' <=> Alive(g)
    BY <1>2 DEF Alive, TypeOK
  <2>2. Writer' = Writer
    BY <2>1, SameWriter
  <2> QED BY <2>2 DEF Ledger!vars
<1> QED BY <1>1, <1>2

LEMMA StepRefines ==
  ASSUME TypeOK, LeaseInv, TimelyInv, LeaseInv', TimelyInv', [TimelyNext]_vars
  PROVE  [Ledger!Next]_(Ledger!vars)
<1> USE DEF TypeOK, Goto, store
<1>1. ASSUME UNCHANGED <<record, owner>>, \A g \in Hosts : Alive(g)' <=> Alive(g)
      PROVE  [Ledger!Next]_(Ledger!vars)
  BY <1>1, SameWriter DEF Ledger!vars
<1>2. ASSUME NEW h \in Hosts, Inspect(h) PROVE [Ledger!Next]_(Ledger!vars)
  BY <1>1, <1>2 DEF Inspect, Alive
<1>3. ASSUME NEW h \in Hosts, Connect(h) \/ CommitSchema(h) \/ ClaimRead(h)
      PROVE  [Ledger!Next]_(Ledger!vars)
  BY <1>1, <1>3 DEF Connect, CommitSchema, ClaimRead, Alive
<1>4. ASSUME NEW h \in Hosts, ClaimCommit(h) PROVE [Ledger!Next]_(Ledger!vars)
  <2> USE DEF ClaimCommit, CountInterruptions, MarkInterrupted, TakeLease
  <2>1. CASE h \notin snapshot
    BY <1>4, <2>1, DepartureRefines
  <2>2. CASE h \in snapshot
    <3>1. \A g \in Hosts : ~Alive(g)
      BY <2>2, ClaimMeansNobodyAlive
    <3>2. Writer = NoHost
      BY <3>1 DEF Writer
    <3>3. Alive(h)'
      BY <1>4, <2>2 DEF Alive
    <3>4. Writer' = h
      BY <3>3, WriterWhenAliveNext
    <3>5. record' = [r \in Runtimes |->
            IF owner[r] # h /\ record[r] = "active" THEN "interrupted" ELSE record[r]]
      BY <1>4, <2>2 DEF Orphans
    <3>6. UNCHANGED owner
      BY <1>4
    <3>7. Ledger!Take(h)
      BY <3>2, <3>4, <3>5, <3>6 DEF Ledger!Take, Ledger!Runtimes, Runtimes
    <3> QED BY <3>7 DEF Ledger!Next
  <2> QED BY <2>1, <2>2
<1>5. ASSUME NEW h \in Hosts, Heartbeat(h) \/ ListenerStopped(h)
      PROVE  [Ledger!Next]_(Ledger!vars)
  BY <1>1, <1>5 DEF Heartbeat, ListenerStopped, Alive
<1>6. ASSUME NEW h \in Hosts, Release(h) \/ Crash(h)
      PROVE  [Ledger!Next]_(Ledger!vars)
  BY <1>6, DepartureRefines DEF Release, Crash
<1>7. ASSUME NEW h \in Hosts, NEW r \in Runtimes, NEW s \in {"active", "stopped", "exited"},
             Alive(h), Put(h, r, s), UNCHANGED pc
      PROVE  [Ledger!Next]_(Ledger!vars)
  <2>1. Writer = h
    BY <1>7, WriterWhenAlive
  <2>2. Writer' = Writer
    BY <1>7, SameWriter DEF Alive
  <2>3. Ledger!Write(r, s)
    BY <1>7, <2>1, <2>2, NoHostAssumption DEF Ledger!Write, Put
  <2> QED BY <2>3 DEF Ledger!Next, Ledger!Runtimes, Runtimes
<1>8. ASSUME NEW h \in Hosts, NEW r \in Runtimes, RecordStep(h, r)
      PROVE  [Ledger!Next]_(Ledger!vars)
  BY <1>7, <1>8 DEF RecordStep, Start, Advance, Finish
<1>9. CASE TimelyTick \/ UNCHANGED vars
  BY <1>1, <1>9 DEF TimelyTick, Tick, vars, Alive
<1> QED BY <1>2, <1>3, <1>4, <1>5, <1>6, <1>8, <1>9 DEF TimelyNext, Step, HostStep

\* The lease table, its clock and its transactions implement one writer at a
\* time, whose successor settles what it left.
THEOREM ImplementsLedger == TimelySpec => LedgerSpec
<1>1. Init => Ledger!Init
  BY DEF Init, Ledger!Init, Writer, Alive, Ledger!Runtimes, Runtimes
<1>2. TypeOK /\ LeaseInv /\ TimelyInv /\ (TypeOK /\ LeaseInv /\ TimelyInv)'
        /\ [TimelyNext]_vars => [Ledger!Next]_(Ledger!vars)
  BY StepRefines
<1> QED BY <1>1, <1>2, TimelyInvHolds, PTL DEF TimelySpec, LedgerSpec, Ledger!Spec
=============================================================================
