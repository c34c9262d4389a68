--------------------------- MODULE ShareHubProofs ---------------------------
(***************************************************************************)
(* Proofs about a shared terminal, for any finite set of viewers and any   *)
(* bounds.  Roles says where a connection's task, its entry in the viewers *)
(* map and what it was sent can be at the same time; with it, Gapless is   *)
(* inductive and gives NothingMissing and the refinement of ViewerStream.  *)
(* Counted says who owes the viewers a new count; it gives CountNotStale.  *)
(***************************************************************************)
EXTENDS ShareHub, SequenceTheorems, FiniteSetTheorems, TLAPS

-----------------------------------------------------------------------------
(* The output from its beginning. *)

LEMMA OutputType ==
  ASSUME NEW n \in Nat, NEW m \in Nat, n <= m
  PROVE  /\ Output(n) \in Seq(1 .. m)
         /\ Len(Output(n)) = n
         /\ \A i \in 1 .. n : Output(n)[i] = i
<1>1. Output(n) \in [1 .. n -> 1 .. m]
  BY DEF Output
<1>2. Output(n) \in Seq(1 .. m)
  BY <1>1, IsASeq
<1>3. DOMAIN Output(n) = 1 .. n
  BY DEF Output
<1>4. Len(Output(n)) = n
  BY <1>2, <1>3, LenProperties
<1> QED BY <1>2, <1>4 DEF Output

LEMMA OutputNext ==
  ASSUME NEW n \in Nat
  PROVE  Append(Output(n), n + 1) = Output(n + 1)
<1> DEFINE s == Append(Output(n), n + 1)
<1>1. Output(n) \in Seq(Nat) /\ Len(Output(n)) = n
  <2>1. Output(n) \in Seq(1 .. n) /\ Len(Output(n)) = n
    BY OutputType
  <2>2. Seq(1 .. n) \subseteq Seq(Nat)
    BY SeqMonotonic
  <2> QED BY <2>1, <2>2
<1>2. /\ s \in Seq(Nat) /\ Len(s) = n + 1
      /\ \A i \in 1 .. n : s[i] = Output(n)[i]
      /\ s[n + 1] = n + 1
  BY <1>1, AppendProperties
<1>3. Output(n + 1) \in Seq(1 .. n + 1) /\ Len(Output(n + 1)) = n + 1
  BY OutputType
<1>4. Output(n + 1) \in Seq(Nat)
  BY <1>3, SeqMonotonic, 1 .. n + 1 \subseteq Nat
<1>5. \A i \in 1 .. n + 1 : s[i] = Output(n + 1)[i]
  BY <1>2 DEF Output
<1> QED BY <1>2, <1>3, <1>4, <1>5, SeqEqual

LEMMA ConcatAppend ==
  ASSUME NEW S, NEW s \in Seq(S), NEW t \in Seq(S), NEW e \in S
  PROVE  s \o Append(t, e) = Append(s \o t, e)
<1>1. Append(t, e) = t \o <<e>> /\ Append(s \o t, e) = (s \o t) \o <<e>>
  BY AppendIsConcat, ConcatProperties
<1>2. <<e>> \in Seq(S)
  OBVIOUS
<1> QED BY <1>1, <1>2, ConcatAssociative

-----------------------------------------------------------------------------
(* Types. *)

LEMMA CountType ==
  /\ Cardinality(Present) \in Counts
  /\ 0 \in Counts
<1>1. Present \subseteq Viewers
  BY DEF Present
<1> QED BY <1>1, ActorsAssumption, FS_Subset, FS_CardinalityType DEF Counts

LEMMA OutputsType ==
  /\ <<>> \in Outputs
  /\ \A s \in Outputs, t \in Outputs : s \o t \in Outputs
  /\ \A s \in Outputs, n \in 1 .. MaxOut : Append(s, n) \in Outputs
  /\ \A n \in 0 .. MaxOut : Output(n) \in Outputs
<1>1. \A n \in 0 .. MaxOut : Output(n) \in Outputs
  BY BoundsAssumption, OutputType DEF Outputs
<1> QED BY <1>1 DEF Outputs

\* Every reachable state of a shared terminal is well typed.
THEOREM TypeCorrect == Spec => []TypeOK
<1> USE BoundsAssumption, ActorsAssumption, CountType, OutputsType
<1>1. Init => TypeOK
  <2> SUFFICES ASSUME Init PROVE TypeOK
    OBVIOUS
  <2> USE DEF Init
  <2>1. pc \in [Actors -> Stages] /\ roster \in [Actors -> SUBSET Viewers]
    BY DEF Stages
  <2>2. /\ mode \in [Viewers -> {"out", "buffering", "live"}]
        /\ queued \in [Viewers -> Outputs] /\ seen \in [Viewers -> Outputs]
    OBVIOUS
  <2>3. /\ notices \in [Viewers -> 0 .. MaxPending]
        /\ marker \in [Viewers -> 0 .. MaxOut]
        /\ since \in [Viewers -> 0 .. MaxOut]
        /\ produced \in 0 .. MaxOut
    OBVIOUS
  <2> QED BY <2>1, <2>2, <2>3 DEF TypeOK
<1>2. TypeOK /\ [Next]_vars => TypeOK'
  <2> SUFFICES ASSUME TypeOK, [Next]_vars PROVE TypeOK'
    OBVIOUS
  <2>0. Present \subseteq Viewers
    BY DEF Present
  <2>00. Viewers \subseteq Actors /\ Dispatcher \in Actors /\ Host \in Actors
    BY DEF Actors
  <2> USE <2>0, <2>00 DEF TypeOK, Stages, Goto
  <2>1. ASSUME NEW v \in Viewers, Lookup(v) \/ Refuse(v) PROVE TypeOK'
    BY <2>1 DEF Lookup, Refuse, bridgeVars, share, buffers, localView, wire
  <2>2. ASSUME NEW v \in Viewers, Insert(v) PROVE TypeOK'
    <3>1. \/ /\ ended' = ended \union {v}
             /\ UNCHANGED <<mode, since>>
             /\ pc' = [pc EXCEPT ![v] = "gone"]
          \/ /\ mode' = [mode EXCEPT ![v] = "buffering"]
             /\ since' = [since EXCEPT ![v] = produced]
             /\ pc' = [pc EXCEPT ![v] = "announce"]
             /\ UNCHANGED ended
      BY <2>2, Zenon DEF Insert
    <3>2. UNCHANGED <<bridgeVars, registered, stopped, buffers, localView,
                      roster, seen, caught, told, skipped>>
      BY <2>2, Zenon DEF Insert
    <3>3. /\ mode' \in [Viewers -> {"out", "buffering", "live"}]
          /\ since' \in [Viewers -> 0 .. MaxOut]
          /\ ended' \subseteq Viewers
      <4>1. CASE ended' = ended \union {v} /\ UNCHANGED <<mode, since>>
        BY <4>1
      <4>2. CASE /\ mode' = [mode EXCEPT ![v] = "buffering"]
                 /\ since' = [since EXCEPT ![v] = produced]
                 /\ UNCHANGED ended
        <5>1. mode' \in [Viewers -> {"out", "buffering", "live"}]
          BY <4>2
        <5>2. since' \in [Viewers -> 0 .. MaxOut]
          BY <4>2
        <5> QED BY <4>2, <5>1, <5>2
      <4> QED BY <3>1, <4>1, <4>2, Zenon
    <3>4. pc' = [pc EXCEPT ![v] = "gone"] \/ pc' = [pc EXCEPT ![v] = "announce"]
      BY <3>1, Zenon
    <3>5. pc' \in [Actors -> Stages]
      <4> HIDE DEF TypeOK
      <4>1. pc \in [Actors -> Stages]
        BY DEF TypeOK
      <4> QED BY <3>4, <4>1
    <3> QED BY <3>2, <3>3, <3>5 DEF bridgeVars, buffers, localView
  <2>3. ASSUME NEW a \in Actors, Announce(a) PROVE TypeOK'
    <3>1. told' \in [Viewers -> Counts]
      BY <2>3, CountType DEF Announce, Tell
    <3>2. notices' \in [Viewers -> 0 .. MaxPending]
      BY <2>3 DEF Announce, Tell, Frames
    <3>3. notice' \in [Viewers -> Counts]
      BY <2>3, CountType DEF Announce, Tell
    <3>4. skipped' \subseteq Viewers
      BY <2>3 DEF Announce, Tell
    <3> QED BY <2>3, <3>1, <3>2, <3>3, <3>4 DEF Announce, bridgeVars, localView
  <2>4. ASSUME NEW a \in Actors, Show(a) PROVE TypeOK'
    BY <2>4 DEF Show, bridgeVars, share, buffers, wire
  <2>5. ASSUME NEW v \in Viewers, Ask(v) PROVE TypeOK'
    <3> USE DEF Ask, BeginBuffering, EmptyBuffers, bridgeVars, buffers, wire
    <3>1. CASE bound /\ mode[v] # "live"
      <4>1. marker' \in [Viewers -> 0 .. MaxOut]
        BY <2>5, <3>1
      <4>2. EmptyBuffers({v} \intersect Present)
        BY <2>5, <3>1, Zenon
      <4>3. /\ queued' \in [Viewers -> Outputs]
            /\ notices' \in [Viewers -> 0 .. MaxPending]
            /\ notice' \in [Viewers -> Counts]
        BY <4>2
      <4>4. pc' \in [Actors -> Stages]
        BY <2>5
      <4>5. asked' = asked \union {v}
        BY <2>5, <3>1, Zenon
      <4> QED BY <2>5, <4>1, <4>3, <4>4, <4>5
    <3>2. CASE bound /\ mode[v] = "live"
      <4>1. marker' \in [Viewers -> 0 .. MaxOut]
        BY <2>5, <3>2
      <4>3. pc' \in [Actors -> Stages]
        BY <2>5, <3>2
      <4> QED BY <2>5, <3>2, <4>1, <4>3
    <3>3. CASE ~bound
      BY <2>5, <3>3
    <3> QED BY <3>1, <3>2, <3>3
  <2>6. ASSUME NEW v \in Viewers, TaskEnds(v) PROVE TypeOK'
    BY <2>6 DEF TaskEnds, Remove, EmptyBuffers, bridgeVars, localView, wire
  <2>7. ASSUME NEW v \in Viewers, SnapshotReady(v) PROVE TypeOK'
    <3>1. Caught(v) \in Outputs
      BY DEF Caught
    <3> USE DEF SnapshotReady, EmptyBuffers, bridgeVars, tasks, buffers
    <3>2. CASE v \in Present
      <4>0. EmptyBuffers({v}) /\ seen' = [seen EXCEPT ![v] = Caught(v)]
        BY <2>7, <3>2, Zenon
      <4>1. seen' \in [Viewers -> Outputs]
        BY <4>0, <3>1
      <4>2. told' \in [Viewers -> Counts]
        BY <2>7, <3>2
      <4>3. mode' \in [Viewers -> {"out", "buffering", "live"}]
        BY <2>7, <3>2
      <4>4. /\ queued' \in [Viewers -> Outputs]
            /\ notices' \in [Viewers -> 0 .. MaxPending]
            /\ notice' \in [Viewers -> Counts]
        BY <4>0
      <4> QED BY <2>7, <3>2, <4>1, <4>2, <4>3, <4>4
    <3>3. CASE v \notin Present
      BY <2>7, <3>3
    <3> QED BY <3>2, <3>3
  <2>8. ASSUME NEW v \in Viewers, SnapshotUnknown(v) PROVE TypeOK'
    BY <2>8 DEF SnapshotUnknown, bridgeVars, share, buffers, tasks, wire
  <2>9. ASSUME NEW v \in Viewers, Kick(v) PROVE TypeOK'
    BY <2>9 DEF Kick, Remove, EmptyBuffers, bridgeVars, localView
  <2>10. CASE DispatchData
    <3>1. seen' \in [Viewers -> Outputs]
      BY <2>10 DEF DispatchData
    <3>2. queued' \in [Viewers -> Outputs]
      BY <2>10 DEF DispatchData
    <3>3. Stalled \subseteq Viewers
      BY DEF Stalled
    <3> QED BY <2>10, <3>1, <3>2, <3>3 DEF DispatchData, localView
  <2>11. CASE Unbind \/ Unregister
    BY <2>11 DEF Unbind, Unregister, bridgeVars, share, buffers, localView,
                 tasks, wire
  <2>12. CASE EndAll
    BY <2>12 DEF EndAll, Remove, EmptyBuffers, bridgeVars, localView, tasks
  <2>13. CASE UNCHANGED vars
    BY <2>13 DEF vars, bridgeVars, share, buffers, localView, tasks, wire
  <2> QED BY <2>1, <2>2, <2>3, <2>4, <2>5, <2>6, <2>7, <2>8, <2>9, <2>10,
             <2>11, <2>12, <2>13
          DEF Next, TaskStep, AnswerStep, CommandStep
<1> QED BY <1>1, <1>2, PTL DEF Spec

-----------------------------------------------------------------------------
(* Where a connection can be. *)

Before == {"away", "found"}
Joining == {"announce", "show", "ask"}

\* A viewer is asked for a snapshot once, after it was inserted; it is live
\* when it was caught up; whoever left the map without leaving by itself was
\* sent End; nobody is in the map of a stopped share.
Roles ==
  \A v \in Viewers :
    /\ pc[v] \in Before => mode[v] = "out" /\ v \notin ended
    /\ pc[v] \in Before \union Joining => v \notin caught \union asked
    /\ mode[v] = "buffering" => v \notin caught
    /\ mode[v] = "live" => v \in caught /\ v \notin asked
    /\ mode[v] # "out" => v \notin ended /\ ~stopped
    /\ pc[v] \in Joining \union {"reading"} => v \in ended \/ mode[v] # "out"

\* The invariant behind NeverNeither and the refinement.
THEOREM RolesHold == Spec => []Roles
<1> USE ActorsAssumption DEF Before, Joining
<1>1. Init => Roles
  BY DEF Init, Roles, Actors
<1>2. TypeOK /\ Roles /\ [Next]_vars => Roles'
  <2> SUFFICES ASSUME TypeOK, Roles, [Next]_vars PROVE Roles'
    OBVIOUS
  <2>0. /\ mode \in [Viewers -> {"out", "buffering", "live"}]
        /\ pc \in [Actors -> Stages]
        /\ Viewers \subseteq Actors
        /\ Present = {v \in Viewers : mode[v] # "out"}
    BY DEF TypeOK, Present, Actors
  <2> USE <2>0 DEF Roles, Goto, Stages
  <2>1. ASSUME NEW v \in Viewers, Lookup(v) \/ Refuse(v) PROVE Roles'
    BY <2>1 DEF Lookup, Refuse, share, localView, wire
  <2>2. ASSUME NEW v \in Viewers, Insert(v) PROVE Roles'
    <3>1. UNCHANGED <<stopped, asked, caught>> /\ pc[v] = "found"
      BY <2>2 DEF Insert, localView
    <3>2. CASE stopped
      <4>1. /\ ended' = ended \union {v}
            /\ UNCHANGED mode
            /\ pc' = [pc EXCEPT ![v] = "gone"]
        BY <2>2, <3>2, Zenon DEF Insert
      <4> QED BY <3>1, <4>1
    <3>3. CASE ~stopped
      <4>1. /\ mode' = [mode EXCEPT ![v] = "buffering"]
            /\ UNCHANGED ended
            /\ pc' = [pc EXCEPT ![v] = "announce"]
        BY <2>2, <3>3, Zenon DEF Insert
      <4> QED BY <3>1, <3>3, <4>1
    <3> QED BY <3>2, <3>3
  <2>3. ASSUME NEW a \in Actors, Announce(a) PROVE Roles'
    BY <2>3 DEF Announce, localView
  <2>4. ASSUME NEW a \in Actors, Show(a) PROVE Roles'
    BY <2>4 DEF Show, share, wire
  <2>5. ASSUME NEW v \in Viewers, Ask(v) PROVE Roles'
    <3>1. /\ asked' \subseteq asked \union {v}
          /\ UNCHANGED <<stopped, mode, caught, ended>>
          /\ pc[v] = "ask" /\ pc' = [pc EXCEPT ![v] = "reading"]
      BY <2>5 DEF Ask, wire
    <3> QED BY <3>1
  <2>6. ASSUME NEW v \in Viewers, TaskEnds(v) PROVE Roles'
    BY <2>6 DEF TaskEnds, Remove, localView, wire
  <2>7. ASSUME NEW v \in Viewers, SnapshotReady(v) PROVE Roles'
    BY <2>7 DEF SnapshotReady, tasks
  <2>8. ASSUME NEW v \in Viewers, SnapshotUnknown(v) PROVE Roles'
    BY <2>8 DEF SnapshotUnknown, share, tasks, wire
  <2>9. ASSUME NEW v \in Viewers, Kick(v) PROVE Roles'
    BY <2>9 DEF Kick, Remove, localView
  <2>10. CASE DispatchData
    <3>1. \A v \in Viewers : v \in Stalled => mode[v] = "buffering"
      BY DEF Stalled, Behind
    <3>2. /\ mode' = [v \in Viewers |-> IF v \in Stalled THEN "out" ELSE mode[v]]
          /\ ended' = ended \union Stalled
          /\ UNCHANGED <<stopped, asked, caught>>
          /\ \A v \in Viewers : pc'[v] = pc[v]
      BY <2>10 DEF DispatchData, localView
    <3> QED BY <3>1, <3>2
  <2>11. CASE Unbind \/ Unregister
    BY <2>11 DEF Unbind, Unregister, share, localView, tasks, wire
  <2>12. CASE EndAll
    BY <2>12 DEF EndAll, Remove, localView, tasks
  <2>13. CASE UNCHANGED vars
    BY <2>13 DEF vars, share, localView, tasks, wire
  <2> QED BY <2>1, <2>2, <2>3, <2>4, <2>5, <2>6, <2>7, <2>8, <2>9, <2>10,
             <2>11, <2>12, <2>13
          DEF Next, TaskStep, AnswerStep, CommandStep, Actors
<1> QED BY <1>1, <1>2, TypeCorrect, PTL DEF Spec

\* When the share has ended, no connection is left without an End.
THEOREM NobodyStranded == Spec => []NeverNeither
<1>1. Roles => NeverNeither
  BY DEF Roles, NeverNeither, Present, Before, Joining
<1> QED BY <1>1, RolesHold, PTL

-----------------------------------------------------------------------------
(* No gap and no repetition. *)

\* The snapshot that is on its way to v, with what is buffered behind it.
CatchingUp(v) ==
  LET n == marker[v] + Len(queued[v])
  IN /\ Caught(v) = Output(n)
     /\ since[v] <= n /\ n <= produced
     /\ bound => n = produced

Gapless ==
  \A v \in Viewers :
    /\ since[v] <= produced
    /\ mode[v] = "buffering" /\ v \in asked => CatchingUp(v)
    /\ mode[v] = "live" /\ bound => seen[v] = Output(produced)

\* What a step must leave alone to keep the part of v.
LEMMA GaplessFrame ==
  ASSUME TypeOK, Gapless, NEW v \in Viewers,
         UNCHANGED <<produced, since[v], marker[v], queued[v], seen[v]>>,
         bound' => bound,
         mode'[v] \in {mode[v], "out"}, v \in asked' => v \in asked
  PROVE  /\ (since[v] <= produced)'
         /\ (mode[v] = "buffering" /\ v \in asked => CatchingUp(v))'
         /\ (mode[v] = "live" /\ bound => seen[v] = Output(produced))'
<1>1. CatchingUp(v) => CatchingUp(v)'
  BY DEF CatchingUp, Caught, Output
<1>2. (seen[v] = Output(produced)) => (seen[v] = Output(produced))'
  BY DEF Output
<1>3. (since[v] <= produced)'
  BY DEF Gapless
<1>4. ASSUME mode'[v] = "buffering", v \in asked' PROVE CatchingUp(v)'
  <2>1. mode[v] = "buffering" /\ v \in asked
    BY <1>4
  <2> QED BY <2>1, <1>1 DEF Gapless
<1>5. ASSUME mode'[v] = "live", bound' PROVE (seen[v] = Output(produced))'
  <2>1. mode[v] = "live" /\ bound
    BY <1>5
  <2> QED BY <2>1, <1>2 DEF Gapless
<1> QED BY <1>3, <1>4, <1>5

LEMMA CaughtNext ==
  ASSUME TypeOK, NEW v \in Viewers, Caught(v) = Output(produced),
         produced + 1 \in 1 .. MaxOut
  PROVE  /\ Output(marker[v]) \o Append(queued[v], produced + 1)
              = Output(produced + 1)
         /\ Len(Append(queued[v], produced + 1)) = Len(queued[v]) + 1
<1>1. queued[v] \in Seq(1 .. MaxOut) /\ Output(marker[v]) \in Seq(1 .. MaxOut)
  BY OutputsType DEF TypeOK, Outputs
<1>2. Output(marker[v]) \o Append(queued[v], produced + 1)
        = Append(Caught(v), produced + 1)
  <2>1. \A s, t \in Seq(1 .. MaxOut), e \in 1 .. MaxOut :
          s \o Append(t, e) = Append(s \o t, e)
    BY ConcatAppend
  <2> QED BY <1>1, <2>1, Zenon DEF Caught
<1>3. produced \in Nat
  BY BoundsAssumption DEF TypeOK
<1>4. Append(Caught(v), produced + 1) = Output(produced + 1)
  BY <1>3, OutputNext
<1>5. Len(Append(queued[v], produced + 1)) = Len(queued[v]) + 1
  BY <1>1, AppendProperties
<1> QED BY <1>2, <1>4, <1>5

\* The invariant behind NothingMissing and the refinement.
THEOREM GaplessHolds == Spec => []Gapless
<1> USE BoundsAssumption, ActorsAssumption
<1>1. Init => Gapless
  BY DEF Init, Gapless
<1>2. TypeOK /\ Roles /\ Gapless /\ [Next]_vars => Gapless'
  <2> SUFFICES ASSUME TypeOK, Roles, Gapless, [Next]_vars,
                      NEW w \in Viewers
               PROVE  /\ (since[w] <= produced)'
                      /\ (mode[w] = "buffering" /\ w \in asked
                            => CatchingUp(w))'
                      /\ (mode[w] = "live" /\ bound
                            => seen[w] = Output(produced))'
    BY DEF Gapless
  <2> DEFINE Goal == /\ (since[w] <= produced)'
                     /\ (mode[w] = "buffering" /\ w \in asked
                           => CatchingUp(w))'
                     /\ (mode[w] = "live" /\ bound
                           => seen[w] = Output(produced))'
  <2>f. ASSUME UNCHANGED <<produced, since[w], marker[w], queued[w], seen[w]>>,
               bound' => bound,
               mode'[w] \in {mode[w], "out"}, w \in asked' => w \in asked
        PROVE  Goal
    BY <2>f, GaplessFrame
  <2> HIDE DEF Goal
  <2>0. /\ mode \in [Viewers -> {"out", "buffering", "live"}]
        /\ queued \in [Viewers -> Outputs] /\ seen \in [Viewers -> Outputs]
        /\ since \in [Viewers -> 0 .. MaxOut]
        /\ marker \in [Viewers -> 0 .. MaxOut]
        /\ produced \in 0 .. MaxOut
    BY DEF TypeOK
  <2> USE <2>0
  <2>1. ASSUME NEW v \in Viewers, Lookup(v) \/ Refuse(v) PROVE Goal
    BY <2>1, <2>f DEF Lookup, Refuse, bridgeVars, share, buffers, localView, wire
  <2>2. ASSUME NEW v \in Viewers, Insert(v) PROVE Goal
    <3>1. UNCHANGED <<produced, bound, asked, marker, queued, seen>>
      BY <2>2 DEF Insert, bridgeVars, buffers, localView
    <3>2. CASE UNCHANGED <<mode, since>>
      BY <3>1, <3>2, <2>f
    <3>3. CASE /\ mode' = [mode EXCEPT ![v] = "buffering"]
               /\ since' = [since EXCEPT ![v] = produced]
      <4>1. CASE w # v
        BY <3>1, <3>3, <4>1, <2>f
      <4>2. CASE w = v
        <5>1. w \notin asked
          BY <2>2, <4>2 DEF Insert, Roles, Before
        <5> QED BY <3>1, <3>3, <4>2, <5>1 DEF Goal
      <4> QED BY <4>1, <4>2
    <3>4. \/ UNCHANGED <<mode, since>>
          \/ /\ mode' = [mode EXCEPT ![v] = "buffering"]
             /\ since' = [since EXCEPT ![v] = produced]
      BY <2>2, Zenon DEF Insert
    <3> QED BY <3>2, <3>3, <3>4
  <2>3. ASSUME NEW a \in Actors, Announce(a) PROVE Goal
    BY <2>3, <2>f DEF Announce, bridgeVars, localView
  <2>4. ASSUME NEW a \in Actors, Show(a) PROVE Goal
    BY <2>4, <2>f DEF Show, bridgeVars, share, buffers, wire
  <2>5. ASSUME NEW v \in Viewers, Ask(v) PROVE Goal
    <3>1. UNCHANGED <<produced, bound, mode, since, seen>>
      BY <2>5 DEF Ask, bridgeVars, wire
    <3>2. CASE ~bound
      <4>1. UNCHANGED <<queued, marker, asked>>
        BY <2>5, <3>2, Zenon DEF Ask, buffers
      <4> QED BY <3>1, <4>1, <2>f
    <3>3. CASE bound
      <4>1. /\ asked' = asked \union {v}
            /\ marker' = [marker EXCEPT ![v] = produced]
        BY <2>5, <3>3, Zenon DEF Ask
      <4>2. mode[v] # "live"
        BY <2>5 DEF Ask, Roles, Joining
      <4>3. EmptyBuffers({v} \intersect Present)
        BY <2>5, <3>3, <4>2, Zenon DEF Ask, BeginBuffering
      <4>4. CASE w # v
        <5>1. queued'[w] = queued[w] /\ marker'[w] = marker[w]
          BY <4>1, <4>3, <4>4 DEF EmptyBuffers
        <5> QED BY <3>1, <4>1, <4>4, <5>1, <2>f
      <4>5. CASE w = v /\ mode[v] = "out"
        BY <3>1, <4>5 DEF Goal, Gapless
      <4>6. CASE w = v /\ mode[v] = "buffering"
        <5>1. queued'[v] = <<>> /\ marker'[v] = produced
          BY <4>1, <4>3, <4>6 DEF EmptyBuffers, Present
        <5>2. Caught(v)' = Output(produced) \o <<>>
          BY <5>1 DEF Caught, Output
        <5>3. Output(produced) \in Seq(1 .. MaxOut)
          BY OutputsType DEF Outputs
        <5>4. Caught(v)' = Output(produced) /\ Len(queued'[v]) = 0
          BY <5>1, <5>2, <5>3, ConcatEmptySeq
        <5>5. since[v] <= produced
          BY DEF Gapless
        <5>6. marker'[v] + Len(queued'[v]) = produced
          BY <5>1, <5>4
        <5>7. CatchingUp(v)'
          BY <3>1, <5>4, <5>5, <5>6 DEF CatchingUp, Output
        <5> QED BY <3>1, <4>6, <5>5, <5>7 DEF Goal
      <4> QED BY <4>2, <4>4, <4>5, <4>6
    <3> QED BY <3>2, <3>3
  <2>6. ASSUME NEW v \in Viewers, TaskEnds(v) PROVE Goal
    <3>1. mode'[w] \in {mode[w], "out"} /\ (w # v => queued'[w] = queued[w])
      BY <2>6 DEF TaskEnds, Remove, EmptyBuffers
    <3>2. UNCHANGED <<produced, bound, since, seen, marker, asked>>
      BY <2>6 DEF TaskEnds, bridgeVars, localView, wire
    <3>3. CASE w = v
      <4>1. mode'[w] = "out"
        BY <2>6, <3>3 DEF TaskEnds, Remove
      <4> QED BY <3>2, <4>1 DEF Goal, Gapless
    <3> QED BY <3>1, <3>2, <3>3, <2>f
  <2>7. ASSUME NEW v \in Viewers, SnapshotReady(v) PROVE Goal
    <3>1. /\ UNCHANGED <<produced, bound, since, marker>>
          /\ asked' = asked \ {v} /\ v \in asked
      BY <2>7 DEF SnapshotReady, bridgeVars
    <3>2. CASE v \notin Present
      <4>1. UNCHANGED <<seen, mode, queued>>
        BY <2>7, <3>2, Zenon DEF SnapshotReady, buffers
      <4> QED BY <3>1, <4>1, <2>f
    <3>3. CASE v \in Present
      <4>1. /\ seen' = [seen EXCEPT ![v] = Caught(v)]
            /\ mode' = [mode EXCEPT ![v] = "live"]
            /\ EmptyBuffers({v})
        BY <2>7, <3>3, Zenon DEF SnapshotReady
      <4>2. CASE w # v
        <5>1. queued'[w] = queued[w]
          BY <4>1, <4>2 DEF EmptyBuffers
        <5> QED BY <3>1, <4>1, <4>2, <5>1, <2>f
      <4>3. CASE w = v
        <5>1. mode[v] = "buffering"
          BY <3>1, <3>3 DEF Roles, Present
        <5>2. CatchingUp(v)
          BY <3>1, <5>1 DEF Gapless
        <5>3. bound => Caught(v) = Output(produced)
          BY <5>2 DEF CatchingUp
        <5>4. (bound => seen[v] = Output(produced))'
          BY <3>1, <4>1, <5>3 DEF Output
        <5> QED BY <3>1, <4>1, <4>3, <5>4 DEF Goal, Gapless
      <4> QED BY <4>2, <4>3
    <3> QED BY <3>2, <3>3
  <2>8. ASSUME NEW v \in Viewers, SnapshotUnknown(v) PROVE Goal
    BY <2>8, <2>f DEF SnapshotUnknown, bridgeVars, share, buffers, wire
  <2>9. ASSUME NEW v \in Viewers, Kick(v) PROVE Goal
    <3>1. mode'[w] \in {mode[w], "out"} /\ (w # v => queued'[w] = queued[w])
      BY <2>9 DEF Kick, Remove, EmptyBuffers
    <3>2. UNCHANGED <<produced, bound, since, seen, marker, asked>>
      BY <2>9 DEF Kick, bridgeVars, localView
    <3>3. CASE w = v
      <4>1. mode'[w] = "out"
        BY <2>9, <3>3 DEF Kick, Remove
      <4> QED BY <3>2, <4>1 DEF Goal, Gapless
    <3> QED BY <3>1, <3>2, <3>3, <2>f
  <2>10. ASSUME DispatchData PROVE Goal
    <3>1. /\ UNCHANGED <<bound, since, marker, asked>>
          /\ produced' = produced + 1
          /\ produced + 1 \in 1 .. MaxOut
      BY <2>10 DEF DispatchData, localView
    <3>2. since[w] <= produced
      BY DEF Gapless
    <3>3. CASE w \in Stalled
      <4>1. mode'[w] = "out"
        BY <2>10, <3>3 DEF DispatchData
      <4> QED BY <3>1, <3>2, <4>1 DEF Goal
    <3>4. CASE w \notin Stalled /\ ~bound
      <4>1. mode'[w] = mode[w] /\ queued'[w] = queued[w]
        BY <2>10, <3>4 DEF DispatchData
      <4>2. CatchingUp(w) => CatchingUp(w)'
        <5>1. Len(queued[w]) \in Nat
          BY DEF Outputs
        <5>2. Caught(w)' = Caught(w)
          BY <3>1, <4>1 DEF Caught, Output
        <5>3. (bound => marker[w] + Len(queued[w]) = produced)'
          BY <3>1, <3>4, Zenon
        <5> QED BY <3>1, <4>1, <5>1, <5>2, <5>3 DEF CatchingUp, Output
      <4> QED BY <3>1, <3>2, <3>4, <4>1, <4>2 DEF Goal, Gapless
    <3>5. CASE w \notin Stalled /\ bound /\ mode[w] = "live"
      <4>1. mode'[w] = mode[w] /\ seen'[w] = Append(seen[w], produced + 1)
        BY <2>10, <3>5 DEF DispatchData
      <4>2. seen[w] = Output(produced)
        BY <3>5 DEF Gapless
      <4>3. seen'[w] = Output(produced + 1)
        <5>1. produced \in Nat
          OBVIOUS
        <5> QED BY <4>1, <4>2, <5>1, OutputNext
      <4>4. (seen[w] = Output(produced))'
        BY <3>1, <4>3 DEF Output
      <4> QED BY <3>1, <3>2, <3>5, <4>1, <4>4 DEF Goal
    <3>6. CASE w \notin Stalled /\ bound /\ mode[w] = "buffering"
      <4>1. mode'[w] = mode[w] /\ queued'[w] = Append(queued[w], produced + 1)
        BY <2>10, <3>6 DEF DispatchData
      <4>2. CASE w \in asked
        <5>1. /\ Caught(w) = Output(produced)
              /\ marker[w] + Len(queued[w]) = produced
          BY <3>6, <4>2 DEF Gapless, CatchingUp
        <5>2. /\ Caught(w)' = Output(produced + 1)
              /\ Len(queued'[w]) = Len(queued[w]) + 1
          BY <3>1, <4>1, <5>1, CaughtNext DEF Caught, Output
        <5>3. Len(queued[w]) \in Nat
          BY DEF Outputs
        <5>4. (marker[w] + Len(queued[w]))' = produced + 1
          BY <3>1, <5>1, <5>2, <5>3
        <5>5. CatchingUp(w)'
          BY <3>1, <3>2, <5>2, <5>4 DEF CatchingUp, Output
        <5> QED BY <3>1, <3>2, <3>6, <4>1, <5>5 DEF Goal
      <4> QED BY <3>1, <3>2, <3>6, <4>1, <4>2 DEF Goal
    <3>7. CASE w \notin Stalled /\ mode[w] = "out"
      <4>1. mode'[w] = mode[w]
        BY <2>10, <3>7 DEF DispatchData
      <4> QED BY <3>1, <3>2, <3>7, <4>1 DEF Goal
    <3> QED BY <3>3, <3>4, <3>5, <3>6, <3>7
  <2>11. ASSUME Unbind \/ Unregister PROVE Goal
    <3>1. UNCHANGED <<produced, since, marker, queued, seen, mode, asked>>
      BY <2>11 DEF Unbind, Unregister, bridgeVars, share, buffers, localView,
                   wire
    <3>2. bound' => bound
      BY <2>11, Zenon DEF Unbind, Unregister, bridgeVars
    <3> QED BY <3>1, <3>2, <2>f
  <2>12. ASSUME EndAll PROVE Goal
    <3>1. mode'[w] = "out"
      BY <2>12 DEF EndAll, Remove, Present
    <3> QED BY <2>12, <3>1 DEF EndAll, bridgeVars, Goal, Gapless
  <2>13. ASSUME UNCHANGED vars PROVE Goal
    <3>1. UNCHANGED <<produced, since, marker, queued, seen, mode, asked, bound>>
      BY <2>13 DEF vars, bridgeVars, share, buffers, localView, wire
    <3> QED BY <3>1, <2>f
  <2>14. Goal
    <3>1. Viewers \subseteq Actors /\ Dispatcher \in Actors /\ Host \in Actors
      BY DEF Actors
    <3> QED BY <2>1, <2>2, <2>3, <2>4, <2>5, <2>6, <2>7, <2>8, <2>9, <2>10,
               <2>11, <2>12, <2>13, <3>1
            DEF Next, TaskStep, AnswerStep, CommandStep
  <2> QED BY <2>14 DEF Goal
<1> QED BY <1>1, <1>2, TypeCorrect, RolesHold, PTL DEF Spec

\* Nothing was broadcast past a viewer that follows a bound share.
THEOREM NothingMissingHolds == Spec => []NothingMissing
<1>1. Gapless => NothingMissing
  BY DEF Gapless, CatchingUp, NothingMissing
<1> QED BY <1>1, GaplessHolds, PTL

-----------------------------------------------------------------------------
(* The queue of a viewer that does not catch up. *)

\* A buffered viewer never holds more than MaxPending frames.
THEOREM QueueBoundedHolds == Spec => []QueueBounded
<1> USE BoundsAssumption, ActorsAssumption
<1>1. Init => QueueBounded
  BY DEF Init, QueueBounded, Frames
<1>2. TypeOK /\ QueueBounded /\ [Next]_vars => QueueBounded'
  <2> SUFFICES ASSUME TypeOK, QueueBounded, [Next]_vars, NEW w \in Viewers
               PROVE  Frames(w)' <= MaxPending
    BY DEF QueueBounded
  <2> DEFINE Goal == Frames(w)' <= MaxPending
  <2>f. ASSUME \/ queued'[w] = queued[w] /\ notices'[w] = notices[w]
               \/ queued'[w] = <<>> /\ notices'[w] = 0
        PROVE  Goal
    BY <2>f DEF QueueBounded, Frames
  <2> HIDE DEF Goal
  <2>0. /\ queued \in [Viewers -> Outputs]
        /\ notices \in [Viewers -> 0 .. MaxPending]
        /\ \A v \in Viewers : Len(queued[v]) \in Nat
    BY DEF TypeOK, Outputs
  <2> USE <2>0
  <2>1. ASSUME NEW v \in Viewers, Lookup(v) \/ Refuse(v) \/ Insert(v)
        PROVE  Goal
    BY <2>1, <2>f DEF Lookup, Refuse, Insert, share, buffers
  <2>2. ASSUME NEW a \in Actors, Announce(a) PROVE Goal
    <3>1. /\ queued' = queued
          /\ notices'[w] = IF mode[w] = "buffering" /\ Frames(w) < MaxPending
                           THEN notices[w] + 1 ELSE notices[w]
      BY <2>2 DEF Announce, Tell
    <3> QED BY <3>1 DEF Goal, QueueBounded, Frames
  <2>3. ASSUME NEW a \in Actors, Show(a) PROVE Goal
    BY <2>3, <2>f DEF Show, share, buffers
  <2>4. ASSUME NEW V \in SUBSET Viewers, EmptyBuffers(V) PROVE Goal
    BY <2>4, <2>f DEF EmptyBuffers
  <2>5. ASSUME NEW v \in Viewers, Ask(v) PROVE Goal
    <3>1. \/ UNCHANGED buffers
          \/ EmptyBuffers({v} \intersect Present)
      BY <2>5, Zenon DEF Ask, BeginBuffering
    <3> QED BY <3>1, <2>4, <2>f DEF buffers
  <2>6. ASSUME NEW v \in Viewers, TaskEnds(v) \/ Kick(v) PROVE Goal
    <3>1. EmptyBuffers({v})
      BY <2>6 DEF TaskEnds, Kick, Remove
    <3> QED BY <3>1, <2>4
  <2>7. ASSUME NEW v \in Viewers, AnswerStep(v) PROVE Goal
    <3>1. \/ UNCHANGED buffers
          \/ EmptyBuffers({v})
      BY <2>7, Zenon DEF AnswerStep, SnapshotReady, SnapshotUnknown, share
    <3> QED BY <3>1, <2>4, <2>f DEF buffers
  <2>8. ASSUME DispatchData PROVE Goal
    <3>1. CASE w \in Stalled
      BY <2>8, <3>1, <2>f DEF DispatchData
    <3>2. CASE w \notin Stalled /\ ~(bound /\ mode[w] = "buffering")
      <4>1. queued'[w] = queued[w] /\ notices'[w] = notices[w]
        BY <2>8, <3>2 DEF DispatchData
      <4> QED BY <4>1, <2>f
    <3>3. CASE w \notin Stalled /\ bound /\ mode[w] = "buffering"
      <4>1. /\ queued'[w] = Append(queued[w], produced + 1)
            /\ notices'[w] = notices[w]
        BY <2>8, <3>3 DEF DispatchData
      <4>2. Len(queued[w]) + notices[w] < MaxPending
        BY <3>3 DEF Stalled, Behind, Frames
      <4>3. Len(queued'[w]) = Len(queued[w]) + 1
        <5>1. queued[w] \in Seq(1 .. MaxOut) /\ produced + 1 \in 1 .. MaxOut
          BY <2>8 DEF DispatchData, TypeOK, Outputs
        <5> QED BY <4>1, <5>1, AppendProperties
      <4> QED BY <4>1, <4>2, <4>3 DEF Goal, Frames
    <3> QED BY <3>1, <3>2, <3>3
  <2>9. ASSUME Unbind \/ Unregister \/ UNCHANGED vars PROVE Goal
    BY <2>9, <2>f DEF Unbind, Unregister, vars, share, buffers
  <2>10. ASSUME EndAll PROVE Goal
    <3>1. EmptyBuffers(Present)
      BY <2>10 DEF EndAll, Remove
    <3>2. Present \in SUBSET Viewers
      BY DEF Present
    <3> QED BY <3>1, <3>2, <2>4
  <2>11. Goal
    <3>1. Viewers \subseteq Actors /\ Dispatcher \in Actors /\ Host \in Actors
      BY DEF Actors
    <3> QED BY <2>1, <2>2, <2>3, <2>5, <2>6, <2>7, <2>8, <2>9, <2>10, <3>1
            DEF Next, TaskStep, CommandStep
  <2> QED BY <2>11 DEF Goal
<1> QED BY <1>1, <1>2, TypeCorrect, PTL DEF Spec

-----------------------------------------------------------------------------
(* The count a viewer was told. *)

Announcing == \E a \in Actors : pc[a] \in {"announce", "farewell"}

\* What v was told, or will be told with its snapshot, is the number of viewers.
UpToDate(v) ==
  /\ mode[v] = "live" => told[v] \in {0, Cardinality(Present)}
  /\ mode[v] = "buffering" /\ notices[v] > 0 => notice[v] = Cardinality(Present)

\* Whoever changes the number of viewers is going to announce it, and the
\* announcement reaches everybody that it does not skip.
Counted ==
  /\ \A v \in Viewers : v \notin caught => told[v] = 0
  /\ Announcing \/ \A v \in Viewers \ skipped : UpToDate(v)

\* What a step must leave alone to keep Counted.
LEMMA CountedFrame ==
  ASSUME TypeOK, Counted,
         UNCHANGED <<mode, told, skipped>>, caught \subseteq caught',
         \A v \in Viewers :
           \/ notices'[v] = notices[v] /\ notice'[v] = notice[v]
           \/ notices'[v] = 0,
         \A a \in Actors :
           pc[a] \in {"announce", "farewell"} => pc'[a] = pc[a]
  PROVE  Counted'
<1>1. Announcing => Announcing'
  BY DEF Announcing
<1>2. Present' = Present
  BY DEF Present
<1>3. \A v \in Viewers : UpToDate(v) => UpToDate(v)'
  BY <1>2 DEF UpToDate
<1>4. \A v \in Viewers : v \notin caught' => told'[v] = 0
  BY DEF Counted
<1> QED BY <1>1, <1>3, <1>4 DEF Counted

\* A step after which somebody has yet to announce.
LEMMA CountedAnnouncing ==
  ASSUME Counted, UNCHANGED told, caught \subseteq caught',
         NEW a \in Actors, pc'[a] \in {"announce", "farewell"}
  PROVE  Counted'
BY DEF Counted, Announcing

\* The invariant behind CountNotStale.
THEOREM CountedHolds == Spec => []Counted
<1> USE ActorsAssumption
<1>1. Init => Counted
  BY DEF Init, Counted, UpToDate
<1>2. TypeOK /\ Roles /\ Counted /\ [Next]_vars => Counted'
  <2> SUFFICES ASSUME TypeOK, Roles, Counted, [Next]_vars PROVE Counted'
    OBVIOUS
  <2>0. /\ mode \in [Viewers -> {"out", "buffering", "live"}]
        /\ notices \in [Viewers -> 0 .. MaxPending]
        /\ notice \in [Viewers -> Counts] /\ told \in [Viewers -> Counts]
        /\ pc \in [Actors -> Stages]
        /\ Viewers \subseteq Actors /\ Dispatcher \in Actors /\ Host \in Actors
        /\ Present = {v \in Viewers : mode[v] # "out"}
    BY DEF TypeOK, Present, Actors
  <2> USE <2>0 DEF Goto, Stages
  <2>1. ASSUME NEW v \in Viewers, Lookup(v) \/ Refuse(v) PROVE Counted'
    BY <2>1, CountedFrame DEF Lookup, Refuse, share, buffers, wire
  <2>2. ASSUME NEW v \in Viewers, Insert(v) PROVE Counted'
    <3>1. UNCHANGED <<notices, notice, told, skipped, caught>> /\ pc[v] = "found"
      BY <2>2 DEF Insert, buffers
    <3>2. CASE stopped
      <4>1. UNCHANGED mode /\ pc' = [pc EXCEPT ![v] = "gone"]
        BY <2>2, <3>2, Zenon DEF Insert
      <4> QED BY <3>1, <4>1, CountedFrame
    <3>3. CASE ~stopped
      <4>1. pc' = [pc EXCEPT ![v] = "announce"]
        BY <2>2, <3>3, Zenon DEF Insert
      <4> QED BY <3>1, <4>1, CountedAnnouncing
    <3> QED BY <3>2, <3>3
  <2>3. ASSUME NEW a \in Actors, Announce(a) PROVE Counted'
    <3> DEFINE fits == {v \in Viewers :
                          mode[v] = "buffering" /\ Frames(v) < MaxPending}
    <3>1. UNCHANGED <<mode, caught>> /\ Present' = Present
      BY <2>3 DEF Announce, Present
    <3>2. /\ skipped' = {v \in Viewers : mode[v] = "buffering"} \ fits
          /\ told' = [v \in Viewers |-> IF mode[v] = "live"
                                        THEN Cardinality(Present) ELSE told[v]]
          /\ notice' = [v \in Viewers |-> IF v \in fits
                                          THEN Cardinality(Present) ELSE notice[v]]
      BY <2>3 DEF Announce, Tell
    <3>3. \A v \in Viewers : v \notin caught' => told'[v] = 0
      BY <3>1, <3>2 DEF Counted, Roles
    <3>4. ASSUME NEW v \in Viewers \ skipped' PROVE UpToDate(v)'
      BY <3>1, <3>2, <3>4 DEF UpToDate
    <3> QED BY <3>3, <3>4 DEF Counted
  <2>4. ASSUME NEW a \in Actors, Show(a) PROVE Counted'
    BY <2>4, CountedFrame DEF Show, share, buffers, wire
  <2>5. ASSUME NEW v \in Viewers, Ask(v) PROVE Counted'
    <3>1. \/ UNCHANGED buffers
          \/ EmptyBuffers({v} \intersect Present)
      BY <2>5, Zenon DEF Ask, BeginBuffering
    <3>2. /\ UNCHANGED <<mode, told, skipped, caught>>
          /\ pc[v] = "ask" /\ pc' = [pc EXCEPT ![v] = "reading"]
      BY <2>5 DEF Ask, wire
    <3>3. \A w \in Viewers : \/ notices'[w] = notices[w] /\ notice'[w] = notice[w]
                             \/ notices'[w] = 0
      BY <3>1 DEF buffers, EmptyBuffers
    <3> QED BY <3>2, <3>3, CountedFrame
  <2>6. ASSUME NEW v \in Viewers, TaskEnds(v) PROVE Counted'
    <3>1. /\ UNCHANGED <<told, skipped, caught>> /\ pc[v] = "reading"
          /\ EmptyBuffers({v})
          /\ mode' = [w \in Viewers |-> IF w \in {v} THEN "out" ELSE mode[w]]
      BY <2>6 DEF TaskEnds, Remove, wire
    <3>2. CASE v \in Present
      <4>1. pc'[v] = "farewell"
        BY <2>6, <3>2 DEF TaskEnds
      <4> QED BY <3>1, <4>1, CountedAnnouncing
    <3>3. CASE v \notin Present
      <4>1. pc' = [pc EXCEPT ![v] = "gone"] /\ mode' = mode
        BY <2>6, <3>1, <3>3 DEF TaskEnds
      <4>2. \A w \in Viewers : \/ notices'[w] = notices[w] /\ notice'[w] = notice[w]
                               \/ notices'[w] = 0
        BY <3>1 DEF EmptyBuffers
      <4> QED BY <3>1, <4>1, <4>2, CountedFrame
    <3> QED BY <3>2, <3>3
  <2>7. ASSUME NEW v \in Viewers, SnapshotReady(v) PROVE Counted'
    <3>1. UNCHANGED <<pc, skipped>> /\ v \in asked
      BY <2>7 DEF SnapshotReady, tasks
    <3>2. CASE v \notin Present
      <4>1. UNCHANGED <<mode, told, caught, notices, notice>>
        BY <2>7, <3>2, Zenon DEF SnapshotReady, buffers
      <4> QED BY <3>1, <4>1, CountedFrame
    <3>3. CASE v \in Present
      <4>1. /\ told' = [told EXCEPT ![v] = IF notices[v] > 0 THEN notice[v] ELSE @]
            /\ mode' = [mode EXCEPT ![v] = "live"]
            /\ caught' = caught \union {v}
            /\ EmptyBuffers({v})
        BY <2>7, <3>3, Zenon DEF SnapshotReady
      <4>2. mode[v] = "buffering" /\ told[v] = 0
        BY <3>1, <3>3 DEF Roles, Counted
      <4>3. Present' = Present
        BY <3>3, <4>1 DEF Present
      <4>4. \A w \in Viewers : w \notin caught' => told'[w] = 0
        BY <4>1 DEF Counted
      <4>5. Announcing => Announcing'
        BY <3>1 DEF Announcing
      <4>6. ASSUME NEW w \in Viewers, UpToDate(w) PROVE UpToDate(w)'
        <5>1. CASE w = v
          BY <4>1, <4>2, <4>3, <4>6, <5>1 DEF UpToDate
        <5>2. CASE w # v
          BY <4>1, <4>3, <4>6, <5>2 DEF UpToDate, EmptyBuffers
        <5> QED BY <5>1, <5>2
      <4> QED BY <3>1, <4>4, <4>5, <4>6 DEF Counted
    <3> QED BY <3>2, <3>3
  <2>8. ASSUME NEW v \in Viewers, SnapshotUnknown(v) PROVE Counted'
    BY <2>8, CountedFrame DEF SnapshotUnknown, share, buffers, tasks, wire
  <2>9. ASSUME NEW v \in Viewers, Kick(v) PROVE Counted'
    <3>1. UNCHANGED <<told, caught>> /\ pc'[Host] = "announce"
      BY <2>9 DEF Kick
    <3> QED BY <3>1, CountedAnnouncing
  <2>10. CASE DispatchData
    <3>1. UNCHANGED <<told, skipped, caught>>
      BY <2>10 DEF DispatchData
    <3>2. CASE Stalled = {}
      <4>1. /\ mode' = mode /\ notices' = notices /\ notice' = notice
            /\ pc[Dispatcher] = "idle"
            /\ pc' = [pc EXCEPT ![Dispatcher] = "idle"]
        BY <2>10, <3>2 DEF DispatchData, BridgeFree
      <4> QED BY <3>1, <4>1, CountedFrame
    <3>3. CASE Stalled # {}
      <4>1. pc'[Dispatcher] = "announce"
        BY <2>10, <3>3 DEF DispatchData
      <4> QED BY <3>1, <4>1, CountedAnnouncing
    <3> QED BY <3>2, <3>3
  <2>11. CASE Unbind \/ Unregister
    BY <2>11, CountedFrame DEF Unbind, Unregister, share, buffers, tasks, wire
  <2>12. CASE EndAll
    <3>1. UNCHANGED <<told, caught>> /\ \A v \in Viewers : mode'[v] = "out"
      BY <2>12 DEF EndAll, Remove, Present
    <3> QED BY <3>1 DEF Counted, UpToDate
  <2>13. CASE UNCHANGED vars
    BY <2>13, CountedFrame DEF vars, share, buffers, tasks, wire
  <2> QED BY <2>1, <2>2, <2>3, <2>4, <2>5, <2>6, <2>7, <2>8, <2>9, <2>10,
             <2>11, <2>12, <2>13
          DEF Next, TaskStep, AnswerStep, CommandStep
<1> QED BY <1>1, <1>2, TypeCorrect, RolesHold, PTL DEF Spec

\* Once the announcements are done, no live viewer holds an old number of
\* viewers, unless the last of them skipped it.
THEOREM CountNotStaleHolds == Spec => []CountNotStale
<1>1. Counted => CountNotStale
  <2>1. Settled => ~Announcing
    BY DEF Settled, Announcing
  <2> QED BY <2>1 DEF Counted, UpToDate, CountNotStale
<1> QED BY <1>1, CountedHolds, PTL

-----------------------------------------------------------------------------
(* What a viewer is promised. *)

\* A shared terminal implements ViewerStream: every step enters a viewer, sends
\* it its one snapshot with what was buffered, produces output for those that
\* follow, cuts viewers off, or is not seen by them.
THEOREM ImplementsViewerStream == Spec => StreamSpec
<1> USE BoundsAssumption, ActorsAssumption
<1>1. Init => Stream!Init
  BY DEF Init, Stream!Init
<1>2. TypeOK /\ Roles /\ Gapless /\ [Next]_vars
        => [Stream!Next]_(Stream!vars)
  <2> SUFFICES ASSUME TypeOK, Roles, Gapless, [Next]_vars
               PROVE  Stream!Next \/ UNCHANGED Stream!vars
    OBVIOUS
  <2> DEFINE Goal == Stream!Next \/ UNCHANGED Stream!vars
  <2>s. ASSUME UNCHANGED <<produced, wire>> PROVE Goal
    BY <2>s DEF wire, Stream!vars
  <2>c. ASSUME ended \subseteq ended',
               UNCHANGED <<produced, since, seen, caught>>
        PROVE  Goal
    BY <2>c DEF Stream!Next, Stream!CutOff
  <2>0. /\ seen \in [Viewers -> Outputs]
        /\ since \in [Viewers -> 0 .. MaxOut]
        /\ produced \in 0 .. MaxOut
    BY DEF TypeOK
  <2>1. ASSUME NEW v \in Viewers, Lookup(v) \/ Refuse(v) PROVE Goal
    <3>1. UNCHANGED <<produced, wire>>
      BY <2>1 DEF Lookup, Refuse, bridgeVars
    <3> QED BY <3>1, <2>s
  <2>2. ASSUME NEW v \in Viewers, Insert(v) PROVE Goal
    <3>1. UNCHANGED <<produced, seen, caught>>
      BY <2>2 DEF Insert, bridgeVars
    <3>2. CASE ended' = ended \union {v} /\ UNCHANGED since
      BY <3>1, <3>2, <2>c
    <3>3. CASE since' = [since EXCEPT ![v] = produced] /\ UNCHANGED ended
      <4>1. v \notin caught \union ended
        BY <2>2 DEF Insert, Roles, Before
      <4>2. Stream!Enter(v)
        BY <3>1, <3>3, <4>1 DEF Stream!Enter
      <4> QED BY <4>2 DEF Stream!Next
    <3>4. \/ ended' = ended \union {v} /\ UNCHANGED since
          \/ since' = [since EXCEPT ![v] = produced] /\ UNCHANGED ended
      BY <2>2, Zenon DEF Insert
    <3> QED BY <3>2, <3>3, <3>4
  <2>3. ASSUME NEW a \in Actors, Announce(a) \/ Show(a) PROVE Goal
    <3>1. UNCHANGED <<produced, since, seen, caught, ended>>
      BY <2>3 DEF Announce, Show, bridgeVars, wire
    <3> QED BY <3>1 DEF Stream!vars
  <2>4. ASSUME NEW v \in Viewers, Ask(v) \/ TaskEnds(v) \/ SnapshotUnknown(v)
        PROVE  Goal
    <3>1. UNCHANGED <<produced, wire>>
      BY <2>4 DEF Ask, TaskEnds, SnapshotUnknown, bridgeVars
    <3> QED BY <3>1, <2>s
  <2>5. ASSUME NEW v \in Viewers, SnapshotReady(v) PROVE Goal
    <3>1. UNCHANGED <<produced, since, ended>> /\ v \in asked
      BY <2>5 DEF SnapshotReady, bridgeVars
    <3>2. CASE v \notin Present
      <4>1. UNCHANGED <<seen, caught>>
        BY <2>5, <3>2, Zenon DEF SnapshotReady
      <4> QED BY <3>1, <4>1 DEF Stream!vars
    <3>3. CASE v \in Present
      <4>1. /\ seen' = [seen EXCEPT ![v] = Caught(v)]
            /\ caught' = caught \union {v}
        BY <2>5, <3>3, Zenon DEF SnapshotReady
      <4>2. mode[v] = "buffering"
        BY <3>1, <3>3 DEF Roles, Present, TypeOK
      <4>3. v \notin caught \union ended
        BY <4>2 DEF Roles
      <4>4. CatchingUp(v)
        BY <3>1, <4>2 DEF Gapless
      <4> DEFINE n == marker[v] + Len(queued[v])
      <4>5. n \in since[v] .. produced
        <5>1. marker[v] \in Nat /\ Len(queued[v]) \in Nat
          BY DEF TypeOK, Outputs
        <5> QED BY <2>0, <4>4, <5>1 DEF CatchingUp
      <4>6. seen' = [seen EXCEPT ![v] = [i \in 1 .. n |-> i]]
        BY <4>1, <4>4 DEF CatchingUp, Output
      <4>7. Stream!CatchUp(v)
        BY <3>1, <4>1, <4>3, <4>5, <4>6 DEF Stream!CatchUp
      <4> QED BY <4>7 DEF Stream!Next
    <3> QED BY <3>2, <3>3
  <2>6. ASSUME NEW v \in Viewers, Kick(v) PROVE Goal
    <3>1. /\ UNCHANGED <<produced, since, seen, caught>>
          /\ ended \subseteq ended'
      BY <2>6 DEF Kick, bridgeVars
    <3> QED BY <3>1, <2>c
  <2>7. ASSUME DispatchData PROVE Goal
    <3> DEFINE S == {v \in Viewers : bound /\ mode[v] = "live"}
    <3>1. /\ UNCHANGED <<since, caught>>
          /\ produced' = produced + 1
          /\ ended \subseteq ended'
      BY <2>7 DEF DispatchData
    <3>2. seen' = [v \in Viewers |-> IF v \in S THEN Append(seen[v], produced + 1)
                                     ELSE seen[v]]
      BY <2>7, Zenon DEF DispatchData
    <3>3. \A v \in S : v \in caught \ ended /\ Len(seen[v]) = produced
      <4> SUFFICES ASSUME NEW v \in S
                   PROVE  v \in caught \ ended /\ Len(seen[v]) = produced
        OBVIOUS
      <4>1. v \in caught \ ended
        BY DEF Roles
      <4>2. seen[v] = Output(produced)
        BY DEF Gapless
      <4> QED BY <2>0, <4>1, <4>2, OutputType
    <3>4. S \in SUBSET {v \in caught \ ended : Len(seen[v]) = produced}
      BY <3>3
    <3>5. Stream!Produce
      BY <3>1, <3>2, <3>4 DEF Stream!Produce
    <3> QED BY <3>5 DEF Stream!Next
  <2>8. ASSUME Unbind \/ Unregister PROVE Goal
    <3>1. UNCHANGED <<produced, wire>>
      BY <2>8 DEF Unbind, Unregister, bridgeVars
    <3> QED BY <3>1, <2>s
  <2>9. ASSUME EndAll PROVE Goal
    <3>1. /\ UNCHANGED <<produced, since, seen, caught>>
          /\ ended \subseteq ended'
      BY <2>9 DEF EndAll, bridgeVars
    <3> QED BY <3>1, <2>c
  <2>10. ASSUME UNCHANGED vars PROVE Goal
    BY <2>10, <2>s DEF vars, bridgeVars
  <2> HIDE DEF Goal
  <2>11. Goal
    <3>1. Viewers \subseteq Actors /\ Dispatcher \in Actors /\ Host \in Actors
      BY DEF Actors
    <3> QED BY <2>1, <2>2, <2>3, <2>4, <2>5, <2>6, <2>7, <2>8, <2>9, <2>10,
               <3>1
            DEF Next, TaskStep, AnswerStep, CommandStep
  <2> QED BY <2>11 DEF Goal
<1> QED BY <1>1, <1>2, TypeCorrect, RolesHold, GaplessHolds, PTL
       DEF Spec, StreamSpec, Stream!Spec
=============================================================================
