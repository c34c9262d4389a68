------------------------ MODULE AgentSessionProofs ------------------------
(***************************************************************************)
(* Theorems about AgentSession for every set of calls and every bound:     *)
(* nothing runs that was not allowed, a stop ends the turn, every tool     *)
(* call is answered before the next request to the model, and the types.   *)
(***************************************************************************)
EXTENDS AgentSession, SequenceTheorems, TLAPS

----------------------------------------------------------------------------
(* What RefusedNeverRuns rests on.  A call gets as far as the gate only if *)
(* its name is known; the gate's map holds no other call than the one the  *)
(* thread is parked on; an Allow the thread has not read yet was given to  *)
(* that call.  Without the last two an Allow could reach the wrong call.   *)

AtGate == {"parked", "timed_out"}

KnownAtGate == pc \in AtGate \cup {"ask"} => Head(todo) \notin UnknownCalls

OneWaits ==
  /\ waiting \subseteq IF pc \in AtGate THEN {Head(todo)} ELSE {}
  /\ reply # "none" => waiting = {}

AllowIsForHead == reply = "allow" => pc \in AtGate /\ Head(todo) \in approved

GateInv == RefusedNeverRuns /\ KnownAtGate /\ OneWaits /\ AllowIsForHead

LEMMA GateInit == Init => GateInv
BY DEF Init, GateInv, RefusedNeverRuns, KnownAtGate, OneWaits, AllowIsForHead, AtGate

(* Every step of the thread keeps the gate's invariant.                    *)
LEMMA GateThread == GateInv /\ Thread => GateInv'
<1> SUFFICES ASSUME GateInv, Thread PROVE GateInv'
  OBVIOUS
<1> USE DEF GateInv, RefusedNeverRuns, KnownAtGate, OneWaits, AllowIsForHead, AtGate
<1>1. CASE Recv
  BY <1>1 DEF Recv, histVars
<1>2. CASE Compact
  BY <1>2 DEF Compact, EndTurn, gateVars
<1>3. CASE Check
  BY <1>3 DEF Check, EndTurn, gateVars
<1>4. CASE StreamFails
  BY <1>4 DEF StreamFails, EndTurn, gateVars
<1>5. CASE Stream
  BY <1>5 DEF Stream, EndTurn, gateVars
<1>6. CASE NextCall
  BY <1>6 DEF NextCall, Finish, gateVars, histVars
<1>7. CASE Ask
  BY <1>7 DEF Ask, loopVars
<1>8. CASE Answered
  BY <1>8 DEF Answered, Finish
<1>9. CASE TimedOut
  BY <1>9 DEF TimedOut, Finish, histVars
<1>10. CASE Executed
  BY <1>10 DEF Executed, Finish, gateVars, histVars
<1>11. CASE RoundEnds
  BY <1>11 DEF RoundEnds, EndTurn, gateVars, histVars
<1>12. CASE AppendMessage
  BY <1>12 DEF AppendMessage, loopVars, gateVars, histVars
<1>13. CASE PumpEnds
  BY <1>13 DEF PumpEnds, loopVars, gateVars, histVars
<1> QED
  BY <1>1, <1>2, <1>3, <1>4, <1>5, <1>6, <1>7, <1>8, <1>9, <1>10, <1>11,
     <1>12, <1>13 DEF Thread

(* So does everything that happens beside the thread.                      *)
LEMMA GateStep == GateInv /\ [Next]_vars => GateInv'
<1> SUFFICES ASSUME GateInv, [Next]_vars PROVE GateInv'
  OBVIOUS
<1> USE DEF GateInv, RefusedNeverRuns, KnownAtGate, OneWaits, AllowIsForHead, AtGate
<1>1. CASE Thread
  BY <1>1, GateThread
<1>2. CASE Timeout
  BY <1>2 DEF Timeout, loopVars, gateVars, histVars
<1>3. CASE Prompt
  BY <1>3 DEF Prompt, loopVars, gateVars, histVars
<1>4. CASE Cancel
  BY <1>4 DEF Cancel, StopCancel, loopVars
<1>5. CASE Close
  BY <1>5 DEF Close, StopCancel, loopVars
<1>6. CASE StopRelease
  BY <1>6 DEF StopRelease, loopVars, histVars
<1>7. ASSUME NEW c \in Calls, NEW d \in {"allow", "deny"}, Answer(c, d)
      PROVE  GateInv'
  BY <1>7 DEF Answer, loopVars
<1>8. CASE Crash
  BY <1>8 DEF Crash, loopVars, histVars
<1>9. CASE Start
  BY <1>9 DEF Start
<1>10. CASE UNCHANGED vars
  BY <1>10 DEF vars, loopVars, gateVars, histVars
<1> QED
  BY <1>1, <1>2, <1>3, <1>4, <1>5, <1>6, <1>7, <1>8, <1>9, <1>10 DEF Next

(* A tool runs only if a rule allows it or a user allowed that very call   *)
(* while it waited; one with an unknown name never runs (permission.rs,    *)
(* UiGate in agent_bridge.rs).                                             *)
THEOREM NothingRefusedRuns == Spec => []RefusedNeverRuns
<1>1. GateInv => RefusedNeverRuns
  BY DEF GateInv
<1> QED
  BY <1>1, GateInit, GateStep, PTL DEF Spec

----------------------------------------------------------------------------
(* What StopEndsTurn rests on.  The token stays set until the next prompt  *)
(* or start, so a turn that has begun work after the stop is past every    *)
(* place that begins some; a turn stopped at its tools is still at them,   *)
(* or has ended as cancelled.                                              *)

WorkBounded ==
  /\ work \in {0, 1}
  /\ work = 1 => (cancelled \/ pc = "dead") /\ pc \notin {"compact", "stream", "ask"}

StoppedAtTools ==
  stopAt \in AtTools =>
    \/ pc = "dead"
    \/ cancelled /\ pc \in AtTools
    \/ cancelled /\ pc \in {"append", "recv", "gone"} /\ reason = "cancelled"

StopInv == WorkBounded /\ StoppedAtTools

LEMMA StopInit == Init => StopInv
BY DEF Init, StopInv, WorkBounded, StoppedAtTools, AtTools

(* Every step of the thread keeps it.                                      *)
LEMMA StopThread == StopInv /\ Thread => StopInv'
<1> SUFFICES ASSUME StopInv, Thread PROVE StopInv'
  OBVIOUS
<1> USE DEF StopInv, WorkBounded, StoppedAtTools, AtTools
<1>1. CASE Recv
  BY <1>1 DEF Recv
<1>2. CASE Compact
  BY <1>2 DEF Compact, Begin, EndTurn, gateVars
<1>3. CASE Check
  BY <1>3 DEF Check, EndTurn, gateVars
<1>4. CASE StreamFails
  BY <1>4 DEF StreamFails, Begin, EndTurn, gateVars
<1>5. CASE Stream
  BY <1>5 DEF Stream, Begin, EndTurn, gateVars
<1>6. CASE NextCall
  BY <1>6 DEF NextCall, Finish, gateVars, histVars
<1>7. CASE Ask
  BY <1>7 DEF Ask, Begin, loopVars
<1>8. CASE Answered
  BY <1>8 DEF Answered, Finish
<1>9. CASE TimedOut
  BY <1>9 DEF TimedOut, Finish, histVars
<1>10. CASE Executed
  BY <1>10 DEF Executed, Finish, gateVars, histVars
<1>11. CASE RoundEnds
  BY <1>11 DEF RoundEnds, EndTurn, gateVars, histVars
<1>12. CASE AppendMessage
  BY <1>12 DEF AppendMessage, loopVars, gateVars, histVars
<1>13. CASE PumpEnds
  BY <1>13 DEF PumpEnds, loopVars, gateVars, histVars
<1> QED
  BY <1>1, <1>2, <1>3, <1>4, <1>5, <1>6, <1>7, <1>8, <1>9, <1>10, <1>11,
     <1>12, <1>13 DEF Thread

(* So does everything that happens beside the thread.                      *)
LEMMA StopStep == StopInv /\ [Next]_vars => StopInv'
<1> SUFFICES ASSUME StopInv, [Next]_vars PROVE StopInv'
  OBVIOUS
<1> USE DEF StopInv, WorkBounded, StoppedAtTools, AtTools
<1>1. CASE Thread
  BY <1>1, StopThread
<1>2. CASE Timeout
  BY <1>2 DEF Timeout, loopVars, gateVars, histVars
<1>3. CASE Prompt
  BY <1>3 DEF Prompt, loopVars, gateVars, histVars
<1>4. CASE Cancel
  BY <1>4 DEF Cancel, StopCancel, loopVars
<1>5. CASE Close
  BY <1>5 DEF Close, StopCancel, loopVars
<1>6. CASE StopRelease
  BY <1>6 DEF StopRelease, loopVars, histVars
<1>7. ASSUME NEW c \in Calls, NEW d \in {"allow", "deny"}, Answer(c, d)
      PROVE  StopInv'
  BY <1>7 DEF Answer, loopVars
<1>8. CASE Crash
  BY <1>8 DEF Crash, loopVars, histVars
<1>9. CASE Start
  BY <1>9 DEF Start
<1>10. CASE UNCHANGED vars
  BY <1>10 DEF vars, loopVars, gateVars, histVars
<1> QED
  BY <1>1, <1>2, <1>3, <1>4, <1>5, <1>6, <1>7, <1>8, <1>9, <1>10 DEF Next

(* After a stop at most one more request or approval begins, and a turn    *)
(* stopped at its tools ends as cancelled (the checks of CancelToken in    *)
(* Session::prompt).                                                       *)
THEOREM StopsEndTurns == Spec => []StopEndsTurn
<1>1. StopInv => StopEndsTurn
  <2> SUFFICES ASSUME StopInv PROVE StopEndsTurn
    OBVIOUS
  <2>1. work <= 1
    BY SMT DEF StopInv, WorkBounded
  <2>2. stopAt \in AtTools /\ pc \in {"append", "recv"} => reason = "cancelled"
    BY Zenon DEF StopInv, StoppedAtTools, AtTools
  <2> QED
    BY <2>1, <2>2 DEF StopEndsTurn
<1> QED
  BY <1>1, StopInit, StopStep, PTL DEF Spec

----------------------------------------------------------------------------
(* Facts about the operators.  The two sequences of ConcatIndex are joined *)
(* under a name, since the provers unfold \o in place.                     *)

LEMMA ConcatIndex ==
  ASSUME NEW S, NEW s \in Seq(S), NEW t \in Seq(S)
  PROVE  /\ s \o t \in Seq(S) /\ Len(s \o t) = Len(s) + Len(t)
         /\ \A i \in 1 .. Len(s) : (s \o t)[i] = s[i]
         /\ \A i \in Len(s) + 1 .. Len(s) + Len(t) : (s \o t)[i] = t[i - Len(s)]
<1>1. /\ s \o t \in Seq(S) /\ Len(s \o t) = Len(s) + Len(t)
      /\ \A i \in 1 .. Len(s) + Len(t) :
           (s \o t)[i] = IF i <= Len(s) THEN s[i] ELSE t[i - Len(s)]
  BY ConcatProperties
<1> DEFINE c == s \o t
<1>2. /\ c \in Seq(S) /\ Len(c) = Len(s) + Len(t)
      /\ \A i \in 1 .. Len(s) + Len(t) :
           c[i] = IF i <= Len(s) THEN s[i] ELSE t[i - Len(s)]
  BY <1>1, Zenon
<1> HIDE DEF c
<1>3. \A i \in 1 .. Len(s) : c[i] = s[i]
  BY <1>2
<1>4. \A i \in Len(s) + 1 .. Len(s) + Len(t) : c[i] = t[i - Len(s)]
  BY <1>2
<1> QED
  BY <1>2, <1>3, <1>4, Zenon DEF c

LEMMA CompactedProperties ==
  ASSUME NEW S, NEW ms \in Seq(S), User(0) \in S, Len(ms) > KeepRecent + 1,
         NEW split, split = Len(ms) - KeepRecent
  PROVE  /\ Compacted(ms) \in Seq(S)
         /\ Len(Compacted(ms)) = KeepRecent + 2
         /\ Compacted(ms)[1] = ms[1]
         /\ Compacted(ms)[2] = User(0)
         /\ \A i \in 3 .. KeepRecent + 2 :
              Compacted(ms)[i] = ms[i + split - 2]
<1> DEFINE front == SubSeq(ms, 1, 1)
           mid == <<User(0)>>
           back == SubSeq(ms, split + 1, Len(ms))
           start == front \o mid
           all == start \o back
<1>1. KeepRecent \in Nat /\ Len(ms) \in Nat /\ split \in Nat
  BY BoundsAssumption, LenProperties
<1>2. /\ front \in Seq(S) /\ Len(front) = 1 /\ front[1] = ms[1]
  <2>1. \A i \in 1 .. 1 : ms[i] \in S
    BY <1>1, ElementOfSeq
  <2> QED BY <2>1, SubSeqProperties
<1>3. /\ back \in Seq(S) /\ Len(back) = KeepRecent
      /\ \A i \in 1 .. KeepRecent : back[i] = ms[split + i]
  <2>1. \A i \in split + 1 .. Len(ms) : ms[i] \in S
    BY <1>1, ElementOfSeq
  <2>2. /\ back \in Seq(S)
        /\ Len(back) = IF split + 1 <= Len(ms) THEN Len(ms) - (split + 1) + 1 ELSE 0
        /\ \A i \in 1 .. Len(ms) - (split + 1) + 1 : back[i] = ms[split + 1 + i - 1]
    BY <1>1, <2>1, SubSeqProperties
  <2> QED BY <1>1, <2>2
<1>4. mid \in Seq(S) /\ Len(mid) = 1 /\ mid[1] = User(0)
  OBVIOUS
<1> HIDE DEF front, back, mid
<1>5. /\ start \in Seq(S) /\ Len(start) = Len(front) + Len(mid)
      /\ \A i \in 1 .. Len(front) : start[i] = front[i]
      /\ \A i \in Len(front) + 1 .. Len(front) + Len(mid) :
           start[i] = mid[i - Len(front)]
  BY <1>2, <1>4, ConcatIndex, Zenon
<1> HIDE DEF start
<1>6. Len(start) = 2 /\ start[1] = ms[1] /\ start[2] = User(0)
  BY <1>2, <1>4, <1>5
<1>7. /\ all \in Seq(S) /\ Len(all) = Len(start) + Len(back)
      /\ \A i \in 1 .. Len(start) : all[i] = start[i]
      /\ \A i \in Len(start) + 1 .. Len(start) + Len(back) :
           all[i] = back[i - Len(start)]
  <2>1. start \in Seq(S) /\ back \in Seq(S)
    BY <1>3, <1>5
  <2> QED BY <2>1, ConcatIndex, Zenon
<1> HIDE DEF all
<1>8. /\ Len(all) = KeepRecent + 2 /\ all[1] = ms[1] /\ all[2] = User(0)
      /\ \A i \in 3 .. KeepRecent + 2 : all[i] = ms[i + split - 2]
  BY <1>1, <1>3, <1>6, <1>7
<1>9. Compacted(ms) = all
  BY Zenon DEF Compacted, all, start, front, mid, back
<1> QED BY <1>7, <1>8, <1>9, Zenon

----------------------------------------------------------------------------
(* Types, in three parts a step proof can take one at a time.  A tool call *)
(* at the gate is the head of a list that is not empty; a prompt starts    *)
(* with its round at zero, and another round begins only below the ceiling.*)

Flags == {cancelled, stopping, open, failed, torn} \subseteq BOOLEAN

Control ==
  /\ pc \in Stages /\ turn \in 0..MaxRounds /\ reason \in Reasons
  /\ sent \in 0..MaxPrompts /\ starts \in 1..MaxStarts
  /\ waiting \subseteq Calls /\ reply \in {"none", "allow", "deny"}
  /\ approved \subseteq Calls /\ ran \subseteq Calls /\ asked \subseteq Calls
  /\ old \subseteq Calls /\ work \in Nat /\ stopAt \in Stages \cup {"none"}
  /\ pc = "compact" => turn = 0
  /\ pc = "check" => turn < MaxRounds

Lists ==
  /\ queue \in Seq(1..MaxPrompts)
  /\ messages \in Seq(Message) /\ log \in Seq(Message) /\ written \in Nat
  /\ todo \in Seq(Calls)

TodoAtTools ==
  /\ pc \in AtTools \ {"tools"} => todo # <<>>
  /\ pc \notin AtTools \cup {"dead"} => todo = <<>>

TypeInv == Flags /\ Control /\ Lists /\ TodoAtTools

LEMMA UserIsMessage == \A p \in 0..MaxPrompts : User(p) \in Message
BY DEF User, Message

LEMMA ResultIsMessage == \A c \in Calls : Result(c) \in Message
BY DEF Result, Message

LEMMA AnswersProperties ==
  ASSUME NEW cs \in Answers
  PROVE  /\ cs \in Seq(Calls) /\ Range(cs) \subseteq Calls
         /\ Assistant(cs) \in Message
<1>1. PICK n \in 0..2 : cs \in [1..n -> Calls \ asked]
  BY DEF Answers
<1>2. cs \in Seq(Calls)
  BY <1>1, SeqDef
<1>3. Range(cs) \subseteq Calls
  BY <1>1 DEF Range
<1> QED BY <1>2, <1>3 DEF Assistant, Message

LEMMA CompactedIsMessages ==
  ASSUME NEW ms \in Seq(Message), Len(ms) > KeepRecent + 1
  PROVE  Compacted(ms) \in Seq(Message)
<1>1. User(0) \in Message
  BY BoundsAssumption, UserIsMessage
<1> QED BY <1>1, CompactedProperties

(* The head of the list that Finish answers, and what it leaves.           *)
LEMMA TodoHead ==
  ASSUME Lists, todo # <<>>
  PROVE  Head(todo) \in Calls /\ Tail(todo) \in Seq(Calls)
BY DEF Lists

LEMMA FinishLists ==
  ASSUME Lists, todo # <<>>, Finish(Head(todo))
  PROVE  messages' \in Seq(Message) /\ todo' \in Seq(Calls)
<1>1. Result(Head(todo)) \in Message
  BY TodoHead, ResultIsMessage
<1> QED BY <1>1, TodoHead DEF Finish, Lists

LEMMA TypeInit == Init => TypeInv
<1> SUFFICES ASSUME Init PROVE TypeInv
  OBVIOUS
<1>1. Flags
  BY DEF Init, Flags
<1>2. Control
  BY BoundsAssumption DEF Init, Control, Stages, Idle, Reasons
<1>3. Lists /\ TodoAtTools
  BY DEF Init, Lists, TodoAtTools, AtTools
<1> QED BY <1>1, <1>2, <1>3 DEF TypeInv

LEMMA FlagsThread == Flags /\ Thread => Flags'
<1> SUFFICES ASSUME Flags, Thread PROVE Flags'
  OBVIOUS
<1> USE BoundsAssumption DEF Flags, Emit
<1>1. CASE Recv
  BY <1>1 DEF Recv
<1>2. CASE Compact
  BY <1>2 DEF Compact, EndTurn, gateVars, userVars
<1>3. CASE Check
  BY <1>3 DEF Check, EndTurn, gateVars, userVars
<1>4. CASE StreamFails
  BY <1>4 DEF StreamFails, EndTurn, gateVars, userVars
<1>5. CASE Stream
  BY <1>5 DEF Stream, EndTurn, gateVars, userVars
<1>6. CASE NextCall
  BY <1>6 DEF NextCall, Finish, gateVars, userVars
<1>7. CASE Ask
  BY <1>7 DEF Ask, userVars
<1>8. CASE Answered
  BY <1>8 DEF Answered, Finish, userVars
<1>9. CASE TimedOut
  BY <1>9 DEF TimedOut, Finish, userVars
<1>10. CASE Executed
  BY <1>10 DEF Executed, Finish, gateVars, userVars
<1>11. CASE RoundEnds
  BY <1>11 DEF RoundEnds, EndTurn, gateVars, userVars
<1>12. CASE AppendMessage
  BY <1>12 DEF AppendMessage, gateVars, userVars
<1>13. CASE PumpEnds
  BY <1>13 DEF PumpEnds, gateVars, diskVars, userVars
<1> QED
  BY <1>1, <1>2, <1>3, <1>4, <1>5, <1>6, <1>7, <1>8, <1>9, <1>10, <1>11,
     <1>12, <1>13 DEF Thread

LEMMA ControlThread == TypeInv /\ Thread => Control' /\ TodoAtTools'
<1> SUFFICES ASSUME TypeInv, Thread PROVE Control' /\ TodoAtTools'
  OBVIOUS
<1>0. Flags /\ Control /\ Lists /\ TodoAtTools
  BY DEF TypeInv
<1>00. todo # <<>> => Head(todo) \in Calls
  BY <1>0, TodoHead
<1> USE BoundsAssumption DEF Control, TodoAtTools, Stages, Idle, AtTools, Reasons
<1>1. CASE Recv
  BY <1>0, <1>1 DEF Recv
<1>2. CASE Compact
  BY <1>0, <1>2 DEF Compact, Begin, EndTurn, gateVars, userVars
<1>3. CASE Check
  BY <1>0, <1>3 DEF Check, EndTurn, gateVars, userVars
<1>4. CASE StreamFails
  BY <1>0, <1>4 DEF StreamFails, Begin, EndTurn, gateVars, userVars
<1>5. CASE Stream
  BY <1>0, <1>5, AnswersProperties DEF Stream, Begin, EndTurn, gateVars, userVars
<1>6. CASE NextCall
  BY <1>0, <1>6 DEF NextCall, Finish, gateVars, histVars, userVars
<1>7. CASE Ask
  BY <1>0, <1>00, <1>7 DEF Ask, Begin, loopVars, userVars
<1>8. CASE Answered
  BY <1>0, <1>00, <1>8 DEF Answered, Finish, userVars
<1>9. CASE TimedOut
  BY <1>0, <1>9 DEF TimedOut, Finish, histVars, userVars
<1>10. CASE Executed
  BY <1>0, <1>10 DEF Executed, Finish, gateVars, histVars, userVars
<1>11. CASE RoundEnds
  BY <1>0, <1>11 DEF RoundEnds, EndTurn, gateVars, histVars, userVars
<1>12. CASE AppendMessage
  BY <1>0, <1>12 DEF AppendMessage, loopVars, gateVars, histVars, userVars
<1>13. CASE PumpEnds
  BY <1>0, <1>13 DEF PumpEnds, loopVars, gateVars, histVars, userVars
<1> QED
  BY <1>1, <1>2, <1>3, <1>4, <1>5, <1>6, <1>7, <1>8, <1>9, <1>10, <1>11,
     <1>12, <1>13 DEF Thread

LEMMA ListsThread == TypeInv /\ Thread => Lists'
<1> SUFFICES ASSUME TypeInv, Thread PROVE Lists'
  OBVIOUS
<1>0. Lists /\ TodoAtTools /\ KeepRecent \in Nat
  BY BoundsAssumption DEF TypeInv
<1> USE DEF Lists
<1>1. CASE Recv
  <2>1. Head(queue) \in 1..MaxPrompts /\ Tail(queue) \in Seq(1..MaxPrompts)
    <3>1. queue # <<>>
      BY <1>1 DEF Recv
    <3> QED BY <1>0, <3>1, HeadTailProperties
  <2>2. User(Head(queue)) \in Message
    BY <2>1, UserIsMessage, BoundsAssumption
  <2> QED BY <1>0, <1>1, <2>1, <2>2 DEF Recv
<1>2. CASE Compact
  <2>1. messages' \in Seq(Message)
    BY <1>0, <1>2, CompactedIsMessages DEF Compact
  <2>2. todo' = todo \/ todo' = <<>>
    BY <1>2 DEF Compact, EndTurn
  <2>3. UNCHANGED <<queue, log, written>>
    BY <1>2 DEF Compact, userVars
  <2>4. todo' \in Seq(Calls)
    BY <1>0, <2>2, EmptySeq, Zenon
  <2> QED BY <1>0, <2>1, <2>3, <2>4
<1>3. CASE Check
  <2>1. todo' = todo \/ todo' = <<>>
    BY <1>3 DEF Check, EndTurn
  <2>2. UNCHANGED <<queue, messages, log, written>>
    BY <1>3 DEF Check, userVars
  <2>3. todo' \in Seq(Calls)
    BY <1>0, <2>1, EmptySeq, Zenon
  <2> QED BY <1>0, <2>2, <2>3
<1>4. CASE StreamFails
  BY <1>0, <1>4 DEF StreamFails, EndTurn, userVars
<1>5. CASE Stream
  BY <1>0, <1>5, AnswersProperties DEF Stream, EndTurn, userVars
<1>6. CASE NextCall
  <2>1. messages' \in Seq(Message) /\ todo' \in Seq(Calls)
    BY <1>0, <1>6, FinishLists DEF NextCall
  <2> QED BY <1>0, <1>6, <2>1 DEF NextCall, userVars
<1>7. CASE Ask
  BY <1>0, <1>7 DEF Ask, loopVars, userVars
<1>8. CASE Answered
  <2>1. messages' \in Seq(Message) /\ todo' \in Seq(Calls)
    BY <1>0, <1>8, FinishLists DEF Answered, TodoAtTools, AtTools
  <2> QED BY <1>0, <1>8, <2>1 DEF Answered, userVars
<1>9. CASE TimedOut
  <2>1. messages' \in Seq(Message) /\ todo' \in Seq(Calls)
    BY <1>0, <1>9, FinishLists DEF TimedOut, TodoAtTools, AtTools
  <2> QED BY <1>0, <1>9, <2>1 DEF TimedOut, userVars
<1>10. CASE Executed
  <2>1. messages' \in Seq(Message) /\ todo' \in Seq(Calls)
    BY <1>0, <1>10, FinishLists DEF Executed, TodoAtTools, AtTools
  <2> QED BY <1>0, <1>10, <2>1 DEF Executed, userVars
<1>11. CASE RoundEnds
  BY <1>0, <1>11 DEF RoundEnds, EndTurn, userVars
<1>12. CASE AppendMessage
  <2>1. log' \in Seq(Message) /\ written' \in Nat
    <3>1. CASE written < Len(messages)
      <4>1. messages[written + 1] \in Message
        BY <1>0, <3>1, ElementOfSeq
      <4>2. \/ log' = log /\ written' = written
            \/ log' = Append(log, messages[written + 1]) /\ written' = written + 1
        BY <1>12, <3>1 DEF AppendMessage
      <4>3. Append(log, messages[written + 1]) \in Seq(Message)
        BY <1>0, <4>1
      <4>4. written + 1 \in Nat
        BY <1>0
      <4> QED BY <1>0, <4>2, <4>3, <4>4, Zenon
    <3>2. CASE ~(written < Len(messages))
      BY <1>0, <1>12, <3>2 DEF AppendMessage
    <3> QED BY <3>1, <3>2
  <2>2. UNCHANGED <<queue, messages, todo>>
    BY <1>12 DEF AppendMessage, loopVars, userVars
  <2> QED BY <1>0, <2>1, <2>2
<1>13. CASE PumpEnds
  BY <1>0, <1>13 DEF PumpEnds, loopVars, diskVars, userVars
<1> QED
  BY <1>1, <1>2, <1>3, <1>4, <1>5, <1>6, <1>7, <1>8, <1>9, <1>10, <1>11,
     <1>12, <1>13 DEF Thread

LEMMA TypeStep == TypeInv /\ [Next]_vars => TypeInv'
<1> SUFFICES ASSUME TypeInv, [Next]_vars PROVE TypeInv'
  OBVIOUS
<1>0. Flags /\ Control /\ Lists /\ TodoAtTools
  BY DEF TypeInv
<1>1. CASE Thread
  BY <1>0, <1>1, FlagsThread, ControlThread, ListsThread DEF TypeInv
<1> USE BoundsAssumption DEF Stages, Idle, AtTools, Reasons
<1>2. CASE Timeout \/ UNCHANGED vars
  <2> USE DEF Timeout, vars, loopVars, gateVars, diskVars, userVars, histVars
  <2>1. Flags'
    BY <1>0, <1>2 DEF Flags
  <2>2. Control' /\ TodoAtTools'
    BY <1>0, <1>2 DEF Control, TodoAtTools
  <2>3. Lists'
    BY <1>0, <1>2 DEF Lists
  <2> QED BY <2>1, <2>2, <2>3 DEF TypeInv
<1>3. CASE Prompt
  <2> USE DEF Prompt, loopVars, gateVars, diskVars, histVars
  <2>1. Flags'
    BY <1>0, <1>3 DEF Flags
  <2>2. Control' /\ TodoAtTools'
    BY <1>0, <1>3 DEF Control, TodoAtTools
  <2>3. Lists'
    BY <1>0, <1>3 DEF Lists, Control
  <2> QED BY <2>1, <2>2, <2>3 DEF TypeInv
<1>4. CASE Cancel \/ Close
  <2> USE DEF Cancel, Close, StopCancel, loopVars, diskVars
  <2>1. Flags'
    BY <1>0, <1>4 DEF Flags
  <2>2. Control' /\ TodoAtTools'
    BY <1>0, <1>4 DEF Control, TodoAtTools
  <2>3. Lists'
    BY <1>0, <1>4 DEF Lists
  <2> QED BY <2>1, <2>2, <2>3 DEF TypeInv
<1>5. CASE StopRelease
  <2> USE DEF StopRelease, loopVars, diskVars, userVars, histVars
  <2>1. Flags'
    BY <1>0, <1>5 DEF Flags
  <2>2. Control' /\ TodoAtTools'
    BY <1>0, <1>5 DEF Control, TodoAtTools
  <2>3. Lists'
    BY <1>0, <1>5 DEF Lists
  <2> QED BY <2>1, <2>2, <2>3 DEF TypeInv
<1>6. ASSUME NEW c \in Calls, NEW d \in {"allow", "deny"}, Answer(c, d)
      PROVE  TypeInv'
  <2> USE DEF Answer, loopVars, diskVars, userVars
  <2>1. Flags'
    BY <1>0, <1>6 DEF Flags
  <2>2. Control' /\ TodoAtTools'
    BY <1>0, <1>6 DEF Control, TodoAtTools
  <2>3. Lists'
    BY <1>0, <1>6 DEF Lists
  <2> QED BY <2>1, <2>2, <2>3 DEF TypeInv
<1>7. CASE Crash
  <2> USE DEF Crash, loopVars, histVars
  <2>1. Flags'
    BY <1>0, <1>7 DEF Flags
  <2>2. Control' /\ TodoAtTools'
    BY <1>0, <1>7 DEF Control, TodoAtTools
  <2>3. Lists'
    BY <1>0, <1>7 DEF Lists
  <2> QED BY <2>1, <2>2, <2>3 DEF TypeInv
<1>8. CASE Start
  <2> USE DEF Start
  <2>1. Flags'
    BY <1>0, <1>8 DEF Flags
  <2>2. Control' /\ TodoAtTools'
    BY <1>0, <1>8 DEF Control, TodoAtTools
  <2>3. Lists'
    BY <1>0, <1>8 DEF Lists
  <2> QED BY <2>1, <2>2, <2>3 DEF TypeInv
<1> QED
  BY <1>1, <1>2, <1>3, <1>4, <1>5, <1>6, <1>7, <1>8 DEF Next

(* Every state is of the types TypeOK gives; in particular no prompt runs  *)
(* more than MaxRounds rounds (with_max_rounds in session.rs).             *)
THEOREM TypeCorrect == Spec => []TypeOK
<1>1. TypeInv => TypeOK
  BY DEF TypeInv, Flags, Control, Lists, TypeOK
<1> QED
  BY <1>1, TypeInit, TypeStep, PTL DEF Spec

----------------------------------------------------------------------------
(* What CallsAnswered rests on.  A call of the conversation is followed by *)
(* its result, or its place is past the end and it is still in the list of *)
(* the running round.  Messages read back from the transcript carry only   *)
(* calls made before.  A conversation begins with a prompt, so a fold,     *)
(* which keeps the first message and the latest ones, never keeps a call   *)
(* apart from the results that follow it.                                  *)

Live(m, dead) == m.kind = "assistant" /\ Range(m.calls) \cap dead = {}

OwedIn(ms, ts, dead) ==
  \A i \in DOMAIN ms : Live(ms[i], dead) =>
    \A k \in DOMAIN ms[i].calls :
      IF i + k <= Len(ms)
      THEN ms[i + k] = Result(ms[i].calls[k])
      ELSE /\ i + Len(ms[i].calls) = Len(ms) + Len(ts)
           /\ ms[i].calls[k] = ts[i + k - Len(ms)]

AskedIn(ms, cs) ==
  \A i \in DOMAIN ms : ms[i].kind = "assistant" => Range(ms[i].calls) \subseteq cs

PromptFirst(ms) == ms # <<>> => ms[1].kind = "user"

Owed == pc # "dead" => OwedIn(messages, todo, old)

Grounded ==
  /\ AskedIn(messages, asked) /\ AskedIn(log, asked)
  /\ PromptFirst(messages) /\ PromptFirst(log)
  /\ written > 0 => log # <<>>
  /\ pc \notin Idle => messages # <<>>

HistoryInv == TypeInv /\ Grounded /\ Owed

(* The shape of a message, and of one more at the end of a list.           *)
LEMMA MessageShape ==
  /\ \A p : User(p).kind = "user"
  /\ \A c : Result(c).kind = "result"
  /\ \A cs : Assistant(cs).kind = "assistant" /\ Assistant(cs).calls = cs
  /\ \A m \in Message : m.kind = "assistant" => m.calls \in Seq(Calls)
BY DEF User, Result, Assistant, Message

LEMMA AppendIndex ==
  ASSUME NEW ms \in Seq(Message), NEW m \in Message
  PROVE  /\ Append(ms, m) \in Seq(Message) /\ Len(Append(ms, m)) = Len(ms) + 1
         /\ Len(ms) \in Nat /\ DOMAIN ms = 1 .. Len(ms)
         /\ DOMAIN Append(ms, m) = 1 .. Len(ms) + 1
         /\ \A i \in 1 .. Len(ms) : Append(ms, m)[i] = ms[i]
         /\ Append(ms, m)[Len(ms) + 1] = m
BY AppendProperties, LenProperties

LEMMA RangeIndex ==
  ASSUME NEW cs \in Seq(Calls)
  PROVE  /\ Len(cs) \in Nat /\ DOMAIN cs = 1 .. Len(cs)
         /\ \A k \in DOMAIN cs : cs[k] \in Range(cs)
BY LenProperties DEF Range

(* With nothing left to answer every live call has its result.             *)
LEMMA OwedNothing ==
  ASSUME NEW ms \in Seq(Message), NEW dead, OwedIn(ms, <<>>, dead),
         NEW i \in DOMAIN ms, Live(ms[i], dead), NEW k \in DOMAIN ms[i].calls
  PROVE  i + k <= Len(ms) /\ ms[i + k] = Result(ms[i].calls[k])
<1>1. Len(ms) \in Nat /\ i \in 1 .. Len(ms) /\ ms[i] \in Message
  BY LenProperties, ElementOfSeq
<1>2. ms[i].calls \in Seq(Calls)
  BY <1>1, MessageShape DEF Live
<1>3. Len(ms[i].calls) \in Nat /\ k \in 1 .. Len(ms[i].calls)
  BY <1>2, RangeIndex
<1>4. IF i + k <= Len(ms)
      THEN ms[i + k] = Result(ms[i].calls[k])
      ELSE i + Len(ms[i].calls) = Len(ms) + 0
  BY DEF OwedIn
<1> QED BY <1>1, <1>3, <1>4

LEMMA OwedByNobody ==
  ASSUME NEW ms \in Seq(Message), NEW ts, NEW dead,
         \A i \in DOMAIN ms : Live(ms[i], dead) =>
           \A k \in DOMAIN ms[i].calls :
             i + k <= Len(ms) /\ ms[i + k] = Result(ms[i].calls[k])
  PROVE  OwedIn(ms, ts, dead)
BY DEF OwedIn

(* A message that is not the model's changes nothing that is answered.     *)
LEMMA OwedOther ==
  ASSUME NEW ms \in Seq(Message), NEW m \in Message, m.kind # "assistant",
         NEW dead, OwedIn(ms, <<>>, dead)
  PROVE  OwedIn(Append(ms, m), <<>>, dead)
<1> DEFINE new == Append(ms, m)
<1>1. /\ new \in Seq(Message) /\ Len(new) = Len(ms) + 1
      /\ Len(ms) \in Nat /\ DOMAIN ms = 1 .. Len(ms) /\ DOMAIN new = 1 .. Len(ms) + 1
      /\ \A i \in 1 .. Len(ms) : new[i] = ms[i]
      /\ new[Len(ms) + 1] = m
  BY AppendIndex
<1> HIDE DEF new
<1>2. ASSUME NEW i \in DOMAIN new, Live(new[i], dead), NEW k \in DOMAIN new[i].calls
      PROVE  i + k <= Len(new) /\ new[i + k] = Result(new[i].calls[k])
  <2>1. i \in DOMAIN ms /\ new[i] = ms[i]
    BY <1>1, <1>2 DEF Live
  <2>2. i + k <= Len(ms) /\ ms[i + k] = Result(ms[i].calls[k])
    BY <1>2, <2>1, OwedNothing
  <2>3. ms[i].calls \in Seq(Calls)
    BY <1>2, <2>1, ElementOfSeq, MessageShape DEF Live
  <2>4. k \in Nat \ {0}
    BY <1>2, <2>1, <2>3, RangeIndex
  <2> QED BY <1>1, <2>1, <2>2, <2>4
<1>3. OwedIn(new, <<>>, dead)
  BY <1>1, <1>2, OwedByNobody
<1> QED BY <1>3 DEF new

(* The model's answer owes a result for each of its calls.                 *)
LEMMA OwedAnswer ==
  ASSUME NEW ms \in Seq(Message), NEW cs \in Seq(Calls), Assistant(cs) \in Message,
         NEW dead, OwedIn(ms, <<>>, dead)
  PROVE  OwedIn(Append(ms, Assistant(cs)), cs, dead)
<1> DEFINE new == Append(ms, Assistant(cs))
<1>1. /\ new \in Seq(Message) /\ Len(new) = Len(ms) + 1
      /\ Len(ms) \in Nat /\ DOMAIN ms = 1 .. Len(ms) /\ DOMAIN new = 1 .. Len(ms) + 1
      /\ \A i \in 1 .. Len(ms) : new[i] = ms[i]
      /\ new[Len(ms) + 1] = Assistant(cs)
  BY AppendIndex
<1> HIDE DEF new
<1>2. ASSUME NEW i \in DOMAIN new, Live(new[i], dead), NEW k \in DOMAIN new[i].calls
      PROVE  IF i + k <= Len(new)
             THEN new[i + k] = Result(new[i].calls[k])
             ELSE /\ i + Len(new[i].calls) = Len(new) + Len(cs)
                  /\ new[i].calls[k] = cs[i + k - Len(new)]
  <2>1. CASE i \in DOMAIN ms
    <3>1. new[i] = ms[i]
      BY <1>1, <2>1
    <3>2. i + k <= Len(ms) /\ ms[i + k] = Result(ms[i].calls[k])
      BY <1>2, <2>1, <3>1, OwedNothing
    <3>3. ms[i].calls \in Seq(Calls)
      BY <1>2, <2>1, <3>1, ElementOfSeq, MessageShape DEF Live
    <3>4. k \in Nat \ {0}
      BY <1>2, <3>1, <3>3, RangeIndex
    <3> QED BY <1>1, <2>1, <3>1, <3>2, <3>4
  <2>2. CASE i = Len(ms) + 1
    <3>1. new[i].calls = cs
      BY <1>1, <2>2, MessageShape
    <3>2. Len(cs) \in Nat /\ k \in 1 .. Len(cs)
      BY <1>2, <3>1, RangeIndex
    <3>3. /\ ~(i + k <= Len(new)) /\ i + k - Len(new) = k
          /\ i + Len(cs) = Len(new) + Len(cs)
      BY <1>1, <2>2, <3>2
    <3> QED BY <3>1, <3>3
  <2> QED BY <1>1, <2>1, <2>2
<1>3. OwedIn(new, cs, dead)
  BY <1>2 DEF OwedIn
<1> QED BY <1>3 DEF new

(* The result of the first call that owes one.                             *)
LEMMA OwedResult ==
  ASSUME NEW ms \in Seq(Message), NEW ts \in Seq(Calls), ts # <<>>,
         NEW dead, OwedIn(ms, ts, dead)
  PROVE  OwedIn(Append(ms, Result(Head(ts))), Tail(ts), dead)
<1> DEFINE new == Append(ms, Result(Head(ts)))
           rest == Tail(ts)
<1>1. /\ Head(ts) = ts[1] /\ Head(ts) \in Calls
      /\ rest \in Seq(Calls) /\ Len(rest) = Len(ts) - 1 /\ Len(ts) \in Nat \ {0}
      /\ \A k \in 1 .. Len(ts) - 1 : rest[k] = ts[k + 1]
  BY HeadTailProperties, EmptySeq
<1>2. /\ new \in Seq(Message) /\ Len(new) = Len(ms) + 1
      /\ Len(ms) \in Nat /\ DOMAIN ms = 1 .. Len(ms) /\ DOMAIN new = 1 .. Len(ms) + 1
      /\ \A i \in 1 .. Len(ms) : new[i] = ms[i]
      /\ new[Len(ms) + 1] = Result(ts[1])
  BY <1>1, ResultIsMessage, AppendIndex
<1> HIDE DEF new, rest
<1>3. ASSUME NEW i \in DOMAIN new, Live(new[i], dead), NEW k \in DOMAIN new[i].calls
      PROVE  IF i + k <= Len(new)
             THEN new[i + k] = Result(new[i].calls[k])
             ELSE /\ i + Len(new[i].calls) = Len(new) + Len(rest)
                  /\ new[i].calls[k] = rest[i + k - Len(new)]
  <2>1. i \in DOMAIN ms /\ new[i] = ms[i]
    BY <1>2, <1>3, MessageShape DEF Live
  <2>2. ms[i].calls \in Seq(Calls)
    BY <1>3, <2>1, ElementOfSeq, MessageShape DEF Live
  <2>3. /\ i \in Nat \ {0} /\ i <= Len(ms)
        /\ k \in Nat \ {0} /\ k <= Len(ms[i].calls) /\ Len(ms[i].calls) \in Nat
    BY <1>2, <1>3, <2>1, <2>2, RangeIndex
  <2>4. IF i + k <= Len(ms)
        THEN ms[i + k] = Result(ms[i].calls[k])
        ELSE /\ i + Len(ms[i].calls) = Len(ms) + Len(ts)
             /\ ms[i].calls[k] = ts[i + k - Len(ms)]
    BY <1>3, <2>1 DEF OwedIn
  <2>5. CASE i + k <= Len(ms)
    BY <1>2, <2>1, <2>3, <2>4, <2>5
  <2>6. CASE i + k = Len(ms) + 1
    <3>1. ms[i].calls[k] = ts[1]
      BY <1>2, <2>3, <2>4, <2>6
    <3> QED BY <1>2, <2>1, <2>6, <3>1
  <2>7. CASE i + k > Len(ms) + 1
    <3>1. i + Len(ms[i].calls) = Len(new) + Len(rest)
      BY <1>1, <1>2, <2>3, <2>4, <2>7
    <3>2. i + k - Len(new) \in 1 .. Len(ts) - 1
      BY <1>1, <1>2, <2>3, <2>7, <3>1
    <3>3. ms[i].calls[k] = rest[i + k - Len(new)]
      <4>1. ms[i].calls[k] = ts[i + k - Len(ms)]
        BY <1>2, <2>3, <2>4, <2>7
      <4>2. i + k - Len(ms) = (i + k - Len(new)) + 1
        BY <1>2, <2>3
      <4> QED BY <1>1, <3>2, <4>1, <4>2
    <3> QED BY <1>2, <2>1, <2>3, <2>7, <3>1, <3>3
  <2> QED BY <1>2, <2>3, <2>5, <2>6, <2>7
<1>4. OwedIn(new, rest, dead)
  BY <1>3 DEF OwedIn
<1> QED BY <1>4 DEF new, rest

(* A fold keeps a call and its results together or drops the call.         *)
LEMMA OwedFold ==
  ASSUME NEW ms \in Seq(Message), Len(ms) > KeepRecent + 1, PromptFirst(ms),
         NEW dead, OwedIn(ms, <<>>, dead)
  PROVE  OwedIn(Compacted(ms), <<>>, dead) /\ PromptFirst(Compacted(ms))
<1> DEFINE new == Compacted(ms)
           split == Len(ms) - KeepRecent
<1>1. User(0) \in Message /\ KeepRecent \in Nat /\ Len(ms) \in Nat /\ split \in Nat
  BY BoundsAssumption, UserIsMessage, LenProperties
<1>2. /\ new \in Seq(Message) /\ Len(new) = KeepRecent + 2
      /\ new[1] = ms[1] /\ new[2] = User(0)
      /\ \A i \in 3 .. KeepRecent + 2 : new[i] = ms[i + split - 2]
  BY <1>1, CompactedProperties
<1> HIDE DEF new
<1>3. ms[1].kind = "user"
  BY <1>1, EmptySeq DEF PromptFirst
<1>4. ASSUME NEW i \in DOMAIN new, Live(new[i], dead), NEW k \in DOMAIN new[i].calls
      PROVE  i + k <= Len(new) /\ new[i + k] = Result(new[i].calls[k])
  <2>1. i \in 1 .. KeepRecent + 2
    BY <1>2, <1>4, LenProperties
  <2>2. i \in 3 .. KeepRecent + 2
    BY <1>1, <1>2, <1>3, <1>4, <2>1, MessageShape DEF Live
  <2> DEFINE j == i + split - 2
  <2>3. j \in DOMAIN ms /\ new[i] = ms[j]
    BY <1>1, <1>2, <2>2, LenProperties
  <2>4. j + k <= Len(ms) /\ ms[j + k] = Result(ms[j].calls[k])
    BY <1>4, <2>3, OwedNothing
  <2>5. ms[j].calls \in Seq(Calls)
    BY <1>4, <2>3, ElementOfSeq, MessageShape DEF Live
  <2>6. k \in Nat \ {0}
    BY <1>4, <2>3, <2>5, RangeIndex
  <2>7. i + k \in 3 .. KeepRecent + 2 /\ j + k = (i + k) + split - 2
    <3>1. j + k <= Len(ms)
      BY <2>4
    <3> QED BY <1>1, <2>2, <2>6, <3>1
  <2>8. new[i + k] = ms[j + k]
    BY <1>2, <2>7
  <2> QED BY <1>2, <2>3, <2>4, <2>7, <2>8
<1>5. OwedIn(new, <<>>, dead)
  BY <1>2, <1>4, OwedByNobody
<1>6. PromptFirst(new)
  BY <1>2, <1>3 DEF PromptFirst
<1> QED BY <1>5, <1>6 DEF new

(* What is read back owes nothing.                                         *)
LEMMA OwedReplayed ==
  ASSUME NEW ms \in Seq(Message), NEW cs, AskedIn(ms, cs)
  PROVE  OwedIn(ms, <<>>, cs)
<1>1. ASSUME NEW i \in DOMAIN ms, Live(ms[i], cs), NEW k \in DOMAIN ms[i].calls
      PROVE  FALSE
  <2>1. ms[i].calls \in Seq(Calls)
    BY <1>1, ElementOfSeq, MessageShape DEF Live
  <2>2. ms[i].calls[k] \in Range(ms[i].calls)
    BY <1>1, <2>1, RangeIndex
  <2> QED BY <1>1, <2>2 DEF Live, AskedIn
<1> QED BY <1>1, OwedByNobody

LEMMA AskedAppend ==
  ASSUME NEW ms \in Seq(Message), NEW m \in Message, NEW cs, AskedIn(ms, cs),
         m.kind = "assistant" => Range(m.calls) \subseteq cs
  PROVE  AskedIn(Append(ms, m), cs)
<1> DEFINE new == Append(ms, m)
<1>1. /\ Len(ms) \in Nat /\ DOMAIN ms = 1 .. Len(ms) /\ DOMAIN new = 1 .. Len(ms) + 1
      /\ \A i \in 1 .. Len(ms) : new[i] = ms[i]
      /\ new[Len(ms) + 1] = m
  BY AppendIndex
<1> HIDE DEF new
<1>2. AskedIn(new, cs)
  BY <1>1 DEF AskedIn
<1> QED BY <1>2 DEF new

LEMMA AskedFold ==
  ASSUME NEW ms \in Seq(Message), Len(ms) > KeepRecent + 1, NEW cs, AskedIn(ms, cs)
  PROVE  AskedIn(Compacted(ms), cs)
<1> DEFINE new == Compacted(ms)
           split == Len(ms) - KeepRecent
<1>1. User(0) \in Message /\ KeepRecent \in Nat /\ Len(ms) \in Nat /\ split \in Nat
  BY BoundsAssumption, UserIsMessage, LenProperties
<1>2. /\ new \in Seq(Message) /\ Len(new) = KeepRecent + 2
      /\ new[1] = ms[1] /\ new[2] = User(0)
      /\ \A i \in 3 .. KeepRecent + 2 : new[i] = ms[i + split - 2]
  BY <1>1, CompactedProperties
<1> HIDE DEF new
<1>3. ASSUME NEW i \in DOMAIN new, new[i].kind = "assistant"
      PROVE  \E j \in DOMAIN ms : new[i] = ms[j]
  <2>1. i \in 1 .. KeepRecent + 2 /\ DOMAIN ms = 1 .. Len(ms)
    BY <1>2, <1>3, LenProperties
  <2>2. CASE i = 1
    BY <1>1, <1>2, <2>1, <2>2
  <2>3. CASE i = 2
    BY <1>2, <1>3, <2>3, MessageShape
  <2>4. CASE i \in 3 .. KeepRecent + 2
    <3>1. i + split - 2 \in DOMAIN ms
      BY <1>1, <2>1, <2>4
    <3> QED BY <1>2, <2>4, <3>1
  <2> QED BY <1>1, <2>1, <2>2, <2>3, <2>4
<1>4. AskedIn(new, cs)
  BY <1>3 DEF AskedIn
<1> QED BY <1>4 DEF new

LEMMA AskedMore ==
  ASSUME NEW ms, NEW cs, AskedIn(ms, cs), NEW ds, cs \subseteq ds
  PROVE  AskedIn(ms, ds)
BY DEF AskedIn

LEMMA PromptAppend ==
  ASSUME NEW ms \in Seq(Message), PromptFirst(ms), NEW m \in Message,
         ms # <<>> \/ m.kind = "user"
  PROVE  PromptFirst(Append(ms, m)) /\ Append(ms, m) # <<>>
<1> DEFINE new == Append(ms, m)
<1>1. /\ Len(ms) \in Nat
      /\ \A i \in 1 .. Len(ms) : new[i] = ms[i]
      /\ new[Len(ms) + 1] = m /\ new # <<>>
  BY AppendIndex, AppendProperties
<1> HIDE DEF new
<1>2. CASE ms = <<>>
  <2>1. Len(ms) = 0
    BY <1>2, EmptySeq
  <2> QED BY <1>1, <1>2, <2>1 DEF PromptFirst, new
<1>3. CASE ms # <<>>
  <2>1. Len(ms) >= 1
    BY <1>3, EmptySeq
  <2> QED BY <1>1, <1>3, <2>1 DEF PromptFirst, new
<1> QED BY <1>2, <1>3

LEMMA HistoryInit == Init => HistoryInv
<1> SUFFICES ASSUME Init PROVE HistoryInv
  OBVIOUS
<1>1. messages = <<>> /\ log = <<>> /\ written = 0 /\ pc = "recv"
  BY DEF Init
<1>2. Grounded
  BY <1>1 DEF Grounded, AskedIn, PromptFirst, Idle
<1>3. Owed
  BY <1>1 DEF Owed, OwedIn
<1> QED BY <1>2, <1>3, TypeInit DEF HistoryInv

(* Steps that leave the conversation alone.                                *)
LEMMA HistoryFrame ==
  ASSUME HistoryInv, UNCHANGED <<messages, todo, log, written, asked, old>>,
         pc' \notin Idle => pc \notin Idle, pc' # "dead" => pc # "dead"
  PROVE  Grounded' /\ Owed'
<1>1. Grounded'
  BY DEF HistoryInv, Grounded
<1>2. Owed'
  BY DEF HistoryInv, Owed
<1> QED BY <1>1, <1>2

LEMMA HistoryFinish ==
  ASSUME HistoryInv, todo # <<>>, pc \notin Idle, Finish(Head(todo)),
         UNCHANGED <<log, written, asked, old>>
  PROVE  Grounded' /\ Owed'
<1> DEFINE m == Result(Head(todo))
<1>1. /\ messages \in Seq(Message) /\ todo \in Seq(Calls) /\ m \in Message
      /\ m.kind = "result" /\ messages # <<>> /\ pc # "dead"
  BY TodoHead, ResultIsMessage, MessageShape
     DEF HistoryInv, TypeInv, Lists, Grounded, Idle
<1>2. messages' = Append(messages, m) /\ todo' = Tail(todo)
  BY DEF Finish
<1>3. Owed'
  <2>1. OwedIn(Append(messages, m), Tail(todo), old)
    BY <1>1, OwedResult DEF HistoryInv, Owed
  <2> QED BY <1>2, <2>1 DEF Owed
<1>4. Grounded'
  <2>1. AskedIn(Append(messages, m), asked)
    BY <1>1, AskedAppend DEF HistoryInv, Grounded
  <2>2. PromptFirst(Append(messages, m)) /\ Append(messages, m) # <<>>
    BY <1>1, PromptAppend DEF HistoryInv, Grounded
  <2> QED BY <1>2, <2>1, <2>2 DEF HistoryInv, Grounded
<1> QED BY <1>3, <1>4

LEMMA HistoryThread == HistoryInv /\ Thread => Grounded' /\ Owed'
<1> SUFFICES ASSUME HistoryInv, Thread PROVE Grounded' /\ Owed'
  OBVIOUS
<1>0. /\ TypeInv /\ Lists /\ Control /\ TodoAtTools /\ Grounded /\ Owed
      /\ messages \in Seq(Message) /\ log \in Seq(Message)
  BY DEF HistoryInv, TypeInv, Lists
<1>1. CASE Recv
  <2> DEFINE m == User(Head(queue))
  <2>1. /\ m \in Message /\ m.kind = "user" /\ todo = <<>>
        /\ messages' = Append(messages, m) /\ pc = "recv"
    <3>1. queue # <<>> /\ queue \in Seq(1..MaxPrompts)
      BY <1>0, <1>1 DEF Recv, Lists
    <3>2. Head(queue) \in 1..MaxPrompts
      BY <3>1, HeadTailProperties
    <3>3. m \in Message
      BY <3>2, UserIsMessage, BoundsAssumption
    <3>4. todo = <<>> /\ messages' = Append(messages, m) /\ pc = "recv"
      BY <1>0, <1>1 DEF Recv, TodoAtTools, AtTools
    <3> QED BY <3>3, <3>4, MessageShape
  <2>2. UNCHANGED <<todo, log, written, asked, old>>
    BY <1>1 DEF Recv
  <2>3. OwedIn(Append(messages, m), <<>>, old)
    BY <1>0, <2>1, OwedOther DEF Owed
  <2>4. AskedIn(Append(messages, m), asked)
    BY <1>0, <2>1, AskedAppend DEF Grounded
  <2>5. PromptFirst(Append(messages, m)) /\ Append(messages, m) # <<>>
    BY <1>0, <2>1, PromptAppend DEF Grounded
  <2>6. Owed'
    BY <2>1, <2>2, <2>3 DEF Owed
  <2>7. Grounded'
    BY <1>0, <2>1, <2>2, <2>4, <2>5 DEF Grounded
  <2> QED BY <2>6, <2>7
<1>2. CASE Compact
  <2>1. /\ pc = "compact" /\ pc' # "dead" /\ todo = <<>> /\ todo' = <<>>
        /\ UNCHANGED <<log, written, asked, old>>
    BY <1>0, <1>2 DEF Compact, EndTurn, TodoAtTools, AtTools
  <2>2. CASE messages' = messages
    BY <2>1, <2>2, HistoryFrame DEF Idle
  <2>3. CASE Len(messages) > KeepRecent + 1 /\ messages' = Compacted(messages)
    <3>1. OwedIn(Compacted(messages), <<>>, old) /\ PromptFirst(Compacted(messages))
      BY <1>0, <2>1, <2>3, OwedFold DEF Owed, Grounded
    <3>2. AskedIn(Compacted(messages), asked)
      BY <1>0, <2>3, AskedFold DEF Grounded
    <3>3. Compacted(messages) # <<>>
      <4>1. User(0) \in Message /\ KeepRecent \in Nat
        BY BoundsAssumption, UserIsMessage
      <4>2. Len(Compacted(messages)) = KeepRecent + 2
        BY <1>0, <2>3, <4>1, CompactedProperties
      <4> QED BY <4>1, <4>2, EmptySeq
    <3>4. Owed'
      BY <2>1, <2>3, <3>1 DEF Owed
    <3>5. Grounded'
      BY <1>0, <2>1, <2>3, <3>1, <3>2, <3>3 DEF Grounded
    <3> QED BY <3>4, <3>5
  <2> QED BY <1>2, <2>2, <2>3 DEF Compact
<1>3. CASE Check
  <2>1. UNCHANGED <<messages, todo, log, written, asked, old>> /\ pc = "check"
    BY <1>0, <1>3 DEF Check, EndTurn, TodoAtTools, AtTools
  <2> QED BY <2>1, HistoryFrame DEF Idle
<1>4. CASE StreamFails
  <2>1. UNCHANGED <<messages, todo, log, written, asked, old>> /\ pc = "stream"
    BY <1>0, <1>4 DEF StreamFails, EndTurn, TodoAtTools, AtTools
  <2> QED BY <2>1, HistoryFrame DEF Idle
<1>5. CASE Stream
  <2>1. PICK cs \in Answers :
          /\ messages' = Append(messages, Assistant(cs))
          /\ asked' = asked \cup Range(cs)
          /\ todo' = cs
    BY <1>5 DEF Stream, EndTurn
  <2>2. /\ pc = "stream" /\ messages # <<>> /\ todo = <<>>
        /\ UNCHANGED <<log, written, old>>
    BY <1>0, <1>5 DEF Stream, TodoAtTools, AtTools, Grounded, Idle
  <2> DEFINE m == Assistant(cs)
  <2>3. /\ cs \in Seq(Calls) /\ m \in Message
        /\ m.kind = "assistant" /\ m.calls = cs
    BY AnswersProperties, MessageShape
  <2>4. OwedIn(Append(messages, m), cs, old)
    BY <1>0, <2>2, <2>3, OwedAnswer DEF Owed
  <2>5. AskedIn(messages, asked') /\ AskedIn(log, asked')
    BY <1>0, <2>1, AskedMore DEF Grounded
  <2>6. AskedIn(Append(messages, m), asked')
    BY <1>0, <2>1, <2>3, <2>5, AskedAppend
  <2>7. PromptFirst(Append(messages, m)) /\ Append(messages, m) # <<>>
    BY <1>0, <2>2, <2>3, PromptAppend DEF Grounded
  <2>8. Owed'
    BY <2>1, <2>2, <2>4 DEF Owed
  <2>9. Grounded'
    BY <1>0, <2>1, <2>2, <2>5, <2>6, <2>7 DEF Grounded
  <2> QED BY <2>8, <2>9
<1>6. CASE NextCall
  <2>1. /\ todo # <<>> /\ pc = "tools"
        /\ UNCHANGED <<log, written, asked, old>>
    BY <1>6 DEF NextCall, histVars
  <2>2. CASE Finish(Head(todo))
    BY <2>1, <2>2, HistoryFinish DEF Idle
  <2>3. CASE UNCHANGED <<messages, todo>>
    BY <2>1, <2>3, HistoryFrame DEF Idle
  <2> QED BY <1>6, <2>2, <2>3 DEF NextCall
<1>7. CASE Ask
  <2>1. UNCHANGED <<messages, todo, log, written, asked, old>> /\ pc = "ask"
    BY <1>7 DEF Ask, loopVars
  <2> QED BY <2>1, HistoryFrame DEF Idle
<1>8. CASE Answered
  <2>1. /\ todo # <<>> /\ pc = "parked"
        /\ UNCHANGED <<log, written, asked, old>>
    BY <1>0, <1>8 DEF Answered, TodoAtTools, AtTools
  <2>2. CASE Finish(Head(todo))
    BY <2>1, <2>2, HistoryFinish DEF Idle
  <2>3. CASE UNCHANGED <<messages, todo>>
    BY <2>1, <2>3, HistoryFrame DEF Idle
  <2> QED BY <1>8, <2>2, <2>3 DEF Answered
<1>9. CASE TimedOut
  <2>1. /\ todo # <<>> /\ pc = "timed_out" /\ Finish(Head(todo))
        /\ UNCHANGED <<log, written, asked, old>>
    BY <1>0, <1>9 DEF TimedOut, TodoAtTools, AtTools, histVars
  <2> QED BY <2>1, HistoryFinish DEF Idle
<1>10. CASE Executed
  <2>1. /\ todo # <<>> /\ pc = "execute" /\ Finish(Head(todo))
        /\ UNCHANGED <<log, written, asked, old>>
    BY <1>0, <1>10 DEF Executed, TodoAtTools, AtTools, histVars
  <2> QED BY <2>1, HistoryFinish DEF Idle
<1>11. CASE RoundEnds
  <2>1. UNCHANGED <<messages, todo, log, written, asked, old>> /\ pc = "tools"
    BY <1>11 DEF RoundEnds, EndTurn, histVars
  <2> QED BY <2>1, HistoryFrame DEF Idle
<1>12. CASE AppendMessage
  <2>1. /\ pc = "append" /\ pc' # "dead"
        /\ UNCHANGED <<messages, todo, asked, old>>
    BY <1>12 DEF AppendMessage, loopVars, histVars
  <2>2. CASE UNCHANGED <<log, written>>
    BY <2>1, <2>2, HistoryFrame DEF Idle
  <2>3. CASE /\ written < Len(messages) /\ written' = written + 1
             /\ log' = Append(log, messages[written + 1])
    <3> DEFINE m == messages[written + 1]
    <3>1. written \in Nat /\ Len(messages) \in Nat /\ DOMAIN messages = 1 .. Len(messages)
      BY <1>0, LenProperties DEF Lists
    <3>2. written + 1 \in DOMAIN messages
      BY <2>3, <3>1
    <3>3. m \in Message
      BY <1>0, <3>1, <3>2, ElementOfSeq
    <3>4. m.kind = "assistant" => Range(m.calls) \subseteq asked
      BY <1>0, <3>2 DEF Grounded, AskedIn
    <3>5. log # <<>> \/ m.kind = "user"
      <4>1. CASE written > 0
        BY <1>0, <4>1 DEF Grounded
      <4>2. CASE written = 0
        <5>1. messages # <<>>
          BY <1>0, <2>1 DEF Grounded, Idle
        <5> QED BY <1>0, <4>2, <5>1 DEF Grounded, PromptFirst
      <4> QED BY <3>1, <4>1, <4>2
    <3>6. AskedIn(Append(log, m), asked)
      BY <1>0, <3>3, <3>4, AskedAppend DEF Grounded
    <3>7. PromptFirst(Append(log, m)) /\ Append(log, m) # <<>>
      BY <1>0, <3>3, <3>5, PromptAppend DEF Grounded
    <3>8. Grounded'
      BY <1>0, <2>1, <2>3, <3>6, <3>7 DEF Grounded, Idle
    <3>9. Owed'
      BY <1>0, <2>1 DEF Owed
    <3> QED BY <3>8, <3>9
  <2> QED BY <1>12, <2>2, <2>3 DEF AppendMessage
<1>13. CASE PumpEnds
  <2>1. UNCHANGED <<messages, todo, log, written, asked, old>> /\ pc = "recv" /\ pc' = "gone"
    BY <1>13 DEF PumpEnds, loopVars, diskVars, histVars
  <2> QED BY <2>1, HistoryFrame DEF Idle
<1> QED
  BY <1>1, <1>2, <1>3, <1>4, <1>5, <1>6, <1>7, <1>8, <1>9, <1>10, <1>11,
     <1>12, <1>13 DEF Thread

LEMMA HistoryStep == HistoryInv /\ [Next]_vars => HistoryInv'
<1> SUFFICES ASSUME HistoryInv, [Next]_vars PROVE HistoryInv'
  OBVIOUS
<1>1. TypeInv'
  BY TypeStep DEF HistoryInv
<1>2. Grounded' /\ Owed'
  <2>1. CASE Thread
    BY <2>1, HistoryThread
  <2>2. CASE \/ Timeout \/ Prompt \/ Cancel \/ Close \/ StopRelease \/ Crash
             \/ (\E c \in Calls, d \in {"allow", "deny"} : Answer(c, d))
             \/ UNCHANGED vars
    <3>1. /\ UNCHANGED <<messages, todo, log, written, asked, old>>
          /\ pc' = pc \/ pc' = "dead" \/ (pc = "parked" /\ pc' = "timed_out")
      BY <2>2 DEF Timeout, Prompt, Cancel, Close, StopCancel, StopRelease, Crash,
         Answer, vars, loopVars, diskVars, histVars
    <3> QED BY <3>1, HistoryFrame DEF Idle
  <2>3. CASE Start
    <3>1. /\ messages' = log /\ todo' = <<>> /\ old' = asked /\ pc' = "recv"
          /\ written' = Len(log) /\ UNCHANGED <<log, asked>>
      BY <2>3 DEF Start
    <3>2. Grounded /\ log \in Seq(Message)
      BY DEF HistoryInv, TypeInv, Lists
    <3>3. OwedIn(log, <<>>, asked)
      BY <3>2, OwedReplayed DEF Grounded
    <3>4. Owed'
      BY <3>1, <3>3 DEF Owed
    <3>5. Len(log) > 0 => log # <<>>
      BY <3>2, EmptySeq
    <3>6. Grounded'
      BY <3>1, <3>2, <3>5 DEF Grounded, Idle
    <3> QED BY <3>4, <3>6
  <2> QED BY <2>1, <2>2, <2>3 DEF Next
<1> QED BY <1>1, <1>2 DEF HistoryInv

LEMMA HistoryAnswered == HistoryInv => CallsAnswered
<1> SUFFICES ASSUME HistoryInv, pc = "stream",
                    NEW i \in DOMAIN messages, messages[i].kind = "assistant",
                    Range(messages[i].calls) \cap old = {},
                    NEW k \in DOMAIN messages[i].calls
             PROVE  /\ i + k <= Len(messages)
                    /\ messages[i + k] = Result(messages[i].calls[k])
  BY DEF CallsAnswered
<1>1. todo = <<>> /\ messages \in Seq(Message) /\ OwedIn(messages, todo, old)
  BY DEF HistoryInv, TypeInv, TodoAtTools, AtTools, Lists, Owed
<1>2. Live(messages[i], old)
  BY DEF Live
<1> QED BY <1>1, <1>2, OwedNothing

(* Whenever the model is asked again, each call it made in this run of the *)
(* session has its result behind it, after any refusal, stop, timeout or   *)
(* fold and after restarts (run_tools and compact_if_needed in session.rs).*)
THEOREM CallsGetResults == Spec => []CallsAnswered
<1> QED
  BY HistoryInit, HistoryStep, HistoryAnswered, PTL DEF Spec
=============================================================================
