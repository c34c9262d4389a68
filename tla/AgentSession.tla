---------------------------- MODULE AgentSession ----------------------------
(***************************************************************************)
(* One agent session: the thread that runs pump_prompts, the turn loop of  *)
(* Session::prompt with its tool calls, the approval gate the loop parks   *)
(* on, the registry calls a user makes beside it (prompt, answer, cancel,  *)
(* close), the transcript the messages are appended to, and what a crash   *)
(* leaves of them.  Calls are model values, each asked for once.           *)
(***************************************************************************)
EXTENDS Naturals, Sequences, SequencesExt, FiniteSets

CONSTANTS
  Calls,       \* tool calls the model may make
  SafeCalls,   \* those of tools AllowReadOnly allows without asking
  UnknownCalls,\* those that name no tool
  MaxPrompts,  \* bound: prompts sent
  MaxRounds,   \* with_max_rounds
  KeepRecent,  \* Budget::keep_recent
  MaxStarts,   \* bound: starts of the session
  MayCrash,    \* the process may end at any point
  DiskMayFail  \* appending to the transcript may fail

ASSUME CallsAssumption == SafeCalls \subseteq Calls /\ UnknownCalls \subseteq Calls
ASSUME BoundsAssumption ==
  /\ {MaxPrompts, MaxRounds, KeepRecent, MaxStarts} \subseteq Nat \ {0}
  /\ {MayCrash, DiskMayFail} \subseteq BOOLEAN

VARIABLES
  pc,        \* where the session thread is
  queue,     \* the prompt channel
  sent,      \* prompts sent so far
  messages,  \* Session.messages
  todo,      \* tool calls of the round that have no result yet
  turn,      \* the round of the running prompt
  reason,    \* how the last turn ended
  cancelled, \* the CancelToken
  stopping,  \* stop_session is between cancel() and release_all()
  open,      \* the registry holds the session's handle
  waiting,   \* UiGate.waiting
  reply,     \* what was sent to the receiver the thread holds
  log,       \* the messages in the transcript
  written,   \* pump_prompts' cursor into messages
  failed,    \* TeeSink.failed
  torn,      \* a crash cut the transcript's last record
  starts,    \* starts so far
  approved,  \* history: calls a user allowed in time
  ran,       \* history: calls whose tool was executed
  asked,     \* history: calls made so far
  old,       \* history: those made before the last start
  work,      \* history: requests and approvals begun since the stop
  stopAt     \* history: where the thread was when the turn was stopped

loopVars == <<messages, todo, turn, reason>>
gateVars == <<cancelled, stopping, waiting, reply>>
diskVars == <<log, written, failed, torn>>
userVars == <<queue, sent, open, starts>>
histVars == <<approved, ran, asked, old, work, stopAt>>
vars == <<pc, loopVars, gateVars, diskVars, userVars, histVars>>

Idle == {"recv", "gone", "dead"}
AtTools == {"tools", "ask", "parked", "timed_out", "execute"}
Stages == Idle \cup AtTools \cup {"compact", "check", "stream", "append"}
Reasons == {"none", "done", "cancelled", "round_limit", "error"}

User(p) == [kind |-> "user", prompt |-> p]   \* 0 is the folded summary
Assistant(cs) == [kind |-> "assistant", calls |-> cs]
Result(c) == [kind |-> "result", call |-> c]
Message == [kind: {"user"}, prompt: 0..MaxPrompts]
           \cup [kind: {"assistant"}, calls: Seq(Calls)]
           \cup [kind: {"result"}, call: Calls]

Init ==
  /\ pc = "recv" /\ queue = <<>> /\ sent = 0 /\ open = TRUE /\ starts = 1
  /\ messages = <<>> /\ todo = <<>> /\ turn = 0 /\ reason = "none"
  /\ cancelled = FALSE /\ stopping = FALSE /\ waiting = {} /\ reply = "none"
  /\ log = <<>> /\ written = 0 /\ failed = FALSE /\ torn = FALSE
  /\ approved = {} /\ ran = {} /\ asked = {} /\ old = {} /\ work = 0 /\ stopAt = "none"

----------------------------------------------------------------------------
(* The session thread.  TeeSink.emit writes each event to the transcript   *)
(* first; a failed write is remembered and ends the pump after the turn.   *)

Emit == failed' \in {failed, failed \/ DiskMayFail}

Begin == work' = IF cancelled THEN work + 1 ELSE work

EndTurn(why) ==
  /\ reason' = why /\ todo' = <<>>
  /\ Emit
  /\ pc' = IF failed' THEN "gone" ELSE "append"

\* recv() returned: the token is rearmed and prompt() takes the text in
Recv ==
  /\ pc = "recv" /\ queue # <<>>
  /\ queue' = Tail(queue)
  /\ messages' = Append(messages, User(Head(queue)))
  /\ cancelled' = FALSE /\ turn' = 0 /\ reason' = "none"
  /\ work' = 0 /\ stopAt' = "none"
  /\ Emit
  /\ pc' = "compact"
  /\ UNCHANGED <<todo, stopping, waiting, reply, log, written, torn,
                 sent, open, starts, approved, ran, asked, old>>

Compacted(ms) ==
  LET split == Len(ms) - KeepRecent
  IN  SubSeq(ms, 1, 1) \o <<User(0)>> \o SubSeq(ms, split + 1, Len(ms))

\* Past the token threshold, which lies anywhere beyond keep_recent + 1
Compact ==
  /\ pc = "compact"
  /\ \/ pc' = "check" /\ UNCHANGED <<messages, reason, todo, failed, work>>
     \/ /\ Len(messages) > KeepRecent + 1
        /\ Begin
        /\ messages' = Compacted(messages)
        /\ Emit /\ pc' = "check"
        /\ UNCHANGED <<reason, todo>>
     \/ /\ Len(messages) > KeepRecent + 1
        /\ Begin
        /\ EndTurn("error") /\ UNCHANGED messages
  /\ UNCHANGED <<turn, gateVars, log, written, torn, userVars, approved, ran,
                 asked, old, stopAt>>

Check ==
  /\ pc = "check"
  /\ IF cancelled
     THEN EndTurn("cancelled") /\ UNCHANGED <<turn, work>>
     ELSE /\ turn' = turn + 1
          /\ Emit /\ pc' = "stream"
          /\ UNCHANGED <<reason, todo, work>>
  /\ UNCHANGED <<messages, gateVars, log, written, torn, userVars,
                 approved, ran, asked, old, stopAt>>

\* The model's answers: up to two calls it has not made yet
Answers == {cs \in UNION {[1..n -> Calls \ asked] : n \in 0..2} :
              \A i, j \in DOMAIN cs : cs[i] = cs[j] => i = j}

StreamFails ==
  /\ pc = "stream"
  /\ Begin
  /\ EndTurn("error")
  /\ UNCHANGED <<messages, turn, gateVars, log, written, torn, userVars,
                 approved, ran, asked, old, stopAt>>

Stream ==
  /\ pc = "stream"
  /\ Begin
  /\ \E cs \in Answers :
       /\ messages' = Append(messages, Assistant(cs))
       /\ asked' = asked \cup Range(cs)
       /\ IF cs = <<>>
          THEN EndTurn("done")
          ELSE /\ todo' = cs /\ pc' = "tools"
               /\ Emit /\ UNCHANGED reason
  /\ UNCHANGED <<turn, gateVars, log, written, torn, userVars,
                 approved, ran, old, stopAt>>

\* Every call gets a result; a stopped turn answers the rest without running
Finish(c) ==
  /\ messages' = Append(messages, Result(c))
  /\ todo' = Tail(todo)
  /\ pc' = "tools"
  /\ Emit

NextCallAbandoned ==
  /\ pc = "tools" /\ todo # <<>>
  /\ IF cancelled
     THEN todo' = <<>> /\ UNCHANGED <<pc, messages, failed>>
     ELSE pc' = "ask" /\ UNCHANGED <<messages, todo, failed>>
  /\ UNCHANGED <<turn, reason, gateVars, log, written, torn, userVars, histVars>>

NextCall ==
  /\ pc = "tools" /\ todo # <<>>
  /\ IF cancelled \/ Head(todo) \in UnknownCalls
     THEN Finish(Head(todo))
     ELSE pc' = "ask" /\ UNCHANGED <<messages, todo, failed>>
  /\ UNCHANGED <<turn, reason, gateVars, log, written, torn, userVars, histVars>>

\* permission::resolve: AllowReadOnly, then UiGate::request registers the call
Ask ==
  /\ pc = "ask"
  /\ Begin /\ Emit
  /\ IF Head(todo) \in SafeCalls
     THEN /\ pc' = "execute" /\ ran' = ran \cup {Head(todo)}
          /\ UNCHANGED <<waiting, reply>>
     ELSE /\ pc' = "parked" /\ reply' = "none"
          /\ waiting' = waiting \cup {Head(todo)}
          /\ UNCHANGED ran
  /\ UNCHANGED <<loopVars, cancelled, stopping, log, written, torn, userVars,
                 approved, asked, old, stopAt>>

\* recv_timeout returned a decision
Answered ==
  /\ pc = "parked" /\ reply # "none"
  /\ reply' = "none"
  /\ IF reply = "allow"
     THEN /\ pc' = "execute" /\ ran' = ran \cup {Head(todo)} /\ Emit
          /\ UNCHANGED <<messages, todo>>
     ELSE Finish(Head(todo)) /\ UNCHANGED ran
  /\ UNCHANGED <<turn, reason, cancelled, stopping, waiting, log, written, torn,
                 userVars, approved, asked, old, work, stopAt>>

TimeoutNever ==
  /\ pc = "parked" /\ reply = "none" /\ stopping
  /\ pc' = "timed_out"
  /\ UNCHANGED <<loopVars, gateVars, diskVars, userVars, histVars>>

Timeout ==
  /\ pc = "parked" /\ reply = "none"
  /\ pc' = "timed_out"
  /\ UNCHANGED <<loopVars, gateVars, diskVars, userVars, histVars>>

\* The timed-out request takes itself off the map and counts as refused
TimedOutAllowed ==
  /\ pc = "timed_out"
  /\ waiting' = waiting \ {Head(todo)} /\ reply' = "none"
  /\ pc' = "execute" /\ ran' = ran \cup {Head(todo)} /\ Emit
  /\ UNCHANGED <<loopVars, cancelled, stopping, log, written, torn,
                 userVars, approved, asked, old, work, stopAt>>

TimedOut ==
  /\ pc = "timed_out"
  /\ waiting' = waiting \ {Head(todo)} /\ reply' = "none"
  /\ Finish(Head(todo))
  /\ UNCHANGED <<turn, reason, cancelled, stopping, log, written, torn,
                 userVars, histVars>>

\* The tool returns, with its output or an error
Executed ==
  /\ pc = "execute"
  /\ Finish(Head(todo))
  /\ UNCHANGED <<turn, reason, gateVars, log, written, torn, userVars, histVars>>

RoundEndsUncancelled ==
  /\ pc = "tools" /\ todo = <<>>
  /\ \/ turn >= MaxRounds /\ EndTurn("round_limit")
     \/ /\ turn < MaxRounds
        /\ pc' = "check" /\ UNCHANGED <<reason, todo, failed>>
  /\ UNCHANGED <<messages, turn, gateVars, log, written, torn, userVars, histVars>>

RoundEndsUnlimited ==
  /\ pc = "tools" /\ todo = <<>>
  /\ \/ cancelled /\ EndTurn("cancelled")
     \/ ~cancelled /\ pc' = "check" /\ UNCHANGED <<reason, todo, failed>>
  /\ UNCHANGED <<messages, turn, gateVars, log, written, torn, userVars, histVars>>

RoundEnds ==
  /\ pc = "tools" /\ todo = <<>>
  /\ \/ cancelled /\ EndTurn("cancelled")
     \/ ~cancelled /\ turn >= MaxRounds /\ EndTurn("round_limit")
     \/ /\ ~cancelled /\ turn < MaxRounds
        /\ pc' = "check" /\ UNCHANGED <<reason, todo, failed>>
  /\ UNCHANGED <<messages, turn, gateVars, log, written, torn, userVars, histVars>>

\* append_new_messages_tracked, one record at a time
AppendMessage ==
  /\ pc = "append"
  /\ IF written < Len(messages)
     THEN \/ /\ log' = Append(log, messages[written + 1])
             /\ written' = written + 1 /\ UNCHANGED <<pc, failed>>
          \/ /\ DiskMayFail /\ failed' = TRUE /\ pc' = "gone"
             /\ UNCHANGED <<log, written>>
     ELSE pc' = "recv" /\ UNCHANGED <<log, written, failed>>
  /\ UNCHANGED <<loopVars, gateVars, torn, userVars, histVars>>

\* The sender was dropped, after stop_session, and the channel is empty
PumpEnds ==
  /\ pc = "recv" /\ queue = <<>> /\ ~open /\ ~stopping
  /\ pc' = "gone"
  /\ UNCHANGED <<loopVars, gateVars, diskVars, userVars, histVars>>

Thread == \/ Recv \/ Compact \/ Check \/ StreamFails \/ Stream \/ NextCall \/ Ask
          \/ Answered \/ TimedOut \/ Executed \/ RoundEnds \/ AppendMessage
          \/ PumpEnds

----------------------------------------------------------------------------
(* The registry.  Each call holds its lock, stop_session's two halves too. *)

Locked == open /\ ~stopping

Prompt ==
  /\ Locked /\ pc \notin {"gone", "dead"} /\ sent < MaxPrompts
  /\ sent' = sent + 1
  /\ queue' = Append(queue, sent + 1)
  /\ UNCHANGED <<pc, loopVars, gateVars, diskVars, open, starts, histVars>>

\* UiGate::answer: the sender leaves the map and the decision is sent
Answer(c, decision) ==
  /\ Locked /\ c \in waiting
  /\ waiting' = waiting \ {c}
  /\ reply' = decision
  /\ approved' = IF decision = "allow" THEN approved \cup {c} ELSE approved
  /\ UNCHANGED <<pc, loopVars, cancelled, stopping, diskVars, userVars,
                 ran, asked, old, work, stopAt>>

\* stop_session, first half: the token
StopCancel ==
  /\ cancelled' = TRUE /\ stopping' = TRUE
  /\ stopAt' = IF cancelled THEN stopAt ELSE pc
  /\ UNCHANGED <<pc, loopVars, waiting, reply, diskVars, queue, sent, starts,
                 approved, ran, asked, old, work>>

Cancel == Locked /\ StopCancel /\ UNCHANGED open

Close == Locked /\ StopCancel /\ open' = FALSE

\* Second half: release_all refuses what is parked at that moment
StopRelease ==
  /\ stopping
  /\ stopping' = FALSE
  /\ waiting' = {}
  /\ reply' = IF waiting = {} THEN reply ELSE "deny"
  /\ UNCHANGED <<pc, loopVars, cancelled, diskVars, userVars, histVars>>

\* The process ends; the record being written may be cut
Crash ==
  /\ MayCrash /\ pc # "dead"
  /\ pc' = "dead" /\ open' = FALSE /\ queue' = <<>>
  /\ cancelled' = FALSE /\ stopping' = FALSE /\ waiting' = {} /\ reply' = "none"
  /\ torn' \in {torn, torn \/ pc \notin {"recv", "parked", "gone"}}
  /\ UNCHANGED <<loopVars, log, written, failed, sent, starts, histVars>>

\* AgentRegistry::start: the transcript is replayed and continued.  Replay
\* refuses a cut record.  Bound: the previous thread has ended.
Start ==
  /\ ~open /\ ~stopping /\ pc \in {"gone", "dead"} /\ starts < MaxStarts
  /\ ~torn
  /\ pc' = "recv" /\ open' = TRUE /\ starts' = starts + 1 /\ queue' = <<>>
  /\ messages' = log /\ written' = Len(log) /\ failed' = FALSE
  /\ todo' = <<>> /\ turn' = 0 /\ reason' = "none"
  /\ cancelled' = FALSE /\ waiting' = {} /\ reply' = "none"
  /\ old' = asked /\ work' = 0 /\ stopAt' = "none"
  /\ UNCHANGED <<stopping, log, torn, sent, approved, ran, asked>>

Next ==
  \/ Thread \/ Timeout \/ Prompt \/ Cancel \/ Close \/ StopRelease
  \/ \E c \in Calls, d \in {"allow", "deny"} : Answer(c, d)
  \/ Crash \/ Start

Spec == Init /\ [][Next]_vars

\* The thread runs, the provider and tools return, the approval timer fires,
\* and a started stop_session ends.  Nobody has to answer or stop anything.
FairSpec == Spec /\ WF_vars(Thread) /\ WF_vars(Timeout) /\ WF_vars(StopRelease)

----------------------------------------------------------------------------
(* The state's types, and that a prompt never takes more than MaxRounds    *)
(* rounds (the ceiling with_max_rounds sets).                              *)
TypeOK ==
  /\ pc \in Stages /\ turn \in 0..MaxRounds /\ reason \in Reasons
  /\ queue \in Seq(1..MaxPrompts) /\ sent \in 0..MaxPrompts /\ starts \in 1..MaxStarts
  /\ messages \in Seq(Message) /\ log \in Seq(Message) /\ written \in Nat
  /\ todo \in Seq(Calls) /\ waiting \subseteq Calls /\ reply \in {"none", "allow", "deny"}
  /\ {cancelled, stopping, open, failed, torn} \subseteq BOOLEAN
  /\ approved \subseteq Calls /\ ran \subseteq Calls /\ asked \subseteq Calls
  /\ old \subseteq Calls /\ work \in Nat /\ stopAt \in Stages \cup {"none"}

(* A tool runs only by the rule that allows it or by a user's Allow that   *)
(* reached the waiting call: not after a refusal, a stop or a timeout, and *)
(* never for a name no tool has (permission::resolve, UiGate).             *)
RefusedNeverRuns ==
  /\ ran \subseteq SafeCalls \cup approved
  /\ ran \cap UnknownCalls = {}

(* Whenever the model is asked, each call it made in this run of the       *)
(* session is followed by its results, one each and in order, whatever was *)
(* refused, stopped, timed out or compacted: an unanswered call makes the  *)
(* history invalid for the next request.                                   *)
CallsAnswered ==
  pc = "stream" =>
    \A i \in DOMAIN messages :
      messages[i].kind = "assistant" /\ Range(messages[i].calls) \cap old = {} =>
        \A k \in DOMAIN messages[i].calls :
          /\ i + k <= Len(messages)
          /\ messages[i + k] = Result(messages[i].calls[k])

(* A stop reaches a turn between two of its checks: at most one request to *)
(* the model or one approval prompt begins after it.  A stop that finds    *)
(* the turn at its tools ends it as cancelled, not as done, failed or out  *)
(* of rounds, even if the model wanted nothing more.                       *)
StopEndsTurn ==
  /\ work <= 1
  /\ stopAt \in AtTools /\ pc \in {"append", "recv"} => reason = "cancelled"

(* Prompts are worked off: a session with a prompt queued or a turn        *)
(* running comes to rest, though nobody answers an approval.               *)
PromptsEnd ==
  (queue # <<>> \/ pc \notin Idle)
    ~> (pc \in Idle /\ (queue = <<>> \/ pc # "recv"))

(* A finished stop leaves no call parked: stop_session does both halves so *)
(* that no turn waits for an answer that is no longer coming.              *)
StopReachesGate ==
  cancelled /\ ~stopping => ~(pc = "parked" /\ reply = "none")

(* Between turns the transcript holds every message of the conversation a  *)
(* later start would have to continue from (the folded summary aside).     *)
TranscriptComplete ==
  pc = "recv" => \A m \in Range(messages) : m = User(0) \/ m \in Range(log)
=============================================================================
