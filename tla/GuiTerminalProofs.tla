------------------------- MODULE GuiTerminalProofs -------------------------
(***************************************************************************)
(* Proofs about the GUI's end of terminals, for any sessions, tabs, shares *)
(* and output: its types, that every chunk the reader thread takes is      *)
(* shown once, that nothing names a session whose Exit was handled, and    *)
(* that a live share is fed, whatever commands and frames come between.    *)
(***************************************************************************)
EXTENDS GuiTerminal, SequenceTheorems, WellFoundedInduction, TLAPS

-----------------------------------------------------------------------------
(* Frames in sequences. *)

\* No chunk is in a sequence twice.
Distinct(frames) ==
  \A i, j \in 1 .. Len(frames) :
    /\ frames[i].kind = "output" /\ frames[j].kind = "output"
    /\ frames[i].sess = frames[j].sess /\ frames[i].n = frames[j].n
    => i = j

LEMMA OutputMembers ==
  ASSUME NEW frames \in Seq(Frames), NEW x
  PROVE  x \in OutputsIn(frames) <=>
           \E i \in 1 .. Len(frames) :
             frames[i].kind = "output" /\ x = <<frames[i].sess, frames[i].n>>
<1>1. DOMAIN frames = 1 .. Len(frames)
  OBVIOUS
<1>2. Range(frames) = {frames[i] : i \in 1 .. Len(frames)}
  BY <1>1 DEF Range
<1> QED BY <1>2 DEF OutputsIn

LEMMA OutputsOfOne ==
  ASSUME NEW f \in Frames
  PROVE  /\ OutputsIn(<<f>>) = IF f.kind = "output" THEN {<<f.sess, f.n>>} ELSE {}
         /\ OutputsIn(<<>>) = {} /\ <<f>> \in Seq(Frames) /\ <<>> \in Seq(Frames)
<1>1. <<f>> \in Seq(Frames) /\ Len(<<f>>) = 1 /\ <<f>>[1] = f
  OBVIOUS
<1>2. <<>> \in Seq(Frames) /\ Len(<<>>) = 0
  OBVIOUS
<1>3. ASSUME NEW x PROVE x \in OutputsIn(<<f>>) <=> f.kind = "output" /\ x = <<f.sess, f.n>>
  <2>1. 1 .. Len(<<f>>) = {1}
    BY <1>1
  <2> QED BY <1>1, <2>1, OutputMembers
<1>4. ASSUME NEW x PROVE x \notin OutputsIn(<<>>)
  <2>1. 1 .. Len(<<>>) = {}
    BY <1>2
  <2> QED BY <1>2, <2>1, OutputMembers
<1> QED BY <1>1, <1>2, <1>3, <1>4

LEMMA OutputsAppend ==
  ASSUME NEW frames \in Seq(Frames), NEW f \in Frames
  PROVE  /\ Append(frames, f) \in Seq(Frames) /\ Len(Append(frames, f)) = Len(frames) + 1
         /\ \A i \in 1 .. Len(frames) + 1 :
              Append(frames, f)[i] = IF i = Len(frames) + 1 THEN f ELSE frames[i]
         /\ OutputsIn(Append(frames, f)) = OutputsIn(frames) \cup OutputsIn(<<f>>)
         /\ Distinct(frames) /\ OutputsIn(frames) \cap OutputsIn(<<f>>) = {}
              => Distinct(Append(frames, f))
<1> DEFINE all == Append(frames, f)
<1>1. all \in Seq(Frames) /\ Len(all) = Len(frames) + 1 /\ Len(frames) \in Nat
  OBVIOUS
<1>2. \A i \in 1 .. Len(frames) + 1 : all[i] = IF i = Len(frames) + 1 THEN f ELSE frames[i]
  OBVIOUS
<1>3. \A x : x \in OutputsIn(<<f>>) <=> f.kind = "output" /\ x = <<f.sess, f.n>>
  BY OutputsOfOne
<1> HIDE DEF all
<1>4. ASSUME NEW x PROVE x \in OutputsIn(all) <=> x \in OutputsIn(frames) \/ x \in OutputsIn(<<f>>)
  <2>1. x \in OutputsIn(all) <=>
          \E i \in 1 .. Len(frames) + 1 : all[i].kind = "output" /\ x = <<all[i].sess, all[i].n>>
    BY <1>1, OutputMembers
  <2>2. x \in OutputsIn(frames) <=>
          \E i \in 1 .. Len(frames) : frames[i].kind = "output" /\ x = <<frames[i].sess, frames[i].n>>
    BY OutputMembers
  <2>3. \A i \in 1 .. Len(frames) : i \in 1 .. Len(frames) + 1 /\ all[i] = frames[i]
    BY <1>1, <1>2
  <2>4. \A i \in 1 .. Len(frames) + 1 : i = Len(frames) + 1 \/ i \in 1 .. Len(frames)
    BY <1>1
  <2>5. Len(frames) + 1 \in 1 .. Len(frames) + 1 /\ all[Len(frames) + 1] = f
    BY <1>1, <1>2
  <2> QED BY <2>1, <2>2, <2>3, <2>4, <2>5, <1>3
<1>5. ASSUME Distinct(frames), OutputsIn(frames) \cap OutputsIn(<<f>>) = {} PROVE Distinct(all)
  <2> SUFFICES ASSUME NEW i \in 1 .. Len(frames) + 1, NEW j \in 1 .. Len(frames) + 1,
                      all[i].kind = "output", all[j].kind = "output",
                      all[i].sess = all[j].sess, all[i].n = all[j].n, i < j
               PROVE  FALSE
    BY <1>1 DEF Distinct
  <2>1. i \in 1 .. Len(frames) /\ all[i] = frames[i]
    BY <1>1, <1>2
  <2>2. CASE j = Len(frames) + 1
    <3>1. all[j] = f
      BY <2>2, <1>2
    <3>2. <<f.sess, f.n>> \in OutputsIn(frames)
      BY <2>1, <3>1, OutputMembers
    <3> QED BY <3>1, <3>2, <1>3, <1>5
  <2>3. CASE j \in 1 .. Len(frames)
    BY <2>1, <2>3, <1>2, <1>1, <1>5 DEF Distinct
  <2> QED BY <2>2, <2>3
<1> QED BY <1>1, <1>2, <1>4, <1>5 DEF all

LEMMA OutputsWithout ==
  ASSUME NEW frames \in Seq(Frames), NEW at \in 1 .. Len(frames)
  PROVE  /\ RemoveAt(frames, at) \in Seq(Frames)
         /\ Len(RemoveAt(frames, at)) = Len(frames) - 1
         /\ \A i \in 1 .. Len(frames) - 1 :
              RemoveAt(frames, at)[i] = IF i < at THEN frames[i] ELSE frames[i + 1]
         /\ OutputsIn(RemoveAt(frames, at)) \subseteq OutputsIn(frames)
         /\ Distinct(frames) => Distinct(RemoveAt(frames, at))
<1> DEFINE before == SubSeq(frames, 1, at - 1)
           after == SubSeq(frames, at + 1, Len(frames))
           rest == RemoveAt(frames, at)
<1>1. before \in Seq(Frames) /\ Len(before) = at - 1
      /\ \A i \in 1 .. at - 1 : before[i] = frames[i]
  OBVIOUS
<1>2. after \in Seq(Frames) /\ Len(after) = Len(frames) - at
      /\ \A i \in 1 .. Len(frames) - at : after[i] = frames[i + at]
  OBVIOUS
<1>3. rest = before \o after
  BY DEF RemoveAt
<1> HIDE DEF before, after, rest
<1>4. rest \in Seq(Frames) /\ Len(rest) = Len(frames) - 1
  BY <1>1, <1>2, <1>3
<1>5. ASSUME NEW i \in 1 .. Len(frames) - 1
      PROVE  rest[i] = IF i < at THEN frames[i] ELSE frames[i + 1]
  <2>1. rest[i] = IF i <= Len(before) THEN before[i] ELSE after[i - Len(before)]
    BY <1>1, <1>2, <1>3
  <2>2. CASE i < at
    BY <2>1, <2>2, <1>1
  <2>3. CASE ~(i < at)
    <3>1. i - (at - 1) \in 1 .. Len(frames) - at /\ i - (at - 1) + at = i + 1
      BY <2>3
    <3> QED BY <2>1, <2>3, <3>1, <1>1, <1>2
  <2> QED BY <2>2, <2>3
<1>6. ASSUME NEW x, x \in OutputsIn(rest) PROVE x \in OutputsIn(frames)
  <2>1. PICK i \in 1 .. Len(frames) - 1 : rest[i].kind = "output" /\ x = <<rest[i].sess, rest[i].n>>
    BY <1>4, <1>6, OutputMembers
  <2>2. \E j \in 1 .. Len(frames) : rest[i] = frames[j]
    BY <1>5
  <2> QED BY <2>1, <2>2, OutputMembers
<1>7. ASSUME Distinct(frames) PROVE Distinct(rest)
  <2> SUFFICES ASSUME NEW i \in 1 .. Len(frames) - 1, NEW j \in 1 .. Len(frames) - 1,
                      rest[i].kind = "output", rest[j].kind = "output",
                      rest[i].sess = rest[j].sess, rest[i].n = rest[j].n, i < j
               PROVE  FALSE
    BY <1>4 DEF Distinct
  <2>1. PICK k \in 1 .. Len(frames) : rest[i] = frames[k] /\ k = IF i < at THEN i ELSE i + 1
    BY <1>5
  <2>2. PICK l \in 1 .. Len(frames) : rest[j] = frames[l] /\ l = IF j < at THEN j ELSE j + 1
    BY <1>5
  <2>3. k = l
    BY <2>1, <2>2, <1>7 DEF Distinct
  <2> QED BY <2>1, <2>2, <2>3
<1> QED BY <1>4, <1>5, <1>6, <1>7 DEF rest

LEMMA OutputsTail ==
  ASSUME NEW frames \in Seq(Frames), frames # <<>>
  PROVE  /\ Head(frames) \in Frames /\ Tail(frames) \in Seq(Frames) /\ 1 \in 1 .. Len(frames)
         /\ Head(frames) = frames[1] /\ Len(Tail(frames)) = Len(frames) - 1
         /\ \A i \in 1 .. Len(frames) - 1 : Tail(frames)[i] = frames[i + 1]
         /\ OutputsIn(frames) = OutputsIn(<<Head(frames)>>) \cup OutputsIn(Tail(frames))
         /\ Distinct(frames) => /\ Distinct(Tail(frames))
                                /\ OutputsIn(<<Head(frames)>>) \cap OutputsIn(Tail(frames)) = {}
<1> DEFINE rest == Tail(frames)  f == Head(frames)
<1>1. Len(frames) \in Nat \ {0}
  BY EmptySeq
<1>2. f \in Frames /\ rest \in Seq(Frames) /\ f = frames[1] /\ Len(rest) = Len(frames) - 1
  BY <1>1
<1>3. \A i \in 1 .. Len(frames) - 1 : rest[i] = frames[i + 1]
  BY <1>1
<1> HIDE DEF rest, f
<1>4. \A x : x \in OutputsIn(<<f>>) <=> f.kind = "output" /\ x = <<f.sess, f.n>>
  BY <1>2, OutputsOfOne
<1>5. ASSUME NEW x PROVE x \in OutputsIn(frames) <=> x \in OutputsIn(<<f>>) \/ x \in OutputsIn(rest)
  <2>1. x \in OutputsIn(rest) <=>
          \E i \in 1 .. Len(frames) - 1 : rest[i].kind = "output" /\ x = <<rest[i].sess, rest[i].n>>
    BY <1>2, OutputMembers
  <2>2. x \in OutputsIn(frames) <=>
          \E i \in 1 .. Len(frames) : frames[i].kind = "output" /\ x = <<frames[i].sess, frames[i].n>>
    BY OutputMembers
  <2>3. \A i \in 1 .. Len(frames) - 1 : i + 1 \in 1 .. Len(frames) /\ rest[i] = frames[i + 1]
    BY <1>1, <1>3
  <2>4. \A i \in 1 .. Len(frames) :
          i = 1 \/ (i - 1 \in 1 .. Len(frames) - 1 /\ rest[i - 1] = frames[i])
    BY <1>1, <1>3
  <2>5. 1 \in 1 .. Len(frames)
    BY <1>1
  <2> QED BY <2>1, <2>2, <2>3, <2>4, <2>5, <1>2, <1>4
<1>6. ASSUME Distinct(frames)
      PROVE  Distinct(rest) /\ OutputsIn(<<f>>) \cap OutputsIn(rest) = {}
  <2>1. Distinct(rest)
    <3> SUFFICES ASSUME NEW i \in 1 .. Len(frames) - 1, NEW j \in 1 .. Len(frames) - 1,
                        rest[i].kind = "output", rest[j].kind = "output",
                        rest[i].sess = rest[j].sess, rest[i].n = rest[j].n
                 PROVE  i = j
      BY <1>2 DEF Distinct
    <3>1. i + 1 \in 1 .. Len(frames) /\ j + 1 \in 1 .. Len(frames)
      BY <1>1
    <3>2. i + 1 = j + 1
      BY <3>1, <1>3, <1>6 DEF Distinct
    <3> QED BY <3>2
  <2>2. ASSUME NEW x, x \in OutputsIn(<<f>>), x \in OutputsIn(rest) PROVE FALSE
    <3>1. PICK i \in 1 .. Len(frames) - 1 : rest[i].kind = "output" /\ x = <<rest[i].sess, rest[i].n>>
      BY <1>2, <2>2, OutputMembers
    <3>2. f.kind = "output" /\ x = <<f.sess, f.n>>
      BY <2>2, <1>4
    <3>3. i + 1 \in 1 .. Len(frames) /\ 1 \in 1 .. Len(frames) /\ rest[i] = frames[i + 1]
      BY <1>1, <1>3
    <3>4. i + 1 = 1
      BY <3>1, <3>2, <3>3, <1>2, <1>6 DEF Distinct
    <3> QED BY <3>4
  <2> QED BY <2>1, <2>2
<1> QED BY <1>1, <1>2, <1>3, <1>5, <1>6 DEF rest, f

LEMMA LessThan ==
  \E less : IsWellFoundedOn(less, Nat) /\ \A j \in Nat, k \in Nat : j < k => <<j, k>> \in less
<1>1. \A j \in Nat, k \in Nat : j < k => <<j, k>> \in OpToRel(<, Nat)
  BY DEF OpToRel
<1> QED BY <1>1, NatLessThanWellFounded, Zenon

LEMMA LeastNumber ==
  ASSUME NEW ns, ns \subseteq Nat, ns # {}
  PROVE  \E i \in ns : \A j \in ns : i <= j
<1>1. PICK less : IsWellFoundedOn(less, Nat) /\ \A j \in Nat, k \in Nat : j < k => <<j, k>> \in less
  BY LessThan
<1>2. PICK i \in ns : \A j \in ns : ~(<<j, i>> \in less)
  BY <1>1, WFMin, ZenonT(30)
<1>3. \A j \in ns : ~(j < i)
  BY <1>1, <1>2
<1> QED BY <1>3

\* A full backlog gives up one frame and keeps its cap.
LEMMA KeptFrames ==
  ASSUME NEW frames \in Seq(Frames), Len(frames) <= MaxBacklog + 1
  PROVE  /\ Kept(frames) \in Seq(Frames) /\ Len(Kept(frames)) <= MaxBacklog
         /\ OutputsIn(Kept(frames)) \subseteq OutputsIn(frames)
         /\ \A i \in 1 .. Len(Kept(frames)) : \E j \in 1 .. Len(frames) : Kept(frames)[i] = frames[j]
         /\ Distinct(frames) => Distinct(Kept(frames))
<1>1. Len(frames) \in Nat /\ MaxBacklog \in Nat
  BY BoundsAssumption
<1>2. CASE Len(frames) <= MaxBacklog
  BY <1>1, <1>2 DEF Kept
<1>3. CASE Len(frames) > MaxBacklog
  <2>1. Len(frames) = MaxBacklog + 1 /\ Len(frames) > 0
    BY <1>1, <1>3
  <2> DEFINE loose == {i \in DOMAIN frames : frames[i].kind # "exit"}
             Oldest(i) == \A j \in loose : i <= j
             at == IF loose = {} THEN 1 ELSE CHOOSE i \in loose : Oldest(i)
  <2>2. DropFirst(frames) = RemoveAt(frames, at)
    BY DEF DropFirst
  <2>3. loose \subseteq Nat /\ loose \subseteq 1 .. Len(frames)
    OBVIOUS
  <2>4. loose # {} => \E i \in loose : Oldest(i)
    <3> HIDE DEF loose
    <3> QED BY <2>3, LeastNumber
  <2>5. at \in 1 .. Len(frames)
    <3> HIDE DEF loose, Oldest
    <3>1. CASE loose = {}
      BY <2>1, <3>1
    <3>2. CASE loose # {}
      <4>1. (CHOOSE i \in loose : Oldest(i)) \in loose
        BY <2>4, <3>2, Zenon
      <4> QED BY <4>1, <3>2, <2>3
    <3> QED BY <3>1, <3>2
  <2> HIDE DEF at, loose, Oldest
  <2>6. Kept(frames) = RemoveAt(frames, at)
    BY <1>3, <2>2 DEF Kept
  <2>7. \A i \in 1 .. Len(frames) - 1 : i \in 1 .. Len(frames) /\ i + 1 \in 1 .. Len(frames)
    BY <1>1
  <2>8. /\ Kept(frames) \in Seq(Frames) /\ Len(Kept(frames)) = Len(frames) - 1
        /\ \A i \in 1 .. Len(frames) - 1 :
             Kept(frames)[i] = IF i < at THEN frames[i] ELSE frames[i + 1]
        /\ OutputsIn(Kept(frames)) \subseteq OutputsIn(frames)
        /\ Distinct(frames) => Distinct(Kept(frames))
    BY <2>5, <2>6, OutputsWithout
  <2> QED BY <2>1, <2>7, <2>8, <1>1
<1> QED BY <1>1, <1>2, <1>3

-----------------------------------------------------------------------------
(* Types and control, in parts.                                            *)

HelperTypes ==
  /\ run \in [Sessions -> {"none", "live", "dying", "ended"}]
  /\ sink \subseteq Sessions /\ out \in [Sessions -> Nat] /\ wire \in Seq(Frames)

RequestTypes ==
  /\ pending \in Requests \cup {Nothing} /\ answer \in Frames \cup {Nothing}
  /\ cmd \in Commands \cup {Nothing}

FrameTypes ==
  /\ hand \in [frame : Frames, to : Nat] \cup {Nothing} /\ flushed \in Seq(Frames)
  /\ backlog \in [Sessions -> Seq(Frames)]
  /\ \A s \in Sessions : Len(backlog[s]) <= MaxBacklog
  /\ view \in [Sessions -> Seq([to : Nat, kind : Held, n : Nat])]

RouteTypes ==
  /\ bridges \in [Sessions -> Nat] /\ opens \in [Sessions -> Nat] /\ gens \subseteq Sessions
  /\ ui \in [Sessions -> {"none", "background"} \cup Tabs]
  /\ early \cup exited \subseteq Sessions

GlueTypes ==
  /\ dying \in [Threads -> [tab : Tabs \cup {Nothing}, sess : Sessions \cup {Nothing}]]
  /\ tabOf \in [Sessions -> Tabs \cup {Nothing}]
  /\ source \in [Tabs -> Bridges \cup {Nothing}]
  /\ rows \subseteq Sharers \X Sessions /\ starting \subseteq Tabs /\ hub \subseteq Sharers
  /\ bound \in [Sharers -> Bridges \cup {Nothing}]
  /\ task \in [Sharers -> [tab : Tabs, src : Bridges, sess : Sessions] \cup {Nothing}]
  /\ raced \subseteq Sharers

LEMMA TypeParts ==
  TypeOK <=> HelperTypes /\ RequestTypes /\ FrameTypes /\ RouteTypes /\ GlueTypes
BY DEF TypeOK, HelperTypes, RequestTypes, FrameTypes, RouteTypes, GlueTypes

\* Where the threads can be.
MainStages ==
  {"idle", "wait", "flush", "flushing", "replay", "register", "died", "died_row", "unroute",
   "sweep", "quit"}
ReaderStages == {"idle", "deliver", "lookup", "died", "died_row", "unroute", "forget"}
StartStages == {"idle", "reserved", "bound", "checked", "done"}

Stages ==
  /\ pc \in [Threads \cup Sharers -> MainStages \cup ReaderStages \cup StartStages]
  /\ pc["main"] \in MainStages /\ pc["reader"] \in ReaderStages
  /\ \A p \in Sharers : pc[p] \in StartStages

\* What a command waits for.
Expects(op, kind) ==
  <<op, kind>> \in {<<"create", "spawn">>, <<"attach", "snapshot">>, <<"detach", "detach">>,
                    <<"kill", "terminate">>, <<"kill_all", "kill_all">>}

\* The command at work, by where the main thread is in it.
Commanding ==
  /\ (pc["main"] \in {"idle", "quit"}) <=> (cmd = Nothing)
  /\ pc["main"] = "wait" =>
       /\ cmd.op # "share_stop"
       /\ (cmd.op \in {"create", "kill_all"}) <=> (cmd.sess = Nothing)
       /\ cmd.op \in {"create", "attach"} => cmd.tab \in Tabs
  /\ pc["main"] \in {"flush", "flushing", "replay", "register"} =>
       /\ cmd.op \in {"create", "attach"} /\ cmd.sess \in Sessions /\ cmd.tab \in Tabs
       /\ answer # Nothing
  /\ pc["main"] \in {"died", "died_row", "unroute"} =>
       cmd.op \in {"detach", "kill"} /\ cmd.sess \in Sessions
  /\ pc["main"] = "sweep" => cmd.op = "share_stop" /\ cmd.tab \in Tabs
  /\ (pc["main"] = "flushing") <=> (flushed # <<>>)

\* The request under way and its answer.
Answering ==
  /\ pc["main"] \in {"idle", "sweep", "quit"} => answer = Nothing
  /\ pending # Nothing =>
       /\ pc["main"] = "wait" /\ answer = Nothing
       /\ Expects(cmd.op, pending.kind) /\ pending.sess = cmd.sess
  /\ pc["main"] = "wait" /\ answer # Nothing =>
       \/ answer.kind = "error"
       \/ /\ Expects(cmd.op, answer.kind) /\ cmd.sess \in {Nothing, answer.sess}
          /\ answer.kind # "kill_all" => answer.sess \in Sessions

\* What is no event answers the request, and there is one answer to a request.
Event(f) == f.kind \in {"output", "exit"} /\ f.sess \in Sessions

Answered ==
  \A i \in 1 .. Len(wire) :
    \/ Event(wire[i])
    \/ /\ Answers(wire[i]) /\ (wire[i].kind # "kill_all" => wire[i].sess \in Sessions)
       /\ \A j \in 1 .. Len(wire) : j # i => Event(wire[j])

\* What the reader has in its hands, and what waits for a bridge.
Handling ==
  /\ (pc["reader"] = "idle") <=> (hand = Nothing)
  /\ hand # Nothing => Event(hand.frame)
  /\ pc["reader"] \in {"lookup", "died", "died_row", "unroute", "forget"} => hand.frame.kind = "exit"
  /\ \A a \in Threads :
       /\ pc[a] \in {"died", "died_row"} => dying[a].tab \in Tabs
       /\ pc[a] = "died_row" => dying[a].sess \in Sessions
  /\ \A i \in 1 .. Len(flushed) : Event(flushed[i])
  /\ \A s \in Sessions : \A i \in 1 .. Len(backlog[s]) :
       Event(backlog[s][i]) /\ backlog[s][i].sess = s

Tasks == \A p \in Sharers : (pc[p] \in {"reserved", "bound", "checked"}) <=> (task[p] # Nothing)

TypeInv ==
  /\ HelperTypes /\ RequestTypes /\ FrameTypes /\ RouteTypes /\ GlueTypes
  /\ Stages /\ Commanding /\ Answering /\ Answered /\ Handling /\ Tasks

-----------------------------------------------------------------------------
(* The steps, by what takes them. *)

HelperStep == \E s \in Sessions : HelperOutputs(s) \/ HelperExits(s)

CallStep ==
  \/ KillAll
  \/ \E s \in Sessions : Detach(s) \/ Kill(s) \/ \E t \in Tabs : Attach(s, t)
  \/ \E t \in Tabs : Create(t)

OpenStep == Failed \/ Install \/ FlushTakes \/ FlushDelivers \/ Replay \/ Register

CloseStep ==
  \/ MainDies \/ Unroute \/ KilledAll \/ ShareSweep
  \/ \E t \in Tabs : ShareStop(t)

ShareStep == \E p \in Sharers : Sharer(p) \/ \E t \in Tabs : StartReserve(p, t)

LEMMA Steps ==
  ASSUME [Next]_vars
  PROVE  HelperStep \/ Reader \/ CallStep \/ OpenStep \/ CloseStep \/ ShareStep \/ UNCHANGED vars
BY DEF Next, Main, HelperStep, CallStep, OpenStep, CloseStep, ShareStep

LEMMA Going ==
  ASSUME Stages, NEW a \in Threads \cup Sharers, NEW l, Goto(a, l)
  PROVE  /\ pc' = [b \in Threads \cup Sharers |-> IF b = a THEN l ELSE pc[b]]
         /\ pc'[a] = l /\ \A b \in Threads \cup Sharers : b # a => pc'[b] = pc[b]
BY DEF Stages, Goto

LEMMA Apart ==
  /\ "main" \in Threads /\ "reader" \in Threads /\ "main" # "reader"
  /\ \A p \in Sharers : p # "main" /\ p # "reader" /\ p \in Threads \cup Sharers
BY ActorsAssumption DEF Threads

LEMMA StagesStep == TypeInv /\ [Next]_vars => Stages'
<1> SUFFICES ASSUME TypeInv, [Next]_vars PROVE Stages'
  OBVIOUS
<1> DEFINE May(a, l) ==
      \/ a = "main" /\ l \in MainStages
      \/ a = "reader" /\ l \in ReaderStages
      \/ a \in Sharers /\ l \in StartStages
<1>0. Stages
  BY DEF TypeInv
<1>1. ASSUME NEW a, NEW l, May(a, l), Goto(a, l) PROVE Stages'
  <2>1. a \in Threads \cup Sharers
    BY <1>1, Apart
  <2>2. /\ pc' = [b \in Threads \cup Sharers |-> IF b = a THEN l ELSE pc[b]]
    BY <2>1, <1>0, <1>1, Going
  <2> QED BY <2>2, <1>0, <1>1, Apart DEF Stages
<1>2. ASSUME pc' = pc PROVE Stages'
  BY <1>0, <1>2 DEF Stages
<1>3. CASE HelperStep
  BY <1>2, <1>3 DEF HelperStep, HelperOutputs, HelperExits
<1> USE DEF MainStages, ReaderStages, StartStages
<1>4. CASE Reader
  BY <1>1, <1>2, <1>4 DEF Reader, ReaderTakes, ReaderDelivers, ReaderDies, Died, DiedRow, DiedShares,
     ReaderUnroutes, ReaderForgets
<1>5. CASE CallStep
  BY <1>1, <1>5 DEF CallStep, KillAll, Detach, Kill, Attach, Create, Call
<1>6. CASE OpenStep
  BY <1>1, <1>6 DEF OpenStep, Failed, Install, FlushTakes, FlushDelivers, Replay, Register, Return,
     AfterFlush
<1>7. CASE CloseStep
  BY <1>1, <1>7 DEF CloseStep, MainDies, Died, DiedRow, DiedShares, Unroute, KilledAll, ShareSweep,
     ShareStop, Return
<1>8. CASE ShareStep
  BY <1>1, <1>8 DEF ShareStep, Sharer, StartReserve, StartBind, StartCheck, StartInsert, StartEnds
<1>9. CASE UNCHANGED vars
  BY <1>2, <1>9 DEF vars
<1> QED BY <1>3, <1>4, <1>5, <1>6, <1>7, <1>8, <1>9, Steps

\* What a call does: the request goes out and frame f is its answer to be.
Called(op, s, t, kind, f) ==
  /\ pc["main"] = "idle" /\ Goto("main", "wait")
  /\ s \in Sessions \cup {Nothing} /\ t \in Tabs \cup {Nothing}
  /\ cmd' = [op |-> op, sess |-> s, tab |-> t] /\ Expects(op, kind)
  /\ (op \in {"create", "kill_all"}) <=> (s = Nothing)
  /\ op \in {"create", "attach"} => t \in Tabs
  /\ pending' = [kind |-> kind, sess |-> s] /\ answer' = Nothing
  /\ f \in Frames /\ wire' = Append(wire, f)
  /\ \/ f.kind = "error" /\ f.sess \in Sessions
     \/ /\ f.kind = kind /\ s \in {Nothing, f.sess}
        /\ kind # "kill_all" => f.sess \in Sessions
  /\ run' \in [Sessions -> {"none", "live", "dying", "ended"}] /\ sink' \subseteq Sessions
  /\ UNCHANGED <<out, viewVars, routeVars, glueVars, startVars, histVars, hand, flushed, dying>>

LEMMA CallEffect ==
  ASSUME TypeInv, CallStep
  PROVE  \E op, s, t, kind, f : Called(op, s, t, kind, f)
<1>0. HelperTypes /\ Nothing \notin Sessions /\ Nothing \notin Tabs
      /\ tabOf \in [Sessions -> Tabs \cup {Nothing}]
  BY ActorsAssumption DEF TypeInv, GlueTypes
<1>1. ASSUME NEW kind \in Replies \cup {"error"}, NEW s \in Sessions \cup {Nothing}, NEW n \in Nat
      PROVE  Frame(kind, s, n) \in Frames
  BY DEF Frame, Frames
<1>2. \A kind, s, n : Frame(kind, s, n).kind = kind /\ Frame(kind, s, n).sess = s
  BY DEF Frame
<1>3. CASE KillAll
  <2> DEFINE f == Frame("kill_all", Nothing, 0)
  <2>1. Call("kill_all", Nothing, Nothing, "kill_all", "kill_all")
    BY <1>3 DEF KillAll
  <2>2. f \in Frames /\ f.kind = "kill_all"
    BY <1>1, <1>2 DEF Replies
  <2>3. wire' = Append(wire, f) /\ sink' = sink
        /\ run' = [x \in Sessions |-> IF run[x] = "live" THEN "dying" ELSE run[x]]
    BY <2>1, <1>0 DEF Call, Served, Sent
  <2>4. run' \in [Sessions -> {"none", "live", "dying", "ended"}] /\ sink' \subseteq Sessions
    BY <2>3, <1>0 DEF HelperTypes
  <2> HIDE DEF f
  <2>5. Called("kill_all", Nothing, Nothing, "kill_all", f)
    BY <2>1, <2>2, <2>3, <2>4 DEF Call, Called, Expects
  <2> QED BY <2>5
<1>4. ASSUME NEW t \in Tabs, Create(t) PROVE \E op, s, u, kind, f : Called(op, s, u, kind, f)
  <2>1. Call("create", Nothing, t, "spawn", "spawn")
    BY <1>4 DEF Create
  <2>2. PICK new \in Sessions :
          /\ run' = [run EXCEPT ![new] = "live"] /\ sink' = sink \cup {new}
          /\ wire' = Append(wire, Frame("spawn", new, 0))
    BY <2>1, <1>0 DEF Call, Served, Sent
  <2> DEFINE f == Frame("spawn", new, 0)
  <2>3. f \in Frames /\ f.kind = "spawn" /\ f.sess = new
    BY <1>1, <1>2 DEF Replies
  <2>4. run' \in [Sessions -> {"none", "live", "dying", "ended"}] /\ sink' \subseteq Sessions
    BY <2>2, <1>0 DEF HelperTypes
  <2> HIDE DEF f
  <2>5. Called("create", Nothing, t, "spawn", f)
    BY <2>1, <2>2, <2>3, <2>4 DEF Call, Called, Expects, f
  <2> QED BY <2>5
<1>5. ASSUME NEW s \in Sessions, NEW op, NEW t \in Tabs \cup {Nothing}, NEW asked, NEW kind,
             Call(op, s, t, asked, kind),
             <<op, asked, kind>> \in {<<"attach", "attach", "snapshot">>, <<"detach", "detach", "detach">>,
                                      <<"kill", "terminate", "terminate">>},
             op = "attach" => t \in Tabs
      PROVE  \E f : Called(op, s, t, kind, f)
  <2>1. PICK f : /\ wire' = Append(wire, f) /\ f \in Frames /\ f.sess = s
                 /\ f.kind \in {kind, "error"}
    <3>1. CASE op = "attach"
      <4>1. out[s] \in Nat
        BY <1>0 DEF HelperTypes
      <4>2. \/ wire' = Append(wire, Frame("snapshot", s, out[s]))
            \/ wire' = Append(wire, Frame("error", s, 0))
        BY <1>5, <3>1 DEF Call, Served, Sent
      <4> QED BY <1>1, <1>2, <1>5, <3>1, <4>1, <4>2 DEF Replies
    <3>2. CASE op \in {"detach", "kill"}
      <4>2. \/ wire' = Append(wire, Frame(kind, s, 0))
            \/ wire' = Append(wire, Frame("error", s, 0))
        BY <1>5, <3>2 DEF Call, Served, Sent
      <4> QED BY <1>1, <1>2, <1>5, <3>2, <4>2 DEF Replies
    <3> QED BY <1>5, <3>1, <3>2
  <2>2. run' \in [Sessions -> {"none", "live", "dying", "ended"}] /\ sink' \subseteq Sessions
    BY <1>0, <1>5 DEF Call, Served, HelperTypes
  <2>3. Called(op, s, t, kind, f)
    BY <1>0, <1>5, <2>1, <2>2 DEF Call, Called, Expects
  <2> QED BY <2>3
<1>6. ASSUME NEW s \in Sessions, NEW t \in Tabs, Attach(s, t)
      PROVE  \E op, x, u, kind, f : Called(op, x, u, kind, f)
  BY <1>5, <1>6 DEF Attach
<1>7. ASSUME NEW s \in Sessions, Detach(s) PROVE \E op, x, u, kind, f : Called(op, x, u, kind, f)
  <2>1. tabOf[s] \in Tabs \cup {Nothing}
    BY <1>0
  <2> QED BY <1>5, <1>7, <2>1 DEF Detach
<1>8. ASSUME NEW s \in Sessions, Kill(s) PROVE \E op, x, u, kind, f : Called(op, x, u, kind, f)
  BY <1>5, <1>8 DEF Kill
<1> QED BY <1>3, <1>4, <1>6, <1>7, <1>8 DEF CallStep

-----------------------------------------------------------------------------
(* The types are kept, group by group.                                     *)

LEMMA HelperTypesStep == TypeInv /\ [Next]_vars => HelperTypes'
<1> SUFFICES ASSUME TypeInv, [Next]_vars PROVE HelperTypes'
  OBVIOUS
<1>0. HelperTypes
  BY DEF TypeInv
<1>1. ASSUME NEW s \in Sessions, HelperOutputs(s) PROVE HelperTypes'
  <2>1. out[s] + 1 \in Nat
    BY <1>0 DEF HelperTypes
  <2>2. OutputOf(s, out[s] + 1) \in Frames
    BY <2>1 DEF OutputOf, Frame, Frames
  <2>3. wire' = Append(wire, OutputOf(s, out[s] + 1)) /\ out' = [out EXCEPT ![s] = @ + 1]
        /\ UNCHANGED <<run, sink>>
    BY <1>1 DEF HelperOutputs, Sent
  <2> QED BY <2>1, <2>2, <2>3, <1>0 DEF HelperTypes
<1>2. ASSUME NEW s \in Sessions, HelperExits(s) PROVE HelperTypes'
  <2>1. Frame("exit", s, 0) \in Frames
    BY DEF Frame, Frames
  <2>2. /\ wire' = Append(wire, Frame("exit", s, 0)) \/ wire' = wire
        /\ run' = [run EXCEPT ![s] = "ended"] /\ UNCHANGED <<out, sink>>
    BY <1>2 DEF HelperExits, Sent
  <2> QED BY <2>1, <2>2, <1>0 DEF HelperTypes
<1>3. CASE CallStep
  <2>1. PICK op, s, t, kind, f : Called(op, s, t, kind, f)
    BY <1>3, CallEffect
  <2> QED BY <2>1, <1>0 DEF Called, HelperTypes
<1>4. CASE ReaderTakes
  <2>1. wire # <<>> /\ wire' = Tail(wire) /\ UNCHANGED <<run, sink, out>>
    BY <1>4 DEF ReaderTakes, helperVars
  <2> QED BY <2>1, <1>0 DEF HelperTypes
<1>5. UNCHANGED <<run, sink, out, wire>> => HelperTypes'
  BY <1>0 DEF HelperTypes
<1>6. CASE Reader
  BY <1>4, <1>5, <1>6 DEF Reader, ReaderDelivers, ReaderDies, Died, DiedRow, DiedShares,
     ReaderUnroutes, ReaderForgets, helperVars
<1>7. CASE OpenStep
  BY <1>5, <1>7 DEF OpenStep, Failed, Install, FlushTakes, FlushDelivers, Replay, Register, helperVars
<1>8. CASE CloseStep
  BY <1>5, <1>8 DEF CloseStep, MainDies, Died, DiedRow, DiedShares, Unroute, KilledAll, ShareSweep,
     ShareStop, helperVars
<1>9. CASE ShareStep
  BY <1>5, <1>9 DEF ShareStep, Sharer, StartReserve, StartBind, StartCheck, StartInsert, startFrame,
     helperVars
<1>10. CASE UNCHANGED vars
  BY <1>5, <1>10 DEF vars, helperVars
<1> QED BY <1>1, <1>2, <1>3, <1>6, <1>7, <1>8, <1>9, <1>10, Steps DEF HelperStep

LEMMA RequestTypesStep == TypeInv /\ [Next]_vars => RequestTypes'
<1> SUFFICES ASSUME TypeInv, [Next]_vars PROVE RequestTypes'
  OBVIOUS
<1>0. RequestTypes /\ HelperTypes /\ Commanding
  BY DEF TypeInv
<1>1. UNCHANGED <<pending, answer, cmd>> => RequestTypes'
  BY <1>0 DEF RequestTypes
<1>2. CASE HelperStep
  BY <1>1, <1>2 DEF HelperStep, HelperOutputs, HelperExits, clientVars, localVars
<1>3. CASE ReaderTakes
  <2>1. wire # <<>> /\ Head(wire) \in Frames
    BY <1>0, <1>3, OutputsTail DEF ReaderTakes, HelperTypes
  <2>2. UNCHANGED cmd /\ \/ answer' = Head(wire) /\ pending' = Nothing
                         \/ UNCHANGED <<answer, pending>>
    BY <1>3 DEF ReaderTakes
  <2> QED BY <2>1, <2>2, <1>0 DEF RequestTypes
<1>4. CASE Reader
  BY <1>1, <1>3, <1>4 DEF Reader, ReaderDelivers, ReaderDies, Died, DiedRow, DiedShares,
     ReaderUnroutes, ReaderForgets, clientVars, localVars
<1>5. CASE CallStep
  <2>1. PICK op, s, t, kind, f : Called(op, s, t, kind, f)
    BY <1>5, CallEffect
  <2>2. op \in {"create", "attach", "detach", "kill", "kill_all"} /\ kind \in Replies
    BY <2>1 DEF Called, Expects, Replies
  <2> QED BY <2>1, <2>2 DEF Called, RequestTypes, Commands, Requests
<1>6. CASE Install
  <2>1. cmd \in Commands /\ answer \in Frames
    BY <1>0, <1>6 DEF Install, Succeeded, RequestTypes, Commanding
  <2>2. answer.sess \in Sessions \cup {Nothing}
    BY <2>1 DEF Frames
  <2>3. cmd' = [cmd EXCEPT !.sess = answer.sess] /\ UNCHANGED <<pending, answer>>
    BY <1>6 DEF Install, clientVars
  <2> QED BY <2>1, <2>2, <2>3, <1>0 DEF RequestTypes, Commands
<1>7. CASE OpenStep
  BY <1>0, <1>1, <1>6, <1>7 DEF OpenStep, Failed, FlushTakes, FlushDelivers, Replay, Register, Return,
     clientVars, localVars, RequestTypes
<1>8. ASSUME NEW t \in Tabs, ShareStop(t) PROVE RequestTypes'
  BY <1>0, <1>8 DEF ShareStop, RequestTypes, Commands, clientVars
<1>9. CASE CloseStep
  BY <1>0, <1>1, <1>8, <1>9 DEF CloseStep, MainDies, Died, DiedRow, DiedShares, Unroute, KilledAll,
     ShareSweep, Return, clientVars, localVars, RequestTypes
<1>10. CASE ShareStep
  BY <1>1, <1>10 DEF ShareStep, Sharer, StartReserve, StartBind, StartCheck, StartInsert, startFrame,
     clientVars, localVars
<1>11. CASE UNCHANGED vars
  BY <1>1, <1>11 DEF vars, clientVars, localVars
<1> QED BY <1>2, <1>4, <1>5, <1>7, <1>9, <1>10, <1>11, Steps

LEMMA Updated ==
  ASSUME NEW D, NEW R, NEW f \in [D -> R], NEW a, NEW v \in R
  PROVE  /\ [f EXCEPT ![a] = v] \in [D -> R]
         /\ \A x \in D : [f EXCEPT ![a] = v][x] = IF x = a THEN v ELSE f[x]
OBVIOUS

LEMMA Appended ==
  ASSUME NEW D, NEW R, NEW f \in [D -> Seq(R)], NEW a \in D, NEW v \in R
  PROVE  /\ [f EXCEPT ![a] = Append(@, v)] \in [D -> Seq(R)]
         /\ \A x \in D : [f EXCEPT ![a] = Append(@, v)][x] = IF x = a THEN Append(f[a], v) ELSE f[x]
OBVIOUS

\* A backlog that was taken is empty.
LEMMA Emptied ==
  ASSUME FrameTypes, NEW s
  PROVE  /\ [backlog EXCEPT ![s] = <<>>] \in [Sessions -> Seq(Frames)]
         /\ \A x \in Sessions :
              [backlog EXCEPT ![s] = <<>>][x] = IF x = s THEN <<>> ELSE backlog[x]
         /\ [x \in Sessions |-> <<>>] \in [Sessions -> Seq(Frames)]
         /\ Len(<<>>) = 0 /\ 0 <= MaxBacklog
<1>1. <<>> \in Seq(Frames) /\ Len(<<>>) = 0 /\ 0 <= MaxBacklog
  BY BoundsAssumption
<1>2. backlog \in [Sessions -> Seq(Frames)]
  BY DEF FrameTypes
<1> QED BY <1>1, <1>2, Updated

\* A frame that is delivered goes to its session's backlog or is shown.
Events(frames, s) == \A i \in 1 .. Len(frames) : Event(frames[i]) /\ frames[i].sess = s

LEMMA DeliverEffect ==
  ASSUME TypeInv, NEW f \in Frames, Event(f), NEW k \in Nat, Deliver(f, k)
  PROVE  \/ /\ backlog' = [backlog EXCEPT ![f.sess] = Kept(Append(backlog[f.sess], f))]
            /\ lost' = lost \cup (OutputsIn(Append(backlog[f.sess], f))
                                    \ OutputsIn(Kept(Append(backlog[f.sess], f))))
            /\ UNCHANGED <<view, hub, bound>>
         \/ /\ view' = [view EXCEPT ![f.sess] =
                          Append(@, [to |-> k, kind |-> f.kind, n |-> f.n])]
            /\ UNCHANGED <<backlog, lost>>
            /\ hub' \subseteq hub /\ bound' \in {bound, Unbound(<<f.sess, k>>)}
<1>1. f.kind \in Held
  BY DEF Event, Held
<1>2. CASE k = 0
  BY <1>1, <1>2 DEF Deliver, Push
<1>3. CASE k # 0
  BY <1>1, <1>3 DEF Deliver, Dispatch
<1> QED BY <1>2, <1>3

LEMMA DeliverTypes ==
  ASSUME TypeInv, NEW f \in Frames, Event(f), NEW k \in Nat, Deliver(f, k)
  PROVE  /\ backlog' \in [Sessions -> Seq(Frames)]
         /\ \A s \in Sessions : Len(backlog'[s]) <= MaxBacklog
         /\ \A s \in Sessions : Events(backlog'[s], s)
         /\ view' \in [Sessions -> Seq([to : Nat, kind : Held, n : Nat])]
         /\ hub' \subseteq Sharers /\ bound' \in [Sharers -> Bridges \cup {Nothing}]
<1> DEFINE s == f.sess
           all == Append(backlog[s], f)
           shown == [to |-> k, kind |-> f.kind, n |-> f.n]
<1>0. /\ s \in Sessions /\ backlog \in [Sessions -> Seq(Frames)] /\ hub \subseteq Sharers
      /\ \A x \in Sessions : Len(backlog[x]) <= MaxBacklog /\ Events(backlog[x], x)
      /\ view \in [Sessions -> Seq([to : Nat, kind : Held, n : Nat])]
      /\ bound \in [Sharers -> Bridges \cup {Nothing}] /\ MaxBacklog \in Nat
  BY BoundsAssumption DEF TypeInv, FrameTypes, Handling, Event, Events, GlueTypes
<1>1. shown \in [to : Nat, kind : Held, n : Nat]
  BY DEF Event, Held, Frames
<1>2. /\ all \in Seq(Frames) /\ Len(all) = Len(backlog[s]) + 1 /\ Len(backlog[s]) \in Nat
      /\ \A i \in 1 .. Len(all) : all[i] = IF i = Len(all) THEN f ELSE backlog[s][i]
  BY <1>0, OutputsAppend
<1>3. Events(all, s)
  <2> SUFFICES ASSUME NEW i \in 1 .. Len(all) PROVE Event(all[i]) /\ all[i].sess = s
    BY DEF Events
  <2>1. CASE i = Len(all)
    BY <1>2, <2>1
  <2>2. CASE i # Len(all)
    <3>1. i \in 1 .. Len(backlog[s])
      BY <1>2, <2>2
    <3> QED BY <1>0, <1>2, <2>2, <3>1 DEF Events
  <2> QED BY <2>1, <2>2
<1>4. /\ Kept(all) \in Seq(Frames) /\ Len(Kept(all)) <= MaxBacklog
      /\ Events(Kept(all), s)
  <2>1. Len(all) <= MaxBacklog + 1
    BY <1>0, <1>2
  <2>2. /\ Kept(all) \in Seq(Frames) /\ Len(Kept(all)) <= MaxBacklog
        /\ \A i \in 1 .. Len(Kept(all)) : \E j \in 1 .. Len(all) : Kept(all)[i] = all[j]
    BY <1>2, <2>1, KeptFrames
  <2> QED BY <1>3, <2>2 DEF Events
<1>5. \A b : Unbound(b) \in [Sharers -> Bridges \cup {Nothing}]
  BY <1>0 DEF Unbound
<1> HIDE DEF shown, all
<1>6. \/ backlog' = [backlog EXCEPT ![s] = Kept(all)] /\ UNCHANGED <<view, hub, bound>>
      \/ /\ view' = [view EXCEPT ![s] = Append(@, shown)] /\ UNCHANGED backlog
         /\ hub' \subseteq hub /\ bound' \in {bound, Unbound(<<s, k>>)}
  BY DeliverEffect DEF all, shown
<1>7. CASE backlog' = [backlog EXCEPT ![s] = Kept(all)] /\ UNCHANGED <<view, hub, bound>>
  <2>1. \A x \in Sessions : backlog'[x] = IF x = s THEN Kept(all) ELSE backlog[x]
    BY <1>0, <1>7
  <2> QED BY <1>0, <1>4, <1>7, <2>1
<1>8. CASE /\ view' = [view EXCEPT ![s] = Append(@, shown)] /\ UNCHANGED backlog
           /\ hub' \subseteq hub /\ bound' \in {bound, Unbound(<<s, k>>)}
  <2>1. view' \in [Sessions -> Seq([to : Nat, kind : Held, n : Nat])]
    <3> DEFINE Shows == [to : Nat, kind : Held, n : Nat]
    <3>1. view \in [Sessions -> Seq(Shows)] /\ shown \in Shows
      BY <1>0, <1>1
    <3> HIDE DEF Shows
    <3>2. view' \in [Sessions -> Seq(Shows)]
      BY <1>0, <1>8, <3>1, Appended
    <3> QED BY <3>2 DEF Shows
  <2>2. backlog' = backlog /\ hub' \subseteq Sharers /\ bound' \in [Sharers -> Bridges \cup {Nothing}]
    BY <1>0, <1>5, <1>8
  <2> QED BY <1>0, <2>1, <2>2
<1> QED BY <1>6, <1>7, <1>8

\* The main thread delivers the first frame it took, the reader the one it has.
LEMMA FlushedFrame ==
  ASSUME TypeInv, FlushDelivers
  PROVE  /\ flushed # <<>> /\ Head(flushed) \in Frames /\ Event(Head(flushed))
         /\ cmd.sess \in Sessions /\ bridges[cmd.sess] \in Nat
         /\ Deliver(Head(flushed), bridges[cmd.sess])
<1>1. flushed # <<>> /\ flushed \in Seq(Frames) /\ \A i \in 1 .. Len(flushed) : Event(flushed[i])
  BY DEF TypeInv, FlushDelivers, Commanding, FrameTypes, Handling
<1>2. cmd.sess \in Sessions /\ bridges[cmd.sess] \in Nat
  BY DEF TypeInv, FlushDelivers, Commanding, RouteTypes
<1> QED BY <1>1, <1>2, OutputsTail DEF FlushDelivers

LEMMA HandedFrame ==
  ASSUME TypeInv, pc["reader"] # "idle"
  PROVE  /\ hand \in [frame : Frames, to : Nat] /\ hand # Nothing
         /\ hand.frame \in Frames /\ Event(hand.frame) /\ hand.to \in Nat
         /\ hand.frame.sess \in Sessions
BY DEF TypeInv, Handling, FrameTypes, Event

\* What the reader takes is the answer or an event.
LEMMA TakenFrame ==
  ASSUME TypeInv, ReaderTakes
  PROVE  /\ wire # <<>> /\ wire \in Seq(Frames) /\ Head(wire) \in Frames /\ wire' = Tail(wire)
         /\ \/ /\ Answers(Head(wire)) /\ answer' = Head(wire) /\ pending' = Nothing
               /\ UNCHANGED <<hand, pc, got>>
            \/ /\ ~Answers(Head(wire)) /\ Event(Head(wire)) /\ Head(wire).sess \in Sessions
               /\ hand' = [frame |-> Head(wire), to |-> bridges[Head(wire).sess]]
               /\ got' = got \cup OutputsIn(<<Head(wire)>>)
               /\ Goto("reader", "deliver") /\ UNCHANGED <<answer, pending>>
<1>1. wire # <<>> /\ wire' = Tail(wire) /\ wire \in Seq(Frames)
  BY DEF ReaderTakes, TypeInv, HelperTypes
<1>2. Head(wire) \in Frames /\ Head(wire) = wire[1] /\ 1 \in 1 .. Len(wire)
  BY <1>1, OutputsTail
<1>3. ~Answers(Head(wire)) => Event(Head(wire)) /\ Head(wire).sess # Nothing
  BY <1>2, ActorsAssumption DEF TypeInv, Answered, Event
<1>4. CASE Answers(Head(wire))
  BY <1>1, <1>2, <1>4 DEF ReaderTakes
<1>5. CASE ~Answers(Head(wire))
  BY <1>1, <1>2, <1>3, <1>5 DEF ReaderTakes, Event
<1> QED BY <1>4, <1>5

LEMMA FrameTypesStep == TypeInv /\ [Next]_vars => FrameTypes'
<1> SUFFICES ASSUME TypeInv, [Next]_vars PROVE FrameTypes'
  OBVIOUS
<1>0. FrameTypes /\ RouteTypes /\ Commanding /\ RequestTypes
  BY DEF TypeInv
<1>1. UNCHANGED <<hand, flushed, backlog, view>> => FrameTypes'
  BY <1>0 DEF FrameTypes
<1>2. CASE HelperStep
  BY <1>1, <1>2 DEF HelperStep, HelperOutputs, HelperExits, viewVars, routeVars, localVars
<1>3. CASE ReaderTakes
  <2>1. UNCHANGED <<flushed, backlog, view>>
    BY <1>3 DEF ReaderTakes, viewVars, routeVars
  <2>2. \/ hand' = hand
        \/ hand' = [frame |-> Head(wire), to |-> bridges[Head(wire).sess]]
           /\ Head(wire) \in Frames /\ Head(wire).sess \in Sessions
    BY <1>3, TakenFrame
  <2>3. hand' \in [frame : Frames, to : Nat] \cup {Nothing}
    BY <1>0, <2>2 DEF FrameTypes, RouteTypes
  <2> QED BY <1>0, <2>1, <2>3 DEF FrameTypes
<1>4. CASE ReaderDelivers
  <2>1. Deliver(hand.frame, hand.to) /\ hand' \in {hand, Nothing} /\ UNCHANGED flushed
    BY <1>4 DEF ReaderDelivers
  <2>2. hand.frame \in Frames /\ Event(hand.frame) /\ hand.to \in Nat
    BY <1>4, HandedFrame DEF ReaderDelivers
  <2> QED BY <2>1, <2>2, <1>0, DeliverTypes DEF FrameTypes
<1>5. CASE ReaderForgets
  <2>1. /\ backlog' = [backlog EXCEPT ![hand.frame.sess] = <<>>] /\ hand' = Nothing
        /\ UNCHANGED <<flushed, view>>
    BY <1>5 DEF ReaderForgets, viewVars
  <2>2. backlog' \in [Sessions -> Seq(Frames)] /\ \A s \in Sessions : Len(backlog'[s]) <= MaxBacklog
    BY <2>1, <1>0, Emptied DEF FrameTypes
  <2> QED BY <2>1, <2>2, <1>0 DEF FrameTypes
<1>6. CASE Reader
  BY <1>1, <1>3, <1>4, <1>5, <1>6 DEF Reader, ReaderDies, Died, DiedRow, DiedShares,
     ReaderUnroutes, viewVars, routeVars, localVars
<1>7. CASE CallStep
  <2>1. PICK op, s, t, kind, f : Called(op, s, t, kind, f)
    BY <1>7, CallEffect
  <2> QED BY <2>1, <1>1 DEF Called, viewVars, routeVars
<1>8. CASE FlushTakes
  <2>1. flushed' = backlog[cmd.sess] /\ backlog' = [backlog EXCEPT ![cmd.sess] = <<>>]
        /\ UNCHANGED <<hand, view>> /\ cmd.sess \in Sessions
    BY <1>0, <1>8 DEF FlushTakes, viewVars, Commanding
  <2>2. backlog' \in [Sessions -> Seq(Frames)] /\ \A s \in Sessions : Len(backlog'[s]) <= MaxBacklog
    BY <2>1, <1>0, Emptied DEF FrameTypes
  <2>3. flushed' \in Seq(Frames)
    BY <2>1, <1>0 DEF FrameTypes
  <2> QED BY <2>1, <2>2, <2>3, <1>0 DEF FrameTypes
<1>9. CASE FlushDelivers
  <2>1. flushed' = Tail(flushed) /\ UNCHANGED hand
    BY <1>9 DEF FlushDelivers
  <2> QED BY <2>1, <1>0, <1>9, FlushedFrame, DeliverTypes, OutputsTail DEF FrameTypes
<1>10. CASE Replay
  <2>1. cmd.sess \in Sessions /\ answer \in Frames
    BY <1>0, <1>10 DEF Replay, Commanding, RequestTypes
  <2>2. [to |-> opens[cmd.sess], kind |-> "snapshot", n |-> answer.n] \in [to : Nat, kind : Held, n : Nat]
    BY <1>0, <2>1 DEF RouteTypes, Frames, Held
  <2>3. view' = [view EXCEPT ![cmd.sess] =
                   Append(@, [to |-> opens[cmd.sess], kind |-> "snapshot", n |-> answer.n])]
        /\ UNCHANGED <<hand, flushed, backlog>>
    BY <1>10 DEF Replay, routeVars, localVars
  <2> DEFINE Shows == [to : Nat, kind : Held, n : Nat]
             shown == [to |-> opens[cmd.sess], kind |-> "snapshot", n |-> answer.n]
  <2>4. view \in [Sessions -> Seq(Shows)] /\ shown \in Shows
    BY <1>0, <2>2 DEF FrameTypes
  <2>5. view' \in [Sessions -> Seq(Shows)]
    <3> HIDE DEF Shows, shown
    <3> QED BY <2>1, <2>3, <2>4, Appended DEF shown
  <2> QED BY <2>3, <2>5, <1>0 DEF FrameTypes
<1>11. CASE OpenStep
  BY <1>1, <1>8, <1>9, <1>10, <1>11 DEF OpenStep, Failed, Install, Register, routeVars
<1>12. CASE KilledAll
  <2>1. backlog' = [s \in Sessions |-> <<>>] /\ UNCHANGED <<hand, flushed, view>>
    BY <1>12 DEF KilledAll, viewVars
  <2>2. backlog' \in [Sessions -> Seq(Frames)] /\ \A s \in Sessions : Len(backlog'[s]) <= MaxBacklog
    BY <2>1, <1>0, Emptied
  <2> QED BY <2>1, <2>2, <1>0 DEF FrameTypes
<1>13. CASE CloseStep
  BY <1>1, <1>12, <1>13 DEF CloseStep, MainDies, Died, DiedRow, DiedShares, Unroute, ShareSweep,
     ShareStop, viewVars, routeVars
<1>14. CASE ShareStep
  BY <1>1, <1>14 DEF ShareStep, Sharer, StartReserve, StartBind, StartCheck, StartInsert, startFrame,
     viewVars, routeVars, localVars
<1>15. CASE UNCHANGED vars
  BY <1>1, <1>15 DEF vars, viewVars, routeVars, localVars
<1> QED BY <1>2, <1>6, <1>7, <1>11, <1>13, <1>14, <1>15, Steps

LEMMA RouteTypesStep == TypeInv /\ [Next]_vars => RouteTypes'
<1> SUFFICES ASSUME TypeInv, [Next]_vars PROVE RouteTypes'
  OBVIOUS
<1>0. RouteTypes /\ RequestTypes /\ Commanding /\ Answering
  BY DEF TypeInv
<1>1. UNCHANGED <<bridges, opens, gens, ui, early, exited>> => RouteTypes'
  BY <1>0 DEF RouteTypes
<1>2. CASE HelperStep
  BY <1>1, <1>2 DEF HelperStep, HelperOutputs, HelperExits, viewVars, routeVars, histVars
<1>3. CASE ReaderDelivers
  <2>1. hand.frame.sess \in Sessions
    BY <1>3, HandedFrame DEF ReaderDelivers
  <2> QED BY <2>1, <1>0, <1>3 DEF ReaderDelivers, RouteTypes
<1>4. CASE ReaderUnroutes
  BY <1>0, <1>4 DEF ReaderUnroutes, RouteTypes, viewVars, histVars
<1>5. CASE ReaderForgets
  <2>1. hand.frame.sess \in Sessions
    BY <1>5, HandedFrame DEF ReaderForgets
  <2> QED BY <2>1, <1>0, <1>5 DEF ReaderForgets, RouteTypes, viewVars
<1>6. CASE Reader
  BY <1>1, <1>3, <1>4, <1>5, <1>6 DEF Reader, ReaderTakes, ReaderDies, Died, DiedRow, DiedShares,
     viewVars, routeVars, histVars
<1>7. CASE CallStep
  <2>1. PICK op, s, t, kind, f : Called(op, s, t, kind, f)
    BY <1>7, CallEffect
  <2> QED BY <2>1, <1>1 DEF Called, viewVars, routeVars, histVars
<1>8. CASE Install
  <2>1. answer.sess \in Sessions
    BY <1>0, <1>8 DEF Install, Succeeded, Answering, Expects
  <2>2. opens[answer.sess] + 1 \in Nat
    BY <1>0, <2>1 DEF RouteTypes
  <2>3. opens' = [opens EXCEPT ![answer.sess] = @ + 1] /\ gens' = gens \cup {answer.sess}
        /\ bridges' = [bridges EXCEPT ![answer.sess] = opens'[answer.sess]]
        /\ UNCHANGED <<ui, early, exited>>
    BY <1>8 DEF Install, histVars
  <2> QED BY <2>1, <2>2, <2>3, <1>0 DEF RouteTypes
<1>9. CASE Register
  <2>1. cmd.tab \in Tabs
    BY <1>0, <1>9 DEF Register, Commanding
  <2> QED BY <2>1, <1>0, <1>9 DEF Register, Return, RouteTypes, routeVars, histVars
<1>10. CASE OpenStep
  BY <1>0, <1>1, <1>8, <1>9, <1>10 DEF OpenStep, Failed, FlushTakes, FlushDelivers, Replay,
     viewVars, routeVars, histVars, RouteTypes
<1>11. CASE Unroute \/ KilledAll
  BY <1>0, <1>11 DEF Unroute, KilledAll, Return, RouteTypes, viewVars, histVars
<1>12. CASE CloseStep
  BY <1>1, <1>11, <1>12 DEF CloseStep, MainDies, Died, DiedRow, DiedShares, ShareSweep, ShareStop,
     viewVars, routeVars, histVars
<1>13. CASE ShareStep
  BY <1>1, <1>13 DEF ShareStep, Sharer, StartReserve, StartBind, StartCheck, StartInsert, startFrame,
     viewVars, routeVars, histVars
<1>14. CASE UNCHANGED vars
  BY <1>1, <1>14 DEF vars, viewVars, routeVars, histVars
<1> QED BY <1>2, <1>6, <1>7, <1>10, <1>12, <1>13, <1>14, Steps

LEMMA Unbinding ==
  ASSUME GlueTypes, NEW b
  PROVE  Unbound(b) \in [Sharers -> Bridges \cup {Nothing}]
BY DEF GlueTypes, Unbound

\* The three steps of tab_runtime_died.
LEMMA DiedEffect ==
  ASSUME TypeInv, NEW a \in Threads, NEW s \in Sessions, NEW next, Died(a, s, next)
  PROVE  \/ /\ tabOf[s] = Nothing /\ Goto(a, next) /\ UNCHANGED <<dying, bound, source, raced>>
         \/ /\ tabOf[s] \in Tabs /\ Goto(a, "died")
            /\ dying' = [dying EXCEPT ![a] = [tab |-> tabOf[s], sess |-> Nothing]]
            /\ bound' \in {bound, Unbound(source[tabOf[s]])}
            /\ source' = [source EXCEPT ![tabOf[s]] = Nothing]
            /\ raced' = raced \cup {p \in Sharers : pc[p] = "checked" /\ task[p].tab = tabOf[s]}
BY DEF TypeInv, GlueTypes, Died, Die

LEMMA DiedTypes ==
  ASSUME TypeInv, NEW a \in Threads, NEW next,
         \/ \E s \in Sessions : Died(a, s, next)
         \/ pc[a] = "died" /\ DiedRow(a, next)
         \/ DiedShares(a, next)
  PROVE  GlueTypes'
<1>0. GlueTypes
  BY DEF TypeInv
<1>1. ASSUME NEW s \in Sessions, Died(a, s, next) PROVE GlueTypes'
  <2>1. UNCHANGED <<tabOf, rows, hub, starting, task>>
    BY <1>1 DEF Died, startVars
  <2>2. CASE UNCHANGED <<dying, bound, source, raced>>
    BY <1>0, <2>1, <2>2 DEF GlueTypes
  <2>3. CASE /\ tabOf[s] \in Tabs
             /\ dying' = [dying EXCEPT ![a] = [tab |-> tabOf[s], sess |-> Nothing]]
             /\ bound' \in {bound, Unbound(source[tabOf[s]])}
             /\ source' = [source EXCEPT ![tabOf[s]] = Nothing]
             /\ raced' = raced \cup {p \in Sharers : pc[p] = "checked" /\ task[p].tab = tabOf[s]}
    <3>1. bound' \in [Sharers -> Bridges \cup {Nothing}]
      BY <1>0, <2>3, Unbinding DEF GlueTypes
    <3> QED BY <1>0, <2>1, <2>3, <3>1 DEF GlueTypes
  <2> QED BY <1>1, <2>2, <2>3, DiedEffect
<1>2. CASE pc[a] = "died" /\ DiedRow(a, next)
  <2>1. UNCHANGED <<source, rows, hub, bound, starting, task, raced>>
    BY <1>2 DEF DiedRow, startVars, histVars
  <2>2. \/ UNCHANGED tabOf /\ dying' = [dying EXCEPT ![a] = [tab |-> Nothing, sess |-> Nothing]]
        \/ \E s \in Sessions : tabOf' = [tabOf EXCEPT ![s] = Nothing] /\ dying' = [dying EXCEPT ![a].sess = s]
    BY <1>2 DEF DiedRow, Rest, Die
  <2> QED BY <1>0, <2>1, <2>2 DEF GlueTypes
<1>3. CASE DiedShares(a, next)
  <2>1. /\ rows' \subseteq rows /\ hub' \subseteq hub
        /\ dying' = [dying EXCEPT ![a] = [tab |-> Nothing, sess |-> Nothing]]
        /\ UNCHANGED <<tabOf, source, bound, starting, task, raced>>
    BY <1>3 DEF DiedShares, StopSharesOf, Rest, Die, startVars, histVars
  <2> QED BY <1>0, <2>1 DEF GlueTypes
<1> QED BY <1>1, <1>2, <1>3

LEMMA GlueTypesStep == TypeInv /\ [Next]_vars => GlueTypes'
<1> SUFFICES ASSUME TypeInv, [Next]_vars PROVE GlueTypes'
  OBVIOUS
<1>0. GlueTypes /\ Commanding /\ Stages /\ Tasks /\ RouteTypes /\ "main" \in Threads /\ "reader" \in Threads
  BY Apart DEF TypeInv
<1>1. UNCHANGED <<dying, tabOf, source, rows, hub, bound, starting, task, raced>> => GlueTypes'
  BY <1>0 DEF GlueTypes
<1>2. CASE HelperStep
  BY <1>1, <1>2 DEF HelperStep, HelperOutputs, HelperExits, glueVars, startVars, histVars, localVars
<1>3. CASE ReaderDelivers
  <2>1. hub' \subseteq Sharers /\ bound' \in [Sharers -> Bridges \cup {Nothing}]
    BY <1>3, HandedFrame, DeliverTypes DEF ReaderDelivers
  <2> QED BY <1>0, <1>3, <2>1 DEF ReaderDelivers, GlueTypes, startVars
<1>4. CASE ReaderDies
  <2>1. hand.frame.sess \in Sessions
    BY <1>4, HandedFrame DEF ReaderDies
  <2> QED BY <1>0, <1>4, <2>1, DiedTypes DEF ReaderDies
<1>5. CASE Reader
  BY <1>1, <1>3, <1>4, <1>5 DEF Reader, ReaderTakes, ReaderUnroutes, ReaderForgets, glueVars, startVars,
     histVars, localVars
<1>6. CASE CallStep
  <2>1. PICK op, s, t, kind, f : Called(op, s, t, kind, f)
    BY <1>6, CallEffect
  <2> QED BY <2>1, <1>1 DEF Called, glueVars, startVars, histVars
<1>7. CASE FlushDelivers
  <2>1. hub' \subseteq Sharers /\ bound' \in [Sharers -> Bridges \cup {Nothing}]
    BY <1>7, FlushedFrame, DeliverTypes
  <2> QED BY <1>0, <1>7, <2>1 DEF FlushDelivers, GlueTypes, startVars
<1>8. CASE Register
  <2>1. cmd.tab \in Tabs /\ <<cmd.sess, opens[cmd.sess]>> \in Bridges
    BY <1>0, <1>8 DEF Register, Commanding, RouteTypes, Bridges
  <2>2. /\ tabOf' = [tabOf EXCEPT ![cmd.sess] = cmd.tab]
        /\ source' = [source EXCEPT ![cmd.tab] = <<cmd.sess, opens[cmd.sess]>>]
        /\ UNCHANGED <<dying, rows, hub, bound, starting, task, raced>>
    BY <1>8 DEF Register, startVars, histVars
  <2> QED BY <2>1, <2>2, <1>0 DEF GlueTypes
<1>9. CASE OpenStep
  BY <1>1, <1>7, <1>8, <1>9 DEF OpenStep, Failed, Install, FlushTakes, Replay, glueVars, startVars,
     histVars, localVars
<1>10. CASE MainDies
  <2>1. \/ \E s \in Sessions : Died("main", s, "unroute")
        \/ pc["main"] = "died" /\ DiedRow("main", "unroute")
        \/ DiedShares("main", "unroute")
    <3>1. Succeeded("detach") \/ Succeeded("kill") => cmd.sess \in Sessions
      BY <1>0 DEF Succeeded, Commanding, TypeInv, RequestTypes, Commands
    <3> QED BY <1>10, <3>1 DEF MainDies
  <2> QED BY <1>0, <2>1, DiedTypes
<1>11. CASE ShareSweep
  <2>1. rows' \subseteq rows /\ hub' \subseteq hub /\ UNCHANGED <<dying, tabOf, source, bound, starting, task, raced>>
    BY <1>11 DEF ShareSweep, StopSharesOf, startVars, histVars
  <2> QED BY <1>0, <2>1 DEF GlueTypes
<1>12. ASSUME NEW t \in Tabs, ShareStop(t) PROVE GlueTypes'
  <2>1. bound' \in {bound, Unbound(source[t])}
        /\ UNCHANGED <<dying, tabOf, source, rows, hub, starting, task, raced>>
    BY <1>12 DEF ShareStop, startVars, histVars
  <2>2. bound' \in [Sharers -> Bridges \cup {Nothing}]
    BY <2>1, <1>0, Unbinding DEF GlueTypes
  <2> QED BY <1>0, <2>1, <2>2 DEF GlueTypes
<1>13. CASE CloseStep
  BY <1>1, <1>10, <1>11, <1>12, <1>13 DEF CloseStep, Unroute, KilledAll, glueVars, startVars, histVars
<1>14. ASSUME NEW p \in Sharers, NEW t \in Tabs, StartReserve(p, t) PROVE GlueTypes'
  <2>1. source[t] \in Bridges
    BY <1>0, <1>14 DEF StartReserve, GlueTypes
  <2>2. PICK s \in Sessions : task' = [task EXCEPT ![p] = [tab |-> t, src |-> source[t], sess |-> s]]
    BY <1>14 DEF StartReserve
  <2>3. starting' = starting \cup {t} /\ UNCHANGED <<dying, tabOf, source, rows, hub, bound, raced>>
    BY <1>14 DEF StartReserve, startFrame, histVars, localVars
  <2> QED BY <1>0, <2>1, <2>2, <2>3 DEF GlueTypes
<1>15. ASSUME NEW p \in Sharers, Sharer(p) PROVE GlueTypes'
  <2>1. task[p] \in [tab : Tabs, src : Bridges, sess : Sessions]
    BY <1>0, <1>15 DEF Sharer, StartBind, StartCheck, StartInsert, Tasks, GlueTypes
  <2>2. UNCHANGED <<dying, tabOf, source, raced>>
    BY <1>15 DEF Sharer, StartBind, StartCheck, StartInsert, startFrame, histVars, localVars
  <2>3. task' \in {task, [task EXCEPT ![p] = Nothing]} /\ starting' \subseteq starting
    BY <1>15 DEF Sharer, StartBind, StartCheck, StartInsert, StartEnds, startVars
  <2>4. rows' \in {rows, rows \cup {<<p, task[p].sess>>}} /\ hub' \subseteq hub \cup {p}
    BY <1>15 DEF Sharer, StartBind, StartCheck, StartInsert
  <2>5. bound' \in {bound, Unbound(task[p].src), [Unbound(task[p].src) EXCEPT ![p] = task[p].src]}
    BY <1>15 DEF Sharer, StartBind, StartCheck, StartInsert
  <2>6. bound' \in [Sharers -> Bridges \cup {Nothing}]
    <3>1. Unbound(task[p].src) \in [Sharers -> Bridges \cup {Nothing}]
      BY <1>0, Unbinding
    <3>2. bound \in [Sharers -> Bridges \cup {Nothing}] /\ task[p].src \in Bridges
      BY <1>0, <2>1 DEF GlueTypes
    <3> QED BY <2>5, <3>1, <3>2
  <2> QED BY <1>0, <2>1, <2>2, <2>3, <2>4, <2>6 DEF GlueTypes
<1>16. CASE UNCHANGED vars
  BY <1>1, <1>16 DEF vars, glueVars, startVars, histVars, localVars
<1> QED BY <1>2, <1>5, <1>6, <1>9, <1>13, <1>14, <1>15, <1>16, Steps DEF ShareStep

LEMMA TasksStep == TypeInv /\ [Next]_vars => Tasks'
<1> SUFFICES ASSUME TypeInv, [Next]_vars PROVE Tasks'
  OBVIOUS
<1>0. Tasks /\ Stages /\ GlueTypes
  BY DEF TypeInv
<1>1. ASSUME NEW a \in Threads, NEW l, Goto(a, l) \/ UNCHANGED pc, UNCHANGED task PROVE Tasks'
  <2>1. \A p \in Sharers : pc'[p] = pc[p]
    BY <1>0, <1>1, Going, Apart, ActorsAssumption
  <2> QED BY <1>0, <1>1, <2>1 DEF Tasks
<1>2. CASE HelperStep
  BY <1>1, <1>2, Apart DEF HelperStep, HelperOutputs, HelperExits, startVars
<1>3. CASE Reader
  BY <1>1, <1>3, Apart DEF Reader, ReaderTakes, ReaderDelivers, ReaderDies, Died, DiedRow, DiedShares,
     ReaderUnroutes, ReaderForgets, startVars
<1>4. CASE CallStep
  BY <1>1, <1>4, Apart DEF CallStep, KillAll, Detach, Kill, Attach, Create, Call, startVars
<1>5. CASE OpenStep
  BY <1>1, <1>5, Apart DEF OpenStep, Failed, Install, FlushTakes, FlushDelivers, Replay, Register, Return,
     startVars
<1>6. CASE CloseStep
  BY <1>1, <1>6, Apart DEF CloseStep, MainDies, Died, DiedRow, DiedShares, Unroute, KilledAll, ShareSweep,
     ShareStop, Return, startVars
<1>7. ASSUME NEW p \in Sharers, NEW l, Goto(p, l),
             \/ l \in {"idle", "done"} /\ task' = [task EXCEPT ![p] = Nothing]
             \/ l \in {"reserved", "bound", "checked"} /\ task'[p] # Nothing
                /\ \A q \in Sharers \ {p} : task'[q] = task[q]
      PROVE  Tasks'
  <2>1. \A q \in Sharers : pc'[q] = IF q = p THEN l ELSE pc[q]
    BY <1>0, <1>7, Going, Apart
  <2> QED BY <1>0, <1>7, <2>1 DEF Tasks, GlueTypes
<1>8. ASSUME NEW p \in Sharers, NEW t \in Tabs, StartReserve(p, t) PROVE Tasks'
  <2>1. source[t] \in Bridges
    BY <1>0, <1>8 DEF StartReserve, GlueTypes
  <2>2. PICK s \in Sessions : task' = [task EXCEPT ![p] = [tab |-> t, src |-> source[t], sess |-> s]]
    BY <1>8 DEF StartReserve
  <2>3. [tab |-> t, src |-> source[t], sess |-> s] # Nothing
    BY <2>1, ActorsAssumption
  <2>4. task'[p] # Nothing /\ \A q \in Sharers \ {p} : task'[q] = task[q]
    BY <2>2, <2>3, <1>0 DEF GlueTypes
  <2> QED BY <2>4, <1>7, <1>8 DEF StartReserve
<1>9. ASSUME NEW p \in Sharers, Sharer(p) PROVE Tasks'
  <2>1. task[p] # Nothing
    BY <1>0, <1>9 DEF Sharer, StartBind, StartCheck, StartInsert, Tasks
  <2> QED BY <2>1, <1>7, <1>9 DEF Sharer, StartBind, StartCheck, StartInsert, StartEnds, startVars
<1>10. CASE UNCHANGED vars
  BY <1>1, <1>10, Apart DEF vars, startVars
<1> QED BY <1>2, <1>3, <1>4, <1>5, <1>6, <1>8, <1>9, <1>10, Steps DEF ShareStep

-----------------------------------------------------------------------------
(* Control is kept, part by part.                                          *)

\* Nobody but the main thread moves the command it works on.
MainRests ==
  pc'["main"] = pc["main"] /\ UNCHANGED <<cmd, flushed>>

LEMMA OthersLeaveMain ==
  ASSUME TypeInv, HelperStep \/ Reader \/ ShareStep \/ UNCHANGED vars
  PROVE  MainRests /\ (~ReaderTakes => UNCHANGED <<pending, answer>>)
<1>0. Stages /\ "reader" # "main" /\ "main" \in Threads /\ "reader" \in Threads
  BY Apart DEF TypeInv
<1>1. ASSUME NEW l, Goto("reader", l) PROVE pc'["main"] = pc["main"]
  BY <1>0, <1>1, Going
<1>2. CASE HelperStep
  BY <1>2 DEF HelperStep, HelperOutputs, HelperExits, localVars, clientVars, MainRests
<1>3. CASE Reader
  <2>1. UNCHANGED <<cmd, flushed>>
    BY <1>3 DEF Reader, ReaderTakes, ReaderDelivers, ReaderDies, Died, DiedRow, DiedShares,
       ReaderUnroutes, ReaderForgets, localVars
  <2>2. pc'["main"] = pc["main"]
    BY <1>1, <1>3 DEF Reader, ReaderTakes, ReaderDelivers, ReaderDies, Died, DiedRow, DiedShares,
       ReaderUnroutes, ReaderForgets
  <2>3. ~ReaderTakes => UNCHANGED <<pending, answer>>
    BY <1>3 DEF Reader, ReaderDelivers, ReaderDies, Died, DiedRow, DiedShares,
       ReaderUnroutes, ReaderForgets, clientVars
  <2> QED BY <2>1, <2>2, <2>3 DEF MainRests
<1>4. CASE ShareStep
  <2>1. UNCHANGED <<cmd, flushed, pending, answer>>
    BY <1>4 DEF ShareStep, Sharer, StartReserve, StartBind, StartCheck, StartInsert, startFrame, localVars,
       clientVars
  <2>2. \E p \in Sharers : pc' = pc \/ \E l : Goto(p, l)
    BY <1>4 DEF ShareStep, Sharer, StartReserve, StartBind, StartCheck, StartInsert, StartEnds
  <2>3. pc'["main"] = pc["main"]
    BY <1>0, <2>2, Going, Apart
  <2> QED BY <2>1, <2>3 DEF MainRests
<1>5. CASE UNCHANGED vars
  BY <1>5 DEF vars, localVars, clientVars, MainRests
<1> QED BY <1>2, <1>3, <1>4, <1>5

LEMMA CommandingStep == TypeInv /\ [Next]_vars => Commanding'
<1> SUFFICES ASSUME TypeInv, [Next]_vars PROVE Commanding'
  OBVIOUS
<1>0. /\ Stages /\ Commanding /\ Answering /\ RequestTypes /\ FrameTypes
      /\ "main" \in Threads \cup Sharers /\ Nothing \notin Sessions /\ Nothing \notin Frames
      /\ Nothing \notin Commands
  BY Apart, ActorsAssumption DEF TypeInv
<1>1. ASSUME NEW l, Goto("main", l) PROVE pc'["main"] = l
  BY <1>0, <1>1, Going
<1>2. ASSUME HelperStep \/ Reader \/ ShareStep \/ UNCHANGED vars PROVE Commanding'
  <2>1. MainRests /\ (~ReaderTakes => UNCHANGED answer)
    BY <1>2, OthersLeaveMain
  <2>2. answer = Nothing \/ answer' # Nothing
    BY <1>0, <2>1, TakenFrame
  <2> QED BY <1>0, <2>1, <2>2 DEF MainRests, Commanding
<1>3. CASE CallStep
  <2>1. PICK op, s, t, kind, f : Called(op, s, t, kind, f)
    BY <1>3, CallEffect
  <2>2. op \in {"create", "attach", "detach", "kill", "kill_all"}
    BY <2>1 DEF Called, Expects
  <2>3. cmd' \in Commands
    BY <2>1, <2>2 DEF Called, Commands
  <2>4. pc'["main"] = "wait" /\ flushed = <<>> /\ flushed' = flushed
    BY <1>0, <1>1, <2>1 DEF Called, Commanding
  <2> QED BY <1>0, <2>1, <2>2, <2>3, <2>4 DEF Called, Commanding
<1>4. CASE Failed
  <2>1. pc'["main"] = "idle" /\ cmd' = Nothing /\ flushed' = <<>>
    BY <1>0, <1>1, <1>4 DEF Failed, Commanding
  <2> QED BY <2>1 DEF Commanding
<1>5. CASE Install
  <2>1. /\ cmd \in Commands /\ answer \in Frames /\ cmd.op \in {"create", "attach"} /\ cmd.tab \in Tabs
        /\ answer.sess \in Sessions
    BY <1>0, <1>5 DEF Install, Succeeded, RequestTypes, Commanding, Answering, Expects
  <2>2. cmd' = [cmd EXCEPT !.sess = answer.sess] /\ answer' = answer /\ flushed' = <<>>
        /\ pc'["main"] = "flush"
    BY <1>0, <1>1, <1>5 DEF Install, Succeeded, clientVars, Commanding
  <2>3. /\ cmd' \in Commands /\ cmd'.op = cmd.op /\ cmd'.sess \in Sessions /\ cmd'.tab \in Tabs
    BY <2>1, <2>2 DEF Commands
  <2> QED BY <1>0, <2>1, <2>2, <2>3 DEF Commanding
<1>6. CASE FlushTakes \/ FlushDelivers
  <2>1. /\ pc'["main"] = AfterFlush(flushed') /\ UNCHANGED <<cmd, answer>>
        /\ pc["main"] \in {"flush", "flushing"}
    BY <1>0, <1>1, <1>6 DEF FlushTakes, FlushDelivers, clientVars
  <2> QED BY <1>0, <2>1 DEF Commanding, AfterFlush
<1>7. CASE Replay
  <2>1. /\ pc["main"] = "replay" /\ pc'["main"] = "register" /\ UNCHANGED <<cmd, answer, flushed>>
    BY <1>0, <1>1, <1>7 DEF Replay, clientVars, localVars
  <2> QED BY <1>0, <2>1 DEF Commanding
<1>8. CASE Register \/ Unroute
  <2>1. pc'["main"] = "idle" /\ cmd' = Nothing /\ flushed' = <<>>
    BY <1>0, <1>1, <1>8 DEF Register, Unroute, Return, Commanding
  <2> QED BY <2>1 DEF Commanding
<1>9. CASE OpenStep
  BY <1>4, <1>5, <1>6, <1>7, <1>8, <1>9 DEF OpenStep
<1>10. CASE MainDies
  <2>1. /\ cmd # Nothing /\ cmd.op \in {"detach", "kill"} /\ cmd.sess \in Sessions /\ flushed = <<>>
    BY <1>0, <1>10 DEF MainDies, Succeeded, Commanding, RequestTypes, Commands
  <2>2. UNCHANGED <<cmd, flushed>>
    BY <1>10 DEF MainDies, Died, DiedRow, DiedShares
  <2>3. pc'["main"] \in {"died", "died_row", "unroute"}
    BY <1>0, <1>1, <1>10 DEF MainDies, Died, DiedRow, DiedShares
  <2> QED BY <2>1, <2>2, <2>3 DEF Commanding
<1>11. CASE KilledAll \/ ShareSweep
  <2>1. pc'["main"] \in {"idle", "quit"} /\ cmd' = Nothing /\ flushed' = <<>>
    BY <1>0, <1>1, <1>11 DEF KilledAll, Succeeded, ShareSweep, Commanding
  <2> QED BY <2>1 DEF Commanding
<1>12. ASSUME NEW t \in Tabs, ShareStop(t) PROVE Commanding'
  <2>1. /\ pc'["main"] = "sweep" /\ cmd' = [op |-> "share_stop", sess |-> Nothing, tab |-> t]
        /\ flushed' = <<>>
    BY <1>0, <1>1, <1>12 DEF ShareStop, Commanding
  <2>2. cmd' \in Commands
    BY <2>1 DEF Commands
  <2> QED BY <1>0, <2>1, <2>2 DEF Commanding
<1>13. CASE CloseStep
  BY <1>8, <1>10, <1>11, <1>12, <1>13 DEF CloseStep
<1> QED BY <1>2, <1>3, <1>9, <1>13, Steps

LEMMA AnsweringStep == TypeInv /\ [Next]_vars => Answering'
<1> SUFFICES ASSUME TypeInv, [Next]_vars PROVE Answering'
  OBVIOUS
<1>0. /\ Stages /\ Commanding /\ Answering /\ RequestTypes /\ Answered
      /\ "main" \in Threads \cup Sharers /\ Nothing \notin Sessions /\ Nothing \notin Frames
      /\ Nothing \notin Requests
  BY Apart, ActorsAssumption DEF TypeInv
<1>1. ASSUME NEW l, Goto("main", l) PROVE pc'["main"] = l
  BY <1>0, <1>1, Going
<1>2. CASE ReaderTakes
  <2> DEFINE f == Head(wire)
  <2>1. MainRests /\ f \in Frames /\ f = wire[1] /\ 1 \in 1 .. Len(wire)
    BY <1>2, OthersLeaveMain, TakenFrame, OutputsTail DEF Reader
  <2>2. CASE UNCHANGED <<answer, pending>>
    BY <1>0, <2>1, <2>2 DEF MainRests, Answering
  <2> HIDE DEF f
  <2>3. CASE Answers(f) /\ answer' = f /\ pending' = Nothing
    <3>1. /\ pending # Nothing /\ pc["main"] = "wait" /\ Expects(cmd.op, pending.kind)
          /\ pending.sess = cmd.sess
      BY <1>0, <2>3 DEF Answers, Answering
    <3>2. f.kind = "error" \/ (f.kind = pending.kind /\ cmd.sess \in {Nothing, f.sess})
      BY <2>3, <3>1 DEF Answers
    <3>3. f.kind \notin {"kill_all", "error"} => f.sess \in Sessions
      BY <1>0, <2>1 DEF Answered, Event
    <3>4. Answering'
      BY <1>0, <2>1, <2>3, <3>1, <3>2, <3>3 DEF MainRests, Answering, Expects
    <3> QED BY <3>4
  <2> QED BY <1>2, <2>2, <2>3, TakenFrame DEF f
<1>3. ASSUME HelperStep \/ Reader \/ ShareStep \/ UNCHANGED vars, ~ReaderTakes PROVE Answering'
  BY <1>0, <1>3, OthersLeaveMain DEF MainRests, Answering
<1>4. CASE CallStep
  <2>1. PICK op, s, t, kind, f : Called(op, s, t, kind, f)
    BY <1>4, CallEffect
  <2>2. pc'["main"] = "wait" /\ answer' = Nothing
    BY <1>1, <2>1 DEF Called
  <2>3. Expects(cmd'.op, pending'.kind) /\ pending'.sess = cmd'.sess
    BY <2>1 DEF Called
  <2> QED BY <2>2, <2>3 DEF Answering
<1>5. ASSUME answer # Nothing \/ pc["main"] # "wait", UNCHANGED pending, pc'["main"] # "wait",
             pc'["main"] \in {"idle", "sweep", "quit"} => answer' = Nothing
      PROVE  Answering'
  <2>1. pending = Nothing
    BY <1>0, <1>5 DEF Answering
  <2> QED BY <1>5, <2>1 DEF Answering
<1>6. CASE Failed \/ Install \/ FlushTakes \/ Replay \/ Register
  BY <1>1, <1>5, <1>6 DEF Failed, Install, Succeeded, FlushTakes, AfterFlush, Replay, Register, Return,
     clientVars
<1>7. CASE FlushDelivers
  BY <1>1, <1>5, <1>7 DEF FlushDelivers, AfterFlush, clientVars
<1>8. CASE OpenStep
  BY <1>6, <1>7, <1>8 DEF OpenStep
<1>9. CASE MainDies
  <2>1. answer # Nothing \/ pc["main"] # "wait"
    BY <1>9 DEF MainDies, Succeeded
  <2>2. UNCHANGED <<pending, answer>>
    BY <1>9 DEF MainDies, Died, DiedRow, DiedShares, clientVars
  <2>3. pc'["main"] \in {"died", "died_row", "unroute"}
    BY <1>1, <1>9 DEF MainDies, Died, DiedRow, DiedShares
  <2> QED BY <1>5, <2>1, <2>2, <2>3
<1>10. CASE Unroute \/ KilledAll
  BY <1>1, <1>5, <1>10 DEF Unroute, KilledAll, Succeeded, Return
<1>11. CASE ShareSweep
  BY <1>0, <1>1, <1>5, <1>11 DEF ShareSweep, clientVars, Answering
<1>12. ASSUME NEW t \in Tabs, ShareStop(t) PROVE Answering'
  BY <1>0, <1>1, <1>5, <1>12 DEF ShareStop, clientVars, Answering
<1>13. CASE CloseStep
  BY <1>9, <1>10, <1>11, <1>12, <1>13 DEF CloseStep
<1> QED BY <1>2, <1>3, <1>4, <1>8, <1>13, Steps DEF Reader

LEMMA AnsweredStep == TypeInv /\ [Next]_vars => Answered'
<1> SUFFICES ASSUME TypeInv, [Next]_vars PROVE Answered'
  OBVIOUS
<1>0. /\ Answered /\ Answering /\ RequestTypes /\ wire \in Seq(Frames) /\ HelperTypes
      /\ Nothing \notin Sessions /\ Nothing \notin Requests
  BY ActorsAssumption DEF TypeInv, HelperTypes
<1>1. UNCHANGED <<wire, pending>> => Answered'
  BY <1>0 DEF Answered, Answers
<1>2. ASSUME NEW f \in Frames, wire' = Append(wire, f), Event(f), UNCHANGED pending PROVE Answered'
  <2>1. /\ Len(wire') = Len(wire) + 1 /\ Len(wire) \in Nat
        /\ \A i \in 1 .. Len(wire) + 1 : wire'[i] = IF i = Len(wire) + 1 THEN f ELSE wire[i]
    BY <1>0, <1>2, OutputsAppend
  <2>2. \A i \in 1 .. Len(wire) + 1 : i \in 1 .. Len(wire) \/ i = Len(wire) + 1
    BY <2>1
  <2>3. \A g : Answers(g)' <=> Answers(g)
    BY <1>2 DEF Answers
  <2> SUFFICES ASSUME NEW i \in 1 .. Len(wire) + 1, ~Event(wire'[i])
               PROVE  /\ Answers(wire'[i]) /\ (wire'[i].kind # "kill_all" => wire'[i].sess \in Sessions)
                      /\ \A j \in 1 .. Len(wire) + 1 : j # i => Event(wire'[j])
    BY <2>1, <2>3 DEF Answered, Event, Answers
  <2>4. i \in 1 .. Len(wire) /\ wire'[i] = wire[i]
    BY <1>2, <2>1, <2>2
  <2>5. /\ Answers(wire[i]) /\ (wire[i].kind # "kill_all" => wire[i].sess \in Sessions)
        /\ \A j \in 1 .. Len(wire) : j # i => Event(wire[j])
    BY <1>0, <2>4 DEF Answered
  <2> QED BY <1>2, <2>1, <2>2, <2>4, <2>5
<1>3. ASSUME NEW s \in Sessions, HelperOutputs(s) PROVE Answered'
  <2>1. OutputOf(s, out[s] + 1) \in Frames /\ Event(OutputOf(s, out[s] + 1))
    BY <1>0 DEF OutputOf, Frame, Frames, Event, HelperTypes
  <2> QED BY <1>2, <1>3, <2>1 DEF HelperOutputs, Sent, clientVars
<1>4. ASSUME NEW s \in Sessions, HelperExits(s) PROVE Answered'
  <2>1. Frame("exit", s, 0) \in Frames /\ Event(Frame("exit", s, 0))
    BY DEF Frame, Frames, Event
  <2> QED BY <1>1, <1>2, <1>4, <2>1 DEF HelperExits, Sent, clientVars
<1>5. CASE ReaderTakes
  <2> DEFINE f == Head(wire)
  <2>1. /\ wire # <<>> /\ wire' = Tail(wire)
        /\ \/ Answers(f) /\ pending' = Nothing
           \/ Event(f) /\ UNCHANGED pending
    BY <1>5, TakenFrame
  <2>2. /\ Len(wire') = Len(wire) - 1 /\ f = wire[1] /\ 1 \in 1 .. Len(wire)
        /\ \A i \in 1 .. Len(wire) - 1 : wire'[i] = wire[i + 1]
    BY <1>0, <2>1, OutputsTail
  <2>3. \A i \in 1 .. Len(wire) - 1 : i + 1 \in 1 .. Len(wire) /\ i + 1 # 1
    BY <1>0
  <2>4. CASE Answers(f)
    <3>1. f.kind \notin {"output", "exit"}
      <4>1. pending # Nothing /\ (f.kind = "error" \/ f.kind = pending.kind)
        BY <2>4 DEF Answers
      <4>2. pending.kind \in Replies
        BY <1>0, <4>1 DEF RequestTypes, Requests
      <4> QED BY <4>1, <4>2 DEF Replies
    <3>2. \A j \in 1 .. Len(wire) : j # 1 => Event(wire[j])
      BY <1>0, <2>2, <3>1 DEF Answered, Event
    <3>3. \A i \in 1 .. Len(wire) - 1 : Event(wire'[i])
      BY <2>2, <2>3, <3>2
    <3> QED BY <2>2, <3>3 DEF Answered, Event
  <2>5. CASE UNCHANGED pending
    <3> SUFFICES ASSUME NEW i \in 1 .. Len(wire) - 1, ~Event(wire'[i])
                 PROVE  /\ Answers(wire'[i]) /\ (wire'[i].kind # "kill_all" => wire'[i].sess \in Sessions)
                        /\ \A j \in 1 .. Len(wire) - 1 : j # i => Event(wire'[j])
      BY <2>2, <2>5 DEF Answered, Event, Answers
    <3>1. i + 1 \in 1 .. Len(wire) /\ wire'[i] = wire[i + 1]
      BY <2>2, <2>3
    <3>2. /\ Answers(wire[i + 1]) /\ (wire[i + 1].kind # "kill_all" => wire[i + 1].sess \in Sessions)
          /\ \A j \in 1 .. Len(wire) : j # i + 1 => Event(wire[j])
      BY <1>0, <3>1 DEF Answered
    <3>3. ASSUME NEW j \in 1 .. Len(wire) - 1, j # i PROVE Event(wire'[j])
      <4>1. j + 1 \in 1 .. Len(wire) /\ j + 1 # i + 1 /\ wire'[j] = wire[j + 1]
        BY <2>2, <2>3, <3>3
      <4> QED BY <3>2, <4>1
    <3> QED BY <3>1, <3>2, <3>3
  <2> QED BY <2>1, <2>4, <2>5
<1>6. CASE Reader \/ ShareStep \/ UNCHANGED vars
  <2>1. ~ReaderTakes => UNCHANGED <<wire, pending>>
    BY <1>6 DEF Reader, ReaderDelivers, ReaderDies, Died, DiedRow, DiedShares, ReaderUnroutes,
       ReaderForgets, ShareStep, Sharer, StartReserve, StartBind, StartCheck, StartInsert, startFrame,
       clientVars, vars
  <2> QED BY <1>1, <1>5, <2>1
<1>7. CASE CallStep
  <2>1. PICK op, s, t, kind, f : Called(op, s, t, kind, f)
    BY <1>7, CallEffect
  <2>2. pending = Nothing /\ f \in Frames /\ wire' = Append(wire, f)
    BY <1>0, <2>1 DEF Called, Answering
  <2>3. \A i \in 1 .. Len(wire) : Event(wire[i])
    BY <1>0, <2>2 DEF Answered, Answers
  <2>4. /\ Len(wire') = Len(wire) + 1 /\ Len(wire) \in Nat
        /\ \A i \in 1 .. Len(wire) + 1 : wire'[i] = IF i = Len(wire) + 1 THEN f ELSE wire[i]
    BY <1>0, <2>2, OutputsAppend
  <2>5. \A i \in 1 .. Len(wire) + 1 : i \in 1 .. Len(wire) \/ i = Len(wire) + 1
    BY <2>4
  <2>6. pending' = [kind |-> kind, sess |-> s] /\ pending' # Nothing
    <3>1. kind \in Replies /\ s \in Sessions \cup {Nothing}
      BY <2>1 DEF Called, Expects, Replies
    <3> QED BY <1>0, <2>1, <3>1 DEF Called, Requests
  <2>7. \/ f.kind = "error"
        \/ f.kind = pending'.kind /\ pending'.sess \in {Nothing, f.sess}
    BY <2>1, <2>6 DEF Called
  <2>8. f.kind # "kill_all" => f.sess \in Sessions
    BY <2>1 DEF Called
  <2>9. \A i \in 1 .. Len(wire) + 1 : i # Len(wire) + 1 => Event(wire'[i])
    BY <2>3, <2>4, <2>5
  <2>10. Answers(f)'
    BY <2>6, <2>7 DEF Answers
  <2>11. wire'[Len(wire) + 1] = f
    BY <2>4
  <2> QED BY <2>4, <2>5, <2>8, <2>9, <2>10, <2>11 DEF Answered, Event, Answers
<1>8. CASE OpenStep
  BY <1>1, <1>8 DEF OpenStep, Failed, Install, FlushTakes, FlushDelivers, Replay, Register, clientVars
<1>9. CASE CloseStep
  BY <1>1, <1>9 DEF CloseStep, MainDies, Died, DiedRow, DiedShares, Unroute, KilledAll, ShareSweep,
     ShareStop, clientVars
<1> QED BY <1>3, <1>4, <1>6, <1>7, <1>8, <1>9, Steps DEF HelperStep

LEMMA HandlingStep == TypeInv /\ [Next]_vars => Handling'
<1> SUFFICES ASSUME TypeInv, [Next]_vars PROVE Handling'
  OBVIOUS
<1> DEFINE
      Waits == /\ \A i \in 1 .. Len(flushed) : Event(flushed[i])
               /\ \A s \in Sessions : Events(backlog[s], s)
      Reads == /\ (pc["reader"] = "idle") <=> (hand = Nothing)
               /\ hand # Nothing => Event(hand.frame)
               /\ pc["reader"] \in {"lookup", "died", "died_row", "unroute", "forget"} =>
                    hand.frame.kind = "exit"
      Dies(a) == /\ pc[a] \in {"died", "died_row"} => dying[a].tab \in Tabs
                 /\ pc[a] = "died_row" => dying[a].sess \in Sessions
<1>a. Handling <=> Reads /\ Waits /\ \A a \in Threads : Dies(a)
  BY DEF Handling, Events
<1>b. Handling' <=> Reads' /\ Waits' /\ \A a \in Threads : Dies(a)'
  BY DEF Handling, Events, Event
<1>0. /\ Stages /\ Reads /\ Waits /\ \A a \in Threads : Dies(a)
      /\ FrameTypes /\ RouteTypes /\ GlueTypes /\ Commanding /\ RequestTypes
      /\ "main" \in Threads /\ "reader" \in Threads /\ "main" # "reader"
      /\ Nothing \notin [frame : Frames, to : Nat]
  BY <1>a, Apart, ActorsAssumption DEF TypeInv
<1>t. \A a \in Threads : a \in {"main", "reader"}
  BY DEF Threads
<1> HIDE DEF Reads, Waits, Dies
<1>w. UNCHANGED <<flushed, backlog>> => Waits'
  BY <1>0 DEF Waits
<1>r. pc'["reader"] = pc["reader"] /\ hand' = hand => Reads'
  BY <1>0 DEF Reads
<1>d. \A a \in Threads : dying'[a] = dying[a] /\ (pc'[a] = pc[a] \/ pc'[a] \notin {"died", "died_row"})
        => Dies(a)'
  BY <1>0 DEF Dies
<1>e. ASSUME NEW s PROVE \A x \in Sessions : Events([backlog EXCEPT ![s] = <<>>][x], x)
  <2>1. \A x \in Sessions :
          [backlog EXCEPT ![s] = <<>>][x] = IF x = s THEN <<>> ELSE backlog[x]
    BY <1>0, Emptied
  <2>2. \A x : Events(<<>>, x)
    BY DEF Events
  <2> QED BY <1>0, <2>1, <2>2 DEF Waits
<1>1. ASSUME NEW a \in Threads, NEW next, next \notin {"died", "died_row"},
             \/ \E s \in Sessions : Died(a, s, next)
             \/ pc[a] = "died" /\ DiedRow(a, next)
             \/ DiedShares(a, next)
      PROVE  Waits' /\ (\A b \in Threads : Dies(b)') /\ (\E l \in {next, "died", "died_row"} : Goto(a, l))
             /\ UNCHANGED <<hand, cmd, flushed, backlog>>
  <2>1. UNCHANGED <<hand, cmd, flushed, backlog>>
    BY <1>1 DEF Died, DiedRow, DiedShares, routeVars
  <2>2. PICK l : /\ Goto(a, l) /\ l \in {next, "died", "died_row"}
                 /\ l \in {"died", "died_row"} => dying'[a].tab \in Tabs
                 /\ l = "died_row" => dying'[a].sess \in Sessions
                 /\ \A b \in Threads \ {a} : dying'[b] = dying[b]
    <3>1. ASSUME NEW s \in Sessions, Died(a, s, next)
          PROVE  \/ Goto(a, next) /\ dying' = dying
                 \/ /\ tabOf[s] \in Tabs /\ Goto(a, "died")
                    /\ dying' = [dying EXCEPT ![a] = [tab |-> tabOf[s], sess |-> Nothing]]
      BY <3>1, DiedEffect
    <3>2. pc[a] = "died" /\ DiedRow(a, next) =>
            \/ Goto(a, next) /\ dying' = [dying EXCEPT ![a] = [tab |-> Nothing, sess |-> Nothing]]
            \/ \E s \in Sessions : Goto(a, "died_row") /\ dying' = [dying EXCEPT ![a].sess = s]
                                   /\ dying[a].tab \in Tabs
      BY <1>0 DEF DiedRow, Rest, Die, Dies
    <3>3. DiedShares(a, next) =>
            Goto(a, next) /\ dying' = [dying EXCEPT ![a] = [tab |-> Nothing, sess |-> Nothing]]
      BY DEF DiedShares, Rest, Die
    <3>4. dying \in [Threads -> [tab : Tabs \cup {Nothing}, sess : Sessions \cup {Nothing}]]
      BY <1>0 DEF GlueTypes
    <3>5. ASSUME NEW s \in Sessions, NEW t \in Tabs, Goto(a, "died"),
                 dying' = [dying EXCEPT ![a] = [tab |-> t, sess |-> Nothing]]
          PROVE  /\ dying'[a].tab \in Tabs /\ \A b \in Threads \ {a} : dying'[b] = dying[b]
      BY <3>4, <3>5
    <3>6. ASSUME NEW s \in Sessions, dying' = [dying EXCEPT ![a].sess = s], dying[a].tab \in Tabs
          PROVE  /\ dying'[a].tab \in Tabs /\ dying'[a].sess = s
                 /\ \A b \in Threads \ {a} : dying'[b] = dying[b]
      BY <3>4, <3>6
    <3>7. dying' = [dying EXCEPT ![a] = [tab |-> Nothing, sess |-> Nothing]] =>
            \A b \in Threads \ {a} : dying'[b] = dying[b]
      BY <3>4
    <3>8. CASE \E s \in Sessions : Died(a, s, next)
      BY <1>1, <3>1, <3>5, <3>8
    <3>9. CASE pc[a] = "died" /\ DiedRow(a, next)
      <4>1. CASE Goto(a, next) /\ dying' = [dying EXCEPT ![a] = [tab |-> Nothing, sess |-> Nothing]]
        BY <1>1, <3>7, <4>1
      <4>2. ASSUME NEW s \in Sessions, Goto(a, "died_row"), dying' = [dying EXCEPT ![a].sess = s],
                   dying[a].tab \in Tabs
            PROVE  /\ dying'[a].tab \in Tabs /\ dying'[a].sess \in Sessions
                   /\ \A b \in Threads \ {a} : dying'[b] = dying[b]
        BY <3>6, <4>2
      <4> QED BY <3>2, <3>9, <4>1, <4>2
    <3>10. CASE DiedShares(a, next)
      BY <1>1, <3>3, <3>7, <3>10
    <3> QED BY <1>1, <3>8, <3>9, <3>10
  <2>3. \A b \in Threads : pc'[b] = IF b = a THEN l ELSE pc[b]
    BY <1>0, <2>2, Going
  <2>4. \A b \in Threads : Dies(b)'
    BY <1>0, <1>d, <2>2, <2>3 DEF Dies
  <2> QED BY <1>w, <2>1, <2>2, <2>4
<1>2. ASSUME NEW l, Goto("reader", l), l \notin {"died", "died_row"}, dying' = dying
      PROVE  pc'["reader"] = l /\ \A b \in Threads : Dies(b)'
  <2>1. \A b \in Threads : pc'[b] = IF b = "reader" THEN l ELSE pc[b]
    BY <1>0, <1>2, Going
  <2> QED BY <1>0, <1>2, <1>d, <2>1
<1>3. ASSUME NEW l, Goto("main", l), l \notin {"died", "died_row"}, dying' = dying, hand' = hand
      PROVE  Reads' /\ \A b \in Threads : Dies(b)'
  <2>1. \A b \in Threads : pc'[b] = IF b = "main" THEN l ELSE pc[b]
    BY <1>0, <1>3, Going
  <2> QED BY <1>0, <1>3, <1>d, <1>r, <2>1
<1>4. ASSUME HelperStep \/ ShareStep \/ UNCHANGED vars PROVE Handling'
  <2>1. UNCHANGED <<hand, flushed, dying, backlog>>
    BY <1>4 DEF HelperStep, HelperOutputs, HelperExits, ShareStep, Sharer, StartReserve, StartBind,
       StartCheck, StartInsert, startFrame, vars, localVars, routeVars
  <2>2. pc' = pc \/ \E p \in Sharers : \E l : Goto(p, l)
    BY <1>4 DEF HelperStep, HelperOutputs, HelperExits, ShareStep, Sharer, StartReserve, StartBind,
       StartCheck, StartInsert, StartEnds, vars
  <2>3. \A a \in Threads : pc'[a] = pc[a]
    BY <1>0, <2>2, Going, Apart, ActorsAssumption
  <2> QED BY <1>0, <1>b, <1>w, <1>r, <1>d, <2>1, <2>3
<1>5. CASE ReaderTakes
  <2>1. UNCHANGED <<flushed, backlog, dying>> /\ pc["reader"] = "idle" /\ hand = Nothing
    BY <1>0, <1>5 DEF ReaderTakes, routeVars, Reads
  <2>2. CASE UNCHANGED <<hand, pc>>
    BY <1>b, <1>w, <1>r, <1>d, <2>1, <2>2
  <2>3. CASE /\ Event(Head(wire)) /\ Goto("reader", "deliver") /\ Head(wire).sess \in Sessions
             /\ Head(wire) \in Frames
             /\ hand' = [frame |-> Head(wire), to |-> bridges[Head(wire).sess]]
    <3>1. hand' # Nothing /\ hand'.frame = Head(wire)
      BY <1>0, <2>3 DEF RouteTypes
    <3>2. pc'["reader"] = "deliver" /\ \A b \in Threads : Dies(b)'
      BY <1>2, <2>1, <2>3
    <3> QED BY <1>b, <1>w, <2>1, <2>3, <3>1, <3>2 DEF Reads, Event
  <2> QED BY <1>5, <2>2, <2>3, TakenFrame
<1>6. CASE ReaderDelivers
  <2>1. UNCHANGED <<flushed, dying>> /\ hand # Nothing
        /\ hand.frame \in Frames /\ Event(hand.frame) /\ hand.to \in Nat
        /\ Deliver(hand.frame, hand.to)
    BY <1>6, HandedFrame DEF ReaderDelivers
  <2>2. Waits'
    BY <1>0, <2>1, DeliverTypes DEF Waits, Events, Event
  <2>3. \/ hand.frame.kind = "exit" /\ hand' = hand /\ Goto("reader", "lookup")
        \/ hand' = Nothing /\ Goto("reader", "idle")
    BY <1>6 DEF ReaderDelivers
  <2>4. \/ hand.frame.kind = "exit" /\ hand' = hand /\ pc'["reader"] = "lookup"
        \/ hand' = Nothing /\ pc'["reader"] = "idle"
    BY <1>2, <2>1, <2>3
  <2>5. \A b \in Threads : Dies(b)'
    BY <1>2, <2>1, <2>3
  <2> QED BY <1>b, <2>1, <2>2, <2>4, <2>5 DEF Reads, Event
<1>7. CASE ReaderDies
  <2>1. hand.frame.sess \in Sessions /\ hand # Nothing /\ Event(hand.frame)
    BY <1>7, HandedFrame DEF ReaderDies
  <2>2. /\ Waits' /\ (\A b \in Threads : Dies(b)') /\ hand' = hand
        /\ \E l \in {"unroute", "died", "died_row"} : Goto("reader", l)
    BY <1>0, <1>1, <1>7, <2>1 DEF ReaderDies
  <2>3. pc'["reader"] \in {"unroute", "died", "died_row"}
    BY <1>0, <2>2, Going
  <2>4. hand.frame.kind = "exit"
    BY <1>0, <1>7 DEF ReaderDies, Reads
  <2> QED BY <1>b, <2>1, <2>2, <2>3, <2>4 DEF Reads, Event
<1>8. CASE ReaderUnroutes
  <2>1. UNCHANGED <<flushed, backlog, dying, hand>> /\ Goto("reader", "forget")
    BY <1>8 DEF ReaderUnroutes, localVars
  <2>2. pc'["reader"] = "forget" /\ \A b \in Threads : Dies(b)'
    BY <1>2, <2>1
  <2>3. hand # Nothing /\ Event(hand.frame) /\ hand.frame.kind = "exit"
    BY <1>0, <1>8 DEF ReaderUnroutes, Reads
  <2> QED BY <1>b, <1>w, <2>1, <2>2, <2>3 DEF Reads, Event
<1>9. CASE ReaderForgets
  <2>1. UNCHANGED <<flushed, dying>> /\ hand' = Nothing /\ Goto("reader", "idle")
        /\ backlog' = [backlog EXCEPT ![hand.frame.sess] = <<>>]
    BY <1>9 DEF ReaderForgets
  <2>2. pc'["reader"] = "idle" /\ \A b \in Threads : Dies(b)'
    BY <1>2, <2>1
  <2>3. Waits'
    BY <1>0, <1>e, <2>1 DEF Waits, Events, Event
  <2> QED BY <1>b, <2>1, <2>2, <2>3 DEF Reads
<1>10. CASE CallStep
  <2>1. PICK op, s, t, kind, f : Called(op, s, t, kind, f)
    BY <1>10, CallEffect
  <2>2. UNCHANGED <<hand, flushed, dying, backlog>> /\ Goto("main", "wait")
    BY <2>1 DEF Called, routeVars
  <2> QED BY <1>b, <1>3, <1>w, <2>2
<1>11. CASE Failed \/ Install \/ Replay \/ Register
  <2>1. UNCHANGED <<hand, flushed, dying, backlog>>
        /\ \E l \in {"idle", "flush", "register"} : Goto("main", l)
    BY <1>11 DEF Failed, Install, Replay, Register, Return, routeVars, localVars
  <2> QED BY <1>b, <1>3, <1>w, <2>1
<1>12. CASE FlushTakes
  <2>1. /\ flushed' = backlog[cmd.sess] /\ backlog' = [backlog EXCEPT ![cmd.sess] = <<>>]
        /\ UNCHANGED <<hand, dying>> /\ cmd.sess \in Sessions
        /\ \E l \in {"flushing", "replay", "register"} : Goto("main", l)
    BY <1>0, <1>12 DEF FlushTakes, AfterFlush, Commanding
  <2>2. Waits'
    BY <1>0, <1>e, <2>1 DEF Waits, Events, Event
  <2> QED BY <1>b, <1>3, <2>1, <2>2
<1>13. CASE FlushDelivers
  <2>1. /\ flushed' = Tail(flushed) /\ UNCHANGED <<hand, dying>> /\ flushed # <<>>
        /\ \E l \in {"flushing", "replay", "register"} : Goto("main", l)
    BY <1>13, FlushedFrame DEF FlushDelivers, AfterFlush
  <2>2. \A s \in Sessions : Events(backlog'[s], s)
    BY <1>13, FlushedFrame, DeliverTypes
  <2>3. flushed \in Seq(Frames) /\ Len(flushed) \in Nat
    BY <1>0 DEF FrameTypes
  <2>4. /\ Len(flushed') = Len(flushed) - 1
        /\ \A i \in 1 .. Len(flushed) - 1 : flushed'[i] = flushed[i + 1] /\ i + 1 \in 1 .. Len(flushed)
    BY <2>1, <2>3, OutputsTail
  <2>5. Waits'
    BY <1>0, <2>2, <2>4 DEF Waits, Events, Event
  <2> QED BY <1>b, <1>3, <2>1, <2>5
<1>14. CASE OpenStep
  BY <1>11, <1>12, <1>13, <1>14 DEF OpenStep
<1>15. CASE MainDies
  <2>1. \/ \E s \in Sessions : Died("main", s, "unroute")
        \/ pc["main"] = "died" /\ DiedRow("main", "unroute")
        \/ DiedShares("main", "unroute")
    <3>1. Succeeded("detach") \/ Succeeded("kill") => cmd.sess \in Sessions
      BY <1>0 DEF Succeeded, Commanding, RequestTypes, Commands
    <3> QED BY <1>15, <3>1 DEF MainDies
  <2>2. /\ Waits' /\ (\A b \in Threads : Dies(b)') /\ hand' = hand
        /\ \E l \in {"unroute", "died", "died_row"} : Goto("main", l)
    BY <1>0, <1>1, <2>1
  <2>3. pc'["reader"] = pc["reader"]
    BY <1>0, <2>2, Going
  <2> QED BY <1>b, <1>r, <2>2, <2>3
<1>16. CASE KilledAll
  <2>1. UNCHANGED <<hand, flushed, dying>> /\ Goto("main", "quit") /\ backlog' = [s \in Sessions |-> <<>>]
    BY <1>16 DEF KilledAll
  <2>2. Waits'
    BY <1>0, <2>1 DEF Waits, Events, Event
  <2> QED BY <1>b, <1>3, <2>1, <2>2
<1>17. CASE CloseStep
  <2>1. CASE Unroute \/ ShareSweep \/ \E t \in Tabs : ShareStop(t)
    <3>1. UNCHANGED <<hand, flushed, dying, backlog>> /\ \E l \in {"idle", "sweep"} : Goto("main", l)
      BY <2>1 DEF Unroute, ShareSweep, ShareStop, Return, routeVars
    <3> QED BY <1>b, <1>3, <1>w, <3>1
  <2> QED BY <1>15, <1>16, <1>17, <2>1 DEF CloseStep
<1> QED BY <1>4, <1>5, <1>6, <1>7, <1>8, <1>9, <1>10, <1>14, <1>17, Steps DEF Reader

LEMMA TypeInit == Init => TypeInv
<1> SUFFICES ASSUME Init PROVE TypeInv
  OBVIOUS
<1> USE DEF Init
<1>1. HelperTypes /\ RequestTypes /\ FrameTypes /\ RouteTypes /\ GlueTypes
  BY BoundsAssumption DEF HelperTypes, RequestTypes, FrameTypes, RouteTypes, GlueTypes
<1>2. Stages /\ Commanding /\ Answering /\ Answered /\ Handling /\ Tasks
  BY Apart DEF Stages, Commanding, Answering, Answered, Handling, Tasks, MainStages, ReaderStages,
     StartStages
<1> QED BY <1>1, <1>2 DEF TypeInv

LEMMA TypeAlways == Spec => []TypeInv
<1>1. TypeInv /\ [Next]_vars => TypeInv'
  BY HelperTypesStep, RequestTypesStep, FrameTypesStep, RouteTypesStep, GlueTypesStep, StagesStep,
     CommandingStep, AnsweringStep, AnsweredStep, HandlingStep, TasksStep DEF TypeInv
<1> QED BY <1>1, TypeInit, PTL DEF Spec

\* Every variable of HelperClient, the bridges and the share glue has its type,
\* and push_helper_backlog keeps each backlog within its cap.
THEOREM TypeCorrect == Spec => []TypeOK
<1>1. TypeInv => TypeOK
  BY TypeParts DEF TypeInv
<1> QED BY <1>1, TypeAlways, PTL

-----------------------------------------------------------------------------
(* Where a chunk is: under way, in a thread's hands, in a backlog or shown. *)

\* A chunk that is under way has been printed and not been taken.
OnWire ==
  /\ Distinct(wire) /\ OutputsIn(wire) \cap got = {}
  /\ \A x \in OutputsIn(wire) \cup got : x[1] \in Sessions /\ x[2] \in Nat /\ x[2] <= out[x[1]]

\* What was taken is in one place and there once.
ShownOnce ==
  \A s \in Sessions : \A i, j \in PrintedAt(s) : view[s][i].n = view[s][j].n => i = j

Apiece ==
  /\ ShownOnce /\ Distinct(flushed) /\ \A s \in Sessions : Distinct(backlog[s])
  /\ Shown \cap InBacklogs = {}
  /\ OutputsIn(flushed) \cap (Shown \cup InBacklogs) = {}
  /\ InHand \cap (Shown \cup InBacklogs \cup OutputsIn(flushed)) = {}

Accounted ==
  /\ Shown \cup Waiting \subseteq got
  /\ got \subseteq Shown \cup Waiting \cup lost

Delivery == OnWire /\ Apiece /\ Accounted

LEMMA OnWireStep == TypeInv /\ Delivery /\ [Next]_vars => OnWire'
<1> SUFFICES ASSUME TypeInv, Delivery, [Next]_vars PROVE OnWire'
  OBVIOUS
<1>0. OnWire /\ wire \in Seq(Frames) /\ out \in [Sessions -> Nat]
  BY DEF TypeInv, HelperTypes, Delivery
<1>1. UNCHANGED <<wire, out, got>> => OnWire'
  BY <1>0 DEF OnWire, Distinct, OutputsIn
<1>2. ASSUME NEW f \in Frames, f.kind # "output", wire' = Append(wire, f), UNCHANGED <<out, got>>
      PROVE  OnWire'
  <2>1. OutputsIn(<<f>>) = {}
    BY <1>2, OutputsOfOne
  <2>2. /\ OutputsIn(wire') = OutputsIn(wire) \cup OutputsIn(<<f>>)
        /\ Distinct(wire) /\ OutputsIn(wire) \cap OutputsIn(<<f>>) = {} => Distinct(wire')
    BY <1>0, <1>2, OutputsAppend
  <2> QED BY <1>0, <1>2, <2>1, <2>2 DEF OnWire
<1>3. ASSUME NEW s \in Sessions, HelperOutputs(s) PROVE OnWire'
  <2> DEFINE f == OutputOf(s, out[s] + 1)
  <2>1. f \in Frames /\ f.kind = "output" /\ f.sess = s /\ f.n = out[s] + 1 /\ out[s] + 1 \in Nat
    BY <1>0 DEF OutputOf, Frame, Frames
  <2>2. wire' = Append(wire, f) /\ UNCHANGED got /\ out' = [out EXCEPT ![s] = @ + 1]
    BY <1>3 DEF HelperOutputs, Sent, histVars
  <2> HIDE DEF f
  <2>3. \A x \in OutputsIn(wire) \cup got : x[1] \in Sessions /\ x[2] \in Nat /\ x[2] <= out[x[1]]
    BY <1>0 DEF OnWire
  <2>4. <<s, out[s] + 1>> \notin OutputsIn(wire) \cup got
    <3>1. ~(out[s] + 1 <= out[s])
      BY <1>0
    <3> QED BY <2>3, <3>1
  <2>5. OutputsIn(<<f>>) = {<<s, out[s] + 1>>}
    BY <2>1, OutputsOfOne
  <2>6. OutputsIn(wire') = OutputsIn(wire) \cup {<<s, out[s] + 1>>} /\ Distinct(wire')
    BY <1>0, <2>1, <2>2, <2>4, <2>5, OutputsAppend DEF OnWire
  <2>7. \A r \in Sessions : out'[r] \in Nat /\ out[r] <= out'[r]
    BY <1>0, <2>2
  <2>8. out'[s] = out[s] + 1
    BY <1>0, <2>2
  <2>9. ASSUME NEW x \in OutputsIn(wire') \cup got'
        PROVE  x[1] \in Sessions /\ x[2] \in Nat /\ x[2] <= out'[x[1]]
    <3>1. CASE x \in OutputsIn(wire) \cup got
      <4>1. x[1] \in Sessions /\ x[2] \in Nat /\ x[2] <= out[x[1]]
        BY <2>3, <3>1
      <4>2. out[x[1]] \in Nat /\ out'[x[1]] \in Nat /\ out[x[1]] <= out'[x[1]]
        BY <1>0, <2>7, <4>1
      <4> QED BY <4>1, <4>2
    <3>2. CASE x = <<s, out[s] + 1>>
      BY <2>1, <2>8, <3>2
    <3> QED BY <2>2, <2>6, <3>1, <3>2
  <2>10. OutputsIn(wire') \cap got' = {}
    BY <1>0, <2>2, <2>4, <2>6 DEF OnWire
  <2> QED BY <2>6, <2>9, <2>10 DEF OnWire
<1>4. ASSUME NEW s \in Sessions, HelperExits(s) PROVE OnWire'
  <2>1. Frame("exit", s, 0) \in Frames /\ Frame("exit", s, 0).kind # "output"
    BY DEF Frame, Frames
  <2> QED BY <1>1, <1>2, <1>4, <2>1 DEF HelperExits, Sent, histVars
<1>5. CASE CallStep
  <2>1. PICK op, s, t, kind, f : Called(op, s, t, kind, f)
    BY <1>5, CallEffect
  <2>2. f \in Frames /\ f.kind # "output" /\ wire' = Append(wire, f) /\ UNCHANGED <<out, got>>
    BY <2>1 DEF Called, Expects, histVars
  <2> QED BY <1>2, <2>2
<1>6. CASE ReaderTakes
  <2> DEFINE f == Head(wire)  rest == Tail(wire)
  <2>1. /\ wire' = rest /\ UNCHANGED out
        /\ OutputsIn(wire) = OutputsIn(<<f>>) \cup OutputsIn(rest) /\ Distinct(rest)
        /\ OutputsIn(<<f>>) \cap OutputsIn(rest) = {}
    BY <1>0, <1>6, TakenFrame, OutputsTail DEF OnWire, ReaderTakes, helperVars
  <2>2. got' = got \/ got' = got \cup OutputsIn(<<f>>)
    BY <1>6, TakenFrame
  <2> HIDE DEF f, rest
  <2> QED BY <1>0, <2>1, <2>2 DEF OnWire
<1>7. CASE Reader
  BY <1>1, <1>6, <1>7 DEF Reader, ReaderDelivers, ReaderDies, Died, DiedRow, DiedShares, ReaderUnroutes,
     ReaderForgets, helperVars, histVars
<1>8. CASE OpenStep
  BY <1>1, <1>8 DEF OpenStep, Failed, Install, FlushTakes, FlushDelivers, Replay, Register, helperVars,
     histVars
<1>9. CASE CloseStep
  BY <1>1, <1>9 DEF CloseStep, MainDies, Died, DiedRow, DiedShares, Unroute, KilledAll, ShareSweep,
     ShareStop, helperVars, histVars
<1>10. CASE ShareStep
  BY <1>1, <1>10 DEF ShareStep, Sharer, StartReserve, StartBind, StartCheck, StartInsert, startFrame,
     helperVars, histVars
<1>11. CASE UNCHANGED vars
  BY <1>1, <1>11 DEF vars, helperVars, histVars
<1> QED BY <1>3, <1>4, <1>5, <1>7, <1>8, <1>9, <1>10, <1>11, Steps DEF HelperStep

LEMMA ShownAppended ==
  ASSUME FrameTypes, NEW s \in Sessions, NEW v \in [to : Nat, kind : Held, n : Nat],
         view' = [view EXCEPT ![s] = Append(@, v)]
  PROVE  /\ Shown' = Shown \cup IF v.kind = "output" THEN {<<s, v.n>>} ELSE {}
         /\ ShownOnce /\ (v.kind = "output" => <<s, v.n>> \notin Shown) => ShownOnce'
<1> DEFINE Shows == [to : Nat, kind : Held, n : Nat]
<1>1. view \in [Sessions -> Seq(Shows)] /\ v \in Shows
  BY DEF FrameTypes
<1> HIDE DEF Shows
<1>2. /\ view' \in [Sessions -> Seq(Shows)]
      /\ \A x \in Sessions : view'[x] = IF x = s THEN Append(view[s], v) ELSE view[x]
  BY <1>1, Appended
<1>3. /\ Len(view[s]) \in Nat /\ Len(view'[s]) = Len(view[s]) + 1
      /\ \A i \in 1 .. Len(view[s]) + 1 :
           view'[s][i] = IF i = Len(view[s]) + 1 THEN v ELSE view[s][i]
  BY <1>1, <1>2
<1>4. \A x \in Sessions : /\ DOMAIN view[x] = 1 .. Len(view[x])
                          /\ DOMAIN view'[x] = 1 .. Len(view'[x])
  BY <1>1, <1>2
<1>5. \A x : x \in Shown <=>
        \E r \in Sessions : \E i \in 1 .. Len(view[r]) :
          view[r][i].kind = "output" /\ x = <<r, view[r][i].n>>
  BY <1>4 DEF Shown, PrintedAt
<1>6. \A x : x \in Shown' <=>
        \E r \in Sessions : \E i \in 1 .. Len(view'[r]) :
          view'[r][i].kind = "output" /\ x = <<r, view'[r][i].n>>
  BY <1>4 DEF Shown, PrintedAt
<1>7. ASSUME NEW x
      PROVE  x \in Shown' <=> x \in Shown \/ (v.kind = "output" /\ x = <<s, v.n>>)
  <2>1. ASSUME NEW r \in Sessions, NEW i \in 1 .. Len(view'[r]), view'[r][i].kind = "output",
               x = <<r, view'[r][i].n>>
        PROVE  x \in Shown \/ (v.kind = "output" /\ x = <<s, v.n>>)
    <3>1. CASE r = s /\ i = Len(view[s]) + 1
      BY <1>3, <2>1, <3>1
    <3>2. CASE ~(r = s /\ i = Len(view[s]) + 1)
      <4>1. i \in 1 .. Len(view[r]) /\ view'[r][i] = view[r][i]
        BY <1>2, <1>3, <3>2
      <4> QED BY <1>5, <2>1, <4>1
    <3> QED BY <3>1, <3>2
  <2>2. ASSUME NEW r \in Sessions, NEW i \in 1 .. Len(view[r]), view[r][i].kind = "output",
               x = <<r, view[r][i].n>>
        PROVE  x \in Shown'
    <3>1. i \in 1 .. Len(view'[r]) /\ view'[r][i] = view[r][i]
      BY <1>2, <1>3
    <3> QED BY <1>6, <2>2, <3>1
  <2>3. v.kind = "output" => <<s, v.n>> \in Shown'
    <3>1. Len(view[s]) + 1 \in 1 .. Len(view'[s]) /\ view'[s][Len(view[s]) + 1] = v
      BY <1>3
    <3> QED BY <1>6, <3>1
  <2> QED BY <1>5, <1>6, <2>1, <2>2, <2>3
<1>8. ASSUME ShownOnce, v.kind = "output" => <<s, v.n>> \notin Shown PROVE ShownOnce'
  <2> SUFFICES ASSUME NEW r \in Sessions, NEW i \in 1 .. Len(view'[r]), NEW j \in 1 .. Len(view'[r]),
                      view'[r][i].kind = "output", view'[r][j].kind = "output",
                      view'[r][i].n = view'[r][j].n, i < j
               PROVE  FALSE
    BY <1>4 DEF ShownOnce, PrintedAt
  <2>1. i \in 1 .. Len(view[r]) /\ view'[r][i] = view[r][i]
    BY <1>2, <1>3
  <2>2. CASE r = s /\ j = Len(view[s]) + 1
    <3>1. v.kind = "output" /\ view[s][i].n = v.n
      BY <1>3, <2>1, <2>2
    <3> QED BY <1>5, <1>8, <2>1, <2>2, <3>1
  <2>3. CASE ~(r = s /\ j = Len(view[s]) + 1)
    <3>1. j \in 1 .. Len(view[r]) /\ view'[r][j] = view[r][j]
      BY <1>2, <1>3, <2>3
    <3> QED BY <1>4, <1>8, <2>1, <3>1 DEF ShownOnce, PrintedAt
  <2> QED BY <2>2, <2>3
<1> QED BY <1>7, <1>8

\* A backlog holds chunks of its own session.
LEMMA OwnBacklog ==
  ASSUME TypeInv, NEW s \in Sessions, NEW x \in OutputsIn(backlog[s])
  PROVE  x[1] = s /\ x \in InBacklogs
<1>1. PICK i \in 1 .. Len(backlog[s]) : x = <<backlog[s][i].sess, backlog[s][i].n>>
  BY OutputMembers DEF TypeInv, FrameTypes
<1>2. backlog[s][i].sess = s
  BY DEF TypeInv, Handling
<1> QED BY <1>1, <1>2 DEF InBacklogs

\* A backlog that is emptied gives up its chunks and no other.
LEMMA EmptiedBacklog ==
  ASSUME TypeInv, Delivery, NEW s \in Sessions, backlog' = [backlog EXCEPT ![s] = <<>>]
  PROVE  /\ InBacklogs' \cup OutputsIn(backlog[s]) = InBacklogs
         /\ InBacklogs' \cap OutputsIn(backlog[s]) = {}
         /\ \A r \in Sessions : Distinct(backlog'[r])
<1>1. \A r \in Sessions : backlog'[r] = IF r = s THEN <<>> ELSE backlog[r]
  BY Emptied DEF TypeInv
<1>2. OutputsIn(<<>>) = {} /\ Distinct(<<>>)
  BY DEF OutputsIn, Range, Distinct
<1>3. ASSUME NEW x
      PROVE  x \in InBacklogs' <=> \E r \in Sessions \ {s} : x \in OutputsIn(backlog[r])
  BY <1>1, <1>2 DEF InBacklogs
<1>4. \A x : x \in InBacklogs <=> \E r \in Sessions : x \in OutputsIn(backlog[r])
  BY DEF InBacklogs
<1>5. \A r \in Sessions : \A x \in OutputsIn(backlog[r]) : x[1] = r
  BY OwnBacklog
<1>6. \A r \in Sessions : Distinct(backlog'[r])
  BY <1>1, <1>2 DEF Delivery, Apiece
<1> QED BY <1>3, <1>4, <1>5, <1>6

\* A frame that is delivered ends up on the screen or in a backlog, once; what
\* push_helper_backlog drops for it is recorded.
LEMMA Delivered ==
  ASSUME TypeInv, Delivery, NEW f \in Frames, Event(f), NEW k \in Nat, Deliver(f, k),
         OutputsIn(<<f>>) \cap (Shown \cup InBacklogs) = {}
  PROVE  /\ Shown' \cup InBacklogs' \subseteq Shown \cup InBacklogs \cup OutputsIn(<<f>>)
         /\ Shown \cup InBacklogs \cup OutputsIn(<<f>>) \cup lost \subseteq Shown' \cup InBacklogs' \cup lost'
         /\ Shown' \cap InBacklogs' = {}
         /\ ShownOnce' /\ \A r \in Sessions : Distinct(backlog'[r])
<1> DEFINE s == f.sess
           all == Append(backlog[s], f)
           v == [to |-> k, kind |-> f.kind, n |-> f.n]
<1>0. /\ s \in Sessions /\ f.n \in Nat /\ f.kind \in Held /\ FrameTypes
      /\ \A r \in Sessions : /\ backlog[r] \in Seq(Frames) /\ Distinct(backlog[r])
                             /\ Len(backlog[r]) <= MaxBacklog
      /\ ShownOnce /\ Shown \cap InBacklogs = {}
  BY DEF Event, Held, Frames, TypeInv, FrameTypes, Delivery, Apiece
<1>1. OutputsIn(<<f>>) = IF f.kind = "output" THEN {<<s, f.n>>} ELSE {}
  BY OutputsOfOne
<1>2. \A x : x \in InBacklogs <=> \E r \in Sessions : x \in OutputsIn(backlog[r])
  BY DEF InBacklogs
<1>3. CASE /\ backlog' = [backlog EXCEPT ![s] = Kept(all)]
           /\ lost' = lost \cup (OutputsIn(all) \ OutputsIn(Kept(all)))
           /\ UNCHANGED view
  <2>1. all \in Seq(Frames) /\ Len(all) <= MaxBacklog + 1
        /\ OutputsIn(all) = OutputsIn(backlog[s]) \cup OutputsIn(<<f>>)
    <3>1. Len(all) = Len(backlog[s]) + 1 /\ Len(backlog[s]) \in Nat /\ MaxBacklog \in Nat
      BY <1>0, OutputsAppend, BoundsAssumption
    <3> QED BY <1>0, <3>1, OutputsAppend
  <2>2. Distinct(all)
    <3>1. OutputsIn(backlog[s]) \cap OutputsIn(<<f>>) = {}
      BY <1>0, <1>2
    <3> QED BY <1>0, <3>1, OutputsAppend
  <2> HIDE DEF all, s
  <2>3. /\ OutputsIn(Kept(all)) \subseteq OutputsIn(all) /\ Distinct(Kept(all))
        /\ Kept(all) \in Seq(Frames)
    BY <2>1, <2>2, KeptFrames
  <2>4. \A r \in Sessions : backlog'[r] = IF r = s THEN Kept(all) ELSE backlog[r]
    BY <1>0, <1>3 DEF FrameTypes
  <2>5. ASSUME NEW x
        PROVE  x \in InBacklogs' <=> \/ x \in OutputsIn(Kept(all))
                                    \/ \E r \in Sessions \ {s} : x \in OutputsIn(backlog[r])
    BY <1>0, <2>4 DEF InBacklogs
  <2>6. Shown' = Shown /\ ShownOnce'
    BY <1>0, <1>3 DEF Shown, ShownOnce, PrintedAt
  <2>7. \A r \in Sessions : Distinct(backlog'[r])
    BY <1>0, <2>3, <2>4
  <2>8. InBacklogs' \subseteq InBacklogs \cup OutputsIn(<<f>>)
    BY <1>0, <1>2, <2>1, <2>3, <2>5
  <2>9. InBacklogs \cup OutputsIn(<<f>>) \cup lost \subseteq InBacklogs' \cup lost'
    BY <1>0, <1>2, <1>3, <2>1, <2>5
  <2> QED BY <1>0, <2>6, <2>7, <2>8, <2>9
<1>4. CASE view' = [view EXCEPT ![s] = Append(@, v)] /\ UNCHANGED <<backlog, lost>>
  <2>1. v \in [to : Nat, kind : Held, n : Nat] /\ v.kind = f.kind /\ v.n = f.n
    BY <1>0
  <2> HIDE DEF v, s
  <2>2. /\ Shown' = Shown \cup IF v.kind = "output" THEN {<<s, v.n>>} ELSE {}
        /\ (v.kind = "output" => <<s, v.n>> \notin Shown) => ShownOnce'
    BY <1>0, <1>4, <2>1, ShownAppended
  <2>3. Shown' = Shown \cup OutputsIn(<<f>>) /\ ShownOnce'
    BY <1>1, <2>1, <2>2
  <2>4. InBacklogs' = InBacklogs /\ \A r \in Sessions : Distinct(backlog'[r])
    BY <1>0, <1>4 DEF InBacklogs
  <2> QED BY <1>0, <1>4, <2>3, <2>4
<1> QED BY <1>3, <1>4, DeliverEffect

LEMMA PlacesStep == TypeInv /\ Delivery /\ [Next]_vars => Apiece' /\ Accounted'
<1> SUFFICES ASSUME TypeInv, Delivery, [Next]_vars PROVE Apiece' /\ Accounted'
  OBVIOUS
<1>0. /\ Apiece /\ Accounted /\ FrameTypes /\ RequestTypes /\ Commanding /\ Handling
      /\ Nothing \notin [frame : Frames, to : Nat]
  BY ActorsAssumption DEF TypeInv, Delivery
<1> DEFINE Resting == UNCHANGED <<view, backlog, flushed, hand, got, lost>>
<1>s. view' = view => Shown' = Shown /\ ShownOnce'
  BY <1>0 DEF Shown, ShownOnce, PrintedAt, Apiece
<1>b. backlog' = backlog => InBacklogs' = InBacklogs /\ \A s \in Sessions : Distinct(backlog'[s])
  BY <1>0 DEF InBacklogs, Apiece
<1>f. flushed' = flushed => OutputsIn(flushed)' = OutputsIn(flushed) /\ Distinct(flushed)'
  BY <1>0 DEF Apiece
<1>h. /\ hand' = hand => InHand' = InHand
      /\ hand' = Nothing => InHand' = {}
      /\ hand # Nothing => InHand = OutputsIn(<<hand.frame>>)
  BY DEF InHand
<1>1. Resting => Apiece' /\ Accounted'
  BY <1>0, <1>s, <1>b, <1>f, <1>h DEF Apiece, Accounted, Waiting
<1>2. CASE HelperStep \/ ShareStep \/ UNCHANGED vars
  <2>1. Resting
    BY <1>2 DEF HelperStep, HelperOutputs, HelperExits, ShareStep, Sharer, StartReserve, StartBind,
       StartCheck, StartInsert, startFrame, vars, viewVars, routeVars, localVars, histVars
  <2> QED BY <1>1, <2>1
<1>3. CASE CallStep
  <2>1. PICK op, s, t, kind, f : Called(op, s, t, kind, f)
    BY <1>3, CallEffect
  <2>2. Resting
    BY <2>1 DEF Called, viewVars, routeVars, histVars
  <2> QED BY <1>1, <2>2
<1>4. CASE ReaderTakes
  <2>1. UNCHANGED <<view, backlog, flushed, lost>>
    BY <1>4 DEF ReaderTakes, viewVars, routeVars
  <2>2. CASE UNCHANGED <<hand, got>>
    BY <1>1, <2>1, <2>2
  <2>3. CASE ~UNCHANGED <<hand, got>>
    <3> DEFINE f == Head(wire)
    <3>1. /\ f \in Frames /\ f.sess \in Sessions /\ hand = Nothing
          /\ hand' = [frame |-> f, to |-> bridges[f.sess]]
          /\ got' = got \cup OutputsIn(<<f>>)
      BY <1>0, <1>4, <2>3, TakenFrame DEF ReaderTakes, Handling
    <3>2. wire # <<>> /\ wire \in Seq(Frames) /\ OutputsIn(wire) \cap got = {}
      BY <1>4, TakenFrame DEF Delivery, OnWire
    <3>3. OutputsIn(<<f>>) \cap got = {}
      BY <3>2, OutputsTail
    <3> HIDE DEF f
    <3>4. hand' # Nothing
      BY <1>0, <3>1 DEF TypeInv, RouteTypes
    <3>5. InHand' = OutputsIn(<<f>>) /\ InHand = {}
      BY <3>1, <3>4 DEF InHand
    <3> QED BY <1>0, <1>s, <1>b, <1>f, <2>1, <3>1, <3>3, <3>5 DEF Apiece, Accounted, Waiting
  <2> QED BY <2>2, <2>3
<1>5. CASE ReaderDelivers
  <2> DEFINE f == hand.frame
  <2>1. /\ f \in Frames /\ Event(f) /\ hand.to \in Nat /\ Deliver(f, hand.to)
        /\ UNCHANGED <<flushed, got>> /\ InHand = OutputsIn(<<f>>)
    BY <1>5, <1>h, HandedFrame DEF ReaderDelivers
  <2>2. InHand' = {}
    <3>1. CASE f.kind = "exit"
      <4>1. hand' = hand
        BY <1>5, <3>1 DEF ReaderDelivers
      <4>2. OutputsIn(<<f>>) = {}
        BY <2>1, <3>1, OutputsOfOne
      <4> QED BY <1>h, <2>1, <4>1, <4>2
    <3>2. CASE f.kind # "exit"
      BY <1>5, <1>h, <3>2 DEF ReaderDelivers
    <3> QED BY <3>1, <3>2
  <2>3. OutputsIn(<<f>>) \cap (Shown \cup InBacklogs \cup OutputsIn(flushed)) = {}
    BY <1>0, <2>1 DEF Apiece
  <2> HIDE DEF f
  <2>4. /\ Shown' \cup InBacklogs' \subseteq Shown \cup InBacklogs \cup OutputsIn(<<f>>)
        /\ Shown \cup InBacklogs \cup OutputsIn(<<f>>) \cup lost \subseteq Shown' \cup InBacklogs' \cup lost'
        /\ Shown' \cap InBacklogs' = {}
        /\ ShownOnce' /\ \A r \in Sessions : Distinct(backlog'[r])
    BY <2>1, <2>3, Delivered
  <2>5. Apiece'
    BY <1>0, <1>f, <2>1, <2>2, <2>3, <2>4 DEF Apiece
  <2>6. Accounted'
    BY <1>0, <1>f, <2>1, <2>2, <2>4 DEF Accounted, Waiting
  <2> QED BY <2>5, <2>6
<1>6. CASE ReaderForgets
  <2> DEFINE s == hand.frame.sess
  <2>1. /\ s \in Sessions /\ backlog' = [backlog EXCEPT ![s] = <<>>]
        /\ lost' = lost \cup OutputsIn(backlog[s]) /\ hand' = Nothing
        /\ UNCHANGED <<flushed, got, view>>
    BY <1>6, HandedFrame DEF ReaderForgets, viewVars
  <2>2. InHand = {}
    <3>1. hand.frame \in Frames /\ hand # Nothing /\ hand.frame.kind = "exit"
      BY <1>0, <1>6, HandedFrame DEF ReaderForgets, Handling
    <3> QED BY <1>h, <3>1, OutputsOfOne
  <2> HIDE DEF s
  <2>3. /\ InBacklogs' \cup OutputsIn(backlog[s]) = InBacklogs
        /\ \A r \in Sessions : Distinct(backlog'[r])
    BY <2>1, EmptiedBacklog
  <2> QED BY <1>0, <1>s, <1>f, <1>h, <2>1, <2>2, <2>3 DEF Apiece, Accounted, Waiting
<1>7. CASE ReaderDies \/ ReaderUnroutes
  <2>1. Resting
    BY <1>7 DEF ReaderDies, Died, DiedRow, DiedShares, ReaderUnroutes, viewVars, routeVars, localVars,
       histVars
  <2> QED BY <1>1, <2>1
<1>8. CASE Failed \/ Install \/ Register
  <2>1. Resting
    BY <1>8 DEF Failed, Install, Register, Return, routeVars, histVars
  <2> QED BY <1>1, <2>1
<1>9. CASE FlushTakes
  <2> DEFINE s == cmd.sess
  <2>1. /\ s \in Sessions /\ backlog' = [backlog EXCEPT ![s] = <<>>] /\ flushed' = backlog[s]
        /\ flushed = <<>> /\ UNCHANGED <<view, hand, got, lost>>
    BY <1>0, <1>9 DEF FlushTakes, Commanding, viewVars, histVars
  <2> HIDE DEF s
  <2>2. /\ InBacklogs' \cup OutputsIn(backlog[s]) = InBacklogs
        /\ InBacklogs' \cap OutputsIn(backlog[s]) = {}
        /\ \A r \in Sessions : Distinct(backlog'[r])
    BY <2>1, EmptiedBacklog
  <2>3. OutputsIn(flushed) = {} /\ Distinct(flushed')
    BY <1>0, <2>1, OutputsOfOne DEF Apiece, OutputsIn, Range
  <2>4. OutputsIn(flushed)' = OutputsIn(backlog[s])
    BY <2>1
  <2> QED BY <1>0, <1>s, <1>h, <2>1, <2>2, <2>3, <2>4 DEF Apiece, Accounted, Waiting
<1>10. CASE FlushDelivers
  <2> DEFINE f == Head(flushed)  rest == Tail(flushed)
  <2>1. /\ f \in Frames /\ Event(f) /\ bridges[cmd.sess] \in Nat /\ Deliver(f, bridges[cmd.sess])
        /\ flushed # <<>> /\ flushed \in Seq(Frames) /\ flushed' = rest /\ UNCHANGED <<hand, got>>
    BY <1>0, <1>10, FlushedFrame DEF FlushDelivers, FrameTypes
  <2>2. /\ OutputsIn(flushed) = OutputsIn(<<f>>) \cup OutputsIn(rest)
        /\ OutputsIn(<<f>>) \cap OutputsIn(rest) = {} /\ Distinct(rest)
    BY <1>0, <2>1, OutputsTail DEF Apiece
  <2>3. OutputsIn(<<f>>) \cap (Shown \cup InBacklogs \cup InHand) = {}
    BY <1>0, <2>2 DEF Apiece
  <2> HIDE DEF f, rest
  <2>4. /\ Shown' \cup InBacklogs' \subseteq Shown \cup InBacklogs \cup OutputsIn(<<f>>)
        /\ Shown \cup InBacklogs \cup OutputsIn(<<f>>) \cup lost \subseteq Shown' \cup InBacklogs' \cup lost'
        /\ Shown' \cap InBacklogs' = {}
        /\ ShownOnce' /\ \A r \in Sessions : Distinct(backlog'[r])
    BY <2>1, <2>3, Delivered
  <2>5. OutputsIn(flushed)' = OutputsIn(rest) /\ InHand' = InHand
    BY <1>h, <2>1
  <2>6. Apiece'
    BY <1>0, <2>1, <2>2, <2>3, <2>4, <2>5 DEF Apiece
  <2>7. Accounted'
    BY <1>0, <2>1, <2>2, <2>4, <2>5 DEF Accounted, Waiting
  <2> QED BY <2>6, <2>7
<1>11. CASE Replay
  <2> DEFINE v == [to |-> opens[cmd.sess], kind |-> "snapshot", n |-> answer.n]
  <2>1. /\ cmd.sess \in Sessions /\ view' = [view EXCEPT ![cmd.sess] = Append(@, v)]
        /\ UNCHANGED <<backlog, flushed, hand, got, lost>>
    BY <1>0, <1>11 DEF Replay, Commanding, routeVars, localVars, histVars
  <2>2. v \in [to : Nat, kind : Held, n : Nat]
    <3>1. answer.n \in Nat /\ opens[cmd.sess] \in Nat
      BY <1>0, <1>11 DEF Replay, Commanding, RequestTypes, Frames, TypeInv, RouteTypes
    <3> QED BY <3>1 DEF Held
  <2>3. v.kind # "output"
    OBVIOUS
  <2> HIDE DEF v
  <2>4. Shown' = Shown /\ ShownOnce'
    BY <1>0, <2>1, <2>2, <2>3, ShownAppended DEF Apiece
  <2> QED BY <1>0, <1>b, <1>f, <1>h, <2>1, <2>4 DEF Apiece, Accounted, Waiting
<1>12. CASE KilledAll
  <2>1. /\ backlog' = [s \in Sessions |-> <<>>]
        /\ lost' = lost \cup UNION {OutputsIn(backlog[s]) : s \in Sessions}
        /\ UNCHANGED <<view, flushed, hand, got>>
    BY <1>12 DEF KilledAll, viewVars
  <2>2. lost' = lost \cup InBacklogs
    BY <2>1 DEF InBacklogs
  <2>3. InBacklogs' = {} /\ \A r \in Sessions : Distinct(backlog'[r])
    <3>1. OutputsIn(<<>>) = {} /\ Distinct(<<>>)
      BY DEF OutputsIn, Range, Distinct
    <3> QED BY <2>1, <3>1 DEF InBacklogs
  <2> QED BY <1>0, <1>s, <1>f, <1>h, <2>1, <2>2, <2>3 DEF Apiece, Accounted, Waiting
<1>13. CASE MainDies \/ Unroute \/ ShareSweep \/ \E t \in Tabs : ShareStop(t)
  <2>1. Resting
    BY <1>13 DEF MainDies, Died, DiedRow, DiedShares, Unroute, ShareSweep, ShareStop, Return, viewVars,
       routeVars, histVars
  <2> QED BY <1>1, <2>1
<1> QED BY <1>2, <1>3, <1>4, <1>5, <1>6, <1>7, <1>8, <1>9, <1>10, <1>11, <1>12, <1>13, Steps
     DEF Reader, OpenStep, CloseStep

LEMMA DeliveryInit == Init => Delivery
<1> SUFFICES ASSUME Init PROVE Delivery
  OBVIOUS
<1>1. OutputsIn(<<>>) = {} /\ Distinct(<<>>)
  BY DEF OutputsIn, Range, Distinct
<1>2. \A s \in Sessions : view[s] = <<>> /\ backlog[s] = <<>> /\ PrintedAt(s) = {}
  BY DEF Init, PrintedAt
<1>3. wire = <<>> /\ flushed = <<>> /\ hand = Nothing /\ got = {}
  BY DEF Init
<1>4. Shown = {} /\ InBacklogs = {} /\ InHand = {} /\ ShownOnce
  BY <1>1, <1>2, <1>3 DEF Shown, InBacklogs, InHand, ShownOnce
<1> QED BY <1>1, <1>2, <1>3, <1>4 DEF Delivery, OnWire, Apiece, Accounted, Waiting

\* What helper frames carry is shown once and lost only with a backlog, however
\* deliver_helper_frame and install_helper_bridge take turns.
THEOREM DeliveredOnceCorrect == Spec => []DeliveredOnce
<1>1. TypeInv /\ Delivery /\ [Next]_vars => Delivery'
  BY OnWireStep, PlacesStep DEF Delivery
<1>2. Delivery => DeliveredOnce
  BY DEF Delivery, Apiece, Accounted, ShownOnce, Waiting, DeliveredOnce
<1> QED BY <1>1, <1>2, DeliveryInit, TypeAlways, PTL DEF Spec

-----------------------------------------------------------------------------
(* What is left of a session whose Exit was handled.                       *)

\* The Exit of s is in the callback, or the reader works on it or has done so.
Handed(s) == hand # Nothing /\ hand.frame.kind = "exit" /\ hand.frame.sess = s
Past(s) == s \in exited \/ (Handed(s) /\ pc["reader"] # "deliver")

\* No Exit has come while its session was being opened.
Clean == \A s \in Sessions : Past(s) => s \notin early

OpenStages == {"flush", "flushing", "replay", "register"}

\* Frames that let a command go on to install a bridge.
Opener(f) == f.kind \in {"spawn", "snapshot"}

\* An Exit is the last that is heard of a session, but for its output.
ExitEnds ==
  \A s \in Sessions :
    s \in exited \/ Handed(s) \/ (\E i \in 1 .. Len(wire) : wire[i].kind = "exit" /\ wire[i].sess = s)
      => run[s] = "ended"

ExitLast ==
  \A j \in 1 .. Len(wire) : Opener(wire[j]) =>
    /\ ~Handed(wire[j].sess)
    /\ \A i \in 1 .. Len(wire) : i < j /\ wire[i].kind = "exit" => wire[i].sess # wire[j].sess

\* What opens a session that is not open yet, and whose output comes here.
Openable(f) ==
  Opener(f) => /\ run[f.sess] # "none" /\ f.sess \in sink
               /\ f.kind = "spawn" => opens[f.sess] = 0

Openers ==
  /\ \A s \in Sessions : run[s] = "none" => opens[s] = 0
  /\ \A i \in 1 .. Len(wire) : Openable(wire[i])
  /\ pc["main"] = "wait" /\ answer # Nothing => Openable(answer)
  /\ pc["main"] \in OpenStages => cmd.sess \in sink

\* Whose Exit was handled is not opened again.
Gone ==
  \A s \in Sessions : Past(s) =>
    /\ \A i \in 1 .. Len(wire) : Opener(wire[i]) => wire[i].sess # s
    /\ pc["main"] = "wait" /\ answer # Nothing /\ Opener(answer) => answer.sess # s
    /\ pc["main"] \in OpenStages => cmd.sess # s

\* The Exit of s has come, or is under way before the j-th frame.
Heard(s, j) ==
  \/ s \in exited \/ Handed(s)
  \/ \E i \in 1 .. Len(wire) : i < j /\ wire[i].kind = "exit" /\ wire[i].sess = s

\* The error that answers a kill comes after the Exit of the session.
Killing ==
  cmd # Nothing /\ cmd.op = "kill" /\ cmd.sess \in sink =>
    /\ \A j \in 1 .. Len(wire) : wire[j].kind = "error" => Heard(cmd.sess, j)
    /\ answer # Nothing /\ answer.kind = "error" => cmd.sess \in exited

\* A session that ended while its output came here has sent its Exit.
Exiting == Killing /\ \A s \in sink : run[s] = "ended" => Heard(s, Len(wire) + 1)

\* Two sessions have no tab in common, and none has the tab that one is opened in.
TabsApart ==
  /\ \A s, x \in Sessions : ui[s] \in Tabs /\ ui[s] = ui[x] => s = x
  /\ cmd # Nothing /\ cmd.op \in {"create", "attach"} => \A s \in Sessions : ui[s] # cmd.tab

\* Only what was opened has a handle, and none in a tab while it is being opened.
Handles ==
  /\ \A s \in Sessions : opens[s] = 0 => ui[s] = "none"
  /\ cmd # Nothing /\ cmd.op \in {"detach", "kill"} => opens[cmd.sess] > 0
  /\ cmd # Nothing /\ cmd.op = "attach" => ui[cmd.sess] \notin Tabs
  /\ pc["main"] \in OpenStages => opens[cmd.sess] > 0 /\ ui[cmd.sess] \notin Tabs

\* A detach that was not refused.
Refused ==
  (answer # Nothing /\ answer.kind = "error") \/ \E i \in 1 .. Len(wire) : wire[i].kind = "error"
Leaving(s) == cmd # Nothing /\ cmd.op = "detach" /\ cmd.sess = s /\ ~Refused

\* The tab of a session is the one the webview has it in; its frames come here.
Rooms ==
  /\ \A s \in Sessions : tabOf[s] # Nothing => ui[s] = tabOf[s] /\ (s \in sink \/ Leaving(s))
  /\ \A t \in Tabs : source[t] # Nothing => tabOf[source[t][1]] = t

\* What tab_runtime_died is at on thread a, for session s.
DyingOf(a, s) ==
  /\ pc[a] = "died" =>
       /\ tabOf[s] \in {Nothing, dying[a].tab} /\ source[dying[a].tab] = Nothing
       /\ \A x \in Sessions : tabOf[x] = dying[a].tab => x = s
  /\ pc[a] \in {"died_row", "unroute", "forget"} => tabOf[s] = Nothing

Removing ==
  /\ pc["main"] \in {"died", "died_row", "unroute"} => DyingOf("main", cmd.sess)
  /\ pc["reader"] \in {"died", "died_row", "unroute", "forget"} => DyingOf("reader", hand.frame.sess)
  /\ pc["reader"] = "died" /\ cmd # Nothing /\ cmd.op \in {"create", "attach"}
       /\ (pc["main"] \in OpenStages \/ answer # Nothing) => cmd.tab # dying["reader"].tab

Removed ==
  /\ pc["reader"] = "forget" => bridges[hand.frame.sess] = 0
  /\ \A s \in exited : s \notin gens /\ bridges[s] = 0 /\ tabOf[s] = Nothing

RowsInv ==
  /\ ExitEnds /\ ExitLast /\ Openers /\ Exiting /\ TabsApart /\ Handles
  /\ Clean => Gone /\ Rooms /\ Removing /\ Removed

-----------------------------------------------------------------------------
(* What a step does to the sessions, the threads and the maps, and to no   *)
(* more than that.                                                         *)

WireStill == UNCHANGED <<run, sink, wire>>
MainStill ==
  UNCHANGED <<cmd, answer, ui, opens>> /\ pc'["main"] = pc["main"] /\ dying'["main"] = dying["main"]
ReaderStill ==
  /\ UNCHANGED <<hand, early, exited>>
  /\ pc'["reader"] = pc["reader"] /\ dying'["reader"] = dying["reader"]
GlueStill == UNCHANGED <<tabOf, source>>
RouteStill == UNCHANGED <<bridges, gens>>

Grown(f) ==
  /\ f \in Frames /\ Len(wire') = Len(wire) + 1
  /\ \A i \in 1 .. Len(wire) + 1 : wire'[i] = IF i = Len(wire) + 1 THEN f ELSE wire[i]
Shrunk ==
  /\ 1 \in 1 .. Len(wire) /\ Len(wire') = Len(wire) - 1
  /\ \A i \in 1 .. Len(wire) - 1 : wire'[i] = wire[i + 1]

Rests == WireStill /\ MainStill /\ ReaderStill /\ GlueStill /\ RouteStill

Prints ==
  /\ \E f : f.kind = "output" /\ Grown(f)
  /\ UNCHANGED <<run, sink>> /\ MainStill /\ ReaderStill /\ GlueStill /\ RouteStill

Exits(s) ==
  /\ run' = [run EXCEPT ![s] = "ended"] /\ run[s] \in {"live", "dying"} /\ UNCHANGED sink
  /\ \/ s \in sink /\ \E f : f.kind = "exit" /\ f.sess = s /\ Grown(f)
     \/ s \notin sink /\ UNCHANGED wire
  /\ MainStill /\ ReaderStill /\ GlueStill /\ RouteStill

TakesAnswer ==
  /\ Shrunk /\ Answers(wire[1]) /\ answer' = wire[1] /\ answer = Nothing
  /\ pc["main"] = "wait" /\ pc'["main"] = "wait" /\ pc["reader"] = "idle" /\ hand = Nothing
  /\ UNCHANGED <<run, sink, cmd, ui, opens>> /\ dying'["main"] = dying["main"]
  /\ ReaderStill /\ GlueStill /\ RouteStill

TakesEvent ==
  /\ Shrunk /\ Event(wire[1]) /\ hand = Nothing /\ hand' # Nothing /\ hand'.frame = wire[1]
  /\ pc["reader"] = "idle" /\ pc'["reader"] = "deliver"
  /\ UNCHANGED <<run, sink, early, exited>> /\ dying'["reader"] = dying["reader"]
  /\ MainStill /\ GlueStill /\ RouteStill

Hears ==
  /\ pc["reader"] = "deliver" /\ hand # Nothing /\ hand.frame.sess \in Sessions
  /\ early' = IF Opening(hand.frame.sess) THEN early \cup {hand.frame.sess} ELSE early
  /\ \/ hand.frame.kind = "exit" /\ hand' = hand /\ pc'["reader"] = "lookup"
     \/ hand.frame.kind # "exit" /\ hand' = Nothing /\ pc'["reader"] = "idle"
  /\ UNCHANGED exited /\ dying'["reader"] = dying["reader"]
  /\ WireStill /\ MainStill /\ GlueStill /\ RouteStill

\* tab_runtime_died on thread a for session s, in its three steps.
LooksUp(a, s) ==
  /\ \/ tabOf[s] = Nothing /\ pc'[a] = "unroute" /\ UNCHANGED source
     \/ /\ tabOf[s] \in Tabs /\ pc'[a] = "died" /\ dying'[a].tab = tabOf[s]
        /\ source' = [source EXCEPT ![tabOf[s]] = Nothing]
  /\ UNCHANGED tabOf

TakesRow(a) ==
  /\ pc[a] = "died" /\ dying[a].tab \in Tabs /\ UNCHANGED source
  /\ \/ /\ \A x \in Sessions : tabOf[x] # dying[a].tab
        /\ pc'[a] = "unroute" /\ UNCHANGED tabOf
     \/ \E x \in Sessions : /\ tabOf[x] = dying[a].tab /\ tabOf' = [tabOf EXCEPT ![x] = Nothing]
                            /\ pc'[a] = "died_row"

StopsShares(a) == pc[a] = "died_row" /\ pc'[a] = "unroute" /\ GlueStill

ReaderWorks ==
  /\ \/ pc["reader"] = "lookup" /\ LooksUp("reader", hand.frame.sess)
     \/ TakesRow("reader") \/ StopsShares("reader")
  /\ hand # Nothing /\ hand.frame.kind = "exit" /\ hand.frame.sess \in Sessions
  /\ UNCHANGED <<hand, early, exited>> /\ WireStill /\ MainStill /\ RouteStill

MainWorks ==
  /\ \/ pc["main"] = "wait" /\ answer # Nothing /\ answer.kind # "error" /\ LooksUp("main", cmd.sess)
     \/ TakesRow("main") \/ StopsShares("main")
  /\ cmd # Nothing /\ cmd.op \in {"detach", "kill"} /\ cmd.sess \in Sessions
  /\ UNCHANGED <<cmd, answer, ui, opens>> /\ WireStill /\ ReaderStill /\ RouteStill

ReaderDrops ==
  /\ pc["reader"] = "unroute" /\ pc'["reader"] = "forget" /\ dying'["reader"] = dying["reader"]
  /\ hand # Nothing /\ hand.frame.kind = "exit" /\ hand.frame.sess \in Sessions
  /\ bridges' = [bridges EXCEPT ![hand.frame.sess] = 0]
  /\ UNCHANGED <<gens, hand, early, exited>> /\ WireStill /\ MainStill /\ GlueStill

Forgets ==
  /\ pc["reader"] = "forget" /\ pc'["reader"] = "idle" /\ dying'["reader"] = dying["reader"]
  /\ hand # Nothing /\ hand.frame.kind = "exit" /\ hand.frame.sess \in Sessions
  /\ gens' = gens \ {hand.frame.sess} /\ exited' = exited \cup {hand.frame.sess} /\ hand' = Nothing
  /\ UNCHANGED <<bridges, early>> /\ WireStill /\ MainStill /\ GlueStill

Asks(f) ==
  /\ Grown(f) /\ ~Event(f) /\ pc["main"] = "idle" /\ pc'["main"] = "wait" /\ answer' = Nothing
  /\ cmd = Nothing /\ cmd' # Nothing /\ dying'["main"] = dying["main"] /\ UNCHANGED <<ui, opens>>
  /\ \A x \in Sessions : (run'[x] = "ended" => run[x] = "ended") /\ (run'[x] = "none" => run[x] = "none")
  /\ \A x \in Sessions : run[x] = "ended" => run'[x] = "ended"
  /\ \A x \in sink' : x \in sink \/ (Opener(f) /\ f.sess = x)
  /\ \A x \in sink : x \in sink' \/ (cmd'.op = "detach" /\ cmd'.sess = x /\ f.kind = "detach")
  /\ Opener(f) => /\ f.sess \in Sessions \cap sink' /\ run'[f.sess] = "live" /\ run[f.sess] # "ended"
                  /\ f.kind = "spawn" => run[f.sess] = "none"
  /\ f.kind = "error" /\ cmd'.op = "kill" => run[cmd'.sess] = "ended"
  /\ cmd'.op \in {"create", "attach"} => \A x \in Sessions : ui[x] # cmd'.tab
  /\ cmd'.op = "attach" => ui[cmd'.sess] = "background"
  /\ cmd'.op \in {"detach", "kill"} => cmd'.sess \in Sessions /\ ui[cmd'.sess] # "none"
  /\ ReaderStill /\ GlueStill /\ RouteStill

Fails ==
  /\ pc["main"] = "wait" /\ pc'["main"] = "idle" /\ answer # Nothing /\ answer.kind = "error"
  /\ cmd # Nothing /\ answer' = Nothing /\ cmd' = Nothing /\ dying'["main"] = dying["main"]
  /\ \/ UNCHANGED ui /\ cmd.op # "kill"
     \/ cmd.op = "kill" /\ cmd.sess \in Sessions /\ ui' = [ui EXCEPT ![cmd.sess] = "none"]
  /\ UNCHANGED opens /\ WireStill /\ ReaderStill /\ GlueStill /\ RouteStill

Installs ==
  /\ pc["main"] = "wait" /\ pc'["main"] = "flush" /\ dying'["main"] = dying["main"]
  /\ answer # Nothing /\ Opener(answer) /\ answer.sess \in Sessions /\ UNCHANGED <<answer, ui>>
  /\ cmd # Nothing /\ cmd' # Nothing /\ cmd.op \in {"create", "attach"}
  /\ cmd'.sess = answer.sess /\ cmd'.op = cmd.op /\ cmd'.tab = cmd.tab
  /\ gens' = gens \cup {answer.sess} /\ opens' = [opens EXCEPT ![answer.sess] = @ + 1]
  /\ \A x \in Sessions : x # answer.sess => bridges'[x] = bridges[x]
  /\ WireStill /\ ReaderStill /\ GlueStill

Goes ==
  /\ pc["main"] \in OpenStages /\ pc'["main"] \in {"flushing", "replay", "register"}
  /\ UNCHANGED <<cmd, answer, ui, opens>> /\ dying'["main"] = dying["main"]
  /\ WireStill /\ ReaderStill /\ GlueStill /\ RouteStill

Registers ==
  /\ pc["main"] = "register" /\ pc'["main"] = "idle" /\ dying'["main"] = dying["main"]
  /\ cmd # Nothing /\ cmd' = Nothing /\ answer' = Nothing
  /\ cmd.op \in {"create", "attach"} /\ cmd.sess \in Sessions /\ cmd.tab \in Tabs
  /\ tabOf' = [tabOf EXCEPT ![cmd.sess] = cmd.tab]
  /\ source' = [source EXCEPT ![cmd.tab] = <<cmd.sess, opens[cmd.sess]>>]
  /\ ui' = [ui EXCEPT ![cmd.sess] = cmd.tab]
  /\ UNCHANGED opens /\ WireStill /\ ReaderStill /\ RouteStill

MainDrops ==
  /\ pc["main"] = "unroute" /\ pc'["main"] = "idle" /\ dying'["main"] = dying["main"]
  /\ cmd # Nothing /\ cmd' = Nothing /\ answer' = Nothing
  /\ cmd.op \in {"detach", "kill"} /\ cmd.sess \in Sessions
  /\ ui' \in {[ui EXCEPT ![cmd.sess] = "none"], [ui EXCEPT ![cmd.sess] = "background"]}
  /\ bridges' = [bridges EXCEPT ![cmd.sess] = 0] /\ gens' \subseteq gens
  /\ UNCHANGED opens /\ WireStill /\ ReaderStill /\ GlueStill

DropsAll ==
  /\ pc["main"] = "wait" /\ pc'["main"] = "quit" /\ dying'["main"] = dying["main"]
  /\ cmd # Nothing /\ cmd' = Nothing /\ answer' = Nothing /\ cmd.op = "kill_all"
  /\ bridges' = [s \in Sessions |-> 0] /\ gens' = {}
  /\ UNCHANGED <<opens, ui>> /\ WireStill /\ ReaderStill /\ GlueStill

Sweeps ==
  /\ dying'["main"] = dying["main"] /\ UNCHANGED <<answer, opens, ui>> /\ answer = Nothing
  /\ \/ /\ pc["main"] = "idle" /\ pc'["main"] = "sweep"
        /\ cmd = Nothing /\ cmd' # Nothing /\ cmd'.op = "share_stop"
     \/ /\ pc["main"] = "sweep" /\ pc'["main"] = "idle"
        /\ cmd # Nothing /\ cmd.op = "share_stop" /\ cmd' = Nothing
  /\ WireStill /\ ReaderStill /\ GlueStill /\ RouteStill

LEMMA AtMain ==
  ASSUME TypeInv, NEW l, Goto("main", l)
  PROVE  pc'["main"] = l /\ pc'["reader"] = pc["reader"]
BY Going, Apart DEF TypeInv

LEMMA AtReader ==
  ASSUME TypeInv, NEW l, Goto("reader", l)
  PROVE  pc'["reader"] = l /\ pc'["main"] = pc["main"]
BY Going, Apart DEF TypeInv

LEMMA Growing ==
  ASSUME TypeInv, NEW f \in Frames, wire' = Append(wire, f)
  PROVE  Grown(f)
BY OutputsAppend DEF TypeInv, HelperTypes, Grown

LEMMA HelperEffect ==
  ASSUME TypeInv, HelperStep
  PROVE  Prints \/ \E s \in Sessions : Exits(s)
<1>0. HelperTypes
  BY DEF TypeInv
<1>1. ASSUME NEW s \in Sessions, HelperOutputs(s) PROVE Prints
  <2>1. OutputOf(s, out[s] + 1) \in Frames /\ OutputOf(s, out[s] + 1).kind = "output"
    BY <1>0 DEF OutputOf, Frame, Frames, HelperTypes
  <2>2. Grown(OutputOf(s, out[s] + 1))
    BY <1>1, <2>1, Growing DEF HelperOutputs, Sent
  <2>3. MainStill /\ ReaderStill /\ GlueStill /\ RouteStill /\ UNCHANGED <<run, sink>>
    BY <1>1 DEF HelperOutputs, MainStill, ReaderStill, GlueStill, RouteStill, clientVars, viewVars,
       routeVars, glueVars, histVars, localVars
  <2> QED BY <2>1, <2>2, <2>3 DEF Prints
<1>2. ASSUME NEW s \in Sessions, HelperExits(s) PROVE Exits(s)
  <2> DEFINE f == Frame("exit", s, 0)
  <2>1. f \in Frames /\ f.kind = "exit" /\ f.sess = s
    BY DEF Frame, Frames
  <2>2. \/ s \in sink /\ wire' = Append(wire, f)
        \/ s \notin sink /\ UNCHANGED wire
    BY <1>2 DEF HelperExits, Sent
  <2>3. MainStill /\ ReaderStill /\ GlueStill /\ RouteStill /\ UNCHANGED sink
    BY <1>2 DEF HelperExits, MainStill, ReaderStill, GlueStill, RouteStill, clientVars, viewVars,
       routeVars, glueVars, histVars, localVars
  <2>4. run' = [run EXCEPT ![s] = "ended"] /\ run[s] \in {"live", "dying"}
    BY <1>2 DEF HelperExits
  <2> HIDE DEF f
  <2>5. wire' = Append(wire, f) => Grown(f)
    BY <2>1, Growing
  <2> QED BY <2>1, <2>2, <2>3, <2>4, <2>5 DEF Exits
<1> QED BY <1>1, <1>2 DEF HelperStep

LEMMA TakeEffect ==
  ASSUME TypeInv, ReaderTakes
  PROVE  TakesAnswer \/ TakesEvent
<1>1. /\ pc["reader"] = "idle" /\ hand = Nothing
      /\ UNCHANGED <<run, sink, cmd, ui, opens, early, exited, dying>>
      /\ GlueStill /\ RouteStill
  BY DEF TypeInv, Handling, ReaderTakes, helperVars, viewVars, routeVars, glueVars, GlueStill, RouteStill
<1>2. wire # <<>> /\ wire \in Seq(Frames) /\ wire' = Tail(wire)
  BY TakenFrame
<1>3. Shrunk /\ Head(wire) = wire[1]
  BY <1>2, OutputsTail DEF Shrunk
<1>4. CASE /\ Answers(Head(wire)) /\ answer' = Head(wire) /\ pending' = Nothing
           /\ UNCHANGED <<hand, pc, got>>
  <2>1. answer = Nothing /\ pc["main"] = "wait"
    BY <1>4 DEF Answers, TypeInv, Answering
  <2> QED BY <1>1, <1>3, <1>4, <2>1 DEF TakesAnswer, ReaderStill
<1>5. CASE /\ Event(Head(wire)) /\ Head(wire).sess \in Sessions
           /\ hand' = [frame |-> Head(wire), to |-> bridges[Head(wire).sess]]
           /\ Goto("reader", "deliver") /\ UNCHANGED <<answer, pending>>
  <2>1. hand' # Nothing /\ hand'.frame = Head(wire)
    <3>1. Head(wire) \in Frames /\ bridges[Head(wire).sess] \in Nat
      BY <1>5, TakenFrame DEF TypeInv, RouteTypes
    <3> QED BY <1>5, <3>1, ActorsAssumption
  <2>2. pc'["reader"] = "deliver" /\ pc'["main"] = pc["main"]
    BY <1>5, AtReader
  <2> QED BY <1>1, <1>3, <1>5, <2>1, <2>2 DEF TakesEvent, MainStill
<1> QED BY <1>4, <1>5, TakenFrame

LEMMA LookupEffect ==
  ASSUME TypeInv, NEW a \in Threads, NEW s \in Sessions, Died(a, s, "unroute")
  PROVE  /\ LooksUp(a, s) /\ \A b \in Threads : b # a => pc'[b] = pc[b] /\ dying'[b] = dying[b]
         /\ UNCHANGED <<run, sink, wire, answer, cmd, ui, opens, bridges, gens, hand, early, exited>>
<1>0. /\ dying \in [Threads -> [tab : Tabs \cup {Nothing}, sess : Sessions \cup {Nothing}]]
      /\ Stages
  BY DEF TypeInv, GlueTypes
<1>1. /\ UNCHANGED <<run, sink, wire, answer, cmd, ui, opens, bridges, gens, tabOf, hand, early, exited>>
  BY DEF Died, helperVars, clientVars, viewVars, routeVars
<1>2. \A l : Goto(a, l) => pc'[a] = l /\ \A b \in Threads : b # a => pc'[b] = pc[b]
  BY <1>0, Going
<1>3. CASE tabOf[s] = Nothing /\ Goto(a, "unroute") /\ UNCHANGED <<dying, bound, source, raced>>
  BY <1>1, <1>2, <1>3 DEF LooksUp
<1>4. CASE /\ tabOf[s] \in Tabs /\ Goto(a, "died")
           /\ dying' = [dying EXCEPT ![a] = [tab |-> tabOf[s], sess |-> Nothing]]
           /\ source' = [source EXCEPT ![tabOf[s]] = Nothing]
  <2>1. dying'[a].tab = tabOf[s] /\ \A b \in Threads : b # a => dying'[b] = dying[b]
    BY <1>0, <1>4
  <2> QED BY <1>1, <1>2, <1>4, <2>1 DEF LooksUp
<1> QED BY <1>3, <1>4, DiedEffect

LEMMA RowEffect ==
  ASSUME TypeInv, NEW a \in Threads, pc[a] = "died", DiedRow(a, "unroute")
  PROVE  /\ TakesRow(a) /\ \A b \in Threads : b # a => pc'[b] = pc[b] /\ dying'[b] = dying[b]
         /\ UNCHANGED <<run, sink, wire, answer, cmd, ui, opens, bridges, gens, hand, early, exited>>
<1>0. /\ dying \in [Threads -> [tab : Tabs \cup {Nothing}, sess : Sessions \cup {Nothing}]]
      /\ Stages /\ dying[a].tab \in Tabs
  BY DEF TypeInv, GlueTypes, Handling
<1>1. /\ UNCHANGED <<run, sink, wire, answer, cmd, ui, opens, bridges, gens, source, hand, early, exited>>
  BY DEF DiedRow, helperVars, clientVars, viewVars, routeVars, histVars
<1>2. \A l : Goto(a, l) => pc'[a] = l /\ \A b \in Threads : b # a => pc'[b] = pc[b]
  BY <1>0, Going
<1>3. \A b \in Threads : b # a => dying'[b] = dying[b]
  <2>1. \A v : dying' = [dying EXCEPT ![a] = v] => \A b \in Threads : b # a => dying'[b] = dying[b]
    BY <1>0
  <2>2. \A s : dying' = [dying EXCEPT ![a].sess = s] => \A b \in Threads : b # a => dying'[b] = dying[b]
    BY <1>0
  <2>3. \/ dying' = [dying EXCEPT ![a] = [tab |-> Nothing, sess |-> Nothing]]
        \/ \E s : dying' = [dying EXCEPT ![a].sess = s]
    BY DEF DiedRow, Rest, Die
  <2> QED BY <2>1, <2>2, <2>3
<1>4. CASE \A x \in Sessions : tabOf[x] # dying[a].tab
  <2>1. Goto(a, "unroute") /\ UNCHANGED tabOf
    BY <1>4 DEF DiedRow
  <2> QED BY <1>0, <1>1, <1>2, <1>3, <1>4, <2>1 DEF TakesRow
<1>5. CASE ~\A x \in Sessions : tabOf[x] # dying[a].tab
  <2>1. PICK x \in Sessions : tabOf[x] = dying[a].tab /\ tabOf' = [tabOf EXCEPT ![x] = Nothing]
                              /\ Goto(a, "died_row")
    BY <1>5 DEF DiedRow
  <2> QED BY <1>0, <1>1, <1>2, <1>3, <2>1 DEF TakesRow
<1> QED BY <1>4, <1>5

LEMMA SharesEffect ==
  ASSUME TypeInv, NEW a \in Threads, pc[a] = "died_row", DiedShares(a, "unroute")
  PROVE  /\ StopsShares(a) /\ \A b \in Threads : b # a => pc'[b] = pc[b] /\ dying'[b] = dying[b]
         /\ UNCHANGED <<run, sink, wire, answer, cmd, ui, opens, bridges, gens, hand, early, exited>>
<1>0. /\ dying \in [Threads -> [tab : Tabs \cup {Nothing}, sess : Sessions \cup {Nothing}]] /\ Stages
  BY DEF TypeInv, GlueTypes
<1>1. /\ UNCHANGED <<run, sink, wire, answer, cmd, ui, opens, bridges, gens, tabOf, source, hand,
                     early, exited>>
      /\ Goto(a, "unroute") /\ dying' = [dying EXCEPT ![a] = [tab |-> Nothing, sess |-> Nothing]]
  BY DEF DiedShares, Rest, Die, helperVars, clientVars, viewVars, routeVars, histVars
<1>2. pc'[a] = "unroute" /\ \A b \in Threads : b # a => pc'[b] = pc[b]
  BY <1>0, <1>1, Going
<1>3. \A b \in Threads : b # a => dying'[b] = dying[b]
  BY <1>0, <1>1
<1> QED BY <1>1, <1>2, <1>3 DEF StopsShares, GlueStill

LEMMA ReaderEffect ==
  ASSUME TypeInv, Reader
  PROVE  TakesAnswer \/ TakesEvent \/ Hears \/ ReaderWorks \/ ReaderDrops \/ Forgets
<1>0. "main" \in Threads /\ "reader" \in Threads /\ "main" # "reader"
  BY Apart
<1>1. pc["reader"] # "idle" => hand # Nothing /\ hand.frame.sess \in Sessions
  BY HandedFrame
<1>2. pc["reader"] \in {"lookup", "died", "died_row", "unroute", "forget"} => hand.frame.kind = "exit"
  BY DEF TypeInv, Handling
<1>3. CASE ReaderDelivers
  <2>1. /\ WireStill /\ GlueStill /\ RouteStill /\ UNCHANGED <<cmd, answer, ui, opens, exited, dying>>
    BY <1>3 DEF ReaderDelivers, WireStill, GlueStill, RouteStill, helperVars, clientVars
  <2>2. \/ hand.frame.kind = "exit" /\ hand' = hand /\ Goto("reader", "lookup")
        \/ hand.frame.kind # "exit" /\ hand' = Nothing /\ Goto("reader", "idle")
    BY <1>3 DEF ReaderDelivers
  <2>3. pc["reader"] = "deliver"
        /\ early' = IF Opening(hand.frame.sess) THEN early \cup {hand.frame.sess} ELSE early
    BY <1>3 DEF ReaderDelivers
  <2>4. pc'["main"] = pc["main"]
        /\ \/ hand.frame.kind = "exit" /\ hand' = hand /\ pc'["reader"] = "lookup"
           \/ hand.frame.kind # "exit" /\ hand' = Nothing /\ pc'["reader"] = "idle"
    BY <2>2, AtReader
  <2> QED BY <1>1, <2>1, <2>3, <2>4 DEF Hears, MainStill
<1>4. CASE ReaderDies
  <2>1. CASE pc["reader"] = "lookup" /\ Died("reader", hand.frame.sess, "unroute")
    BY <1>0, <1>1, <1>2, <2>1, LookupEffect DEF ReaderWorks, WireStill, MainStill, RouteStill
  <2>2. CASE pc["reader"] = "died" /\ DiedRow("reader", "unroute")
    BY <1>0, <1>1, <1>2, <2>2, RowEffect DEF ReaderWorks, WireStill, MainStill, RouteStill
  <2>3. CASE pc["reader"] = "died_row" /\ DiedShares("reader", "unroute")
    BY <1>0, <1>1, <1>2, <2>3, SharesEffect DEF ReaderWorks, WireStill, MainStill, RouteStill
  <2> QED BY <1>4, <2>1, <2>2, <2>3 DEF ReaderDies
<1>5. CASE ReaderUnroutes
  <2>1. pc["reader"] = "unroute" /\ Goto("reader", "forget")
        /\ bridges' = [bridges EXCEPT ![hand.frame.sess] = 0]
        /\ UNCHANGED <<gens, hand, early, exited, cmd, answer, ui, opens, dying>> /\ WireStill /\ GlueStill
    BY <1>5 DEF ReaderUnroutes, WireStill, GlueStill, helperVars, clientVars, viewVars, glueVars,
       histVars, localVars
  <2> QED BY <1>1, <1>2, <2>1, AtReader DEF ReaderDrops, MainStill
<1>6. CASE ReaderForgets
  <2>1. pc["reader"] = "forget" /\ Goto("reader", "idle")
        /\ gens' = gens \ {hand.frame.sess} /\ exited' = exited \cup {hand.frame.sess} /\ hand' = Nothing
        /\ UNCHANGED <<bridges, early, cmd, answer, ui, opens, dying>> /\ WireStill /\ GlueStill
    BY <1>6 DEF ReaderForgets, WireStill, GlueStill, helperVars, clientVars, viewVars, glueVars
  <2> QED BY <1>1, <1>2, <2>1, AtReader DEF Forgets, MainStill
<1> QED BY <1>3, <1>4, <1>5, <1>6, TakeEffect DEF Reader

\* What the Supervisor does when it serves a request, but for its output.
Serves(kind, s, f) ==
  /\ \A x \in Sessions : (run'[x] = "ended" <=> run[x] = "ended") /\ (run'[x] = "none" => run[x] = "none")
  /\ \A x \in sink' : x \in sink \/ (Opener(f) /\ f.sess = x)
  /\ \A x \in sink : x \in sink' \/ (kind = "detach" /\ s = x /\ f.kind = "detach")
  /\ Opener(f) => /\ f.sess \in Sessions \cap sink' /\ run'[f.sess] = "live" /\ run[f.sess] # "ended"
                  /\ f.kind = "spawn" => run[f.sess] = "none"
  /\ f.kind = "error" /\ kind = "terminate" => run[s] = "ended"

LEMMA ServedEffect ==
  ASSUME TypeInv, NEW kind, NEW s, kind \in {"spawn", "kill_all"} \/ s \in Sessions, Served(kind, s)
  PROVE  \E f : wire' = Append(wire, f) /\ Serves(kind, s, f)
<1>0. run \in [Sessions -> {"none", "live", "dying", "ended"}] /\ sink \subseteq Sessions
  BY DEF TypeInv, HelperTypes
<1>1. \A k, x, n : Frame(k, x, n).kind = k /\ Frame(k, x, n).sess = x
  BY DEF Frame
<1>2. ASSUME NEW new \in Sessions, run[new] = "none", run' = [run EXCEPT ![new] = "live"],
             sink' = sink \cup {new}, Sent(Frame("spawn", new, 0)), kind = "spawn"
      PROVE  \E f : wire' = Append(wire, f) /\ Serves(kind, s, f)
  <2> DEFINE f == Frame("spawn", new, 0)
  <2>1. wire' = Append(wire, f) /\ f.kind = "spawn" /\ f.sess = new
    BY <1>1, <1>2 DEF Sent
  <2> HIDE DEF f
  <2>2. Serves(kind, s, f)
    BY <1>0, <1>2, <2>1 DEF Serves, Opener
  <2> QED BY <2>1, <2>2
<1>3. CASE /\ kind = "attach" /\ run[s] = "live" /\ Sent(Frame("snapshot", s, out[s]))
           /\ sink' = sink \cup {s} /\ UNCHANGED run
  <2> DEFINE f == Frame("snapshot", s, out[s])
  <2>1. wire' = Append(wire, f) /\ f.kind = "snapshot" /\ f.sess = s
    BY <1>1, <1>3 DEF Sent
  <2> HIDE DEF f
  <2>2. Serves(kind, s, f)
    BY <1>0, <1>3, <2>1 DEF Serves, Opener
  <2> QED BY <2>1, <2>2
<1>4. CASE /\ kind = "detach" /\ run[s] = "live" /\ Sent(Frame(kind, s, 0))
           /\ sink' = sink \ {s} /\ UNCHANGED run
  <2> DEFINE f == Frame(kind, s, 0)
  <2>1. wire' = Append(wire, f) /\ f.kind = "detach" /\ f.sess = s
    BY <1>1, <1>4 DEF Sent
  <2> HIDE DEF f
  <2>2. Serves(kind, s, f)
    BY <1>0, <1>4, <2>1 DEF Serves, Opener
  <2> QED BY <2>1, <2>2
<1>5. CASE /\ kind = "terminate" /\ run[s] # "ended" /\ Sent(Frame(kind, s, 0))
           /\ run' = [run EXCEPT ![s] = "dying"] /\ UNCHANGED sink
  <2> DEFINE f == Frame(kind, s, 0)
  <2>1. wire' = Append(wire, f) /\ f.kind = "terminate"
    BY <1>1, <1>5 DEF Sent
  <2> HIDE DEF f
  <2>2. Serves(kind, s, f)
    BY <1>0, <1>5, <2>1 DEF Serves, Opener
  <2> QED BY <2>1, <2>2
<1>6. CASE /\ kind = "kill_all" /\ Sent(Frame(kind, s, 0)) /\ UNCHANGED sink
           /\ run' = [x \in Sessions |-> IF run[x] = "live" THEN "dying" ELSE run[x]]
  <2> DEFINE f == Frame(kind, s, 0)
  <2>1. wire' = Append(wire, f) /\ f.kind = "kill_all"
    BY <1>1, <1>6 DEF Sent
  <2> HIDE DEF f
  <2>2. Serves(kind, s, f)
    BY <1>0, <1>6, <2>1 DEF Serves, Opener
  <2> QED BY <2>1, <2>2
<1>7. CASE /\ \/ kind \in {"attach", "detach"} /\ run[s] # "live"
              \/ kind = "terminate" /\ run[s] = "ended"
           /\ Sent(Frame("error", s, 0)) /\ UNCHANGED <<run, sink>>
  <2> DEFINE f == Frame("error", s, 0)
  <2>1. wire' = Append(wire, f) /\ f.kind = "error"
    BY <1>1, <1>7 DEF Sent
  <2> HIDE DEF f
  <2>2. Serves(kind, s, f)
    BY <1>0, <1>7, <2>1 DEF Serves, Opener
  <2> QED BY <2>1, <2>2
<1> QED BY <1>2, <1>3, <1>4, <1>5, <1>6, <1>7 DEF Served

LEMMA AskEffect ==
  ASSUME TypeInv, CallStep
  PROVE  \E f : Asks(f)
<1>1. PICK op, s, t, kind, f : Called(op, s, t, kind, f)
  BY CallEffect
<1>2. f \in Frames /\ wire' = Append(wire, f) /\ Grown(f) /\ ~Event(f)
  <2>1. f.kind \notin {"output", "exit"}
    BY <1>1 DEF Called, Expects
  <2> QED BY <1>1, <2>1, Growing DEF Called, Event
<1>3. pc["main"] = "idle" /\ pc'["main"] = "wait" /\ pc'["reader"] = pc["reader"]
  BY <1>1, AtMain DEF Called
<1>4. cmd = Nothing /\ cmd' # Nothing /\ cmd' = [op |-> op, sess |-> s, tab |-> t]
  <2>1. cmd' \in Commands
    BY <1>1 DEF Called, Expects, Commands
  <2> QED BY <1>1, <1>3, <2>1, ActorsAssumption DEF Called, TypeInv, Commanding
<1>5. /\ answer' = Nothing /\ UNCHANGED <<ui, opens, dying>>
      /\ ReaderStill /\ GlueStill /\ RouteStill
  BY <1>1, <1>3 DEF Called, viewVars, routeVars, glueVars, histVars, ReaderStill, GlueStill, RouteStill
<1>6. ASSUME NEW g, wire' = Append(wire, g) PROVE g = f
  <2>1. wire \in Seq(Frames)
    BY DEF TypeInv, HelperTypes
  <2>2. wire \in Seq(Frames \cup {g}) /\ g \in Frames \cup {g}
    BY <2>1
  <2>3. Append(wire, g)[Len(wire) + 1] = g /\ Append(wire, f)[Len(wire) + 1] = f
    BY <1>2, <2>1, <2>2, AppendProperties
  <2> QED BY <1>2, <1>6, <2>3
<1>7. \E asked : /\ Serves(asked, s, f)
                 /\ asked = "detach" <=> op = "detach"
                 /\ asked = "terminate" <=> op = "kill"
                 /\ op \in {"create", "attach"} => \A x \in Sessions : ui[x] # t
                 /\ op = "attach" => ui[s] = "background"
                 /\ op \in {"detach", "kill"} => s \in Sessions /\ ui[s] # "none"
  <2>1. \A a, b, c, d, e : Call(a, b, c, d, e) => a = op /\ b = s /\ c = t /\ Served(d, b)
    BY <1>4 DEF Call
  <2>2. \A d \in {"spawn", "attach", "detach", "terminate", "kill_all"} :
          Served(d, s) /\ (d \in {"spawn", "kill_all"} \/ s \in Sessions) => Serves(d, s, f)
    BY <1>6, ServedEffect
  <2>3. CASE KillAll
    BY <2>1, <2>2, <2>3 DEF KillAll
  <2>4. ASSUME NEW u \in Tabs, Create(u) PROVE <1>7!:
    BY <2>1, <2>2, <2>4 DEF Create, Free
  <2>5. ASSUME NEW x \in Sessions, NEW u \in Tabs, Attach(x, u) PROVE <1>7!:
    BY <2>1, <2>2, <2>5 DEF Attach, Free
  <2>6. ASSUME NEW x \in Sessions, Detach(x) PROVE <1>7!:
    BY <2>1, <2>2, <2>6, ActorsAssumption DEF Detach, Open
  <2>7. ASSUME NEW x \in Sessions, Kill(x) PROVE <1>7!:
    BY <2>1, <2>2, <2>7 DEF Kill
  <2> QED BY <2>3, <2>4, <2>5, <2>6, <2>7 DEF CallStep
<1>8. cmd'.op = op /\ cmd'.sess = s /\ cmd'.tab = t
  BY <1>4
<1>9. Asks(f)
  BY <1>2, <1>3, <1>4, <1>5, <1>7, <1>8 DEF Asks, Serves
<1> QED BY <1>9

LEMMA OpenEffect ==
  ASSUME TypeInv, OpenStep
  PROVE  Fails \/ Installs \/ Goes \/ Registers
<1>0. /\ pc["main"] \notin {"idle", "quit"} => cmd # Nothing /\ cmd \in Commands
      /\ opens \in [Sessions -> Nat] /\ bridges \in [Sessions -> Nat]
  BY DEF TypeInv, Commanding, RequestTypes, RouteTypes
<1>1. CASE Failed
  <2>1. /\ UNCHANGED <<opens, dying>> /\ answer' = Nothing /\ cmd' = Nothing
        /\ WireStill /\ GlueStill /\ RouteStill /\ UNCHANGED <<hand, early, exited>>
    BY <1>1 DEF Failed, helperVars, routeVars, glueVars, histVars, WireStill, GlueStill, RouteStill
  <2>2. pc["main"] = "wait" /\ pc'["main"] = "idle" /\ pc'["reader"] = pc["reader"]
        /\ answer # Nothing /\ answer.kind = "error"
    BY <1>1, AtMain DEF Failed
  <2>3. cmd.op = "kill" => cmd.sess \in Sessions
    BY <1>0, <2>2 DEF TypeInv, Commanding, Commands
  <2>4. \/ UNCHANGED ui /\ cmd.op # "kill"
        \/ cmd.op = "kill" /\ ui' = [ui EXCEPT ![cmd.sess] = "none"]
    BY <1>1 DEF Failed
  <2> QED BY <1>0, <2>1, <2>2, <2>3, <2>4 DEF Fails, ReaderStill
<1>2. CASE Install
  <2>1. pc["main"] = "wait" /\ answer # Nothing /\ answer.kind # "error" /\ cmd.op \in {"create", "attach"}
    BY <1>2 DEF Install, Succeeded
  <2>2. Opener(answer) /\ answer.sess \in Sessions
    BY <2>1 DEF TypeInv, Answering, Expects, Opener
  <2>3. cmd' = [cmd EXCEPT !.sess = answer.sess] /\ gens' = gens \cup {answer.sess}
        /\ opens' = [opens EXCEPT ![answer.sess] = @ + 1]
        /\ bridges' = [bridges EXCEPT ![answer.sess] = opens'[answer.sess]]
    BY <1>2 DEF Install
  <2>4. cmd' # Nothing /\ cmd'.sess = answer.sess /\ cmd'.op = cmd.op /\ cmd'.tab = cmd.tab
    <3>1. cmd' \in Commands
      BY <1>0, <2>1, <2>2, <2>3 DEF Commands
    <3> QED BY <1>0, <2>1, <2>3, <3>1, ActorsAssumption DEF Commands
  <2>5. \A x \in Sessions : x # answer.sess => bridges'[x] = bridges[x]
    BY <1>0, <2>3
  <2>6. /\ UNCHANGED <<answer, ui, dying>> /\ WireStill /\ GlueStill
        /\ UNCHANGED <<hand, early, exited>>
    BY <1>2 DEF Install, helperVars, clientVars, glueVars, histVars, WireStill, GlueStill
  <2>7. pc'["main"] = "flush" /\ pc'["reader"] = pc["reader"]
    BY <1>2, AtMain DEF Install
  <2> QED BY <1>0, <2>1, <2>2, <2>3, <2>4, <2>5, <2>6, <2>7 DEF Installs, ReaderStill
<1>3. \A rest : AfterFlush(rest) \in {"flushing", "replay", "register"}
  BY DEF AfterFlush
<1>4. CASE FlushTakes
  <2>1. /\ UNCHANGED <<cmd, answer, ui, opens, dying>> /\ WireStill /\ GlueStill /\ RouteStill
        /\ UNCHANGED <<hand, early, exited>>
    BY <1>4 DEF FlushTakes, helperVars, clientVars, viewVars, glueVars, histVars, WireStill, GlueStill,
       RouteStill
  <2>2. pc["main"] = "flush" /\ pc'["main"] \in {"flushing", "replay", "register"}
        /\ pc'["reader"] = pc["reader"]
    BY <1>3, <1>4, AtMain DEF FlushTakes
  <2> QED BY <2>1, <2>2 DEF Goes, ReaderStill, OpenStages
<1>5. CASE FlushDelivers
  <2>1. /\ UNCHANGED <<cmd, answer, ui, opens, dying>> /\ WireStill /\ GlueStill /\ RouteStill
        /\ UNCHANGED <<hand, early, exited>>
    BY <1>5 DEF FlushDelivers, helperVars, clientVars, WireStill, GlueStill, RouteStill
  <2>2. pc["main"] = "flushing" /\ pc'["main"] \in {"flushing", "replay", "register"}
        /\ pc'["reader"] = pc["reader"]
    BY <1>3, <1>5, AtMain DEF FlushDelivers
  <2> QED BY <2>1, <2>2 DEF Goes, ReaderStill, OpenStages
<1>6. CASE Replay
  <2>1. /\ UNCHANGED <<cmd, answer, ui, opens, dying>> /\ WireStill /\ GlueStill /\ RouteStill
        /\ UNCHANGED <<hand, early, exited>>
    BY <1>6 DEF Replay, helperVars, clientVars, routeVars, glueVars, histVars, localVars, WireStill,
       GlueStill, RouteStill
  <2>2. pc["main"] = "replay" /\ pc'["main"] = "register" /\ pc'["reader"] = pc["reader"]
    BY <1>6, AtMain DEF Replay
  <2> QED BY <2>1, <2>2 DEF Goes, ReaderStill, OpenStages
<1>7. CASE Register
  <2>1. /\ UNCHANGED <<opens, dying>> /\ WireStill /\ RouteStill /\ UNCHANGED <<hand, early, exited>>
        /\ cmd' = Nothing /\ answer' = Nothing
        /\ tabOf' = [tabOf EXCEPT ![cmd.sess] = cmd.tab]
        /\ source' = [source EXCEPT ![cmd.tab] = <<cmd.sess, opens[cmd.sess]>>]
        /\ ui' = [ui EXCEPT ![cmd.sess] = cmd.tab]
    BY <1>7 DEF Register, Return, helperVars, routeVars, histVars, WireStill, RouteStill
  <2>2. pc["main"] = "register" /\ pc'["main"] = "idle" /\ pc'["reader"] = pc["reader"]
    BY <1>7, AtMain DEF Register, Return
  <2>3. cmd.op \in {"create", "attach"} /\ cmd.sess \in Sessions /\ cmd.tab \in Tabs
    BY <2>2 DEF TypeInv, Commanding
  <2> QED BY <1>0, <2>1, <2>2, <2>3 DEF Registers, ReaderStill
<1> QED BY <1>1, <1>2, <1>4, <1>5, <1>6, <1>7 DEF OpenStep

LEMMA CloseEffect ==
  ASSUME TypeInv, CloseStep
  PROVE  MainWorks \/ MainDrops \/ DropsAll \/ Sweeps
<1>0. /\ "main" \in Threads /\ "reader" \in Threads /\ "main" # "reader"
      /\ pc["main"] \notin {"idle", "quit"} => cmd # Nothing /\ cmd \in Commands
  BY Apart DEF TypeInv, Commanding, RequestTypes
<1>1. CASE MainDies
  <2>1. CASE (Succeeded("detach") \/ Succeeded("kill")) /\ Died("main", cmd.sess, "unroute")
    <3>1. pc["main"] = "wait" /\ answer # Nothing /\ answer.kind # "error" /\ cmd.op \in {"detach", "kill"}
      BY <2>1 DEF Succeeded
    <3>2. cmd # Nothing /\ cmd.sess \in Sessions
      BY <1>0, <3>1 DEF TypeInv, Commanding, Commands
    <3> QED BY <1>0, <2>1, <3>1, <3>2, LookupEffect DEF MainWorks, WireStill, ReaderStill, RouteStill
  <2>2. pc["main"] \in {"died", "died_row"} => cmd # Nothing /\ cmd.op \in {"detach", "kill"}
                                                /\ cmd.sess \in Sessions
    BY <1>0 DEF TypeInv, Commanding
  <2>3. CASE pc["main"] = "died" /\ DiedRow("main", "unroute")
    BY <1>0, <2>2, <2>3, RowEffect DEF MainWorks, WireStill, ReaderStill, RouteStill
  <2>4. CASE pc["main"] = "died_row" /\ DiedShares("main", "unroute")
    BY <1>0, <2>2, <2>4, SharesEffect DEF MainWorks, WireStill, ReaderStill, RouteStill
  <2> QED BY <1>1, <2>1, <2>3, <2>4 DEF MainDies
<1>2. CASE Unroute
  <2>1. /\ UNCHANGED <<opens, dying>> /\ WireStill /\ GlueStill /\ UNCHANGED <<hand, early, exited>>
        /\ cmd' = Nothing /\ answer' = Nothing /\ bridges' = [bridges EXCEPT ![cmd.sess] = 0]
        /\ gens' \subseteq gens
        /\ ui' \in {[ui EXCEPT ![cmd.sess] = "none"], [ui EXCEPT ![cmd.sess] = "background"]}
    BY <1>2 DEF Unroute, Return, helperVars, glueVars, histVars, WireStill, GlueStill
  <2>2. pc["main"] = "unroute" /\ pc'["main"] = "idle" /\ pc'["reader"] = pc["reader"]
    BY <1>2, AtMain DEF Unroute, Return
  <2>3. cmd.op \in {"detach", "kill"} /\ cmd.sess \in Sessions
    BY <2>2 DEF TypeInv, Commanding
  <2> QED BY <1>0, <2>1, <2>2, <2>3 DEF MainDrops, ReaderStill
<1>3. CASE KilledAll
  <2>1. /\ UNCHANGED <<opens, ui, dying>> /\ WireStill /\ GlueStill /\ UNCHANGED <<hand, early, exited>>
        /\ cmd' = Nothing /\ answer' = Nothing /\ bridges' = [s \in Sessions |-> 0] /\ gens' = {}
    BY <1>3 DEF KilledAll, viewVars, helperVars, glueVars, WireStill, GlueStill
  <2>2. pc["main"] = "wait" /\ pc'["main"] = "quit" /\ pc'["reader"] = pc["reader"] /\ cmd.op = "kill_all"
    BY <1>3, AtMain DEF KilledAll, Succeeded
  <2> QED BY <1>0, <2>1, <2>2 DEF DropsAll, ReaderStill
<1>4. ASSUME NEW t \in Tabs, ShareStop(t) PROVE Sweeps
  <2>1. /\ UNCHANGED <<answer, opens, ui, dying>> /\ WireStill /\ GlueStill /\ RouteStill
        /\ UNCHANGED <<hand, early, exited>>
        /\ cmd' = [op |-> "share_stop", sess |-> Nothing, tab |-> t]
    BY <1>4 DEF ShareStop, helperVars, clientVars, viewVars, routeVars, histVars, WireStill, GlueStill,
       RouteStill
  <2>2. pc["main"] = "idle" /\ pc'["main"] = "sweep" /\ pc'["reader"] = pc["reader"]
    BY <1>4, AtMain DEF ShareStop
  <2>3. cmd = Nothing /\ answer = Nothing /\ cmd' # Nothing /\ cmd'.op = "share_stop"
    <3>1. cmd' \in Commands
      BY <2>1 DEF Commands
    <3> QED BY <2>1, <2>2, <3>1, ActorsAssumption DEF TypeInv, Commanding, Answering
  <2> QED BY <2>1, <2>2, <2>3 DEF Sweeps, ReaderStill
<1>5. CASE ShareSweep
  <2>1. /\ UNCHANGED <<answer, opens, ui, dying>> /\ WireStill /\ GlueStill /\ RouteStill
        /\ UNCHANGED <<hand, early, exited>> /\ cmd' = Nothing
    BY <1>5 DEF ShareSweep, helperVars, clientVars, viewVars, routeVars, histVars, WireStill, GlueStill,
       RouteStill
  <2>2. pc["main"] = "sweep" /\ pc'["main"] = "idle" /\ pc'["reader"] = pc["reader"]
    BY <1>5, AtMain DEF ShareSweep
  <2>3. cmd # Nothing /\ cmd.op = "share_stop" /\ answer = Nothing
    BY <1>0, <2>2 DEF TypeInv, Commanding, Answering
  <2> QED BY <2>1, <2>2, <2>3 DEF Sweeps, ReaderStill
<1> QED BY <1>1, <1>2, <1>3, <1>4, <1>5 DEF CloseStep

LEMMA RestEffect ==
  ASSUME TypeInv, ShareStep \/ UNCHANGED vars
  PROVE  Rests
<1>1. CASE UNCHANGED vars
  BY <1>1 DEF vars, helperVars, clientVars, viewVars, routeVars, glueVars, histVars, localVars,
     Rests, WireStill, MainStill, ReaderStill, GlueStill, RouteStill
<1>2. CASE ShareStep
  <2>1. UNCHANGED startFrame /\ \E p \in Sharers : \E l : Goto(p, l)
    BY <1>2 DEF ShareStep, Sharer, StartReserve, StartBind, StartCheck, StartInsert, StartEnds
  <2>2. pc'["main"] = pc["main"] /\ pc'["reader"] = pc["reader"]
    BY <2>1, Going, Apart DEF TypeInv
  <2> QED BY <2>1, <2>2 DEF startFrame, helperVars, clientVars, viewVars, routeVars, histVars, localVars,
        Rests, WireStill, MainStill, ReaderStill, GlueStill, RouteStill
<1> QED BY <1>1, <1>2

\* A step of the system is one of these.
LEMMA Effects ==
  ASSUME TypeInv, [Next]_vars
  PROVE  \/ Rests \/ Prints \/ \E s \in Sessions : Exits(s)
         \/ TakesAnswer \/ TakesEvent \/ Hears \/ ReaderWorks \/ ReaderDrops \/ Forgets
         \/ \E f : Asks(f)
         \/ Fails \/ Installs \/ Goes \/ Registers
         \/ MainWorks \/ MainDrops \/ DropsAll \/ Sweeps
BY Steps, HelperEffect, ReaderEffect, AskEffect, OpenEffect, CloseEffect, RestEffect

-----------------------------------------------------------------------------
(* The invariant is kept.                                                  *)

\* Nothing but events is under way while no request waits for its answer, and
\* one answer is while one does.
LEMMA EventsOnly ==
  ASSUME TypeInv
  PROVE  /\ pc["main"] # "wait" \/ answer # Nothing => \A i \in 1 .. Len(wire) : Event(wire[i])
         /\ \A i, j \in 1 .. Len(wire) : ~Event(wire[i]) /\ j # i => Event(wire[j])
         /\ \A i \in 1 .. Len(wire) : Answers(wire[i]) => wire[i].kind \notin {"output", "exit"}
<1>1. pending \in Requests \cup {Nothing} /\ Answering /\ Answered
  BY DEF TypeInv, RequestTypes
<1>2. \A f : Answers(f) => pending # Nothing /\ f.kind \notin {"output", "exit"}
  BY <1>1 DEF Answers, Requests, Replies
<1>3. pc["main"] # "wait" \/ answer # Nothing => pending = Nothing
  BY <1>1 DEF Answering
<1> QED BY <1>1, <1>2, <1>3 DEF Answered

LEMMA LengthOfWire == TypeInv => Len(wire) \in Nat /\ hand \in [frame : Frames, to : Nat] \cup {Nothing}
BY DEF TypeInv, HelperTypes, FrameTypes

\* The reader does not take an Exit back.
LEMMA PastStays ==
  ASSUME TypeInv, [Next]_vars
  PROVE  /\ early \subseteq early' /\ exited \subseteq exited'
         /\ \A s \in Sessions : Past(s) => Past(s)'
         /\ \A s \in Sessions : Past(s)' => Past(s) \/ (Hears /\ Handed(s))
<1>0. pc["reader"] \in {"idle", "deliver"} => \A s : Past(s) <=> s \in exited
  BY DEF TypeInv, Handling, Past, Handed
<1>1. CASE ReaderStill
  BY <1>1 DEF ReaderStill, Past, Handed
<1>2. CASE TakesEvent
  BY <1>0, <1>2 DEF TakesEvent, Past, Handed
<1>3. CASE Hears
  BY <1>0, <1>3 DEF Hears, Past, Handed
<1>4. CASE ReaderWorks
  BY <1>4 DEF ReaderWorks, LooksUp, TakesRow, StopsShares, Past, Handed
<1>5. CASE ReaderDrops
  BY <1>5 DEF ReaderDrops, Past, Handed
<1>6. CASE Forgets
  BY <1>6 DEF Forgets, Past, Handed
<1> QED BY <1>1, <1>2, <1>3, <1>4, <1>5, <1>6, Effects DEF Rests, Prints, Exits, TakesAnswer, Asks,
      Fails, Installs, Goes, Registers, MainWorks, MainDrops, DropsAll, Sweeps

LEMMA CleanBefore == TypeInv /\ [Next]_vars /\ Clean' => Clean
BY PastStays DEF Clean

LEMMA ExitEndsStep == TypeInv /\ RowsInv /\ [Next]_vars => ExitEnds'
<1> SUFFICES ASSUME TypeInv, RowsInv, [Next]_vars PROVE ExitEnds'
  OBVIOUS
<1>0. ExitEnds /\ Len(wire) \in Nat /\ run \in [Sessions -> {"none", "live", "dying", "ended"}]
  BY LengthOfWire DEF RowsInv, TypeInv, HelperTypes
<1>1. CASE WireStill /\ UNCHANGED exited /\ hand' \in {hand, Nothing}
  BY <1>0, <1>1 DEF WireStill, ExitEnds, Handed
<1>2. CASE Prints
  BY <1>0, <1>2 DEF Prints, Grown, ReaderStill, ExitEnds, Handed
<1>3. ASSUME NEW s \in Sessions, Exits(s) PROVE ExitEnds'
  <2>1. \A x \in Sessions : run'[x] = IF x = s THEN "ended" ELSE run[x]
    BY <1>0, <1>3 DEF Exits
  <2> QED BY <1>0, <1>3, <2>1 DEF Exits, Grown, ReaderStill, ExitEnds, Handed
<1>4. CASE TakesAnswer
  BY <1>0, <1>4 DEF TakesAnswer, Shrunk, ReaderStill, ExitEnds, Handed
<1>5. CASE TakesEvent
  BY <1>0, <1>5 DEF TakesEvent, Shrunk, ExitEnds, Handed
<1>6. CASE Forgets
  BY <1>0, <1>6 DEF Forgets, WireStill, ExitEnds, Handed
<1>7. ASSUME NEW f, Asks(f) PROVE ExitEnds'
  <2>1. \A s \in Sessions : run[s] = "ended" => run'[s] = "ended"
    BY <1>7 DEF Asks
  <2>2. f.kind = "exit" => f.sess \notin Sessions
    BY <1>7 DEF Asks, Event
  <2> QED BY <1>0, <1>7, <2>1, <2>2 DEF Asks, Grown, ReaderStill, ExitEnds, Handed
<1> QED BY <1>1, <1>2, <1>3, <1>4, <1>5, <1>6, <1>7, Effects DEF Rests, Hears, ReaderWorks, ReaderDrops,
      Fails, Installs, Goes, Registers, MainWorks, MainDrops, DropsAll, Sweeps, ReaderStill

LEMMA ExitLastStep == TypeInv /\ RowsInv /\ [Next]_vars => ExitLast'
<1> SUFFICES ASSUME TypeInv, RowsInv, [Next]_vars PROVE ExitLast'
  OBVIOUS
<1>0. ExitEnds /\ ExitLast /\ Len(wire) \in Nat
  BY LengthOfWire DEF RowsInv
<1>1. CASE WireStill /\ hand' \in {hand, Nothing}
  BY <1>0, <1>1 DEF WireStill, ExitLast, Handed
<1>2. CASE Prints
  BY <1>0, <1>2 DEF Prints, Grown, ReaderStill, ExitLast, Handed, Opener
<1>3. ASSUME NEW s \in Sessions, Exits(s) PROVE ExitLast'
  BY <1>0, <1>3 DEF Exits, Grown, ReaderStill, ExitLast, Handed, Opener
<1>4. CASE TakesAnswer
  BY <1>0, <1>4 DEF TakesAnswer, Shrunk, ReaderStill, ExitLast, Handed
<1>5. CASE TakesEvent
  <2>1. /\ Len(wire') = Len(wire) - 1 /\ 1 \in 1 .. Len(wire) /\ hand'.frame = wire[1]
        /\ \A i \in 1 .. Len(wire) - 1 : wire'[i] = wire[i + 1]
    BY <1>5 DEF TakesEvent, Shrunk
  <2>2. ASSUME NEW j \in 1 .. Len(wire'), Opener(wire'[j])
        PROVE  /\ ~(hand'.frame.kind = "exit" /\ hand'.frame.sess = wire'[j].sess)
               /\ \A i \in 1 .. Len(wire') : i < j /\ wire'[i].kind = "exit" => wire'[i].sess # wire'[j].sess
    <3>1. j + 1 \in 1 .. Len(wire) /\ wire'[j] = wire[j + 1] /\ 1 < j + 1
      BY <1>0, <2>1
    <3>2. \A i \in 1 .. Len(wire) : i < j + 1 /\ wire[i].kind = "exit" => wire[i].sess # wire[j + 1].sess
      BY <1>0, <2>2, <3>1 DEF ExitLast
    <3>3. ASSUME NEW i \in 1 .. Len(wire'), i < j, wire'[i].kind = "exit"
          PROVE  wire'[i].sess # wire'[j].sess
      <4>1. i + 1 \in 1 .. Len(wire) /\ i + 1 < j + 1 /\ wire'[i] = wire[i + 1]
        BY <1>0, <2>1, <3>3
      <4> QED BY <3>1, <3>2, <3>3, <4>1
    <3>4. wire[1].kind = "exit" => wire[1].sess # wire[j + 1].sess
      BY <2>1, <3>1, <3>2
    <3> QED BY <2>1, <3>1, <3>3, <3>4
  <2> QED BY <2>2 DEF ExitLast, Handed
<1>6. ASSUME NEW f, Asks(f) PROVE ExitLast'
  <2>1. Opener(f) => f.sess \in Sessions /\ run[f.sess] # "ended"
    BY <1>6 DEF Asks, TypeInv, HelperTypes
  <2>2. Opener(f) => /\ ~Handed(f.sess)
                     /\ \A i \in 1 .. Len(wire) : wire[i].kind = "exit" => wire[i].sess # f.sess
    BY <1>0, <2>1 DEF ExitEnds
  <2>3. hand' = hand
    BY <1>6 DEF Asks, ReaderStill
  <2> QED BY <1>0, <1>6, <2>2, <2>3 DEF Asks, Grown, ExitLast, Handed
<1> QED BY <1>1, <1>2, <1>3, <1>4, <1>5, <1>6, Effects DEF Rests, Hears, ReaderWorks, ReaderDrops,
      Forgets, Fails, Installs, Goes, Registers, MainWorks, MainDrops, DropsAll, Sweeps, ReaderStill

LEMMA OpenersStep == TypeInv /\ RowsInv /\ [Next]_vars => Openers'
<1> SUFFICES ASSUME TypeInv, RowsInv, [Next]_vars PROVE Openers'
  OBVIOUS
<1>0. /\ Openers /\ Len(wire) \in Nat /\ run \in [Sessions -> {"none", "live", "dying", "ended"}]
      /\ opens \in [Sessions -> Nat]
  BY LengthOfWire DEF RowsInv, TypeInv, HelperTypes, RouteTypes
<1>1. CASE WireStill /\ UNCHANGED opens /\ UNCHANGED answer
           /\ (pc'["main"] = "wait" => pc["main"] = "wait")
           /\ (pc'["main"] \in OpenStages => pc["main"] \in OpenStages /\ UNCHANGED cmd)
  BY <1>0, <1>1 DEF WireStill, Openers, Openable
<1>2. CASE Prints
  BY <1>0, <1>2 DEF Prints, Grown, MainStill, Openers, Openable, Opener
<1>3. ASSUME NEW s \in Sessions, Exits(s) PROVE Openers'
  <2>1. \A x \in Sessions : run'[x] = IF x = s THEN "ended" ELSE run[x]
    BY <1>0, <1>3 DEF Exits
  <2>2. run[s] # "none" /\ UNCHANGED <<sink, opens, cmd, answer>> /\ pc'["main"] = pc["main"]
    BY <1>3 DEF Exits, MainStill
  <2>3. sink \subseteq Sessions
    BY DEF TypeInv, HelperTypes
  <2>4. \A f : Openable(f) => Openable(f)'
    BY <2>1, <2>2, <2>3 DEF Openable, Opener
  <2>5. (\A i \in 1 .. Len(wire) : Openable(wire[i]))'
    <3>1. ASSUME NEW f, f.kind = "exit", Grown(f) PROVE <2>5
      BY <1>0, <2>4, <3>1 DEF Openers, Grown, Openable, Opener
    <3> QED BY <1>0, <1>3, <2>4, <3>1 DEF Exits, Openers
  <2> QED BY <1>0, <2>1, <2>2, <2>4, <2>5 DEF Openers
<1>4. CASE TakesAnswer
  <2>1. UNCHANGED <<run, sink, opens, cmd>> /\ Shrunk /\ answer' = wire[1] /\ pc'["main"] = "wait"
    BY <1>4 DEF TakesAnswer
  <2> QED BY <1>0, <2>1 DEF Shrunk, Openers, Openable, OpenStages
<1>5. CASE TakesEvent
  <2>1. UNCHANGED <<run, sink, opens, cmd, answer>> /\ Shrunk /\ pc'["main"] = pc["main"]
    BY <1>5 DEF TakesEvent, MainStill
  <2> QED BY <1>0, <2>1 DEF Shrunk, Openers, Openable
<1>6. ASSUME NEW f, Asks(f) PROVE Openers'
  <2>1. \A i \in 1 .. Len(wire) : ~Opener(wire[i])
    BY <1>6, EventsOnly DEF Asks, Event, Opener
  <2>2. Openable(f)'
    BY <1>0, <1>6 DEF Asks, Openable, Openers
  <2>3. (\A i \in 1 .. Len(wire) : Openable(wire[i]))'
    BY <1>0, <1>6, <2>1, <2>2 DEF Asks, Grown, Openable
  <2> QED BY <1>0, <1>6, <2>3 DEF Asks, Openers, OpenStages
<1>7. CASE Installs
  <2>1. \A i \in 1 .. Len(wire) : ~Opener(wire[i])
    BY <1>7, EventsOnly DEF Installs, Event, Opener
  <2>2. UNCHANGED <<run, sink, wire>> /\ cmd'.sess = answer.sess /\ pc'["main"] = "flush"
        /\ opens' = [opens EXCEPT ![answer.sess] = @ + 1]
        /\ Openable(answer) /\ Opener(answer)
    BY <1>0, <1>7 DEF Installs, WireStill, Openers
  <2> QED BY <1>0, <2>1, <2>2 DEF Openers, Openable
<1>8. CASE Fails \/ Registers \/ MainDrops \/ DropsAll
  BY <1>0, <1>8 DEF Fails, Registers, MainDrops, DropsAll, WireStill, Openers, OpenStages, Openable
<1>9. CASE MainWorks
  BY <1>1, <1>9 DEF MainWorks, LooksUp, TakesRow, StopsShares, OpenStages
<1> QED BY <1>1, <1>2, <1>3, <1>4, <1>5, <1>6, <1>7, <1>8, <1>9, Effects DEF Rests, Hears, ReaderWorks,
      ReaderDrops, Forgets, Goes, Sweeps, MainStill, OpenStages

LEMMA TabsApartStep == TypeInv /\ RowsInv /\ [Next]_vars => TabsApart'
<1> SUFFICES ASSUME TypeInv, RowsInv, [Next]_vars PROVE TabsApart'
  OBVIOUS
<1>0. TabsApart /\ ui \in [Sessions -> {"none", "background"} \cup Tabs] /\ {"none", "background"} \cap Tabs = {}
  BY ActorsAssumption DEF RowsInv, TypeInv, RouteTypes
<1>1. CASE UNCHANGED <<ui, cmd>>
  BY <1>0, <1>1 DEF TabsApart
<1>2. CASE UNCHANGED ui /\ (cmd' = Nothing \/ cmd'.op = "share_stop")
  BY <1>0, <1>2 DEF TabsApart
<1>3. ASSUME NEW f, Asks(f) PROVE TabsApart'
  BY <1>0, <1>3 DEF Asks, TabsApart
<1>4. CASE Installs
  BY <1>0, <1>4 DEF Installs, TabsApart
<1>5. CASE Fails \/ MainDrops
  <2>1. cmd' = Nothing /\ \A s \in Sessions : ui'[s] = ui[s] \/ ui'[s] \in {"none", "background"}
    BY <1>0, <1>5 DEF Fails, MainDrops
  <2> QED BY <1>0, <2>1 DEF TabsApart
<1>6. CASE Registers
  <2>1. cmd' = Nothing /\ cmd # Nothing /\ cmd.op \in {"create", "attach"} /\ cmd.sess \in Sessions
        /\ \A s \in Sessions : ui'[s] = IF s = cmd.sess THEN cmd.tab ELSE ui[s]
    BY <1>0, <1>6 DEF Registers
  <2> QED BY <1>0, <2>1 DEF TabsApart
<1> QED BY <1>1, <1>2, <1>3, <1>4, <1>5, <1>6, Effects DEF Rests, Prints, Exits, TakesAnswer, TakesEvent,
      Hears, ReaderWorks, ReaderDrops, Forgets, Goes, MainWorks, DropsAll, Sweeps, MainStill

LEMMA HandlesStep == TypeInv /\ RowsInv /\ [Next]_vars => Handles'
<1> SUFFICES ASSUME TypeInv, RowsInv, [Next]_vars PROVE Handles'
  OBVIOUS
<1>0. /\ Handles /\ Openers /\ ui \in [Sessions -> {"none", "background"} \cup Tabs]
      /\ opens \in [Sessions -> Nat] /\ {"none", "background"} \cap Tabs = {}
  BY ActorsAssumption DEF RowsInv, TypeInv, RouteTypes
<1>1. CASE UNCHANGED <<ui, opens, cmd>> /\ (pc'["main"] \in OpenStages => pc["main"] \in OpenStages)
  BY <1>0, <1>1 DEF Handles
<1>2. CASE UNCHANGED <<ui, opens>> /\ (cmd' = Nothing \/ cmd'.op = "share_stop") /\ pc'["main"] \notin OpenStages
  BY <1>0, <1>2 DEF Handles
<1>3. ASSUME NEW f, Asks(f) PROVE Handles'
  <2>1. cmd'.op \in {"detach", "kill"} => opens[cmd'.sess] > 0
    BY <1>0, <1>3 DEF Asks, Handles
  <2>2. cmd'.op = "attach" => ui[cmd'.sess] \notin Tabs
    BY <1>0, <1>3 DEF Asks
  <2> QED BY <1>0, <1>3, <2>1, <2>2 DEF Asks, Handles, OpenStages
<1>4. CASE Installs
  <2>1. /\ pc["main"] = "wait" /\ answer # Nothing /\ Opener(answer) /\ answer.sess \in Sessions
        /\ cmd # Nothing /\ cmd.op \in {"create", "attach"} /\ UNCHANGED ui
        /\ cmd'.sess = answer.sess /\ cmd'.op = cmd.op
    BY <1>4 DEF Installs
  <2>2. \A s \in Sessions : opens'[s] = IF s = answer.sess THEN opens[s] + 1 ELSE opens[s]
    BY <1>0, <1>4 DEF Installs
  <2>3. ui[answer.sess] \notin Tabs
    <3>1. CASE cmd.op = "create"
      <4>1. answer.kind = "spawn"
        BY <2>1, <3>1 DEF TypeInv, Answering, Expects, Opener
      <4> QED BY <1>0, <2>1, <4>1 DEF Openers, Openable, Handles
    <3>2. CASE cmd.op = "attach"
      <4>1. cmd.sess \in {Nothing, answer.sess} /\ cmd.sess # Nothing
        BY <2>1, <3>2 DEF TypeInv, Answering, Commanding, Opener
      <4> QED BY <1>0, <2>1, <3>2, <4>1 DEF Handles
    <3> QED BY <2>1, <3>1, <3>2
  <2> QED BY <1>0, <2>1, <2>2, <2>3 DEF Handles
<1>5. CASE Fails
  <2>1. cmd' = Nothing /\ UNCHANGED opens /\ pc'["main"] = "idle"
        /\ \A s \in Sessions : ui'[s] \in {ui[s], "none"}
    BY <1>0, <1>5 DEF Fails
  <2> QED BY <1>0, <2>1 DEF Handles, OpenStages
<1>6. CASE Registers \/ MainDrops
  <2>1. /\ cmd' = Nothing /\ UNCHANGED opens /\ pc'["main"] = "idle" /\ cmd.sess \in Sessions
        /\ \A s \in Sessions : s # cmd.sess => ui'[s] = ui[s]
    BY <1>0, <1>6 DEF Registers, MainDrops
  <2>2. opens[cmd.sess] > 0
    BY <1>0, <1>6 DEF Registers, MainDrops, Handles, OpenStages
  <2> QED BY <1>0, <2>1, <2>2 DEF Handles, OpenStages
<1>7. CASE MainWorks
  BY <1>1, <1>7 DEF MainWorks, LooksUp, TakesRow, StopsShares, OpenStages
<1> QED BY <1>1, <1>2, <1>3, <1>4, <1>5, <1>6, <1>7, Effects DEF Rests, Prints, Exits, TakesAnswer,
      TakesEvent, Hears, ReaderWorks, ReaderDrops, Forgets, Goes, DropsAll, Sweeps, MainStill, OpenStages

LEMMA HeardStays ==
  ASSUME TypeInv, [Next]_vars, NEW s \in Sessions
  PROVE  /\ ~Shrunk => /\ Len(wire') \in {Len(wire), Len(wire) + 1}
                       /\ \A j \in 1 .. Len(wire) : wire'[j] = wire[j]
                       /\ \A j \in 1 .. Len(wire) + 1 : Heard(s, j) => Heard(s, j)'
         /\ TakesAnswer \/ TakesEvent =>
              \A j \in 1 .. Len(wire) : Heard(s, j + 1) => Heard(s, j)'
<1>0. Len(wire) \in Nat
  BY LengthOfWire
<1>1. ASSUME ~(TakesAnswer \/ TakesEvent)
      PROVE  /\ Len(wire') \in {Len(wire), Len(wire) + 1}
             /\ \A j \in 1 .. Len(wire) : wire'[j] = wire[j]
             /\ s \in exited \/ Handed(s) => (s \in exited \/ Handed(s))'
  <2>1. CASE WireStill /\ ReaderStill
    BY <1>0, <2>1 DEF WireStill, ReaderStill, Handed
  <2>2. ASSUME NEW f, Grown(f), ReaderStill PROVE <1>1!2
    BY <1>0, <2>2 DEF Grown, ReaderStill, Handed
  <2>3. ASSUME NEW x \in Sessions, Exits(x) PROVE <1>1!2
    BY <2>1, <2>2, <2>3, <1>0 DEF Exits, ReaderStill, Handed
  <2>4. CASE Hears \/ ReaderWorks \/ ReaderDrops \/ Forgets
    BY <1>0, <2>4 DEF Hears, ReaderWorks, ReaderDrops, Forgets, WireStill, Handed
  <2> QED BY <1>1, <2>1, <2>2, <2>3, <2>4, Effects DEF Rests, Prints, Asks, Fails, Installs, Goes,
        Registers, MainWorks, MainDrops, DropsAll, Sweeps
<1>2. TakesAnswer \/ TakesEvent => Shrunk
  BY DEF TakesAnswer, TakesEvent
<1>3. ASSUME ~Shrunk, NEW j \in 1 .. Len(wire) + 1, Heard(s, j) PROVE Heard(s, j)'
  BY <1>0, <1>1, <1>2, <1>3 DEF Heard
<1>4. ASSUME TakesAnswer \/ TakesEvent, NEW j \in 1 .. Len(wire), Heard(s, j + 1) PROVE Heard(s, j)'
  <2>1. /\ Len(wire') = Len(wire) - 1 /\ exited' = exited
        /\ \A i \in 1 .. Len(wire) - 1 : wire'[i] = wire[i + 1]
    BY <1>4 DEF TakesAnswer, TakesEvent, Shrunk, ReaderStill
  <2>2. CASE s \in exited
    BY <2>1, <2>2 DEF Heard
  <2>3. ~Handed(s)
    BY <1>4 DEF TakesAnswer, TakesEvent, Handed
  <2>4. ASSUME NEW i \in 1 .. Len(wire), i < j + 1, wire[i].kind = "exit", wire[i].sess = s
        PROVE  Heard(s, j)'
    <3>1. CASE i = 1
      <4>1. TakesEvent
        BY <1>4, <2>4, <3>1, EventsOnly DEF TakesAnswer
      <4> QED BY <2>4, <3>1, <4>1 DEF TakesEvent, Heard, Handed
    <3>2. CASE i # 1
      <4>1. i - 1 \in 1 .. Len(wire') /\ i - 1 < j /\ wire'[i - 1] = wire[i]
        BY <1>0, <2>1, <2>4, <3>2
      <4> QED BY <2>4, <4>1 DEF Heard
    <3> QED BY <3>1, <3>2
  <2> QED BY <1>4, <2>2, <2>3, <2>4 DEF Heard
<1> QED BY <1>1, <1>2, <1>3, <1>4

LEMMA KillingOf ==
  ASSUME NEW s, cmd'.sess = s,
         \A j \in 1 .. Len(wire') : wire'[j].kind = "error" => Heard(s, j)',
         answer' # Nothing /\ answer'.kind = "error" => s \in exited'
  PROVE  Killing'
BY DEF Killing, Heard, Handed

LEMMA ExitingStep == TypeInv /\ RowsInv /\ [Next]_vars => Exiting'
<1> SUFFICES ASSUME TypeInv, RowsInv, [Next]_vars PROVE Exiting'
  OBVIOUS
<1>0. /\ Exiting /\ Len(wire) \in Nat /\ run \in [Sessions -> {"none", "live", "dying", "ended"}]
      /\ sink \subseteq Sessions
  BY LengthOfWire DEF RowsInv, TypeInv, HelperTypes
\* Where the wire is not taken from, its frames stay and what was heard stays heard.
<1>1. ASSUME ~Shrunk, NEW s \in Sessions
      PROVE  /\ Heard(s, Len(wire) + 1) => Heard(s, Len(wire) + 1)'
             /\ \A j \in 1 .. Len(wire) : wire'[j] = wire[j] /\ (Heard(s, j) => Heard(s, j)')
             /\ s \in exited => s \in exited'
  <2>1. Len(wire') \in {Len(wire), Len(wire) + 1}
    BY <1>1, HeardStays
  <2>2. Heard(s, Len(wire) + 1) => Heard(s, Len(wire) + 1)'
    <3> DEFINE n == Len(wire) + 1
    <3>1. ASSUME NEW k, k = n, Heard(s, k) PROVE Heard(s, k)'
      BY <1>0, <1>1, <3>1, HeardStays
    <3>2. ASSUME NEW k, k = n, Heard(s, k)' PROVE Heard(s, Len(wire) + 1)'
      BY <1>0, <2>1, <3>2 DEF Heard
    <3> QED BY <3>1, <3>2
  <2>3. s \in exited => s \in exited'
    BY PastStays
  <2> QED BY <1>0, <1>1, <2>2, <2>3, HeardStays
<1>2. ASSUME ~Shrunk, UNCHANGED <<run, sink>>, NEW s \in sink, run[s] = "ended"
      PROVE  Heard(s, Len(wire) + 1)'
  BY <1>0, <1>1, <1>2 DEF Exiting
\* The command at work, and what answers it.
<1>3. ASSUME ~Shrunk, UNCHANGED <<sink, cmd, answer>>,
             \/ Len(wire') = Len(wire)
             \/ wire'[Len(wire) + 1].kind # "error" /\ Len(wire') = Len(wire) + 1
      PROVE  Killing'
  <2>1. CASE cmd = Nothing \/ cmd.op # "kill" \/ cmd.sess \notin sink
    BY <1>3, <2>1 DEF Killing
  <2>2. CASE cmd # Nothing /\ cmd.op = "kill" /\ cmd.sess \in sink
    <3>1. PICK s \in sink : s = cmd.sess
      BY <2>2
    <3>2. ASSUME NEW j \in 1 .. Len(wire'), wire'[j].kind = "error" PROVE Heard(s, j)'
      <4>1. j \in 1 .. Len(wire)
        BY <1>0, <1>3, <3>2
      <4>2. Heard(s, j)
        BY <1>0, <1>1, <1>3, <2>2, <3>1, <3>2, <4>1 DEF Exiting, Killing
      <4> QED BY <1>0, <1>1, <1>3, <4>1, <4>2
    <3>3. answer # Nothing /\ answer.kind = "error" => s \in exited'
      BY <1>0, <1>1, <1>3, <2>2, <3>1 DEF Exiting, Killing
    <3> QED BY <1>3, <3>1, <3>2, <3>3, KillingOf
  <2> QED BY <2>1, <2>2
\* Where the wire is taken from.
<1>4. CASE TakesAnswer \/ TakesEvent
  <2>1. /\ Len(wire') + 1 = Len(wire) /\ UNCHANGED <<run, sink, cmd>>
        /\ \A i \in 1 .. Len(wire') : i \in 1 .. Len(wire) /\ i + 1 \in 1 .. Len(wire) /\ wire'[i] = wire[i + 1]
    BY <1>0, <1>4 DEF TakesAnswer, TakesEvent, Shrunk, MainStill
  <2>2. ASSUME NEW s \in sink, NEW j \in 1 .. Len(wire), Heard(s, j + 1) PROVE Heard(s, j)'
    BY <1>0, <1>4, <2>2, HeardStays
  <2>3. ASSUME NEW s \in sink, run[s] = "ended" PROVE Heard(s, Len(wire) + 1)'
    <3>1. Heard(s, Len(wire) + 1) /\ Len(wire) \in 1 .. Len(wire)
      BY <1>0, <1>4, <2>3 DEF Exiting, TakesAnswer, TakesEvent, Shrunk
    <3>2. \A k : k = Len(wire) => Heard(s, k)'
      BY <2>2, <3>1
    <3> QED BY <2>1, <3>2 DEF Heard
  <2>4. Killing'
    <3>1. CASE cmd = Nothing \/ cmd.op # "kill" \/ cmd.sess \notin sink
      BY <2>1, <3>1 DEF Killing
    <3>2. CASE cmd # Nothing /\ cmd.op = "kill" /\ cmd.sess \in sink
      <4>1. PICK s \in sink : s = cmd.sess
        BY <3>2
      <4>2. ASSUME NEW j \in 1 .. Len(wire'), wire'[j].kind = "error" PROVE Heard(s, j)'
        BY <1>0, <2>1, <2>2, <3>2, <4>1, <4>2 DEF Exiting, Killing
      <4>3. answer' # Nothing /\ answer'.kind = "error" => s \in exited'
        <5>1. CASE TakesAnswer
          <6>1. wire[1].kind = "error" => Heard(s, 1)
            BY <1>0, <3>2, <4>1, <5>1 DEF Exiting, Killing, TakesAnswer, Shrunk
          <6>2. Heard(s, 1) => s \in exited
            BY <1>0, <5>1 DEF Heard, Handed, TakesAnswer
          <6> QED BY <5>1, <6>1, <6>2 DEF TakesAnswer, ReaderStill
        <5>2. CASE TakesEvent
          BY <1>0, <3>2, <4>1, <5>2 DEF Exiting, Killing, TakesEvent, MainStill
        <5> QED BY <1>4, <5>1, <5>2
      <4> QED BY <2>1, <4>1, <4>2, <4>3, KillingOf
    <3> QED BY <3>1, <3>2
  <2> QED BY <2>1, <2>3, <2>4 DEF Exiting
<1>5. CASE Prints
  <2>1. ~Shrunk
    BY <1>0, <1>5 DEF Prints, Grown, Shrunk
  <2> QED BY <1>0, <1>2, <1>3, <1>5, <2>1 DEF Prints, Grown, MainStill, Exiting
<1>6. ASSUME NEW x \in Sessions, Exits(x) PROVE Exiting'
  <2>1. ~Shrunk /\ UNCHANGED <<sink, cmd, answer>>
    BY <1>0, <1>6 DEF Exits, Grown, Shrunk, MainStill
  <2>2. Killing'
    BY <1>0, <1>3, <1>6, <2>1 DEF Exits, Grown
  <2>3. ASSUME NEW s \in sink, run'[s] = "ended" PROVE Heard(s, Len(wire) + 1)'
    <3>1. CASE s # x
      BY <1>0, <1>1, <1>6, <2>1, <2>3, <3>1 DEF Exits, Exiting
    <3>2. CASE s = x
      BY <1>0, <1>6, <3>2 DEF Exits, Grown, Heard
    <3> QED BY <3>1, <3>2
  <2> QED BY <2>1, <2>2, <2>3 DEF Exiting
<1>7. ASSUME NEW f, Asks(f) PROVE Exiting'
  <2>1. ~Shrunk /\ Len(wire') = Len(wire) + 1 /\ answer' = Nothing /\ \A i \in 1 .. Len(wire) : wire'[i] = wire[i]
    BY <1>0, <1>7 DEF Asks, Grown, Shrunk
  <2>2. ASSUME NEW s \in sink', run'[s] = "ended"
        PROVE  s \in sink /\ run[s] = "ended" /\ Heard(s, Len(wire) + 1) /\ Heard(s, Len(wire) + 1)'
    <3>1. s \in sink /\ run[s] = "ended"
      BY <1>0, <1>7, <2>2 DEF Asks
    <3> QED BY <1>0, <1>1, <2>1, <3>1 DEF Exiting
  <2>3. Killing'
    <3>1. CASE cmd'.op # "kill" \/ cmd'.sess \notin sink'
      BY <3>1 DEF Killing
    <3>2. CASE cmd'.op = "kill" /\ cmd'.sess \in sink'
      <4>1. PICK s \in sink' : s = cmd'.sess
        BY <3>2
      <4>2. ASSUME NEW j \in 1 .. Len(wire'), wire'[j].kind = "error" PROVE Heard(s, j)'
        <5>1. j = Len(wire) + 1 /\ f.kind = "error"
          BY <1>0, <1>7, <2>1, <4>2, EventsOnly DEF Asks, Grown, Event
        <5>2. s \in sink /\ run[s] = "ended"
          BY <1>0, <1>7, <3>2, <4>1, <5>1 DEF Asks, Opener
        <5>3. Heard(s, Len(wire) + 1)
          BY <1>0, <5>2 DEF Exiting
        <5> QED BY <1>0, <2>1, <5>1, <5>2, <5>3, HeardStays
      <4> QED BY <2>1, <4>1, <4>2, KillingOf
    <3> QED BY <3>1, <3>2
  <2> QED BY <2>2, <2>3 DEF Exiting
<1>8. ASSUME WireStill, Killing' PROVE Exiting'
  <2>1. ~Shrunk
    BY <1>0, <1>8 DEF WireStill, Shrunk
  <2> QED BY <1>2, <1>8, <2>1 DEF WireStill, Exiting
<1>9. ASSUME WireStill, UNCHANGED <<cmd, answer>> PROVE Exiting'
  <2>1. ~Shrunk
    BY <1>0, <1>9 DEF WireStill, Shrunk
  <2> QED BY <1>3, <1>8, <1>9, <2>1 DEF WireStill
<1>10. ASSUME WireStill, cmd' = Nothing \/ cmd'.op \in {"create", "attach", "share_stop"} PROVE Exiting'
  BY <1>8, <1>10 DEF Killing
<1> QED BY <1>4, <1>5, <1>6, <1>7, <1>9, <1>10, Effects DEF Rests, Hears, ReaderWorks, ReaderDrops, Forgets,
      Fails, Installs, Goes, Registers, MainWorks, MainDrops, DropsAll, Sweeps, MainStill

LEMMA GoneStep == TypeInv /\ RowsInv /\ [Next]_vars /\ Clean' => Gone'
<1> SUFFICES ASSUME TypeInv, RowsInv, [Next]_vars, Clean' PROVE Gone'
  OBVIOUS
<1>0. /\ Gone /\ ExitEnds /\ ExitLast /\ Openers /\ Len(wire) \in Nat /\ Clean
      /\ \A s \in Sessions : Past(s) => run[s] = "ended"
  BY CleanBefore, LengthOfWire DEF RowsInv, ExitEnds, Past
\* What opens s, before a step and after it.
<1> DEFINE Opens(s) ==
      \/ \E i \in 1 .. Len(wire) : Opener(wire[i]) /\ wire[i].sess = s
      \/ pc["main"] = "wait" /\ answer # Nothing /\ Opener(answer) /\ answer.sess = s
      \/ pc["main"] \in OpenStages /\ cmd.sess = s
<1>1. ASSUME NEW s \in Sessions, ~Opens(s), Opens(s)'
      PROVE  \E f : Asks(f) /\ Opener(f) /\ f.sess = s
  <2>1. CASE WireStill /\ MainStill
    BY <1>1, <2>1 DEF WireStill, MainStill
  <2>2. CASE Prints
    BY <1>0, <1>1, <2>2 DEF Prints, Grown, MainStill, Opener
  <2>3. ASSUME NEW x \in Sessions, Exits(x) PROVE FALSE
    BY <1>0, <1>1, <2>3 DEF Exits, Grown, MainStill, Opener
  <2>4. CASE TakesAnswer
    BY <1>0, <1>1, <2>4 DEF TakesAnswer, Shrunk, OpenStages
  <2>5. CASE TakesEvent
    BY <1>0, <1>1, <2>5 DEF TakesEvent, Shrunk, MainStill
  <2>6. ASSUME NEW f, Asks(f) PROVE Opener(f) /\ f.sess = s
    BY <1>0, <1>1, <2>6 DEF Asks, Grown, OpenStages
  <2>7. CASE Installs
    BY <1>1, <2>7 DEF Installs, WireStill, OpenStages
  <2>8. CASE Goes
    BY <1>1, <2>8 DEF Goes, WireStill, OpenStages
  <2>9. CASE MainWorks
    BY <1>1, <2>9 DEF MainWorks, LooksUp, TakesRow, StopsShares, WireStill, OpenStages
  <2>10. CASE Fails \/ Registers \/ MainDrops \/ DropsAll \/ Sweeps
    BY <1>1, <2>10 DEF Fails, Registers, MainDrops, DropsAll, Sweeps, WireStill, OpenStages
  <2> QED BY <2>1, <2>2, <2>3, <2>4, <2>5, <2>6, <2>7, <2>8, <2>9, <2>10, Effects DEF Rests, Hears,
        ReaderWorks, ReaderDrops, Forgets
<1>2. ASSUME NEW s \in Sessions, Past(s)' PROVE ~Opens(s)'
  <2>1. CASE Past(s)
    <3>1. ~Opens(s)
      BY <1>0, <2>1 DEF Gone
    <3>2. \A f : Asks(f) /\ Opener(f) => run[f.sess] # "ended"
      BY DEF Asks
    <3> QED BY <1>0, <1>1, <2>1, <3>1, <3>2
  <2>2. CASE ~Past(s)
    <3>1. Hears /\ Handed(s)
      BY <1>2, <2>2, PastStays
    <3>2. ~Opening(s)
      <4>1. s \notin early'
        BY <1>2 DEF Clean
      <4> QED BY <3>1, <4>1 DEF Hears, Handed
    <3>3. \A i \in 1 .. Len(wire) : Opener(wire[i]) => wire[i].sess # s
      BY <1>0, <3>1 DEF ExitLast
    <3>4. ASSUME pc["main"] = "wait", answer # Nothing, Opener(answer), answer.sess = s PROVE FALSE
      <4>1. /\ Expects(cmd.op, answer.kind) /\ cmd.sess \in {Nothing, s} /\ cmd # Nothing
            /\ cmd.op \in {"create", "kill_all"} <=> cmd.sess = Nothing
        BY <3>4 DEF TypeInv, Answering, Commanding, Opener
      <4>2. cmd.op \in {"create", "attach"} /\ (cmd.sess = Nothing => answer.kind = "spawn")
        BY <3>4, <4>1 DEF Expects, Opener
      <4>3. answer.kind = "spawn" => opens[s] = 0
        BY <1>0, <3>4 DEF Openers, Openable
      <4> QED BY <3>2, <4>1, <4>2, <4>3 DEF Opening
    <3>5. ASSUME pc["main"] \in OpenStages, cmd.sess = s PROVE FALSE
      <4>1. cmd # Nothing /\ cmd.op \in {"create", "attach"}
        BY <3>5 DEF TypeInv, Commanding, OpenStages
      <4> QED BY <3>2, <3>5, <4>1 DEF Opening
    <3>6. ~Opens(s)
      BY <3>3, <3>4, <3>5
    <3>7. \A f : ~Asks(f)
      BY <3>1 DEF Hears, Asks, ReaderStill
    <3> QED BY <1>1, <3>6, <3>7
  <2> QED BY <2>1, <2>2
<1> QED BY <1>2 DEF Gone

LEMMA RoomsStep == TypeInv /\ RowsInv /\ [Next]_vars /\ Clean' => Rooms'
<1> SUFFICES ASSUME TypeInv, RowsInv, [Next]_vars, Clean' PROVE Rooms'
  OBVIOUS
<1>0. /\ Rooms /\ Removing /\ Removed /\ Openers /\ Exiting /\ Handles /\ Len(wire) \in Nat
      /\ ui \in [Sessions -> {"none", "background"} \cup Tabs]
      /\ tabOf \in [Sessions -> Tabs \cup {Nothing}] /\ source \in [Tabs -> Bridges \cup {Nothing}]
      /\ Nothing \notin Tabs
  BY CleanBefore, LengthOfWire, ActorsAssumption DEF RowsInv, TypeInv, RouteTypes, GlueTypes
<1> DEFINE Room(s) == tabOf[s] # Nothing => ui[s] = tabOf[s] /\ (s \in sink \/ Leaving(s))
<1>1. CASE GlueStill
  <2>1. ASSUME NEW s \in Sessions, UNCHANGED <<ui, sink, cmd>>, Refused' => Refused PROVE Room(s)'
    BY <1>0, <1>1, <2>1 DEF Rooms, GlueStill, Leaving
  <2>2. ASSUME NEW s \in Sessions, tabOf[s] # Nothing => ~Leaving(s) /\ ui'[s] = ui[s] /\ s \in sink'
        PROVE  Room(s)'
    BY <1>0, <1>1, <2>2 DEF Rooms, GlueStill
  <2> SUFFICES ASSUME NEW s \in Sessions PROVE Room(s)'
    BY <1>0, <1>1 DEF GlueStill, Rooms
  <2>3. CASE WireStill /\ UNCHANGED <<ui, cmd, answer>>
    BY <2>1, <2>3 DEF WireStill, Refused
  <2>4. CASE Prints
    BY <1>0, <2>1, <2>4 DEF Prints, Grown, MainStill, Refused
  <2>5. ASSUME NEW x \in Sessions, Exits(x) PROVE Room(s)'
    BY <1>0, <2>1, <2>5 DEF Exits, Grown, MainStill, Refused
  <2>6. CASE TakesEvent \/ TakesAnswer
    BY <1>0, <2>1, <2>6 DEF TakesEvent, TakesAnswer, Shrunk, MainStill, Refused
  <2>7. ASSUME NEW f, Asks(f) PROVE Room(s)'
    <3>1. ~Leaving(s) /\ UNCHANGED ui
      BY <2>7 DEF Asks, Leaving
    <3>2. CASE s \in sink'
      BY <2>2, <3>1, <3>2
    <3>3. CASE s \in sink /\ s \notin sink'
      <4>1. cmd' # Nothing /\ cmd'.op = "detach" /\ cmd'.sess = s /\ f.kind = "detach" /\ answer' = Nothing
        BY <2>7, <3>3 DEF Asks
      <4>2. ~Refused'
        BY <1>0, <2>7, <4>1, EventsOnly DEF Asks, Grown, Event, Refused
      <4> QED BY <1>0, <1>1, <3>1, <4>1, <4>2 DEF Rooms, GlueStill, Leaving
    <3>4. CASE s \notin sink /\ s \notin sink'
      BY <2>2, <3>1, <3>4, <1>0 DEF Rooms
    <3> QED BY <3>2, <3>3, <3>4
  <2>8. CASE Fails
    <3>1. ~Leaving(s)
      BY <2>8 DEF Fails, Leaving, Refused
    <3>2. tabOf[s] # Nothing => s \in sink
      BY <1>0, <3>1 DEF Rooms
    <3>3. CASE cmd.op = "kill" /\ cmd.sess = s /\ s \in sink
      <4>1. s \in exited
        BY <1>0, <2>8, <3>3 DEF Fails, Exiting, Killing
      <4> QED BY <1>0, <2>2, <4>1 DEF Removed
    <3>4. CASE ~(cmd.op = "kill" /\ cmd.sess = s)
      <4>1. ui'[s] = ui[s] /\ sink' = sink
        BY <1>0, <2>8, <3>4 DEF Fails, WireStill
      <4> QED BY <2>2, <3>1, <3>2, <4>1
    <3> QED BY <2>2, <3>2, <3>3, <3>4
  <2>9. CASE Installs \/ DropsAll \/ Sweeps
    <3>1. ~Leaving(s) /\ UNCHANGED <<ui, sink>>
      BY <2>9 DEF Installs, DropsAll, Sweeps, Leaving, WireStill
    <3> QED BY <1>0, <2>2, <3>1 DEF Rooms
  <2>10. CASE MainDrops
    <3>1. cmd.sess \in Sessions /\ tabOf[cmd.sess] = Nothing
      BY <1>0, <2>10 DEF MainDrops, Removing, DyingOf
    <3>2. s # cmd.sess => ~Leaving(s) /\ ui'[s] = ui[s] /\ sink' = sink
      BY <1>0, <2>10 DEF MainDrops, Leaving, WireStill
    <3> QED BY <1>0, <2>2, <3>1, <3>2 DEF Rooms
  <2>11. ReaderWorks \/ MainWorks \/ Rests \/ Hears \/ ReaderDrops \/ Forgets \/ Goes =>
           WireStill /\ UNCHANGED <<ui, cmd, answer>>
    BY DEF ReaderWorks, MainWorks, Rests, Hears, ReaderDrops, Forgets, Goes, MainStill
  <2>12. ~Registers
    BY <1>0, <1>1 DEF GlueStill, Registers, Rooms, Handles, OpenStages
  <2> QED BY <2>3, <2>4, <2>5, <2>6, <2>7, <2>8, <2>9, <2>10, <2>11, <2>12, Effects
<1>2. ASSUME NEW a \in Threads, NEW s \in Sessions, LooksUp(a, s), UNCHANGED <<ui, sink, cmd, answer, wire>>
      PROVE  Rooms'
  <2>1. \A t \in Tabs : source'[t] \in {source[t], Nothing}
    BY <1>0, <1>2 DEF LooksUp
  <2>2. \A x \in Sessions : Leaving(x)' <=> Leaving(x)
    BY <1>2 DEF Leaving, Refused
  <2> QED BY <1>0, <1>2, <2>1, <2>2 DEF LooksUp, Rooms
<1>3. ASSUME NEW a \in Threads, NEW s \in Sessions, TakesRow(a), DyingOf(a, s),
             UNCHANGED <<ui, sink, cmd, answer, wire>>
      PROVE  Rooms'
  <2>1. UNCHANGED source /\ source[dying[a].tab] = Nothing
    BY <1>3 DEF TakesRow, DyingOf
  <2>2. \A x \in Sessions : tabOf'[x] = tabOf[x] \/ (tabOf[x] = dying[a].tab /\ tabOf'[x] = Nothing)
    BY <1>0, <1>3 DEF TakesRow
  <2>3. \A x \in Sessions : Leaving(x)' <=> Leaving(x)
    BY <1>3 DEF Leaving, Refused
  <2>4. \A t \in Tabs : source[t] # Nothing => source[t][1] \in Sessions
    BY <1>0 DEF Bridges
  <2> QED BY <1>0, <1>3, <2>1, <2>2, <2>3, <2>4 DEF Rooms
<1>4. CASE Registers
  <2>1. /\ cmd # Nothing /\ cmd.op \in {"create", "attach"} /\ cmd.sess \in Sessions /\ cmd.tab \in Tabs
        /\ sink' = sink /\ cmd.sess \in sink
    BY <1>0, <1>4 DEF Registers, WireStill, Openers, OpenStages
  <2>2. \A x \in Sessions : /\ tabOf'[x] = IF x = cmd.sess THEN cmd.tab ELSE tabOf[x]
                            /\ ui'[x] = IF x = cmd.sess THEN cmd.tab ELSE ui[x]
    BY <1>0, <1>4 DEF Registers
  <2>3. \A t \in Tabs : source'[t] = IF t = cmd.tab THEN <<cmd.sess, opens[cmd.sess]>> ELSE source[t]
    BY <1>0, <1>4 DEF Registers
  <2>4. tabOf[cmd.sess] = Nothing
    BY <1>0, <1>4, <2>1 DEF Registers, Rooms, Handles, OpenStages
  <2>5. \A x \in Sessions : ~Leaving(x)
    BY <2>1 DEF Leaving
  <2>6. \A x \in Sessions : tabOf'[x] # Nothing => ui'[x] = tabOf'[x] /\ x \in sink'
    BY <1>0, <2>1, <2>2, <2>5 DEF Rooms
  <2>7. ASSUME NEW t \in Tabs, source'[t] # Nothing PROVE tabOf'[source'[t][1]] = t
    <3>1. CASE t = cmd.tab
      BY <2>1, <2>2, <2>3, <3>1
    <3>2. CASE t # cmd.tab
      <4>1. source'[t] = source[t] /\ source[t] # Nothing /\ source[t][1] \in Sessions
        BY <1>0, <2>3, <2>7, <3>2 DEF Bridges
      <4> QED BY <1>0, <2>2, <2>4, <4>1 DEF Rooms
    <3> QED BY <3>1, <3>2
  <2> QED BY <2>6, <2>7 DEF Rooms
<1>5. CASE ReaderWorks
  <2>1. "reader" \in Threads /\ hand.frame.sess \in Sessions /\ UNCHANGED <<ui, sink, cmd, answer, wire>>
    BY <1>5, Apart DEF ReaderWorks, WireStill, MainStill
  <2>2. pc["reader"] = "died" => DyingOf("reader", hand.frame.sess)
    BY <1>0 DEF Removing
  <2>3. TakesRow("reader") => pc["reader"] = "died"
    BY DEF TakesRow
  <2> QED BY <1>1, <1>2, <1>3, <1>5, <2>1, <2>2, <2>3 DEF ReaderWorks, StopsShares
<1>6. CASE MainWorks
  <2>1. "main" \in Threads /\ cmd.sess \in Sessions /\ UNCHANGED <<ui, sink, cmd, answer, wire>>
    BY <1>6, Apart DEF MainWorks, WireStill
  <2>2. pc["main"] = "died" => DyingOf("main", cmd.sess)
    BY <1>0 DEF Removing
  <2>3. TakesRow("main") => pc["main"] = "died"
    BY DEF TakesRow
  <2> QED BY <1>1, <1>2, <1>3, <1>6, <2>1, <2>2, <2>3 DEF MainWorks, StopsShares
<1> QED BY <1>1, <1>4, <1>5, <1>6, Effects DEF Rests, Prints, Exits, TakesAnswer, TakesEvent, Hears, ReaderDrops,
      Forgets, Asks, Fails, Installs, Goes, MainDrops, DropsAll, Sweeps

\* Rows and sources go, none comes.
Shrinks ==
  /\ \A x \in Sessions : tabOf'[x] \in {Nothing, tabOf[x]}
  /\ \A t \in Tabs : source'[t] \in {Nothing, source[t]}

LEMMA DyingWorks ==
  ASSUME TypeInv, Rooms, TabsApart, NEW a \in Threads, NEW s \in Sessions,
         LooksUp(a, s) \/ (DyingOf(a, s) /\ (TakesRow(a) \/ StopsShares(a)))
  PROVE  Shrinks /\ DyingOf(a, s)'
<1>0. /\ tabOf \in [Sessions -> Tabs \cup {Nothing}] /\ source \in [Tabs -> Bridges \cup {Nothing}]
      /\ Nothing \notin Tabs
  BY ActorsAssumption DEF TypeInv, GlueTypes
<1>1. CASE LooksUp(a, s)
  <2>1. Shrinks /\ UNCHANGED tabOf
    BY <1>0, <1>1 DEF LooksUp, Shrinks
  <2>2. tabOf[s] # Nothing => \A x \in Sessions : tabOf[x] = tabOf[s] => x = s
    BY <1>0 DEF Rooms, TabsApart
  <2> QED BY <1>0, <1>1, <2>1, <2>2 DEF LooksUp, DyingOf
<1>2. CASE DyingOf(a, s) /\ TakesRow(a)
  <2>1. Shrinks
    BY <1>0, <1>2 DEF TakesRow, Shrinks
  <2>2. tabOf'[s] = Nothing /\ pc'[a] # "died"
    BY <1>0, <1>2 DEF TakesRow, DyingOf
  <2> QED BY <2>1, <2>2 DEF DyingOf
<1>3. CASE DyingOf(a, s) /\ StopsShares(a)
  BY <1>0, <1>3 DEF StopsShares, GlueStill, Shrinks, DyingOf
<1> QED BY <1>1, <1>2, <1>3

LEMMA DyingRests ==
  ASSUME TypeInv, NEW a \in Threads, NEW s \in Sessions, pc'[a] = pc[a], dying'[a] = dying[a],
         DyingOf(a, s), Shrinks
  PROVE  DyingOf(a, s)'
<1>1. pc[a] = "died" => dying[a].tab \in Tabs
  BY DEF TypeInv, Handling
<1>2. Nothing \notin Tabs
  BY ActorsAssumption
<1> QED BY <1>1, <1>2 DEF DyingOf, Shrinks

\* Only the command that opens a terminal adds a row.
LEMMA RowsShrink ==
  ASSUME TypeInv, RowsInv, Clean, [Next]_vars, ~Registers
  PROVE  Shrinks
<1>0. Rooms /\ TabsApart /\ Removing
  BY DEF RowsInv
<1>1. GlueStill => Shrinks
  BY DEF GlueStill, Shrinks
<1>2. ReaderWorks => Shrinks
  BY <1>0, Apart, DyingWorks DEF ReaderWorks, Removing, TakesRow, StopsShares
<1>3. MainWorks => Shrinks
  BY <1>0, Apart, DyingWorks DEF MainWorks, Removing, TakesRow, StopsShares
<1> QED BY <1>1, <1>2, <1>3, Effects DEF Rests, Prints, Exits, TakesAnswer, TakesEvent, Hears, ReaderDrops,
      Forgets, Asks, Fails, Installs, Goes, MainDrops, DropsAll, Sweeps

LEMMA RemovingStep == TypeInv /\ RowsInv /\ [Next]_vars /\ Clean' => Removing'
<1> SUFFICES ASSUME TypeInv, RowsInv, [Next]_vars, Clean' PROVE Removing'
  OBVIOUS
<1>0. /\ Clean /\ Rooms /\ TabsApart /\ Removing /\ Gone /\ "main" \in Threads /\ "reader" \in Threads
      /\ tabOf \in [Sessions -> Tabs \cup {Nothing}] /\ source \in [Tabs -> Bridges \cup {Nothing}]
  BY CleanBefore, Apart DEF RowsInv, TypeInv, GlueTypes
<1>1. pc'["main"] \in {"died", "died_row", "unroute"} => DyingOf("main", cmd.sess)'
  <2> SUFFICES ASSUME pc'["main"] \in {"died", "died_row", "unroute"} PROVE DyingOf("main", cmd.sess)'
    OBVIOUS
  <2>1. CASE MainWorks
    <3>1. PICK s \in Sessions : s = cmd.sess
      BY <2>1 DEF MainWorks
    <3>2. DyingOf("main", s)'
      BY <1>0, <2>1, <3>1, DyingWorks DEF MainWorks, Removing, TakesRow, StopsShares
    <3> QED BY <2>1, <3>1, <3>2 DEF MainWorks, DyingOf
  <2>2. CASE MainStill /\ ~Registers
    <3>1. pc["main"] = pc'["main"] /\ cmd' = cmd
      BY <2>2 DEF MainStill
    <3>2. PICK s \in Sessions : s = cmd.sess
      BY <3>1 DEF TypeInv, Commanding
    <3>3. DyingOf("main", s)'
      BY <1>0, <2>2, <3>1, <3>2, RowsShrink, DyingRests DEF MainStill, Removing
    <3> QED BY <3>1, <3>2, <3>3 DEF DyingOf
  <2>3. MainWorks \/ (MainStill /\ ~Registers)
    <3>1. Registers => ~MainStill
      BY DEF Registers, MainStill
    <3> QED BY <3>1, Effects DEF Rests, Prints, Exits, TakesAnswer, TakesEvent, Hears, ReaderWorks, ReaderDrops,
          Forgets, Asks, Fails, Installs, Goes, Registers, MainDrops, DropsAll, Sweeps
  <2> QED BY <2>1, <2>2, <2>3
<1>2. pc'["reader"] \in {"died", "died_row", "unroute", "forget"} => DyingOf("reader", hand.frame.sess)'
  <2> SUFFICES ASSUME pc'["reader"] \in {"died", "died_row", "unroute", "forget"}
               PROVE  DyingOf("reader", hand.frame.sess)'
    OBVIOUS
  <2>1. CASE ReaderWorks
    <3>1. PICK s \in Sessions : s = hand.frame.sess
      BY <2>1 DEF ReaderWorks
    <3>2. DyingOf("reader", s)'
      BY <1>0, <2>1, <3>1, DyingWorks DEF ReaderWorks, Removing, TakesRow, StopsShares
    <3> QED BY <2>1, <3>1, <3>2 DEF ReaderWorks, DyingOf
  <2>2. CASE ReaderDrops
    BY <1>0, <2>2 DEF ReaderDrops, Removing, GlueStill, DyingOf
  <2>3. CASE ReaderStill
    <3>1. pc["reader"] = pc'["reader"] /\ hand' = hand /\ dying'["reader"] = dying["reader"]
      BY <2>3 DEF ReaderStill
    <3>2. PICK s \in Sessions : s = hand.frame.sess /\ Past(s)
      BY <3>1, HandedFrame DEF TypeInv, Handling, Past, Handed
    <3>3. DyingOf("reader", s)
      BY <1>0, <3>1, <3>2 DEF Removing
    <3>4. DyingOf("reader", s)'
      <4>1. CASE ~Registers
        BY <1>0, <3>1, <3>3, <4>1, RowsShrink, DyingRests
      <4>2. CASE Registers
        <5>1. cmd.sess # s
          BY <1>0, <3>2, <4>2 DEF Registers, Gone, OpenStages
        <5>2. pc["reader"] = "died" => cmd.tab # dying["reader"].tab
          BY <1>0, <4>2 DEF Registers, Removing, OpenStages
        <5>3. /\ \A x \in Sessions : tabOf'[x] = IF x = cmd.sess THEN cmd.tab ELSE tabOf[x]
              /\ \A t \in Tabs : t # cmd.tab => source'[t] = source[t]
          BY <1>0, <4>2 DEF Registers
        <5>4. pc["reader"] = "died" => dying["reader"].tab \in Tabs
          BY <1>0 DEF TypeInv, Handling
        <5> QED BY <3>1, <3>3, <5>1, <5>2, <5>3, <5>4 DEF DyingOf
      <4> QED BY <4>1, <4>2
    <3> QED BY <3>1, <3>2, <3>4 DEF DyingOf
  <2> QED BY <2>1, <2>2, <2>3, Effects DEF Rests, Prints, Exits, TakesAnswer, TakesEvent, Hears, Forgets, Asks,
        Fails, Installs, Goes, Registers, MainWorks, MainDrops, DropsAll, Sweeps
<1>3. pc'["reader"] = "died" /\ cmd' # Nothing /\ cmd'.op \in {"create", "attach"}
        /\ (pc'["main"] \in OpenStages \/ answer' # Nothing) => cmd'.tab # dying'["reader"].tab
  <2>1. CASE ReaderWorks
    <3>1. pc'["reader"] = "died" => LooksUp("reader", hand.frame.sess)
      BY <2>1 DEF ReaderWorks, TakesRow, StopsShares
    <3>2. hand.frame.sess \in Sessions /\ cmd' = cmd
      BY <2>1 DEF ReaderWorks, MainStill
    <3>3. Nothing \notin Tabs
      BY ActorsAssumption
    <3> QED BY <1>0, <3>1, <3>2, <3>3 DEF LooksUp, Rooms, TabsApart
  <2>2. CASE ReaderStill
    <3>1. CASE UNCHANGED <<cmd, answer>> /\ (pc'["main"] \in OpenStages => pc["main"] \in OpenStages)
      BY <1>0, <2>2, <3>1 DEF Removing, ReaderStill
    <3>2. CASE Installs
      BY <1>0, <2>2, <3>2 DEF Removing, ReaderStill, Installs
    <3>3. CASE cmd' = Nothing \/ cmd'.op = "share_stop" \/ (pc'["main"] = "wait" /\ answer' = Nothing)
      BY <3>3 DEF OpenStages
    <3>4. CASE TakesAnswer \/ TakesEvent
      BY <2>2, <3>4 DEF TakesAnswer, TakesEvent, ReaderStill
    <3>5. CASE Rests \/ Prints \/ (\E s \in Sessions : Exits(s)) \/ Hears \/ ReaderWorks \/ ReaderDrops \/ Forgets
               \/ Goes \/ MainWorks
      BY <3>1, <3>5 DEF Rests, Prints, Exits, Hears, ReaderWorks, ReaderDrops, Forgets, Goes, MainWorks, MainStill,
         LooksUp, TakesRow, StopsShares, OpenStages
    <3>6. CASE (\E f : Asks(f)) \/ Fails \/ Registers \/ MainDrops \/ DropsAll \/ Sweeps
      BY <3>3, <3>6 DEF Asks, Fails, Registers, MainDrops, DropsAll, Sweeps
    <3> QED BY <3>2, <3>4, <3>5, <3>6, Effects
  <2> QED BY <2>1, <2>2, Effects DEF Rests, Prints, Exits, TakesAnswer, TakesEvent, Hears, ReaderDrops, Forgets, Asks,
        Fails, Installs, Goes, Registers, MainWorks, MainDrops, DropsAll, Sweeps
<1> QED BY <1>1, <1>2, <1>3 DEF Removing

LEMMA RemovedStep == TypeInv /\ RowsInv /\ [Next]_vars /\ Clean' => Removed'
<1> SUFFICES ASSUME TypeInv, RowsInv, [Next]_vars, Clean' PROVE Removed'
  OBVIOUS
<1>0. /\ Clean /\ Removed /\ Removing /\ Gone /\ bridges \in [Sessions -> Nat]
      /\ tabOf \in [Sessions -> Tabs \cup {Nothing}] /\ exited \subseteq Sessions
  BY CleanBefore DEF RowsInv, TypeInv, GlueTypes, RouteTypes
\* The reader's session, when it is about to be forgotten.
<1>1. pc["reader"] = "forget" => hand.frame.sess \in Sessions /\ Past(hand.frame.sess)
  BY HandedFrame DEF TypeInv, Handling, Past, Handed
<1>2. ~Registers => \A s \in Sessions : tabOf'[s] \in {Nothing, tabOf[s]}
  BY <1>0, RowsShrink DEF Shrinks
<1>3. CASE RouteStill /\ ~Registers /\ UNCHANGED exited
           /\ (pc'["reader"] = "forget" => pc["reader"] = "forget" /\ hand' = hand)
  BY <1>0, <1>2, <1>3 DEF RouteStill, Removed
<1>4. CASE ReaderDrops
  BY <1>0, <1>4 DEF ReaderDrops, GlueStill, Removed
<1>5. CASE Forgets
  <2>1. tabOf[hand.frame.sess] = Nothing /\ bridges[hand.frame.sess] = 0
    BY <1>0, <1>5 DEF Forgets, Removing, Removed, DyingOf
  <2> QED BY <1>0, <1>5, <2>1 DEF Forgets, GlueStill, Removed
<1>6. CASE Installs
  <2>1. \A s \in Sessions : Past(s) => s # answer.sess
    BY <1>0, <1>6 DEF Installs, Gone
  <2> QED BY <1>0, <1>1, <1>6, <2>1 DEF Installs, ReaderStill, GlueStill, Removed, Past
<1>7. CASE Registers
  <2>1. \A s \in Sessions : Past(s) => s # cmd.sess
    BY <1>0, <1>7 DEF Registers, Gone, OpenStages
  <2> QED BY <1>0, <1>1, <1>7, <2>1 DEF Registers, ReaderStill, RouteStill, Removed, Past
<1>8. CASE MainDrops \/ DropsAll
  BY <1>0, <1>1, <1>8 DEF MainDrops, DropsAll, ReaderStill, GlueStill, Removed
<1>9. CASE Hears \/ ReaderWorks \/ TakesEvent
  <2>1. pc'["reader"] # "forget" /\ UNCHANGED exited /\ RouteStill /\ ~Registers
    BY <1>9 DEF Hears, ReaderWorks, TakesEvent, LooksUp, TakesRow, StopsShares, Registers, MainStill
  <2> QED BY <1>3, <2>1
<1>10. CASE Rests \/ Prints \/ (\E s \in Sessions : Exits(s)) \/ TakesAnswer \/ (\E f : Asks(f)) \/ Fails
            \/ Goes \/ MainWorks \/ Sweeps
  <2>1. ReaderStill /\ RouteStill
    BY <1>10 DEF Rests, Prints, Exits, TakesAnswer, Asks, Fails, Goes, MainWorks, Sweeps
  <2> QED BY <1>3, <1>7, <2>1 DEF ReaderStill
<1> QED BY <1>4, <1>5, <1>6, <1>7, <1>8, <1>9, <1>10, Effects

LEMMA RowsStep == TypeInv /\ RowsInv /\ [Next]_vars => RowsInv'
BY CleanBefore, ExitEndsStep, ExitLastStep, OpenersStep, ExitingStep, TabsApartStep, HandlesStep, GoneStep,
   RoomsStep, RemovingStep, RemovedStep DEF RowsInv

LEMMA RowsInit == Init => RowsInv
<1> SUFFICES ASSUME Init PROVE RowsInv
  OBVIOUS
<1>1. /\ pc["main"] = "idle" /\ pc["reader"] = "idle" /\ wire = <<>> /\ cmd = Nothing /\ hand = Nothing
      /\ answer = Nothing /\ sink = {} /\ exited = {}
      /\ \A s \in Sessions : run[s] = "none" /\ opens[s] = 0 /\ ui[s] = "none" /\ tabOf[s] = Nothing
      /\ \A t \in Tabs : source[t] = Nothing
  BY Apart DEF Init
<1>2. "none" \notin Tabs
  BY ActorsAssumption
<1>3. ExitEnds /\ ExitLast /\ Openers /\ Exiting /\ TabsApart /\ Handles
  BY <1>1, <1>2 DEF ExitEnds, ExitLast, Openers, Exiting, Killing, TabsApart, Handles, Handed, OpenStages
<1>4. Gone /\ Rooms /\ Removing /\ Removed
  BY <1>1 DEF Gone, Rooms, Removing, Removed, Past, Handed, OpenStages
<1> QED BY <1>3, <1>4 DEF RowsInv

(* When an Exit was handled nothing names its session any more, unless it  *)
(* came while the command that opens the session was at work: bridges,     *)
(* generations, session_tabs and sources are emptied in three places of    *)
(* two threads (the Exit branch of the helper callback, tab_runtime_died,  *)
(* term_detach and term_kill).                                             *)
THEOREM RowsOfLivingCorrect == Spec => []RowsOfLiving
<1>1. TypeInv /\ RowsInv => RowsOfLiving
  <2> SUFFICES ASSUME TypeInv, RowsInv, Quiet, NoEarlyExit, NEW s \in exited
               PROVE  /\ s \notin gens /\ bridges[s] = 0 /\ tabOf[s] = Nothing
                      /\ \A t \in Tabs : source[t] = Nothing \/ source[t][1] # s
    BY DEF RowsOfLiving
  <2>1. hand = Nothing /\ exited \subseteq Sessions
    BY DEF TypeInv, Handling, Quiet, RouteTypes
  <2>2. Clean
    BY <2>1 DEF Clean, Past, Handed, NoEarlyExit
  <2>3. Removed /\ Rooms
    BY <2>2 DEF RowsInv
  <2>4. Nothing \notin Tabs
    BY ActorsAssumption
  <2> QED BY <2>3, <2>4 DEF Removed, Rooms
<1> QED BY <1>1, RowsStep, RowsInit, TypeAlways, PTL DEF Spec

-----------------------------------------------------------------------------
(* The shares and what carries them.                                       *)

Active(p) == pc[p] \in {"reserved", "bound", "checked"}

\* A start holds its tab's reservation, alone; a share is listed and bound by
\* its own start, which also inserts its row and is done with that.
Reserving ==
  /\ \A p \in Sharers : Active(p) => task[p].tab \in starting
  /\ \A p, q \in Sharers : Active(p) /\ Active(q) /\ task[p].tab = task[q].tab => p = q
Listing ==
  \A p \in Sharers :
    /\ p \in hub \/ bound[p] # Nothing => pc[p] \in {"bound", "checked", "done"}
    /\ pc[p] \in {"bound", "checked"} => bound[p] \in {Nothing, task[p].src}
    /\ (\E s \in Sessions : <<p, s>> \in rows) => pc[p] = "done"

\* The bridge that is being installed is not the source of a tab or a start yet.
Made(b) ==
  /\ b[2] <= opens[b[1]]
  /\ pc["main"] \in OpenStages /\ cmd.sess = b[1] => b[2] < opens[b[1]]
Known ==
  /\ \A t \in Tabs : source[t] # Nothing => Made(source[t])
  /\ \A p \in Sharers : Active(p) => Made(task[p].src)

\* A start looked its session up with the source, and no other tab has that.
Sourced ==
  \A p \in Sharers : Active(p) =>
    /\ task[p].src[1] = task[p].sess
    /\ \A t \in Tabs : source[t] = task[p].src => t = task[p].tab

\* A share that was started, is live and did not lose its tab on the way.
Standing(q) == pc[q] = "done" /\ q \in hub \ raced

\* Nothing but its own share is carried by the bridge a start works for.
Alone ==
  \A p, q \in Sharers : Active(p) /\ p # q =>
    /\ Active(q) => task[q].src # task[p].src
    /\ Standing(q) => bound[q] # task[p].src

\* The source is bound until the tab's runtime dies, and it has not by the last check.
Current ==
  \A p \in Sharers :
    /\ pc[p] \in {"bound", "checked"} /\ p \in hub /\ source[task[p].tab] = task[p].src
         => bound[p] = task[p].src
    /\ pc[p] = "checked" /\ p \notin raced => source[task[p].tab] = task[p].src

\* Somebody is about to stop the shares of session s.
DoomedBy(a, s) ==
  \/ pc[a] = "died" /\ tabOf[s] = dying[a].tab
  \/ pc[a] = "died_row" /\ dying[a].sess = s
Swept(s) == pc["main"] = "sweep" /\ tabOf[s] = cmd.tab
Doomed(s) == Swept(s) \/ \E a \in Threads : DoomedBy(a, s)

Carried(q) == \E t \in Tabs : source[t] # Nothing /\ source[t] = bound[q]

\* A share has its row and is fed by that session's source, or it is stopped.
FedBy(q, s) ==
  /\ <<q, s>> \in rows /\ (bound[q] # Nothing => bound[q][1] = s)
  /\ Carried(q) \/ Doomed(s)
Fed == \A q \in Sharers : Standing(q) => \E s \in Sessions : FedBy(q, s)

SharesInv ==
  /\ Reserving /\ Listing /\ Known
  /\ Clean => Sourced /\ Alone /\ Current /\ Fed

-----------------------------------------------------------------------------
(* What a step does to the shares.                                         *)

SharersStill == \A p \in Sharers : pc'[p] = pc[p]
StartsStill == UNCHANGED <<starting, task>> /\ SharersStill
DoomStays == \A s \in Sessions : Doomed(s) => Doomed(s)'

Leaves ==
  UNCHANGED <<rows, hub, bound, raced, source>> /\ StartsStill /\ (TabsApart /\ Rooms => DoomStays)

\* An Exit is dispatched to bridge b.
Cuts(b) ==
  /\ hub' = hub \ {p \in Sharers : bound[p] = b} /\ bound' = Unbound(b)
  /\ UNCHANGED <<rows, raced, source>> /\ StartsStill /\ DoomStays

\* The share of tab t loses its source: its runtime dies or its share is stopped.
Unbinds(t) ==
  /\ bound' = IF source[t] = Nothing THEN bound ELSE Unbound(source[t])
  /\ \/ /\ source' = [source EXCEPT ![t] = Nothing]
        /\ raced' = raced \cup {p \in Sharers : pc[p] = "checked" /\ task[p].tab = t}
     \/ UNCHANGED <<source, raced>> /\ t \notin starting
  /\ UNCHANGED <<rows, hub>> /\ StartsStill /\ DoomStays
  /\ \A s \in Sessions : tabOf[s] = t => Doomed(s)'

\* The shares of session s are stopped.
Ends(s) ==
  /\ \A p \in hub' : p \in hub /\ <<p, s>> \notin rows
  /\ \A r \in rows : r[2] # s => r \in rows'
  /\ hub' \subseteq hub /\ rows' \subseteq rows
  /\ UNCHANGED <<bound, raced, source>> /\ StartsStill
  /\ TabsApart /\ Rooms => \A x \in Sessions : x # s /\ Doomed(x) => Doomed(x)'

\* A step of the share_start p, which leaves the others where they are.
Starts(p, l) ==
  /\ pc'[p] = l /\ \A q \in Sharers : q # p => pc'[q] = pc[q] /\ task'[q] = task[q]
  /\ UNCHANGED <<raced, source, tabOf>> /\ DoomStays /\ MainStill

Reserves(p, t, s) ==
  /\ pc[p] = "idle" /\ t \notin starting /\ starting' = starting \cup {t}
  /\ source[t] \in Bridges /\ tabOf[s] = t /\ \A r \in rows : r[2] # s
  /\ task'[p] = [tab |-> t, src |-> source[t], sess |-> s]
  /\ UNCHANGED <<rows, hub, bound>> /\ Starts(p, "reserved")

Binds(p) ==
  /\ pc[p] = "reserved" /\ hub' = hub \cup {p}
  /\ \A q \in Sharers : bound'[q] = IF q = p THEN task[p].src ELSE Unbound(task[p].src)[q]
  /\ UNCHANGED <<rows, starting, task>> /\ Starts(p, "bound")

Passes(p) ==
  /\ pc[p] = "bound" /\ source[task[p].tab] = task[p].src
  /\ UNCHANGED <<rows, hub, bound, starting, task>> /\ Starts(p, "checked")

GivesUp(p) ==
  /\ \/ pc[p] = "reserved" /\ UNCHANGED <<hub, bound>>
     \/ pc[p] = "bound" /\ hub' = hub \ {p} /\ bound' = Unbound(task[p].src)
  /\ starting' = starting \ {task[p].tab} /\ UNCHANGED rows /\ Starts(p, "idle")

Inserts(p) ==
  /\ pc[p] = "checked" /\ rows' = rows \cup {<<p, task[p].sess>>}
  /\ starting' = starting \ {task[p].tab} /\ UNCHANGED <<hub, bound>> /\ Starts(p, "done")

LEMMA ThreadGoes ==
  ASSUME TypeInv, NEW a \in Threads, (\E l : Goto(a, l)) \/ UNCHANGED pc
  PROVE  SharersStill /\ \A b \in Threads : b # a => pc'[b] = pc[b]
<1>1. \A p \in Sharers : p # a /\ p \in Threads \cup Sharers
  BY ActorsAssumption
<1> QED BY <1>1, Going DEF TypeInv, SharersStill

\* A thread that is not at it stops no share.
LEMMA DoomKept ==
  ASSUME NEW a \in Threads, pc[a] \notin {"died", "died_row", "sweep"}, UNCHANGED tabOf,
         \A b \in Threads : b # a => pc'[b] = pc[b] /\ dying'[b] = dying[b],
         a = "main" \/ UNCHANGED cmd
  PROVE  DoomStays
<1>1. "main" \in Threads
  BY Apart
<1>2. ASSUME NEW s \in Sessions, Swept(s) PROVE Swept(s)'
  BY <1>1, <1>2 DEF Swept
<1>3. ASSUME NEW s \in Sessions, NEW b \in Threads, DoomedBy(b, s) PROVE DoomedBy(b, s)'
  BY <1>3 DEF DoomedBy
<1> QED BY <1>2, <1>3 DEF DoomStays, Doomed

LEMMA DoomSame ==
  ASSUME UNCHANGED <<tabOf, dying, cmd>>, \A a \in Threads : pc'[a] = pc[a]
  PROVE  DoomStays
<1>1. "main" \in Threads
  BY Apart
<1> QED BY <1>1 DEF DoomStays, Doomed, Swept, DoomedBy

LEMMA HelperShares ==
  ASSUME TypeInv, HelperStep
  PROVE  Leaves
<1>1. UNCHANGED <<rows, hub, bound, raced, source, starting, task, tabOf, dying, cmd, pc>>
  BY DEF HelperStep, HelperOutputs, HelperExits, glueVars, startVars, histVars, localVars
<1> QED BY <1>1, DoomSame DEF Leaves, StartsStill, SharersStill

\* What a thread's step leaves alone, when it leaves the shares alone.
ShareFrame == UNCHANGED <<rows, hub, bound, raced, source, starting, task>>

LEMMA QuietThread ==
  ASSUME TypeInv, NEW a \in Threads, (\E l : Goto(a, l)) \/ UNCHANGED pc,
         pc[a] \notin {"died", "died_row", "sweep"}, ShareFrame, UNCHANGED <<tabOf, dying>>,
         a = "main" \/ UNCHANGED cmd
  PROVE  Leaves
BY ThreadGoes, DoomKept DEF Leaves, StartsStill, ShareFrame

\* A frame that is delivered may be an Exit, on a bridge that carries a share.
LEMMA DeliverShares ==
  ASSUME TypeInv, NEW a \in Threads, NEW l, Goto(a, l), NEW f, NEW k, Deliver(f, k),
         pc[a] \notin {"died", "died_row", "sweep"},
         UNCHANGED <<rows, raced, source, starting, task, tabOf, dying, cmd>>
  PROVE  Leaves \/ \E b : Cuts(b)
<1>1. \/ UNCHANGED <<hub, bound>>
      \/ /\ hub' = hub \ {p \in Sharers : bound[p] = <<f.sess, k>>}
         /\ bound' = Unbound(<<f.sess, k>>)
  BY DEF Deliver, Push, Dispatch
<1>2. StartsStill /\ DoomStays
  BY ThreadGoes, DoomKept DEF StartsStill
<1> QED BY <1>1, <1>2 DEF Leaves, Cuts

LEMMA DiedShared ==
  ASSUME TypeInv, NEW a \in Threads, NEW s \in Sessions, Died(a, s, "unroute"),
         pc[a] \notin {"died", "died_row", "sweep"}
  PROVE  Leaves \/ \E t \in Tabs : Unbinds(t)
<1>0. dying \in [Threads -> [tab : Tabs \cup {Nothing}, sess : Sessions \cup {Nothing}]]
  BY DEF TypeInv, GlueTypes
<1>1. UNCHANGED <<tabOf, rows, hub, starting, task, cmd>>
  BY DEF Died, startVars
<1>2. CASE tabOf[s] = Nothing
  <2>1. Goto(a, "unroute") /\ UNCHANGED <<dying, bound, source, raced>>
    BY <1>2 DEF Died
  <2> QED BY <1>1, <2>1, QuietThread DEF ShareFrame
<1>3. CASE tabOf[s] # Nothing
  <2> DEFINE t == tabOf[s]
  <2>1. /\ t \in Tabs /\ Goto(a, "died")
        /\ dying' = [dying EXCEPT ![a] = [tab |-> t, sess |-> Nothing]]
        /\ bound' = IF source[t] = Nothing THEN bound ELSE Unbound(source[t])
        /\ source' = [source EXCEPT ![t] = Nothing]
        /\ raced' = raced \cup {p \in Sharers : pc[p] = "checked" /\ task[p].tab = t}
    BY <1>3 DEF Died, Die, TypeInv, GlueTypes
  <2> HIDE DEF t
  <2>2. pc'[a] = "died" /\ SharersStill /\ \A b \in Threads : b # a => pc'[b] = pc[b]
    BY <2>1, ThreadGoes, Going DEF TypeInv
  <2>3. dying'[a].tab = t /\ \A b \in Threads : b # a => dying'[b] = dying[b]
    BY <1>0, <2>1
  <2>4. DoomStays
    BY <1>1, <2>2, <2>3, DoomKept
  <2>5. \A x \in Sessions : tabOf[x] = t => Doomed(x)'
    BY <1>1, <2>2, <2>3 DEF Doomed, DoomedBy
  <2>6. Unbinds(t)
    BY <1>1, <2>1, <2>2, <2>4, <2>5 DEF Unbinds, StartsStill
  <2> QED BY <2>1, <2>6
<1> QED BY <1>2, <1>3

LEMMA RowShared ==
  ASSUME TypeInv, NEW a \in Threads, pc[a] = "died", DiedRow(a, "unroute")
  PROVE  Leaves
<1>0. /\ dying \in [Threads -> [tab : Tabs \cup {Nothing}, sess : Sessions \cup {Nothing}]]
      /\ tabOf \in [Sessions -> Tabs \cup {Nothing}]
  BY DEF TypeInv, GlueTypes
<1>1. ShareFrame /\ UNCHANGED cmd
  BY DEF DiedRow, ShareFrame, startVars, histVars
<1>2. \E l : Goto(a, l)
  BY DEF DiedRow
<1>3. StartsStill /\ \A b \in Threads : b # a => pc'[b] = pc[b]
  BY <1>1, <1>2, ThreadGoes DEF StartsStill, ShareFrame
<1>4. "main" \in Threads
  BY Apart
<1>5. CASE \A x \in Sessions : tabOf[x] # dying[a].tab
  <2>1. dying' = [dying EXCEPT ![a] = [tab |-> Nothing, sess |-> Nothing]] /\ UNCHANGED tabOf
    BY <1>5 DEF DiedRow, Rest, Die
  <2>2. \A b \in Threads : b # a => dying'[b] = dying[b]
    BY <1>0, <2>1
  <2>3. \A x \in Sessions : ~DoomedBy(a, x)
    BY <1>5 DEF DoomedBy
  <2>4. \A x \in Sessions, b \in Threads : DoomedBy(b, x) => DoomedBy(b, x)'
    BY <1>3, <2>1, <2>2, <2>3 DEF DoomedBy
  <2>5. \A x \in Sessions : Swept(x) => Swept(x)'
    BY <1>1, <1>3, <1>4, <2>1 DEF Swept
  <2>6. DoomStays
    BY <2>4, <2>5 DEF DoomStays, Doomed
  <2> QED BY <1>1, <1>3, <2>6 DEF Leaves, ShareFrame
<1>6. CASE ~\A x \in Sessions : tabOf[x] # dying[a].tab
  <2>1. PICK s \in Sessions : /\ tabOf[s] = dying[a].tab /\ tabOf' = [tabOf EXCEPT ![s] = Nothing]
                              /\ dying' = [dying EXCEPT ![a].sess = s] /\ Goto(a, "died_row")
    BY <1>6 DEF DiedRow
  <2>2. pc'[a] = "died_row" /\ dying'[a].sess = s
    BY <1>0, <2>1, Going DEF TypeInv
  <2>3. Doomed(s)'
    BY <2>2 DEF Doomed, DoomedBy
  <2>4. \A b \in Threads : b # a => dying'[b] = dying[b]
    BY <1>0, <2>1
  <2>5. \A x \in Sessions : x # s => tabOf'[x] = tabOf[x]
    BY <1>0, <2>1
  <2>6. ASSUME TabsApart, Rooms PROVE DoomStays
    <3>1. \A x \in Sessions : tabOf[x] = dying[a].tab => x = s
      <4>1. dying[a].tab \in Tabs /\ Nothing \notin Tabs
        BY ActorsAssumption DEF TypeInv, Handling
      <4> QED BY <4>1, <2>1, <2>6 DEF TabsApart, Rooms
    <3>2. \A x \in Sessions, b \in Threads : x # s /\ DoomedBy(b, x) => DoomedBy(b, x)'
      BY <1>3, <2>4, <2>5, <3>1 DEF DoomedBy
    <3>3. \A x \in Sessions : x # s /\ Swept(x) => Swept(x)'
      BY <1>1, <1>3, <1>4, <2>5 DEF Swept
    <3> QED BY <2>3, <3>2, <3>3 DEF DoomStays, Doomed
  <2> QED BY <1>1, <1>3, <2>6 DEF Leaves, ShareFrame
<1> QED BY <1>5, <1>6

LEMMA SharesEnd ==
  ASSUME NEW s, StopSharesOf(s), rows \subseteq Sharers \X Sessions
  PROVE  /\ \A p \in hub' : p \in hub /\ <<p, s>> \notin rows
         /\ \A r \in rows : r[2] # s => r \in rows'
         /\ hub' \subseteq hub /\ rows' \subseteq rows
BY DEF StopSharesOf

LEMMA SharesShared ==
  ASSUME TypeInv, NEW a \in Threads, pc[a] = "died_row", DiedShares(a, "unroute")
  PROVE  \E s \in Sessions : Ends(s)
<1>0. /\ dying \in [Threads -> [tab : Tabs \cup {Nothing}, sess : Sessions \cup {Nothing}]]
      /\ rows \subseteq Sharers \X Sessions /\ dying[a].sess \in Sessions
  BY DEF TypeInv, GlueTypes, Handling
<1>1. /\ UNCHANGED <<bound, raced, source, starting, task, tabOf, cmd>>
      /\ Goto(a, "unroute") /\ dying' = [dying EXCEPT ![a] = [tab |-> Nothing, sess |-> Nothing]]
      /\ StopSharesOf(dying[a].sess)
  BY DEF DiedShares, Rest, Die, startVars, histVars
<1>2. StartsStill /\ \A b \in Threads : b # a => pc'[b] = pc[b] /\ dying'[b] = dying[b]
  BY <1>0, <1>1, ThreadGoes DEF StartsStill
<1>3. ASSUME NEW x \in Sessions, x # dying[a].sess, Doomed(x) PROVE Doomed(x)'
  <2>1. "main" \in Threads
    BY Apart
  <2>2. Swept(x) => Swept(x)'
    BY <1>1, <1>2, <2>1 DEF Swept
  <2>3. \A b \in Threads : DoomedBy(b, x) => b # a /\ DoomedBy(b, x)'
    BY <1>1, <1>2, <1>3 DEF DoomedBy
  <2> QED BY <1>3, <2>2, <2>3 DEF Doomed
<1>4. Ends(dying[a].sess)
  BY <1>0, <1>1, <1>2, <1>3, SharesEnd DEF Ends
<1> QED BY <1>0, <1>4

LEMMA ReaderShares ==
  ASSUME TypeInv, Reader
  PROVE  Leaves \/ (\E b : Cuts(b)) \/ (\E t \in Tabs : Unbinds(t)) \/ \E s \in Sessions : Ends(s)
<1>0. "reader" \in Threads
  BY Apart
<1>1. CASE ReaderTakes
  <2>1. pc["reader"] = "idle" /\ ShareFrame /\ UNCHANGED <<tabOf, dying, cmd>>
    BY <1>1 DEF ReaderTakes, glueVars, startVars, ShareFrame
  <2>2. (\E l : Goto("reader", l)) \/ UNCHANGED pc
    BY <1>1 DEF ReaderTakes
  <2> QED BY <1>0, <2>1, <2>2, QuietThread
<1>2. CASE ReaderDelivers
  <2>1. /\ pc["reader"] = "deliver" /\ UNCHANGED <<rows, raced, source, starting, task, tabOf, dying, cmd>>
        /\ Deliver(hand.frame, hand.to) /\ \E l : Goto("reader", l)
    BY <1>2 DEF ReaderDelivers, startVars
  <2> QED BY <1>0, <2>1, DeliverShares
<1>3. CASE ReaderDies
  <2>1. CASE pc["reader"] = "lookup" /\ Died("reader", hand.frame.sess, "unroute")
    BY <1>0, <2>1, HandedFrame, DiedShared
  <2>2. CASE pc["reader"] = "died" /\ DiedRow("reader", "unroute")
    BY <1>0, <2>2, RowShared
  <2>3. CASE pc["reader"] = "died_row" /\ DiedShares("reader", "unroute")
    BY <1>0, <2>3, SharesShared
  <2> QED BY <1>3, <2>1, <2>2, <2>3 DEF ReaderDies
<1>4. CASE ReaderUnroutes
  <2>1. pc["reader"] = "unroute" /\ ShareFrame /\ UNCHANGED <<tabOf, dying, cmd>> /\ \E l : Goto("reader", l)
    BY <1>4 DEF ReaderUnroutes, glueVars, startVars, histVars, localVars, ShareFrame
  <2> QED BY <1>0, <2>1, QuietThread
<1>5. CASE ReaderForgets
  <2>1. pc["reader"] = "forget" /\ ShareFrame /\ UNCHANGED <<tabOf, dying, cmd>> /\ \E l : Goto("reader", l)
    BY <1>5 DEF ReaderForgets, glueVars, startVars, ShareFrame
  <2> QED BY <1>0, <2>1, QuietThread
<1> QED BY <1>1, <1>2, <1>3, <1>4, <1>5 DEF Reader

LEMMA OpenShares ==
  ASSUME TypeInv, CallStep \/ OpenStep
  PROVE  Leaves \/ (\E b : Cuts(b))
         \/ (Registers /\ UNCHANGED <<rows, hub, bound, raced>> /\ StartsStill /\ UNCHANGED dying)
<1>0. "main" \in Threads
  BY Apart
<1>1. CASE CallStep
  <2>1. pc["main"] = "idle" /\ ShareFrame /\ UNCHANGED <<tabOf, dying>> /\ \E l : Goto("main", l)
    BY <1>1 DEF CallStep, KillAll, Detach, Kill, Attach, Create, Call, glueVars, startVars, histVars, ShareFrame
  <2> QED BY <1>0, <2>1, QuietThread
<1>2. CASE Failed
  <2>1. pc["main"] = "wait" /\ ShareFrame /\ UNCHANGED <<tabOf, dying>> /\ \E l : Goto("main", l)
    BY <1>2 DEF Failed, glueVars, startVars, histVars, ShareFrame
  <2> QED BY <1>0, <2>1, QuietThread
<1>3. CASE Install
  <2>1. pc["main"] = "wait" /\ ShareFrame /\ UNCHANGED <<tabOf, dying>> /\ \E l : Goto("main", l)
    BY <1>3 DEF Install, Succeeded, glueVars, startVars, histVars, ShareFrame
  <2> QED BY <1>0, <2>1, QuietThread
<1>4. CASE FlushTakes
  <2>1. pc["main"] = "flush" /\ ShareFrame /\ UNCHANGED <<tabOf, dying>> /\ \E l : Goto("main", l)
    BY <1>4 DEF FlushTakes, glueVars, startVars, histVars, ShareFrame
  <2> QED BY <1>0, <2>1, QuietThread
<1>5. CASE FlushDelivers
  <2>1. /\ pc["main"] = "flushing" /\ UNCHANGED <<rows, raced, source, starting, task, tabOf, dying, cmd>>
        /\ Deliver(Head(flushed), bridges[cmd.sess]) /\ \E l : Goto("main", l)
    BY <1>5 DEF FlushDelivers, startVars
  <2> QED BY <1>0, <2>1, DeliverShares
<1>6. CASE Replay
  <2>1. pc["main"] = "replay" /\ ShareFrame /\ UNCHANGED <<tabOf, dying>> /\ \E l : Goto("main", l)
    BY <1>6 DEF Replay, glueVars, startVars, histVars, localVars, ShareFrame
  <2> QED BY <1>0, <2>1, QuietThread
<1>7. CASE Register
  <2>1. UNCHANGED <<rows, hub, bound, raced, starting, task, dying>> /\ \E l : Goto("main", l)
    BY <1>7 DEF Register, Return, startVars, histVars
  <2>2. pc["main"] = "register" /\ pc'["main"] = "idle"
    BY <1>7, AtMain DEF Register, Return
  <2>3. Registers
    <3>1. ~Fails /\ ~Installs /\ ~Goes
      BY <2>2 DEF Fails, Installs, Goes
    <3> QED BY <1>7, <3>1, OpenEffect DEF OpenStep
  <2> QED BY <1>0, <2>1, <2>3, ThreadGoes DEF StartsStill
<1> QED BY <1>1, <1>2, <1>3, <1>4, <1>5, <1>6, <1>7 DEF OpenStep

LEMMA CloseShares ==
  ASSUME TypeInv, CloseStep
  PROVE  Leaves \/ (\E t \in Tabs : Unbinds(t)) \/ \E s \in Sessions : Ends(s)
<1>0. "main" \in Threads /\ GlueTypes
  BY Apart DEF TypeInv
<1>1. CASE MainDies
  <2>1. CASE (Succeeded("detach") \/ Succeeded("kill")) /\ Died("main", cmd.sess, "unroute")
    <3>1. pc["main"] = "wait" /\ cmd.op \in {"detach", "kill"}
      BY <2>1 DEF Succeeded
    <3>2. cmd.sess \in Sessions
      BY <3>1 DEF TypeInv, Commanding, RequestTypes, Commands
    <3> QED BY <1>0, <2>1, <3>1, <3>2, DiedShared
  <2>2. CASE pc["main"] = "died" /\ DiedRow("main", "unroute")
    BY <1>0, <2>2, RowShared
  <2>3. CASE pc["main"] = "died_row" /\ DiedShares("main", "unroute")
    BY <1>0, <2>3, SharesShared
  <2> QED BY <1>1, <2>1, <2>2, <2>3 DEF MainDies
<1>2. CASE Unroute
  <2>1. pc["main"] = "unroute" /\ ShareFrame /\ UNCHANGED <<tabOf, dying>> /\ \E l : Goto("main", l)
    BY <1>2 DEF Unroute, Return, glueVars, startVars, histVars, ShareFrame
  <2> QED BY <1>0, <2>1, QuietThread
<1>3. CASE KilledAll
  <2>1. pc["main"] = "wait" /\ ShareFrame /\ UNCHANGED <<tabOf, dying>> /\ \E l : Goto("main", l)
    BY <1>3 DEF KilledAll, Succeeded, glueVars, startVars, ShareFrame
  <2> QED BY <1>0, <2>1, QuietThread
<1>4. ASSUME NEW t \in Tabs, ShareStop(t) PROVE Unbinds(t)
  <2>1. /\ pc["main"] = "idle" /\ t \notin starting /\ UNCHANGED <<tabOf, dying>>
        /\ bound' = IF source[t] = Nothing THEN bound ELSE Unbound(source[t])
        /\ UNCHANGED <<source, raced, rows, hub, starting, task>> /\ Goto("main", "sweep")
        /\ cmd' = [op |-> "share_stop", sess |-> Nothing, tab |-> t]
    BY <1>4 DEF ShareStop, startVars, histVars
  <2>2. StartsStill /\ DoomStays
    BY <1>0, <2>1, ThreadGoes, DoomKept DEF StartsStill
  <2>3. \A s \in Sessions : tabOf[s] = t => Doomed(s)'
    BY <2>1, AtMain DEF Doomed, Swept
  <2> QED BY <2>1, <2>2, <2>3 DEF Unbinds
<1>5. CASE ShareSweep
  <2>1. /\ pc["main"] = "sweep" /\ UNCHANGED <<tabOf, source, bound, starting, task, raced, dying>>
        /\ Goto("main", "idle")
    BY <1>5 DEF ShareSweep, startVars, histVars
  <2>2. StartsStill /\ \A b \in Threads : b # "main" => pc'[b] = pc[b]
    BY <1>0, <2>1, ThreadGoes DEF StartsStill
  <2>3. \A b \in Threads, x \in Sessions : DoomedBy(b, x) => DoomedBy(b, x)'
    BY <2>1, <2>2 DEF DoomedBy
  <2>4. CASE (\A s \in Sessions : tabOf[s] # cmd.tab) /\ UNCHANGED <<rows, hub>>
    BY <2>1, <2>2, <2>3, <2>4 DEF Leaves, DoomStays, Doomed, Swept
  <2>5. ASSUME NEW s \in Sessions, tabOf[s] = cmd.tab, StopSharesOf(s) PROVE Ends(s)
    <3>1. cmd.tab \in Tabs /\ Nothing \notin Tabs
      BY <2>1, ActorsAssumption DEF TypeInv, Commanding
    <3>2. TabsApart /\ Rooms => \A x \in Sessions : tabOf[x] = cmd.tab => x = s
      BY <2>5, <3>1 DEF TabsApart, Rooms
    <3> QED BY <1>0, <2>1, <2>2, <2>3, <2>5, <3>2, SharesEnd DEF Ends, Doomed, Swept, GlueTypes
  <2> QED BY <1>5, <2>4, <2>5 DEF ShareSweep
<1> QED BY <1>1, <1>2, <1>3, <1>4, <1>5 DEF CloseStep

LEMMA StartShares ==
  ASSUME TypeInv, ShareStep
  PROVE  \E p \in Sharers :
           \/ \E t \in Tabs, s \in Sessions : Reserves(p, t, s)
           \/ Binds(p) \/ Passes(p) \/ GivesUp(p) \/ Inserts(p)
<1>0. /\ GlueTypes /\ task \in [Sharers -> [tab : Tabs, src : Bridges, sess : Sessions] \cup {Nothing}]
      /\ bound \in [Sharers -> Bridges \cup {Nothing}]
  BY DEF TypeInv, GlueTypes
<1>1. ASSUME NEW p \in Sharers, NEW l, Goto(p, l), UNCHANGED startFrame,
             \A q \in Sharers : q # p => task'[q] = task[q]
      PROVE  Starts(p, l)
  <2>1. pc'[p] = l /\ (\A q \in Sharers : q # p => pc'[q] = pc[q]) /\ \A a \in Threads : pc'[a] = pc[a]
    BY <1>1, Going, ActorsAssumption DEF TypeInv
  <2>2. UNCHANGED <<raced, source, tabOf, dying, cmd, answer, ui, opens>>
    BY <1>1 DEF startFrame, clientVars, viewVars, histVars, localVars
  <2>3. DoomStays
    BY <2>1, <2>2, DoomSame
  <2>4. MainStill
    BY <2>1, <2>2, Apart DEF MainStill
  <2> QED BY <1>1, <2>1, <2>2, <2>3, <2>4 DEF Starts
<1>2. ASSUME NEW p \in Sharers, NEW t \in Tabs, StartReserve(p, t)
      PROVE  \E s \in Sessions : Reserves(p, t, s)
  <2>1. PICK s \in Sessions \ {r[2] : r \in rows} :
          tabOf[s] = t /\ task' = [task EXCEPT ![p] = [tab |-> t, src |-> source[t], sess |-> s]]
    BY <1>2 DEF StartReserve
  <2>2. Starts(p, "reserved")
    BY <1>0, <1>1, <1>2, <2>1 DEF StartReserve
  <2>3. source[t] \in Bridges
    BY <1>0, <1>2 DEF StartReserve, GlueTypes
  <2>4. Reserves(p, t, s)
    BY <1>0, <1>2, <2>1, <2>2, <2>3 DEF StartReserve, Reserved, Reserves
  <2> QED BY <2>4
<1>3. ASSUME NEW p \in Sharers, NEW l, StartEnds(p, l), UNCHANGED startFrame
      PROVE  Starts(p, l) /\ starting' = starting \ {task[p].tab}
  BY <1>0, <1>1, <1>3 DEF StartEnds
<1>4. ASSUME NEW p \in Sharers, StartBind(p) PROVE Binds(p) \/ GivesUp(p)
  <2>1. CASE /\ hub' = hub \cup {p} /\ bound' = [Unbound(task[p].src) EXCEPT ![p] = task[p].src]
             /\ Goto(p, "bound") /\ UNCHANGED startVars
    <3>1. \A q \in Sharers : bound'[q] = IF q = p THEN task[p].src ELSE Unbound(task[p].src)[q]
      BY <2>1 DEF Unbound
    <3> QED BY <1>1, <1>4, <2>1, <3>1 DEF StartBind, startVars, Binds
  <2>2. CASE StartEnds(p, "idle") /\ UNCHANGED <<hub, bound>>
    BY <1>3, <1>4, <2>2 DEF StartBind, GivesUp
  <2> QED BY <1>4, <2>1, <2>2 DEF StartBind
<1>5. ASSUME NEW p \in Sharers, StartCheck(p) PROVE Passes(p) \/ GivesUp(p)
  <2>1. CASE StillCurrent(p)
    BY <1>1, <1>5, <2>1 DEF StartCheck, StillCurrent, startVars, Passes
  <2>2. CASE ~StillCurrent(p)
    BY <1>3, <1>5, <2>2 DEF StartCheck, GivesUp
  <2> QED BY <2>1, <2>2
<1>6. ASSUME NEW p \in Sharers, StartInsert(p) PROVE Inserts(p)
  BY <1>3, <1>6 DEF StartInsert, Inserts
<1> QED BY <1>2, <1>4, <1>5, <1>6 DEF ShareStep, Sharer

LEMMA ShareEffects ==
  ASSUME TypeInv, [Next]_vars
  PROVE  \/ Leaves \/ (\E b : Cuts(b)) \/ (\E t \in Tabs : Unbinds(t)) \/ (\E s \in Sessions : Ends(s))
         \/ Registers /\ UNCHANGED <<rows, hub, bound, raced>> /\ StartsStill /\ UNCHANGED dying
         \/ \E p \in Sharers :
              \/ \E t \in Tabs, s \in Sessions : Reserves(p, t, s)
              \/ Binds(p) \/ Passes(p) \/ GivesUp(p) \/ Inserts(p)
<1>1. CASE UNCHANGED vars
  <2>1. UNCHANGED <<rows, hub, bound, raced, source, starting, task, tabOf, dying, cmd, pc>>
    BY <1>1 DEF vars, glueVars, startVars, histVars, localVars
  <2> QED BY <2>1, DoomSame DEF Leaves, StartsStill, SharersStill
<1> QED BY <1>1, Steps, HelperShares, ReaderShares, OpenShares, CloseShares, StartShares

-----------------------------------------------------------------------------
(* The invariant of the shares is kept.                                    *)

\* What a start holds, by its types.
LEMMA HeldTask ==
  ASSUME TypeInv
  PROVE  /\ \A p \in Sharers : Active(p) => task[p] \in [tab : Tabs, src : Bridges, sess : Sessions]
         /\ \A p \in Sharers : Active(p) => task[p].src # Nothing /\ task[p].tab \in Tabs
                                             /\ task[p].src \in Bridges /\ task[p].sess \in Sessions
         /\ source \in [Tabs -> Bridges \cup {Nothing}] /\ Nothing \notin Bridges
         /\ bound \in [Sharers -> Bridges \cup {Nothing}]
         /\ hub \subseteq Sharers /\ rows \subseteq Sharers \X Sessions /\ opens \in [Sessions -> Nat]
<1>1. \A p \in Sharers : Active(p) => task[p] \in [tab : Tabs, src : Bridges, sess : Sessions]
  BY DEF TypeInv, Tasks, Active, GlueTypes
<1>2. Nothing \notin Bridges
  BY ActorsAssumption
<1> QED BY <1>1, <1>2 DEF TypeInv, GlueTypes, RouteTypes

LEMMA ReservingStep == TypeInv /\ SharesInv /\ [Next]_vars => Reserving'
<1> SUFFICES ASSUME TypeInv, SharesInv, [Next]_vars PROVE Reserving'
  OBVIOUS
<1>0. Reserving
  BY DEF SharesInv
<1>1. CASE StartsStill
  BY <1>0, <1>1 DEF StartsStill, SharersStill, Reserving, Active
<1>2. ASSUME NEW p \in Sharers, NEW t \in Tabs, NEW s \in Sessions, Reserves(p, t, s) PROVE Reserving'
  <2>1. task'[p].tab = t /\ t \notin starting /\ starting' = starting \cup {t}
    BY <1>2 DEF Reserves
  <2>2. \A q \in Sharers : q # p => pc'[q] = pc[q] /\ task'[q] = task[q]
    BY <1>2 DEF Reserves, Starts
  <2> QED BY <1>0, <2>1, <2>2 DEF Reserving, Active
<1>3. ASSUME NEW p \in Sharers, Binds(p) \/ Passes(p) PROVE Reserving'
  <2>1. UNCHANGED <<starting, task>> /\ \A q \in Sharers : Active(q)' <=> Active(q)
    BY <1>3 DEF Binds, Passes, Starts, Active
  <2> QED BY <1>0, <2>1 DEF Reserving
<1>4. ASSUME NEW p \in Sharers, GivesUp(p) \/ Inserts(p) PROVE Reserving'
  <2>1. /\ starting' = starting \ {task[p].tab} /\ ~Active(p)' /\ Active(p)
        /\ \A q \in Sharers : q # p => task'[q] = task[q] /\ (Active(q)' <=> Active(q))
    BY <1>4 DEF GivesUp, Inserts, Starts, Active
  <2> QED BY <1>0, <2>1 DEF Reserving
<1> QED BY <1>1, <1>2, <1>3, <1>4, ShareEffects DEF Leaves, Cuts, Unbinds, Ends

LEMMA ListingStep == TypeInv /\ SharesInv /\ [Next]_vars => Listing'
<1> SUFFICES ASSUME TypeInv, SharesInv, [Next]_vars PROVE Listing'
  OBVIOUS
<1>0. Listing /\ bound \in [Sharers -> Bridges \cup {Nothing}] /\ Nothing \notin Bridges
  BY HeldTask DEF SharesInv
<1>1. ASSUME NEW b PROVE \A q \in Sharers : Unbound(b)[q] \in {bound[q], Nothing}
  BY DEF Unbound
<1>2. CASE StartsStill /\ hub' \subseteq hub /\ rows' \subseteq rows
           /\ \A q \in Sharers : bound'[q] \in {bound[q], Nothing}
  BY <1>0, <1>2 DEF StartsStill, SharersStill, Listing
<1>3. ASSUME NEW p \in Sharers, NEW t \in Tabs, NEW s \in Sessions, Reserves(p, t, s) PROVE Listing'
  <2>1. UNCHANGED <<rows, hub, bound>> /\ pc[p] = "idle" /\ pc'[p] = "reserved"
        /\ \A q \in Sharers : q # p => pc'[q] = pc[q] /\ task'[q] = task[q]
    BY <1>3 DEF Reserves, Starts
  <2>2. p \notin hub /\ bound[p] = Nothing /\ \A x \in Sessions : <<p, x>> \notin rows
    BY <1>0, <2>1 DEF Listing
  <2> QED BY <1>0, <2>1, <2>2 DEF Listing
<1>4. ASSUME NEW p \in Sharers, Binds(p) PROVE Listing'
  <2>1. /\ pc[p] = "reserved" /\ pc'[p] = "bound" /\ hub' = hub \cup {p} /\ UNCHANGED <<rows, task>>
        /\ bound'[p] = task[p].src
        /\ \A q \in Sharers : q # p => pc'[q] = pc[q] /\ bound'[q] \in {bound[q], Nothing}
    BY <1>1, <1>4 DEF Binds, Starts
  <2> QED BY <1>0, <2>1 DEF Listing
<1>5. ASSUME NEW p \in Sharers, Passes(p) PROVE Listing'
  BY <1>0, <1>5 DEF Passes, Starts, Listing
<1>6. ASSUME NEW p \in Sharers, GivesUp(p) PROVE Listing'
  <2>1. /\ \A q \in Sharers : q # p => pc'[q] = pc[q] /\ task'[q] = task[q]
        /\ pc'[p] = "idle" /\ UNCHANGED rows /\ hub' \subseteq hub
        /\ \A q \in Sharers : bound'[q] \in {bound[q], Nothing}
    BY <1>1, <1>6 DEF GivesUp, Starts
  <2>2. p \notin hub' /\ bound'[p] = Nothing /\ \A x \in Sessions : <<p, x>> \notin rows
    BY <1>0, <1>6 DEF GivesUp, Listing, Unbound
  <2> QED BY <1>0, <2>1, <2>2 DEF Listing
<1>7. ASSUME NEW p \in Sharers, Inserts(p) PROVE Listing'
  <2>1. /\ pc'[p] = "done" /\ UNCHANGED <<hub, bound>>
        /\ \A q \in Sharers : q # p => pc'[q] = pc[q] /\ task'[q] = task[q]
        /\ \A q \in Sharers, x \in Sessions : q # p => (<<q, x>> \in rows' <=> <<q, x>> \in rows)
    BY <1>7 DEF Inserts, Starts
  <2> QED BY <1>0, <2>1 DEF Listing
<1>8. (\E b : Cuts(b)) \/ (\E t \in Tabs : Unbinds(t)) \/ (\E s \in Sessions : Ends(s)) \/ Leaves => Listing'
  BY <1>1, <1>2 DEF Leaves, Cuts, Unbinds, Ends
<1>9. Registers /\ UNCHANGED <<rows, hub, bound, raced>> /\ StartsStill => Listing'
  BY <1>2
<1> QED BY <1>3, <1>4, <1>5, <1>6, <1>7, <1>8, <1>9, ShareEffects

LEMMA MadeStays ==
  ASSUME TypeInv, [Next]_vars, NEW b \in Bridges, Made(b)
  PROVE  Made(b)'
<1>0. b[1] \in Sessions /\ b[2] \in Nat /\ opens \in [Sessions -> Nat]
  BY HeldTask DEF Bridges
<1>1. CASE MainStill
  BY <1>1 DEF MainStill, Made
<1>2. CASE Installs
  BY <1>0, <1>2 DEF Installs, Made
<1>3. CASE Goes
  BY <1>3 DEF Goes, Made
<1>4. CASE UNCHANGED opens /\ pc'["main"] \notin OpenStages
  BY <1>4 DEF Made
<1>5. MainWorks => pc'["main"] \notin OpenStages /\ UNCHANGED opens
  BY DEF MainWorks, LooksUp, TakesRow, StopsShares, OpenStages
<1>6. (\E f : Asks(f)) \/ TakesAnswer \/ Fails \/ Registers \/ MainDrops \/ DropsAll \/ Sweeps
        => pc'["main"] \notin OpenStages /\ UNCHANGED opens
  BY DEF Asks, TakesAnswer, Fails, Registers, MainDrops, DropsAll, Sweeps, OpenStages
<1> QED BY <1>1, <1>2, <1>3, <1>4, <1>5, <1>6, Effects DEF Rests, Prints, Exits, TakesEvent, Hears, ReaderWorks,
      ReaderDrops, Forgets

LEMMA KnownStep == TypeInv /\ SharesInv /\ [Next]_vars => Known'
<1> SUFFICES ASSUME TypeInv, SharesInv, [Next]_vars PROVE Known'
  OBVIOUS
<1>0. Known /\ source \in [Tabs -> Bridges \cup {Nothing}] /\ opens \in [Sessions -> Nat]
  BY HeldTask DEF SharesInv
<1>1. \A p \in Sharers : Active(p) => task[p].src \in Bridges /\ Made(task[p].src)
  BY <1>0, HeldTask DEF Known
<1>2. \A b \in Bridges : Made(b) => Made(b)'
  BY MadeStays
<1>3. ASSUME NEW t \in Tabs, source'[t] = source[t], source'[t] # Nothing PROVE Made(source[t])'
  <2>1. PICK b \in Bridges : b = source[t]
    BY <1>0, <1>3
  <2>2. Made(b)'
    BY <1>0, <1>2, <1>3, <2>1 DEF Known
  <2> QED BY <1>3, <2>1, <2>2 DEF Made
<1>4. ASSUME NEW p \in Sharers, Active(p), task'[p] = task[p] PROVE Made(task[p].src)'
  <2>1. PICK b \in Bridges : b = task[p].src
    BY <1>1, <1>4
  <2>2. Made(b)'
    BY <1>1, <1>2, <1>4, <2>1
  <2> QED BY <1>4, <2>1, <2>2 DEF Made
<1>5. CASE \A t \in Tabs : source'[t] \in {Nothing, source[t]}
  <2>1. \A t \in Tabs : (source[t] # Nothing => Made(source[t]))'
    BY <1>3, <1>5
  <2>2. ASSUME NEW p \in Sharers, Active(p)' PROVE Made(task[p].src)'
    <3>1. CASE \E t \in Tabs, s \in Sessions : Reserves(p, t, s)
      <4>1. PICK t \in Tabs : source[t] \in Bridges /\ task'[p].src = source[t]
        BY <3>1 DEF Reserves
      <4>2. PICK b \in Bridges : b = source[t]
        BY <4>1
      <4>3. Made(b)'
        BY <1>0, <1>2, <4>2, HeldTask DEF Known
      <4> QED BY <4>1, <4>2, <4>3 DEF Made
    <3>2. (Active(p) /\ task'[p] = task[p]) \/ \E t \in Tabs, s \in Sessions : Reserves(p, t, s)
      BY <2>2, ShareEffects DEF Leaves, Cuts, Unbinds, Ends, StartsStill, SharersStill, Active, Reserves, Binds,
         Passes, GivesUp, Inserts, Starts
    <3> QED BY <1>4, <3>1, <3>2
  <2> QED BY <2>1, <2>2 DEF Known
<1>6. CASE Registers /\ StartsStill
  <2>1. /\ cmd.sess \in Sessions /\ pc'["main"] = "idle" /\ UNCHANGED opens
        /\ source' = [source EXCEPT ![cmd.tab] = <<cmd.sess, opens[cmd.sess]>>]
    BY <1>6 DEF Registers
  <2>2. ASSUME NEW t \in Tabs, source'[t] # Nothing PROVE Made(source[t])'
    <3>1. CASE source'[t] = <<cmd.sess, opens[cmd.sess]>>
      BY <1>0, <2>1, <3>1 DEF Made, OpenStages
    <3> QED BY <1>0, <1>3, <2>1, <2>2, <3>1
  <2>3. \A p \in Sharers : Active(p)' => Active(p) /\ task'[p] = task[p]
    BY <1>6 DEF StartsStill, SharersStill, Active
  <2>4. \A p \in Sharers : (Active(p) => Made(task[p].src))'
    BY <1>4, <2>3
  <2> QED BY <2>2, <2>4 DEF Known
<1> QED BY <1>0, <1>5, <1>6, ShareEffects DEF Leaves, Cuts, Unbinds, Ends, Reserves, Binds, Passes, GivesUp,
      Inserts, Starts

\* The bridge that is registered is new to every start; its tab had no source.
LEMMA RegisterEffect ==
  ASSUME TypeInv, RowsInv, SharesInv, Clean, Registers
  PROVE  /\ source[cmd.tab] = Nothing /\ tabOf[cmd.sess] = Nothing
         /\ \A p \in Sharers : Active(p) => source'[cmd.tab] # task[p].src
         /\ \A t \in Tabs : t # cmd.tab => source'[t] = source[t]
         /\ UNCHANGED dying => DoomStays
<1>0. /\ Rooms /\ TabsApart /\ Handles /\ Known /\ tabOf \in [Sessions -> Tabs \cup {Nothing}]
      /\ source \in [Tabs -> Bridges \cup {Nothing}] /\ opens \in [Sessions -> Nat]
      /\ Nothing \notin Tabs
  BY HeldTask, ActorsAssumption DEF RowsInv, SharesInv, TypeInv, GlueTypes
<1>1. /\ pc["main"] = "register" /\ cmd # Nothing /\ cmd.op \in {"create", "attach"} /\ pc'["main"] = "idle"
      /\ cmd.sess \in Sessions /\ cmd.tab \in Tabs /\ ReaderStill
      /\ source' = [source EXCEPT ![cmd.tab] = <<cmd.sess, opens[cmd.sess]>>]
      /\ tabOf' = [tabOf EXCEPT ![cmd.sess] = cmd.tab]
  BY DEF Registers
<1>2. tabOf[cmd.sess] = Nothing
  BY <1>0, <1>1 DEF Rooms, Handles, OpenStages
<1>3. source[cmd.tab] = Nothing
  <2> SUFFICES ASSUME source[cmd.tab] # Nothing PROVE FALSE
    OBVIOUS
  <2>1. source[cmd.tab][1] \in Sessions /\ tabOf[source[cmd.tab][1]] = cmd.tab
    BY <1>0, <1>1 DEF Rooms, Bridges
  <2> QED BY <1>0, <1>1, <2>1 DEF Rooms, TabsApart
<1>4. ASSUME NEW p \in Sharers, Active(p) PROVE source'[cmd.tab] # task[p].src
  <2>1. Made(task[p].src) /\ task[p].src \in Bridges
    BY <1>0, <1>4, HeldTask DEF Known
  <2>2. task[p].src[1] = cmd.sess => task[p].src[2] < opens[cmd.sess]
    BY <1>1, <2>1 DEF Made, OpenStages
  <2>3. source'[cmd.tab] = <<cmd.sess, opens[cmd.sess]>>
    BY <1>0, <1>1
  <2> QED BY <1>0, <1>1, <2>1, <2>2, <2>3 DEF Bridges
<1>5. ASSUME UNCHANGED dying PROVE DoomStays
  <2>1. ASSUME NEW s \in Sessions, Doomed(s) PROVE Doomed(s)'
    <3>1. "reader" \in Threads /\ DoomedBy("reader", s)
      BY <1>1, <2>1 DEF Doomed, DoomedBy, Swept, Threads
    <3>2. pc["reader"] = "died" => s # cmd.sess
      BY <1>0, <1>2, <3>1 DEF DoomedBy, TypeInv, Handling
    <3>3. DoomedBy("reader", s)'
      BY <1>0, <1>1, <1>5, <3>1, <3>2 DEF DoomedBy, ReaderStill
    <3> QED BY <3>1, <3>3 DEF Doomed
  <2> QED BY <2>1 DEF DoomStays
<1> QED BY <1>0, <1>1, <1>2, <1>3, <1>4, <1>5

LEMMA SourcedStep == TypeInv /\ RowsInv /\ SharesInv /\ [Next]_vars /\ Clean' => Sourced'
<1> SUFFICES ASSUME TypeInv, RowsInv, SharesInv, [Next]_vars, Clean' PROVE Sourced'
  OBVIOUS
<1>0. Clean /\ Sourced /\ Rooms /\ TabsApart
  BY CleanBefore DEF RowsInv, SharesInv
<1>1. \A p \in Sharers : Active(p) => task[p].src # Nothing /\ task[p].tab \in Tabs
  BY HeldTask
<1>2. ASSUME \A p \in Sharers : Active(p)' => Active(p) /\ task'[p] = task[p],
             \A t \in Tabs : source'[t] \in {Nothing, source[t]}
      PROVE  Sourced'
  BY <1>0, <1>1, <1>2 DEF Sourced
<1>3. CASE StartsStill /\ \A t \in Tabs : source'[t] \in {Nothing, source[t]}
  BY <1>2, <1>3 DEF StartsStill, SharersStill, Active
<1>4. ASSUME NEW p \in Sharers, Binds(p) \/ Passes(p) \/ GivesUp(p) \/ Inserts(p) PROVE Sourced'
  <2>1. UNCHANGED source /\ \A q \in Sharers : Active(q)' => Active(q) /\ task'[q] = task[q]
    BY <1>4 DEF Binds, Passes, GivesUp, Inserts, Starts, Active
  <2> QED BY <1>2, <2>1
<1>5. CASE Registers /\ StartsStill
  <2>1. /\ \A p \in Sharers : Active(p) => source'[cmd.tab] # task[p].src
        /\ \A t \in Tabs : t # cmd.tab => source'[t] = source[t]
    BY <1>0, <1>5, RegisterEffect
  <2> QED BY <1>0, <1>5, <2>1 DEF StartsStill, SharersStill, Active, Sourced
<1>6. ASSUME NEW p \in Sharers, NEW t \in Tabs, NEW s \in Sessions, Reserves(p, t, s) PROVE Sourced'
  <2>1. /\ source[t] \in Bridges /\ source[t] # Nothing /\ tabOf[s] = t /\ UNCHANGED source
        /\ task'[p] = [tab |-> t, src |-> source[t], sess |-> s]
        /\ \A q \in Sharers : q # p => pc'[q] = pc[q] /\ task'[q] = task[q]
    BY <1>6, HeldTask DEF Reserves, Starts
  <2>2. source[t][1] \in Sessions /\ tabOf[source[t][1]] = t /\ t # Nothing
    BY <1>0, <2>1, ActorsAssumption DEF Rooms, Bridges
  <2>3. source[t][1] = s
    BY <1>0, <2>1, <2>2 DEF Rooms, TabsApart
  <2>4. \A x \in Tabs : source[x] = source[t] => x = t
    BY <1>0, <2>1, <2>2 DEF Rooms
  <2> QED BY <1>0, <2>1, <2>3, <2>4 DEF Sourced, Active
<1>7. Leaves \/ (\E b : Cuts(b)) \/ (\E t \in Tabs : Unbinds(t)) \/ (\E s \in Sessions : Ends(s))
        => StartsStill /\ \A t \in Tabs : source'[t] \in {Nothing, source[t]}
  BY HeldTask DEF Leaves, Cuts, Unbinds, Ends
<1> QED BY <1>3, <1>4, <1>5, <1>6, <1>7, ShareEffects

\* Exits, unbindings and stops take shares and carriers away, and add none.
Thins ==
  /\ StartsStill /\ hub' \subseteq hub /\ raced \subseteq raced'
  /\ \A q \in Sharers : bound'[q] \in {bound[q], Nothing}

LEMMA Thinning ==
  ASSUME Leaves \/ (\E b : Cuts(b)) \/ (\E t \in Tabs : Unbinds(t)) \/ (\E s \in Sessions : Ends(s))
         \/ (StartsStill /\ UNCHANGED <<hub, bound, raced>>)
  PROVE  Thins
<1>1. ASSUME NEW b PROVE \A q \in Sharers : Unbound(b)[q] \in {bound[q], Nothing}
  BY DEF Unbound
<1> QED BY <1>1 DEF Leaves, Cuts, Unbinds, Ends, Thins

LEMMA AloneStep == TypeInv /\ RowsInv /\ SharesInv /\ [Next]_vars /\ Clean' => Alone'
<1> SUFFICES ASSUME TypeInv, RowsInv, SharesInv, [Next]_vars, Clean' PROVE Alone'
  OBVIOUS
<1>0. Clean /\ Sourced /\ Alone /\ Fed /\ Listing /\ Reserving
  BY CleanBefore DEF SharesInv
<1>1. \A p \in Sharers : Active(p) => task[p].src # Nothing /\ task[p].tab \in Tabs
  BY HeldTask
<1>2. CASE Thins
  BY <1>0, <1>1, <1>2 DEF Thins, StartsStill, SharersStill, Active, Alone, Standing
<1>3. ASSUME NEW p \in Sharers, NEW t \in Tabs, NEW s \in Sessions, Reserves(p, t, s) PROVE Alone'
  <2>1. /\ t \notin starting /\ source[t] \in Bridges /\ source[t] # Nothing
        /\ UNCHANGED <<hub, bound, raced>> /\ task'[p].src = source[t] /\ pc'[p] = "reserved"
        /\ \A r \in rows : r[2] # s
        /\ \A q \in Sharers : q # p => pc'[q] = pc[q] /\ task'[q] = task[q]
    BY <1>3, HeldTask DEF Reserves, Starts
  <2>2. ASSUME NEW q \in Sharers, q # p, Active(q) PROVE task[q].src # source[t]
    BY <1>0, <2>1, <2>2 DEF Sourced, Reserving
  <2>3. ASSUME NEW q \in Sharers, q # p, pc[q] = "done", q \in hub \ raced PROVE bound[q] # source[t]
    <3>1. PICK x \in Sessions : <<q, x>> \in rows /\ (bound[q] # Nothing => bound[q][1] = x)
      BY <1>0, <2>3 DEF Fed, Standing, FedBy
    <3>2. source[t][1] = s
      <4>1. task'[p].sess = s /\ Active(p)'
        BY <1>3 DEF Reserves, Starts, Active
      <4> QED BY <2>1, <4>1, SourcedStep DEF Sourced
    <3> QED BY <2>1, <3>1, <3>2
  <2> QED BY <1>0, <2>1, <2>2, <2>3 DEF Alone, Active, Standing
<1>4. ASSUME NEW p \in Sharers, Binds(p) \/ Passes(p) \/ GivesUp(p) PROVE Alone'
  <2>1. /\ \A q \in Sharers : Active(q)' => Active(q) /\ task'[q] = task[q]
        /\ \A q \in Sharers : pc'[q] = "done" => q # p /\ pc[q] = "done"
        /\ \A q \in hub' : q \in hub \/ q = p
        /\ UNCHANGED raced
    BY <1>4 DEF Binds, Passes, GivesUp, Starts, Active
  <2>2. \A q \in Sharers : q # p => bound'[q] \in {bound[q], Nothing}
    BY <1>4 DEF Binds, Passes, GivesUp, Unbound
  <2> QED BY <1>0, <1>1, <2>1, <2>2 DEF Alone, Standing
<1>5. ASSUME NEW p \in Sharers, Inserts(p) PROVE Alone'
  <2>1. /\ \A q \in Sharers : Active(q)' => q # p /\ Active(q) /\ task'[q] = task[q]
        /\ \A q \in Sharers : q # p /\ pc'[q] = "done" => pc[q] = "done"
        /\ UNCHANGED <<hub, bound, raced>>
    BY <1>5 DEF Inserts, Starts, Active
  <2>2. Active(p) /\ bound[p] \in {Nothing, task[p].src}
    BY <1>0, <1>5 DEF Inserts, Listing, Active
  <2> QED BY <1>0, <1>1, <2>1, <2>2 DEF Alone, Standing
<1> QED BY <1>2, <1>3, <1>4, <1>5, Thinning, ShareEffects

LEMMA CurrentStep == TypeInv /\ RowsInv /\ SharesInv /\ [Next]_vars /\ Clean' => Current'
<1> SUFFICES ASSUME TypeInv, RowsInv, SharesInv, [Next]_vars, Clean' PROVE Current'
  OBVIOUS
<1>0. Clean /\ Sourced /\ Alone /\ Current /\ Reserving
  BY CleanBefore DEF SharesInv
<1>1. /\ \A p \in Sharers : Active(p) => task[p].src # Nothing /\ task[p].tab \in Tabs
      /\ source \in [Tabs -> Bridges \cup {Nothing}]
  BY HeldTask
<1>2. CASE Leaves \/ \E s \in Sessions : Ends(s)
  BY <1>0, <1>2 DEF Leaves, Ends, StartsStill, SharersStill, Current
<1>3. ASSUME NEW b, Cuts(b) PROVE Current'
  <2>1. /\ UNCHANGED <<source, raced, task>> /\ \A p \in Sharers : pc'[p] = pc[p]
        /\ \A p \in Sharers : p \in hub' => p \in hub /\ bound'[p] = bound[p]
    BY <1>3 DEF Cuts, StartsStill, SharersStill, Unbound
  <2> QED BY <1>0, <2>1 DEF Current
<1>4. ASSUME NEW t \in Tabs, Unbinds(t) PROVE Current'
  <2>1. /\ UNCHANGED <<hub, task>> /\ (\A p \in Sharers : pc'[p] = pc[p])
        /\ \A x \in Tabs : x # t => source'[x] = source[x]
    BY <1>1, <1>4 DEF Unbinds, StartsStill, SharersStill
  <2>2. ASSUME NEW p \in Sharers, Active(p), task[p].tab # t, bound[p] = task[p].src PROVE bound'[p] = bound[p]
    <3>1. bound[p] # source[t]
      BY <1>0, <2>2 DEF Sourced
    <3> QED BY <1>4, <3>1 DEF Unbinds, Unbound
  <2>3. CASE /\ source' = [source EXCEPT ![t] = Nothing]
             /\ raced' = raced \cup {p \in Sharers : pc[p] = "checked" /\ task[p].tab = t}
    <3>1. source'[t] = Nothing
      BY <1>1, <2>3
    <3> QED BY <1>0, <1>1, <2>1, <2>2, <2>3, <3>1 DEF Current, Active
  <2>4. CASE UNCHANGED <<source, raced>> /\ t \notin starting
    <3>1. \A p \in Sharers : Active(p) => task[p].tab # t
      BY <1>0, <2>4 DEF Reserving
    <3> QED BY <1>0, <2>1, <2>2, <2>4, <3>1 DEF Current, Active
  <2> QED BY <1>4, <2>3, <2>4 DEF Unbinds
<1>5. CASE Registers /\ UNCHANGED <<rows, hub, bound, raced>> /\ StartsStill
  <2>1. /\ source[cmd.tab] = Nothing
        /\ \A p \in Sharers : Active(p) => source'[cmd.tab] # task[p].src
        /\ \A t \in Tabs : t # cmd.tab => source'[t] = source[t]
    BY <1>0, <1>5, RegisterEffect
  <2> QED BY <1>0, <1>1, <1>5, <2>1 DEF StartsStill, SharersStill, Current, Active
<1>6. ASSUME NEW p \in Sharers, NEW t \in Tabs, NEW s \in Sessions, Reserves(p, t, s) PROVE Current'
  BY <1>0, <1>6 DEF Reserves, Starts, Current
<1>7. ASSUME NEW p \in Sharers, Binds(p) PROVE Current'
  <2>1. /\ pc'[p] = "bound" /\ UNCHANGED <<source, raced, task>> /\ Active(p)
        /\ \A q \in Sharers : q # p => pc'[q] = pc[q] /\ (q \in hub' <=> q \in hub)
    BY <1>7 DEF Binds, Starts, Active
  <2>2. bound'[p] = task[p].src
    BY <1>7 DEF Binds
  <2>3. \A q \in Sharers : q # p /\ bound[q] # task[p].src => bound'[q] = bound[q]
    BY <1>7 DEF Binds, Unbound
  <2> QED BY <1>0, <2>1, <2>2, <2>3 DEF Current, Alone, Active
<1>8. ASSUME NEW p \in Sharers, Passes(p) PROVE Current'
  BY <1>0, <1>8 DEF Passes, Starts, Current
<1>9. ASSUME NEW p \in Sharers, GivesUp(p) PROVE Current'
  <2>1. /\ pc'[p] = "idle" /\ UNCHANGED <<source, raced>> /\ Active(p) /\ hub' \subseteq hub
        /\ \A q \in Sharers : q # p => pc'[q] = pc[q] /\ task'[q] = task[q]
    BY <1>9 DEF GivesUp, Starts, Active
  <2>2. \A q \in Sharers : q # p /\ bound[q] # task[p].src => bound'[q] = bound[q]
    BY <1>9 DEF GivesUp, Unbound
  <2> QED BY <1>0, <2>1, <2>2 DEF Current, Alone, Active
<1>10. ASSUME NEW p \in Sharers, Inserts(p) PROVE Current'
  BY <1>0, <1>10 DEF Inserts, Starts, Current
<1> QED BY <1>2, <1>3, <1>4, <1>5, <1>6, <1>7, <1>8, <1>9, <1>10, ShareEffects

LEMMA FedStep == TypeInv /\ RowsInv /\ SharesInv /\ [Next]_vars /\ Clean' => Fed'
<1> SUFFICES ASSUME TypeInv, RowsInv, SharesInv, [Next]_vars, Clean' PROVE Fed'
  OBVIOUS
<1>0. /\ Clean /\ Alone /\ Current /\ Fed /\ Listing /\ Sourced /\ Rooms /\ TabsApart
      /\ source \in [Tabs -> Bridges \cup {Nothing}] /\ Nothing \notin Bridges
      /\ bound \in [Sharers -> Bridges \cup {Nothing}]
  BY CleanBefore, HeldTask DEF RowsInv, SharesInv
\* Who stood before and keeps its bridge, its row and what carries it.
<1>1. ASSUME NEW q \in Sharers, Standing(q), bound'[q] = bound[q], rows \subseteq rows', DoomStays,
             \A t \in Tabs : source[t] # Nothing => source'[t] = source[t]
      PROVE  \E s \in Sessions : FedBy(q, s)'
  BY <1>0, <1>1 DEF Fed, Carried, DoomStays, FedBy
<1>2. CASE Leaves
  BY <1>0, <1>1, <1>2 DEF Leaves, StartsStill, SharersStill, Fed, Standing
<1>3. ASSUME NEW b, Cuts(b) PROVE Fed'
  <2>1. /\ UNCHANGED <<source, raced, rows>> /\ DoomStays /\ \A q \in Sharers : pc'[q] = pc[q]
        /\ \A q \in Sharers : q \in hub' => q \in hub /\ bound'[q] = bound[q]
    BY <1>3 DEF Cuts, StartsStill, SharersStill, Unbound
  <2> QED BY <1>1, <2>1 DEF Fed, Standing
<1>4. ASSUME NEW t \in Tabs, Unbinds(t) PROVE Fed'
  <2>1. /\ UNCHANGED <<rows, hub>> /\ raced \subseteq raced' /\ DoomStays /\ \A q \in Sharers : pc'[q] = pc[q]
        /\ \A x \in Tabs : x # t => source'[x] = source[x]
        /\ \A x \in Sessions : tabOf[x] = t => Doomed(x)'
        /\ \A q \in Sharers : bound'[q] = IF source[t] # Nothing /\ bound[q] = source[t] THEN Nothing ELSE bound[q]
    BY <1>0, <1>4 DEF Unbinds, StartsStill, SharersStill, Unbound
  <2>2. ASSUME NEW q \in Sharers, Standing(q) PROVE \E s \in Sessions : FedBy(q, s)'
    <3>1. PICK s \in Sessions : FedBy(q, s)
      BY <1>0, <2>2 DEF Fed
    <3>2. CASE source[t] # Nothing /\ bound[q] = source[t]
      <4>1. tabOf[s] = t
        BY <1>0, <3>1, <3>2 DEF Rooms, FedBy
      <4> QED BY <2>1, <3>1, <3>2, <4>1 DEF FedBy
    <3>3. CASE ~(source[t] # Nothing /\ bound[q] = source[t])
      <4>1. Carried(q) => Carried(q)'
        BY <2>1, <3>3 DEF Carried
      <4> QED BY <2>1, <3>1, <3>3, <4>1 DEF DoomStays, FedBy
    <3> QED BY <3>2, <3>3
  <2> QED BY <2>1, <2>2 DEF Fed, Standing
<1>5. ASSUME NEW x \in Sessions, Ends(x) PROVE Fed'
  <2>1. /\ UNCHANGED <<bound, raced, source>> /\ (\A q \in Sharers : pc'[q] = pc[q]) /\ hub' \subseteq hub
        /\ \A q \in hub' : <<q, x>> \notin rows
        /\ \A r \in rows : r[2] # x => r \in rows'
        /\ \A s \in Sessions : s # x /\ Doomed(s) => Doomed(s)'
    BY <1>0, <1>5 DEF Ends, StartsStill, SharersStill
  <2>2. ASSUME NEW q \in Sharers, Standing(q), q \in hub' PROVE \E s \in Sessions : FedBy(q, s)'
    <3>1. PICK s \in Sessions : FedBy(q, s)
      BY <1>0, <2>2 DEF Fed
    <3>2. s # x /\ <<q, s>> \in rows'
      BY <2>1, <2>2, <3>1 DEF FedBy
    <3> QED BY <2>1, <3>1, <3>2 DEF Carried, FedBy
  <2> QED BY <2>1, <2>2 DEF Fed, Standing
<1>6. CASE Registers /\ UNCHANGED <<rows, hub, bound, raced>> /\ StartsStill /\ UNCHANGED dying
  <2>1. /\ source[cmd.tab] = Nothing /\ DoomStays
        /\ \A t \in Tabs : t # cmd.tab => source'[t] = source[t]
    BY <1>0, <1>6, RegisterEffect
  <2> QED BY <1>1, <1>6, <2>1 DEF StartsStill, SharersStill, Fed, Standing
<1>7. ASSUME NEW p \in Sharers, NEW t \in Tabs, NEW s \in Sessions, Reserves(p, t, s) PROVE Fed'
  <2>1. UNCHANGED <<rows, hub, bound, raced, source>> /\ DoomStays /\ pc'[p] # "done"
        /\ \A q \in Sharers : q # p => pc'[q] = pc[q]
    BY <1>7 DEF Reserves, Starts
  <2> QED BY <1>1, <2>1 DEF Fed, Standing
<1>8. ASSUME NEW p \in Sharers, Binds(p) \/ Passes(p) \/ GivesUp(p) PROVE Fed'
  <2>1. UNCHANGED <<rows, raced, source>> /\ DoomStays /\ pc'[p] # "done" /\ Active(p)
        /\ \A q \in Sharers : q # p => pc'[q] = pc[q] /\ (q \in hub' => q \in hub)
    BY <1>8 DEF Binds, Passes, GivesUp, Starts, Active
  <2>2. \A q \in Sharers : q # p /\ bound[q] # task[p].src => bound'[q] = bound[q]
    BY <1>8 DEF Binds, Passes, GivesUp, Unbound
  <2>3. \A q \in Sharers : q # p /\ Standing(q) => bound[q] # task[p].src
    BY <1>0, <2>1 DEF Alone
  <2> QED BY <1>1, <2>1, <2>2, <2>3 DEF Fed, Standing
<1>9. ASSUME NEW p \in Sharers, Inserts(p) PROVE Fed'
  <2>1. /\ UNCHANGED <<hub, bound, raced, source>> /\ DoomStays /\ pc[p] = "checked" /\ Active(p)
        /\ rows' = rows \cup {<<p, task[p].sess>>}
        /\ \A q \in Sharers : q # p => pc'[q] = pc[q]
    BY <1>9 DEF Inserts, Starts, Active
  <2>2. ASSUME p \in hub \ raced PROVE \E s \in Sessions : FedBy(p, s)'
    <3>1. PICK s \in Sessions : s = task[p].sess
      BY <2>1, HeldTask
    <3>2. task[p].tab \in Tabs /\ task[p].src # Nothing
      BY <2>1, HeldTask
    <3>3. source[task[p].tab] = task[p].src /\ bound[p] = task[p].src
      BY <1>0, <2>1, <2>2 DEF Current
    <3>4. task[p].src[1] = s
      BY <1>0, <2>1, <3>1 DEF Sourced
    <3>5. Carried(p)'
      BY <2>1, <3>2, <3>3 DEF Carried
    <3> QED BY <2>1, <3>1, <3>3, <3>4, <3>5 DEF FedBy
  <2>3. \A q \in Sharers : q # p /\ Standing(q)' => Standing(q) /\ bound'[q] = bound[q]
    BY <2>1 DEF Standing
  <2>4. \A q \in Sharers : q # p /\ Standing(q)' => \E s \in Sessions : FedBy(q, s)'
    BY <1>1, <2>1, <2>3
  <2>5. Standing(p)' => p \in hub \ raced
    BY <2>1 DEF Standing
  <2> QED BY <2>2, <2>4, <2>5 DEF Fed
<1> QED BY <1>2, <1>3, <1>4, <1>5, <1>6, <1>7, <1>8, <1>9, ShareEffects

LEMMA SharesInit == Init => SharesInv
<1> SUFFICES ASSUME Init PROVE SharesInv
  OBVIOUS
<1>1. /\ rows = {} /\ hub = {} /\ \A t \in Tabs : source[t] = Nothing
      /\ \A p \in Sharers : pc[p] = "idle" /\ bound[p] = Nothing
  BY Apart DEF Init
<1>2. Reserving /\ Listing /\ Known
  BY <1>1 DEF Reserving, Listing, Known, Active
<1>3. Sourced /\ Alone /\ Current /\ Fed
  BY <1>1 DEF Sourced, Alone, Current, Fed, Active, Standing
<1> QED BY <1>2, <1>3 DEF SharesInv

(* A share that is live with no start under way has its row and is carried *)
(* by the source of a tab, so that it is fed and can be stopped: the two   *)
(* checks of share_start about its await, tab_runtime_died on two threads, *)
(* term_share_stop and the Exit that stops a share where it is dispatched  *)
(* leave no share behind, but one whose tab died after the last check.     *)
THEOREM SharesAreFedCorrect == Spec => []SharesAreFed
<1>1. TypeInv /\ RowsInv /\ SharesInv /\ [Next]_vars => SharesInv'
  BY CleanBefore, ReservingStep, ListingStep, KnownStep, SourcedStep, AloneStep, CurrentStep, FedStep
     DEF SharesInv
<1>2. TypeInv /\ SharesInv => SharesAreFed
  <2> SUFFICES ASSUME TypeInv, SharesInv, Quiet, NoEarlyExit, starting = {}, NEW p \in hub \ raced
               PROVE  /\ bound[p] # Nothing /\ \E t \in Tabs : source[t] = bound[p]
                      /\ <<p, bound[p][1]>> \in rows
    BY DEF SharesAreFed
  <2>1. hand = Nothing /\ p \in Sharers
    BY HeldTask DEF TypeInv, Handling, Quiet
  <2>2. Clean
    BY <2>1 DEF Clean, Past, Handed, NoEarlyExit
  <2>3. pc[p] = "done"
    BY <2>1 DEF SharesInv, Reserving, Listing, Active
  <2>4. PICK s \in Sessions : /\ <<p, s>> \in rows /\ (bound[p] # Nothing => bound[p][1] = s)
                              /\ Carried(p) \/ Doomed(s)
    BY <2>1, <2>2, <2>3 DEF SharesInv, Fed, Standing, FedBy
  <2>5. ~Doomed(s)
    BY DEF Quiet, Doomed, DoomedBy, Swept, Threads
  <2> QED BY <2>4, <2>5 DEF Carried
<1> QED BY <1>1, <1>2, RowsStep, RowsInit, SharesInit, TypeAlways, PTL DEF Spec
=============================================================================
