---------------------------- MODULE ViewerStream ----------------------------
(***************************************************************************)
(* What a viewer of a shared terminal is promised: nothing, until one      *)
(* catch-up that is the output from its beginning to some point after the  *)
(* viewer came in; from there on every piece of output as it is produced,  *)
(* with no gap and no repetition, until the viewer is cut off.             *)
(***************************************************************************)
EXTENDS Naturals, Sequences

CONSTANTS Viewers

VARIABLES
  produced,    \* output is numbered 1 .. produced
  since,       \* where the output was when each viewer came in
  following,   \* viewers that were caught up
  stream,      \* what each viewer was sent
  cut          \* viewers that are sent nothing any more

vars == <<produced, since, following, stream, cut>>

Init ==
  /\ produced = 0
  /\ since = [v \in Viewers |-> 0]
  /\ following = {}
  /\ stream = [v \in Viewers |-> <<>>]
  /\ cut = {}

Enter(v) ==
  /\ v \notin following \union cut
  /\ since' = [since EXCEPT ![v] = produced]
  /\ UNCHANGED <<produced, following, stream, cut>>

\* The catch-up ends between the viewer's entry and now.
CatchUp(v) ==
  /\ v \notin following \union cut
  /\ \E n \in since[v] .. produced :
       stream' = [stream EXCEPT ![v] = [i \in 1 .. n |-> i]]
  /\ following' = following \union {v}
  /\ UNCHANGED <<produced, since, cut>>

\* New output reaches viewers that have everything before it.  Those that fell
\* behind are cut off on the way.
Produce ==
  /\ produced' = produced + 1
  /\ \E S \in SUBSET {v \in following \ cut : Len(stream[v]) = produced} :
       stream' = [v \in Viewers |->
                    IF v \in S THEN Append(stream[v], produced + 1)
                    ELSE stream[v]]
  /\ cut \subseteq cut'
  /\ UNCHANGED <<since, following>>

CutOff ==
  /\ cut \subseteq cut'
  /\ UNCHANGED <<produced, since, following, stream>>

Next ==
  \/ Produce
  \/ CutOff
  \/ \E v \in Viewers : Enter(v) \/ CatchUp(v)

Spec == Init /\ [][Next]_vars
=============================================================================
