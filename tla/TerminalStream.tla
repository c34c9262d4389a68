--------------------------- MODULE TerminalStream ---------------------------
(***************************************************************************)
(* What an attached terminal client is promised: the frames of one         *)
(* generation carry the most recent output the shell had produced when the *)
(* client attached, then everything produced after it, in order, nothing   *)
(* twice and nothing missing.  Output is numbered from 1.                  *)
(***************************************************************************)
EXTENDS Naturals, Sequences

CONSTANTS Generations

VARIABLES produced, opened, stream

vars == <<produced, opened, stream>>

Init ==
  /\ produced = 0
  /\ opened = {}
  /\ stream = [g \in Generations |-> <<>>]

Produce ==
  /\ produced' = produced + 1
  /\ UNCHANGED <<opened, stream>>

\* A new generation starts with the last `kept` pieces of output.
Open(g, kept) ==
  /\ \A older \in opened : older < g
  /\ opened' = opened \union {g}
  /\ stream' = [stream EXCEPT ![g] =
                  [i \in 1 .. kept |-> produced - kept + i]]
  /\ UNCHANGED produced

Following(s) == IF s = <<>> THEN 1 ELSE s[Len(s)] + 1

Extend(g) ==
  /\ g \in opened
  /\ Following(stream[g]) <= produced
  /\ stream' = [stream EXCEPT ![g] = Append(@, Following(@))]
  /\ UNCHANGED <<produced, opened>>

Next ==
  \/ Produce
  \/ \E g \in Generations, kept \in 0 .. produced : Open(g, kept)
  \/ \E g \in Generations : Extend(g)

Spec == Init /\ [][Next]_vars
=============================================================================
