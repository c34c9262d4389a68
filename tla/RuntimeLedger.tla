---------------------------- MODULE RuntimeLedger ---------------------------
(***************************************************************************)
(* What runtime.db promises: one authoritative writer at a time            *)
(* (docs/architecture/principles.md, rule 13), and a successor that reports *)
(* what its predecessor left running as interrupted and recovers nothing   *)
(* (rule 14).  No lease table, no clock, no transactions.                  *)
(***************************************************************************)
CONSTANTS Hosts, Terminals, Agents, NoHost

VARIABLES writer, record, owner

vars == <<writer, record, owner>>

Runtimes == Terminals \union Agents

Init ==
  /\ writer = NoHost
  /\ record = [r \in Runtimes |-> "none"]
  /\ owner = [r \in Runtimes |-> NoHost]

\* A process becomes the writer, and everything still recorded as active in
\* the name of another process becomes interrupted.
Take(h) ==
  /\ writer = NoHost
  /\ writer' = h
  /\ record' = [r \in Runtimes |->
       IF owner[r] # h /\ record[r] = "active" THEN "interrupted" ELSE record[r]]
  /\ UNCHANGED owner

Leave ==
  /\ writer # NoHost
  /\ writer' = NoHost
  /\ UNCHANGED <<record, owner>>

Write(r, state) ==
  /\ writer # NoHost
  /\ record' = [record EXCEPT ![r] = state]
  /\ owner' = [owner EXCEPT ![r] = writer]
  /\ UNCHANGED writer

Next ==
  \/ \E h \in Hosts : Take(h)
  \/ Leave
  \/ \E r \in Runtimes, state \in {"active", "stopped", "exited"} : Write(r, state)

Spec == Init /\ [][Next]_vars
=============================================================================
