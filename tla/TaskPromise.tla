----------------------------- MODULE TaskPromise -----------------------------
(***************************************************************************)
(* What a task given to another machine promises, told without links,      *)
(* entries or retries.  given is the task where it was given, ran is what  *)
(* became of its agent on the other machine.  The agent runs at most once  *)
(* and only for a task that was given.  The task is done only when the     *)
(* agent was done; it fails when the agent did not run or did not end      *)
(* well, or, with MayGiveUp, when the machine is given up on.              *)
(***************************************************************************)
CONSTANTS Nodes, MayGiveUp

VARIABLES given, ran

vars == <<given, ran>>

Ended == {"done", "failed", "cancelled"}

Init ==
  /\ given = [n \in Nodes |-> "none"]
  /\ ran = [n \in Nodes |-> "none"]

Give(n) ==
  /\ given[n] = "none"
  /\ given' = [given EXCEPT ![n] = "open"]
  /\ UNCHANGED ran

Run(n) ==
  /\ given[n] # "none" /\ ran[n] = "none"
  /\ ran' = [ran EXCEPT ![n] = "open"]
  /\ UNCHANGED given

RunEnds(n) ==
  /\ ran[n] = "open"
  /\ \E status \in Ended : ran' = [ran EXCEPT ![n] = status]
  /\ UNCHANGED given

Done(n) ==
  /\ given[n] = "open" /\ ran[n] = "done"
  /\ given' = [given EXCEPT ![n] = "done"]
  /\ UNCHANGED ran

Fail(n) ==
  /\ given[n] = "open"
  /\ ran[n] \in {"none", "failed", "cancelled"} \/ MayGiveUp
  /\ given' = [given EXCEPT ![n] = "failed"]
  /\ UNCHANGED ran

Cancel(n) ==
  /\ given[n] = "open"
  /\ given' = [given EXCEPT ![n] = "cancelled"]
  /\ UNCHANGED ran

Next ==
  \E n \in Nodes :
    Give(n) \/ Run(n) \/ RunEnds(n) \/ Done(n) \/ Fail(n) \/ Cancel(n)

Spec == Init /\ [][Next]_vars

=============================================================================
