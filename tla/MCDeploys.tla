----------------------------- MODULE MCDeploys -----------------------------
(***************************************************************************)
(* The two tools that put content on an Orchestrator, on small instances:  *)
(* the gate's binding and the manifest's deploy with its drift tool.  They *)
(* share no state, so each behaviour exercises one and the other rests.    *)
(***************************************************************************)
EXTENDS Integers, Sequences

CONSTANTS
  Registries, Rests, Scopes, Absent, MaxPolls, MaxRemoves,
  MaxId, MaxTeardowns,
  MaxOthers, MaxFaults

VARIABLES
  script,
  workflow, category, known, subscription, binder, removes, bindFaults, bindOthers,
  here, id, inside, text, linked, running, copy, tool, teardowns, others, faults

Gate == INSTANCE GateBinding WITH tool <- binder, faults <- bindFaults, others <- bindOthers
Content == INSTANCE Orchestrator

ASSUME DeploysAssumption == Gate!BindingAssumption /\ Content!OrchestratorAssumption

gate == <<workflow, category, known, subscription, binder, removes, bindFaults, bindOthers>>
content == <<here, id, inside, text, linked, running, copy, tool, teardowns, others, faults>>
vars == <<script, gate, content>>

\* A run of the other script starts from one declaration for the gate: it is never read.
Init ==
  /\ script \in {"gate", "content"} /\ Gate!Init /\ Content!Init
  /\ script = "content" => binder = [binder EXCEPT !.registry = CHOOSE r \in Registries : TRUE,
                                       !.rest = CHOOSE t \in Rests : TRUE, !.scope = CHOOSE s \in Scopes : TRUE]

OnGate(A) == script = "gate" /\ A /\ UNCHANGED <<script, content>>
OnContent(A) == script = "content" /\ A /\ UNCHANGED <<script, gate>>

Next ==
  /\ UNCHANGED script
  /\ \/ script = "gate" /\ Gate!Next /\ UNCHANGED content
     \/ script = "content" /\ Content!Next /\ UNCHANGED gate

Spec == Init /\ [][Next]_vars

\* The fairness each module states and explains.
FairSpec ==
  /\ Spec
  /\ WF_vars(OnGate(Gate!Enumerates)) /\ WF_vars(OnGate(Gate!Apply)) /\ WF_vars(OnGate(Gate!Remove))
  /\ WF_vars(OnGate(Gate!Starts("apply")))
  /\ WF_vars(OnContent(Content!Step)) /\ SF_vars(OnContent(Content!Starts("deploy")))

\* The types, and below the promises each module states and explains, of the script of the behaviour.
TypeOK == IF script = "gate" THEN Gate!TypeOK ELSE Content!TypeOK

\* Exit 0 says what is so, of an apply and a removal of the gate, and of a deploy, readback, teardown, diff or apply of
\* the content.
ExitZeroIsTrue == IF script = "gate" THEN Gate!ExitZeroIsTrue ELSE Content!ExitZeroIsTrue

\* No definition is replaced under an execution that was going before the run (Orchestrator).
RunningIsSpared == Content!RunningIsSpared

\* Run again and again, from whatever a failure, a removal or somebody else left, each tool gets its content bound.
BoundInTheEnd ==
  /\ script = "gate" => Gate!AppliesInTheEnd
  /\ script = "content" => Content!BoundInTheEnd
=============================================================================
