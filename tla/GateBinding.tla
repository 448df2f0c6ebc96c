----------------------------- MODULE GateBinding -----------------------------
(***************************************************************************)
(* handbook/event-model/deploy_gate.py: apply imports the gate's workflow, *)
(* waits until the Automation host resolves it and binds the blocking      *)
(* subscription; remove takes the three objects away.  A write reports     *)
(* acceptance, not effect: it may leave things as they were, or store      *)
(* something else than was sent.                                           *)
(***************************************************************************)
EXTENDS Integers

CONSTANTS
  Registries, Rests, Scopes,   \* registryUrl; deadlineSeconds with verifyTls; criteria with project
  Absent,                      \* no such object
  MaxPolls,                    \* bound: the polls that fit in --wait
  MaxRemoves, MaxFaults, MaxOthers

BindingAssumption ==
  /\ {MaxPolls, MaxRemoves, MaxFaults, MaxOthers} \subseteq Nat
  /\ Absent \notin [script : {"gate", "other"}, registry : Registries, rest : Rests]
  /\ Absent \notin [scope : Scopes, bound : BOOLEAN, told : BOOLEAN]

VARIABLES
  workflow,      \* the Orchestrator
  category,      \* the Orchestrator: whether it is there, and holds items of others
  known,         \* the Automation host resolves the workflow's id
  subscription,  \* the Automation host's event broker
  tool,          \* the run of deploy_gate.py
  removes, faults, others

vars == <<workflow, category, known, subscription, tool, removes, faults, others>>

Workflow == [script : {"gate", "other"}, registry : Registries, rest : Rests]
\* bound: topic, runnable, blocking, time-out and the other fields that are compared are as sent; told: priority, name
\* and description are.
Subscription == [scope : Scopes, bound : BOOLEAN, told : BOOLEAN]

Exits == {"exit0", "exit1", "exit2"}
ApplySteps == {"findCategory", "createCategory", "recheckCategory", "import", "readImport", "poll",
               "subscribe", "readSubscription"}
RemoveSteps == {"deleteSubscription", "recheckSubscription", "deleteWorkflow", "recheckWorkflow", "dispatch",
                "seekCategory", "openCategory", "deleteCategory", "seekAgain"}

\* gone: no read-back of this removal has found anything so far.
TypeOK ==
  /\ workflow \in Workflow \cup {Absent} /\ subscription \in Subscription \cup {Absent}
  /\ category \in [there : BOOLEAN, holds : BOOLEAN] /\ (category.holds => category.there)
  /\ known \in BOOLEAN
  /\ tool \in [pc : {"idle"} \cup Exits \cup ApplySteps \cup RemoveSteps, mode : {"apply", "remove"},
               registry : Registries, rest : Rests, scope : Scopes, polls : 0 .. MaxPolls, gone : BOOLEAN]
  /\ tool.pc \in ApplySteps \cup {"exit2"} => tool.mode = "apply"
  /\ tool.pc \in {"readImport", "import"} => category.there
  /\ removes \in 0 .. MaxRemoves /\ faults \in 0 .. MaxFaults /\ others \in 0 .. MaxOthers

Init ==
  /\ workflow = Absent /\ subscription = Absent /\ known = FALSE
  /\ category = [there |-> FALSE, holds |-> FALSE]
  /\ tool \in [pc : {"idle"}, mode : {"apply"}, registry : Registries, rest : Rests, scope : Scopes,
               polls : {0}, gone : {TRUE}]
  /\ removes = 0 /\ faults = 0 /\ others = 0

-----------------------------------------------------------------------------
(* What goes on around the tool. *)

\* The Automation host goes through the Orchestrator's workflows.
Enumerates ==
  /\ known' = (workflow # Absent)
  /\ UNCHANGED <<workflow, category, subscription, tool, removes, faults, others>>

\* Somebody keeps a workflow of theirs in the category.
OthersUse ==
  /\ category.there /\ others < MaxOthers
  /\ category' = [category EXCEPT !.holds = ~@]
  /\ others' = others + 1
  /\ UNCHANGED <<workflow, known, subscription, tool, removes, faults>>

-----------------------------------------------------------------------------
At(pc) == tool.pc = pc
Goes(pc) == tool' = [tool EXCEPT !.pc = pc]
Fault == faults < MaxFaults /\ faults' = faults + 1
Platform == <<workflow, category, known, subscription>>
Looks == UNCHANGED <<workflow, category, known, subscription, removes, faults, others>>

Starts(mode) ==
  /\ tool.pc \in {"idle"} \cup Exits
  /\ mode = "apply" \/ removes < MaxRemoves
  /\ tool' \in [pc : {IF mode = "apply" THEN "findCategory" ELSE "deleteSubscription"}, mode : {mode},
                registry : Registries, rest : Rests, scope : Scopes, polls : {0}, gone : {TRUE}]
  /\ removes' = IF mode = "remove" THEN removes + 1 ELSE removes
  /\ UNCHANGED <<workflow, category, known, subscription, faults, others>>

\* A call that gets no HTTP answer, or a list of categories that is not answered 200, ends the run.
Breaks ==
  /\ tool.pc \in ApplySteps \cup RemoveSteps
  /\ Goes("exit1") /\ Fault /\ UNCHANGED <<Platform, removes, others>>

(* apply *)

\* Mutant: the category has to be there.
FindsOnly ==
  /\ At("findCategory") /\ Looks
  /\ IF category.there THEN Goes("import") ELSE Goes("exit1")

FindsCategory ==
  /\ At("findCategory") /\ Looks
  /\ IF category.there THEN Goes("import") ELSE Goes("createCategory")

CreatesCategory ==
  /\ At("createCategory") /\ Goes("recheckCategory")
  /\ \/ category' = [category EXCEPT !.there = TRUE] /\ UNCHANGED faults
     \/ UNCHANGED category /\ Fault
  /\ UNCHANGED <<workflow, known, subscription, removes, others>>

\* Mutant: the answer to the create is believed.
BelievesCategory == At("recheckCategory") /\ Looks /\ Goes("import")

RechecksCategory ==
  /\ At("recheckCategory") /\ Looks
  /\ IF category.there THEN Goes("import") ELSE Goes("exit1")

Wanted == [script |-> "gate", registry |-> tool.registry, rest |-> tool.rest]

Imports ==
  /\ At("import") /\ Goes("readImport")
  /\ \/ workflow' = Wanted /\ UNCHANGED faults
     \/ workflow' \in {workflow} \cup Workflow /\ Fault
  /\ UNCHANGED <<category, known, subscription, removes, others>>

\* The script and the registry are compared with what was sent.
ImportReadsBack ==
  workflow # Absent /\ workflow.script = "gate" /\ workflow.registry = tool.registry

ReadsImport ==
  /\ At("readImport") /\ Looks
  /\ IF ImportReadsBack THEN Goes("poll") ELSE Goes("exit1")

Polls ==
  /\ At("poll") /\ Looks
  /\ \/ known /\ Goes("subscribe")
     \/ ~known /\ tool.polls = MaxPolls /\ Goes("exit2")
     \/ ~known /\ tool.polls < MaxPolls /\ tool' = [tool EXCEPT !.polls = @ + 1]

Asked == [scope |-> tool.scope, bound |-> TRUE, told |-> TRUE]

Subscribes ==
  /\ At("subscribe") /\ Goes("readSubscription")
  /\ \/ subscription' = Asked /\ UNCHANGED faults
     \/ subscription' \in {subscription} \cup Subscription /\ Fault
  /\ UNCHANGED <<workflow, category, known, removes, others>>

\* Ten fields are compared with what was sent.
SubscriptionReadsBack == subscription # Absent /\ subscription.scope = tool.scope /\ subscription.bound

ReadsSubscription ==
  /\ At("readSubscription") /\ Looks
  /\ IF SubscriptionReadsBack THEN Goes("exit0") ELSE Goes("exit1")

(* remove *)

DeletesSubscription ==
  /\ At("deleteSubscription") /\ Goes("recheckSubscription")
  /\ \/ subscription' = Absent /\ UNCHANGED faults
     \/ UNCHANGED subscription /\ Fault
  /\ UNCHANGED <<workflow, category, known, removes, others>>

\* A read-back: not 404 counts as residue, whatever it is.
RechecksFor(pc, next, there) ==
  /\ At(pc)
  /\ \/ tool' = [tool EXCEPT !.pc = next, !.gone = @ /\ ~there] /\ UNCHANGED faults
     \/ tool' = [tool EXCEPT !.pc = next, !.gone = FALSE] /\ Fault
  /\ UNCHANGED <<Platform, removes, others>>

\* Mutant: only the read-back of the workflow counts.
BelievesUnsubscribed == At("recheckSubscription") /\ Looks /\ Goes("deleteWorkflow")

RechecksSubscription == RechecksFor("recheckSubscription", "deleteWorkflow", subscription # Absent)

DeletesWorkflow ==
  /\ At("deleteWorkflow") /\ Goes("recheckWorkflow")
  /\ \/ workflow' = Absent /\ UNCHANGED faults
     \/ UNCHANGED workflow /\ Fault
  /\ UNCHANGED <<category, known, subscription, removes, others>>

RechecksWorkflow == RechecksFor("recheckWorkflow", "dispatch", workflow # Absent)

\* When the id still resolves, the run says that nothing is bound to it.
ChecksDispatch == At("dispatch") /\ Looks /\ Goes("seekCategory")

Verdict(gone) == IF gone THEN "exit0" ELSE "exit1"

SeeksCategory ==
  /\ At("seekCategory") /\ Looks
  /\ IF category.there THEN Goes("openCategory") ELSE Goes(Verdict(tool.gone))

\* What the category holds; a read that is answered with an error shows nothing.
OpensCategory ==
  /\ At("openCategory") /\ UNCHANGED <<Platform, removes, others>>
  /\ \/ (category.holds \/ workflow # Absent) /\ Goes(Verdict(tool.gone)) /\ UNCHANGED faults
     \/ ~category.holds /\ workflow = Absent /\ Goes("deleteCategory") /\ UNCHANGED faults
     \/ Goes("deleteCategory") /\ Fault

\* The Orchestrator may refuse, and need not when the category holds something.
DeletesCategory ==
  /\ At("deleteCategory") /\ Goes("seekAgain")
  /\ \/ category' = [there |-> FALSE, holds |-> FALSE] /\ UNCHANGED faults
     \/ UNCHANGED category /\ Fault
  /\ UNCHANGED <<workflow, known, subscription, removes, others>>

SeeksAgain ==
  /\ At("seekAgain") /\ Looks
  /\ Goes(Verdict(tool.gone /\ ~category.there))

-----------------------------------------------------------------------------
Apply ==
  \/ FindsCategory \/ CreatesCategory \/ RechecksCategory \/ Imports \/ ReadsImport \/ Polls
  \/ Subscribes \/ ReadsSubscription

Remove ==
  \/ DeletesSubscription \/ RechecksSubscription \/ DeletesWorkflow \/ RechecksWorkflow \/ ChecksDispatch
  \/ SeeksCategory \/ OpensCategory \/ DeletesCategory \/ SeeksAgain

Next ==
  \/ Enumerates \/ OthersUse \/ Breaks \/ Apply \/ Remove
  \/ \E mode \in {"apply", "remove"} : Starts(mode)

Spec == Init /\ [][Next]_vars

\* Apply is run again until it is done, with nothing but failures (MaxFaults) and removals (MaxRemoves)
\* in its way; the Automation host keeps enumerating.
FairSpec == Spec /\ WF_vars(Enumerates) /\ WF_vars(Apply) /\ WF_vars(Remove) /\ WF_vars(Starts("apply"))

-----------------------------------------------------------------------------
Applied == At("exit0") /\ tool.mode = "apply"

\* Exit 0 of apply: gate.py is the workflow's script, it calls the registry asked for, the subscription
\* binds it as asked and the host that dispatches knows the workflow, whatever was there before.
AppliedIsBound == Applied => ImportReadsBack /\ known /\ SubscriptionReadsBack

\* Exit 0 of remove: nothing of the gate is left, nor its category unless others use it.
RemovedIsGone ==
  At("exit0") /\ tool.mode = "remove" =>
    workflow = Absent /\ subscription = Absent /\ (others = 0 => ~category.there)

\* "0 done", of an apply as of a removal.
ExitZeroIsTrue == AppliedIsBound /\ RemovedIsGone

\* A run that failed anywhere, or waited in vain, can be run again until the gate is bound.
AppliesInTheEnd == []<>Applied

\* "1 a read-back disagreed with what was sent", "every field as sent": after exit 0 the workflow and the
\* subscription have every value that was sent.  It does not hold: the read-back prints the deadline and the
\* TLS setting and compares neither, nor the priority, name and description of the subscription.
AppliedAsSent == Applied => workflow = Wanted /\ subscription = Asked

\* "Nothing is bound to it, so nothing runs": what remove says of an id that still resolves.
\* It does not hold: the workflow is deleted and this is said also when the subscription is still there.
NothingIsBound == At("dispatch") /\ known => subscription = Absent

\* "then the category if it is empty": the delete is decided on a category nobody uses.
\* It does not hold: a read that is answered with an error shows no items.
EmptyOnly == [][At("openCategory") /\ tool'.pc = "deleteCategory" => ~category.holds]_vars
=============================================================================
