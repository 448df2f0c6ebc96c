---------------------------- MODULE Orchestrator ----------------------------
(***************************************************************************)
(* handbook/orchestrator-dependencies/deploy.py and                        *)
(* handbook/orchestrator-drift/reconcile.py on one appliance.              *)
(*                                                                         *)
(* The first creates content in the order its bindings force: an action    *)
(* carries the identifier of its environment and a workflow that of its    *)
(* configuration element, and the appliance issues both.  The second keeps *)
(* a copy of the workflow and puts it back.  People delete and make again  *)
(* what the tools look at, workflows run, any call may fail, and a write   *)
(* or a delete may be accepted and leave things as they were.              *)
(***************************************************************************)
EXTENDS Integers, Sequences

CONSTANTS MaxId, MaxTeardowns, MaxOthers, MaxFaults   \* bounds

OrchestratorAssumption ==
  MaxId \in Nat \ {0} /\ {MaxTeardowns, MaxOthers, MaxFaults} \subseteq Nat

VARIABLES
  here,      \* which of the manifest's objects the appliance has
  id,        \* the identifier it gave the latest element and environment of those names
  inside,    \* the identifier the action and the workflow carry
  text,      \* the rest of the workflow's definition: as shipped, or edited on the appliance
  linked,    \* what the package holds
  running,   \* an execution of the workflow has not ended
  copy,      \* the committed copy of the workflow
  tool,      \* the latest run of either script
  teardowns, others, faults

appliance == <<here, id, inside, text, linked>>
vars == <<appliance, running, copy, tool, teardowns, others, faults>>

Categories == {"configurations", "actions", "workflows"}
Issued == {"element", "environment"}
Carriers == {"action", "workflow"}
Objects == {"package"} \cup Categories \cup Issued \cup Carriers
Carried(o) == IF o = "action" THEN "environment" ELSE "element"
Home == [element |-> "configurations", action |-> "actions", workflow |-> "workflows"]
Homeless(o) == o \in DOMAIN Home /\ Home[o] \notin here

\* Mutant: the actions before the environments they name.
LayersSwapped == <<"package", "configurations", "actions", "workflows", "element", "action", "environment", "workflow">>

Layers == <<"package", "configurations", "actions", "workflows", "element", "environment", "action", "workflow">>
Teardown == <<"package", "workflow", "action", "environment", "element", "workflows", "actions", "configurations">>

Ids == 0 .. MaxId
Nowhere == MaxId   \* an identifier that names nothing on this appliance
NoCopy == [carries |-> 0, text |-> "none"]
Definition == [carries : Ids, text : {"none", "shipped", "edited"}]
Live == [carries |-> inside["workflow"], text |-> text]
Names(o, i) == o \in here /\ id[o] = i

\* held: the identifiers the run goes by; live: the definition it read; saw: an execution that was going when an apply
\* began still is; blind: a failed read was taken for absence; vain: a write or a delete that was accepted left things
\* as they were; named: the action reported its environment by name; quiet: nobody else has acted since the run began.
Fresh(op) == [op |-> op, pc |-> "find", at |-> 1, found |-> FALSE, held |-> [o \in Issued |-> 0], live |-> NoCopy,
              bad |-> FALSE, blind |-> FALSE, vain |-> FALSE, named |-> FALSE, saw |-> running /\ op = "apply",
              quiet |-> TRUE, exit |-> 0]
\* What a run that has ended leaves is its exit code, and the provisos under which that is to be true.
Ended(t, code) ==
  [Fresh(t.op) EXCEPT !.pc = "done", !.exit = code, !.saw = FALSE,
                      !.quiet = t.quiet, !.blind = t.blind, !.vain = t.vain, !.named = t.named]
Ops == {"deploy", "readback", "teardown", "fetch", "diff", "apply", "force"}

TypeOK ==
  /\ here \subseteq Objects /\ linked \subseteq here \ {"package"} /\ (linked # {} => "package" \in here)
  /\ \A o \in here : ~Homeless(o)
  /\ id \in [Issued -> Ids] /\ inside \in [Carriers -> Ids]
  /\ \A o \in Carriers : o \in here => inside[o] # 0
  /\ text \in {"shipped", "edited"} /\ running \in BOOLEAN /\ copy \in Definition
  /\ tool.op \in Ops /\ tool.at \in 1 .. Len(Layers) /\ tool.exit \in 0 .. 4 /\ tool.live \in Definition
  /\ tool.pc \in {"find", "write", "link", "action", "workflow", "element", "refs", "execs", "put", "back", "done"}
  /\ {tool.found, tool.bad, tool.blind, tool.vain, tool.named, tool.saw, tool.quiet} \subseteq BOOLEAN
  /\ tool.held \in [Issued -> Ids]
  /\ teardowns \in 0 .. MaxTeardowns /\ others \in 0 .. MaxOthers /\ faults \in 0 .. MaxFaults

Init ==
  /\ here = {} /\ id = [o \in Issued |-> 0] /\ inside = [o \in Carriers |-> 0] /\ text = "shipped" /\ linked = {}
  /\ running = FALSE /\ copy = NoCopy /\ tool = Ended(Fresh("diff"), 3)
  /\ teardowns = 0 /\ others = 0 /\ faults = 0

-----------------------------------------------------------------------------
(* The appliance. *)

Issues(o) == id[o] + 1 < Nowhere /\ id' = [id EXCEPT ![o] = @ + 1]
Puts(o) == here' = here \cup {o}
\* A category that holds something stays, and so does a workflow or an element the package holds.
Deletable(o) == o \in here \ (linked \ {"environment"}) /\ \A p \in DOMAIN Home \cap here : Home[p] # o
Removes(o) ==
  /\ here' = here \ {o} /\ linked' = (IF o = "package" THEN {} ELSE linked \ {o}) /\ UNCHANGED <<id, inside, text>>

Acted ==
  /\ others < MaxOthers /\ others' = others + 1 /\ tool' = [tool EXCEPT !.quiet = FALSE]
  /\ UNCHANGED <<copy, teardowns, faults>>

\* By hand: something is deleted, an element or environment is replaced by another of its name, the workflow is edited.
OthersAct ==
  /\ Acted /\ UNCHANGED running
  /\ \/ \E o \in Objects : Deletable(o) /\ Removes(o)
     \/ \E o \in Issued \cap here : Issues(o) /\ linked' = linked \ {o} /\ UNCHANGED <<here, inside, text>>
     \/ "workflow" \in here /\ text' = "edited" /\ UNCHANGED <<here, id, inside, linked>>

Executes == "workflow" \in here /\ running' = ~running
            /\ tool' = [tool EXCEPT !.saw = FALSE] /\ UNCHANGED <<appliance, copy, teardowns, others, faults>>

-----------------------------------------------------------------------------
(* A run. *)

In(op, pc) == tool.op = op /\ tool.pc = pc
Goes(pc) == tool' = [tool EXCEPT !.pc = pc]
Exits(code) == tool' = Ended(tool, code)
Fails == faults < MaxFaults /\ faults' = faults + 1
Fine == UNCHANGED faults
Else == UNCHANGED <<running, copy, teardowns, others>>
Looks == UNCHANGED appliance /\ Else

Starts(op) ==
  /\ tool.pc = "done" /\ tool' = Fresh(op)
  /\ teardowns' = teardowns + (IF op = "teardown" THEN 1 ELSE 0) /\ teardowns' <= MaxTeardowns
  /\ UNCHANGED <<appliance, running, copy, others, faults>>

\* A call that gets no answer ends either script with 3; so does a death.  Writes say below what they leave.
Stops == tool.pc # "done" /\ Exits(3) /\ Fails /\ Looks

Target == IF tool.op = "teardown" THEN Teardown[tool.at] ELSE Layers[tool.at]
Onward(t) == tool' = IF t.at < Len(Layers) THEN [t EXCEPT !.pc = "find", !.at = @ + 1, !.found = FALSE]
                     ELSE Ended(t, IF t.bad THEN 1 ELSE 0)

Holding == IF Target \in Issued THEN [tool.held EXCEPT ![Target] = id[Target]] ELSE tool.held

\* A layer looks for its object by name; a package or a category that is there is taken as it is.
Finds ==
  /\ In("deploy", "find") /\ Looks
  /\ \/ /\ Target \in here \cap (Categories \cup {"package"}) /\ Onward(tool) /\ Fine
     \/ /\ Target \notin here \cap (Categories \cup {"package"}) /\ Fine
        /\ tool' = [tool EXCEPT !.pc = "write", !.found = Target \in here, !.held = Holding]
     \/ Target = "environment" /\ Exits(1) /\ Fails   \* the runtime is not offered

\* Mutant: a workflow that is there keeps the identifier it carries.
BindsOnce(o) == IF o \in here THEN inside[o] ELSE tool.held[Carried(o)]

\* The identifier written into what is imported.
Binds(o) == tool.held[Carried(o)]

\* The write of a layer on the appliance.
Lands ==
  LET o == Target IN
  /\ ~Homeless(o) /\ UNCHANGED linked
  /\ \/ o \in Categories \cup {"package"} /\ Puts(o) /\ UNCHANGED <<id, inside, text>>
     \/ o \in Issued /\ tool.found /\ Names(o, tool.held[o]) /\ UNCHANGED <<here, id, inside, text>>
     \/ o \in Issued /\ ~tool.found /\ o \notin here /\ Issues(o) /\ Puts(o) /\ UNCHANGED <<inside, text>>
     \/ /\ o \in Carriers /\ Puts(o) /\ inside' = [inside EXCEPT ![o] = Binds(o)] /\ UNCHANGED id
        /\ text' = IF o = "workflow" THEN "shipped" ELSE text
CanLand ==
  ~Homeless(Target) /\ (Target \in Issued => tool.found = (Target \in here) /\ (tool.found => tool.held[Target] = id[Target]))

\* The answer to a write is judged by its status, and the identifier in it is taken.  In vain: things are as they were,
\* and what was to be created is nowhere.  The package is the one object that is read again.
Given(vain) == IF vain /\ ~tool.found THEN Nowhere ELSE id'[Target]
Accepted(vain) ==
  LET t == [tool EXCEPT !.vain = @ \/ vain] IN
  IF Target \in Issued \cup Carriers
  THEN tool' = [t EXCEPT !.pc = "link", !.held = IF Target \in Issued THEN [@ EXCEPT ![Target] = Given(vain)] ELSE @]
  ELSE Onward(t)

Writes ==
  /\ In("deploy", "write") /\ Else
  /\ \/ Lands /\ Fine /\ Accepted(FALSE)
     \/ CanLand /\ Target # "package" /\ UNCHANGED appliance /\ Fails /\ Accepted(TRUE)
     \/ Lands /\ Exits(3) /\ Fails
     \/ ~CanLand /\ Exits(1) /\ Fine /\ UNCHANGED appliance
     \/ Exits(1) /\ Fails /\ UNCHANGED appliance

\* A link that is refused is noted and not fatal; that of an action always is.
Links ==
  /\ In("deploy", "link") /\ Onward(tool) /\ Else /\ UNCHANGED <<here, id, inside, text>>
  /\ IF {"package", Target} \subseteq here /\ Target # "action"
     THEN (linked' = linked \cup {Target} /\ Fine) \/ (UNCHANGED linked /\ Fails)
     ELSE UNCHANGED linked /\ Fine

\* readback: the environment's identifier, what the action reports, the workflow, and the element it names.  An action
\* reports the identifier it carries or a name, and the name of its environment will do.
Judges(ok) == tool' = [tool EXCEPT !.pc = "workflow", !.bad = @ \/ ~ok]
ReadsBack ==
  /\ tool.op = "readback" /\ Looks
  /\ \/ /\ tool.pc = "find" /\ Fine
        /\ tool' = [tool EXCEPT !.pc = "action",
                                !.held["environment"] = IF "environment" \in here THEN id["environment"] ELSE 0]
     \/ /\ tool.pc = "action" /\ Fine
        /\ Judges("action" \in here /\ inside["action"] = tool.held["environment"])
     \/ tool.pc = "action" /\ "action" \in here /\ Fine /\ tool' = [tool EXCEPT !.pc = "workflow", !.named = TRUE]
     \/ tool.pc = "action" /\ Fails /\ Judges(FALSE)
     \/ /\ tool.pc = "workflow" /\ "workflow" \in here /\ Fine
        /\ tool' = [tool EXCEPT !.pc = "element", !.held["element"] = inside["workflow"]]
     \/ tool.pc = "workflow" /\ (("workflow" \notin here /\ Fine) \/ Fails) /\ Exits(1)
     \/ /\ tool.pc = "element" /\ Fine
        /\ Exits(IF tool.bad \/ ~Names("element", tool.held["element"]) THEN 1 ELSE 0)
     \/ tool.pc = "element" /\ Fails /\ Exits(1)

\* teardown: what is not found is passed over; of a package or a workflow a failed read says as much.
FindsToDelete ==
  /\ In("teardown", "find") /\ Looks
  /\ \/ Target \in here /\ tool' = [tool EXCEPT !.pc = "write", !.held = Holding] /\ Fine
     \/ Target \notin here /\ Onward(tool) /\ Fine
     \/ Target \in {"package", "workflow"} /\ Onward([tool EXCEPT !.blind = TRUE]) /\ Fails

Deletes ==
  /\ In("teardown", "write") /\ Else
  /\ LET there == Deletable(Target) /\ (Target \in Issued => tool.held[Target] = id[Target]) IN
     \/ there /\ Removes(Target) /\ ((Onward(tool) /\ Fine) \/ (Exits(3) /\ Fails))
     \/ there /\ UNCHANGED appliance /\ Onward([tool EXCEPT !.vain = TRUE]) /\ Fails
     \/ ~there /\ UNCHANGED appliance /\ Onward([tool EXCEPT !.bad = TRUE]) /\ Fine
     \/ UNCHANGED appliance /\ Onward([tool EXCEPT !.bad = TRUE]) /\ Fails

-----------------------------------------------------------------------------
(* reconcile.py. *)

Drift == tool.op \in {"fetch", "diff", "apply", "force"}

\* Every operation begins with the running definition.
ReadsRunning ==
  /\ Drift /\ tool.pc = "find" /\ Fine /\ UNCHANGED <<appliance, running, teardowns, others>>
  /\ \/ "workflow" \notin here /\ Exits(3) /\ UNCHANGED copy
     \/ "workflow" \in here /\ tool.op = "fetch" /\ copy' = Live /\ Exits(0)
     \/ "workflow" \in here /\ tool.op = "diff" /\ Exits(IF copy = Live THEN 0 ELSE 1) /\ UNCHANGED copy
     \/ /\ "workflow" \in here /\ tool.op \in {"apply", "force"} /\ UNCHANGED copy
        /\ IF copy = NoCopy THEN Exits(2) ELSE tool' = [tool EXCEPT !.pc = "refs", !.live = Live]

\* The copy's script calls the action and its attribute reads the element.
ChecksReferences ==
  /\ tool.pc = "refs" /\ Looks
  /\ \/ "action" \in here /\ Names("element", copy.carries) /\ Goes("execs") /\ Fine
     \/ ~("action" \in here /\ Names("element", copy.carries)) /\ Exits(4) /\ Fine
     \/ Exits(4) /\ Fails

\* Mutant: a list of executions that does not answer counts as an empty one.
ChecksAnswered ==
  /\ tool.pc = "execs" /\ Looks
  /\ \E counted \in BOOLEAN :
       /\ IF counted = running THEN Fine ELSE Fails
       /\ CASE tool.live = copy -> Exits(0)
            [] tool.live # copy /\ tool.op = "apply" /\ counted -> Exits(4)
            [] OTHER -> Goes("put")

ChecksExecutions ==
  /\ tool.pc = "execs" /\ Looks
  /\ \E answered \in BOOLEAN :
       /\ IF answered THEN Fine ELSE Fails
       /\ CASE tool.live = copy -> Exits(0)
            [] tool.live # copy /\ tool.op = "apply" /\ (running \/ ~answered) -> Exits(4)
            [] OTHER -> Goes("put")

\* What the write answers counts only when it reads back.
Sends ==
  /\ tool.pc = "put" /\ Else /\ UNCHANGED <<here, id, linked>>
  /\ \/ /\ "workflow" \in here /\ inside' = [inside EXCEPT !["workflow"] = copy.carries] /\ text' = copy.text
        /\ ((Goes("back") /\ Fine) \/ (Exits(3) /\ Fails))
     \/ "workflow" \in here /\ Goes("back") /\ Fails /\ UNCHANGED <<inside, text>>
     \/ "workflow" \notin here /\ Exits(3) /\ Fine /\ UNCHANGED <<inside, text>>
     \/ Exits(3) /\ Fails /\ UNCHANGED <<inside, text>>

\* Mutant: the answer to the write is believed.
BelievesSent == tool.pc = "back" /\ Looks /\ Exits(0) /\ Fine

ReadsSent ==
  /\ tool.pc = "back" /\ Looks
  /\ \/ Exits(IF "workflow" \in here /\ Live = copy THEN 0 ELSE 3) /\ Fine
     \/ Exits(3) /\ Fails

-----------------------------------------------------------------------------
Step ==
  \/ Finds \/ Writes \/ Links \/ ReadsBack \/ FindsToDelete \/ Deletes
  \/ ReadsRunning \/ ChecksReferences \/ ChecksExecutions \/ Sends \/ ReadsSent

Next == OthersAct \/ Executes \/ (\E op \in Ops : Starts(op)) \/ Step \/ Stops

Spec == Init /\ [][Next]_vars

\* A run goes on, and the pipeline deploys again and again.
FairSpec == Spec /\ WF_vars(Step) /\ SF_vars(Starts("deploy"))

-----------------------------------------------------------------------------

Done(ops) == tool.pc = "done" /\ tool.op \in ops /\ tool.exit = 0
ActionBound == "action" \in here /\ Names("environment", inside["action"])
WorkflowBound == "workflow" \in here /\ Names("element", inside["workflow"])

\* Exit 0 is true, as long as nobody else has acted since the run began.  After a deploy whose writes took effect both
\* bindings name what this appliance has.  After a readback they do whatever the deploys before it did, unless the action
\* reports a name; it is there all the same.  After an apply the copy runs and its element is there, whatever its write
\* did; after a diff the copy is what runs.  After a teardown nothing of the manifest is left, if every read of it was
\* answered and every delete that was accepted took effect.
ExitZeroIsTrue ==
  tool.quiet =>
    /\ Done({"deploy"}) /\ ~tool.vain => ActionBound /\ WorkflowBound
    /\ Done({"readback"}) => "action" \in here /\ WorkflowBound /\ (~tool.named => ActionBound)
    /\ Done({"apply", "force"}) => Live = copy /\ WorkflowBound
    /\ Done({"diff"}) => Live = copy
    /\ Done({"teardown"}) /\ ~tool.blind /\ ~tool.vain => here = {}

\* Without --allow-inflight no definition is replaced under an execution that was going when the run began.
RunningIsSpared == [][In("apply", "put") /\ tool.saw => Live' = Live]_vars

\* The same of every execution.  It does not hold: one that starts after the list was read is not seen.
EveryRunningIsSpared == [][In("apply", "put") /\ running => Live' = Live]_vars

\* "deletes exactly the objects the manifest names".  It does not hold without the provisos of ExitZeroIsTrue: a read
\* of the workflow that is answered with an error passes it over, a delete that was accepted is not looked at again,
\* and the exit is 0.
TornDownIsGone == tool.quiet /\ Done({"teardown"}) => here = {}

\* "confirms the environment it reports is the one layer 4 made here".  It does not hold: an action that reports its
\* environment by name passes, although the one of that name was made again since, or its create took no effect.
ReadBackIsBound == tool.quiet /\ Done({"readback"}) => ActionBound

\* Deployed again and again, from whatever a failure or a teardown left, the content is bound and stays so.
BoundInTheEnd == <>[](ActionBound /\ WorkflowBound)
=============================================================================
