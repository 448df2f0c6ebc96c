------------------------------- MODULE OpsCycle -------------------------------
(***************************************************************************)
(* handbook/ops-estate/cycle.py: the demonstration that runs converge.py   *)
(* and teardown.py step by step on names nobody has, reads the instance    *)
(* between the steps and tears down whatever happens.                      *)
(***************************************************************************)
EXTENDS OpsEstate

CONSTANT Other   \* the declared name that is deleted outside the converge

\* (MaxId leaves room for every create of a cycle: each name once, and once more the one deleted outside.)
ASSUME CycleAssumption ==
  EstateAssumption /\ Other \in Declared /\ IsFiniteSet(Declared) /\ Cardinality(Declared) < MaxId

VARIABLE cycle

cycleVars == <<vars, cycle>>

None == [n \in Declared |-> 0]

\* Each step that runs a script, and what the cycle does after it.
ScriptOf == [dry |-> "dryRun", first |-> "converge", second |-> "converge", drift |-> "converge",
             recreate |-> "converge", teardown |-> "teardown", adopt |-> "dryRun", final |-> "teardown"]
After == [dry |-> "first", first |-> "readCreate", second |-> "edit", drift |-> "readDrift",
          recreate |-> "readRecreate", teardown |-> "adopt", adopt |-> "residue"]
Reads == {"readCreate", "readDrift", "readRecreate"}
CycleExits == {"exit0", "exit1", "refused"}

\* created: the finally clause has to tear down.  lost: a write of the cycle got no answer.  noop: the second run
\* wrote nothing.
CycleInit ==
  /\ Init
  /\ cycle = [pc |-> "start", waits |-> FALSE, created |-> FALSE, ids |-> None, kept |-> FALSE, changed |-> FALSE,
              noop |-> FALSE, lost |-> FALSE]

Now(pc) == cycle.pc = pc /\ ~cycle.waits
CycleFault == Fault /\ UNCHANGED <<estate, minted, desired, tool, late, teardowns, others>>

\* A step failed, or anything was raised: the finally clause tears down what may have been created.
Fails == cycle' = [cycle EXCEPT !.waits = FALSE, !.pc = IF cycle.created THEN "final" ELSE "exit1"]

Begins ==
  /\ Now("start")
  /\ \/ UNCHANGED vars
        /\ \E found \in Listings : cycle' = [cycle EXCEPT !.pc = IF found = None THEN "dry" ELSE "refused"]
     \/ CycleFault /\ Fails

RunsStep ==
  /\ cycle.pc \in DOMAIN ScriptOf /\ ~cycle.waits /\ Starts(ScriptOf[cycle.pc])
  /\ cycle' = [cycle EXCEPT !.waits = TRUE, !.created = @ \/ cycle.pc = "first"]

StepDone ==
  /\ cycle.waits /\ tool.pc = "exit0" /\ cycle.pc # "final" /\ UNCHANGED vars
  /\ cycle' = [cycle EXCEPT !.waits = FALSE, !.pc = After[@], !.created = @ /\ cycle.pc # "teardown",
                            !.noop = IF cycle.pc = "second" THEN ~tool.wrote ELSE @]

StepFails == cycle.waits /\ tool.pc = "exit1" /\ cycle.pc # "final" /\ UNCHANGED vars /\ Fails

\* Nobody looks at how the teardown of the finally clause ends.
FinalEnds ==
  /\ cycle.waits /\ tool.pc \in Exits /\ cycle.pc = "final" /\ UNCHANGED vars
  /\ cycle' = [cycle EXCEPT !.waits = FALSE, !.pc = "exit1"]

\* declared_ids between the steps.
ReadsIds ==
  /\ cycle.pc \in Reads
  /\ \/ /\ UNCHANGED vars
        /\ \E found \in Listings :
             cycle' = CASE Now("readCreate") -> [cycle EXCEPT !.pc = "second", !.ids = found]
                        [] Now("readDrift") -> [cycle EXCEPT !.pc = "delete", !.ids = found,
                                                             !.kept = found # None /\ found = cycle.ids]
                        [] OTHER -> [cycle EXCEPT !.pc = "teardown",
                                                  !.changed = found[Other] \notin {0, cycle.ids[Other]}]
     \/ CycleFault /\ Fails

EditsDrift ==
  /\ Now("edit") /\ cycle' = [cycle EXCEPT !.pc = "drift"]
  /\ desired' \in {d \in [Declared -> Contents] : \A n \in Declared : d[n] # desired[n]}
  /\ UNCHANGED <<estate, minted, tool, late, teardowns, faults, others>>

\* Deleted by hand, as a rebuild would; without an id the step raises.
DeletesOther ==
  /\ Now("delete") /\ UNCHANGED <<minted, desired, tool, late, teardowns, others>>
  /\ LET i == cycle.ids[Other] IN
     \/ i \notin Live /\ UNCHANGED <<estate, faults>> /\ Fails
     \/ /\ i \in Live /\ cycle' = [cycle EXCEPT !.pc = "recreate"]
        /\ \/ estate' = [estate EXCEPT ![i] = Absent] /\ UNCHANGED faults
           \/ UNCHANGED estate /\ Fault
     \/ UNCHANGED estate /\ Fault /\ Fails

\* The adoption's counts may differ as well, which only the exit code shows.
Residue ==
  /\ Now("residue")
  /\ \/ /\ UNCHANGED vars
        /\ \E found \in Listings : cycle' = [cycle EXCEPT !.pc = Verdict(~(cycle.kept /\ cycle.changed /\ found = None))]
     \/ CycleFault /\ cycle' = [cycle EXCEPT !.pc = "exit1"]

CycleStep ==
  \/ Begins \/ RunsStep \/ StepDone \/ StepFails \/ FinalEnds \/ ReadsIds \/ EditsDrift \/ DeletesOther \/ Residue

\* The scripts run as the cycle starts them; the world goes on around them.
Around ==
  \/ (OthersAct \/ Lands \/ ToolStep) /\ UNCHANGED cycle
  \/ Dies /\ cycle' = [cycle EXCEPT !.lost = @ \/ late' # late]

Ended == cycle.pc \in CycleExits
Terminating == Ended /\ UNCHANGED cycleVars

CycleNext == CycleStep \/ Around \/ Terminating

CycleSpec == CycleInit /\ [][CycleNext]_cycleVars

-----------------------------------------------------------------------------
Gone == \A n \in Declared : Named(n) = {}

\* "If any step fails, the teardown still runs": wherever one failure falls, in the steps, in the teardown or in
\* its read-back, the cycle ends with nothing of its own on the instance, unless a write was lost on the way.
OneFailureLeavesNothing ==
  Ended /\ faults <= 1 /\ others = 0 /\ ~cycle.lost /\ MaxId <= PageSize => Gone

\* "leave nothing behind": also when a create got no answer and lands after the teardown has listed.
\* It does not hold: the create of a run that timed out can land after the teardown's list.
LeavesNothingBehind == Ended /\ faults <= 1 /\ others = 0 /\ late = {} => Gone

\* "3. converge.py a converged estate is a no-op", "0 when every behavior held".
\* It does not hold: of the second run only the exit code is looked at.
HeldMeansNoOp == Now("exit0") => cycle.noop

\* "the demonstration would then adopt an object it did not create": what somebody else made is never changed.
\* It does not hold: the names are checked once, before the dry run.
AdoptsOnlyItsOwn ==
  [][ToolStep => \A i \in Live : estate'[i] # estate[i] => estate[i].by = "tool"]_cycleVars
=============================================================================
