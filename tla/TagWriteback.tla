---------------------------- MODULE TagWriteback ----------------------------
(***************************************************************************)
(* frameworks/cartography, writeback_tags.py: the approved values of one   *)
(* category are attached to machines, and taken off again by --teardown.   *)
(* The script reads every machine, decides for each, and writes one after  *)
(* the other, reading each back, while people tag machines by hand.  The   *)
(* category holds one value of a machine (SINGLE).                         *)
(***************************************************************************)
EXTENDS Naturals

CONSTANTS
  VMs, Values,
  Absent,
  MaxOthers, MaxFaults   \* bounds

TagsAssumption == {MaxOthers, MaxFaults} \subseteq Nat /\ Absent \notin Values

VARIABLES
  category,   \* the category of that name: not there, with the marker of the script, or somebody else's
  tag,        \* the value attached to each machine
  approved,   \* the approved recommendations
  run,
  others, faults

vars == <<category, tag, approved, run, others, faults>>

None == [v \in VMs |-> Absent]
Tags == [VMs -> Values \cup {Absent}]
Exits == {"exit0", "exit1", "exit2"}
Running == run.pc \notin {"idle"} \cup Exits

\* before: the tags as they were when the run read them; current: as it read them.
\* alone: since then nobody else has changed anything.
TypeOK ==
  /\ category \in {"none", "ours", "theirs"} /\ tag \in Tags /\ approved \in Tags \ {None}
  /\ category = "none" => tag = None
  /\ run \in [pc : {"idle", "define", "read", "each", "attach", "verify", "categories"} \cup Exits,
              verb : {"apply", "teardown"}, allow : BOOLEAN, removes : BOOLEAN, before : Tags, current : Tags,
              todo : SUBSET VMs, vm : VMs, whole : BOOLEAN, alone : BOOLEAN]
  /\ others \in 0 .. MaxOthers /\ faults \in 0 .. MaxFaults
  /\ run.pc \in {"define", "attach"} => run.verb = "apply"

Fresh(pc, verb) ==
  [pc |-> pc, verb |-> verb, allow |-> FALSE, removes |-> FALSE, before |-> None, current |-> None, todo |-> {},
   vm |-> CHOOSE v \in VMs : TRUE, whole |-> TRUE, alone |-> TRUE]

Init ==
  /\ category = "none" /\ tag = None /\ approved \in Tags \ {None}
  /\ run = Fresh("idle", "apply") /\ others = 0 /\ faults = 0

-----------------------------------------------------------------------------
\* People tag machines by hand, one value of the category each, and make a category of that name.
OthersAct ==
  /\ others < MaxOthers /\ others' = others + 1 /\ run' = [run EXCEPT !.alone = FALSE]
  /\ \/ /\ category # "none" /\ UNCHANGED category
        /\ \E v \in VMs, x \in Values \cup {Absent} : tag' = [tag EXCEPT ![v] = x]
     \/ category = "none" /\ category' = "theirs" /\ UNCHANGED tag
  /\ UNCHANGED <<approved, faults>>

-----------------------------------------------------------------------------
At(pc) == run.pc = pc
Fault == faults < MaxFaults /\ faults' = faults + 1
Rest == UNCHANGED <<approved, others>>
Approved == {v \in VMs : approved[v] # Absent}
Ended(code) == [run EXCEPT !.pc = code]
Dies == run' = Ended("exit1") /\ Fault

Starts(verb, allow, removes) ==
  /\ ~Running /\ (verb = "teardown" => ~allow) /\ (removes => verb = "teardown")
  /\ run' = [Fresh(IF verb = "apply" THEN "define" ELSE "read", verb) EXCEPT !.allow = allow, !.removes = removes]
  /\ UNCHANGED <<category, tag, approved, others, faults>>

\* A category of that name without the marker is a conflict.  The catalog is read by the index of before the define: of a
\* category that is made now it knows no value.
Defines ==
  /\ At("define") /\ UNCHANGED tag /\ Rest
  /\ \/ category = "theirs" /\ run' = Ended("exit1") /\ UNCHANGED <<category, faults>>
     \/ /\ category # "theirs" /\ run' = [run EXCEPT !.pc = "read", !.whole = category = "ours"]
        /\ category' = "ours" /\ UNCHANGED faults
     \/ category # "theirs" /\ Dies /\ category' \in {category, "ours"}

\* What is attached to each machine.  A value is known by the catalog: a value list that cannot be read counts as none,
\* and then a machine's value is not seen.  Only the categories of the taxonomy are looked at, whoever made them.
Reads ==
  /\ At("read") /\ UNCHANGED <<category, tag>> /\ Rest
  /\ LET seen(whole) == run' = [run EXCEPT !.pc = "each", !.before = tag, !.current = IF whole THEN tag ELSE None,
                                          !.todo = Approved, !.alone = TRUE, !.whole = whole] IN
     \/ seen(run.whole) /\ UNCHANGED faults
     \/ run.whole /\ seen(FALSE) /\ Fault
     \/ Dies

\* Mutant: a value that is there is no reason to hold.
Overwrites(v) ==
  IF run.verb = "teardown" THEN IF run.current[v] = approved[v] THEN "detach" ELSE "none"
  ELSE IF run.current[v] = approved[v] THEN "none" ELSE IF run.current[v] = Absent THEN "attach" ELSE "change"

\* Mutant: a machine that has a value is left as it is, permitted or not.
NeverChanges(v) ==
  IF run.verb = "teardown" THEN IF run.current[v] = approved[v] THEN "detach" ELSE "none"
  ELSE IF run.current[v] = Absent THEN "attach" ELSE "none"

\* The decision: a different value is held, unless a change was permitted; a teardown takes off its own value alone.
Decision(v) ==
  IF run.verb = "teardown" THEN IF run.current[v] = approved[v] THEN "detach" ELSE "none"
  ELSE CASE run.current[v] = approved[v] -> "none"
         [] run.current[v] = Absent -> "attach"
         [] OTHER -> IF run.allow THEN "change" ELSE "none"

Turn(v, d) == At("each") /\ v \in run.todo /\ Decision(v) = d
Goes(v, pc) == run' = [run EXCEPT !.pc = pc, !.vm = v, !.todo = @ \ {v}]

\* The detach of the value it read: of another value it takes nothing off.
Without(v, x) == IF tag[v] = x THEN [tag EXCEPT ![v] = Absent] ELSE tag

\* A change takes the old value off first, the detach of a teardown is the same call.  Either may be answered as done
\* and not be; a call that is refused ends the run.
TakesOff(v) ==
  /\ UNCHANGED category /\ Rest
  /\ \/ Turn(v, "attach") /\ Goes(v, "attach") /\ UNCHANGED <<tag, faults>>
     \/ /\ Turn(v, "change") \/ Turn(v, "detach")
        /\ LET pc == IF run.verb = "apply" THEN "attach" ELSE "verify" IN
           \/ Goes(v, pc) /\ tag' = Without(v, run.current[v]) /\ UNCHANGED faults
           \/ Goes(v, pc) /\ UNCHANGED tag /\ Fault
           \/ Dies /\ UNCHANGED tag

\* A machine that holds another value refuses a second one.
Attaches ==
  /\ At("attach") /\ UNCHANGED category /\ Rest
  /\ LET v == run.vm IN
     \/ /\ tag[v] \in {Absent, approved[v]} /\ UNCHANGED faults
        /\ tag' = [tag EXCEPT ![v] = approved[v]] /\ run' = [run EXCEPT !.pc = "verify"]
     \/ run' = [run EXCEPT !.pc = "verify"] /\ UNCHANGED tag /\ Fault
     \/ tag[v] \notin {Absent, approved[v]} /\ run' = Ended("exit1") /\ UNCHANGED <<tag, faults>>
     \/ Dies /\ UNCHANGED tag

\* Mutant: an assign that was answered is believed.
Believes ==
  /\ At("verify") /\ UNCHANGED <<category, tag, faults>> /\ Rest /\ run' = [run EXCEPT !.pc = "each"]

\* Read back from vCenter: what did not land, or did not go, ends the run.
Verifies ==
  /\ At("verify") /\ UNCHANGED <<category, tag>> /\ Rest
  /\ \/ /\ UNCHANGED faults
        /\ run' = IF (tag[run.vm] = approved[run.vm]) = (run.verb = "apply") THEN [run EXCEPT !.pc = "each"] ELSE Ended("exit2")
     \/ Dies

Ends ==
  /\ At("each") /\ \A v \in run.todo : Decision(v) = "none"
  /\ run' = IF run.removes THEN [run EXCEPT !.pc = "categories"] ELSE Ended("exit0")
  /\ UNCHANGED <<category, tag, faults>> /\ Rest

\* --remove-categories: a value that cannot be deleted is noted, and the category is deleted with what is left of it.
RemovesCategory ==
  /\ At("categories") /\ Rest
  /\ \/ /\ run' = Ended("exit0") /\ UNCHANGED faults
        /\ IF category = "ours" THEN category' = "none" /\ tag' = None ELSE UNCHANGED <<category, tag>>
     \/ Dies /\ UNCHANGED <<category, tag>>

Step == Defines \/ Reads \/ (\E v \in VMs : TakesOff(v)) \/ Attaches \/ Verifies \/ Ends \/ RemovesCategory
AnyStart == \E verb \in {"apply", "teardown"}, allow, removes \in BOOLEAN : Starts(verb, allow, removes)
Next == OthersAct \/ Step \/ AnyStart
Spec == Init /\ [][Next]_vars

\* A run goes on, and the write-back is run again.
FairSpec == Spec /\ WF_vars(Step) /\ SF_vars(Starts("apply", FALSE, FALSE))

-----------------------------------------------------------------------------
Over(verb) == run.pc = "exit0" /\ run.verb = verb /\ run.alone

\* Exit 0 of a write-back left alone: every approved machine holds the approved value, or the value that it held all
\* along and that nobody permitted to change.
ConvergedAsDeclared ==
  Over("apply") => \A v \in Approved :
    tag[v] = IF run.before[v] = Absent \/ run.allow THEN approved[v] ELSE run.before[v]

\* Exit 0 of a teardown left alone that could read the catalog: no approved value is attached any more.
TornDownIsGone == Over("teardown") /\ run.whole => \A v \in Approved : tag[v] # approved[v]

\* "a different existing value holds by default", and a teardown "undoes precisely what the matching write did, and
\* nothing a person changed afterward": whatever people do meanwhile, a value the run did not come for stays.
Spared ==
  \A v \in VMs : tag'[v] # tag[v] =>
    tag[v] \in {Absent} \cup (IF run.verb = "teardown" THEN {approved[v]} ELSE IF run.allow THEN {run.before[v]} ELSE {})
Spares == Step /\ ~At("categories") => Spared
HoldsWhatPeopleSet == [][Spares]_vars

\* A value lost between a detach and an attach that failed is attached by a later run.
InPlace == category = "theirs" \/ \A v \in Approved : tag[v] # Absent
GetsThere == []<>InPlace

\* "No partial state was written that vCenter would show", of a write-back left alone that exits 2.  It does not hold: of
\* a permitted change the old value is off by then, and the machines before this one are tagged.
NoPartialState == run.pc = "exit2" /\ run.verb = "apply" /\ run.alone => tag = run.before

\* HoldsWhatPeopleSet with --remove-categories.  It does not hold: the category goes with the values that were held.
HoldsWhenRemoving == [][Step => Spared]_vars
=============================================================================
