----------------------------- MODULE AlertScope -----------------------------
(***************************************************************************)
(* frameworks/wtpc, deploy_alerts.py: the posture's symptoms and alerts    *)
(* are made as generated, and each alert is switched on in the posture's   *)
(* policy and off in Default, so that it never fires on every object.  A   *)
(* switch is kept in each policy; where there is none the alert inherits,  *)
(* the posture's policy from Default.                                      *)
(***************************************************************************)
EXTENDS Naturals

CONSTANTS
  Symptoms, Alerts,
  MaxSends,              \* sends of a switch that does not hold (6)
  MaxOthers, MaxFaults   \* bounds

AlertsAssumption == {MaxSends, MaxOthers, MaxFaults} \subseteq Nat /\ Symptoms \cap Alerts = {} /\ Alerts # {}

VARIABLES
  held,              \* each definition on the instance: as generated, another of the name, or none
  posture, default,  \* the switch of each alert in the two policies
  run,
  others, faults

vars == <<held, posture, default, run, others, faults>>

Definitions == Symptoms \cup Alerts
Switches == [Alerts -> {"inherits", "on", "off"}]
Exits == {"exit0", "exit1"}
Running == run.pc \notin {"idle"} \cup Exits

\* alone: since the run began nobody else has changed anything.
TypeOK ==
  /\ held \in [Definitions -> {"generated", "differs", "absent"}] /\ {posture, default} \subseteq Switches
  /\ run \in [pc : {"idle", "list", "each", "readBack", "export", "send"} \cup Exits, phase : {"symptoms", "alerts", "on", "off"},
              found : SUBSET Definitions, todo : SUBSET Definitions, at : Definitions, sends : 0 .. MaxSends, alone : BOOLEAN]
  /\ others \in 0 .. MaxOthers /\ faults \in 0 .. MaxFaults
  /\ run.pc \in {"each", "readBack"} => run.phase \in {"symptoms", "alerts"}
  /\ run.phase \in {"on", "off"} => run.todo \subseteq Alerts

Blank(pc) ==
  [pc |-> pc, phase |-> "symptoms", found |-> {}, todo |-> {}, at |-> CHOOSE d \in Definitions : TRUE, sends |-> 0, alone |-> TRUE]

Init ==
  /\ held = [d \in Definitions |-> "absent"] /\ posture = [a \in Alerts |-> "inherits"] /\ default = posture
  /\ run = Blank("idle") /\ others = 0 /\ faults = 0

-----------------------------------------------------------------------------
\* Everybody else: a definition is edited or deleted (an alert's switches with it; an alert that named a
\* symptom that is gone is not as generated), an alert is switched, or set to inherit.
OthersAct ==
  /\ others < MaxOthers /\ others' = others + 1 /\ run' = [run EXCEPT !.alone = FALSE] /\ UNCHANGED faults
  /\ \/ \E d \in Definitions : held[d] # "absent" /\
          \/ held' = [held EXCEPT ![d] = "differs"] /\ UNCHANGED <<posture, default>>
          \/ /\ held' = [e \in Definitions |-> IF e = d THEN "absent"
                                              ELSE IF d \in Symptoms /\ e \in Alerts /\ held[e] = "generated" THEN "differs" ELSE held[e]]
             /\ posture' = [a \in Alerts |-> IF a = d THEN "inherits" ELSE posture[a]]
             /\ default' = [a \in Alerts |-> IF a = d THEN "inherits" ELSE default[a]]
     \/ \E a \in Alerts, s \in {"inherits", "on", "off"} : held[a] # "absent" /\ UNCHANGED held /\
          \/ posture' = [posture EXCEPT ![a] = s] /\ UNCHANGED default
          \/ default' = [default EXCEPT ![a] = s] /\ UNCHANGED posture

-----------------------------------------------------------------------------
At(pc) == run.pc = pc
Fault == faults < MaxFaults /\ faults' = faults + 1
Rest == UNCHANGED <<posture, default, others>>
Of(phase) == IF phase = "symptoms" THEN Symptoms ELSE Alerts
Ended(code) == [Blank(code) EXCEPT !.alone = run.alone]
Dies == run' = Ended("exit1") /\ Fault

Starts == ~Running /\ run' = Blank("list") /\ UNCHANGED <<held, posture, default, others, faults>>

\* The symptoms first, for the alerts name them; each kind is listed once, by name.
Lists ==
  /\ At("list") /\ UNCHANGED held /\ Rest
  /\ LET all == Of(run.phase) IN
     \/ run' = [run EXCEPT !.pc = "each", !.todo = all, !.found = {d \in all : held[d] # "absent"}] /\ UNCHANGED faults
     \/ Dies

Goes(d, pc) == run' = [run EXCEPT !.pc = pc, !.at = d, !.todo = @ \ {d}]

\* Adopted by name and written only where it differs, or made; the instance may keep something else than was sent.
\* One that was listed and is gone is refused.
Converges(d) ==
  /\ At("each") /\ d \in run.todo /\ Rest
  /\ \/ d \in run.found /\ held[d] = "generated" /\ Goes(d, "each") /\ UNCHANGED <<held, faults>>
     \/ /\ d \in run.found /\ held[d] = "differs" /\ Goes(d, "readBack")
        /\ \/ held' = [held EXCEPT ![d] = "generated"] /\ UNCHANGED faults
           \/ UNCHANGED held /\ Fault
     \/ d \in run.found /\ held[d] = "absent" /\ run' = Ended("exit1") /\ UNCHANGED <<held, faults>>
     \/ /\ d \notin run.found /\ Goes(d, "readBack")
        /\ \/ held' = [held EXCEPT ![d] = "generated"] /\ UNCHANGED faults
           \/ held' = [held EXCEPT ![d] = "differs"] /\ Fault
     \/ Dies /\ UNCHANGED held

\* Mutant: a definition that was sent is taken as kept.
BelievesDefinition == At("readBack") /\ UNCHANGED <<held, faults>> /\ Rest /\ run' = [run EXCEPT !.pc = "each"]

ReadsBack ==
  /\ At("readBack") /\ UNCHANGED held /\ Rest
  /\ \/ run' = (IF held[run.at] = "generated" THEN [run EXCEPT !.pc = "each"] ELSE Ended("exit1")) /\ UNCHANGED faults
     \/ Dies

\* Mutant: off in Default first.
OffFirst(phase) == CASE phase = "alerts" -> "off" [] phase = "off" -> "on" [] OTHER -> "done"

\* "Enable first: a WTPC policy that only inherits an alert from Default would lose it if Default were switched off first."
AfterPhase(phase) == CASE phase = "alerts" -> "on" [] phase = "on" -> "off" [] OTHER -> "done"

Turns ==
  /\ At("each") /\ run.todo = {} /\ UNCHANGED <<held, faults>> /\ Rest
  /\ run' = IF run.phase = "symptoms" THEN [run EXCEPT !.pc = "list", !.phase = "alerts"]
            ELSE [run EXCEPT !.pc = "export", !.phase = AfterPhase("alerts"), !.sends = 0]

\* Switched here, and not inherited: read from the export of the policy.
Holds(a) == IF run.phase = "on" THEN posture[a] = "on" ELSE default[a] = "off"

\* What the export does not show held is sent again, up to six times.
ReadsExport ==
  /\ At("export") /\ UNCHANGED held /\ Rest
  /\ LET todo == {a \in Alerts : ~Holds(a)} IN
     \/ /\ UNCHANGED faults
        /\ run' = IF todo # {} THEN IF run.sends = MaxSends THEN Ended("exit1")
                                    ELSE [run EXCEPT !.pc = "send", !.todo = todo, !.sends = @ + 1]
                  ELSE IF AfterPhase(run.phase) = "done" THEN Ended("exit0")
                  ELSE [run EXCEPT !.phase = AfterPhase(@), !.sends = 0]
     \/ Dies

Switched(a) ==
  IF run.phase = "on" THEN posture' = [posture EXCEPT ![a] = "on"] /\ UNCHANGED default
  ELSE default' = [default EXCEPT ![a] = "off"] /\ UNCHANGED posture

\* A switch may be answered 200 and not be recorded; that of an alert that is gone is refused.
Sends(a) ==
  /\ At("send") /\ a \in run.todo /\ UNCHANGED <<held, others>>
  /\ LET next == [run EXCEPT !.todo = @ \ {a}, !.pc = IF run.todo = {a} THEN "export" ELSE "send"] IN
     \/ held[a] # "absent" /\ Switched(a) /\ run' = next /\ UNCHANGED faults
     \/ UNCHANGED <<posture, default>> /\ run' = next /\ Fault
     \/ UNCHANGED <<posture, default>> /\ Dies
     \/ held[a] = "absent" /\ UNCHANGED <<posture, default, faults>> /\ run' = Ended("exit1")

Step == Lists \/ (\E d \in Definitions : Converges(d)) \/ ReadsBack \/ Turns \/ ReadsExport \/ \E a \in Alerts : Sends(a)
Next == OthersAct \/ Starts \/ Step
Spec == Init /\ [][Next]_vars

\* The deploy is run again, and a run goes on.
FairSpec == Spec /\ WF_vars(Step) /\ WF_vars(Starts)

-----------------------------------------------------------------------------
Scoped(a) == posture[a] = "on" /\ default[a] = "off"
AsGenerated == \A d \in Definitions : held[d] = "generated"
Fires(a) == held[a] # "absent" /\ (posture[a] = "on" \/ (posture[a] = "inherits" /\ default[a] # "off"))

\* Exit 0 of a run left alone: every definition is as generated, and every alert is on for the posture alone.
ConvergedAsDeclared == run.pc = "exit0" /\ run.alone => AsGenerated /\ \A a \in Alerts : Scoped(a)

\* Whatever fails, and wherever a run ends, no step of one left alone takes from the posture an alert that fires for it.
KeepsFiring == Step /\ run.alone => \A a \in Alerts : Fires(a) => Fires(a)'
NoAlertIsLost == [][KeepsFiring]_vars

\* Run again and again, every alert comes to be on for the posture alone.
InPlace == AsGenerated /\ \A a \in Alerts : Scoped(a)
GetsThere == []<>InPlace

\* NoAlertIsLost whoever else acts.  It does not hold: a switch set to inherit after it was read on goes with Default's.
NoAlertIsEverLost == [][Step => \A a \in Alerts : Fires(a) => Fires(a)']_vars
=============================================================================
