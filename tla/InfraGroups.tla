----------------------------- MODULE InfraGroups -----------------------------
(***************************************************************************)
(* frameworks/wtpc, reconcile_infra_groups.py: the members of a posture's  *)
(* Hosts group are the hosts its machines run on; one they have left is    *)
(* held for a dwell window, measured by a file of stamps that is written   *)
(* at the end of a run.  (The Clusters group goes the same way; its PUT    *)
(* can fail after this one's.)  Times are ages in hours, Dwell standing    *)
(* for that many or more.                                                  *)
(***************************************************************************)
EXTENDS Naturals

CONSTANTS
  Hosts,
  Dwell,               \* --dwell-hours
  Absent,
  MaxMoves, MaxFaults  \* bounds

InfraGroupsAssumption ==
  /\ Dwell \in Nat \ {0} /\ {MaxMoves, MaxFaults} \subseteq Nat /\ Absent \notin 0 .. Dwell

VARIABLES
  placed,     \* the hosts the posture's machines run on
  group,      \* the Hosts group: members, the tag rule, the policy bound to it
  tiers,      \* tier policies are live
  file,       \* .reconcile-state.json: the age of each stamp
  run,        \* the run of the reconciler
  lastSeen,   \* (history) the age of the last plan that saw a machine on the host
  unsaved,    \* (history) hosts whose last sight was not saved
  moves, faults

vars == <<placed, group, tiers, file, run, lastSeen, unsaved, moves, faults>>

Ages == 0 .. Dwell
Stamps == [Hosts -> Ages \cup {Absent}]
Groups == [members : SUBSET Hosts, rule : BOOLEAN, policy : {"none", "posture", "other"}]
Exits == {"exit0", "exit1", "exit2"}
Running == run.pc \notin {"idle"} \cup Exits

\* whole: every machine was read with its host; alone: since the run began nobody else has changed anything.
TypeOK ==
  /\ placed \subseteq Hosts /\ group \in Groups /\ tiers \in BOOLEAN /\ file \in Stamps
  /\ run \in [pc : {"idle", "read", "plan", "put", "confirm", "save"} \cup Exits, force : BOOLEAN, desired : SUBSET Hosts,
              seen : Groups, want : Groups, stamps : Stamps, whole : BOOLEAN, alone : BOOLEAN]
  /\ lastSeen \in [Hosts -> Ages] /\ unsaved \subseteq Hosts
  /\ moves \in 0 .. MaxMoves /\ faults \in 0 .. MaxFaults
  /\ run.pc \in {"put", "confirm"} => run.want # run.seen

Unset == [members |-> {}, rule |-> TRUE, policy |-> "none"]
Blank(pc) ==
  [pc |-> pc, force |-> FALSE, desired |-> {}, seen |-> Unset, want |-> Unset, stamps |-> [h \in Hosts |-> Absent],
   whole |-> TRUE, alone |-> TRUE]

Init ==
  /\ placed \in SUBSET Hosts /\ tiers \in BOOLEAN
  /\ group = Unset /\ file = [h \in Hosts |-> Absent] /\ run = Blank("idle")
  /\ lastSeen = [h \in Hosts |-> Dwell] /\ unsaved = {} /\ moves = 0 /\ faults = 0

-----------------------------------------------------------------------------
(* Time, and everybody else: machines move, the group is edited by hand, tier policies come, the file is lost. *)

Older(age) == IF age \in 0 .. Dwell - 1 THEN age + 1 ELSE age

Ticks ==
  /\ file' = [h \in Hosts |-> Older(file[h])] /\ lastSeen' = [h \in Hosts |-> Older(lastSeen[h])]
  /\ run' = [run EXCEPT !.stamps = [h \in Hosts |-> Older(@[h])]]
  /\ UNCHANGED <<placed, group, tiers, unsaved, moves, faults>>

Moves ==
  /\ moves < MaxMoves /\ moves' = moves + 1 /\ run' = [run EXCEPT !.alone = FALSE]
  /\ \/ placed' \in SUBSET Hosts /\ UNCHANGED <<group, tiers, file>>
     \/ group' \in {[group EXCEPT !.policy = p] : p \in {"none", "posture", "other"}}
                   \cup {[group EXCEPT !.members = m, !.rule = FALSE] : m \in (SUBSET Hosts) \ {{}}}
        /\ UNCHANGED <<placed, tiers, file>>
     \/ tiers' = TRUE /\ UNCHANGED <<placed, group, file>>
     \/ file' = [h \in Hosts |-> Absent] /\ UNCHANGED <<placed, group, tiers>>
  /\ UNCHANGED <<lastSeen, unsaved, faults>>

-----------------------------------------------------------------------------
At(pc) == run.pc = pc
Fault == faults < MaxFaults /\ faults' = faults + 1
History == UNCHANGED <<lastSeen, unsaved>>
Rest == UNCHANGED <<placed, tiers, moves>>

\* What a run knew is gone when it ends.
Ended(code) == [Blank(code) EXCEPT !.whole = run.whole, !.alone = run.alone]

Starts(force) == ~Running /\ run' = [Blank("read") EXCEPT !.force = force] /\ Rest /\ History /\ UNCHANGED <<group, file, faults>>

\* An empty VMs group is refused, unless forced; a machine without a parent host is skipped.
Reads ==
  /\ At("read") /\ Rest /\ History /\ UNCHANGED <<group, file>>
  /\ LET go(d, refuse, whole) ==
           run' = IF refuse /\ ~run.force THEN Ended("exit2")
                  ELSE [run EXCEPT !.pc = "plan", !.desired = d, !.seen = group, !.whole = whole] IN
     \/ go(placed, placed = {}, TRUE) /\ UNCHANGED faults
     \/ go({}, TRUE, FALSE) /\ Fault
     \/ \E d \in SUBSET placed : go(d, FALSE, FALSE) /\ Fault

\* Mutant: a stamp is set once and not renewed while the host is in use.
FirstStamped(stamps, current, desired) ==
  [h \in Hosts |-> IF h \in desired \cup current /\ stamps[h] = Absent THEN 0 ELSE stamps[h]]

\* What is in use is stamped now; a departure without a stamp is noticed now.
Stamped(stamps, current, desired) ==
  [h \in Hosts |-> IF h \in desired \/ (h \in current /\ stamps[h] = Absent) THEN 0 ELSE stamps[h]]

Recent(stamp) == stamp # Absent /\ stamp < Dwell
Effective(stamps, current, desired) == desired \cup {h \in current : Recent(stamps[h])}
Pruned(stamps, effective) == [h \in Hosts |-> IF h \in effective \/ Recent(stamps[h]) THEN stamps[h] ELSE Absent]

\* Mutant: hardware keeps the posture's policy where tiers govern.
KeepsPolicy(members) == [members |-> members, rule |-> members = {}, policy |-> "posture"]

\* A group of no members gets its tag rule back; the policy goes where tier policies are live, else it is the posture's.
Wanted(members) == [members |-> members, rule |-> members = {}, policy |-> IF tiers THEN "none" ELSE "posture"]

Plans ==
  /\ At("plan") /\ Rest /\ UNCHANGED <<group, faults>>
  /\ LET stamps == Stamped(file, run.seen.members, run.desired)
         effective == Effective(stamps, run.seen.members, run.desired)
         kept == Pruned(stamps, effective)
         same == Wanted(effective) = run.seen IN
     /\ run' = IF same THEN Ended("exit0")
               ELSE [run EXCEPT !.pc = "put", !.stamps = kept, !.want = Wanted(effective)]
     /\ file' = IF same THEN kept ELSE file
     /\ unsaved' = IF same THEN unsaved \ run.desired ELSE unsaved \cup run.desired
  /\ lastSeen' = [h \in Hosts |-> IF h \in run.desired THEN 0 ELSE lastSeen[h]]

\* The PUT replaces the whole group.
Puts ==
  /\ At("put") /\ Rest /\ History /\ UNCHANGED file
  /\ \/ run' = [run EXCEPT !.pc = "confirm"] /\ group' = run.want /\ UNCHANGED faults
     \/ run' = [run EXCEPT !.pc = "confirm"] /\ UNCHANGED group /\ Fault
     \/ run' = Ended("exit1") /\ UNCHANGED group /\ Fault

\* Mutant: a PUT that was accepted is believed.
BelievesPut ==
  /\ At("confirm") /\ Rest /\ History /\ UNCHANGED <<group, file, faults>> /\ run' = [run EXCEPT !.pc = "save"]

Confirms ==
  /\ At("confirm") /\ Rest /\ History /\ UNCHANGED <<group, file>>
  /\ \/ run' = (IF group = run.want THEN [run EXCEPT !.pc = "save"] ELSE Ended("exit1")) /\ UNCHANGED faults
     \/ run' = Ended("exit1") /\ Fault

\* The stamps are saved last; a failure of the other group's PUT comes before it.
Saves ==
  /\ At("save") /\ Rest /\ UNCHANGED <<group, lastSeen>>
  /\ \/ run' = Ended("exit0") /\ file' = run.stamps /\ unsaved' = unsaved \ run.desired /\ UNCHANGED faults
     \/ run' = Ended("exit1") /\ UNCHANGED <<file, unsaved>> /\ Fault

Step == Reads \/ Plans \/ Puts \/ Confirms \/ Saves
Next == Ticks \/ Moves \/ Step \/ \E force \in BOOLEAN : Starts(force)
Spec == Init /\ [][Next]_vars

\* The reconciler is run routinely, a run goes on, and time passes.
FairSpec == Spec /\ WF_vars(Step) /\ SF_vars(Starts(FALSE)) /\ WF_vars(Ticks)

-----------------------------------------------------------------------------
GovernedByTier == group.policy = IF tiers THEN "none" ELSE "posture"
AsPlaced == group.members = placed /\ GovernedByTier

\* Exit 0 of a run left alone: every host in use is a member, any other member is stamped and so on its way out, and
\* tiers alone govern hardware where they are live.
ConvergedAsDeclared ==
  run.pc = "exit0" /\ run.alone /\ run.whole =>
    /\ placed \subseteq group.members /\ \A h \in group.members \ placed : file[h] # Absent
    /\ GovernedByTier

\* "hold a departed resource for a dwell window so DRS vMotion can't thrash the tier": what a run takes out was last seen
\* in use a whole window ago, unless the run that saw it ended before it saved.
Holds == Puts => \A h \in run.seen.members \ group'.members : h \in group.members \ unsaved => lastSeen[h] = Dwell
HeldForDwell == [][Holds]_vars

\* Run again and again, the group comes to be the hosts in use; an empty VMs group is refused for ever.
InPlace == placed = {} \/ AsPlaced
GetsThere == []<>InPlace

\* The same without the exception.  It does not hold: the stamps of a run that fails after its plan are lost.
AlwaysHeldForDwell ==
  [][Puts => \A h \in run.seen.members \ group'.members : h \in group.members => lastSeen[h] = Dwell]_vars
=============================================================================
