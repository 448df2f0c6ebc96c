----------------------------- MODULE MCContent -----------------------------
(***************************************************************************)
(* The scripts that keep what they declare in place on a shared instance,  *)
(* on small instances: the super metrics of the operations content, the    *)
(* hardware groups, the ranking of the policies and the alerts of a        *)
(* posture, and the tags of the cartography.  They share no state, so each *)
(* behaviour exercises one and the others rest.                            *)
(***************************************************************************)
EXTENDS Naturals, FiniteSets

CONSTANTS
  Declared, Undeclared, Contents, PageSize, MaxId, MaxTeardowns,
  Hosts, Dwell,
  Postures, Teams,
  Symptoms, Alerts, MaxSends,
  VMs, Values,
  Absent,
  MaxOthers, MaxFaults,     \* acts of others and failed calls: the super metrics and the alerts
  MaxMoves, MaxFailures     \* the same: the groups, the ranking and the tags

VARIABLES
  script,
  estate, minted, desired, tool, late, teardowns, estateFaults, estateOthers,
  placed, group, tiers, file, follow, lastSeen, unsaved, moves, groupFaults,
  live, order, vmsGroup, hardware, tiered, ranking, rankOthers, rankFaults,
  held, posture, default, deploy, alertOthers, alertFaults,
  category, tag, approved, tagging, tagOthers, tagFaults

Estate == INSTANCE OpsEstate WITH faults <- estateFaults, others <- estateOthers
Groups == INSTANCE InfraGroups WITH run <- follow, faults <- groupFaults, MaxFaults <- MaxFailures
Ranks == INSTANCE PolicyRanking WITH
  run <- ranking, tiers <- tiered, faults <- rankFaults, others <- rankOthers, MaxFaults <- MaxFailures, MaxOthers <- MaxMoves
Scope == INSTANCE AlertScope WITH run <- deploy, faults <- alertFaults, others <- alertOthers
Tags == INSTANCE TagWriteback WITH
  run <- tagging, faults <- tagFaults, others <- tagOthers, MaxFaults <- MaxFailures, MaxOthers <- MaxMoves

ASSUME ContentAssumption ==
  /\ Estate!EstateAssumption /\ Groups!InfraGroupsAssumption /\ Ranks!RankingAssumption
  /\ Scope!AlertsAssumption /\ Tags!TagsAssumption

estateVars == <<estate, minted, desired, tool, late, teardowns, estateFaults, estateOthers>>
groupVars == <<placed, group, tiers, file, follow, lastSeen, unsaved, moves, groupFaults>>
rankVars == <<live, order, vmsGroup, hardware, tiered, ranking, rankOthers, rankFaults>>
alertVars == <<held, posture, default, deploy, alertOthers, alertFaults>>
tagVars == <<category, tag, approved, tagging, tagOthers, tagFaults>>
vars == <<script, estateVars, groupVars, rankVars, alertVars, tagVars>>

\* What a script that rests keeps is never read.
EstateRests ==
  estate = Absent /\ minted = Absent /\ desired = Absent /\ tool = Absent /\ late = Absent /\ teardowns = Absent
  /\ estateFaults = Absent /\ estateOthers = Absent
GroupsRest ==
  placed = Absent /\ group = Absent /\ tiers = Absent /\ file = Absent /\ follow = Absent /\ lastSeen = Absent
  /\ unsaved = Absent /\ moves = Absent /\ groupFaults = Absent
RanksRest ==
  live = Absent /\ order = Absent /\ vmsGroup = Absent /\ hardware = Absent /\ tiered = Absent /\ ranking = Absent
  /\ rankOthers = Absent /\ rankFaults = Absent
AlertsRest ==
  held = Absent /\ posture = Absent /\ default = Absent /\ deploy = Absent /\ alertOthers = Absent /\ alertFaults = Absent
TagsRest ==
  category = Absent /\ tag = Absent /\ approved = Absent /\ tagging = Absent /\ tagOthers = Absent /\ tagFaults = Absent

Init ==
  \/ script = "estate" /\ Estate!Init /\ GroupsRest /\ RanksRest /\ AlertsRest /\ TagsRest
  \/ script = "groups" /\ Groups!Init /\ EstateRests /\ RanksRest /\ AlertsRest /\ TagsRest
  \/ script = "ranking" /\ Ranks!Init /\ EstateRests /\ GroupsRest /\ AlertsRest /\ TagsRest
  \/ script = "alerts" /\ Scope!Init /\ EstateRests /\ GroupsRest /\ RanksRest /\ TagsRest
  \/ script = "tags" /\ Tags!Init /\ EstateRests /\ GroupsRest /\ RanksRest /\ AlertsRest

OnEstate(A) == script = "estate" /\ A /\ UNCHANGED <<script, groupVars, rankVars, alertVars, tagVars>>
OnGroups(A) == script = "groups" /\ A /\ UNCHANGED <<script, estateVars, rankVars, alertVars, tagVars>>
OnRanks(A) == script = "ranking" /\ A /\ UNCHANGED <<script, estateVars, groupVars, alertVars, tagVars>>
OnAlerts(A) == script = "alerts" /\ A /\ UNCHANGED <<script, estateVars, groupVars, rankVars, tagVars>>
OnTags(A) == script = "tags" /\ A /\ UNCHANGED <<script, estateVars, groupVars, rankVars, alertVars>>

Next ==
  /\ UNCHANGED script
  /\ \/ script = "estate" /\ Estate!Next /\ UNCHANGED <<groupVars, rankVars, alertVars, tagVars>>
     \/ script = "groups" /\ Groups!Next /\ UNCHANGED <<estateVars, rankVars, alertVars, tagVars>>
     \/ script = "ranking" /\ Ranks!Next /\ UNCHANGED <<estateVars, groupVars, alertVars, tagVars>>
     \/ script = "alerts" /\ Scope!Next /\ UNCHANGED <<estateVars, groupVars, rankVars, tagVars>>
     \/ script = "tags" /\ Tags!Next /\ UNCHANGED <<estateVars, groupVars, rankVars, alertVars>>

\* The fairness each module states and explains, of the script of the behaviour.
Runs ==
  \/ OnEstate(Estate!ToolStep) \/ OnGroups(Groups!Step) \/ OnRanks(Ranks!Step) \/ OnAlerts(Scope!Step) \/ OnTags(Tags!Step)
RunsAgain ==
  \/ OnEstate(Estate!Starts("converge")) \/ OnGroups(Groups!Starts(FALSE)) \/ OnRanks(Ranks!Starts(TRUE, FALSE))
  \/ OnAlerts(Scope!Starts) \/ OnTags(Tags!Starts("apply", FALSE, FALSE))
Follows == OnEstate(Estate!Lands) \/ OnGroups(Groups!Ticks)
Spec == Init /\ [][Next]_vars
FairSpec == Spec /\ WF_vars(Runs) /\ SF_vars(RunsAgain) /\ WF_vars(Follows)

\* The types, and below the promises each module states and explains, of the script of the behaviour.
TypeOK ==
  CASE script = "estate" -> Estate!TypeOK [] script = "groups" -> Groups!TypeOK [] script = "ranking" -> Ranks!TypeOK
    [] script = "alerts" -> Scope!TypeOK [] script = "tags" -> Tags!TypeOK

\* Exit 0 of a converge that was left alone means that what was declared is so.
ConvergedAsDeclared ==
  CASE script = "estate" -> Estate!ConvergedAsDeclared [] script = "groups" -> Groups!ConvergedAsDeclared
    [] script = "ranking" -> Ranks!ConvergedAsDeclared [] script = "alerts" -> Scope!ConvergedAsDeclared
    [] script = "tags" -> Tags!ConvergedAsDeclared

\* Exit 0 of a teardown that was left alone and could read means that nothing declared is left (super metrics, tags).
TornDownIsGone ==
  CASE script = "estate" -> Estate!TornDownIsGone [] script = "tags" -> Tags!TornDownIsGone [] OTHER -> TRUE

\* What a run did not come for stays: the super metric found of a name, a host in use a window ago, the place of another
\* team's policy, an alert that fires, the value somebody else tagged.
SparesTheRest ==
  /\ [](script = "estate" => Estate!AdoptsOrCreatesOne)
  /\ [][CASE script = "estate" -> TRUE [] script = "groups" -> Groups!Holds [] script = "ranking" -> Ranks!LeavesForeign
        [] script = "alerts" -> Scope!KeepsFiring [] script = "tags" -> Tags!Spares]_vars

\* Run again and again, from whatever failures and other people left, each script gets what it declares in place.
GetsThere ==
  []<>(CASE script = "estate" -> Estate!AsDeclared [] script = "groups" -> Groups!InPlace [] script = "ranking" -> Ranks!InPlace
         [] script = "alerts" -> Scope!InPlace [] script = "tags" -> Tags!InPlace)
=============================================================================
