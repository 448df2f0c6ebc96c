----------------------------- MODULE ContentProofs -----------------------------
(***************************************************************************)
(* Proofs about the scripts that keep what they declare in place: for any  *)
(* names, contents, hosts, symptoms, alerts, machines and values, and any  *)
(* number of runs, of failures and of acts of others.                      *)
(***************************************************************************)
EXTENDS MCContent, FiniteSetTheorems, SequenceTheorems, TLAPS

-----------------------------------------------------------------------------
(* Alerts (AlertScope): how far a run that was left alone has come. *)

AlertsSoFar ==
  /\ deploy.phase # "symptoms" => \A d \in Symptoms : held[d] = "generated"
  /\ deploy.pc = "each" => \A d \in Scope!Of(deploy.phase) \ deploy.todo : held[d] = "generated"
  /\ deploy.pc = "readBack" =>
       \A d \in Scope!Of(deploy.phase) \ (deploy.todo \cup {deploy.at}) : held[d] = "generated"
  /\ deploy.pc \in {"export", "send"} => Scope!AsGenerated
  /\ deploy.phase = "off" => \A a \in Alerts : posture[a] = "on"

Deploys ==
  [pc : {"idle", "list", "each", "readBack", "export", "send", "exit0", "exit1"}, phase : {"symptoms", "alerts", "on", "off"},
   found : SUBSET Scope!Definitions, todo : SUBSET Scope!Definitions, at : Scope!Definitions, sends : 0 .. MaxSends,
   alone : BOOLEAN]

AlertsInv ==
  /\ Scope!TypeOK /\ deploy \in Deploys
  /\ deploy.pc \in {"list", "each", "readBack"} => deploy.phase \in {"symptoms", "alerts"}
  /\ deploy.pc \in {"each", "readBack"} => deploy.todo \subseteq Scope!Of(deploy.phase)
  /\ deploy.pc \in {"export", "send"} => deploy.phase \in {"on", "off"}
  /\ deploy.alone => AlertsSoFar
  /\ Scope!ConvergedAsDeclared

-----------------------------------------------------------------------------
(* Tags (TagWriteback): what a write-back or a teardown that was left alone has done so far. *)

\* The value a write-back is to leave on a machine.
Goal(v) == IF tagging.before[v] = Absent \/ tagging.allow THEN approved[v] ELSE tagging.before[v]

\* The machine it is at, between two calls.
AtHand == IF tagging.pc \in {"attach", "verify"} THEN {tagging.vm} ELSE {}

\* Machines yet to come are as they were read, those behind have the value they are to have.
AppliedSoFar ==
  /\ \A v \in tagging.todo : tag[v] = tagging.before[v]
  /\ \A v \in Tags!Approved \ (tagging.todo \cup AtHand) : tag[v] = Goal(v)
  /\ tagging.pc \in {"attach", "verify"} /\ ~tagging.allow =>
       \/ tag[tagging.vm] = tagging.before[tagging.vm]
       \/ tagging.pc = "verify" /\ tagging.before[tagging.vm] = Absent

\* The same of a teardown, whose machines behind have lost their approved value.
RemovedSoFar ==
  /\ \A v \in tagging.todo : tag[v] = tagging.before[v]
  /\ \A v \in Tags!Approved \ (tagging.todo \cup AtHand) : tag[v] # approved[v]

Writebacks ==
  [pc : {"idle", "define", "read", "each", "attach", "verify", "categories", "exit0", "exit1", "exit2"},
   verb : {"apply", "teardown"}, allow : BOOLEAN, removes : BOOLEAN, before : Tags!Tags, current : Tags!Tags,
   todo : SUBSET VMs, vm : VMs, whole : BOOLEAN, alone : BOOLEAN]

TagsInv ==
  /\ Tags!TypeOK /\ tagging \in Writebacks
  /\ tagging.removes => tagging.verb = "teardown"
  /\ tagging.pc = "categories" => tagging.removes
  /\ tagging.verb = "apply" /\ tagging.pc \in {"read", "each", "attach", "verify"} => category # "none"
  /\ \A v \in VMs : tagging.current[v] \in {Absent, tagging.before[v]}
  /\ tagging.pc \in {"each", "attach", "verify", "categories"} =>
       /\ tagging.todo \subseteq Tags!Approved
       /\ tagging.whole => tagging.current = tagging.before
       /\ AtHand \subseteq Tags!Approved \ tagging.todo
       /\ tagging.pc # "categories" /\ tagging.alone /\ tagging.verb = "apply" => AppliedSoFar
       /\ tagging.pc # "categories" /\ tagging.alone /\ tagging.whole /\ tagging.verb = "teardown" => RemovedSoFar
  /\ tagging.pc = "categories" /\ tagging.alone /\ tagging.whole => \A v \in Tags!Approved : tag[v] # approved[v]
  /\ Tags!ConvergedAsDeclared /\ Tags!TornDownIsGone

-----------------------------------------------------------------------------
(* Super metrics (OpsEstate): what a converge that was left alone has done so far, and what it kept. *)

Tools ==
  [pc : {"idle", "list", "each", "readBack", "readAgain", "exit0", "exit1"}, script : {"converge", "dryRun", "teardown"},
   plan : [Declared -> [do : {"create", "unchanged", "update", "absent", "delete"}, id : 0 .. MaxId]],
   todo : SUBSET Declared, name : Declared, id : 0 .. MaxId, failed : BOOLEAN, deleted : BOOLEAN, wrote : BOOLEAN,
   alone : BOOLEAN, checked : BOOLEAN, top : 0 .. MaxId]

\* A declared name is there as declared.
Stands(n) == \E i \in Estate!Named(n) : estate[i].content = desired[n]

\* Names yet to come are as they were listed, those behind stand as declared unless something failed.
ConvergedSoFar ==
  /\ \A n \in Declared :
       /\ tool.plan[n].do \in {"create", "unchanged", "update"}
       /\ tool.plan[n].do = "create" <=> tool.plan[n].id = 0
  /\ \A n \in tool.todo :
       /\ tool.plan[n].id # 0 => tool.plan[n].id \in Estate!Named(n)
       /\ tool.plan[n].do = "unchanged" => estate[tool.plan[n].id].content = desired[n]
       /\ tool.plan[n].id = 0 /\ Cardinality(Estate!Live) <= PageSize => Estate!Named(n) = {}
  /\ ~tool.failed => \A n \in Declared \ (tool.todo \cup (IF tool.pc = "readBack" THEN {tool.name} ELSE {})) : Stands(n)

\* A write that may still land is what a plan can send: there is no DELETE without an id.
EstateShape ==
  /\ Estate!TypeOK /\ tool \in Tools
  /\ \A w \in late : w.id = 0 => w.content \in Contents
  /\ \A n \in Declared : tool.plan[n].do = "delete" => tool.plan[n].id # 0 /\ tool.script = "teardown"
  /\ tool.checked => tool.pc \in Estate!Exits
  /\ tool.deleted \/ tool.pc = "readAgain" => tool.script = "teardown"
  /\ tool.pc = "readBack" => tool.script = "converge"
  /\ tool.pc \in {"each", "readBack"} /\ tool.script = "teardown" =>
       \A n \in Declared : tool.plan[n].do \in {"absent", "delete"}
  /\ tool.pc = "list" => ~tool.alone /\ tool.todo = Declared

EstateInv ==
  /\ EstateShape
  /\ tool.pc \in {"each", "readBack"} /\ tool.alone /\ tool.script = "converge" => ConvergedSoFar
  /\ Estate!AdoptsOrCreatesOne /\ Estate!ConvergedAsDeclared /\ Estate!TornDownIsGone

-----------------------------------------------------------------------------
(* Hardware groups (InfraGroups): what a stamp says of the host, and what a run left alone is about to put. *)

Reconciles ==
  [pc : {"idle", "read", "plan", "put", "confirm", "save", "exit0", "exit1", "exit2"}, force : BOOLEAN,
   desired : SUBSET Hosts, seen : Groups!Groups, want : Groups!Groups, stamps : Groups!Stamps, whole : BOOLEAN,
   alone : BOOLEAN]

\* A stamp is no older than the last sight of the host, unless that sight was not saved.
StampsInv ==
  /\ \A h \in Hosts : file[h] # Absent /\ h \notin unsaved => file[h] <= lastSeen[h]
  /\ follow.pc \in {"put", "confirm", "save"} =>
       \A h \in Hosts : follow.stamps[h] # Absent /\ (h \in follow.desired \/ h \notin unsaved) =>
         follow.stamps[h] <= lastSeen[h]
  /\ follow.pc = "put" => \A h \in follow.seen.members \ follow.want.members : h \notin unsaved => lastSeen[h] = Dwell

\* The group that is put holds every host in use, and of any other the stamp.
WantsRight ==
  /\ placed \subseteq follow.want.members
  /\ \A h \in follow.want.members \ placed : follow.stamps[h] # Absent
  /\ follow.want.policy = IF tiers THEN "none" ELSE "posture"

GroupsInv ==
  /\ Groups!TypeOK /\ follow \in Reconciles /\ StampsInv
  /\ follow.alone /\ follow.whole =>
       /\ follow.pc = "plan" => follow.desired = placed
       /\ follow.pc \in {"put", "confirm", "save"} => WantsRight
       /\ follow.pc = "save" => group = follow.want
  /\ follow.alone => (follow.pc \in {"plan", "put"} => follow.seen = group)
  /\ Groups!ConvergedAsDeclared

-----------------------------------------------------------------------------
(* Ranking (PolicyRanking): what a run that was left alone has read and bound. *)

Rankings ==
  [pc : {"idle", "read", "create", "bind", "readGroups", "rank", "put", "verify", "exit0", "exit1", "exit2"},
   create : BOOLEAN, above : BOOLEAN, seen : Ranks!Orders, there : SUBSET Ranks!Policies, hardwareToo : BOOLEAN,
   alone : BOOLEAN]

Bound == vmsGroup # "noGroup" => vmsGroup = "posture" /\ (hardware = "posture") = ~tiered

RankedSoFar ==
  /\ ranking.pc = "create" => ranking.create
  /\ ranking.pc = "readGroups" => ranking.hardwareToo = ~tiered
  /\ ranking.pc = "rank" => Bound
  /\ ranking.pc \in {"put", "verify"} => (ranking.create => Ranks!Target \in live) /\ (Ranks!Target \in live => Bound)
  /\ ranking.pc = "put" \/ (ranking.pc \in {"bind", "readGroups", "rank"} /\ ~ranking.create) =>
       ranking.seen = order /\ ranking.there = live

RanksInv ==
  /\ Ranks!TypeOK /\ ranking \in Rankings
  /\ Ranks!Range(ranking.seen) \subseteq ranking.there
  /\ ranking.pc \in {"bind", "readGroups", "rank"} => Ranks!Target \in live
  /\ ranking.alone => RankedSoFar
  /\ Ranks!ConvergedAsDeclared

\* The script of the behaviour keeps its own.
ScriptInv ==
  /\ script \in {"estate", "groups", "ranking", "alerts", "tags"}
  /\ script = "estate" => EstateInv
  /\ script = "groups" => GroupsInv
  /\ script = "ranking" => RanksInv
  /\ script = "alerts" => AlertsInv
  /\ script = "tags" => TagsInv

-----------------------------------------------------------------------------
(* Proofs about the alerts. *)

LEMMA DefinitionsAre ==
  /\ Scope!Definitions = Symptoms \cup Alerts /\ Scope!Definitions # {}
  /\ MaxSends \in Nat /\ MaxOthers \in Nat /\ MaxFaults \in Nat /\ Symptoms \cap Alerts = {}
  /\ 0 \in 0 .. MaxSends
  BY ContentAssumption DEF Scope!AlertsAssumption, Scope!Definitions

\* The record of a run that begins or is over.
LEMMA BlankDeploy ==
  ASSUME NEW pc \in {"idle", "list", "exit0", "exit1"}, NEW b \in BOOLEAN
  PROVE  /\ [Scope!Blank(pc) EXCEPT !.alone = b] \in Deploys /\ Scope!Blank(pc) \in Deploys
         /\ [Scope!Blank(pc) EXCEPT !.alone = b].pc = pc /\ Scope!Blank(pc).pc = pc
         /\ [Scope!Blank(pc) EXCEPT !.alone = b].phase = "symptoms" /\ Scope!Blank(pc).phase = "symptoms"
         /\ [Scope!Blank(pc) EXCEPT !.alone = b].alone = b /\ Scope!Blank(pc).alone = TRUE
  <1> DEFINE first == CHOOSE d \in Scope!Definitions : TRUE
  <1>1. first \in Scope!Definitions
    BY DefinitionsAre
  <1> HIDE DEF first
  <1>2. Scope!Blank(pc) = [pc |-> pc, phase |-> "symptoms", found |-> {}, todo |-> {}, at |-> first, sends |-> 0,
                           alone |-> TRUE]
    BY DEF Scope!Blank, first
  <1> QED BY <1>1, <1>2, DefinitionsAre DEF Deploys

LEMMA AlertsStart == Scope!Init => AlertsInv
  <1> SUFFICES ASSUME Scope!Init PROVE AlertsInv
    OBVIOUS
  <1>1. deploy \in Deploys /\ deploy.pc = "idle" /\ deploy.phase = "symptoms"
    BY BlankDeploy DEF Scope!Init
  <1>2. Scope!TypeOK
    BY <1>1, DefinitionsAre DEF Scope!Init, Scope!TypeOK, Scope!Switches, Scope!Exits, Deploys
  <1> QED BY <1>1, <1>2 DEF AlertsInv, AlertsSoFar, Scope!ConvergedAsDeclared

\* What everybody else does ends what a run left alone could rely on.
LEMMA AlertsOthers == AlertsInv /\ Scope!OthersAct => AlertsInv'
  <1> SUFFICES ASSUME AlertsInv, Scope!OthersAct PROVE AlertsInv'
    OBVIOUS
  <1>1. /\ deploy \in Deploys /\ deploy' = [deploy EXCEPT !.alone = FALSE]
        /\ held \in [Scope!Definitions -> {"generated", "differs", "absent"}]
        /\ posture \in Scope!Switches /\ default \in Scope!Switches
    BY DEF AlertsInv, Scope!OthersAct, Scope!TypeOK
  <1>2. /\ deploy' \in Deploys /\ deploy'.alone = FALSE /\ deploy'.pc = deploy.pc /\ deploy'.phase = deploy.phase
        /\ deploy'.todo = deploy.todo
    BY <1>1 DEF Deploys
  <1> DEFINE typed == /\ held' \in [Scope!Definitions -> {"generated", "differs", "absent"}]
                      /\ posture' \in Scope!Switches /\ default' \in Scope!Switches
  <1>3. typed
    <2>1. ASSUME NEW d \in Scope!Definitions, held[d] # "absent",
                 \/ held' = [held EXCEPT ![d] = "differs"] /\ UNCHANGED <<posture, default>>
                 \/ /\ held' = [e \in Scope!Definitions |->
                                 IF e = d THEN "absent"
                                 ELSE IF d \in Symptoms /\ e \in Alerts /\ held[e] = "generated" THEN "differs" ELSE held[e]]
                    /\ posture' = [a \in Alerts |-> IF a = d THEN "inherits" ELSE posture[a]]
                    /\ default' = [a \in Alerts |-> IF a = d THEN "inherits" ELSE default[a]]
          PROVE  typed
      BY <1>1, <2>1 DEF Scope!Switches
    <2>2. ASSUME NEW a \in Alerts, NEW s \in {"inherits", "on", "off"}, UNCHANGED held,
                 \/ posture' = [posture EXCEPT ![a] = s] /\ UNCHANGED default
                 \/ default' = [default EXCEPT ![a] = s] /\ UNCHANGED posture
          PROVE  typed
      BY <1>1, <2>2 DEF Scope!Switches
    <2> QED BY <2>1, <2>2 DEF Scope!OthersAct
  <1>4. alertOthers' \in 0 .. MaxOthers /\ alertFaults' = alertFaults /\ alertFaults \in 0 .. MaxFaults
    BY DefinitionsAre DEF AlertsInv, Scope!OthersAct, Scope!TypeOK
  <1>5. Scope!TypeOK'
    BY <1>2, <1>3, <1>4 DEF AlertsInv, Scope!TypeOK, Deploys, Scope!Exits
  <1> QED BY <1>2, <1>5 DEF AlertsInv, Scope!ConvergedAsDeclared

\* A run that is over has only its exit, and says nothing with exit 1.
LEMMA AlertsOver ==
  ASSUME AlertsInv, deploy' = Scope!Ended("exit1"), UNCHANGED <<held, posture, default, alertOthers>>,
         alertFaults' \in 0 .. MaxFaults
  PROVE  AlertsInv'
  <1>1. deploy.alone \in BOOLEAN
    BY DEF AlertsInv, Deploys
  <1>2. deploy' \in Deploys /\ deploy'.pc = "exit1" /\ deploy'.phase = "symptoms"
    BY <1>1, BlankDeploy DEF Scope!Ended
  <1>3. Scope!TypeOK'
    BY <1>2 DEF AlertsInv, Scope!TypeOK, Deploys, Scope!Exits
  <1> QED BY <1>2, <1>3 DEF AlertsInv, AlertsSoFar, Scope!ConvergedAsDeclared

LEMMA AlertsFault == AlertsInv /\ Scope!Fault => alertFaults' \in 0 .. MaxFaults
  BY DefinitionsAre DEF AlertsInv, Scope!TypeOK, Scope!Fault

LEMMA AlertsBegin == AlertsInv /\ Scope!Starts => AlertsInv'
  <1> SUFFICES ASSUME AlertsInv, Scope!Starts PROVE AlertsInv'
    OBVIOUS
  <1>1. deploy' \in Deploys /\ deploy'.pc = "list" /\ deploy'.phase = "symptoms"
    BY BlankDeploy DEF Scope!Starts
  <1>2. Scope!TypeOK'
    BY <1>1 DEF AlertsInv, Scope!Starts, Scope!TypeOK, Deploys, Scope!Exits
  <1> QED BY <1>1, <1>2 DEF AlertsInv, AlertsSoFar, Scope!ConvergedAsDeclared

LEMMA AlertsListed == AlertsInv /\ Scope!Lists => AlertsInv'
  <1> SUFFICES ASSUME AlertsInv, Scope!Lists PROVE AlertsInv'
    OBVIOUS
  <1> DEFINE all == Scope!Of(deploy.phase)
             found == {d \in all : held[d] # "absent"}
  <1>1. CASE Scope!Dies
    BY <1>1, AlertsOver, AlertsFault DEF Scope!Dies, Scope!Lists, Scope!Rest
  <1>2. CASE deploy' = [deploy EXCEPT !.pc = "each", !.todo = all, !.found = found] /\ UNCHANGED alertFaults
    <2>1. deploy \in Deploys /\ deploy.phase \in {"symptoms", "alerts"} /\ deploy.pc = "list"
      BY DEF AlertsInv, Scope!Lists, Scope!At
    <2>2. all \subseteq Scope!Definitions /\ found \subseteq Scope!Definitions
      BY <2>1, DefinitionsAre DEF Scope!Of
    <2> HIDE DEF all, found
    <2>3. /\ deploy' \in Deploys /\ deploy'.pc = "each" /\ deploy'.phase = deploy.phase /\ deploy'.todo = all
          /\ deploy'.alone = deploy.alone
      BY <1>2, <2>1, <2>2 DEF Deploys
    <2>4. UNCHANGED <<held, posture, default, alertOthers, alertFaults>>
      BY <1>2 DEF Scope!Lists, Scope!Rest
    <2>5. Scope!TypeOK'
      BY <2>1, <2>3, <2>4 DEF AlertsInv, Scope!TypeOK, Deploys, Scope!Exits
    <2>6. deploy'.alone => AlertsSoFar'
      BY <2>1, <2>3, <2>4 DEF AlertsInv, AlertsSoFar, all, Scope!Of
    <2> QED BY <2>1, <2>3, <2>5, <2>6 DEF AlertsInv, Scope!ConvergedAsDeclared, Scope!Of, all
  <1> QED BY <1>1, <1>2 DEF Scope!Lists

LEMMA AlertsConverged ==
  ASSUME AlertsInv, NEW d \in Scope!Definitions, Scope!Converges(d)
  PROVE  AlertsInv'
  <1>1. /\ deploy \in Deploys /\ deploy.phase \in {"symptoms", "alerts"} /\ deploy.pc = "each" /\ d \in deploy.todo
        /\ held \in [Scope!Definitions -> {"generated", "differs", "absent"}]
        /\ UNCHANGED <<posture, default, alertOthers>>
    BY DEF AlertsInv, Scope!Converges, Scope!At, Scope!TypeOK, Scope!Rest
  <1>2. CASE deploy' = Scope!Ended("exit1") /\ UNCHANGED held /\ (UNCHANGED alertFaults \/ Scope!Fault)
    BY <1>1, <1>2, AlertsOver, AlertsFault DEF AlertsInv, Scope!TypeOK
  <1>3. CASE \E pc \in {"each", "readBack"}, c \in {"generated", "differs"} :
               /\ Scope!Goes(d, pc) /\ (UNCHANGED held \/ held' = [held EXCEPT ![d] = c])
               /\ (pc = "each" => UNCHANGED held /\ held[d] = "generated")
               /\ (UNCHANGED alertFaults \/ Scope!Fault)
    <2>1. PICK pc \in {"each", "readBack"}, c \in {"generated", "differs"} :
               /\ Scope!Goes(d, pc) /\ (UNCHANGED held \/ held' = [held EXCEPT ![d] = c])
               /\ (pc = "each" => UNCHANGED held /\ held[d] = "generated")
               /\ (UNCHANGED alertFaults \/ Scope!Fault)
      BY <1>3
    <2>2. /\ deploy' \in Deploys /\ deploy'.pc = pc /\ deploy'.phase = deploy.phase /\ deploy'.todo = deploy.todo \ {d}
          /\ deploy'.at = d /\ deploy'.alone = deploy.alone
      BY <1>1, <2>1 DEF Deploys, Scope!Goes
    <2>3. /\ held' \in [Scope!Definitions -> {"generated", "differs", "absent"}]
          /\ \A e \in Scope!Definitions \ {d} : held'[e] = held[e]
      BY <1>1, <2>1
    <2>4. Scope!TypeOK'
      BY <1>1, <2>1, <2>2, <2>3, AlertsFault DEF AlertsInv, Scope!TypeOK, Deploys, Scope!Exits
    <2>5. deploy.phase = "alerts" => d \notin Symptoms
      BY <1>1, DefinitionsAre DEF AlertsInv, Scope!Of
    <2>6. deploy'.alone => AlertsSoFar'
      <3> SUFFICES ASSUME deploy'.alone PROVE AlertsSoFar'
        OBVIOUS
      <3>1. AlertsSoFar
        BY <2>2 DEF AlertsInv
      <3>2. deploy'.phase # "symptoms" => \A e \in Symptoms : held'[e] = "generated"
        <4> SUFFICES ASSUME deploy.phase = "alerts", NEW e \in Symptoms PROVE held'[e] = "generated"
          BY <1>1, <2>2
        <4> QED BY <2>3, <2>5, <3>1, DefinitionsAre DEF AlertsSoFar
      <3>3. \A e \in Scope!Of(deploy.phase) \ deploy.todo : held'[e] = "generated"
        BY <1>1, <2>3, <3>1, DefinitionsAre DEF AlertsSoFar, Scope!Of
      <3>4. deploy'.pc = "each" => held'[d] = "generated"
        BY <2>1, <2>2
      <3> QED BY <1>1, <2>2, <3>2, <3>3, <3>4 DEF AlertsSoFar
    <2> QED BY <1>1, <2>2, <2>4, <2>6 DEF AlertsInv, Scope!ConvergedAsDeclared
  <1> QED BY <1>1, <1>2, <1>3 DEF Scope!Converges, Scope!Dies

LEMMA AlertsReadBack == AlertsInv /\ Scope!ReadsBack => AlertsInv'
  <1> SUFFICES ASSUME AlertsInv, Scope!ReadsBack PROVE AlertsInv'
    OBVIOUS
  <1>1. /\ deploy \in Deploys /\ deploy.phase \in {"symptoms", "alerts"} /\ deploy.pc = "readBack"
        /\ UNCHANGED <<held, posture, default, alertOthers>>
    BY DEF AlertsInv, Scope!ReadsBack, Scope!At, Scope!Rest
  <1>2. CASE deploy' = Scope!Ended("exit1") /\ (UNCHANGED alertFaults \/ Scope!Fault)
    BY <1>1, <1>2, AlertsOver, AlertsFault DEF AlertsInv, Scope!TypeOK
  <1>3. CASE deploy' = [deploy EXCEPT !.pc = "each"] /\ held[deploy.at] = "generated" /\ UNCHANGED alertFaults
    <2>1. /\ deploy' \in Deploys /\ deploy'.pc = "each" /\ deploy'.phase = deploy.phase /\ deploy'.todo = deploy.todo
          /\ deploy'.alone = deploy.alone
      BY <1>1, <1>3 DEF Deploys
    <2>2. Scope!TypeOK'
      BY <1>1, <1>3, <2>1 DEF AlertsInv, Scope!TypeOK, Deploys, Scope!Exits
    <2>3. deploy'.alone => AlertsSoFar'
      BY <1>1, <1>3, <2>1 DEF AlertsInv, AlertsSoFar, Scope!Of
    <2> QED BY <1>1, <2>1, <2>2, <2>3 DEF AlertsInv, Scope!ConvergedAsDeclared, Scope!Of
  <1> QED BY <1>1, <1>2, <1>3 DEF Scope!ReadsBack, Scope!Dies

LEMMA AlertsTurned == AlertsInv /\ Scope!Turns => AlertsInv'
  <1> SUFFICES ASSUME AlertsInv, Scope!Turns PROVE AlertsInv'
    OBVIOUS
  <1>1. /\ deploy \in Deploys /\ deploy.phase \in {"symptoms", "alerts"} /\ deploy.pc = "each" /\ deploy.todo = {}
        /\ UNCHANGED <<held, posture, default, alertOthers, alertFaults>>
    BY DEF AlertsInv, Scope!Turns, Scope!At, Scope!Rest
  <1>2. CASE deploy.phase = "symptoms"
    <2>1. /\ deploy' \in Deploys /\ deploy'.pc = "list" /\ deploy'.phase = "alerts" /\ deploy'.alone = deploy.alone
      BY <1>1, <1>2 DEF Deploys, Scope!Turns
    <2>2. Scope!TypeOK'
      BY <1>1, <2>1 DEF AlertsInv, Scope!TypeOK, Deploys, Scope!Exits
    <2>3. deploy'.alone => AlertsSoFar'
      BY <1>1, <1>2, <2>1 DEF AlertsInv, AlertsSoFar, Scope!Of
    <2> QED BY <2>1, <2>2, <2>3 DEF AlertsInv, Scope!ConvergedAsDeclared
  <1>3. CASE deploy.phase = "alerts"
    <2>1. /\ deploy' \in Deploys /\ deploy'.pc = "export" /\ deploy'.phase = "on" /\ deploy'.alone = deploy.alone
          /\ deploy'.todo = {}
      <3>1. deploy' = [deploy EXCEPT !.pc = "export", !.phase = "on", !.sends = 0]
        BY <1>1, <1>3 DEF Scope!Turns, Scope!AfterPhase
      <3> QED BY <1>1, <3>1, DefinitionsAre DEF Deploys
    <2>2. Scope!TypeOK'
      BY <1>1, <2>1 DEF AlertsInv, Scope!TypeOK, Deploys, Scope!Exits
    <2>3. deploy.alone => Scope!AsGenerated
      BY <1>1, <1>3, DefinitionsAre DEF AlertsInv, AlertsSoFar, Scope!Of, Scope!AsGenerated
    <2>4. deploy'.alone => AlertsSoFar'
      BY <1>1, <1>3, <2>1, <2>3, DefinitionsAre DEF AlertsSoFar, Scope!AsGenerated
    <2> QED BY <2>1, <2>2, <2>4 DEF AlertsInv, Scope!ConvergedAsDeclared
  <1> QED BY <1>1, <1>2, <1>3

LEMMA AlertsExported == AlertsInv /\ Scope!ReadsExport => AlertsInv'
  <1> SUFFICES ASSUME AlertsInv, Scope!ReadsExport PROVE AlertsInv'
    OBVIOUS
  <1> DEFINE left == {a \in Alerts : ~Scope!Holds(a)}
  <1>1. /\ deploy \in Deploys /\ deploy.phase \in {"on", "off"} /\ deploy.pc = "export"
        /\ UNCHANGED <<held, posture, default, alertOthers>>
        /\ deploy.alone => AlertsSoFar /\ Scope!AsGenerated
    BY DEF AlertsInv, AlertsSoFar, Scope!ReadsExport, Scope!At, Scope!Rest
  <1>2. CASE deploy' = Scope!Ended("exit1") /\ (UNCHANGED alertFaults \/ Scope!Fault)
    BY <1>1, <1>2, AlertsOver, AlertsFault DEF AlertsInv, Scope!TypeOK
  <1>3. CASE /\ deploy.sends # MaxSends /\ UNCHANGED alertFaults
             /\ deploy' = [deploy EXCEPT !.pc = "send", !.todo = left, !.sends = @ + 1]
    <2> left \subseteq Alerts
      OBVIOUS
    <2> HIDE DEF left
    <2>1. deploy.sends + 1 \in 0 .. MaxSends
      BY <1>1, <1>3, DefinitionsAre DEF Deploys
    <2>2. /\ deploy' \in Deploys /\ deploy'.pc = "send" /\ deploy'.phase = deploy.phase /\ deploy'.todo = left
          /\ deploy'.alone = deploy.alone
      BY <1>1, <1>3, <2>1, DefinitionsAre DEF Deploys
    <2>3. Scope!TypeOK'
      BY <1>1, <1>3, <2>2 DEF AlertsInv, Scope!TypeOK, Deploys, Scope!Exits
    <2>4. deploy'.alone => AlertsSoFar'
      BY <1>1, <2>2 DEF AlertsSoFar, Scope!AsGenerated
    <2> QED BY <1>1, <2>2, <2>3, <2>4 DEF AlertsInv, Scope!ConvergedAsDeclared
  <1>4. CASE left = {} /\ deploy.phase = "off" /\ deploy' = Scope!Ended("exit0") /\ UNCHANGED alertFaults
    <2>1. deploy' \in Deploys /\ deploy'.pc = "exit0" /\ deploy'.phase = "symptoms" /\ deploy'.alone = deploy.alone
      BY <1>1, <1>4, BlankDeploy DEF Scope!Ended, Deploys
    <2>2. Scope!TypeOK'
      BY <1>1, <1>4, <2>1 DEF AlertsInv, Scope!TypeOK, Deploys, Scope!Exits
    <2>3. \A a \in Alerts : default[a] = "off"
      BY <1>4 DEF Scope!Holds
    <2>4. Scope!ConvergedAsDeclared'
      BY <1>1, <1>4, <2>1, <2>3 DEF AlertsSoFar, Scope!ConvergedAsDeclared, Scope!AsGenerated, Scope!Scoped
    <2> QED BY <2>1, <2>2, <2>4 DEF AlertsInv, AlertsSoFar
  <1>5. CASE left = {} /\ deploy.phase = "on" /\ deploy' = [deploy EXCEPT !.phase = "off", !.sends = 0] /\ UNCHANGED alertFaults
    <2>1. /\ deploy' \in Deploys /\ deploy'.pc = "export" /\ deploy'.phase = "off" /\ deploy'.todo = deploy.todo
          /\ deploy'.alone = deploy.alone
      BY <1>1, <1>5, DefinitionsAre DEF Deploys
    <2>2. Scope!TypeOK'
      BY <1>1, <1>5, <2>1 DEF AlertsInv, Scope!TypeOK, Deploys, Scope!Exits
    <2>3. \A a \in Alerts : posture[a] = "on"
      BY <1>5 DEF Scope!Holds
    <2>4. deploy'.alone => AlertsSoFar'
      BY <1>1, <1>5, <2>1, <2>3, DefinitionsAre DEF AlertsSoFar, Scope!AsGenerated
    <2> QED BY <2>1, <2>2, <2>4 DEF AlertsInv, Scope!ConvergedAsDeclared
  <1> QED BY <1>1, <1>2, <1>3, <1>4, <1>5 DEF Scope!ReadsExport, Scope!Dies, Scope!AfterPhase

LEMMA AlertsSent ==
  ASSUME AlertsInv, NEW a \in Alerts, Scope!Sends(a)
  PROVE  AlertsInv'
  <1>1. /\ deploy \in Deploys /\ deploy.phase \in {"on", "off"} /\ deploy.pc = "send"
        /\ UNCHANGED <<held, alertOthers>> /\ posture \in Scope!Switches /\ default \in Scope!Switches
        /\ deploy.todo \subseteq Alerts /\ (deploy.alone => AlertsSoFar)
    BY DEF AlertsInv, Scope!Sends, Scope!At, Scope!TypeOK
  <1>2. CASE deploy' = Scope!Ended("exit1") /\ UNCHANGED <<posture, default>> /\ (UNCHANGED alertFaults \/ Scope!Fault)
    BY <1>1, <1>2, AlertsOver, AlertsFault DEF AlertsInv, Scope!TypeOK
  <1>3. CASE /\ deploy' = [deploy EXCEPT !.todo = @ \ {a}, !.pc = IF deploy.todo = {a} THEN "export" ELSE "send"]
             /\ Scope!Switched(a) \/ UNCHANGED <<posture, default>>
             /\ UNCHANGED alertFaults \/ Scope!Fault
    <2>1. /\ deploy' \in Deploys /\ deploy'.pc \in {"export", "send"} /\ deploy'.phase = deploy.phase
          /\ deploy'.todo = deploy.todo \ {a} /\ deploy'.alone = deploy.alone
      BY <1>1, <1>3 DEF Deploys
    <2>2. posture' \in Scope!Switches /\ default' \in Scope!Switches /\ (deploy.phase = "off" => posture' = posture)
      BY <1>1, <1>3 DEF Scope!Switched, Scope!Switches
    <2>3. Scope!TypeOK'
      BY <1>1, <1>3, <2>1, <2>2, AlertsFault DEF AlertsInv, Scope!TypeOK, Deploys, Scope!Exits
    <2>4. deploy'.alone => AlertsSoFar'
      <3> SUFFICES ASSUME deploy'.alone PROVE AlertsSoFar'
        OBVIOUS
      <3>1. AlertsSoFar /\ \A d \in Scope!Definitions : held'[d] = "generated"
        BY <1>1, <2>1 DEF AlertsSoFar, Scope!AsGenerated
      <3>2. deploy'.phase = "off" => \A b \in Alerts : posture'[b] = "on"
        BY <2>1, <2>2, <3>1 DEF AlertsSoFar
      <3> QED BY <2>1, <3>1, <3>2, DefinitionsAre DEF AlertsSoFar, Scope!AsGenerated
    <2> QED BY <1>1, <2>1, <2>3, <2>4 DEF AlertsInv, Scope!ConvergedAsDeclared
  <1> QED BY <1>1, <1>2, <1>3 DEF Scope!Sends, Scope!Dies

LEMMA AlertsStep == AlertsInv /\ Scope!Next => AlertsInv'
  BY AlertsOthers, AlertsBegin, AlertsListed, AlertsConverged, AlertsReadBack, AlertsTurned, AlertsExported, AlertsSent
     DEF Scope!Next, Scope!Step

\* A switch is taken out of Default only once it is on in the posture's policy.
LEMMA AlertsKeepFiring == AlertsInv /\ Scope!Next => Scope!KeepsFiring
  <1> SUFFICES ASSUME AlertsInv, Scope!Next, Scope!Step, deploy.alone, NEW a \in Alerts, Scope!Fires(a)
               PROVE  Scope!Fires(a)'
    BY DEF Scope!KeepsFiring
  <1>1. /\ deploy \in Deploys /\ AlertsSoFar /\ posture \in Scope!Switches /\ default \in Scope!Switches
        /\ held \in [Scope!Definitions -> {"generated", "differs", "absent"}] /\ a \in Scope!Definitions
        /\ (deploy.pc = "send" => deploy.phase \in {"on", "off"})
    BY DefinitionsAre DEF AlertsInv, Scope!TypeOK
  <1>2. CASE \E d \in Scope!Definitions : Scope!Converges(d)
    BY <1>1, <1>2 DEF Scope!Converges, Scope!Rest, Scope!Fires
  <1>3. CASE \E b \in Alerts : Scope!Sends(b)
    <2>1. PICK b \in Alerts : Scope!Sends(b)
      BY <1>3
    <2>2. held' = held /\ deploy.pc = "send"
      BY <2>1 DEF Scope!Sends, Scope!At
    <2>3. CASE Scope!Switched(b) /\ deploy.phase = "on"
      BY <1>1, <2>2, <2>3 DEF Scope!Switched, Scope!Switches, Scope!Fires
    <2>4. CASE Scope!Switched(b) /\ deploy.phase = "off"
      BY <1>1, <2>2, <2>4 DEF Scope!Switched, Scope!Switches, Scope!Fires, AlertsSoFar
    <2>5. CASE UNCHANGED <<posture, default>>
      BY <2>2, <2>5 DEF Scope!Fires
    <2> QED BY <1>1, <2>1, <2>2, <2>3, <2>4, <2>5 DEF Scope!Sends
  <1>4. CASE Scope!Lists \/ Scope!ReadsBack \/ Scope!Turns \/ Scope!ReadsExport
    BY <1>4 DEF Scope!Lists, Scope!ReadsBack, Scope!Turns, Scope!ReadsExport, Scope!Rest, Scope!Fires
  <1> QED BY <1>2, <1>3, <1>4 DEF Scope!Step

-----------------------------------------------------------------------------
(* Proofs about the tags. *)

LEMMA TagNumbers == MaxFailures \in Nat /\ MaxMoves \in Nat /\ Absent \notin Values
  BY ContentAssumption DEF Tags!TagsAssumption

\* The record of a run that begins, and the tags before any.
LEMMA FreshTagging ==
  ASSUME VMs # {}, NEW pc \in {"idle", "define", "read"}, NEW verb \in {"apply", "teardown"}
  PROVE  /\ Tags!Fresh(pc, verb) \in Writebacks
         /\ Tags!Fresh(pc, verb).pc = pc /\ Tags!Fresh(pc, verb).verb = verb /\ Tags!Fresh(pc, verb).removes = FALSE
         /\ \A v \in VMs : Tags!Fresh(pc, verb).current[v] = Absent
  <1> DEFINE first == CHOOSE v \in VMs : TRUE
             base == [pc |-> pc, verb |-> verb, allow |-> FALSE, removes |-> FALSE, before |-> Tags!None,
                      current |-> Tags!None, todo |-> {}, vm |-> first, whole |-> TRUE, alone |-> TRUE]
  <1>1. first \in VMs
    OBVIOUS
  <1>2. Tags!None \in Tags!Tags /\ \A v \in VMs : Tags!None[v] = Absent
    BY DEF Tags!None, Tags!Tags
  <1>3. Tags!Fresh(pc, verb) = base
    BY DEF Tags!Fresh
  <1> HIDE DEF first
  <1>4. base \in Writebacks /\ base.pc = pc /\ base.verb = verb /\ base.removes = FALSE /\ base.current = Tags!None
    BY <1>1, <1>2 DEF Writebacks
  <1> QED BY <1>2, <1>3, <1>4

LEMMA TagsStart == Tags!Init => TagsInv
  <1> SUFFICES ASSUME Tags!Init PROVE TagsInv
    OBVIOUS
  <1>1. VMs # {} /\ Tags!None \in Tags!Tags
    BY DEF Tags!Init, Tags!Tags, Tags!None
  <1>2. /\ tagging \in Writebacks /\ tagging.pc = "idle" /\ tagging.removes = FALSE
        /\ \A v \in VMs : tagging.current[v] = Absent
    BY <1>1, FreshTagging DEF Tags!Init
  <1>3. Tags!TypeOK
    BY <1>1, <1>2, TagNumbers DEF Tags!Init, Tags!TypeOK, Tags!Exits, Writebacks
  <1> QED BY <1>2, <1>3 DEF TagsInv, Tags!ConvergedAsDeclared, Tags!TornDownIsGone, Tags!Over

LEMMA TagsFault == TagsInv /\ Tags!Fault => tagFaults' \in 0 .. MaxFailures
  BY TagNumbers DEF TagsInv, Tags!TypeOK, Tags!Fault

\* What a step has to show, besides the types it leaves as they are.
LEMMA TagsTyped ==
  ASSUME TagsInv, tagging' \in Writebacks, UNCHANGED approved, category' \in {"none", "ours", "theirs"},
         tag' \in Tags!Tags, category' = "none" => tag' = Tags!None, tagOthers' \in 0 .. MaxMoves,
         UNCHANGED tagFaults \/ Tags!Fault, tagging'.pc \in {"define", "attach"} => tagging'.verb = "apply"
  PROVE  Tags!TypeOK'
  BY TagsFault DEF TagsInv, Tags!TypeOK, Tags!Exits, Writebacks

\* A run that ends other than with exit 0 promises nothing.
LEMMA TagsOver ==
  ASSUME TagsInv, NEW code \in {"exit1", "exit2"}, tagging' = [tagging EXCEPT !.pc = code], UNCHANGED <<approved, tagOthers>>,
         category' \in {"none", "ours", "theirs"}, tag' \in Tags!Tags, category' = "none" => tag' = Tags!None,
         UNCHANGED tagFaults \/ Tags!Fault
  PROVE  TagsInv'
  <1>1. /\ tagging' \in Writebacks /\ tagging'.pc = code /\ tagging'.removes = tagging.removes
        /\ tagging'.verb = tagging.verb /\ tagging'.current = tagging.current /\ tagging'.before = tagging.before
    BY DEF TagsInv, Writebacks
  <1>2. Tags!TypeOK'
    BY <1>1, TagsTyped DEF TagsInv, Tags!TypeOK
  <1> QED BY <1>1, <1>2 DEF TagsInv, Tags!ConvergedAsDeclared, Tags!TornDownIsGone, Tags!Over

LEMMA TagsOthers == TagsInv /\ Tags!OthersAct => TagsInv'
  <1> SUFFICES ASSUME TagsInv, Tags!OthersAct PROVE TagsInv'
    OBVIOUS
  <1>1. tagging \in Writebacks /\ tag \in Tags!Tags /\ tagging' = [tagging EXCEPT !.alone = FALSE]
    BY DEF TagsInv, Tags!TypeOK, Tags!OthersAct
  <1>2. /\ tagging' \in Writebacks /\ tagging'.alone = FALSE /\ tagging'.pc = tagging.pc
        /\ tagging'.removes = tagging.removes /\ tagging'.verb = tagging.verb /\ tagging'.current = tagging.current
        /\ tagging'.before = tagging.before /\ tagging'.todo = tagging.todo /\ tagging'.vm = tagging.vm
        /\ tagging'.whole = tagging.whole
    BY <1>1 DEF Writebacks
  <1>3. /\ category' \in {"none", "ours", "theirs"} /\ tag' \in Tags!Tags /\ category' # "none"
        /\ UNCHANGED <<approved, tagFaults>>
    BY <1>1 DEF Tags!OthersAct, TagsInv, Tags!TypeOK, Tags!Tags
  <1>4. tagOthers' \in 0 .. MaxMoves
    BY TagNumbers DEF Tags!OthersAct, TagsInv, Tags!TypeOK
  <1>5. Tags!TypeOK'
    BY <1>2, <1>3, <1>4, TagsTyped DEF TagsInv, Tags!TypeOK
  <1> QED BY <1>2, <1>3, <1>5 DEF TagsInv, AtHand, Tags!Approved, Tags!ConvergedAsDeclared, Tags!TornDownIsGone, Tags!Over

LEMMA TagsBegin ==
  ASSUME TagsInv, NEW verb \in {"apply", "teardown"}, NEW a \in BOOLEAN, NEW r \in BOOLEAN, Tags!Starts(verb, a, r)
  PROVE  TagsInv'
  <1> DEFINE pc == IF verb = "apply" THEN "define" ELSE "read"
  <1>1. pc \in {"idle", "define", "read"} /\ VMs # {} /\ (r => verb = "teardown")
    BY DEF Tags!Starts, TagsInv, Writebacks
  <1> DEFINE fresh == Tags!Fresh(pc, verb)
  <1>2. tagging' = [fresh EXCEPT !.allow = a, !.removes = r]
    BY DEF Tags!Starts
  <1>3. (pc = "define" => verb = "apply") /\ (pc = "read" => verb # "apply")
    OBVIOUS
  <1>4. pc \notin {"each", "attach", "verify", "categories", "exit0"}
    OBVIOUS
  <1> HIDE DEF pc
  <1>5. /\ tagging' \in Writebacks /\ tagging'.pc = pc /\ tagging'.verb = verb /\ tagging'.removes = r
        /\ \A v \in VMs : tagging'.current[v] = Absent
    <2>1. fresh \in Writebacks /\ fresh.pc = pc /\ fresh.verb = verb /\ \A v \in VMs : fresh.current[v] = Absent
      BY <1>1, FreshTagging
    <2> HIDE DEF fresh
    <2> QED BY <1>2, <2>1 DEF Writebacks
  <1>6. Tags!TypeOK'
    BY <1>1, <1>3, <1>4, <1>5, TagsTyped DEF Tags!Starts, TagsInv, Tags!TypeOK
  <1> QED BY <1>1, <1>3, <1>4, <1>5, <1>6 DEF TagsInv, Tags!ConvergedAsDeclared, Tags!TornDownIsGone, Tags!Over

LEMMA TagsDefined == TagsInv /\ Tags!Defines => TagsInv'
  <1> SUFFICES ASSUME TagsInv, Tags!Defines PROVE TagsInv'
    OBVIOUS
  <1>1. tagging \in Writebacks /\ Tags!TypeOK /\ UNCHANGED <<tag, approved, tagOthers>>
    BY DEF TagsInv, Tags!Defines, Tags!Rest
  <1>2. CASE tagging' = Tags!Ended("exit1") /\ category' \in {category, "ours"} /\ (UNCHANGED tagFaults \/ Tags!Fault)
    BY <1>1, <1>2, TagsOver DEF Tags!Ended, Tags!TypeOK
  <1>3. CASE tagging' = [tagging EXCEPT !.pc = "read", !.whole = category = "ours"] /\ category' = "ours" /\ UNCHANGED tagFaults
    <2>1. /\ tagging' \in Writebacks /\ tagging'.pc = "read" /\ tagging'.removes = tagging.removes
          /\ tagging'.verb = tagging.verb /\ tagging'.current = tagging.current /\ tagging'.before = tagging.before
      BY <1>1, <1>3 DEF Writebacks
    <2>2. Tags!TypeOK'
      BY <1>1, <1>3, <2>1, TagsTyped DEF Tags!TypeOK
    <2> QED BY <1>3, <2>1, <2>2 DEF TagsInv, Tags!ConvergedAsDeclared, Tags!TornDownIsGone, Tags!Over
  <1> QED BY <1>1, <1>2, <1>3 DEF Tags!Defines, Tags!Dies

LEMMA TagsRead == TagsInv /\ Tags!Reads => TagsInv'
  <1> SUFFICES ASSUME TagsInv, Tags!Reads PROVE TagsInv'
    OBVIOUS
  <1>1. tagging \in Writebacks /\ Tags!TypeOK /\ UNCHANGED <<category, tag, approved, tagOthers>> /\ tagging.pc = "read"
    BY DEF TagsInv, Tags!Reads, Tags!Rest, Tags!At
  <1>2. CASE Tags!Dies
    BY <1>1, <1>2, TagsOver DEF Tags!Ended, Tags!TypeOK, Tags!Dies
  <1>3. CASE \E whole \in BOOLEAN :
               /\ tagging' = [tagging EXCEPT !.pc = "each", !.before = tag, !.current = IF whole THEN tag ELSE Tags!None,
                                !.todo = Tags!Approved, !.alone = TRUE, !.whole = whole]
               /\ UNCHANGED tagFaults \/ Tags!Fault
    <2>1. PICK whole \in BOOLEAN :
               /\ tagging' = [tagging EXCEPT !.pc = "each", !.before = tag, !.current = IF whole THEN tag ELSE Tags!None,
                                !.todo = Tags!Approved, !.alone = TRUE, !.whole = whole]
               /\ UNCHANGED tagFaults \/ Tags!Fault
      BY <1>3
    <2> DEFINE current == IF whole THEN tag ELSE Tags!None
    <2>2. current \in Tags!Tags /\ (\A v \in VMs : current[v] \in {Absent, tag[v]}) /\ (whole => current = tag)
      BY <1>1 DEF Tags!TypeOK, Tags!Tags, Tags!None
    <2>3. tagging' = [tagging EXCEPT !.pc = "each", !.before = tag, !.current = current, !.todo = Tags!Approved,
                                     !.alone = TRUE, !.whole = whole]
      BY <2>1
    <2> HIDE DEF current
    <2>4. Tags!Approved \subseteq VMs /\ Tags!Approved' = Tags!Approved
      BY <1>1 DEF Tags!Approved
    <2>5. /\ tagging' \in Writebacks /\ tagging'.pc = "each" /\ tagging'.removes = tagging.removes
          /\ tagging'.verb = tagging.verb /\ tagging'.current = current /\ tagging'.before = tag
          /\ tagging'.todo = Tags!Approved /\ tagging'.whole = whole
      BY <1>1, <2>2, <2>3, <2>4 DEF Writebacks, Tags!TypeOK
    <2>6. Tags!TypeOK'
      BY <1>1, <2>1, <2>5, TagsTyped DEF Tags!TypeOK
    <2>7. AppliedSoFar' /\ RemovedSoFar' /\ AtHand' = {}
      BY <1>1, <2>4, <2>5 DEF AppliedSoFar, RemovedSoFar, AtHand
    <2> QED BY <1>1, <2>2, <2>4, <2>5, <2>6, <2>7 DEF TagsInv, Tags!ConvergedAsDeclared, Tags!TornDownIsGone, Tags!Over
  <1> QED BY <1>1, <1>2, <1>3 DEF Tags!Reads, Writebacks

\* The next machine is taken in hand; at most its own value changes.
LEMMA TagsInHand ==
  ASSUME TagsInv, tagging.pc = "each", NEW v \in tagging.todo, NEW pc \in {"attach", "verify"}, Tags!Goes(v, pc),
         pc = "attach" <=> tagging.verb = "apply", tag' \in Tags!Tags, \A u \in VMs \ {v} : tag'[u] = tag[u],
         tagging.verb = "apply" /\ ~tagging.allow => tag' = tag,
         category = "none" => tag' = tag, UNCHANGED <<category, approved, tagOthers>>, UNCHANGED tagFaults \/ Tags!Fault
  PROVE  TagsInv'
  <1>1. /\ tagging \in Writebacks /\ tag \in Tags!Tags /\ tagging.todo \subseteq Tags!Approved /\ Tags!Approved \subseteq VMs
        /\ AtHand = {} /\ Tags!Approved' = Tags!Approved /\ tagging' = [tagging EXCEPT !.pc = pc, !.vm = v, !.todo = @ \ {v}]
    BY DEF TagsInv, Tags!TypeOK, AtHand, Tags!Approved, Tags!Goes
  <1>2. /\ tagging' \in Writebacks /\ tagging'.pc = pc /\ tagging'.vm = v /\ tagging'.todo = tagging.todo \ {v}
        /\ tagging'.verb = tagging.verb /\ tagging'.allow = tagging.allow /\ tagging'.removes = tagging.removes
        /\ tagging'.before = tagging.before /\ tagging'.current = tagging.current /\ tagging'.whole = tagging.whole
        /\ tagging'.alone = tagging.alone
    BY <1>1 DEF Writebacks
  <1>3. Tags!TypeOK'
    BY <1>1, <1>2, TagsTyped DEF TagsInv, Tags!TypeOK
  <1>4. AtHand' = {v}
    BY <1>2 DEF AtHand
  <1>5. tagging.alone /\ tagging.verb = "apply" => AppliedSoFar'
    <2> SUFFICES ASSUME AppliedSoFar, tagging.verb = "apply" PROVE AppliedSoFar'
      BY DEF TagsInv
    <2>1. \A u \in VMs : Goal(u)' = Goal(u)
      BY <1>2 DEF Goal
    <2>2. \A u \in tagging'.todo : tag'[u] = tagging'.before[u]
      BY <1>1, <1>2 DEF AppliedSoFar
    <2>3. \A u \in Tags!Approved \ (tagging.todo \cup {v}) : tag'[u] = Goal(u)'
      BY <1>1, <2>1 DEF AppliedSoFar
    <2>4. ~tagging.allow => tag'[v] = tagging.before[v]
      BY <1>1 DEF AppliedSoFar
    <2> QED BY <1>1, <1>2, <1>4, <2>2, <2>3, <2>4 DEF AppliedSoFar
  <1>6. tagging.alone /\ tagging.whole /\ tagging.verb = "teardown" => RemovedSoFar'
    BY <1>1, <1>2, <1>4 DEF TagsInv, RemovedSoFar
  <1> QED BY <1>1, <1>2, <1>3, <1>4, <1>5, <1>6 DEF TagsInv, Tags!ConvergedAsDeclared, Tags!TornDownIsGone, Tags!Over

\* What is decided of a machine with an approved value.
LEMMA Decided ==
  ASSUME TagsInv, NEW v \in Tags!Approved
  PROVE  /\ tagging.verb = "teardown" =>
              Tags!Decision(v) = IF tagging.current[v] = approved[v] THEN "detach" ELSE "none"
         /\ tagging.verb = "apply" =>
              /\ tagging.current[v] = approved[v] => Tags!Decision(v) = "none"
              /\ tagging.current[v] = Absent => Tags!Decision(v) = "attach"
              /\ tagging.current[v] \notin {approved[v], Absent} =>
                   Tags!Decision(v) = IF tagging.allow THEN "change" ELSE "none"
  BY DEF Tags!Decision, Tags!Approved

LEMMA TagsTakenOff ==
  ASSUME TagsInv, NEW v \in VMs, Tags!TakesOff(v)
  PROVE  TagsInv'
  <1>1. /\ tagging \in Writebacks /\ tag \in Tags!Tags /\ tagging.todo \subseteq Tags!Approved
        /\ v \in tagging.todo /\ tagging.pc = "each" /\ UNCHANGED <<category, approved, tagOthers>>
        /\ category = "none" => tag = Tags!None
    BY DEF TagsInv, Tags!TypeOK, Tags!TakesOff, Tags!Turn, Tags!At, Tags!Rest
  <1>2. CASE Tags!Turn(v, "attach") /\ Tags!Goes(v, "attach") /\ UNCHANGED <<tag, tagFaults>>
    <2>1. tagging.verb = "apply"
      BY <1>1, <1>2, Decided DEF Tags!Turn, Writebacks
    <2> QED BY <1>1, <1>2, <2>1, TagsInHand
  <1>3. ASSUME Tags!Turn(v, "change") \/ Tags!Turn(v, "detach"),
               tag' = Tags!Without(v, tagging.current[v]) \/ UNCHANGED tag, UNCHANGED tagFaults \/ Tags!Fault,
               Tags!Goes(v, IF tagging.verb = "apply" THEN "attach" ELSE "verify")
        PROVE  TagsInv'
    <2>1. tag' \in Tags!Tags /\ \A u \in VMs \ {v} : tag'[u] = tag[u]
      BY <1>1, <1>3 DEF Tags!Without, Tags!Tags
    <2>2. category = "none" => tag' = tag
      BY <1>1, <1>3 DEF Tags!Without, Tags!None, Tags!Tags
    <2>3. tagging.verb = "apply" => tagging.allow
      BY <1>1, <1>3, Decided DEF Tags!Turn
    <2>4. tagging.verb \in {"apply", "teardown"}
      BY <1>1 DEF Writebacks
    <2> QED BY <1>1, <1>3, <2>1, <2>2, <2>3, <2>4, TagsInHand
  <1>4. ASSUME Tags!Dies, UNCHANGED tag PROVE TagsInv'
    BY <1>1, <1>4, TagsOver DEF Tags!Dies, Tags!Ended, TagsInv, Tags!TypeOK
  <1> QED BY <1>2, <1>3, <1>4 DEF Tags!TakesOff

LEMMA TagsAttached == TagsInv /\ Tags!Attaches => TagsInv'
  <1> SUFFICES ASSUME TagsInv, Tags!Attaches PROVE TagsInv'
    OBVIOUS
  <1> DEFINE v == tagging.vm
  <1>1. /\ tagging \in Writebacks /\ tag \in Tags!Tags /\ approved \in Tags!Tags /\ tagging.verb = "apply"
        /\ tagging.pc = "attach" /\ UNCHANGED <<category, approved, tagOthers>> /\ Tags!Approved' = Tags!Approved
        /\ v \in Tags!Approved \ tagging.todo /\ tagging.todo \subseteq Tags!Approved /\ Tags!Approved \subseteq VMs
        /\ AtHand = {v}
    BY DEF TagsInv, Tags!TypeOK, Tags!Attaches, Tags!At, Tags!Rest, AtHand, Tags!Approved
  <1>2. CASE Tags!Dies /\ UNCHANGED tag
    BY <1>1, <1>2, TagsOver DEF Tags!Dies, Tags!Ended, TagsInv, Tags!TypeOK
  <1>3. CASE tagging' = Tags!Ended("exit1") /\ UNCHANGED <<tag, tagFaults>>
    BY <1>1, <1>3, TagsOver DEF Tags!Ended, TagsInv, Tags!TypeOK
  <1>4. ASSUME tagging' = [tagging EXCEPT !.pc = "verify"], UNCHANGED tagFaults \/ Tags!Fault,
               \/ tag[v] \in {Absent, approved[v]} /\ tag' = [tag EXCEPT ![v] = approved[v]]
               \/ UNCHANGED tag
        PROVE  TagsInv'
    <2>1. /\ tagging' \in Writebacks /\ tagging'.pc = "verify" /\ tagging'.vm = v /\ tagging'.todo = tagging.todo
          /\ tagging'.verb = tagging.verb /\ tagging'.allow = tagging.allow /\ tagging'.removes = tagging.removes
          /\ tagging'.before = tagging.before /\ tagging'.current = tagging.current /\ tagging'.whole = tagging.whole
          /\ tagging'.alone = tagging.alone
      BY <1>1, <1>4 DEF Writebacks
    <2>2. tag' \in Tags!Tags /\ (\A u \in VMs \ {v} : tag'[u] = tag[u]) /\ (category = "none" => tag' = tag)
      BY <1>1, <1>4 DEF TagsInv, Tags!Tags
    <2>3. Tags!TypeOK'
      BY <1>1, <1>4, <2>1, <2>2, TagsTyped DEF TagsInv, Tags!TypeOK
    <2>4. AtHand' = {v}
      BY <2>1 DEF AtHand
    <2>5. tagging.alone => AppliedSoFar'
      <3> SUFFICES ASSUME AppliedSoFar PROVE AppliedSoFar'
        BY <1>1 DEF TagsInv
      <3>1. \A u \in VMs : Goal(u)' = Goal(u)
        BY <1>1, <2>1 DEF Goal
      <3>2. ~tagging.allow => tag[v] = tagging.before[v]
        BY <1>1 DEF AppliedSoFar
      <3>3. ~tagging.allow => tag'[v] = tagging.before[v] \/ tagging.before[v] = Absent
        BY <1>1, <1>4, <3>2 DEF Tags!Tags
      <3>4. /\ \A u \in tagging.todo : tag'[u] = tagging.before[u]
            /\ \A u \in Tags!Approved \ (tagging.todo \cup {v}) : tag'[u] = Goal(u)'
        BY <1>1, <2>2, <3>1 DEF AppliedSoFar
      <3> QED BY <1>1, <2>1, <2>4, <3>3, <3>4 DEF AppliedSoFar
    <2> QED BY <1>1, <2>1, <2>3, <2>4, <2>5 DEF TagsInv, Tags!ConvergedAsDeclared, Tags!TornDownIsGone, Tags!Over
  <1> QED BY <1>2, <1>3, <1>4 DEF Tags!Attaches

LEMMA TagsVerified == TagsInv /\ Tags!Verifies => TagsInv'
  <1> SUFFICES ASSUME TagsInv, Tags!Verifies PROVE TagsInv'
    OBVIOUS
  <1> DEFINE v == tagging.vm
  <1>1. /\ tagging \in Writebacks /\ tag \in Tags!Tags /\ tagging.pc = "verify"
        /\ UNCHANGED <<category, tag, approved, tagOthers>> /\ Tags!Approved' = Tags!Approved
        /\ v \in Tags!Approved \ tagging.todo /\ tagging.todo \subseteq Tags!Approved /\ Tags!Approved \subseteq VMs
        /\ AtHand = {v}
    BY DEF TagsInv, Tags!TypeOK, Tags!Verifies, Tags!At, Tags!Rest, AtHand, Tags!Approved
  <1>2. CASE \E code \in {"exit1", "exit2"} : tagging' = Tags!Ended(code) /\ (UNCHANGED tagFaults \/ Tags!Fault)
    BY <1>1, <1>2, TagsOver DEF Tags!Ended, TagsInv, Tags!TypeOK
  <1>3. CASE /\ tagging' = [tagging EXCEPT !.pc = "each"] /\ UNCHANGED tagFaults
             /\ (tag[v] = approved[v]) = (tagging.verb = "apply")
    <2>1. /\ tagging' \in Writebacks /\ tagging'.pc = "each" /\ tagging'.todo = tagging.todo
          /\ tagging'.verb = tagging.verb /\ tagging'.allow = tagging.allow /\ tagging'.removes = tagging.removes
          /\ tagging'.before = tagging.before /\ tagging'.current = tagging.current /\ tagging'.whole = tagging.whole
          /\ tagging'.alone = tagging.alone
      BY <1>1, <1>3 DEF Writebacks
    <2>2. Tags!TypeOK' /\ AtHand' = {}
      BY <1>1, <1>3, <2>1, TagsTyped DEF TagsInv, Tags!TypeOK, AtHand
    <2>3. tagging.alone /\ tagging.verb = "apply" => AppliedSoFar'
      <3> SUFFICES ASSUME AppliedSoFar, tagging.verb = "apply" PROVE AppliedSoFar'
        BY <1>1 DEF TagsInv
      <3>1. \A u \in VMs : Goal(u)' = Goal(u)
        BY <1>1, <2>1 DEF Goal
      <3>2. tag[v] = Goal(v)
        BY <1>1, <1>3 DEF AppliedSoFar, Goal
      <3> QED BY <1>1, <2>1, <2>2, <3>1, <3>2 DEF AppliedSoFar
    <2>4. tagging.alone /\ tagging.whole /\ tagging.verb = "teardown" => RemovedSoFar'
      BY <1>1, <1>3, <2>1, <2>2 DEF TagsInv, RemovedSoFar
    <2> QED BY <1>1, <2>1, <2>2, <2>3, <2>4 DEF TagsInv, Tags!ConvergedAsDeclared, Tags!TornDownIsGone, Tags!Over
  <1> QED BY <1>2, <1>3 DEF Tags!Verifies, Tags!Dies

LEMMA TagsEnded == TagsInv /\ Tags!Ends => TagsInv'
  <1> SUFFICES ASSUME TagsInv, Tags!Ends PROVE TagsInv'
    OBVIOUS
  <1>1. /\ tagging \in Writebacks /\ tag \in Tags!Tags /\ tagging.pc = "each" /\ AtHand = {}
        /\ UNCHANGED <<category, tag, approved, tagOthers, tagFaults>> /\ Tags!Approved' = Tags!Approved
        /\ tagging.todo \subseteq Tags!Approved /\ Tags!Approved \subseteq VMs
        /\ \A v \in tagging.todo : Tags!Decision(v) = "none"
    BY DEF TagsInv, Tags!TypeOK, Tags!Ends, Tags!At, Tags!Rest, AtHand, Tags!Approved
  <1>2. tagging.alone /\ tagging.verb = "apply" => \A v \in Tags!Approved : tag[v] = Goal(v)
    <2> SUFFICES ASSUME AppliedSoFar, tagging.verb = "apply", NEW v \in Tags!Approved PROVE tag[v] = Goal(v)
      BY <1>1 DEF TagsInv
    <2>1. CASE v \notin tagging.todo
      BY <1>1, <2>1 DEF AppliedSoFar
    <2>2. CASE v \in tagging.todo
      <3>1. tag[v] = tagging.before[v] /\ tagging.current[v] \in {Absent, tagging.before[v]} /\ approved[v] # Absent
        BY <1>1, <2>2 DEF AppliedSoFar, TagsInv, Tags!Approved
      <3>2. tagging.current[v] # Absent /\ (tagging.current[v] # approved[v] => ~tagging.allow)
        BY <1>1, <2>2, <3>1, Decided
      <3> QED BY <3>1, <3>2 DEF Goal
    <2> QED BY <2>1, <2>2
  <1>3. tagging.alone /\ tagging.whole /\ tagging.verb = "teardown" => \A v \in Tags!Approved : tag[v] # approved[v]
    <2> SUFFICES ASSUME RemovedSoFar, tagging.whole, tagging.verb = "teardown", NEW v \in Tags!Approved
                 PROVE  tag[v] # approved[v]
      BY <1>1 DEF TagsInv
    <2>1. CASE v \notin tagging.todo
      BY <1>1, <2>1 DEF RemovedSoFar
    <2>2. CASE v \in tagging.todo
      BY <1>1, <2>2, Decided DEF RemovedSoFar, TagsInv
    <2> QED BY <2>1, <2>2
  <1>4. \E pc \in {"categories", "exit0"} : tagging' = [tagging EXCEPT !.pc = pc] /\ (pc = "categories" => tagging.removes)
    BY DEF Tags!Ends, Tags!Ended
  <1>5. /\ tagging' \in Writebacks /\ tagging'.pc \in {"categories", "exit0"} /\ tagging'.todo = tagging.todo
        /\ tagging'.verb = tagging.verb /\ tagging'.allow = tagging.allow /\ tagging'.removes = tagging.removes
        /\ tagging'.before = tagging.before /\ tagging'.current = tagging.current /\ tagging'.whole = tagging.whole
        /\ tagging'.alone = tagging.alone /\ (tagging'.pc = "categories" => tagging.removes)
    BY <1>1, <1>4 DEF Writebacks
  <1>6. Tags!TypeOK' /\ AtHand' = {}
    BY <1>1, <1>5, TagsTyped DEF TagsInv, Tags!TypeOK, AtHand
  <1>7. Tags!ConvergedAsDeclared' /\ Tags!TornDownIsGone'
    BY <1>1, <1>2, <1>3, <1>5 DEF Tags!ConvergedAsDeclared, Tags!TornDownIsGone, Tags!Over, Goal
  <1> QED BY <1>1, <1>3, <1>5, <1>6, <1>7 DEF TagsInv

LEMMA TagsRemoved == TagsInv /\ Tags!RemovesCategory => TagsInv'
  <1> SUFFICES ASSUME TagsInv, Tags!RemovesCategory PROVE TagsInv'
    OBVIOUS
  <1>1. /\ tagging \in Writebacks /\ tag \in Tags!Tags /\ tagging.pc = "categories" /\ tagging.verb = "teardown"
        /\ UNCHANGED <<approved, tagOthers>> /\ Tags!Approved' = Tags!Approved /\ Tags!None \in Tags!Tags
    BY DEF TagsInv, Tags!TypeOK, Tags!RemovesCategory, Tags!At, Tags!Rest, Tags!Approved, Tags!None, Tags!Tags
  <1>2. CASE Tags!Dies /\ UNCHANGED <<category, tag>>
    BY <1>1, <1>2, TagsOver DEF Tags!Dies, Tags!Ended, TagsInv, Tags!TypeOK
  <1>3. CASE /\ tagging' = Tags!Ended("exit0") /\ UNCHANGED tagFaults
             /\ (category' = "none" /\ tag' = Tags!None) \/ UNCHANGED <<category, tag>>
    <2>1. /\ tagging' \in Writebacks /\ tagging'.pc = "exit0" /\ tagging'.verb = "teardown"
          /\ tagging'.removes = tagging.removes /\ tagging'.before = tagging.before /\ tagging'.current = tagging.current
          /\ tagging'.whole = tagging.whole /\ tagging'.alone = tagging.alone
      BY <1>1, <1>3 DEF Writebacks, Tags!Ended
    <2>2. Tags!TypeOK'
      BY <1>1, <1>3, <2>1, TagsTyped DEF TagsInv, Tags!TypeOK
    <2>3. \A v \in Tags!Approved : Tags!None[v] # approved[v]
      BY DEF Tags!Approved, Tags!None
    <2> QED BY <1>1, <1>3, <2>1, <2>2, <2>3 DEF TagsInv, Tags!ConvergedAsDeclared, Tags!TornDownIsGone, Tags!Over
  <1> QED BY <1>2, <1>3 DEF Tags!RemovesCategory

LEMMA TagsStep == TagsInv /\ Tags!Next => TagsInv'
  BY TagsOthers, TagsBegin, TagsDefined, TagsRead, TagsTakenOff, TagsAttached, TagsVerified, TagsEnded, TagsRemoved
     DEF Tags!Next, Tags!Step, Tags!AnyStart

\* A value is taken off only when it is the one that was read, or the one the teardown came for.
LEMMA TagsSpare == TagsInv /\ Tags!Next => Tags!Spares
  <1> SUFFICES ASSUME TagsInv, Tags!Step, ~Tags!At("categories"), NEW u \in VMs, tag'[u] # tag[u]
               PROVE  tag[u] \in {Absent} \cup (IF tagging.verb = "teardown" THEN {approved[u]}
                                             ELSE IF tagging.allow THEN {tagging.before[u]} ELSE {})
    BY DEF Tags!Spares, Tags!Spared
  <1>1. tag \in Tags!Tags /\ tagging \in Writebacks
    BY DEF TagsInv, Tags!TypeOK
  <1>2. CASE \E v \in VMs : Tags!TakesOff(v)
    <2>1. PICK v \in VMs : Tags!TakesOff(v)
      BY <1>2
    <2>2. v \in tagging.todo /\ tagging.pc = "each" /\ v \in Tags!Approved
      BY <2>1 DEF Tags!TakesOff, Tags!Turn, Tags!At, TagsInv
    <2>3. /\ tag' = Tags!Without(v, tagging.current[v])
          /\ Tags!Decision(v) \in {"change", "detach"}
      BY <2>1 DEF Tags!TakesOff, Tags!Turn
    <2>4. u = v /\ tag[v] = tagging.current[v]
      BY <1>1, <2>3 DEF Tags!Without, Tags!Tags
    <2>5. tagging.current[v] \in {Absent, tagging.before[v]} /\ tagging.verb \in {"apply", "teardown"}
      BY <1>1 DEF TagsInv, Writebacks
    <2> QED BY <2>2, <2>3, <2>4, <2>5, Decided
  <1>3. CASE Tags!Attaches
    BY <1>1, <1>3 DEF Tags!Attaches, Tags!Tags, Writebacks, TagsInv, Tags!TypeOK
  <1>4. CASE Tags!Defines \/ Tags!Reads \/ Tags!Verifies \/ Tags!Ends \/ Tags!RemovesCategory
    BY <1>4 DEF Tags!Defines, Tags!Reads, Tags!Verifies, Tags!Ends, Tags!RemovesCategory
  <1> QED BY <1>2, <1>3, <1>4 DEF Tags!Step

-----------------------------------------------------------------------------
(* Proofs about the hardware groups. *)

LEMMA GroupNumbers ==
  Dwell \in Nat \ {0} /\ MaxMoves \in Nat /\ MaxFailures \in Nat /\ Absent \notin 0 .. Dwell /\ Groups!Ages = 0 .. Dwell
  BY ContentAssumption DEF Groups!InfraGroupsAssumption, Groups!Ages

\* Time keeps the order of two ages, and makes no stamp of none.
LEMMA OlderIs ==
  /\ \A a \in Groups!Ages : Groups!Older(a) \in Groups!Ages
  /\ Groups!Older(Absent) = Absent /\ Groups!Older(Dwell) = Dwell
  /\ \A a, b \in Groups!Ages : a <= b => Groups!Older(a) <= Groups!Older(b)
  BY GroupNumbers DEF Groups!Older

LEMMA UnsetIs ==
  /\ Groups!Unset \in Groups!Groups
  /\ [h \in Hosts |-> Absent] \in Groups!Stamps
  BY DEF Groups!Unset, Groups!Groups, Groups!Stamps

\* The record of a run that begins or is over.
LEMMA BlankFollow ==
  ASSUME NEW pc \in {"idle", "read", "exit0", "exit1", "exit2"}, NEW f \in BOOLEAN
  PROVE  /\ Groups!Blank(pc) \in Reconciles /\ Groups!Blank(pc).pc = pc
         /\ [Groups!Blank(pc) EXCEPT !.force = f] \in Reconciles /\ [Groups!Blank(pc) EXCEPT !.force = f].pc = pc
  BY UnsetIs DEF Groups!Blank, Reconciles

LEMMA EndedFollow ==
  ASSUME GroupsInv, NEW code \in {"exit0", "exit1", "exit2"}
  PROVE  LET run == Groups!Ended(code) IN
         run \in Reconciles /\ run.pc = code /\ run.whole = follow.whole /\ run.alone = follow.alone
  <1> DEFINE blank == Groups!Blank(code)
  <1>1. blank \in Reconciles /\ blank.pc = code
    BY BlankFollow
  <1>2. follow.whole \in BOOLEAN /\ follow.alone \in BOOLEAN
    BY DEF GroupsInv, Reconciles
  <1>3. Groups!Ended(code) = [blank EXCEPT !.whole = follow.whole, !.alone = follow.alone]
    BY DEF Groups!Ended
  <1> HIDE DEF blank
  <1> QED BY <1>1, <1>2, <1>3 DEF Reconciles

LEMMA GroupsFault == GroupsInv /\ Groups!Fault => groupFaults' \in 0 .. MaxFailures
  BY GroupNumbers DEF GroupsInv, Groups!TypeOK, Groups!Fault

\* What a step of the reconciler has to show of the types.
LEMMA GroupsTyped ==
  ASSUME GroupsInv, follow' \in Reconciles, UNCHANGED <<placed, tiers, moves>>, group' \in Groups!Groups,
         file' \in Groups!Stamps, lastSeen' \in [Hosts -> Groups!Ages], unsaved' \subseteq Hosts,
         UNCHANGED groupFaults \/ Groups!Fault, follow'.pc \in {"put", "confirm"} => follow'.want # follow'.seen
  PROVE  Groups!TypeOK'
  BY GroupsFault DEF GroupsInv, Groups!TypeOK, Groups!Exits, Reconciles

LEMMA GroupsStart == Groups!Init => GroupsInv
  <1> SUFFICES ASSUME Groups!Init PROVE GroupsInv
    OBVIOUS
  <1>1. follow \in Reconciles /\ follow.pc = "idle"
    BY BlankFollow DEF Groups!Init
  <1>2. /\ file \in Groups!Stamps /\ group \in Groups!Groups /\ lastSeen \in [Hosts -> Groups!Ages]
        /\ \A h \in Hosts : file[h] = Absent
    BY UnsetIs, GroupNumbers DEF Groups!Init
  <1>3. Groups!TypeOK
    BY <1>1, <1>2, GroupNumbers DEF Groups!Init, Groups!TypeOK, Groups!Exits, Reconciles
  <1>4. StampsInv
    BY <1>1, <1>2 DEF StampsInv
  <1> QED BY <1>1, <1>3, <1>4 DEF GroupsInv, Groups!ConvergedAsDeclared

LEMMA GroupsTick == GroupsInv /\ Groups!Ticks => GroupsInv'
  <1> SUFFICES ASSUME GroupsInv, Groups!Ticks PROVE GroupsInv'
    OBVIOUS
  <1>1. /\ follow \in Reconciles /\ file \in Groups!Stamps /\ lastSeen \in [Hosts -> Groups!Ages]
        /\ follow.stamps \in Groups!Stamps /\ UNCHANGED <<placed, group, tiers, unsaved, moves, groupFaults>>
    BY DEF GroupsInv, Groups!TypeOK, Groups!Ticks, Reconciles
  <1> DEFINE older == [h \in Hosts |-> Groups!Older(follow.stamps[h])]
  <1>2. /\ file' = [h \in Hosts |-> Groups!Older(file[h])] /\ lastSeen' = [h \in Hosts |-> Groups!Older(lastSeen[h])]
        /\ follow' = [follow EXCEPT !.stamps = older]
    BY DEF Groups!Ticks
  <1>3. file' \in Groups!Stamps /\ lastSeen' \in [Hosts -> Groups!Ages] /\ older \in Groups!Stamps
    BY <1>1, <1>2, OlderIs DEF Groups!Stamps
  <1>4. \A h \in Hosts :
          /\ (file'[h] = Absent <=> file[h] = Absent) /\ (older[h] = Absent <=> follow.stamps[h] = Absent)
          /\ file[h] # Absent => file[h] \in Groups!Ages
          /\ follow.stamps[h] # Absent => follow.stamps[h] \in Groups!Ages
    BY <1>1, <1>2, OlderIs, GroupNumbers DEF Groups!Stamps
  <1>5. /\ \A h \in Hosts : file[h] # Absent /\ file[h] <= lastSeen[h] => file'[h] <= lastSeen'[h]
        /\ \A h \in Hosts : follow.stamps[h] # Absent /\ follow.stamps[h] <= lastSeen[h] => older[h] <= lastSeen'[h]
        /\ \A h \in Hosts : lastSeen[h] = Dwell => lastSeen'[h] = Dwell
    BY <1>1, <1>2, <1>4, OlderIs
  <1> HIDE DEF older
  <1>6. /\ follow' \in Reconciles /\ follow'.pc = follow.pc /\ follow'.desired = follow.desired
        /\ follow'.seen = follow.seen /\ follow'.want = follow.want /\ follow'.stamps = older
        /\ follow'.whole = follow.whole /\ follow'.alone = follow.alone
    BY <1>1, <1>2, <1>3 DEF Reconciles
  <1>7. Groups!TypeOK'
    BY <1>1, <1>3, <1>6 DEF GroupsInv, Groups!TypeOK, Groups!Exits, Reconciles
  <1>8. StampsInv'
    BY <1>1, <1>4, <1>5, <1>6 DEF GroupsInv, StampsInv, Reconciles, Groups!Groups
  <1>9. WantsRight => WantsRight'
    BY <1>1, <1>4, <1>6 DEF WantsRight, Reconciles, Groups!Groups
  <1>10. Groups!ConvergedAsDeclared'
    BY <1>1, <1>4, <1>6 DEF GroupsInv, Groups!TypeOK, Groups!Groups, Groups!ConvergedAsDeclared, Groups!GovernedByTier
  <1> QED BY <1>1, <1>6, <1>7, <1>8, <1>9, <1>10 DEF GroupsInv

LEMMA GroupsMoved == GroupsInv /\ Groups!Moves => GroupsInv'
  <1> SUFFICES ASSUME GroupsInv, Groups!Moves PROVE GroupsInv'
    OBVIOUS
  <1>1. /\ follow \in Reconciles /\ follow' = [follow EXCEPT !.alone = FALSE]
        /\ UNCHANGED <<lastSeen, unsaved, groupFaults>> /\ Groups!TypeOK
    BY DEF GroupsInv, Groups!Moves
  <1>2. /\ follow' \in Reconciles /\ follow'.alone = FALSE /\ follow'.pc = follow.pc /\ follow'.desired = follow.desired
        /\ follow'.seen = follow.seen /\ follow'.want = follow.want /\ follow'.stamps = follow.stamps
    BY <1>1 DEF Reconciles
  <1>3. group' \in Groups!Groups
    <2>1. group \in Groups!Groups
      BY <1>1 DEF Groups!TypeOK
    <2>2. ASSUME NEW p \in {"none", "posture", "other"}, group' = [group EXCEPT !.policy = p] PROVE group' \in Groups!Groups
      BY <2>1, <2>2 DEF Groups!Groups
    <2>3. ASSUME NEW m \in SUBSET Hosts, group' = [group EXCEPT !.members = m, !.rule = FALSE] PROVE group' \in Groups!Groups
      BY <2>1, <2>3 DEF Groups!Groups
    <2> QED BY <2>1, <2>2, <2>3 DEF Groups!Moves
  <1>4. file' = file \/ (file' \in Groups!Stamps /\ \A h \in Hosts : file'[h] = Absent)
    BY UnsetIs DEF Groups!Moves
  <1>5. placed' \subseteq Hosts /\ tiers' \in BOOLEAN /\ moves' \in 0 .. MaxMoves
    <2>1. placed \subseteq Hosts /\ tiers \in BOOLEAN /\ moves \in 0 .. MaxMoves
      BY <1>1 DEF Groups!TypeOK
    <2>2. moves' \in 0 .. MaxMoves
      <3>1. moves < MaxMoves /\ moves' = moves + 1
        BY DEF Groups!Moves
      <3> QED BY <2>1, <3>1, GroupNumbers
    <2>3. placed' \subseteq Hosts /\ tiers' \in BOOLEAN
      BY <2>1 DEF Groups!Moves
    <2> QED BY <2>2, <2>3
  <1>6. Groups!TypeOK'
    BY <1>1, <1>2, <1>3, <1>4, <1>5 DEF Groups!TypeOK, Groups!Exits, Reconciles
  <1>7. StampsInv'
    BY <1>1, <1>2, <1>4 DEF GroupsInv, StampsInv
  <1> QED BY <1>2, <1>6, <1>7 DEF GroupsInv, Groups!ConvergedAsDeclared

LEMMA GroupsBegin ==
  ASSUME GroupsInv, NEW f \in BOOLEAN, Groups!Starts(f)
  PROVE  GroupsInv'
  <1>1. follow' \in Reconciles /\ follow'.pc = "read"
    BY BlankFollow DEF Groups!Starts
  <1>2. UNCHANGED <<placed, tiers, moves, lastSeen, unsaved, group, file, groupFaults>>
    BY DEF Groups!Starts, Groups!Rest, Groups!History
  <1>3. Groups!TypeOK'
    BY <1>1, <1>2, GroupsTyped DEF GroupsInv, Groups!TypeOK
  <1> QED BY <1>1, <1>2, <1>3 DEF GroupsInv, StampsInv, Groups!ConvergedAsDeclared

\* A run that ends as refused or failed, with what it has changed so far.
LEMMA GroupsOver ==
  ASSUME GroupsInv, NEW code \in {"exit1", "exit2"}, follow' = Groups!Ended(code), group' \in Groups!Groups,
         UNCHANGED <<placed, tiers, moves, lastSeen, unsaved, file>>, UNCHANGED groupFaults \/ Groups!Fault
  PROVE  GroupsInv'
  <1>1. follow' \in Reconciles /\ follow'.pc = code
    BY EndedFollow
  <1>2. Groups!TypeOK'
    BY <1>1, GroupsTyped DEF GroupsInv, Groups!TypeOK
  <1> QED BY <1>1, <1>2 DEF GroupsInv, StampsInv, Groups!ConvergedAsDeclared

LEMMA GroupsRead == GroupsInv /\ Groups!Reads => GroupsInv'
  <1> SUFFICES ASSUME GroupsInv, Groups!Reads PROVE GroupsInv'
    OBVIOUS
  <1>1. /\ follow \in Reconciles /\ UNCHANGED <<placed, tiers, moves, lastSeen, unsaved, group, file>>
        /\ placed \subseteq Hosts /\ group \in Groups!Groups
    BY DEF GroupsInv, Groups!TypeOK, Groups!Reads, Groups!Rest, Groups!History
  <1>2. CASE follow' = Groups!Ended("exit2") /\ (UNCHANGED groupFaults \/ Groups!Fault)
    BY <1>1, <1>2, GroupsOver
  <1>3. ASSUME NEW d \in SUBSET Hosts, NEW whole \in BOOLEAN, whole => d = placed, UNCHANGED groupFaults \/ Groups!Fault,
               follow' = [follow EXCEPT !.pc = "plan", !.desired = d, !.seen = group, !.whole = whole]
        PROVE  GroupsInv'
    <2>1. /\ follow' \in Reconciles /\ follow'.pc = "plan" /\ follow'.desired = d /\ follow'.seen = group
          /\ follow'.whole = whole
      BY <1>1, <1>3 DEF Reconciles
    <2>2. Groups!TypeOK'
      BY <1>1, <1>3, <2>1, GroupsTyped DEF GroupsInv, Groups!TypeOK
    <2>3. StampsInv'
      BY <1>1, <2>1 DEF GroupsInv, StampsInv
    <2> QED BY <1>1, <1>3, <2>1, <2>2, <2>3 DEF GroupsInv, Groups!ConvergedAsDeclared
  <1>4. CASE UNCHANGED groupFaults /\
             follow' = IF placed = {} /\ ~follow.force THEN Groups!Ended("exit2")
                       ELSE [follow EXCEPT !.pc = "plan", !.desired = placed, !.seen = group, !.whole = TRUE]
    BY <1>1, <1>2, <1>3, <1>4
  <1>5. CASE Groups!Fault /\
             follow' = IF ~follow.force THEN Groups!Ended("exit2")
                       ELSE [follow EXCEPT !.pc = "plan", !.desired = {}, !.seen = group, !.whole = FALSE]
    BY <1>1, <1>2, <1>3, <1>5
  <1>6. CASE Groups!Fault /\ \E d \in SUBSET placed :
             follow' = [follow EXCEPT !.pc = "plan", !.desired = d, !.seen = group, !.whole = FALSE]
    BY <1>1, <1>3, <1>6
  <1> QED BY <1>4, <1>5, <1>6 DEF Groups!Reads

\* What a plan makes of the stamps.
LEMMA PlanIs ==
  ASSUME NEW s \in Groups!Stamps, NEW c \in SUBSET Hosts, NEW d \in SUBSET Hosts
  PROVE  LET stamps == Groups!Stamped(s, c, d)
             effective == Groups!Effective(stamps, c, d)
             kept == Groups!Pruned(stamps, effective) IN
         /\ kept \in Groups!Stamps /\ d \subseteq effective /\ effective \subseteq Hosts
         /\ \A h \in d : kept[h] = 0
         /\ \A h \in effective : kept[h] # Absent
         /\ \A h \in Hosts : kept[h] # Absent => kept[h] = 0 \/ kept[h] = s[h]
         /\ \A h \in c \ effective : s[h] = Dwell
  <1> DEFINE stamps == Groups!Stamped(s, c, d)
             effective == Groups!Effective(stamps, c, d)
             kept == Groups!Pruned(stamps, effective)
  <1>1. /\ stamps \in Groups!Stamps
        /\ \A h \in Hosts : stamps[h] = IF h \in d \/ (h \in c /\ s[h] = Absent) THEN 0 ELSE s[h]
    BY GroupNumbers DEF Groups!Stamped, Groups!Stamps
  <1>2. \A h \in Hosts : stamps[h] \in 0 .. Dwell \cup {Absent}
    BY <1>1, GroupNumbers DEF Groups!Stamps
  <1> HIDE DEF stamps
  <1>3. effective = d \cup {h \in c : stamps[h] # Absent /\ stamps[h] < Dwell}
    BY DEF Groups!Effective, Groups!Recent
  <1> HIDE DEF effective
  <1>4. \A h \in Hosts :
          kept[h] = IF h \in effective \/ (stamps[h] # Absent /\ stamps[h] < Dwell) THEN stamps[h] ELSE Absent
    BY DEF Groups!Pruned, Groups!Recent
  <1>5. kept \in Groups!Stamps
    BY <1>1 DEF Groups!Pruned, Groups!Stamps
  <1> HIDE DEF kept
  <1>6. /\ d \subseteq effective /\ effective \subseteq Hosts /\ \A h \in d : kept[h] = 0
    BY <1>1, <1>3, <1>4
  <1>7. \A h \in effective : kept[h] # Absent
    BY <1>1, <1>3, <1>4, <1>6, GroupNumbers
  <1>8. \A h \in Hosts : kept[h] # Absent => kept[h] = 0 \/ kept[h] = s[h]
    BY <1>1, <1>4
  <1>9. \A h \in c \ effective : s[h] = Dwell
    BY <1>1, <1>2, <1>3, GroupNumbers
  <1> QED BY <1>5, <1>6, <1>7, <1>8, <1>9 DEF stamps, effective, kept

LEMMA GroupsPlanned == GroupsInv /\ Groups!Plans => GroupsInv'
  <1> SUFFICES ASSUME GroupsInv, Groups!Plans PROVE GroupsInv'
    OBVIOUS
  <1> DEFINE stamps == Groups!Stamped(file, follow.seen.members, follow.desired)
             effective == Groups!Effective(stamps, follow.seen.members, follow.desired)
             kept == Groups!Pruned(stamps, effective)
             want == Groups!Wanted(effective)
             same == want = follow.seen
  <1>1. /\ follow \in Reconciles /\ file \in Groups!Stamps /\ lastSeen \in [Hosts -> Groups!Ages]
        /\ follow.seen \in Groups!Groups /\ follow.seen.members \in SUBSET Hosts /\ follow.desired \in SUBSET Hosts
        /\ UNCHANGED <<placed, tiers, moves, group, groupFaults>> /\ follow.pc = "plan" /\ tiers \in BOOLEAN
        /\ group \in Groups!Groups /\ unsaved \subseteq Hosts
    BY DEF GroupsInv, Groups!TypeOK, Groups!Plans, Groups!At, Groups!Rest, Reconciles, Groups!Groups
  <1>2. /\ kept \in Groups!Stamps /\ follow.desired \subseteq effective /\ effective \subseteq Hosts
        /\ \A h \in follow.desired : kept[h] = 0
        /\ \A h \in effective : kept[h] # Absent
        /\ \A h \in Hosts : kept[h] # Absent => kept[h] = 0 \/ kept[h] = file[h]
        /\ \A h \in follow.seen.members \ effective : file[h] = Dwell
    BY <1>1, PlanIs
  <1>3. /\ follow' = IF same THEN Groups!Ended("exit0") ELSE [follow EXCEPT !.pc = "put", !.stamps = kept, !.want = want]
        /\ file' = IF same THEN kept ELSE file
        /\ unsaved' = IF same THEN unsaved \ follow.desired ELSE unsaved \cup follow.desired
        /\ lastSeen' = [h \in Hosts |-> IF h \in follow.desired THEN 0 ELSE lastSeen[h]]
    BY DEF Groups!Plans
  <1> HIDE DEF stamps, effective, kept
  <1>4. /\ want \in Groups!Groups /\ want.members = effective
        /\ want.policy = IF tiers THEN "none" ELSE "posture"
    BY <1>1, <1>2 DEF Groups!Wanted, Groups!Groups
  <1> HIDE DEF want
  <1>5. /\ lastSeen' \in [Hosts -> Groups!Ages] /\ file' \in Groups!Stamps /\ unsaved' \subseteq Hosts
        /\ \A h \in Hosts : lastSeen'[h] = IF h \in follow.desired THEN 0 ELSE lastSeen[h]
    BY <1>1, <1>2, <1>3, GroupNumbers
  <1>6. \A h \in Hosts : kept[h] # Absent /\ (h \in follow.desired \/ h \notin unsaved) => kept[h] <= lastSeen'[h]
    <2> SUFFICES ASSUME NEW h \in Hosts, kept[h] # Absent, h \in follow.desired \/ h \notin unsaved
                 PROVE  kept[h] <= lastSeen'[h]
      OBVIOUS
    <2>1. lastSeen'[h] \in 0 .. Dwell
      BY <1>5, GroupNumbers
    <2>2. CASE kept[h] = 0
      BY <2>1, <2>2, GroupNumbers
    <2>3. CASE kept[h] # 0
      BY <1>2, <1>5, <2>3 DEF GroupsInv, StampsInv
    <2> QED BY <2>2, <2>3
  <1>7. \A h \in follow.seen.members \ effective : h \notin unsaved => lastSeen'[h] = Dwell
    <2> SUFFICES ASSUME NEW h \in follow.seen.members \ effective, h \notin unsaved PROVE lastSeen'[h] = Dwell
      OBVIOUS
    <2>1. file[h] = Dwell /\ file[h] # Absent /\ h \in Hosts /\ h \notin follow.desired
      BY <1>1, <1>2, GroupNumbers
    <2>2. Dwell <= lastSeen[h] /\ lastSeen[h] \in 0 .. Dwell
      BY <1>1, <2>1, GroupNumbers DEF GroupsInv, StampsInv
    <2> QED BY <1>5, <2>1, <2>2, GroupNumbers
  <1>8. CASE same
    <2>1. follow' \in Reconciles /\ follow'.pc = "exit0" /\ follow'.alone = follow.alone /\ follow'.whole = follow.whole
      BY <1>3, <1>8, EndedFollow
    <2>2. Groups!TypeOK'
      BY <1>1, <1>5, <2>1, GroupsTyped
    <2>3. StampsInv'
      BY <1>1, <1>2, <1>3, <1>5, <1>6, <1>8, <2>1 DEF StampsInv
    <2>4. Groups!ConvergedAsDeclared'
      BY <1>1, <1>2, <1>3, <1>4, <1>8, <2>1 DEF Groups!ConvergedAsDeclared, Groups!GovernedByTier, GroupsInv
    <2> QED BY <2>1, <2>2, <2>3, <2>4 DEF GroupsInv
  <1>9. CASE ~same
    <2>1. /\ follow' \in Reconciles /\ follow'.pc = "put" /\ follow'.alone = follow.alone /\ follow'.whole = follow.whole
          /\ follow'.stamps = kept /\ follow'.want = want /\ follow'.seen = follow.seen /\ follow'.desired = follow.desired
      BY <1>1, <1>2, <1>3, <1>4, <1>9 DEF Reconciles
    <2>2. Groups!TypeOK'
      BY <1>1, <1>5, <1>9, <2>1, GroupsTyped
    <2>3. StampsInv'
      <3>1. \A h \in Hosts : file[h] # Absent /\ h \notin unsaved' => file[h] <= lastSeen'[h]
        BY <1>3, <1>5, <1>9 DEF GroupsInv, StampsInv
      <3>2. \A h \in Hosts : kept[h] # Absent /\ (h \in follow.desired \/ h \notin unsaved') => kept[h] <= lastSeen'[h]
        BY <1>3, <1>6, <1>9
      <3> QED BY <1>3, <1>4, <1>7, <1>9, <2>1, <3>1, <3>2 DEF StampsInv
    <2>4. follow.alone /\ follow.whole => WantsRight'
      BY <1>1, <1>2, <1>4, <2>1 DEF GroupsInv, WantsRight
    <2> QED BY <1>1, <2>1, <2>2, <2>3, <2>4 DEF GroupsInv, Groups!ConvergedAsDeclared
  <1> QED BY <1>8, <1>9

LEMMA GroupsPut == GroupsInv /\ Groups!Puts => GroupsInv'
  <1> SUFFICES ASSUME GroupsInv, Groups!Puts PROVE GroupsInv'
    OBVIOUS
  <1>1. /\ follow \in Reconciles /\ UNCHANGED <<placed, tiers, moves, lastSeen, unsaved, file>> /\ follow.pc = "put"
        /\ group' \in {group, follow.want} /\ group' \in Groups!Groups /\ follow.want # follow.seen
    BY DEF GroupsInv, Groups!TypeOK, Groups!Puts, Groups!Rest, Groups!History, Groups!At, Reconciles
  <1>2. CASE follow' = Groups!Ended("exit1") /\ Groups!Fault
    BY <1>1, <1>2, GroupsOver
  <1>3. CASE follow' = [follow EXCEPT !.pc = "confirm"] /\ (UNCHANGED groupFaults \/ Groups!Fault)
    <2>1. /\ follow' \in Reconciles /\ follow'.pc = "confirm" /\ follow'.alone = follow.alone
          /\ follow'.whole = follow.whole /\ follow'.stamps = follow.stamps /\ follow'.want = follow.want
          /\ follow'.seen = follow.seen /\ follow'.desired = follow.desired
      BY <1>1, <1>3 DEF Reconciles
    <2>2. Groups!TypeOK'
      BY <1>1, <1>3, <2>1, GroupsTyped DEF GroupsInv, Groups!TypeOK
    <2>3. StampsInv'
      BY <1>1, <2>1 DEF GroupsInv, StampsInv
    <2>4. WantsRight => WantsRight'
      BY <1>1, <2>1 DEF WantsRight
    <2> QED BY <1>1, <2>1, <2>2, <2>3, <2>4 DEF GroupsInv, Groups!ConvergedAsDeclared
  <1> QED BY <1>2, <1>3 DEF Groups!Puts

LEMMA GroupsConfirmed == GroupsInv /\ Groups!Confirms => GroupsInv'
  <1> SUFFICES ASSUME GroupsInv, Groups!Confirms PROVE GroupsInv'
    OBVIOUS
  <1>1. /\ follow \in Reconciles /\ UNCHANGED <<placed, tiers, moves, lastSeen, unsaved, file, group>>
        /\ follow.pc = "confirm" /\ group \in Groups!Groups
    BY DEF GroupsInv, Groups!TypeOK, Groups!Confirms, Groups!Rest, Groups!History, Groups!At
  <1>2. CASE follow' = Groups!Ended("exit1") /\ (UNCHANGED groupFaults \/ Groups!Fault)
    BY <1>1, <1>2, GroupsOver
  <1>3. CASE follow' = [follow EXCEPT !.pc = "save"] /\ UNCHANGED groupFaults /\ group = follow.want
    <2>1. /\ follow' \in Reconciles /\ follow'.pc = "save" /\ follow'.alone = follow.alone
          /\ follow'.whole = follow.whole /\ follow'.stamps = follow.stamps /\ follow'.want = follow.want
          /\ follow'.seen = follow.seen /\ follow'.desired = follow.desired
      BY <1>1, <1>3 DEF Reconciles
    <2>2. Groups!TypeOK'
      BY <1>1, <1>3, <2>1, GroupsTyped DEF GroupsInv, Groups!TypeOK
    <2>3. StampsInv'
      BY <1>1, <2>1 DEF GroupsInv, StampsInv
    <2>4. WantsRight => WantsRight'
      BY <1>1, <2>1 DEF WantsRight
    <2> QED BY <1>1, <1>3, <2>1, <2>2, <2>3, <2>4 DEF GroupsInv, Groups!ConvergedAsDeclared
  <1> QED BY <1>2, <1>3 DEF Groups!Confirms

LEMMA GroupsSaved == GroupsInv /\ Groups!Saves => GroupsInv'
  <1> SUFFICES ASSUME GroupsInv, Groups!Saves PROVE GroupsInv'
    OBVIOUS
  <1>1. /\ follow \in Reconciles /\ UNCHANGED <<placed, tiers, moves, lastSeen, group>>
        /\ follow.pc = "save" /\ group \in Groups!Groups /\ follow.stamps \in Groups!Stamps
    BY DEF GroupsInv, Groups!TypeOK, Groups!Saves, Groups!Rest, Groups!At, Reconciles
  <1>2. CASE follow' = Groups!Ended("exit1") /\ UNCHANGED <<file, unsaved>> /\ Groups!Fault
    BY <1>1, <1>2, GroupsOver
  <1>3. CASE /\ follow' = Groups!Ended("exit0") /\ file' = follow.stamps /\ unsaved' = unsaved \ follow.desired
             /\ UNCHANGED groupFaults
    <2>1. follow' \in Reconciles /\ follow'.pc = "exit0" /\ follow'.alone = follow.alone /\ follow'.whole = follow.whole
      BY <1>3, EndedFollow
    <2>2. Groups!TypeOK'
      BY <1>1, <1>3, <2>1, GroupsTyped DEF GroupsInv, Groups!TypeOK
    <2>3. StampsInv'
      BY <1>1, <1>3, <2>1 DEF GroupsInv, StampsInv
    <2>4. Groups!ConvergedAsDeclared'
      BY <1>1, <1>3, <2>1 DEF GroupsInv, WantsRight, Groups!ConvergedAsDeclared, Groups!GovernedByTier
    <2> QED BY <2>1, <2>2, <2>3, <2>4 DEF GroupsInv
  <1> QED BY <1>2, <1>3 DEF Groups!Saves

LEMMA GroupsStep == GroupsInv /\ Groups!Next => GroupsInv'
  BY GroupsTick, GroupsMoved, GroupsBegin, GroupsRead, GroupsPlanned, GroupsPut, GroupsConfirmed, GroupsSaved
     DEF Groups!Next, Groups!Step

\* A PUT takes out nothing that was seen within the window, but for a sight that was not saved.
LEMMA GroupsHold == GroupsInv => Groups!Holds
  <1> SUFFICES ASSUME GroupsInv, Groups!Puts, NEW h \in follow.seen.members \ group'.members, h \in group.members \ unsaved
               PROVE  lastSeen[h] = Dwell
    BY DEF Groups!Holds
  <1>1. follow.pc = "put" /\ group' \in {group, follow.want}
    BY DEF Groups!Puts, Groups!At
  <1>2. h \in follow.seen.members \ follow.want.members
    BY <1>1
  <1> QED BY <1>1, <1>2 DEF GroupsInv, StampsInv

-----------------------------------------------------------------------------
(* Proofs about the super metrics. *)

LEMMA EstateNumbers ==
  /\ PageSize \in Nat /\ MaxId \in Nat /\ MaxTeardowns \in Nat /\ MaxFaults \in Nat /\ MaxOthers \in Nat
  /\ Declared # {} /\ Declared \subseteq Estate!Names /\ Absent \notin Estate!SuperMetric
  BY ContentAssumption DEF Estate!EstateAssumption, Estate!Names, Estate!SuperMetric

\* Sets of ids can be counted.
LEMMA IdsCounted ==
  ASSUME NEW T \in SUBSET Estate!Ids, NEW S \in SUBSET T
  PROVE  /\ IsFiniteSet(T) /\ Cardinality(T) \in Nat /\ Cardinality(S) \in Nat /\ Cardinality(S) <= Cardinality(T)
         /\ Cardinality(S) = Cardinality(T) => S = T
  <1>1. IsFiniteSet(1 .. MaxId)
    BY FS_Interval, EstateNumbers
  <1>2. IsFiniteSet(T)
    BY <1>1, FS_Subset DEF Estate!Ids
  <1>3. IsFiniteSet(S) /\ Cardinality(S) <= Cardinality(T) /\ (Cardinality(S) = Cardinality(T) => S = T)
    BY <1>2, FS_Subset
  <1> QED BY <1>2, <1>3, FS_CardinalityType

LEMMA CardinalityIs == \A S : Estate!Cardinality(S) = Cardinality(S)
  BY DEF Estate!Cardinality, Cardinality

\* A page is all there is when what there is fits on it.
LEMMA PageIsWhole ==
  ASSUME NEW shown \in Estate!Pages, Cardinality(Estate!Live) <= PageSize
  PROVE  shown = Estate!Live
  <1>1. Estate!Live \in SUBSET Estate!Ids /\ shown \in SUBSET Estate!Live
    BY DEF Estate!Live, Estate!Pages
  <1>2. Cardinality(shown) = PageSize \/ shown = Estate!Live
    BY CardinalityIs DEF Estate!Pages
  <1>3. Cardinality(shown) <= Cardinality(Estate!Live) /\ Cardinality(shown) \in Nat /\ Cardinality(Estate!Live) \in Nat
    BY <1>1, IdsCounted
  <1> QED BY <1>1, <1>2, <1>3, IdsCounted, EstateNumbers

\* The record of a run that begins, and of one that never was.
LEMMA FreshTool ==
  ASSUME NEW s \in {"converge", "dryRun", "teardown"}
  PROVE  /\ \A t \in {Estate!Fresh(s), [Estate!Fresh(s) EXCEPT !.pc = "idle"]} :
              /\ t \in Tools /\ t.script = s /\ t.todo = Declared /\ t.id = 0 /\ t.top = 0 /\ ~t.alone /\ ~t.checked /\ ~t.deleted
              /\ \A n \in Declared : t.plan[n].id = 0 /\ t.plan[n].do = "absent"
         /\ Estate!Fresh(s).pc = "list" /\ [Estate!Fresh(s) EXCEPT !.pc = "idle"].pc = "idle"
  <1> DEFINE name == CHOOSE n \in Declared : TRUE
             plan == [n \in Declared |-> [do |-> "absent", id |-> 0]]
             base == [pc |-> "list", script |-> s, plan |-> plan, todo |-> Declared, name |-> name, id |-> 0,
                      failed |-> FALSE, deleted |-> FALSE, wrote |-> FALSE, alone |-> FALSE, checked |-> FALSE, top |-> 0]
             never == [base EXCEPT !.pc = "idle"]
  <1>1. name \in Declared
    BY EstateNumbers
  <1> HIDE DEF name
  <1>2. /\ plan \in [Declared -> [do : {"create", "unchanged", "update", "absent", "delete"}, id : 0 .. MaxId]]
        /\ \A n \in Declared : plan[n].id = 0 /\ plan[n].do = "absent"
    BY EstateNumbers
  <1>3. Estate!Fresh(s) = base
    BY DEF Estate!Fresh, name
  <1> HIDE DEF plan
  <1>4. base \in Tools /\ never \in Tools
    BY <1>1, <1>2, EstateNumbers DEF Tools
  <1>5. \A t \in {base, never} :
          /\ t.script = s /\ t.todo = Declared /\ t.id = 0 /\ t.top = 0 /\ ~t.alone /\ ~t.checked /\ ~t.deleted
          /\ \A n \in Declared : t.plan[n].id = 0 /\ t.plan[n].do = "absent"
    BY <1>2
  <1>6. base.pc = "list" /\ never.pc = "idle"
    OBVIOUS
  <1> HIDE DEF base
  <1>7. [Estate!Fresh(s) EXCEPT !.pc = "idle"] = never
    BY <1>3
  <1> HIDE DEF never
  <1> QED BY <1>3, <1>4, <1>5, <1>6, <1>7

\* A run that others have disturbed promises nothing.
LEMMA EstateDisturbed == EstateShape' /\ ~tool'.alone => EstateInv'
  BY DEF EstateInv, Estate!AdoptsOrCreatesOne, Estate!ConvergedAsDeclared, Estate!TornDownIsGone, Estate!Over

\* What the types come down to once the run is known to be one.
LEMMA EstateTyped ==
  ASSUME tool' \in Tools, estate' \in [Estate!Ids -> Estate!SuperMetric \cup {Absent}], minted' \in 0 .. MaxId,
         Estate!Live' \subseteq 1 .. minted', desired' \in [Declared -> Contents], late' \subseteq Estate!Write,
         tool'.pc = "each" => tool'.script # "dryRun", tool'.id <= minted', tool'.top <= minted',
         \A n \in Declared : tool'.plan[n].id <= minted',
         teardowns' \in 0 .. MaxTeardowns, estateFaults' \in 0 .. MaxFaults, estateOthers' \in 0 .. MaxOthers
  PROVE  Estate!TypeOK'
  <1>1. tool'.plan \in [Declared -> [do : {"create", "unchanged", "update", "absent", "delete"}, id : 0 .. minted']]
    <2>1. tool'.plan \in [Declared -> [do : {"create", "unchanged", "update", "absent", "delete"}, id : 0 .. MaxId]]
      BY DEF Tools
    <2>2. ASSUME NEW n \in Declared
          PROVE  tool'.plan[n] \in [do : {"create", "unchanged", "update", "absent", "delete"}, id : 0 .. minted']
      <3>1. tool'.plan[n] \in [do : {"create", "unchanged", "update", "absent", "delete"}, id : 0 .. MaxId]
        BY <2>1
      <3>2. tool'.plan[n].id \in 0 .. minted'
        BY <3>1, EstateNumbers
      <3> QED BY <3>1, <3>2
    <2> QED BY <2>1, <2>2
  <1>2. tool'.id \in 0 .. minted' /\ tool'.top \in 0 .. minted' /\ \A i \in Estate!Live' : i <= minted'
    BY EstateNumbers DEF Tools
  <1>3. /\ tool'.pc \in {"idle", "list", "each", "readBack", "readAgain"} \cup Estate!Exits
        /\ tool'.script \in {"converge", "dryRun", "teardown"} /\ tool'.todo \subseteq Declared /\ tool'.name \in Declared
        /\ {tool'.failed, tool'.deleted, tool'.wrote, tool'.alone, tool'.checked} \subseteq BOOLEAN
    BY DEF Tools, Estate!Exits
  <1> QED BY <1>1, <1>2, <1>3 DEF Estate!TypeOK

LEMMA EstateStart == Estate!Init => EstateInv
  <1> SUFFICES ASSUME Estate!Init PROVE EstateInv
    OBVIOUS
  <1>1. /\ tool \in Tools /\ tool.pc = "idle" /\ tool.script = "converge" /\ tool.id = 0 /\ tool.top = 0 /\ ~tool.alone
        /\ ~tool.checked /\ ~tool.deleted /\ \A n \in Declared : tool.plan[n].id = 0 /\ tool.plan[n].do = "absent"
    BY FreshTool DEF Estate!Init
  <1>2. Estate!TypeOK
    <2>1. tool.plan \in [Declared -> [do : {"create", "unchanged", "update", "absent", "delete"}, id : 0 .. minted]]
      <3>1. tool.plan \in [Declared -> [do : {"create", "unchanged", "update", "absent", "delete"}, id : 0 .. MaxId]]
        BY <1>1 DEF Tools
      <3> QED BY <1>1, <3>1, EstateNumbers DEF Estate!Init
    <2>2. /\ tool.todo \subseteq Declared /\ tool.name \in Declared
          /\ {tool.failed, tool.deleted, tool.wrote, tool.alone, tool.checked} \subseteq BOOLEAN
      BY <1>1 DEF Tools
    <2>3. Estate!Live = {} /\ estate \in [Estate!Ids -> Estate!SuperMetric \cup {Absent}]
      BY DEF Estate!Init, Estate!Live
    <2> QED BY <1>1, <2>1, <2>2, <2>3, EstateNumbers DEF Estate!Init, Estate!TypeOK
  <1> QED BY <1>1, <1>2 DEF EstateInv, EstateShape, Estate!Init, Estate!AdoptsOrCreatesOne, Estate!ConvergedAsDeclared,
       Estate!TornDownIsGone, Estate!Over

-----------------------------------------------------------------------------
(* The super metrics: what everybody else does, and how a run begins and ends. *)

LEMMA EstateFault == EstateInv /\ (Estate!Fault \/ UNCHANGED estateFaults) => estateFaults' \in 0 .. MaxFaults
  BY EstateNumbers DEF EstateInv, EstateShape, Estate!TypeOK, Estate!Fault

\* What a state of the estate has, field by field.
LEMMA EstateHas ==
  ASSUME EstateInv
  PROVE  /\ tool \in Tools /\ estate \in [Estate!Ids -> Estate!SuperMetric \cup {Absent}] /\ minted \in 0 .. MaxId
         /\ desired \in [Declared -> Contents] /\ late \subseteq Estate!Write
         /\ tool.id <= minted /\ tool.top <= minted /\ tool.id \in Nat /\ tool.top \in Nat
         /\ Estate!Live \subseteq 1 .. minted
         /\ \A n \in Declared : tool.plan[n].id \in 0 .. minted
         /\ teardowns \in 0 .. MaxTeardowns /\ estateFaults \in 0 .. MaxFaults /\ estateOthers \in 0 .. MaxOthers
         /\ tool.pc = "each" => tool.script # "dryRun"
         /\ tool.todo \subseteq Declared
  <1>1. /\ tool \in Tools /\ estate \in [Estate!Ids -> Estate!SuperMetric \cup {Absent}] /\ minted \in 0 .. MaxId
        /\ desired \in [Declared -> Contents] /\ late \subseteq Estate!Write
        /\ {tool.id, tool.top} \subseteq 0 .. minted /\ \A i \in Estate!Live : i <= minted
        /\ tool.plan \in [Declared -> [do : {"create", "unchanged", "update", "absent", "delete"}, id : 0 .. minted]]
        /\ teardowns \in 0 .. MaxTeardowns /\ estateFaults \in 0 .. MaxFaults /\ estateOthers \in 0 .. MaxOthers
        /\ tool.pc = "each" => tool.script # "dryRun"
        /\ tool.todo \subseteq Declared
    BY DEF EstateInv, EstateShape, Estate!TypeOK
  <1>2. \A n \in Declared : tool.plan[n].id \in 0 .. minted
    BY <1>1
  <1>3. tool.id <= minted /\ tool.top <= minted /\ tool.id \in Nat /\ tool.top \in Nat
    BY <1>1
  <1>4. Estate!Live \subseteq 1 .. minted
    BY <1>1 DEF Estate!Live, Estate!Ids
  <1> QED BY <1>1, <1>2, <1>3, <1>4

LEMMA EstateOthers ==
  ASSUME EstateInv, Estate!Disturbs, estate' \in [Estate!Ids -> Estate!SuperMetric \cup {Absent}],
         minted' \in minted .. MaxId, Estate!Live' \subseteq 1 .. minted', desired' \in [Declared -> Contents],
         late' \subseteq late, estateOthers' \in 0 .. MaxOthers, UNCHANGED <<teardowns, estateFaults>>
  PROVE  EstateInv'
  <1>1. /\ tool' \in Tools /\ ~tool'.alone /\ tool'.pc = tool.pc /\ tool'.script = tool.script /\ tool'.plan = tool.plan
        /\ tool'.id = tool.id /\ tool'.top = tool.top /\ tool'.deleted = tool.deleted /\ tool'.checked = tool.checked
        /\ tool'.todo = tool.todo
    BY EstateHas DEF Estate!Disturbs, Tools
  <1>2. minted \in 0 .. MaxId /\ minted' \in 0 .. MaxId /\ minted <= minted'
    BY EstateHas, EstateNumbers
  <1>3. tool'.id <= minted' /\ tool'.top <= minted' /\ \A n \in Declared : tool'.plan[n].id <= minted'
    BY <1>1, <1>2, EstateHas
  <1>4. Estate!TypeOK'
    BY <1>1, <1>2, <1>3, EstateHas, EstateTyped
  <1>5. EstateShape'
    BY <1>1, <1>4 DEF EstateInv, EstateShape
  <1> QED BY <1>1, <1>5, EstateDisturbed

\* An object that is made by anybody.
LEMMA EstateGrows ==
  ASSUME EstateInv, minted < MaxId, minted' = minted + 1, NEW m \in Estate!SuperMetric,
         estate' = [estate EXCEPT ![minted + 1] = m]
  PROVE  /\ estate' \in [Estate!Ids -> Estate!SuperMetric \cup {Absent}] /\ minted' \in minted .. MaxId
         /\ minted + 1 \in Estate!Ids /\ minted + 1 \notin Estate!Live /\ estate'[minted + 1] = m
         /\ \A i \in Estate!Ids \ {minted + 1} : estate'[i] = estate[i]
         /\ Estate!Live' = Estate!Live \cup {minted + 1}
         /\ Estate!Live' \subseteq 1 .. minted'
  <1>1. minted + 1 \in Estate!Ids /\ minted \in Nat /\ minted' \in minted .. MaxId
    BY EstateHas, EstateNumbers DEF Estate!Ids
  <1>2. minted + 1 \notin Estate!Live
    BY <1>1, EstateHas
  <1>3. /\ estate' \in [Estate!Ids -> Estate!SuperMetric \cup {Absent}] /\ estate'[minted + 1] = m
        /\ \A i \in Estate!Ids \ {minted + 1} : estate'[i] = estate[i]
    BY <1>1, EstateHas
  <1>4. Estate!Live' = Estate!Live \cup {minted + 1}
    BY <1>1, <1>3, EstateNumbers DEF Estate!Live, Estate!Ids
  <1>5. Estate!Live' \subseteq 1 .. minted'
    BY <1>1, <1>4, EstateHas
  <1> QED BY <1>1, <1>2, <1>3, <1>4, <1>5

\* One that is changed, or taken away.
LEMMA EstateAlters ==
  ASSUME EstateInv, UNCHANGED minted, NEW i \in Estate!Live, NEW m \in Estate!SuperMetric \cup {Absent},
         estate' = [estate EXCEPT ![i] = m]
  PROVE  /\ estate' \in [Estate!Ids -> Estate!SuperMetric \cup {Absent}] /\ minted' \in minted .. MaxId
         /\ estate'[i] = m /\ \A j \in Estate!Ids \ {i} : estate'[j] = estate[j]
         /\ Estate!Live' = IF m = Absent THEN Estate!Live \ {i} ELSE Estate!Live
         /\ Estate!Live' \subseteq 1 .. minted'
  <1>1. i \in Estate!Ids
    BY DEF Estate!Live
  <1>2. /\ estate' \in [Estate!Ids -> Estate!SuperMetric \cup {Absent}] /\ estate'[i] = m
        /\ \A j \in Estate!Ids \ {i} : estate'[j] = estate[j]
    BY <1>1, EstateHas
  <1>3. Estate!Live' = IF m = Absent THEN Estate!Live \ {i} ELSE Estate!Live
    BY <1>1, <1>2 DEF Estate!Live, Estate!Ids
  <1> QED BY <1>2, <1>3, EstateHas

LEMMA EstateElsewhere == EstateInv /\ Estate!OthersAct => EstateInv'
  <1> SUFFICES ASSUME EstateInv, Estate!OthersAct PROVE EstateInv'
    OBVIOUS
  <1>1. /\ Estate!Disturbs /\ UNCHANGED <<desired, late, teardowns, estateFaults>>
        /\ estateOthers < MaxOthers /\ estateOthers' = estateOthers + 1
    BY DEF Estate!OthersAct
  <1>2. estateOthers' \in 0 .. MaxOthers /\ desired' \in [Declared -> Contents] /\ late' \subseteq late
    BY <1>1, EstateHas, EstateNumbers
  <1>3. ASSUME minted < MaxId, minted' = minted + 1, NEW n \in Estate!Names, NEW c \in Contents,
               estate' = [estate EXCEPT ![minted + 1] = [name |-> n, content |-> c, by |-> "others"]]
        PROVE  EstateInv'
    <2>1. [name |-> n, content |-> c, by |-> "others"] \in Estate!SuperMetric
      BY DEF Estate!SuperMetric
    <2> QED BY <1>1, <1>2, <1>3, <2>1, EstateGrows, EstateOthers
  <1>4. ASSUME UNCHANGED minted, NEW i \in Estate!Live, NEW m \in Estate!SuperMetric \cup {Absent},
               estate' = [estate EXCEPT ![i] = m]
        PROVE  EstateInv'
    BY <1>1, <1>2, <1>4, EstateAlters, EstateOthers
  <1>5. ASSUME UNCHANGED minted, NEW i \in Estate!Live,
               \/ \E c \in Contents : estate' = [estate EXCEPT ![i].content = c]
               \/ \E n \in Estate!Names : estate' = [estate EXCEPT ![i].name = n]
               \/ estate' = [estate EXCEPT ![i] = Absent]
        PROVE  EstateInv'
    <2>1. estate[i] \in Estate!SuperMetric
      BY EstateHas DEF Estate!Live
    <2>2. \A c \in Contents : [estate[i] EXCEPT !.content = c] \in Estate!SuperMetric
      BY <2>1 DEF Estate!SuperMetric
    <2>3. \A n \in Estate!Names : [estate[i] EXCEPT !.name = n] \in Estate!SuperMetric
      BY <2>1 DEF Estate!SuperMetric
    <2>4. \E m \in Estate!SuperMetric \cup {Absent} : estate' = [estate EXCEPT ![i] = m]
      BY <1>5, <2>2, <2>3
    <2> QED BY <1>4, <1>5, <2>4
  <1> QED BY <1>3, <1>5 DEF Estate!OthersAct

LEMMA EstateEdited == EstateInv /\ Estate!Edits => EstateInv'
  <1> SUFFICES ASSUME EstateInv, Estate!Edits PROVE EstateInv'
    OBVIOUS
  <1>1. /\ Estate!Disturbs /\ UNCHANGED <<estate, minted, late, teardowns, estateFaults, estateOthers>>
        /\ desired' \in [Declared -> Contents]
    BY DEF Estate!Edits
  <1>2. minted' \in minted .. MaxId /\ Estate!Live' = Estate!Live
    BY <1>1, EstateHas DEF Estate!Live
  <1> QED BY <1>1, <1>2, EstateHas, EstateOthers

LEMMA EstateLanded == EstateInv /\ Estate!Lands => EstateInv'
  <1> SUFFICES ASSUME EstateInv, NEW w \in late, late' = late \ {w}, Estate!Disturbs,
                      IF w.id = 0 /\ minted < MaxId THEN estate' = Estate!Made(w.name, w.content) /\ minted' = minted + 1
                      ELSE /\ UNCHANGED minted
                           /\ estate' = IF w.id \notin Estate!Live THEN estate
                                        ELSE IF w.content = Absent THEN [estate EXCEPT ![w.id] = Absent]
                                        ELSE Estate!Put(w.id, w.name, w.content),
                      UNCHANGED <<desired, teardowns, estateFaults, estateOthers>>
               PROVE  EstateInv'
    BY DEF Estate!Lands
  <1>1. w \in Estate!Write /\ late' \subseteq late /\ (w.id = 0 => w.content \in Contents)
    BY EstateHas DEF EstateInv, EstateShape
  <1>2. w.name \in Declared /\ w.content \in Contents \cup {Absent} /\ w.name \in Estate!Names
    BY <1>1, EstateNumbers DEF Estate!Write
  <1>3. \A c \in Contents, by \in {"tool", "others"} : [name |-> w.name, content |-> c, by |-> by] \in Estate!SuperMetric
    BY <1>2 DEF Estate!SuperMetric
  <1>4. CASE w.id = 0 /\ minted < MaxId
    <2>1. [name |-> w.name, content |-> w.content, by |-> "tool"] \in Estate!SuperMetric
      BY <1>1, <1>3, <1>4
    <2> QED BY <1>1, <1>4, <2>1, EstateGrows, EstateHas, EstateOthers DEF Estate!Made
  <1>5. CASE ~(w.id = 0 /\ minted < MaxId) /\ w.id \notin Estate!Live
    <2>1. UNCHANGED <<estate, minted>> /\ Estate!Live' = Estate!Live /\ minted' \in minted .. MaxId
      BY <1>5, EstateHas DEF Estate!Live
    <2> QED BY <1>1, <2>1, EstateHas, EstateOthers
  <1>6. CASE w.id \in Estate!Live
    <2>1. w.id # 0 /\ estate[w.id] \in Estate!SuperMetric
      BY <1>6, EstateHas DEF Estate!Live
    <2>2. \E m \in Estate!SuperMetric \cup {Absent} : estate' = [estate EXCEPT ![w.id] = m]
      <3>1. CASE w.content = Absent
        BY <1>6, <2>1, <3>1
      <3>2. CASE w.content # Absent
        <4>1. estate' = [estate EXCEPT ![w.id] = [name |-> w.name, content |-> w.content, by |-> estate[w.id].by]]
          BY <1>6, <2>1, <3>2 DEF Estate!Put
        <4>2. [name |-> w.name, content |-> w.content, by |-> estate[w.id].by] \in Estate!SuperMetric
          BY <1>2, <2>1, <3>2 DEF Estate!SuperMetric
        <4> QED BY <4>1, <4>2
      <3> QED BY <3>1, <3>2
    <2>3. UNCHANGED minted
      BY <2>1
    <2> QED BY <1>1, <1>6, <2>2, <2>3, EstateAlters, EstateHas, EstateOthers
  <1> QED BY <1>4, <1>5, <1>6

LEMMA EstateBegin ==
  ASSUME EstateInv, NEW s \in {"converge", "dryRun", "teardown"}, Estate!Starts(s)
  PROVE  EstateInv'
  <1>1. /\ tool' \in Tools /\ tool'.pc = "list" /\ tool'.todo = Declared /\ tool'.script = s /\ tool'.id = 0 /\ tool'.top = 0 /\ ~tool'.alone
        /\ ~tool'.checked /\ ~tool'.deleted /\ \A n \in Declared : tool'.plan[n].id = 0 /\ tool'.plan[n].do = "absent"
    BY FreshTool DEF Estate!Starts
  <1>2. /\ UNCHANGED <<estate, minted, desired, late, estateFaults, estateOthers>> /\ teardowns' \in 0 .. MaxTeardowns
        /\ Estate!Live' = Estate!Live
    BY EstateHas, EstateNumbers DEF Estate!Starts, Estate!Live
  <1>3. Estate!TypeOK'
    BY <1>1, <1>2, EstateHas, EstateTyped
  <1>4. EstateShape'
    BY <1>1, <1>2, <1>3 DEF EstateInv, EstateShape
  <1> QED BY <1>1, <1>4, EstateDisturbed

\* A run that is over and tells nothing but its exit.
LEMMA EstateOver ==
  ASSUME EstateInv, NEW code \in Estate!Exits, UNCHANGED <<estate, minted, desired, teardowns, estateOthers>>,
         estateFaults' \in 0 .. MaxFaults, late' \subseteq Estate!Write,
         \A w \in late' : w.id = 0 => w.content \in Contents,
         NEW checked \in BOOLEAN, tool' \in Tools, tool'.pc = code, tool'.script = tool.script, tool'.plan = tool.plan,
         tool'.id = tool.id, tool'.top = tool.top, tool'.deleted = tool.deleted, tool'.alone = tool.alone
  PROVE  /\ EstateShape' /\ Estate!AdoptsOrCreatesOne' /\ Estate!Live' = Estate!Live
         /\ \A n \in Declared : Estate!Named(n)' = Estate!Named(n)
  <1>1. Estate!Live' = Estate!Live /\ \A n \in Declared : Estate!Named(n)' = Estate!Named(n)
    BY DEF Estate!Live, Estate!Named
  <1>2. tool'.pc # "each"
    BY DEF Estate!Exits
  <1>3. Estate!TypeOK'
    BY <1>1, <1>2, EstateHas, EstateTyped
  <1>4. EstateShape'
    BY <1>3 DEF EstateInv, EstateShape, Estate!Exits
  <1>5. Estate!AdoptsOrCreatesOne'
    BY <1>1, CardinalityIs DEF EstateInv, Estate!AdoptsOrCreatesOne
  <1> QED BY <1>1, <1>4, <1>5

LEMMA EstateDied == EstateInv /\ Estate!Dies => EstateInv'
  <1> SUFFICES ASSUME EstateInv, Estate!Dies PROVE EstateInv'
    OBVIOUS
  <1>1. /\ tool' = [tool EXCEPT !.pc = "exit1"] /\ UNCHANGED <<estate, minted, desired, teardowns, estateOthers>>
        /\ estateFaults' \in 0 .. MaxFaults
    BY EstateFault DEF Estate!Dies
  <1>2. /\ tool' \in Tools /\ tool'.pc = "exit1" /\ tool'.script = tool.script /\ tool'.plan = tool.plan
        /\ tool'.id = tool.id /\ tool'.top = tool.top /\ tool'.deleted = tool.deleted /\ tool'.alone = tool.alone
    BY <1>1, EstateHas DEF Tools
  <1>3. late' \subseteq Estate!Write /\ \A w \in late' : w.id = 0 => w.content \in Contents
    <2>1. late \subseteq Estate!Write /\ \A w \in late : w.id = 0 => w.content \in Contents
      BY EstateHas DEF EstateInv, EstateShape
    <2>2. ASSUME NEW n \in Declared, NEW c \in Contents \cup {Absent}, c \in Contents \/ tool.plan[n].do = "delete",
                 late' = late \cup {[id |-> tool.plan[n].id, name |-> n, content |-> c]}
          PROVE  late' \subseteq Estate!Write /\ \A w \in late' : w.id = 0 => w.content \in Contents
      <3>1. tool.plan[n].id \in 0 .. MaxId
        BY EstateHas, EstateNumbers
      <3>2. [id |-> tool.plan[n].id, name |-> n, content |-> c] \in Estate!Write
        BY <3>1 DEF Estate!Write
      <3>3. tool.plan[n].id = 0 => c \in Contents
        BY <2>2 DEF EstateInv, EstateShape
      <3> QED BY <2>1, <2>2, <3>2, <3>3
    <2>3. CASE UNCHANGED late
      BY <2>1, <2>3
    <2>4. ASSUME NEW n \in tool.todo,
                 \/ late' = late \cup {[id |-> tool.plan[n].id, name |-> n, content |-> desired[n]]}
                 \/ /\ tool.plan[n].do = "delete"
                    /\ late' = late \cup {[id |-> tool.plan[n].id, name |-> n, content |-> Absent]}
          PROVE  late' \subseteq Estate!Write /\ \A w \in late' : w.id = 0 => w.content \in Contents
      <3>1. n \in Declared /\ desired[n] \in Contents
        BY EstateHas
      <3> QED BY <2>2, <2>4, <3>1
    <2> QED BY <2>3, <2>4 DEF Estate!Dies, Estate!Turn
  <1>4. EstateShape' /\ Estate!AdoptsOrCreatesOne'
    BY <1>1, <1>2, <1>3, EstateOver DEF Estate!Exits
  <1> QED BY <1>2, <1>4 DEF EstateInv, Estate!ConvergedAsDeclared, Estate!TornDownIsGone, Estate!Over

LEMMA EstateEnded == EstateInv /\ Estate!Ends => EstateInv'
  <1> SUFFICES ASSUME EstateInv, Estate!Ends PROVE EstateInv'
    OBVIOUS
  <1>1. /\ tool.pc = "each" /\ tool.todo = {}
        /\ UNCHANGED <<estate, minted, desired, late, teardowns, estateFaults, estateOthers>>
        /\ tool' = [tool EXCEPT !.pc = IF tool.deleted THEN "readAgain" ELSE IF tool.failed THEN "exit1" ELSE "exit0"]
    BY DEF Estate!Ends, Estate!At, Estate!Looks, Estate!Verdict
  <1>2. /\ tool' \in Tools /\ tool'.script = tool.script /\ tool'.plan = tool.plan /\ tool'.checked = tool.checked
        /\ tool'.id = tool.id /\ tool'.top = tool.top /\ tool'.deleted = tool.deleted /\ tool'.alone = tool.alone
        /\ tool'.pc = IF tool.deleted THEN "readAgain" ELSE IF tool.failed THEN "exit1" ELSE "exit0"
    BY <1>1, EstateHas DEF Tools
  <1>3. ~tool.checked
    BY <1>1 DEF EstateInv, EstateShape, Estate!Exits
  <1>4. Estate!Live' = Estate!Live /\ \A n \in Declared : Estate!Named(n)' = Estate!Named(n)
    BY <1>1 DEF Estate!Live, Estate!Named
  <1>5. Estate!TypeOK'
    BY <1>1, <1>2, <1>4, EstateHas, EstateTyped
  <1>6. EstateShape'
    BY <1>1, <1>2, <1>3, <1>5 DEF EstateInv, EstateShape, Estate!Exits
  <1>7. Estate!AdoptsOrCreatesOne'
    BY <1>1, <1>2, <1>4, CardinalityIs DEF EstateInv, Estate!AdoptsOrCreatesOne
  <1>8. Estate!ConvergedAsDeclared'
    <2> SUFFICES ASSUME tool'.script = "converge", tool'.pc = "exit0", tool'.alone, NEW n \in Declared
                 PROVE  \E i \in Estate!Named(n) : estate[i].content = desired[n]
      BY <1>1, <1>4 DEF Estate!ConvergedAsDeclared, Estate!Over, Estate!AsDeclared
    <2> QED BY <1>1, <1>2 DEF EstateInv, ConvergedSoFar, Stands
  <1> QED BY <1>1, <1>2, <1>3, <1>6, <1>7, <1>8 DEF EstateInv, Estate!TornDownIsGone, Estate!Over

LEMMA EstateReadAgain == EstateInv /\ Estate!ReadsAgain => EstateInv'
  <1> SUFFICES ASSUME EstateInv, Estate!ReadsAgain PROVE EstateInv'
    OBVIOUS
  <1>1. /\ tool.pc = "readAgain" /\ tool.script = "teardown"
        /\ UNCHANGED <<estate, minted, desired, late, teardowns, estateOthers>> /\ estateFaults' \in 0 .. MaxFaults
    BY EstateFault DEF Estate!ReadsAgain, Estate!At, Estate!Rest, EstateInv, EstateShape
  <1>2. ASSUME NEW bad \in BOOLEAN, NEW checked \in BOOLEAN, tool' \in Tools,
               tool'.pc = IF bad THEN "exit1" ELSE "exit0", tool'.checked = checked, tool'.script = tool.script,
               tool'.plan = tool.plan, tool'.id = tool.id, tool'.top = tool.top, tool'.deleted = tool.deleted,
               tool'.alone = tool.alone,
               ~bad /\ checked => \E shown \in Estate!Pages : \A n \in Declared : Estate!Named(n) \cap shown = {}
        PROVE  EstateInv'
    <2>1. tool'.pc \in Estate!Exits /\ late' \subseteq Estate!Write /\ \A w \in late' : w.id = 0 => w.content \in Contents
      BY <1>1, <1>2 DEF Estate!Exits, EstateInv, EstateShape, Estate!TypeOK
    <2>2. /\ EstateShape' /\ Estate!AdoptsOrCreatesOne' /\ Estate!Live' = Estate!Live
          /\ \A n \in Declared : Estate!Named(n)' = Estate!Named(n)
      BY <1>1, <1>2, <2>1, EstateOver
    <2>3. Estate!TornDownIsGone'
      <3> SUFFICES ASSUME tool'.pc = "exit0", tool'.checked, Cardinality(Estate!Live) <= PageSize, NEW n \in Declared
                   PROVE  Estate!Named(n) = {}
        BY <2>2, CardinalityIs DEF Estate!TornDownIsGone, Estate!Over
      <3>1. PICK shown \in Estate!Pages : Estate!Named(n) \cap shown = {}
        BY <1>2
      <3>2. shown = Estate!Live
        BY PageIsWhole
      <3> QED BY <3>1, <3>2 DEF Estate!Named
    <2> QED BY <1>1, <1>2, <2>2, <2>3 DEF EstateInv, Estate!ConvergedAsDeclared, Estate!Over
  <1>3. ASSUME NEW shown \in Estate!Pages,
               tool' = [tool EXCEPT !.checked = TRUE,
                         !.pc = Estate!Verdict(tool.failed \/ \E n \in Declared : Estate!Named(n) \cap shown # {})]
        PROVE  EstateInv'
    <2> DEFINE bad == tool.failed \/ \E n \in Declared : Estate!Named(n) \cap shown # {}
    <2>1. bad \in BOOLEAN /\ (~bad => \A n \in Declared : Estate!Named(n) \cap shown = {})
      BY EstateHas DEF Tools
    <2>2. tool' = [tool EXCEPT !.checked = TRUE, !.pc = IF bad THEN "exit1" ELSE "exit0"]
      BY <1>3 DEF Estate!Verdict
    <2> HIDE DEF bad
    <2>3. /\ tool' \in Tools /\ tool'.script = tool.script /\ tool'.plan = tool.plan /\ tool'.checked = TRUE
          /\ tool'.id = tool.id /\ tool'.top = tool.top /\ tool'.deleted = tool.deleted /\ tool'.alone = tool.alone
          /\ tool'.pc = IF bad THEN "exit1" ELSE "exit0"
      BY <2>2, EstateHas DEF Tools
    <2> QED BY <1>2, <2>1, <2>3
  <1>4. CASE tool' = [tool EXCEPT !.pc = Estate!Verdict(tool.failed)]
    <2> DEFINE bad == tool.failed
    <2>1. bad \in BOOLEAN /\ tool.checked = FALSE
      BY <1>1, EstateHas DEF Tools, EstateInv, EstateShape, Estate!Exits
    <2>2. tool' = [tool EXCEPT !.pc = IF bad THEN "exit1" ELSE "exit0"]
      BY <1>4 DEF Estate!Verdict
    <2> HIDE DEF bad
    <2>3. /\ tool' \in Tools /\ tool'.script = tool.script /\ tool'.plan = tool.plan /\ tool'.checked = FALSE
          /\ tool'.id = tool.id /\ tool'.top = tool.top /\ tool'.deleted = tool.deleted /\ tool'.alone = tool.alone
          /\ tool'.pc = IF bad THEN "exit1" ELSE "exit0"
      BY <2>1, <2>2, EstateHas DEF Tools
    <2> QED BY <1>2, <2>1, <2>3
  <1> QED BY <1>3, <1>4 DEF Estate!ReadsAgain

\* What a run makes of the page it has listed.
LEMMA ListingIs ==
  ASSUME EstateInv, NEW found \in Estate!Listings
  PROVE  LET plan == [n \in Declared |-> [do |-> Estate!Plan(tool.script, n, found[n]), id |-> found[n]]] IN
         /\ plan \in [Declared -> [do : {"create", "unchanged", "update", "absent", "delete"}, id : 0 .. MaxId]]
         /\ \A n \in Declared :
              /\ plan[n].id \in 0 .. minted /\ (plan[n].id # 0 => plan[n].id \in Estate!Named(n))
              /\ plan[n].id = 0 /\ Cardinality(Estate!Live) <= PageSize => Estate!Named(n) = {}
              /\ plan[n].do = "delete" => plan[n].id # 0 /\ tool.script = "teardown"
              /\ IF tool.script = "teardown" THEN plan[n].do \in {"absent", "delete"}
                 ELSE /\ plan[n].do \in {"create", "unchanged", "update"} /\ (plan[n].do = "create" <=> plan[n].id = 0)
                      /\ plan[n].do = "unchanged" => estate[plan[n].id].content = desired[n]
  <1> DEFINE plan == [n \in Declared |-> [do |-> Estate!Plan(tool.script, n, found[n]), id |-> found[n]]]
  <1>1. PICK shown \in Estate!Pages : \A n \in Declared :
          IF Estate!Named(n) \cap shown = {} THEN found[n] = 0 ELSE found[n] \in Estate!Named(n) \cap shown
    BY DEF Estate!Listings
  <1>2. found \in [Declared -> 0 .. MaxId]
    BY DEF Estate!Listings
  <1>3. ASSUME NEW n \in Declared
        PROVE  /\ found[n] \in 0 .. minted /\ (found[n] # 0 => found[n] \in Estate!Named(n))
               /\ found[n] = 0 /\ Cardinality(Estate!Live) <= PageSize => Estate!Named(n) = {}
    <2>1. \A i \in Estate!Named(n) : i \in 1 .. minted
      BY EstateHas DEF Estate!Named
    <2>2. found[n] \in 0 .. minted /\ (found[n] # 0 => found[n] \in Estate!Named(n))
      BY <1>1, <2>1, EstateHas
    <2>3. ASSUME found[n] = 0, Cardinality(Estate!Live) <= PageSize
          PROVE  Estate!Named(n) = {}
      <3>1. shown = Estate!Live /\ Estate!Named(n) \subseteq Estate!Live
        BY <2>3, PageIsWhole DEF Estate!Named
      <3>2. Estate!Named(n) \cap shown = {}
        BY <1>1, <2>1, <2>3
      <3> QED BY <3>1, <3>2
    <2> QED BY <2>2, <2>3
  <1>4. \A n \in Declared :
          LET do == Estate!Plan(tool.script, n, found[n]) IN
          /\ do \in {"create", "unchanged", "update", "absent", "delete"} /\ (do = "delete" => found[n] # 0 /\ tool.script = "teardown")
          /\ IF tool.script = "teardown" THEN do \in {"absent", "delete"}
             ELSE /\ do \in {"create", "unchanged", "update"} /\ (do = "create" <=> found[n] = 0)
                  /\ do = "unchanged" => estate[found[n]].content = desired[n]
    BY DEF Estate!Plan
  <1>5. plan \in [Declared -> [do : {"create", "unchanged", "update", "absent", "delete"}, id : 0 .. MaxId]]
    BY <1>2, <1>4
  <1> QED BY <1>3, <1>4, <1>5

LEMMA EstateListed == EstateInv /\ Estate!Lists => EstateInv'
  <1> SUFFICES ASSUME EstateInv, Estate!Lists PROVE EstateInv'
    OBVIOUS
  <1>1. /\ tool.pc = "list" /\ UNCHANGED <<estate, minted, desired, late, teardowns, estateFaults, estateOthers>>
    BY DEF Estate!Lists, Estate!At, Estate!Looks
  <1>2. PICK found \in Estate!Listings :
          tool' = [tool EXCEPT !.pc = IF tool.script = "dryRun" THEN "exit0" ELSE "each", !.alone = TRUE, !.top = minted,
                    !.plan = [n \in Declared |-> [do |-> Estate!Plan(tool.script, n, found[n]), id |-> found[n]]]]
    BY DEF Estate!Lists
  <1> DEFINE plan == [n \in Declared |-> [do |-> Estate!Plan(tool.script, n, found[n]), id |-> found[n]]]
  <1>3. /\ plan \in [Declared -> [do : {"create", "unchanged", "update", "absent", "delete"}, id : 0 .. MaxId]]
        /\ \A n \in Declared :
             /\ plan[n].id \in 0 .. minted /\ (plan[n].id # 0 => plan[n].id \in Estate!Named(n))
             /\ plan[n].id = 0 /\ Cardinality(Estate!Live) <= PageSize => Estate!Named(n) = {}
             /\ plan[n].do = "delete" => plan[n].id # 0 /\ tool.script = "teardown"
             /\ IF tool.script = "teardown" THEN plan[n].do \in {"absent", "delete"}
                ELSE /\ plan[n].do \in {"create", "unchanged", "update"} /\ (plan[n].do = "create" <=> plan[n].id = 0)
                     /\ plan[n].do = "unchanged" => estate[plan[n].id].content = desired[n]
    BY ListingIs
  <1>4. /\ tool' = [tool EXCEPT !.pc = IF tool.script = "dryRun" THEN "exit0" ELSE "each", !.alone = TRUE, !.top = minted,
                     !.plan = plan]
    BY <1>2
  <1> HIDE DEF plan
  <1>5. /\ tool' \in Tools /\ tool'.script = tool.script /\ tool'.plan = plan /\ tool'.checked = tool.checked
        /\ tool'.id = tool.id /\ tool'.top = minted /\ tool'.deleted = tool.deleted /\ tool'.alone = TRUE
        /\ tool'.todo = tool.todo /\ tool'.pc = IF tool.script = "dryRun" THEN "exit0" ELSE "each"
    BY <1>3, <1>4, EstateHas DEF Tools
  <1>6. Estate!Live' = Estate!Live /\ \A n \in Declared : Estate!Named(n)' = Estate!Named(n)
    BY <1>1 DEF Estate!Live, Estate!Named
  <1>7. /\ tool'.top <= minted /\ tool'.id <= minted /\ \A n \in Declared : tool'.plan[n].id <= minted
        /\ tool'.pc = "each" => tool'.script # "dryRun"
    BY <1>3, <1>5, EstateHas
  <1>8. Estate!TypeOK'
    BY <1>1, <1>5, <1>6, <1>7, EstateHas, EstateTyped
  <1>9. EstateShape'
    BY <1>1, <1>3, <1>5, <1>8 DEF EstateInv, EstateShape, Estate!Exits
  <1>10. tool'.script = "converge" => ConvergedSoFar'
    <2> SUFFICES ASSUME tool.script = "converge" PROVE ConvergedSoFar'
      BY <1>5
    <2>1. tool'.todo = Declared
      BY <1>1, <1>5 DEF EstateInv, EstateShape
    <2> QED BY <1>1, <1>3, <1>5, <1>6, <2>1 DEF ConvergedSoFar
  <1>11. Estate!AdoptsOrCreatesOne'
    <2> SUFFICES ASSUME tool.script = "converge", Cardinality(Estate!Live) <= PageSize, NEW n \in Declared
                 PROVE  LET new == {i \in Estate!Named(n) : i > minted}
                            old == {i \in Estate!Named(n) : i <= minted} IN
                        IF plan[n].id = 0 THEN old = {} /\ Cardinality(new) <= 1 ELSE new = {} /\ plan[n].id \in old
      BY <1>5, <1>6, CardinalityIs DEF Estate!AdoptsOrCreatesOne
    <2>0. Cardinality(Estate!Live) <= PageSize
      OBVIOUS
    <2>1. \A i \in Estate!Named(n) : i \in 1 .. minted /\ i <= minted /\ ~(i > minted)
      BY EstateHas DEF Estate!Named
    <2>2. {i \in Estate!Named(n) : i > minted} = {} /\ {i \in Estate!Named(n) : i <= minted} = Estate!Named(n)
      BY <2>1
    <2>3. Cardinality({}) <= 1
      BY FS_EmptySet
    <2>4. plan[n].id # 0 => plan[n].id \in Estate!Named(n)
      BY <1>3
    <2>5. plan[n].id = 0 => Estate!Named(n) = {}
      BY <1>3, <2>0
    <2> QED BY <2>2, <2>3, <2>4, <2>5
  <1>12. tool'.pc # "exit0" \/ tool'.script = "dryRun"
    BY <1>5
  <1> QED BY <1>9, <1>10, <1>11, <1>12 DEF EstateInv, Estate!ConvergedAsDeclared, Estate!TornDownIsGone, Estate!Over

-----------------------------------------------------------------------------
(* The super metrics: one name after the other. *)

LEMMA EstateDone ==
  ASSUME EstateInv, NEW n \in Declared, NEW bad \in BOOLEAN, Estate!Done(n, bad),
         tool.pc = "each" \/ (tool.pc = "readBack" /\ n = tool.name),
         UNCHANGED <<estate, minted>>, Estate!Rest, estateFaults' \in 0 .. MaxFaults,
         tool.script = "converge" /\ tool.alone /\ ~bad => Stands(n)
  PROVE  EstateInv'
  <1>1. UNCHANGED <<estate, minted, desired, late, teardowns, estateOthers>>
    BY DEF Estate!Rest
  <1>2. (tool.failed \/ bad) \in BOOLEAN /\ tool.failed \in BOOLEAN
    BY EstateHas DEF Tools
  <1> DEFINE failed == tool.failed \/ bad
  <1>3. tool' = [tool EXCEPT !.todo = @ \ {n}, !.failed = failed, !.pc = "each"]
    BY DEF Estate!Done
  <1>4. failed \in BOOLEAN /\ (~failed => ~tool.failed /\ ~bad)
    BY <1>2
  <1> HIDE DEF failed
  <1>5. /\ tool' \in Tools /\ tool'.script = tool.script /\ tool'.plan = tool.plan /\ tool'.checked = tool.checked
        /\ tool'.id = tool.id /\ tool'.top = tool.top /\ tool'.deleted = tool.deleted /\ tool'.alone = tool.alone
        /\ tool'.todo = tool.todo \ {n} /\ tool'.pc = "each" /\ tool'.failed = failed
    BY <1>3, <1>4, EstateHas DEF Tools
  <1>6. Estate!Live' = Estate!Live /\ \A m \in Declared : Estate!Named(m)' = Estate!Named(m)
    BY <1>1 DEF Estate!Live, Estate!Named
  <1>7. tool.script # "dryRun"
    BY EstateHas DEF EstateInv, EstateShape
  <1>8. Estate!TypeOK'
    BY <1>1, <1>5, <1>6, <1>7, EstateHas, EstateTyped
  <1>9. EstateShape'
    BY <1>1, <1>5, <1>8 DEF EstateInv, EstateShape, Estate!Exits
  <1>10. Estate!AdoptsOrCreatesOne'
    BY <1>1, <1>5, <1>6, CardinalityIs DEF EstateInv, Estate!AdoptsOrCreatesOne
  <1>11. tool'.alone /\ tool'.script = "converge" => ConvergedSoFar'
    <2> SUFFICES ASSUME tool.alone, tool.script = "converge" PROVE ConvergedSoFar'
      BY <1>5
    <2>1. ConvergedSoFar
      BY DEF EstateInv
    <2>2. ASSUME ~tool'.failed, NEW m \in Declared \ tool'.todo PROVE Stands(m)'
      <3>1. Stands(m)' <=> Stands(m)
        BY <1>1, <1>6 DEF Stands
      <3>2. CASE m = n
        BY <1>4, <1>5, <2>2, <3>1, <3>2
      <3>3. CASE m # n
        BY <1>4, <1>5, <2>1, <2>2, <3>1, <3>3 DEF ConvergedSoFar
      <3> QED BY <3>2, <3>3
    <2>3. /\ \A m \in Declared :
               /\ tool'.plan[m].do \in {"create", "unchanged", "update"}
               /\ tool'.plan[m].do = "create" <=> tool'.plan[m].id = 0
          /\ \A m \in tool'.todo :
               /\ tool'.plan[m].id # 0 => tool'.plan[m].id \in Estate!Named(m)'
               /\ tool'.plan[m].do = "unchanged" => estate'[tool'.plan[m].id].content = desired'[m]
               /\ tool'.plan[m].id = 0 /\ Cardinality(Estate!Live') <= PageSize => Estate!Named(m)' = {}
      BY <1>1, <1>5, <1>6, <2>1, EstateHas DEF ConvergedSoFar
    <2> QED BY <1>5, <2>2, <2>3 DEF ConvergedSoFar
  <1> QED BY <1>5, <1>9, <1>10, <1>11 DEF EstateInv, Estate!ConvergedAsDeclared, Estate!TornDownIsGone, Estate!Over, Estate!Exits,
       EstateShape

LEMMA EstatePassed ==
  ASSUME EstateInv, NEW n \in Declared, Estate!Passes(n)
  PROVE  EstateInv'
  <1>1. /\ tool.pc = "each" /\ n \in tool.todo /\ tool.plan[n].do \in {"unchanged", "absent"} /\ Estate!Done(n, FALSE)
        /\ UNCHANGED <<estate, minted, estateFaults>> /\ Estate!Rest
    BY DEF Estate!Passes, Estate!Turn, Estate!At, Estate!Looks, Estate!Rest
  <1>2. tool.script = "converge" /\ tool.alone => Stands(n)
    BY <1>1 DEF EstateInv, ConvergedSoFar, Stands
  <1> QED BY <1>1, <1>2, EstateHas, EstateDone

LEMMA EstateRefused ==
  ASSUME EstateInv, NEW n \in Declared, Estate!Refused(n)
  PROVE  EstateInv'
  <1>1. tool.pc = "each" /\ Estate!Done(n, TRUE) /\ UNCHANGED <<estate, minted>> /\ Estate!Rest
    BY DEF Estate!Refused, Estate!Turn, Estate!At
  <1>2. estateFaults' \in 0 .. MaxFaults
    BY EstateFault DEF Estate!Refused
  <1> QED BY <1>1, <1>2, EstateDone

LEMMA EstateReadBack == EstateInv /\ Estate!ReadsBack => EstateInv'
  <1> SUFFICES ASSUME EstateInv, Estate!ReadsBack PROVE EstateInv'
    OBVIOUS
  <1> DEFINE good == tool.id \in Estate!Named(tool.name) /\ estate[tool.id].content = desired[tool.name]
  <1>1. tool.pc = "readBack" /\ UNCHANGED <<estate, minted>> /\ Estate!Rest /\ tool.name \in Declared
    BY EstateHas DEF Estate!ReadsBack, Estate!At, Tools
  <1>2. estateFaults' \in 0 .. MaxFaults
    BY EstateFault DEF Estate!ReadsBack
  <1>3. good => Stands(tool.name)
    BY DEF Stands
  <1>4. CASE Estate!Done(tool.name, ~good)
    <2>1. (~good) \in BOOLEAN /\ (~(~good) => Stands(tool.name))
      BY <1>3
    <2> HIDE DEF good
    <2> QED BY <1>1, <1>2, <1>4, <2>1, EstateDone
  <1>5. CASE Estate!Done(tool.name, TRUE)
    BY <1>1, <1>2, <1>5, EstateDone
  <1> QED BY <1>4, <1>5 DEF Estate!ReadsBack

\* A write was sent for n and the run waits to read it back.  What there is of each other name stays as it is; of n there
\* is what was listed, or the one that was made.
LEMMA EstateWrote ==
  ASSUME EstateInv, NEW n \in tool.todo, tool.pc = "each", tool.script = "converge", Estate!Rest,
         estateFaults' \in 0 .. MaxFaults, NEW i \in 0 .. MaxId, i <= minted', Estate!Wrote(n, i),
         estate' \in [Estate!Ids -> Estate!SuperMetric \cup {Absent}], minted' \in minted .. MaxId,
         Estate!Live' \subseteq 1 .. minted', Estate!Live \subseteq Estate!Live',
         tool.alone => \A m \in Declared \ {n} :
           Estate!Named(m)' = Estate!Named(m) /\ \A j \in Estate!Named(m) : estate'[j] = estate[j],
         tool.alone => \/ Estate!Named(n)' = Estate!Named(n)
                       \/ /\ tool.plan[n].id = 0 /\ minted + 1 \notin Estate!Live
                          /\ Estate!Named(n)' = Estate!Named(n) \cup {minted + 1}
  PROVE  EstateInv'
  <1>1. UNCHANGED <<desired, late, teardowns, estateOthers>>
    BY DEF Estate!Rest
  <1>2. /\ tool' \in Tools /\ tool'.script = tool.script /\ tool'.plan = tool.plan /\ tool'.checked = tool.checked
        /\ tool'.id = i /\ tool'.top = tool.top /\ tool'.deleted = tool.deleted /\ tool'.alone = tool.alone
        /\ tool'.todo = tool.todo \ {n} /\ tool'.pc = "readBack" /\ tool'.failed = tool.failed /\ tool'.name = n
    BY EstateHas DEF Tools, Estate!Wrote
  <1>3. minted \in 0 .. MaxId /\ minted' \in 0 .. MaxId /\ minted <= minted' /\ n \in Declared
    BY EstateHas, EstateNumbers
  <1>4. tool'.id <= minted' /\ tool'.top <= minted' /\ \A m \in Declared : tool'.plan[m].id <= minted'
    BY <1>2, <1>3, EstateHas
  <1>5. Estate!TypeOK'
    BY <1>1, <1>2, <1>3, <1>4, EstateHas, EstateTyped
  <1>6. EstateShape'
    BY <1>1, <1>2, <1>5 DEF EstateInv, EstateShape, Estate!Exits
  <1>7. Cardinality(Estate!Live') <= PageSize => Cardinality(Estate!Live) <= PageSize
    <2>1. Estate!Live' \in SUBSET Estate!Ids /\ Estate!Live \in SUBSET Estate!Live'
      BY DEF Estate!Live, Estate!Ids
    <2>2. /\ Cardinality(Estate!Live) <= Cardinality(Estate!Live')
          /\ Cardinality(Estate!Live) \in Nat /\ Cardinality(Estate!Live') \in Nat
      BY <2>1, IdsCounted
    <2> QED BY <2>2, EstateNumbers
  <1>8. ASSUME tool.alone PROVE ConvergedSoFar' /\ Estate!AdoptsOrCreatesOne'
    <2>1. /\ ConvergedSoFar
          /\ Cardinality(Estate!Live) <= PageSize =>
               \A m \in Declared :
                 LET new == {j \in Estate!Named(m) : j > tool.top}
                     old == {j \in Estate!Named(m) : j <= tool.top} IN
                 IF tool.plan[m].id = 0 THEN old = {} /\ Cardinality(new) <= 1 ELSE new = {} /\ tool.plan[m].id \in old
      BY <1>8, CardinalityIs DEF EstateInv, Estate!AdoptsOrCreatesOne
    <2>2. \A m \in Declared \ {n} :
            Estate!Named(m)' = Estate!Named(m) /\ \A j \in Estate!Named(m) : estate'[j] = estate[j]
      BY <1>8
    <2>3. \A m \in Declared :
            /\ tool'.plan[m].do \in {"create", "unchanged", "update"}
            /\ tool'.plan[m].do = "create" <=> tool'.plan[m].id = 0
      BY <1>2, <2>1 DEF ConvergedSoFar
    <2>4. ASSUME NEW m \in tool'.todo
          PROVE  /\ tool'.plan[m].id # 0 => tool'.plan[m].id \in Estate!Named(m)'
                 /\ tool'.plan[m].do = "unchanged" => estate'[tool'.plan[m].id].content = desired'[m]
                 /\ tool'.plan[m].id = 0 /\ Cardinality(Estate!Live') <= PageSize => Estate!Named(m)' = {}
      <3>1. m \in Declared \ {n} /\ m \in tool.todo
        BY <1>2, EstateHas
      <3>2. /\ tool.plan[m].id # 0 => tool.plan[m].id \in Estate!Named(m)
            /\ tool.plan[m].do = "unchanged" => tool.plan[m].id # 0 /\ estate[tool.plan[m].id].content = desired[m]
            /\ tool.plan[m].id = 0 /\ Cardinality(Estate!Live) <= PageSize => Estate!Named(m) = {}
        BY <2>1, <3>1 DEF ConvergedSoFar
      <3> QED BY <1>1, <1>2, <1>7, <2>2, <3>1, <3>2
    <2>5. ASSUME ~tool'.failed, NEW m \in Declared \ (tool'.todo \cup {tool'.name}) PROVE Stands(m)'
      <3>1. m \in Declared \ {n} /\ m \notin tool.todo
        BY <1>2, <2>5
      <3>2. Stands(m)
        BY <1>2, <2>1, <2>5, <3>1 DEF ConvergedSoFar
      <3> QED BY <1>1, <2>2, <3>1, <3>2 DEF Stands
    <2>6. ConvergedSoFar'
      BY <1>2, <2>3, <2>4, <2>5 DEF ConvergedSoFar
    <2>7. Estate!AdoptsOrCreatesOne'
      <3> SUFFICES ASSUME Cardinality(Estate!Live') <= PageSize, NEW m \in Declared
                   PROVE  LET new == {j \in Estate!Named(m)' : j > tool.top}
                              old == {j \in Estate!Named(m)' : j <= tool.top} IN
                          IF tool.plan[m].id = 0 THEN old = {} /\ Cardinality(new) <= 1
                          ELSE new = {} /\ tool.plan[m].id \in old
        BY <1>2, CardinalityIs DEF Estate!AdoptsOrCreatesOne
      <3>1. LET new == {j \in Estate!Named(m) : j > tool.top}
                old == {j \in Estate!Named(m) : j <= tool.top} IN
            IF tool.plan[m].id = 0 THEN old = {} /\ Cardinality(new) <= 1 ELSE new = {} /\ tool.plan[m].id \in old
        BY <1>7, <2>1
      <3>2. CASE Estate!Named(m)' = Estate!Named(m)
        BY <3>1, <3>2
      <3>3. CASE m = n /\ tool.plan[n].id = 0 /\ Estate!Named(n)' = Estate!Named(n) \cup {minted + 1}
        <4>1. Estate!Named(n) = {}
          BY <1>7, <2>1, <3>3 DEF ConvergedSoFar
        <4>2. minted + 1 > tool.top /\ ~(minted + 1 <= tool.top)
          BY <1>3, EstateHas
        <4>3. {j \in Estate!Named(m)' : j > tool.top} = {minted + 1} /\ {j \in Estate!Named(m)' : j <= tool.top} = {}
          BY <3>3, <4>1, <4>2
        <4>4. Cardinality({minted + 1}) <= 1
          <5>1. Cardinality({minted + 1}) = 1
            BY FS_Singleton
          <5> QED BY <5>1
        <4> QED BY <3>3, <4>3, <4>4
      <3> QED BY <1>8, <2>2, <3>2, <3>3
    <2> QED BY <2>6, <2>7
  <1>9. Estate!AdoptsOrCreatesOne'
    <2>1. ~tool'.alone => Estate!AdoptsOrCreatesOne'
      BY DEF Estate!AdoptsOrCreatesOne
    <2> QED BY <1>2, <1>8, <2>1
  <1> QED BY <1>2, <1>6, <1>8, <1>9 DEF EstateInv, Estate!ConvergedAsDeclared, Estate!TornDownIsGone, Estate!Over

LEMMA EstateCreated ==
  ASSUME EstateInv, NEW n \in Declared, Estate!Creates(n)
  PROVE  EstateInv'
  <1>1. /\ tool.pc = "each" /\ n \in tool.todo /\ tool.plan[n].do = "create" /\ minted < MaxId /\ Estate!Rest
    BY DEF Estate!Creates, Estate!Turn, Estate!At
  <1>2. estateFaults' \in 0 .. MaxFaults
    BY EstateFault DEF Estate!Creates
  <1>3. tool.script = "converge"
    <2>1. tool.script # "teardown" /\ tool.script # "dryRun" /\ tool.script \in {"converge", "dryRun", "teardown"}
      BY <1>1, EstateHas DEF EstateInv, EstateShape, Tools
    <2> QED BY <2>1
  <1>4. minted + 1 \in 0 .. MaxId /\ minted \in Nat
    BY <1>1, EstateHas, EstateNumbers
  <1>5. ASSUME NEW c \in Contents, Estate!Wrote(n, minted + 1), minted' = minted + 1, estate' = Estate!Made(n, c)
        PROVE  EstateInv'
    <2> DEFINE m == [name |-> n, content |-> c, by |-> "tool"]
    <2>1. m \in Estate!SuperMetric /\ m.name = n
      BY EstateNumbers DEF Estate!SuperMetric
    <2>2. estate' = [estate EXCEPT ![minted + 1] = m]
      BY <1>5 DEF Estate!Made
    <2> HIDE DEF m
    <2>3. /\ estate' \in [Estate!Ids -> Estate!SuperMetric \cup {Absent}] /\ minted' \in minted .. MaxId
          /\ minted + 1 \in Estate!Ids /\ minted + 1 \notin Estate!Live /\ estate'[minted + 1] = m
          /\ \A i \in Estate!Ids \ {minted + 1} : estate'[i] = estate[i]
          /\ Estate!Live' = Estate!Live \cup {minted + 1}
          /\ Estate!Live' \subseteq 1 .. minted'
      BY <1>1, <1>5, <2>1, <2>2, EstateGrows
    <2>4. \A i \in Estate!Live : i \in Estate!Ids \ {minted + 1} /\ estate'[i] = estate[i]
      BY <2>3 DEF Estate!Live
    <2>5. \A l \in Declared \ {n} :
            Estate!Named(l)' = Estate!Named(l) /\ \A j \in Estate!Named(l) : estate'[j] = estate[j]
      BY <2>1, <2>3, <2>4 DEF Estate!Named
    <2>6. Estate!Named(n)' = Estate!Named(n) \cup {minted + 1}
      BY <2>1, <2>3, <2>4 DEF Estate!Named
    <2>7. tool.alone => tool.plan[n].id = 0
      BY <1>1, <1>3 DEF EstateInv, ConvergedSoFar
    <2> QED BY <1>1, <1>2, <1>3, <1>4, <1>5, <2>3, <2>5, <2>6, <2>7, EstateWrote
  <1>6. CASE Estate!Wrote(n, 0) /\ UNCHANGED <<estate, minted>>
    <2>1. Estate!Live' = Estate!Live /\ \A m \in Declared : Estate!Named(m)' = Estate!Named(m)
      BY <1>6 DEF Estate!Live, Estate!Named
    <2>2. 0 \in 0 .. MaxId /\ 0 <= minted' /\ minted' \in minted .. MaxId
      BY <1>4, <1>6, EstateHas, EstateNumbers
    <2> QED BY <1>1, <1>2, <1>3, <1>6, <2>1, <2>2, EstateHas, EstateWrote
  <1>7. desired[n] \in Contents
    BY EstateHas
  <1> QED BY <1>5, <1>6, <1>7 DEF Estate!Creates

LEMMA EstateUpdated ==
  ASSUME EstateInv, NEW n \in Declared, Estate!Updates(n)
  PROVE  EstateInv'
  <1> DEFINE i == tool.plan[n].id
  <1>1. tool.pc = "each" /\ n \in tool.todo /\ tool.plan[n].do = "update" /\ UNCHANGED minted /\ Estate!Rest
    BY DEF Estate!Updates, Estate!Turn, Estate!At
  <1>2. estateFaults' \in 0 .. MaxFaults
    BY EstateFault DEF Estate!Updates
  <1>3. tool.script = "converge"
    <2>1. tool.script # "teardown" /\ tool.script # "dryRun" /\ tool.script \in {"converge", "dryRun", "teardown"}
      BY <1>1, EstateHas DEF EstateInv, EstateShape, Tools
    <2> QED BY <2>1
  <1>4. i \in 0 .. MaxId /\ i <= minted' /\ minted' \in minted .. MaxId
    BY <1>1, EstateHas, EstateNumbers
  <1>5. tool.alone => i \in Estate!Named(n)
    BY <1>1, <1>3 DEF EstateInv, ConvergedSoFar
  <1>6. ASSUME NEW c \in Contents, i \in Estate!Live, Estate!Wrote(n, i), estate' = Estate!Put(i, n, c)
        PROVE  EstateInv'
    <2> DEFINE m == [name |-> n, content |-> c, by |-> estate[i].by]
    <2>1. m \in Estate!SuperMetric /\ m.name = n
      <3>1. estate[i] \in Estate!SuperMetric
        BY <1>6, EstateHas DEF Estate!Live
      <3> QED BY <3>1, EstateNumbers DEF Estate!SuperMetric
    <2>2. estate' = [estate EXCEPT ![i] = m]
      BY <1>6 DEF Estate!Put
    <2>3. m # Absent
      BY <2>1, EstateNumbers
    <2> HIDE DEF m
    <2>4. /\ estate' \in [Estate!Ids -> Estate!SuperMetric \cup {Absent}]
          /\ estate'[i] = m /\ \A j \in Estate!Ids \ {i} : estate'[j] = estate[j]
          /\ Estate!Live' = Estate!Live /\ Estate!Live' \subseteq 1 .. minted'
      BY <1>1, <1>6, <2>1, <2>2, <2>3, EstateAlters
    <2>5. ASSUME tool.alone
          PROVE  /\ \A l \in Declared \ {n} :
                      Estate!Named(l)' = Estate!Named(l) /\ \A j \in Estate!Named(l) : estate'[j] = estate[j]
                 /\ Estate!Named(n)' = Estate!Named(n)
      <3>1. estate[i].name = n /\ i \in Estate!Live
        BY <1>5, <2>5 DEF Estate!Named
      <3>2. \A j \in Estate!Live : j \in Estate!Ids /\ estate'[j].name = estate[j].name
        BY <2>1, <2>4, <3>1 DEF Estate!Live
      <3> QED BY <2>4, <3>1, <3>2 DEF Estate!Named
    <2> QED BY <1>1, <1>2, <1>3, <1>4, <1>6, <2>4, <2>5, EstateWrote
  <1>7. CASE Estate!Wrote(n, i) /\ UNCHANGED estate
    <2>1. Estate!Live' = Estate!Live /\ \A m \in Declared : Estate!Named(m)' = Estate!Named(m)
      BY <1>7 DEF Estate!Live, Estate!Named
    <2> QED BY <1>1, <1>2, <1>3, <1>4, <1>7, <2>1, EstateHas, EstateWrote
  <1>8. CASE i \notin Estate!Live /\ Estate!Done(n, TRUE) /\ UNCHANGED estate
    BY <1>1, <1>2, <1>8, EstateDone
  <1>9. desired[n] \in Contents
    BY EstateHas
  <1> QED BY <1>6, <1>7, <1>8, <1>9 DEF Estate!Updates

LEMMA EstateDeleted ==
  ASSUME EstateInv, NEW n \in Declared, Estate!Deletes(n)
  PROVE  EstateInv'
  <1> DEFINE i == tool.plan[n].id
  <1>1. tool.pc = "each" /\ n \in tool.todo /\ tool.plan[n].do = "delete" /\ UNCHANGED minted /\ Estate!Rest
    BY DEF Estate!Deletes, Estate!Turn, Estate!At
  <1>2. estateFaults' \in 0 .. MaxFaults
    BY EstateFault DEF Estate!Deletes
  <1>3. tool.script = "teardown"
    BY <1>1 DEF EstateInv, EstateShape
  <1>4. ASSUME Estate!Deleted(n), estate' \in [Estate!Ids -> Estate!SuperMetric \cup {Absent}],
               Estate!Live' \subseteq 1 .. minted'
        PROVE  EstateInv'
    <2>1. /\ tool' \in Tools /\ tool'.script = tool.script /\ tool'.plan = tool.plan /\ tool'.checked = tool.checked
          /\ tool'.id = tool.id /\ tool'.top = tool.top /\ tool'.deleted /\ tool'.alone = tool.alone
          /\ tool'.pc = "each"
      BY <1>1, <1>4, EstateHas DEF Tools, Estate!Deleted
    <2>2. UNCHANGED <<desired, late, teardowns, estateOthers>>
      BY <1>1 DEF Estate!Rest
    <2>3. Estate!TypeOK'
      BY <1>1, <1>2, <1>3, <1>4, <2>1, <2>2, EstateHas, EstateTyped
    <2>4. EstateShape'
      BY <1>1, <1>3, <2>1, <2>2, <2>3 DEF EstateInv, EstateShape, Estate!Exits
    <2> QED BY <1>3, <2>1, <2>4 DEF EstateInv, Estate!AdoptsOrCreatesOne, Estate!ConvergedAsDeclared, Estate!TornDownIsGone,
         Estate!Over
  <1>5. CASE i \in Estate!Live /\ estate' = [estate EXCEPT ![i] = Absent] /\ Estate!Deleted(n)
    <2>1. estate' \in [Estate!Ids -> Estate!SuperMetric \cup {Absent}] /\ Estate!Live' \subseteq 1 .. minted'
      BY <1>1, <1>5, EstateAlters
    <2> QED BY <1>4, <1>5, <2>1
  <1>6. CASE UNCHANGED estate /\ Estate!Deleted(n)
    <2>1. estate' \in [Estate!Ids -> Estate!SuperMetric \cup {Absent}] /\ Estate!Live' \subseteq 1 .. minted'
      BY <1>1, <1>6, EstateHas DEF Estate!Live
    <2> QED BY <1>4, <1>6, <2>1
  <1>7. CASE UNCHANGED estate /\ Estate!Done(n, TRUE)
    BY <1>1, <1>2, <1>7, EstateDone
  <1> QED BY <1>5, <1>6, <1>7 DEF Estate!Deletes

LEMMA EstateStep == EstateInv /\ Estate!Next => EstateInv'
  BY EstateElsewhere, EstateEdited, EstateLanded, EstateDied, EstateBegin, EstateListed, EstatePassed, EstateRefused,
     EstateCreated, EstateUpdated, EstateReadBack, EstateEnded, EstateDeleted, EstateReadAgain
     DEF Estate!Next, Estate!ToolStep, Estate!Converge

-----------------------------------------------------------------------------
(* Sets of numbers in ascending order, and orders without repetition. *)

LEMMA RankNumbers ==
  /\ Postures \in Nat /\ Postures > 0 /\ Teams \in Nat /\ MaxMoves \in Nat /\ MaxFailures \in Nat
  /\ Ranks!Ours = 1 .. Postures /\ Ranks!Foreign = Postures + 1 .. Postures + Teams /\ Ranks!Target = 1
  /\ Ranks!Policies = 1 .. Postures + Teams /\ Ranks!Ours \cap Ranks!Foreign = {}
  /\ Ranks!Policies = Ranks!Ours \cup Ranks!Foreign /\ Ranks!Target \in Ranks!Ours
  /\ \A S : Ranks!Cardinality(S) = Cardinality(S)
  <1>1. Postures \in Nat /\ Postures > 0 /\ Teams \in Nat /\ MaxMoves \in Nat /\ MaxFailures \in Nat
    BY ContentAssumption DEF Ranks!RankingAssumption
  <1>2. \A S : Ranks!Cardinality(S) = Cardinality(S)
    BY DEF Ranks!Cardinality, Cardinality
  <1> QED BY <1>1, <1>2 DEF Ranks!Ours, Ranks!Foreign, Ranks!Target, Ranks!Policies

\* The sets that are put in order: of policies, and of positions.
LEMMA Counted ==
  ASSUME NEW b \in Nat, NEW S \in SUBSET (1 .. b), NEW T \in SUBSET S
  PROVE  /\ IsFiniteSet(S) /\ IsFiniteSet(T) /\ Cardinality(S) \in Nat /\ Cardinality(T) \in Nat
         /\ Cardinality(S) <= b /\ Cardinality(T) <= Cardinality(S) /\ (Cardinality(T) = Cardinality(S) => T = S)
  <1>1. IsFiniteSet(1 .. b) /\ Cardinality(1 .. b) = b
    BY FS_Interval
  <1>2. IsFiniteSet(S) /\ Cardinality(S) <= b
    BY <1>1, FS_Subset
  <1>3. IsFiniteSet(T) /\ Cardinality(T) <= Cardinality(S) /\ (Cardinality(T) = Cardinality(S) => T = S)
    BY <1>2, FS_Subset
  <1> QED BY <1>2, <1>3, FS_CardinalityType

\* How many of S are no greater than x: a numbering of S from 1 up that keeps the order.
Numbering(S) == [x \in S |-> Cardinality({y \in S : y <= x})]

LEMMA Numbered ==
  ASSUME NEW b \in Nat, NEW S \in SUBSET (1 .. b)
  PROVE  LET r == Numbering(S) IN
         /\ r \in [S -> 1 .. Cardinality(S)] /\ \A x, y \in S : x < y => r[x] < r[y]
         /\ \A k \in 1 .. Cardinality(S) : \E x \in S : r[x] = k
  <1> DEFINE r == Numbering(S)
             below(x) == {y \in S : y <= x}
  <1>1. ASSUME NEW x \in S PROVE r[x] = Cardinality(below(x)) /\ r[x] \in 1 .. Cardinality(S)
    <2>1. r[x] = Cardinality(below(x))
      BY DEF Numbering
    <2>2. below(x) \in SUBSET S /\ x \in below(x) /\ S \in SUBSET (1 .. b)
      OBVIOUS
    <2>3. /\ IsFiniteSet(below(x)) /\ Cardinality(below(x)) \in Nat /\ Cardinality(S) \in Nat
          /\ Cardinality(below(x)) <= Cardinality(S)
      BY <2>2, Counted
    <2>4. Cardinality(below(x)) # 0
      BY <2>2, <2>3, FS_EmptySet
    <2> HIDE DEF r, below
    <2> QED BY <2>1, <2>3, <2>4
  <1>2. ASSUME NEW x \in S, NEW y \in S, x < y PROVE r[x] < r[y]
    <2>0. \A z \in S : z \in Int
      OBVIOUS
    <2>1. below(x) \in SUBSET below(y) /\ y \in below(y) /\ y \notin below(x)
      <3>1. \A z \in S : z <= x => z <= y
        BY <1>2, <2>0
      <3>2. y <= y /\ ~(y <= x)
        BY <1>2, <2>0
      <3> QED BY <3>1, <3>2
    <2>4. below(y) \in SUBSET (1 .. b)
      OBVIOUS
    <2>2. /\ Cardinality(below(x)) \in Nat /\ Cardinality(below(y)) \in Nat
          /\ Cardinality(below(x)) <= Cardinality(below(y)) /\ Cardinality(below(x)) # Cardinality(below(y))
      BY <2>1, <2>4, Counted
    <2>3. r[x] = Cardinality(below(x)) /\ r[y] = Cardinality(below(y))
      BY <1>1
    <2> HIDE DEF r, below
    <2> QED BY <2>2, <2>3
  <1>3. r \in [S -> 1 .. Cardinality(S)]
    <2>1. r = [x \in S |-> r[x]]
      BY DEF Numbering
    <2> QED BY <1>1, <2>1
  <1> HIDE DEF r
  <1>4. IsFiniteSet(S) /\ Cardinality(S) \in Nat
    BY Counted
  <1>5. IsFiniteSet(1 .. Cardinality(S)) /\ Cardinality(1 .. Cardinality(S)) = Cardinality(S)
    BY <1>4, FS_Interval
  <1>6. r \in Injection(S, 1 .. Cardinality(S))
    <2>1. \A x, y \in S : r[x] = r[y] => x = y
      <3> SUFFICES ASSUME NEW x \in S, NEW y \in S, x # y PROVE r[x] # r[y]
        OBVIOUS
      <3>1. x \in Int /\ y \in Int /\ r[x] \in Int /\ r[y] \in Int
        BY <1>3, <1>4
      <3>2. x < y \/ y < x
        BY <3>1
      <3> QED BY <1>2, <3>1, <3>2
    <2> QED BY <1>3, <2>1 DEF Injection, IsInjective
  <1>7. r \in Surjection(S, 1 .. Cardinality(S))
    BY <1>5, <1>6, FS_Injection
  <1>8. \A k \in 1 .. Cardinality(S) : \E x \in S : r[x] = k
    BY <1>7 DEF Surjection
  <1> QED BY <1>2, <1>3, <1>8 DEF r

\* Every set of numbers can be put in ascending order, which names each of them once.
LEMMA AscendingIs ==
  ASSUME NEW b \in Nat, NEW S \in SUBSET (1 .. b)
  PROVE  LET o == Ranks!Ascending(S) IN
         /\ Cardinality(S) \in Nat /\ o \in [1 .. Cardinality(S) -> S]
         /\ \A i, j \in 1 .. Cardinality(S) : i < j => o[i] < o[j]
         /\ \A i, j \in 1 .. Cardinality(S) : o[i] = o[j] => i = j
         /\ \A x \in S : \E i \in 1 .. Cardinality(S) : o[i] = x
  <1> DEFINE n == Cardinality(S)
             r == Numbering(S)
             f == [k \in 1 .. n |-> CHOOSE x \in S : r[x] = k]
             Up(o) == \A i, j \in DOMAIN o : i < j => o[i] < o[j]
             o == Ranks!Ascending(S)
  <1>0. \A x \in S : x \in Int
    OBVIOUS
  <1>1. IsFiniteSet(S) /\ n \in Nat
    BY Counted
  <1>2. /\ r \in [S -> 1 .. n] /\ \A x, y \in S : x < y => r[x] < r[y]
        /\ \A k \in 1 .. n : \E x \in S : r[x] = k
    BY Numbered
  <1>3. Ranks!Ascending(S) = CHOOSE s \in [1 .. n -> S] : Up(s)
    BY RankNumbers DEF Ranks!Ascending
  <1> HIDE DEF n, r
  <1>4. \A k \in 1 .. n : f[k] \in S /\ r[f[k]] = k
    BY <1>2
  <1>5. f \in [1 .. n -> S]
    BY <1>4
  <1>6. Up(f)
    <2> SUFFICES ASSUME NEW i \in 1 .. n, NEW j \in 1 .. n, i < j PROVE f[i] < f[j]
      OBVIOUS
    <2>1. f[i] \in S /\ f[j] \in S /\ r[f[i]] = i /\ r[f[j]] = j
      BY <1>4
    <2> HIDE DEF f
    <2>2. f[i] \in Int /\ f[j] \in Int
      BY <1>0, <2>1
    <2>3. f[i] # f[j] /\ ~(f[j] < f[i])
      BY <1>1, <1>2, <2>1, <2>2
    <2> QED BY <2>2, <2>3
  <1> HIDE DEF f
  <1>7. o \in [1 .. n -> S] /\ Up(o)
    BY <1>3, <1>5, <1>6
  <1> HIDE DEF o
  <1>8. \A i, j \in 1 .. n : i < j => o[i] < o[j]
    BY <1>7
  <1>9. \A i, j \in 1 .. n : o[i] = o[j] => i = j
    <2> SUFFICES ASSUME NEW i \in 1 .. n, NEW j \in 1 .. n, i # j PROVE o[i] # o[j]
      OBVIOUS
    <2>1. o[i] \in Int /\ o[j] \in Int /\ (i < j \/ j < i)
      <3>1. o[i] \in S /\ o[j] \in S
        BY <1>7
      <3>2. i \in Int /\ j \in Int
        BY <1>1
      <3>3. i < j \/ j < i
        BY <3>2
      <3>4. o[i] \in Int /\ o[j] \in Int
        BY <1>0, <3>1
      <3> QED BY <3>3, <3>4
    <2> QED BY <1>8, <2>1
  <1>10. \A x \in S : \E i \in 1 .. n : o[i] = x
    <2>1. o \in Injection(1 .. n, S)
      BY <1>7, <1>9 DEF Injection, IsInjective
    <2>2. Cardinality(1 .. n) = n
      BY <1>1, FS_Interval
    <2>3. o \in Surjection(1 .. n, S)
      BY <1>1, <2>1, <2>2, FS_Injection DEF n
    <2> QED BY <2>3 DEF Surjection
  <1> QED BY <1>1, <1>7, <1>8, <1>9, <1>10 DEF n, o

\* The orders are the sequences of policies without repetition: no such sequence is too long.
LEMMA OrdersAre ==
  \A o : o \in Ranks!Orders <=> o \in Seq(Ranks!Policies) /\ \A i, j \in 1 .. Len(o) : o[i] = o[j] => i = j
  <1> DEFINE b == Postures + Teams
             P == Ranks!Policies
  <1>1. b \in Nat /\ P = 1 .. b
    BY RankNumbers
  <1>2. Ranks!BoundedSeq(P, b) = UNION {[1 .. m -> P] : m \in 0 .. b}
    BY DEF Ranks!BoundedSeq, Ranks!SeqOf
  <1>3. ASSUME NEW o \in Ranks!Orders
        PROVE  o \in Seq(P) /\ \A i, j \in 1 .. Len(o) : o[i] = o[j] => i = j
    <2>1. o \in UNION {[1 .. m -> P] : m \in 0 .. b} /\ Ranks!IsInjective(o)
      BY <1>2, <1>3 DEF Ranks!Orders
    <2>2. PICK m \in 0 .. b : o \in [1 .. m -> P]
      BY <2>1
    <2>3. o \in Seq(P) /\ Len(o) = m /\ DOMAIN o = 1 .. m
      BY <1>1, <2>2
    <2> QED BY <2>1, <2>3 DEF Ranks!IsInjective
  <1>4. ASSUME NEW o \in Seq(P), \A i, j \in 1 .. Len(o) : o[i] = o[j] => i = j
        PROVE  o \in Ranks!Orders
    <2>1. Len(o) \in Nat /\ o \in [1 .. Len(o) -> P] /\ DOMAIN o = 1 .. Len(o)
      BY <1>4
    <2>2. o \in Injection(1 .. Len(o), P)
      BY <1>4, <2>1 DEF Injection, IsInjective
    <2>3. IsFiniteSet(P) /\ Cardinality(P) = b /\ Cardinality(1 .. Len(o)) = Len(o)
      <3>1. IsFiniteSet(1 .. b) /\ Cardinality(1 .. b) = b
        BY <1>1, FS_Interval
      <3>2. Cardinality(1 .. Len(o)) = Len(o)
        BY <2>1, FS_Interval
      <3> QED BY <1>1, <3>1, <3>2
    <2>4. Len(o) <= b
      BY <2>2, <2>3, FS_Injection
    <2>5. o \in UNION {[1 .. m -> P] : m \in 0 .. b}
      BY <1>1, <2>1, <2>4
    <2>6. Ranks!IsInjective(o)
      BY <1>4, <2>1 DEF Ranks!IsInjective
    <2> QED BY <1>2, <2>5, <2>6 DEF Ranks!Orders
  <1> QED BY <1>3, <1>4

LEMMA RangeIs == \A o \in Seq(Ranks!Policies) : Ranks!Range(o) = {o[i] : i \in 1 .. Len(o)}
  BY DEF Ranks!Range

LEMMA InAscendingOrder ==
  ASSUME NEW S \in SUBSET Ranks!Policies
  PROVE  /\ Ranks!Ascending(S) \in Ranks!Orders /\ Ranks!Range(Ranks!Ascending(S)) = S
         /\ Len(Ranks!Ascending(S)) = Cardinality(S) /\ Cardinality(S) \in Nat
  <1> DEFINE o == Ranks!Ascending(S)
             n == Cardinality(S)
             b == Postures + Teams
  <1>1. b \in Nat /\ S \in SUBSET (1 .. b)
    BY RankNumbers
  <1>2. /\ n \in Nat /\ o \in [1 .. n -> S] /\ \A i, j \in 1 .. n : o[i] = o[j] => i = j
        /\ \A x \in S : \E i \in 1 .. n : o[i] = x
    BY <1>1, AscendingIs
  <1> HIDE DEF o, n
  <1>3. o \in Seq(Ranks!Policies) /\ Len(o) = n
    BY <1>2
  <1>4. o \in Ranks!Orders
    BY <1>2, <1>3, OrdersAre
  <1>5. Ranks!Range(o) = S
    <2>1. Ranks!Range(o) = {o[i] : i \in 1 .. n}
      BY <1>3, RangeIs
    <2> QED BY <1>2, <2>1
  <1> QED BY <1>2, <1>3, <1>4, <1>5 DEF o, n

LEMMA KeptIs ==
  ASSUME NEW o \in Ranks!Orders, NEW s
  PROVE  Ranks!Kept(o, s) \in Ranks!Orders /\ Ranks!Range(Ranks!Kept(o, s)) = Ranks!Range(o) \cap s
  <1> DEFINE S == {i \in 1 .. Len(o) : o[i] \in s}
             at == Ranks!Ascending(S)
             n == Cardinality(S)
             kept == [k \in 1 .. n |-> o[at[k]]]
  <1>1. o \in Seq(Ranks!Policies) /\ Len(o) \in Nat /\ \A i, j \in 1 .. Len(o) : o[i] = o[j] => i = j
    BY OrdersAre
  <1>2. S \in SUBSET (1 .. Len(o)) /\ \A i \in S : o[i] \in s /\ i \in 1 .. Len(o)
    OBVIOUS
  <1> HIDE DEF S
  <1>3. /\ n \in Nat /\ at \in [1 .. n -> S] /\ \A i, j \in 1 .. n : at[i] = at[j] => i = j
        /\ \A x \in S : \E i \in 1 .. n : at[i] = x
    BY <1>1, <1>2, AscendingIs
  <1>4. Ranks!Kept(o, s) = kept
    <2>1. DOMAIN o = 1 .. Len(o)
      BY <1>1
    <2>2. DOMAIN at = 1 .. n
      BY <1>3
    <2> QED BY <2>1, <2>2 DEF Ranks!Kept, S
  <1> HIDE DEF at, n
  <1>5. \A k \in 1 .. n : at[k] \in 1 .. Len(o) /\ o[at[k]] \in s /\ o[at[k]] \in Ranks!Policies
    <2>1. \A k \in 1 .. n : at[k] \in S
      BY <1>3
    <2>2. \A i \in 1 .. Len(o) : o[i] \in Ranks!Policies
      BY <1>1
    <2> QED BY <1>2, <2>1, <2>2
  <1>6. kept \in Seq(Ranks!Policies) /\ Len(kept) = n
    BY <1>3, <1>5
  <1>7. \A i, j \in 1 .. n : kept[i] = kept[j] => i = j
    BY <1>1, <1>3, <1>5
  <1>8. kept \in Ranks!Orders
    BY <1>6, <1>7, OrdersAre
  <1>9. Ranks!Range(kept) = Ranks!Range(o) \cap s
    <2>1. \A k \in 1 .. n : kept[k] \in Ranks!Range(o) \cap s
      BY <1>1, <1>5, RangeIs
    <2>2. ASSUME NEW p \in Ranks!Range(o) \cap s PROVE \E k \in 1 .. n : kept[k] = p
      <3>1. PICK i \in 1 .. Len(o) : o[i] = p
        BY <1>1, <2>2, RangeIs
      <3>2. PICK k \in 1 .. n : at[k] = i
        BY <1>3, <2>2, <3>1 DEF S
      <3> QED BY <3>1, <3>2
    <2> HIDE DEF kept
    <2> QED BY <1>6, <2>1, <2>2, RangeIs
  <1> QED BY <1>4, <1>8, <1>9

\* One order into another, after its first a policies.
LEMMA Inserted ==
  ASSUME NEW o \in Ranks!Orders, NEW q \in Ranks!Orders, Ranks!Range(o) \cap Ranks!Range(q) = {}, NEW a \in 0 .. Len(o)
  PROVE  LET r == SubSeq(o, 1, a) \o q \o SubSeq(o, a + 1, Len(o)) IN
         /\ r \in Ranks!Orders /\ Ranks!Range(r) = Ranks!Range(o) \cup Ranks!Range(q)
         /\ Len(r) = Len(o) + Len(q)
         /\ \A i \in 1 .. a : r[i] = o[i]
         /\ \A i \in a + 1 .. Len(o) : r[i + Len(q)] = o[i]
  <1> DEFINE m == Len(o)
             n == Len(q)
             u == SubSeq(o, 1, a)
             w == SubSeq(o, a + 1, Len(o))
             v == u \o q
             r == v \o w
             P == Ranks!Policies
  <1>1. /\ o \in Seq(P) /\ q \in Seq(P) /\ m \in Nat /\ n \in Nat /\ a \in Nat /\ a <= m
        /\ \A i, j \in 1 .. m : o[i] = o[j] => i = j
        /\ \A i, j \in 1 .. n : q[i] = q[j] => i = j
    BY OrdersAre
  <1>2. u \in Seq(P) /\ Len(u) = a /\ \A i \in 1 .. a : u[i] = o[i]
    BY <1>1
  <1>3. w \in Seq(P) /\ Len(w) = m - a /\ \A i \in 1 .. m - a : w[i] = o[a + i]
    BY <1>1
  <1> HIDE DEF u, w, m, n
  <1>4. /\ v \in Seq(P) /\ Len(v) = a + n
        /\ \A i \in 1 .. a + n : v[i] = IF i <= a THEN u[i] ELSE q[i - a]
    <2>0. u \in Seq(P) /\ q \in Seq(P)
      BY <1>1, <1>2
    <2>1. /\ v \in Seq(P) /\ Len(v) = Len(u) + Len(q)
          /\ \A i \in 1 .. Len(u) + Len(q) : v[i] = IF i <= Len(u) THEN u[i] ELSE q[i - Len(u)]
      BY <2>0, ConcatProperties
    <2> HIDE DEF v
    <2> QED BY <1>2, <2>1 DEF n
  <1> HIDE DEF v
  <1>5. /\ r \in Seq(P) /\ Len(r) = m + n
        /\ \A i \in 1 .. m + n : r[i] = IF i <= a + n THEN v[i] ELSE w[i - (a + n)]
    <2>1. (a + n) + (m - a) = m + n
      BY <1>1 DEF m, n
    <2>2. /\ r \in Seq(P) /\ Len(r) = Len(v) + Len(w)
          /\ \A i \in 1 .. Len(v) + Len(w) : r[i] = IF i <= Len(v) THEN v[i] ELSE w[i - Len(v)]
      BY <1>3, <1>4, ConcatProperties
    <2> HIDE DEF r
    <2>3. Len(v) = a + n /\ Len(w) = m - a
      BY <1>3, <1>4
    <2> QED BY <2>1, <2>2, <2>3
  <1>6. \A i \in 1 .. m + n : r[i] = IF i <= a THEN o[i] ELSE IF i <= a + n THEN q[i - a] ELSE o[i - n]
    <2> SUFFICES ASSUME NEW i \in 1 .. m + n
                 PROVE  r[i] = IF i <= a THEN o[i] ELSE IF i <= a + n THEN q[i - a] ELSE o[i - n]
      OBVIOUS
    <2>0. i \in Int
      BY <1>1
    <2>1. CASE i <= a + n
      <3>1. r[i] = v[i] /\ i \in 1 .. a + n
        BY <1>1, <1>5, <2>0, <2>1
      <3>2. v[i] = IF i <= a THEN u[i] ELSE q[i - a]
        BY <1>4, <3>1
      <3> QED BY <1>1, <1>2, <2>0, <2>1, <3>1, <3>2
    <2>2. CASE a + n < i
      <3>1. r[i] = w[i - (a + n)] /\ i - (a + n) \in 1 .. m - a
        BY <1>1, <1>5, <2>0, <2>2
      <3>2. a + (i - (a + n)) = i - n /\ ~(i <= a) /\ ~(i <= a + n)
        BY <1>1, <2>0, <2>2
      <3>3. w[i - (a + n)] = o[a + (i - (a + n))]
        BY <1>3, <3>1
      <3> QED BY <3>1, <3>2, <3>3
    <2>3. i <= a + n \/ a + n < i
      BY <1>1, <2>0
    <2> QED BY <2>1, <2>2, <2>3
  <1> HIDE DEF r
  <1>7. /\ \A i \in 1 .. a : r[i] = o[i] /\ i \in 1 .. m
        /\ \A i \in 1 .. n : r[a + i] = q[i] /\ a + i \in 1 .. m + n
        /\ \A i \in a + 1 .. m : r[i + n] = o[i] /\ i + n \in 1 .. m + n /\ i \in 1 .. m
    <2>1. ASSUME NEW i \in 1 .. a PROVE r[i] = o[i] /\ i \in 1 .. m
      <3>1. i \in 1 .. m + n /\ i <= a /\ i \in 1 .. m
        BY <1>1
      <3> QED BY <1>6, <3>1
    <2>2. ASSUME NEW i \in 1 .. n PROVE r[a + i] = q[i] /\ a + i \in 1 .. m + n
      <3>1. a + i \in 1 .. m + n /\ ~(a + i <= a) /\ a + i <= a + n /\ (a + i) - a = i
        BY <1>1
      <3> QED BY <1>6, <3>1
    <2>3. ASSUME NEW i \in a + 1 .. m PROVE r[i + n] = o[i] /\ i + n \in 1 .. m + n /\ i \in 1 .. m
      <3>1. i + n \in 1 .. m + n /\ ~(i + n <= a) /\ ~(i + n <= a + n) /\ (i + n) - n = i /\ i \in 1 .. m
        BY <1>1
      <3> QED BY <1>6, <3>1
    <2> QED BY <2>1, <2>2, <2>3
  <1>8. /\ Ranks!Range(o) = {o[i] : i \in 1 .. m} /\ Ranks!Range(q) = {q[i] : i \in 1 .. n}
        /\ Ranks!Range(r) = {r[i] : i \in 1 .. m + n}
    BY <1>1, <1>5, RangeIs DEF m, n
  <1>9. \A i \in 1 .. m, j \in 1 .. n : o[i] # q[j]
    BY <1>8
  <1>10. \A i \in 1 .. m + n :
           \/ i <= a /\ i \in 1 .. m /\ r[i] = o[i]
           \/ i > a /\ i <= a + n /\ i - a \in 1 .. n /\ r[i] = q[i - a]
           \/ i > a + n /\ i - n \in 1 .. m /\ i - n > a /\ r[i] = o[i - n]
    <2> SUFFICES ASSUME NEW i \in 1 .. m + n
                 PROVE  \/ i <= a /\ i \in 1 .. m /\ r[i] = o[i]
                        \/ i > a /\ i <= a + n /\ i - a \in 1 .. n /\ r[i] = q[i - a]
                        \/ i > a + n /\ i - n \in 1 .. m /\ i - n > a /\ r[i] = o[i - n]
      OBVIOUS
    <2>1. i \in Int /\ 1 <= i /\ i <= m + n
      BY <1>1
    <2>2. r[i] = IF i <= a THEN o[i] ELSE IF i <= a + n THEN q[i - a] ELSE o[i - n]
      BY <1>6
    <2> QED BY <1>1, <2>1, <2>2
  <1>11. Ranks!Range(r) = Ranks!Range(o) \cup Ranks!Range(q)
    <2>1. \A i \in 1 .. m + n : r[i] \in Ranks!Range(o) \cup Ranks!Range(q)
      BY <1>8, <1>10
    <2>2. \A i \in 1 .. n : q[i] \in Ranks!Range(r)
      BY <1>7, <1>8
    <2>3. \A i \in 1 .. m : o[i] \in Ranks!Range(r)
      <3> SUFFICES ASSUME NEW i \in 1 .. m PROVE o[i] \in Ranks!Range(r)
        OBVIOUS
      <3>1. i \in 1 .. a \/ i \in a + 1 .. m
        BY <1>1
      <3>2. i \in 1 .. a => i \in 1 .. m + n
        BY <1>1
      <3> QED BY <1>7, <1>8, <3>1, <3>2
    <2> QED BY <1>8, <2>1, <2>2, <2>3
  <1>12. \A i, j \in 1 .. m + n : r[i] = r[j] => i = j
    <2> SUFFICES ASSUME NEW i \in 1 .. m + n, NEW j \in 1 .. m + n, r[i] = r[j] PROVE i = j
      OBVIOUS
    <2>1. i \in Int /\ j \in Int
      BY <1>1
    <2>2. \A k, l \in 1 .. m : o[k] = o[l] => k = l
      BY <1>1 DEF m
    <2>3. \A k, l \in 1 .. n : q[k] = q[l] => k = l
      BY <1>1 DEF n
    <2> QED BY <1>1, <1>9, <1>10, <2>1, <2>2, <2>3
  <1>13. r \in Ranks!Orders
    BY <1>5, <1>12, OrdersAre DEF m, n
  <1> QED BY <1>5, <1>7, <1>11, <1>13 DEF r, u, v, w, m, n

\* Two orders that share nothing, one behind the other, and an order with one more policy behind it.
LEMMA JoinedIs ==
  ASSUME NEW o \in Ranks!Orders, NEW q \in Ranks!Orders, Ranks!Range(o) \cap Ranks!Range(q) = {}
  PROVE  /\ o \o q \in Ranks!Orders /\ Ranks!Range(o \o q) = Ranks!Range(o) \cup Ranks!Range(q)
         /\ Len(o \o q) = Len(o) + Len(q) /\ \A i \in 1 .. Len(o) : (o \o q)[i] = o[i]
  <1> DEFINE m == Len(o)
             n == Len(q)
             r == o \o q
             P == Ranks!Policies
  <1>1. /\ o \in Seq(P) /\ q \in Seq(P) /\ m \in Nat /\ n \in Nat
        /\ \A i, j \in 1 .. m : o[i] = o[j] => i = j
        /\ \A i, j \in 1 .. n : q[i] = q[j] => i = j
    BY OrdersAre
  <1>2. o \in Seq(P) /\ q \in Seq(P)
    BY <1>1
  <1>3. /\ r \in Seq(P) /\ Len(r) = m + n
        /\ \A i \in 1 .. m + n : r[i] = IF i <= m THEN o[i] ELSE q[i - m]
    BY <1>2, ConcatProperties
  <1>4. /\ Ranks!Range(o) = {o[i] : i \in 1 .. m} /\ Ranks!Range(q) = {q[i] : i \in 1 .. n}
        /\ Ranks!Range(r) = {r[i] : i \in 1 .. m + n}
    BY <1>2, <1>3, RangeIs
  <1>5. \A i \in 1 .. m, j \in 1 .. n : o[i] # q[j]
    BY <1>4
  <1> HIDE DEF r, m, n
  <1>6. \A i \in 1 .. m + n :
          \/ i <= m /\ i \in 1 .. m /\ r[i] = o[i]
          \/ i > m /\ i - m \in 1 .. n /\ r[i] = q[i - m]
    <2> SUFFICES ASSUME NEW i \in 1 .. m + n
                 PROVE  \/ i <= m /\ i \in 1 .. m /\ r[i] = o[i]
                        \/ i > m /\ i - m \in 1 .. n /\ r[i] = q[i - m]
      OBVIOUS
    <2>1. i \in Int /\ 1 <= i /\ i <= m + n
      BY <1>1
    <2>2. r[i] = IF i <= m THEN o[i] ELSE q[i - m]
      BY <1>3
    <2> QED BY <1>1, <2>1, <2>2
  <1>7. /\ \A i \in 1 .. m : r[i] = o[i] /\ i \in 1 .. m + n
        /\ \A i \in 1 .. n : r[m + i] = q[i] /\ m + i \in 1 .. m + n
    <2>1. ASSUME NEW i \in 1 .. m PROVE r[i] = o[i] /\ i \in 1 .. m + n
      <3>1. i \in 1 .. m + n /\ i <= m
        BY <1>1
      <3> QED BY <1>3, <3>1
    <2>2. ASSUME NEW i \in 1 .. n PROVE r[m + i] = q[i] /\ m + i \in 1 .. m + n
      <3>1. m + i \in 1 .. m + n /\ ~(m + i <= m) /\ (m + i) - m = i
        BY <1>1
      <3> QED BY <1>3, <3>1
    <2> QED BY <2>1, <2>2
  <1>8. Ranks!Range(r) = Ranks!Range(o) \cup Ranks!Range(q)
    <2>1. \A i \in 1 .. m + n : r[i] \in Ranks!Range(o) \cup Ranks!Range(q)
      BY <1>4, <1>6
    <2>2. \A i \in 1 .. n : q[i] \in Ranks!Range(r)
      BY <1>4, <1>7
    <2>3. \A i \in 1 .. m : o[i] \in Ranks!Range(r)
      BY <1>4, <1>7
    <2> QED BY <1>4, <2>1, <2>2, <2>3
  <1>9. \A i, j \in 1 .. m + n : r[i] = r[j] => i = j
    <2> SUFFICES ASSUME NEW i \in 1 .. m + n, NEW j \in 1 .. m + n, r[i] = r[j] PROVE i = j
      OBVIOUS
    <2>1. i \in Int /\ j \in Int
      BY <1>1
    <2>2. /\ \A k, l \in 1 .. m : o[k] = o[l] => k = l
          /\ \A k, l \in 1 .. n : q[k] = q[l] => k = l
      BY <1>1
    <2> QED BY <1>1, <1>5, <1>6, <2>1, <2>2
  <1>10. r \in Ranks!Orders
    BY <1>3, <1>9, OrdersAre
  <1> QED BY <1>3, <1>7, <1>8, <1>10 DEF r, m, n

LEMMA AppendedIs ==
  ASSUME NEW o \in Ranks!Orders, NEW p \in Ranks!Policies, p \notin Ranks!Range(o)
  PROVE  Append(o, p) \in Ranks!Orders /\ Ranks!Range(Append(o, p)) = Ranks!Range(o) \cup {p}
  <1> DEFINE m == Len(o)
             r == Append(o, p)
  <1>1. o \in Seq(Ranks!Policies) /\ m \in Nat /\ \A i, j \in 1 .. m : o[i] = o[j] => i = j
    BY OrdersAre
  <1>2. o \in Seq(Ranks!Policies)
    BY <1>1
  <1>3. /\ r \in Seq(Ranks!Policies) /\ Len(r) = m + 1 /\ \A i \in 1 .. m : r[i] = o[i]
        /\ r[m + 1] = p
    BY <1>2, AppendProperties
  <1> HIDE DEF r
  <1>4. Ranks!Range(o) = {o[i] : i \in 1 .. m} /\ Ranks!Range(r) = {r[i] : i \in 1 .. m + 1}
    BY <1>2, <1>3, RangeIs
  <1> HIDE DEF m
  <1>5. \A i \in 1 .. m + 1 : (i \in 1 .. m /\ r[i] = o[i]) \/ (i = m + 1 /\ r[i] = p)
    BY <1>1, <1>3
  <1>6. \A i \in 1 .. m : o[i] # p /\ i \in 1 .. m + 1
    BY <1>1, <1>4
  <1>7. \A i, j \in 1 .. m + 1 : r[i] = r[j] => i = j
    BY <1>1, <1>5, <1>6
  <1>8. r \in Ranks!Orders
    BY <1>3, <1>7, OrdersAre
  <1>9. Ranks!Range(r) = Ranks!Range(o) \cup {p}
    <2>1. m + 1 \in 1 .. m + 1
      BY <1>1
    <2> QED BY <1>3, <1>4, <1>5, <1>6, <2>1
  <1> QED BY <1>8, <1>9 DEF r

\* Ours in ascending order, in the positions that ours hold.
Slots(o) == {i \in DOMAIN o : o[i] \in Ranks!Ours}
Placed(o) ==
  [i \in 1 .. Len(o) |-> IF i \in Slots(o) THEN Ranks!Ascending(Ranks!Ours \cap Ranks!Range(o))[Numbering(Slots(o))[i]]
                        ELSE o[i]]

\* As many of ours are ranked as positions hold one.
LEMMA SlotsCounted ==
  ASSUME NEW o \in Ranks!Orders
  PROVE  Cardinality(Slots(o)) = Cardinality(Ranks!Ours \cap Ranks!Range(o))
  <1> DEFINE S == Slots(o)
             T == Ranks!Ours \cap Ranks!Range(o)
             f == [i \in S |-> o[i]]
  <1>1. o \in Seq(Ranks!Policies) /\ Len(o) \in Nat /\ \A i, j \in 1 .. Len(o) : o[i] = o[j] => i = j
    BY OrdersAre
  <1>2. Ranks!Range(o) = {o[i] : i \in 1 .. Len(o)}
    BY <1>1, RangeIs
  <1>3. /\ \A i \in S : i \in 1 .. Len(o) /\ o[i] \in T
        /\ \A p \in T : \E i \in S : o[i] = p
    BY <1>2 DEF Slots
  <1>4. IsFiniteSet(S)
    <2>1. S \in SUBSET (1 .. Len(o))
      BY DEF Slots
    <2> HIDE DEF S
    <2> QED BY <1>1, <2>1, Counted
  <1> HIDE DEF S, T
  <1>5. f \in Surjection(S, T)
    BY <1>3 DEF Surjection
  <1>6. f \in Injection(S, T)
    BY <1>1, <1>3 DEF Injection, IsInjective
  <1> QED BY <1>4, <1>5, <1>6, FS_Surjection DEF S, T

LEMMA PlacedIs ==
  ASSUME NEW o \in Ranks!Orders
  PROVE  /\ Placed(o) \in Ranks!Orders /\ Ranks!Range(Placed(o)) = Ranks!Range(o) /\ Len(Placed(o)) = Len(o)
         /\ \A i \in 1 .. Len(o) : o[i] \notin Ranks!Ours => Placed(o)[i] = o[i]
  <1> DEFINE m == Len(o)
             S == Slots(o)
             T == Ranks!Ours \cap Ranks!Range(o)
             n == Cardinality(S)
             ranked == Ranks!Ascending(T)
             r == Numbering(S)
             slotted == Placed(o)
  <1>1. o \in Seq(Ranks!Policies) /\ m \in Nat /\ \A i, j \in 1 .. m : o[i] = o[j] => i = j
    BY OrdersAre
  <1>2. Ranks!Range(o) = {o[i] : i \in 1 .. m}
    BY <1>1, RangeIs
  <1>3. /\ \A i \in 1 .. m : i \in S <=> o[i] \in T
        /\ \A i \in S : i \in 1 .. m
        /\ \A p \in T : p \in Ranks!Range(o)
        /\ \A i \in 1 .. m : o[i] \in Ranks!Policies
        /\ \A i \in 1 .. m : i \in S <=> o[i] \in Ranks!Ours
    BY <1>1, <1>2 DEF Slots
  <1>4. n = Cardinality(T)
    BY SlotsCounted
  <1>5. S \in SUBSET (1 .. m)
    BY <1>3
  <1>6. slotted = [i \in 1 .. m |-> IF i \in S THEN ranked[r[i]] ELSE o[i]]
    BY DEF Placed
  <1> HIDE DEF S, T, slotted
  <1>7. /\ r \in [S -> 1 .. n] /\ \A x, y \in S : x < y => r[x] < r[y]
        /\ \A k \in 1 .. n : \E x \in S : r[x] = k
    BY <1>1, <1>5, Numbered
  <1>8. T \in SUBSET (1 .. Postures + Teams) /\ Postures + Teams \in Nat
    BY RankNumbers DEF T
  <1>9. /\ n \in Nat /\ ranked \in [1 .. n -> T] /\ \A i, j \in 1 .. n : ranked[i] = ranked[j] => i = j
        /\ \A x \in T : \E i \in 1 .. n : ranked[i] = x
    BY <1>4, <1>8, AscendingIs
  <1> HIDE DEF m, n, ranked, r
  <1>10. \A i, j \in S : r[i] = r[j] => i = j
    <2> SUFFICES ASSUME NEW i \in S, NEW j \in S, i # j PROVE r[i] # r[j]
      OBVIOUS
    <2>1. i \in Int /\ j \in Int
      BY <1>1, <1>3
    <2>2. r[i] \in Int /\ r[j] \in Int
      <3>1. r[i] \in 1 .. n /\ r[j] \in 1 .. n
        BY <1>7
      <3> QED BY <1>9, <3>1
    <2>3. i < j \/ j < i
      BY <2>1
    <2> QED BY <1>7, <2>2, <2>3
  <1>11. \A i \in S : r[i] \in 1 .. n /\ ranked[r[i]] \in T
    BY <1>7, <1>9
  <1>12. /\ \A i \in S : i \in 1 .. m /\ slotted[i] = ranked[r[i]] /\ slotted[i] \in T
         /\ \A i \in 1 .. m : i \notin S => slotted[i] = o[i] /\ slotted[i] \notin T
    BY <1>3, <1>6, <1>11
  <1>13. slotted \in Seq(Ranks!Policies) /\ Len(slotted) = m
    <2>1. \A i \in 1 .. m : slotted[i] \in Ranks!Policies
      BY <1>2, <1>3, <1>12
    <2>2. slotted \in [1 .. m -> Ranks!Policies]
      BY <1>6, <2>1
    <2> QED BY <1>1, <2>2
  <1>14. \A i, j \in 1 .. m : slotted[i] = slotted[j] => i = j
    <2> SUFFICES ASSUME NEW i \in 1 .. m, NEW j \in 1 .. m, slotted[i] = slotted[j] PROVE i = j
      OBVIOUS
    <2>1. CASE i \in S
      <3>1. j \in S
        BY <1>12, <2>1
      <3>2. r[i] = r[j]
        BY <1>9, <1>11, <1>12, <2>1, <3>1
      <3> QED BY <1>10, <2>1, <3>1, <3>2
    <2>2. CASE i \notin S
      <3>1. j \notin S
        BY <1>12, <2>2
      <3> QED BY <1>1, <1>12, <2>2, <3>1
    <2> QED BY <2>1, <2>2
  <1>15. slotted \in Ranks!Orders
    BY <1>13, <1>14, OrdersAre
  <1>16. Ranks!Range(slotted) = Ranks!Range(o)
    <2>1. Ranks!Range(slotted) = {slotted[i] : i \in 1 .. m}
      BY <1>13, RangeIs
    <2>2. \A i \in 1 .. m : slotted[i] \in Ranks!Range(o)
      BY <1>2, <1>3, <1>12
    <2>3. ASSUME NEW i \in 1 .. m PROVE \E j \in 1 .. m : slotted[j] = o[i]
      <3>1. CASE i \in S
        <4>1. PICK k \in 1 .. n : ranked[k] = o[i]
          BY <1>3, <1>9, <3>1
        <4>2. PICK j \in S : r[j] = k
          BY <1>7
        <4> QED BY <1>12, <4>1, <4>2
      <3>2. CASE i \notin S
        BY <1>12, <3>2
      <3> QED BY <3>1, <3>2
    <2> QED BY <1>2, <2>1, <2>2, <2>3
  <1>17. \A i \in 1 .. m : o[i] \notin Ranks!Ours => slotted[i] = o[i]
    BY <1>3, <1>12
  <1> QED BY <1>13, <1>15, <1>16, <1>17 DEF slotted, m

\* The position behind which a policy of ours goes that is not ranked yet.
LastSlot(o) == IF Slots(o) = {} THEN Len(o) ELSE CHOOSE i \in Slots(o) : \A j \in Slots(o) : j <= i

LEMMA LastSlotIs ==
  ASSUME NEW o \in Ranks!Orders
  PROVE  /\ LastSlot(o) \in 0 .. Len(o)
         /\ \A p \in 1 .. Len(o) : (\A i \in 1 .. p : o[i] \notin Ranks!Ours) => p <= LastSlot(o)
  <1> DEFINE S == Slots(o)
             n == Cardinality(S)
             up == Ranks!Ascending(S)
             last == CHOOSE i \in S : \A j \in S : j <= i
  <1>1. Len(o) \in Nat /\ S \in SUBSET (1 .. Len(o)) /\ \A i \in S : i \in 1 .. Len(o) /\ o[i] \in Ranks!Ours
    BY OrdersAre DEF Slots
  <1> HIDE DEF S
  <1>2. CASE S = {}
    BY <1>1, <1>2 DEF LastSlot, S
  <1>3. CASE S # {}
    <2>1. /\ n \in Nat /\ up \in [1 .. n -> S] /\ \A i, j \in 1 .. n : i < j => up[i] < up[j]
          /\ \A x \in S : \E i \in 1 .. n : up[i] = x
      BY <1>1, AscendingIs
    <2> HIDE DEF n, up
    <2>2. n \in 1 .. n
      BY <1>3, <2>1
    <2>3. up[n] \in S /\ \A j \in S : j <= up[n]
      <3>1. up[n] \in S /\ up[n] \in Int
        <4>1. up[n] \in S
          BY <2>1, <2>2
        <4>2. \A i \in S : i \in Int
          BY <1>1
        <4> QED BY <4>1, <4>2
      <3>2. ASSUME NEW j \in S PROVE j <= up[n]
        <4>1. PICK i \in 1 .. n : up[i] = j
          BY <2>1
        <4>2. i = n \/ i < n
          BY <2>1
        <4>3. j \in Int
          BY <1>1
        <4> QED BY <2>1, <2>2, <3>1, <4>1, <4>2, <4>3
      <3> QED BY <3>1, <3>2
    <2>4. last \in S /\ \A j \in S : j <= last
      BY <2>3
    <2>5. LastSlot(o) = last
      BY <1>3 DEF LastSlot, S
    <2> HIDE DEF last
    <2>6. last \in 1 .. Len(o) /\ o[last] \in Ranks!Ours
      BY <1>1, <2>4
    <2>7. ASSUME NEW p \in 1 .. Len(o), \A i \in 1 .. p : o[i] \notin Ranks!Ours PROVE p <= last
      <3>1. ~(last \in 1 .. p)
        BY <2>6, <2>7
      <3> QED BY <1>1, <2>6, <3>1
    <2>8. last \in 0 .. Len(o)
      BY <1>1, <2>6
    <2> QED BY <2>5, <2>7, <2>8
  <1> QED BY <1>2, <1>3

LEMMA WithinIs ==
  ASSUME NEW seen \in Ranks!Orders, NEW there \in SUBSET Ranks!Policies, Ranks!Range(seen) \subseteq there
  PROVE  LET w == Ranks!WithinOwnSlots(seen, there)
             fresh == (there \cap Ranks!Ours) \ Ranks!Range(seen) IN
         /\ w \in Ranks!Orders /\ Ranks!Range(w) = Ranks!Range(seen) \cup fresh /\ Len(seen) <= Len(w)
         /\ fresh = {} => \A i \in 1 .. Len(seen) : seen[i] \notin Ranks!Ours => w[i] = seen[i]
         /\ \A p \in 1 .. Len(seen) :
              (\A i \in 1 .. p : seen[i] \notin Ranks!Ours) => \A i \in 1 .. p : w[i] = seen[i]
  <1> DEFINE w == Ranks!WithinOwnSlots(seen, there)
             fresh == (there \cap Ranks!Ours) \ Ranks!Range(seen)
             new == Ranks!Ascending(fresh)
             at == LastSlot(seen)
             slotted == Placed(seen)
             m == Len(seen)
  <1>1. seen \in Seq(Ranks!Policies) /\ m \in Nat /\ DOMAIN seen = 1 .. m
    BY OrdersAre
  <1>2. /\ slotted \in Ranks!Orders /\ Ranks!Range(slotted) = Ranks!Range(seen) /\ Len(slotted) = m
        /\ \A i \in 1 .. m : seen[i] \notin Ranks!Ours => slotted[i] = seen[i]
    BY PlacedIs
  <1>3. /\ new \in Ranks!Orders /\ Ranks!Range(new) = fresh /\ Len(new) = Cardinality(fresh) /\ Len(new) \in Nat
    <2>1. fresh \in SUBSET Ranks!Policies
      OBVIOUS
    <2> HIDE DEF fresh
    <2> QED BY <2>1, InAscendingOrder
  <1>4. /\ at \in 0 .. m
        /\ \A p \in 1 .. m : (\A i \in 1 .. p : seen[i] \notin Ranks!Ours) => p <= at
    BY LastSlotIs
  <1>5. w = SubSeq(slotted, 1, at) \o new \o SubSeq(slotted, at + 1, Len(slotted))
    <2> DEFINE ranked == Ranks!Ascending(there \cap Ranks!Ours \cap Ranks!Range(seen))
               as == [i \in DOMAIN seen |-> IF i \in Slots(seen) THEN ranked[Ranks!Cardinality({j \in Slots(seen) : j <= i})]
                                           ELSE seen[i]]
    <2>1. w = SubSeq(as, 1, at) \o new \o SubSeq(as, at + 1, Len(as))
      BY DEF Ranks!WithinOwnSlots, Ranks!StrictFirst, LastSlot, Slots
    <2>2. there \cap Ranks!Ours \cap Ranks!Range(seen) = Ranks!Ours \cap Ranks!Range(seen)
      OBVIOUS
    <2>3. \A i \in Slots(seen) : Ranks!Cardinality({j \in Slots(seen) : j <= i}) = Numbering(Slots(seen))[i]
      BY RankNumbers DEF Numbering
    <2>4. as = slotted
      BY <1>1, <2>2, <2>3 DEF Placed
    <2> HIDE DEF w, as, slotted, new, at
    <2> QED BY <2>1, <2>4
  <1> HIDE DEF w, new, at, slotted
  <1>6. /\ w \in Ranks!Orders /\ Ranks!Range(w) = Ranks!Range(seen) \cup fresh /\ Len(w) = m + Len(new)
        /\ \A i \in 1 .. at : w[i] = slotted[i]
        /\ \A i \in at + 1 .. m : w[i + Len(new)] = slotted[i]
    <2>0. slotted \in Ranks!Orders /\ new \in Ranks!Orders
      BY <1>2, <1>3
    <2>1. Ranks!Range(slotted) \cap Ranks!Range(new) = {}
      BY <1>2, <1>3
    <2>2. at \in 0 .. Len(slotted)
      BY <1>2, <1>4
    <2> DEFINE r == SubSeq(slotted, 1, at) \o new \o SubSeq(slotted, at + 1, Len(slotted))
    <2>3. /\ r \in Ranks!Orders /\ Ranks!Range(r) = Ranks!Range(slotted) \cup Ranks!Range(new)
          /\ Len(r) = Len(slotted) + Len(new)
          /\ \A i \in 1 .. at : r[i] = slotted[i]
          /\ \A i \in at + 1 .. Len(slotted) : r[i + Len(new)] = slotted[i]
      BY <2>0, <2>1, <2>2, Inserted
    <2> HIDE DEF r
    <2>4. w = r
      BY <1>5 DEF r
    <2> QED BY <1>2, <1>3, <2>3, <2>4
  <1>7. ASSUME fresh = {}, NEW i \in 1 .. m, seen[i] \notin Ranks!Ours PROVE w[i] = seen[i]
    <2>1. Len(new) = 0
      BY <1>3, <1>7, FS_EmptySet
    <2>2. i \in 1 .. at \/ i \in at + 1 .. m
      BY <1>1, <1>4
    <2>3. i + Len(new) = i
      BY <1>1, <2>1
    <2> QED BY <1>2, <1>6, <1>7, <2>2, <2>3
  <1>8. ASSUME NEW p \in 1 .. m, \A i \in 1 .. p : seen[i] \notin Ranks!Ours, NEW i \in 1 .. p PROVE w[i] = seen[i]
    <2>1. i \in 1 .. at /\ i \in 1 .. m
      BY <1>1, <1>4, <1>8
    <2> QED BY <1>2, <1>6, <1>8, <2>1
  <1>9. m <= Len(w)
    BY <1>1, <1>3, <1>6
  <1> QED BY <1>6, <1>7, <1>8, <1>9 DEF w

LEMMA AboveIs ==
  ASSUME NEW seen \in Ranks!Orders, NEW there \in SUBSET Ranks!Policies
  PROVE  Ranks!AboveForeign(seen, there) \in Ranks!Orders
  <1> DEFINE ours == Ranks!Ascending(there \cap Ranks!Ours)
             kept == Ranks!Kept(seen, Ranks!Foreign)
  <1>1. ours \in Ranks!Orders /\ Ranks!Range(ours) = there \cap Ranks!Ours
    <2>1. there \cap Ranks!Ours \in SUBSET Ranks!Policies
      OBVIOUS
    <2> QED BY <2>1, InAscendingOrder
  <1>2. kept \in Ranks!Orders /\ Ranks!Range(kept) = Ranks!Range(seen) \cap Ranks!Foreign
    BY KeptIs
  <1> HIDE DEF ours, kept
  <1>3. Ranks!Range(ours) \cap Ranks!Range(kept) = {}
    BY <1>1, <1>2, RankNumbers
  <1>4. ours \o kept \in Ranks!Orders
    BY <1>1, <1>2, <1>3, JoinedIs
  <1> QED BY <1>4 DEF Ranks!AboveForeign, Ranks!StrictFirst, ours, kept

-----------------------------------------------------------------------------
(* Proofs about the ranking. *)

LEMMA NoOrder == <<>> \in Ranks!Orders /\ Ranks!Range(<<>>) = {}
  <1>1. <<>> \in Seq(Ranks!Policies) /\ Len(<<>>) = 0 /\ \A i, j \in 1 .. 0 : <<>>[i] = <<>>[j] => i = j
    OBVIOUS
  <1>2. <<>> \in Ranks!Orders
    BY <1>1, OrdersAre
  <1>3. Ranks!Range(<<>>) = {<<>>[i] : i \in 1 .. 0}
    BY <1>1, RangeIs
  <1> QED BY <1>2, <1>3

\* The record of a run that is over.
LEMMA EndedRanking ==
  ASSUME RanksInv, NEW code \in {"exit0", "exit1", "exit2"}
  PROVE  LET r == Ranks!Ended(code) IN
         /\ r \in Rankings /\ r.pc = code /\ r.create = ranking.create /\ r.alone = ranking.alone
         /\ Ranks!Range(r.seen) \subseteq r.there
  <1> DEFINE blank == Ranks!Blank(code)
  <1>1. ranking.create \in BOOLEAN /\ ranking.above \in BOOLEAN /\ ranking.alone \in BOOLEAN
    BY DEF RanksInv, Rankings
  <1>2. blank \in Rankings /\ blank.pc = code /\ Ranks!Range(blank.seen) \subseteq blank.there
    BY NoOrder DEF Ranks!Blank, Rankings
  <1>3. Ranks!Ended(code) = [blank EXCEPT !.alone = ranking.alone, !.create = ranking.create, !.above = ranking.above]
    BY DEF Ranks!Ended
  <1> HIDE DEF blank
  <1> QED BY <1>1, <1>2, <1>3 DEF Rankings

LEMMA RanksFault == RanksInv /\ (Ranks!Fault \/ UNCHANGED rankFaults) => rankFaults' \in 0 .. MaxFailures
  BY RankNumbers DEF RanksInv, Ranks!TypeOK, Ranks!Fault

LEMMA RanksHave ==
  ASSUME RanksInv
  PROVE  /\ ranking \in Rankings /\ live \subseteq Ranks!Policies /\ order \in Ranks!Orders /\ Ranks!Range(order) \subseteq live
         /\ vmsGroup \in Ranks!Carried /\ hardware \in Ranks!Carried /\ tiered \in BOOLEAN
         /\ rankOthers \in 0 .. MaxMoves /\ rankFaults \in 0 .. MaxFailures
         /\ (vmsGroup = "posture" \/ hardware = "posture") => Ranks!Target \in live
         /\ ranking.seen \in Ranks!Orders /\ ranking.there \subseteq Ranks!Policies
         /\ Ranks!Range(ranking.seen) \subseteq ranking.there
  BY DEF RanksInv, Ranks!TypeOK, Rankings

LEMMA RanksTyped ==
  ASSUME ranking' \in Rankings, live' \subseteq Ranks!Policies, order' \in Ranks!Orders, Ranks!Range(order') \subseteq live',
         vmsGroup' \in Ranks!Carried, hardware' \in Ranks!Carried, tiered' \in BOOLEAN,
         rankOthers' \in 0 .. MaxMoves, rankFaults' \in 0 .. MaxFailures,
         (vmsGroup' = "posture" \/ hardware' = "posture") => Ranks!Target \in live'
  PROVE  Ranks!TypeOK'
  <1>1. ranking' \in [pc : {"idle", "read", "create", "bind", "readGroups", "rank", "put", "verify"} \cup Ranks!Exits,
                      create : BOOLEAN, above : BOOLEAN, seen : Ranks!Orders, there : SUBSET Ranks!Policies,
                      hardwareToo : BOOLEAN, alone : BOOLEAN]
    <2>1. {"idle", "read", "create", "bind", "readGroups", "rank", "put", "verify"} \cup Ranks!Exits =
            {"idle", "read", "create", "bind", "readGroups", "rank", "put", "verify", "exit0", "exit1", "exit2"}
      BY DEF Ranks!Exits
    <2> QED BY <2>1 DEF Rankings
  <1> QED BY <1>1 DEF Ranks!TypeOK

LEMMA RanksStart == Ranks!Init => RanksInv
  <1> SUFFICES ASSUME Ranks!Init PROVE RanksInv
    OBVIOUS
  <1>1. ranking \in Rankings /\ ranking.pc = "idle" /\ Ranks!Range(ranking.seen) \subseteq ranking.there
    BY NoOrder DEF Ranks!Init, Ranks!Blank, Rankings
  <1>2. order \in Ranks!Orders /\ Ranks!Range(order) \subseteq live /\ live \subseteq Ranks!Policies
    <2>1. PICK s \in SUBSET Ranks!Foreign : order = Ranks!Ascending(s)
      BY DEF Ranks!Init
    <2>2. s \in SUBSET Ranks!Policies
      BY RankNumbers
    <2> QED BY <2>1, <2>2, InAscendingOrder, RankNumbers DEF Ranks!Init
  <1>3. Ranks!TypeOK
    <2>1. ranking \in [pc : {"idle", "read", "create", "bind", "readGroups", "rank", "put", "verify"} \cup Ranks!Exits,
                       create : BOOLEAN, above : BOOLEAN, seen : Ranks!Orders, there : SUBSET Ranks!Policies,
                       hardwareToo : BOOLEAN, alone : BOOLEAN]
      BY <1>1 DEF Rankings, Ranks!Exits
    <2>2. /\ {vmsGroup, hardware} \subseteq Ranks!Carried /\ tiered \in BOOLEAN
          /\ vmsGroup # "posture" /\ hardware # "posture"
      BY DEF Ranks!Init, Ranks!Carried
    <2>3. rankOthers \in 0 .. MaxMoves /\ rankFaults \in 0 .. MaxFailures
      BY RankNumbers DEF Ranks!Init
    <2> QED BY <1>2, <2>1, <2>2, <2>3 DEF Ranks!TypeOK
  <1> QED BY <1>1, <1>3 DEF RanksInv, RankedSoFar, Ranks!ConvergedAsDeclared

LEMMA RanksOthers == RanksInv /\ Ranks!OthersAct => RanksInv'
  <1> SUFFICES ASSUME RanksInv, Ranks!OthersAct PROVE RanksInv'
    OBVIOUS
  <1>1. /\ ranking' \in Rankings /\ ~ranking'.alone /\ ranking'.pc = ranking.pc /\ ranking'.seen = ranking.seen
        /\ ranking'.there = ranking.there
    BY RanksHave DEF Ranks!OthersAct, Rankings
  <1>2. rankOthers' \in 0 .. MaxMoves /\ UNCHANGED rankFaults
    BY RanksHave, RankNumbers DEF Ranks!OthersAct
  <1>3. /\ live' \subseteq Ranks!Policies /\ order' \in Ranks!Orders /\ Ranks!Range(order') \subseteq live'
        /\ vmsGroup' \in Ranks!Carried /\ hardware' \in Ranks!Carried /\ tiered' \in BOOLEAN
        /\ (Ranks!Target \in live => Ranks!Target \in live')
        /\ (vmsGroup' = "posture" => vmsGroup = "posture") /\ (hardware' = "posture" => hardware = "posture")
    <2>1. ASSUME NEW p \in Ranks!Policies \ live, live' = live \cup {p}, order' \in {order, Append(order, p)},
                 UNCHANGED <<vmsGroup, hardware, tiered>>
          PROVE  <1>3
      <3>1. p \in Ranks!Policies /\ p \notin Ranks!Range(order)
        BY RanksHave
      <3>2. Append(order, p) \in Ranks!Orders /\ Ranks!Range(Append(order, p)) = Ranks!Range(order) \cup {p}
        BY <3>1, RanksHave, AppendedIs
      <3> QED BY <2>1, <3>2, RanksHave
    <2>2. ASSUME NEW p \in live \ {Ranks!Target}, live' = live \ {p}, order' = Ranks!Kept(order, live \ {p}),
                 UNCHANGED <<vmsGroup, hardware, tiered>>
          PROVE  <1>3
      <3>1. order' \in Ranks!Orders /\ Ranks!Range(order') = Ranks!Range(order) \cap (live \ {p})
        BY <2>2, RanksHave, KeptIs
      <3> QED BY <2>2, <3>1, RanksHave
    <2>3. CASE order' \in {o \in Ranks!Orders : Ranks!Range(o) \subseteq live} /\ UNCHANGED <<live, vmsGroup, hardware, tiered>>
      BY <2>3, RanksHave
    <2>4. CASE vmsGroup' \in {"none", "another"} /\ UNCHANGED <<live, order, hardware, tiered>>
      BY <2>4, RanksHave DEF Ranks!Carried
    <2>5. CASE tiered' = TRUE /\ UNCHANGED <<live, order, vmsGroup, hardware>>
      BY <2>5, RanksHave
    <2>6. CASE vmsGroup' = "none" /\ hardware' = "none" /\ UNCHANGED <<live, order, tiered>>
      BY <2>6, RanksHave DEF Ranks!Carried
    <2> QED BY <2>1, <2>2, <2>3, <2>4, <2>5, <2>6 DEF Ranks!OthersAct
  <1>4. Ranks!TypeOK'
    BY <1>1, <1>2, <1>3, RanksHave, RanksTyped
  <1> QED BY <1>1, <1>3, <1>4 DEF RanksInv, Ranks!ConvergedAsDeclared

LEMMA RanksBegin ==
  ASSUME RanksInv, NEW c \in BOOLEAN, NEW a \in BOOLEAN, Ranks!Starts(c, a)
  PROVE  RanksInv'
  <1>1. ranking' \in Rankings /\ ranking'.pc = "read" /\ Ranks!Range(ranking'.seen) \subseteq ranking'.there
    BY NoOrder DEF Ranks!Starts, Ranks!Blank, Rankings
  <1>2. UNCHANGED <<live, order, vmsGroup, hardware, tiered, rankOthers, rankFaults>>
    BY DEF Ranks!Starts
  <1>3. Ranks!TypeOK'
    BY <1>1, <1>2, RanksHave, RanksTyped
  <1> QED BY <1>1, <1>3 DEF RanksInv, RankedSoFar, Ranks!ConvergedAsDeclared

\* A run that ends as failed, with what it has changed so far.
LEMMA RanksOver ==
  ASSUME RanksInv, NEW code \in {"exit1", "exit2"}, ranking' = Ranks!Ended(code), UNCHANGED <<live, tiered, rankOthers>>,
         order' \in Ranks!Orders, Ranks!Range(order') \subseteq live, rankFaults' \in 0 .. MaxFailures,
         vmsGroup' \in Ranks!Carried, hardware' \in Ranks!Carried,
         (vmsGroup' = "posture" \/ hardware' = "posture") => Ranks!Target \in live
  PROVE  RanksInv'
  <1>1. ranking' \in Rankings /\ ranking'.pc = code /\ Ranks!Range(ranking'.seen) \subseteq ranking'.there
    BY EndedRanking
  <1>2. Ranks!TypeOK'
    BY <1>1, RanksHave, RanksTyped
  <1> QED BY <1>1, <1>2 DEF RanksInv, RankedSoFar, Ranks!ConvergedAsDeclared

\* A run that goes on to the next step with what it knows.
LEMMA RanksWent ==
  ASSUME RanksInv, NEW pc \in {"bind", "readGroups", "rank", "put", "verify"}, NEW seen \in Ranks!Orders,
         NEW there \in SUBSET Ranks!Policies, Ranks!Range(seen) \subseteq there, NEW h \in BOOLEAN, NEW alone \in BOOLEAN,
         ranking' = [ranking EXCEPT !.pc = pc, !.seen = seen, !.there = there, !.hardwareToo = h, !.alone = alone]
  PROVE  /\ ranking' \in Rankings /\ ranking'.pc = pc /\ ranking'.create = ranking.create /\ ranking'.alone = alone
         /\ ranking'.seen = seen /\ ranking'.there = there /\ ranking'.hardwareToo = h
  BY RanksHave DEF Rankings

LEMMA RanksReads == RanksInv /\ Ranks!Reads => RanksInv'
  <1> SUFFICES ASSUME RanksInv, Ranks!Reads PROVE RanksInv'
    OBVIOUS
  <1>1. UNCHANGED <<live, order, vmsGroup, hardware, tiered, rankOthers>>
    BY DEF Ranks!Reads, Ranks!Groups, Ranks!Rest
  <1>2. CASE Ranks!Dies
    BY <1>1, <1>2, RanksHave, RanksFault, RanksOver DEF Ranks!Dies
  <1>3. CASE ~Ranks!Dies
    <2> DEFINE pc == IF Ranks!Target \in live THEN "bind" ELSE IF ranking.create THEN "create" ELSE "put"
    <2>1. ranking' = [ranking EXCEPT !.seen = order, !.there = live, !.alone = TRUE, !.pc = pc] /\ UNCHANGED rankFaults
      BY <1>3 DEF Ranks!Reads
    <2>2. pc \in {"bind", "create", "put"}
      OBVIOUS
    <2>3. (pc = "bind" <=> Ranks!Target \in live) /\ (pc = "create" => ranking.create) /\ (pc = "put" => ~ranking.create)
      OBVIOUS
    <2> HIDE DEF pc
    <2>4. /\ ranking' \in Rankings /\ ranking'.pc = pc /\ ranking'.create = ranking.create
          /\ ranking'.seen = order /\ ranking'.there = live
      BY <2>1, <2>2, RanksHave DEF Rankings
    <2>5. Ranks!TypeOK'
      BY <1>1, <2>1, <2>4, RanksHave, RanksTyped
    <2>6. RankedSoFar'
      BY <1>1, <2>2, <2>3, <2>4 DEF RankedSoFar
    <2>7. Ranks!ConvergedAsDeclared'
      BY <2>2, <2>4 DEF Ranks!ConvergedAsDeclared
    <2> QED BY <1>1, <2>2, <2>3, <2>4, <2>5, <2>6, <2>7, RanksHave DEF RanksInv
  <1> QED BY <1>2, <1>3

LEMMA RanksCreates == RanksInv /\ Ranks!Creates => RanksInv'
  <1> SUFFICES ASSUME RanksInv, Ranks!Creates PROVE RanksInv'
    OBVIOUS
  <1>1. ranking.pc = "create" /\ UNCHANGED <<vmsGroup, hardware, tiered, rankOthers>>
    BY DEF Ranks!Creates, Ranks!Groups, Ranks!Rest, Ranks!At
  <1>2. CASE UNCHANGED <<live, order>> /\ ranking' = Ranks!Ended("exit1") /\ (Ranks!Fault \/ UNCHANGED rankFaults)
    BY <1>1, <1>2, RanksHave, RanksFault, RanksOver
  <1>3. CASE /\ Ranks!Target \notin live /\ Ranks!Goes("bind") /\ UNCHANGED rankFaults
             /\ live' = live \cup {Ranks!Target} /\ order' \in {order, Append(order, Ranks!Target)}
    <2>1. Ranks!Target \in Ranks!Policies /\ Ranks!Target \notin Ranks!Range(order)
      BY <1>3, RanksHave, RankNumbers
    <2>2. order' \in Ranks!Orders /\ Ranks!Range(order') \subseteq live' /\ live' \subseteq Ranks!Policies
      <3>1. /\ Append(order, Ranks!Target) \in Ranks!Orders
            /\ Ranks!Range(Append(order, Ranks!Target)) = Ranks!Range(order) \cup {Ranks!Target}
        BY <2>1, RanksHave, AppendedIs
      <3> QED BY <1>3, <2>1, <3>1, RanksHave
    <2>3. /\ ranking' \in Rankings /\ ranking'.pc = "bind" /\ ranking'.create = ranking.create
          /\ ranking'.alone = ranking.alone /\ ranking'.seen = ranking.seen /\ ranking'.there = ranking.there
      BY <1>3, RanksHave DEF Ranks!Goes, Rankings
    <2>4. Ranks!TypeOK'
      BY <1>1, <1>3, <2>2, <2>3, RanksHave, RanksTyped
    <2>5. ranking'.alone => RankedSoFar'
      BY <1>1, <2>3 DEF RanksInv, RankedSoFar
    <2>6. Ranks!ConvergedAsDeclared'
      BY <2>3 DEF Ranks!ConvergedAsDeclared
    <2> QED BY <1>3, <2>3, <2>4, <2>5, <2>6, RanksHave DEF RanksInv
  <1> QED BY <1>2, <1>3 DEF Ranks!Creates, Ranks!Dies

LEMMA RanksBinds == RanksInv /\ Ranks!Binds => RanksInv'
  <1> SUFFICES ASSUME RanksInv, Ranks!Binds PROVE RanksInv'
    OBVIOUS
  <1> DEFINE wanted == IF ~tiered THEN "posture" ELSE IF hardware = "posture" THEN "none" ELSE hardware
             same == vmsGroup = "posture" /\ hardware = wanted
  <1>1. ranking.pc = "bind" /\ UNCHANGED <<live, order, tiered, rankOthers>> /\ Ranks!Target \in live
    BY DEF Ranks!Binds, Ranks!Rest, Ranks!At, RanksInv
  <1>2. wanted \in Ranks!Carried /\ (wanted = "posture") = ~tiered
    BY RanksHave DEF Ranks!Carried
  <1>3. ASSUME ranking' = Ranks!Ended("exit1"), Ranks!Fault, NEW g \in {<<vmsGroup, hardware>>, <<"posture", hardware>>},
               vmsGroup' = g[1] /\ hardware' = g[2]
        PROVE  RanksInv'
    <2>1. vmsGroup' \in Ranks!Carried /\ hardware' \in Ranks!Carried
      BY <1>3, RanksHave DEF Ranks!Carried
    <2> QED BY <1>1, <1>3, <2>1, RanksHave, RanksFault, RanksOver
  <1>4. ASSUME NEW pc \in {"rank", "readGroups"}, ranking' = [ranking EXCEPT !.pc = pc, !.hardwareToo = ~tiered],
               vmsGroup' \in Ranks!Carried, hardware' \in Ranks!Carried, Ranks!Fault \/ UNCHANGED rankFaults,
               pc = "rank" => vmsGroup' = "posture" /\ (hardware' = "posture") = ~tiered
        PROVE  RanksInv'
    <2>1. (~tiered) \in BOOLEAN
      BY RanksHave
    <2>2. /\ ranking' \in Rankings /\ ranking'.pc = pc /\ ranking'.create = ranking.create
          /\ ranking'.alone = ranking.alone /\ ranking'.seen = ranking.seen /\ ranking'.there = ranking.there
          /\ ranking'.hardwareToo = ~tiered
      <3> DEFINE h == ~tiered
      <3>1. h \in BOOLEAN /\ ranking' = [ranking EXCEPT !.pc = pc, !.hardwareToo = h]
        BY <1>4, <2>1
      <3> HIDE DEF h
      <3>2. /\ ranking' \in Rankings /\ ranking'.pc = pc /\ ranking'.create = ranking.create
            /\ ranking'.alone = ranking.alone /\ ranking'.seen = ranking.seen /\ ranking'.there = ranking.there
            /\ ranking'.hardwareToo = h
        BY <3>1, RanksHave DEF Rankings
      <3> QED BY <3>2 DEF h
    <2>3. Ranks!TypeOK'
      BY <1>1, <1>4, <2>2, RanksHave, RanksFault, RanksTyped
    <2>4. ranking'.alone => RankedSoFar'
      BY <1>1, <1>4, <2>2 DEF RanksInv, RankedSoFar, Bound
    <2>5. Ranks!ConvergedAsDeclared'
      BY <2>2 DEF Ranks!ConvergedAsDeclared
    <2> QED BY <1>1, <2>2, <2>3, <2>4, <2>5, RanksHave DEF RanksInv
  <1>5. CASE /\ vmsGroup' = "posture" /\ hardware' = wanted /\ UNCHANGED rankFaults
             /\ ranking' = [ranking EXCEPT !.pc = IF same THEN "rank" ELSE "readGroups", !.hardwareToo = ~tiered]
    <2> DEFINE pc == IF same THEN "rank" ELSE "readGroups"
    <2>1. pc \in {"rank", "readGroups"} /\ ranking' = [ranking EXCEPT !.pc = pc, !.hardwareToo = ~tiered]
      BY <1>5
    <2> HIDE DEF pc, wanted, same
    <2>2. vmsGroup' \in Ranks!Carried /\ hardware' \in Ranks!Carried
      BY <1>2, <1>5 DEF Ranks!Carried
    <2> QED BY <1>2, <1>4, <1>5, <2>1, <2>2
  <1>6. ASSUME ~same, Ranks!Fault, ranking' = [ranking EXCEPT !.pc = "readGroups", !.hardwareToo = ~tiered],
               NEW g \in {<<vmsGroup, hardware>>, <<"posture", hardware>>}, vmsGroup' = g[1] /\ hardware' = g[2]
        PROVE  RanksInv'
    <2>1. vmsGroup' \in Ranks!Carried /\ hardware' \in Ranks!Carried
      BY <1>6, RanksHave DEF Ranks!Carried
    <2> QED BY <1>4, <1>6, <2>1
  <1>7. CASE Ranks!Assigns
    BY <1>3, <1>5, <1>6, <1>7 DEF Ranks!Assigns, Ranks!Dies, Ranks!Groups
  <1>8. CASE vmsGroup = "noGroup" /\ UNCHANGED <<vmsGroup, hardware>> /\ Ranks!Dies
    BY <1>3, <1>8 DEF Ranks!Dies
  <1>9. CASE vmsGroup = "noGroup" /\ UNCHANGED <<vmsGroup, hardware, rankFaults>> /\ Ranks!Goes("rank")
    <2>1. /\ ranking' \in Rankings /\ ranking'.pc = "rank" /\ ranking'.create = ranking.create
          /\ ranking'.alone = ranking.alone /\ ranking'.seen = ranking.seen /\ ranking'.there = ranking.there
      BY <1>9, RanksHave DEF Ranks!Goes, Rankings
    <2>2. Ranks!TypeOK'
      BY <1>1, <1>9, <2>1, RanksHave, RanksTyped
    <2>3. ranking'.alone => RankedSoFar'
      BY <1>1, <1>9, <2>1 DEF RanksInv, RankedSoFar, Bound
    <2>4. Ranks!ConvergedAsDeclared'
      BY <2>1 DEF Ranks!ConvergedAsDeclared
    <2> QED BY <1>1, <1>9, <2>1, <2>2, <2>3, <2>4, RanksHave DEF RanksInv
  <1> QED BY <1>7, <1>8, <1>9 DEF Ranks!Binds, Ranks!Groups

LEMMA RanksReadsGroups == RanksInv /\ Ranks!ReadsGroups => RanksInv'
  <1> SUFFICES ASSUME RanksInv, Ranks!ReadsGroups PROVE RanksInv'
    OBVIOUS
  <1>1. ranking.pc = "readGroups" /\ UNCHANGED <<live, order, vmsGroup, hardware, tiered, rankOthers>> /\ Ranks!Target \in live
    BY DEF Ranks!ReadsGroups, Ranks!Groups, Ranks!Rest, Ranks!At, RanksInv
  <1>2. CASE ranking' = Ranks!Ended("exit1") /\ (Ranks!Fault \/ UNCHANGED rankFaults)
    BY <1>1, <1>2, RanksHave, RanksFault, RanksOver
  <1>3. CASE /\ Ranks!Goes("rank") /\ UNCHANGED rankFaults
             /\ vmsGroup = "posture" /\ (hardware = "posture") = ranking.hardwareToo
    <2>1. /\ ranking' \in Rankings /\ ranking'.pc = "rank" /\ ranking'.create = ranking.create
          /\ ranking'.alone = ranking.alone /\ ranking'.seen = ranking.seen /\ ranking'.there = ranking.there
          /\ ranking'.hardwareToo = ranking.hardwareToo
      BY <1>3, RanksHave DEF Ranks!Goes, Rankings
    <2>2. Ranks!TypeOK'
      BY <1>1, <1>3, <2>1, RanksHave, RanksTyped
    <2>3. ranking'.alone => RankedSoFar'
      BY <1>1, <1>3, <2>1 DEF RanksInv, RankedSoFar, Bound
    <2>4. Ranks!ConvergedAsDeclared'
      BY <2>1 DEF Ranks!ConvergedAsDeclared
    <2> QED BY <1>1, <2>1, <2>2, <2>3, <2>4, RanksHave DEF RanksInv
  <1> QED BY <1>2, <1>3 DEF Ranks!ReadsGroups, Ranks!Dies

LEMMA RanksRanks == RanksInv /\ Ranks!Ranks => RanksInv'
  <1> SUFFICES ASSUME RanksInv, Ranks!Ranks PROVE RanksInv'
    OBVIOUS
  <1>1. ranking.pc = "rank" /\ UNCHANGED <<live, order, vmsGroup, hardware, tiered, rankOthers>> /\ Ranks!Target \in live
    BY DEF Ranks!Ranks, Ranks!Groups, Ranks!Rest, Ranks!At, RanksInv
  <1>2. CASE Ranks!Dies
    BY <1>1, <1>2, RanksHave, RanksFault, RanksOver DEF Ranks!Dies
  <1>3. CASE ~Ranks!Dies
    <2> DEFINE s == IF ranking.create THEN order ELSE ranking.seen
               t == IF ranking.create THEN live ELSE ranking.there
    <2>1. ranking' = [ranking EXCEPT !.pc = "put", !.seen = s, !.there = t] /\ UNCHANGED rankFaults
      BY <1>3 DEF Ranks!Ranks
    <2>2. s \in Ranks!Orders /\ t \in SUBSET Ranks!Policies /\ Ranks!Range(s) \subseteq t
      BY RanksHave
    <2>3. ranking.alone => s = order /\ t = live
      BY <1>1 DEF RanksInv, RankedSoFar
    <2> HIDE DEF s, t
    <2>4. /\ ranking' \in Rankings /\ ranking'.pc = "put" /\ ranking'.create = ranking.create
          /\ ranking'.alone = ranking.alone /\ ranking'.seen = s /\ ranking'.there = t
      BY <2>1, <2>2, RanksHave DEF Rankings
    <2>5. Ranks!TypeOK'
      BY <1>1, <2>1, <2>4, RanksHave, RanksTyped
    <2>6. ranking'.alone => RankedSoFar'
      BY <1>1, <2>3, <2>4 DEF RanksInv, RankedSoFar, Bound
    <2>7. Ranks!ConvergedAsDeclared'
      BY <2>4 DEF Ranks!ConvergedAsDeclared
    <2> QED BY <2>2, <2>4, <2>5, <2>6, <2>7 DEF RanksInv
  <1> QED BY <1>2, <1>3

\* The order that is sent: every policy named once, and of another team only those that were read.
LEMMA DesiredIs == RanksInv => Ranks!Desired \in Ranks!Orders
  BY RanksHave, WithinIs, AboveIs DEF Ranks!Desired

LEMMA RanksPuts == RanksInv /\ Ranks!Puts => RanksInv'
  <1> SUFFICES ASSUME RanksInv, Ranks!Puts PROVE RanksInv'
    OBVIOUS
  <1> DEFINE sent == Ranks!Desired
             left == Ranks!Kept(order, Ranks!Policies \ Ranks!Range(sent))
  <1>1. ranking.pc = "put" /\ UNCHANGED <<live, vmsGroup, hardware, tiered, rankOthers>>
    BY DEF Ranks!Puts, Ranks!Groups, Ranks!Rest, Ranks!At
  <1>2. /\ sent \in Ranks!Orders /\ left \in Ranks!Orders
        /\ Ranks!Range(left) = Ranks!Range(order) \cap (Ranks!Policies \ Ranks!Range(sent))
    BY RanksHave, DesiredIs, KeptIs
  <1> HIDE DEF sent, left
  <1>3. sent \o left \in Ranks!Orders /\ Ranks!Range(sent \o left) = Ranks!Range(sent) \cup Ranks!Range(left)
    <2>1. Ranks!Range(sent) \cap Ranks!Range(left) = {}
      BY <1>2
    <2> QED BY <1>2, <2>1, JoinedIs
  <1>4. CASE ranking' = Ranks!Ended("exit1") /\ UNCHANGED order /\ (Ranks!Fault \/ UNCHANGED rankFaults)
    BY <1>1, <1>4, RanksHave, RanksFault, RanksOver
  <1>5. CASE /\ Ranks!Goes("verify") /\ (Ranks!Fault \/ UNCHANGED rankFaults)
             /\ (UNCHANGED order \/ (Ranks!Range(sent) \subseteq live /\ order' \in {sent, sent \o left}))
    <2>1. order' \in Ranks!Orders /\ Ranks!Range(order') \subseteq live
      BY <1>2, <1>3, <1>5, RanksHave
    <2>2. /\ ranking' \in Rankings /\ ranking'.pc = "verify" /\ ranking'.create = ranking.create
          /\ ranking'.alone = ranking.alone /\ ranking'.seen = ranking.seen /\ ranking'.there = ranking.there
      BY <1>5, RanksHave DEF Ranks!Goes, Rankings
    <2>3. Ranks!TypeOK'
      BY <1>1, <1>5, <2>1, <2>2, RanksHave, RanksFault, RanksTyped
    <2>4. ranking'.alone => RankedSoFar'
      BY <1>1, <2>2 DEF RanksInv, RankedSoFar, Bound
    <2>5. Ranks!ConvergedAsDeclared'
      BY <2>2 DEF Ranks!ConvergedAsDeclared
    <2> QED BY <2>2, <2>3, <2>4, <2>5, RanksHave DEF RanksInv
  <1> QED BY <1>4, <1>5 DEF Ranks!Puts, Ranks!Dies, sent, left

LEMMA RanksVerifies == RanksInv /\ Ranks!Verifies => RanksInv'
  <1> SUFFICES ASSUME RanksInv, Ranks!Verifies PROVE RanksInv'
    OBVIOUS
  <1>1. ranking.pc = "verify" /\ UNCHANGED <<live, order, vmsGroup, hardware, tiered, rankOthers>>
    BY DEF Ranks!Verifies, Ranks!Groups, Ranks!Rest, Ranks!At
  <1>2. ASSUME NEW code \in {"exit1", "exit2"}, ranking' = Ranks!Ended(code), Ranks!Fault \/ UNCHANGED rankFaults
        PROVE  RanksInv'
    BY <1>1, <1>2, RanksHave, RanksFault, RanksOver
  <1>3. CASE Ranks!StrictestFirst /\ ranking' = Ranks!Ended("exit0") /\ UNCHANGED rankFaults
    <2>1. /\ ranking' \in Rankings /\ ranking'.pc = "exit0" /\ ranking'.create = ranking.create
          /\ ranking'.alone = ranking.alone /\ Ranks!Range(ranking'.seen) \subseteq ranking'.there
      BY <1>3, EndedRanking
    <2>2. Ranks!TypeOK'
      BY <1>1, <1>3, <2>1, RanksHave, RanksTyped
    <2>3. Ranks!StrictestFirst'
      BY <1>1, <1>3 DEF Ranks!StrictestFirst, Ranks!Rank
    <2>4. Ranks!ConvergedAsDeclared'
      BY <1>1, <2>1, <2>3 DEF Ranks!ConvergedAsDeclared, RanksInv, RankedSoFar, Bound
    <2>5. RankedSoFar'
      BY <2>1 DEF RankedSoFar
    <2> QED BY <2>1, <2>2, <2>4, <2>5 DEF RanksInv
  <1> QED BY <1>2, <1>3 DEF Ranks!Verifies, Ranks!Dies

LEMMA RanksStep == RanksInv /\ Ranks!Next => RanksInv'
  BY RanksOthers, RanksBegin, RanksReads, RanksCreates, RanksBinds, RanksReadsGroups, RanksRanks, RanksPuts, RanksVerifies
  DEF Ranks!Next, Ranks!Step

\* Where a policy is ranked.
LEMMA PositionIs ==
  ASSUME NEW o \in Ranks!Orders, NEW i \in 1 .. Len(o)
  PROVE  (CHOOSE j \in DOMAIN o : o[j] = o[i]) = i
  <1>1. o \in Seq(Ranks!Policies) /\ DOMAIN o = 1 .. Len(o) /\ \A k, j \in 1 .. Len(o) : o[k] = o[j] => k = j
    BY OrdersAre
  <1> QED BY <1>1

\* What the order becomes by a PUT of a run that was left alone and does not want ours above: the one that is sent has
\* every policy of the order and those of ours that were not ranked, and what it begins with stays.
LEMMA OrderSent ==
  ASSUME RanksInv, Ranks!Puts, ranking.alone, ~ranking.above, order' # order
  PROVE  LET fresh == (live \cap Ranks!Ours) \ Ranks!Range(order) IN
         /\ order' \in Ranks!Orders /\ Ranks!Range(order') = Ranks!Range(order) \cup fresh /\ Len(order) <= Len(order')
         /\ fresh = {} => \A i \in 1 .. Len(order) : order[i] \notin Ranks!Ours => order'[i] = order[i]
         /\ \A p \in 1 .. Len(order) :
              (\A i \in 1 .. p : order[i] \notin Ranks!Ours) => \A i \in 1 .. p : order'[i] = order[i]
  <1> DEFINE fresh == (live \cap Ranks!Ours) \ Ranks!Range(order)
             sent == Ranks!Desired
             left == Ranks!Kept(order, Ranks!Policies \ Ranks!Range(sent))
  <1>1. ranking.seen = order /\ ranking.there = live
    BY DEF Ranks!Puts, Ranks!At, RanksInv, RankedSoFar
  <1>2. /\ sent \in Ranks!Orders /\ Ranks!Range(sent) = Ranks!Range(order) \cup fresh /\ Len(order) <= Len(sent)
        /\ fresh = {} => \A i \in 1 .. Len(order) : order[i] \notin Ranks!Ours => sent[i] = order[i]
        /\ \A p \in 1 .. Len(order) :
             (\A i \in 1 .. p : order[i] \notin Ranks!Ours) => \A i \in 1 .. p : sent[i] = order[i]
    <2>1. sent = Ranks!WithinOwnSlots(order, live)
      BY <1>1 DEF Ranks!Desired
    <2> HIDE DEF sent
    <2> QED BY <2>1, RanksHave, WithinIs
  <1>3. order' \in {sent, sent \o left}
    BY DEF Ranks!Puts, Ranks!Dies
  <1>4. left \in Ranks!Orders /\ Ranks!Range(left) = {}
    <2>1. left \in Ranks!Orders /\ Ranks!Range(left) = Ranks!Range(order) \cap (Ranks!Policies \ Ranks!Range(sent))
      BY RanksHave, KeptIs
    <2> HIDE DEF left, sent
    <2> QED BY <1>2, <2>1
  <1> HIDE DEF sent, left
  <1>5. Len(order) \in Nat /\ Len(sent) \in Nat /\ Len(left) \in Nat
    BY <1>2, <1>4, RanksHave, OrdersAre
  <1>6. order' \in Ranks!Orders /\ Ranks!Range(order') = Ranks!Range(sent)
    <2>1. sent \o left \in Ranks!Orders /\ Ranks!Range(sent \o left) = Ranks!Range(sent) \cup Ranks!Range(left)
      BY <1>2, <1>4, JoinedIs
    <2> QED BY <1>2, <1>3, <1>4, <2>1
  <1>7. Len(sent) <= Len(order') /\ \A i \in 1 .. Len(sent) : order'[i] = sent[i]
    <2>1. /\ Len(sent \o left) = Len(sent) + Len(left)
          /\ \A i \in 1 .. Len(sent) : (sent \o left)[i] = sent[i]
      BY <1>2, <1>4, JoinedIs
    <2>2. CASE order' = sent
      BY <1>5, <2>2
    <2>3. CASE order' = sent \o left
      BY <1>5, <2>1, <2>3
    <2> QED BY <1>3, <2>2, <2>3
  <1>8. Len(order') \in Nat /\ \A i \in 1 .. Len(order) : i \in 1 .. Len(sent)
    BY <1>2, <1>5, <1>6, OrdersAre
  <1>9. Len(order) <= Len(order')
    BY <1>2, <1>5, <1>7, <1>8
  <1>10. ASSUME fresh = {}, NEW i \in 1 .. Len(order), order[i] \notin Ranks!Ours PROVE order'[i] = order[i]
    BY <1>2, <1>7, <1>8, <1>10
  <1>11. ASSUME NEW p \in 1 .. Len(order), \A i \in 1 .. p : order[i] \notin Ranks!Ours, NEW i \in 1 .. p
         PROVE  order'[i] = order[i]
    <2>1. i \in 1 .. Len(order)
      BY <1>5
    <2>2. sent[i] = order[i]
      BY <1>2, <1>11
    <2> QED BY <1>7, <1>8, <2>1, <2>2
  <1> HIDE DEF fresh
  <1>12. Ranks!Range(order') = Ranks!Range(order) \cup fresh
    BY <1>2, <1>6
  <1> QED BY <1>6, <1>9, <1>10, <1>11, <1>12 DEF fresh

LEMMA RanksLeaveForeign == RanksInv => Ranks!LeavesForeign
  <1> DEFINE at(o, f) == CHOOSE i \in DOMAIN o : o[i] = f
             fresh == (live \cap Ranks!Ours) \ Ranks!Range(order)
  <1> SUFFICES ASSUME RanksInv, Ranks!Puts, ranking.alone, ~ranking.above, NEW f \in Ranks!Foreign \cap Ranks!Range(order)
               PROVE  /\ f \in Ranks!Range(order')
                      /\ Ranks!Range(order') = Ranks!Range(order) => at(order', f) = at(order, f)
                      /\ (\A i \in 1 .. at(order, f) : order[i] \notin Ranks!Ours) =>
                           \A i \in 1 .. at(order', f) : order'[i] \notin Ranks!Ours
    BY DEF Ranks!LeavesForeign
  <1>1. CASE order' = order
    BY <1>1
  <1>2. CASE order' # order
    <2>1. /\ order' \in Ranks!Orders /\ Ranks!Range(order') = Ranks!Range(order) \cup fresh /\ Len(order) <= Len(order')
          /\ fresh = {} => \A i \in 1 .. Len(order) : order[i] \notin Ranks!Ours => order'[i] = order[i]
          /\ \A p \in 1 .. Len(order) :
               (\A i \in 1 .. p : order[i] \notin Ranks!Ours) => \A i \in 1 .. p : order'[i] = order[i]
      BY <1>2, OrderSent
    <2>2. PICK p \in 1 .. Len(order) : order[p] = f
      BY RanksHave, OrdersAre, RangeIs
    <2>3. order \in Ranks!Orders /\ at(order, f) = p
      BY <2>2, RanksHave, PositionIs
    <2>4. f \notin Ranks!Ours
      BY RankNumbers
    <2>5. p \in 1 .. Len(order')
      <3>1. Len(order) \in Nat /\ Len(order') \in Nat
        BY <2>1, <2>3, OrdersAre
      <3> QED BY <2>1, <2>2, <3>1
    <2>6. order'[p] = f => at(order', f) = p
      BY <2>1, <2>5, PositionIs
    <2>7. p \in 1 .. p
      <3>1. Len(order) \in Nat
        BY <2>3, OrdersAre
      <3> QED BY <2>2, <3>1
    <2> HIDE DEF at
    <2>8. Ranks!Range(order') = Ranks!Range(order) => at(order', f) = p
      <3> SUFFICES ASSUME Ranks!Range(order') = Ranks!Range(order) PROVE order'[p] = f
        BY <2>6
      <3>1. fresh = {}
        BY <2>1
      <3> QED BY <2>1, <2>2, <2>4, <3>1
    <2>9. ASSUME \A i \in 1 .. p : order[i] \notin Ranks!Ours
          PROVE  \A i \in 1 .. at(order', f) : order'[i] \notin Ranks!Ours
      <3>1. \A i \in 1 .. p : order'[i] = order[i]
        BY <2>1, <2>2, <2>9
      <3>2. at(order', f) = p
        BY <2>2, <2>6, <2>7, <3>1
      <3> QED BY <2>9, <3>1, <3>2
    <2>10. f \in Ranks!Range(order')
      BY <2>1
    <2> QED BY <2>3, <2>8, <2>9, <2>10
  <1> QED BY <1>1, <1>2

-----------------------------------------------------------------------------
(* The scripts together. *)

LEMMA ContentStart == Init => ScriptInv
  BY EstateStart, GroupsStart, RanksStart, AlertsStart, TagsStart DEF Init, ScriptInv

\* A step that leaves a script's state alone leaves its invariant alone.
LEMMA EstateStays == EstateInv /\ UNCHANGED estateVars => EstateInv'
  <1> SUFFICES ASSUME EstateInv, UNCHANGED estateVars PROVE EstateInv'
    OBVIOUS
  <1>1. UNCHANGED <<estate, minted, desired, tool, late, teardowns, estateFaults, estateOthers>>
    BY DEF estateVars
  <1>2. EstateShape'
    <2>1. Estate!Live' = Estate!Live
      BY <1>1 DEF Estate!Live
    <2>2. Estate!TypeOK'
      BY <1>1, <2>1 DEF EstateInv, EstateShape, Estate!TypeOK
    <2> QED BY <1>1, <2>2 DEF EstateInv, EstateShape
  <1>3. (tool.pc \in {"each", "readBack"} /\ tool.alone /\ tool.script = "converge" => ConvergedSoFar)'
    BY <1>1 DEF EstateInv, ConvergedSoFar, Stands, Estate!Live, Estate!Named
  <1>4. Estate!AdoptsOrCreatesOne'
    BY <1>1 DEF EstateInv, Estate!AdoptsOrCreatesOne, Estate!Named, Estate!Live
  <1>5. Estate!ConvergedAsDeclared' /\ Estate!TornDownIsGone'
    BY <1>1 DEF EstateInv, Estate!ConvergedAsDeclared, Estate!TornDownIsGone, Estate!AsDeclared, Estate!Over, Estate!Named,
                Estate!Live
  <1> QED BY <1>2, <1>3, <1>4, <1>5 DEF EstateInv

LEMMA GroupsStay == GroupsInv /\ UNCHANGED groupVars => GroupsInv'
  <1> SUFFICES ASSUME GroupsInv, UNCHANGED groupVars PROVE GroupsInv'
    OBVIOUS
  <1>1. UNCHANGED <<placed, group, tiers, file, follow, lastSeen, unsaved, moves, groupFaults>>
    BY DEF groupVars
  <1> QED BY <1>1 DEF GroupsInv, Groups!TypeOK, StampsInv, WantsRight, Groups!ConvergedAsDeclared, Groups!AsPlaced,
                      Groups!GovernedByTier

LEMMA RanksStay == RanksInv /\ UNCHANGED rankVars => RanksInv'
  <1> SUFFICES ASSUME RanksInv, UNCHANGED rankVars PROVE RanksInv'
    OBVIOUS
  <1>1. UNCHANGED <<live, order, vmsGroup, hardware, tiered, ranking, rankOthers, rankFaults>>
    BY DEF rankVars
  <1>2. Ranks!TypeOK'
    BY <1>1 DEF RanksInv, Ranks!TypeOK
  <1>3. ranking.alone => RankedSoFar'
    BY <1>1 DEF RanksInv, RankedSoFar, Bound
  <1>4. Ranks!ConvergedAsDeclared'
    <2>1. Ranks!StrictestFirst' = Ranks!StrictestFirst
      BY <1>1 DEF Ranks!StrictestFirst, Ranks!Rank
    <2> QED BY <1>1, <2>1 DEF RanksInv, Ranks!ConvergedAsDeclared
  <1> QED BY <1>1, <1>2, <1>3, <1>4 DEF RanksInv

LEMMA AlertsStay == AlertsInv /\ UNCHANGED alertVars => AlertsInv'
  <1> SUFFICES ASSUME AlertsInv, UNCHANGED alertVars PROVE AlertsInv'
    OBVIOUS
  <1>1. UNCHANGED <<held, posture, default, deploy, alertOthers, alertFaults>>
    BY DEF alertVars
  <1> QED BY <1>1 DEF AlertsInv, Scope!TypeOK, AlertsSoFar, Scope!AsGenerated, Scope!ConvergedAsDeclared, Scope!Scoped

LEMMA TagsStay == TagsInv /\ UNCHANGED tagVars => TagsInv'
  <1> SUFFICES ASSUME TagsInv, UNCHANGED tagVars PROVE TagsInv'
    OBVIOUS
  <1>1. UNCHANGED <<category, tag, approved, tagging, tagOthers, tagFaults>>
    BY DEF tagVars
  <1> QED BY <1>1 DEF TagsInv, Tags!TypeOK, AtHand, AppliedSoFar, RemovedSoFar, Goal, Tags!Approved,
                      Tags!ConvergedAsDeclared, Tags!TornDownIsGone, Tags!Over

LEMMA ContentStep == ScriptInv /\ [Next]_vars => ScriptInv'
  <1> SUFFICES ASSUME ScriptInv, [Next]_vars PROVE ScriptInv'
    OBVIOUS
  <1>1. UNCHANGED script
    BY DEF Next, vars
  <1>2. script = "estate" => EstateInv'
    BY EstateStep, EstateStays DEF ScriptInv, Next, vars
  <1>3. script = "groups" => GroupsInv'
    BY GroupsStep, GroupsStay DEF ScriptInv, Next, vars
  <1>4. script = "ranking" => RanksInv'
    BY RanksStep, RanksStay DEF ScriptInv, Next, vars
  <1>5. script = "alerts" => AlertsInv'
    BY AlertsStep, AlertsStay DEF ScriptInv, Next, vars
  <1>6. script = "tags" => TagsInv'
    BY TagsStep, TagsStay DEF ScriptInv, Next, vars
  <1> QED BY <1>1, <1>2, <1>3, <1>4, <1>5, <1>6 DEF ScriptInv

\* Every behaviour of the five scripts keeps the invariant.
THEOREM ContentAlways == Spec => []ScriptInv
  BY ContentStart, ContentStep, PTL DEF Spec

\* The state of the script that runs is of its type.
THEOREM ContentTyped == Spec => []TypeOK
  <1>1. ScriptInv => TypeOK
    BY DEF ScriptInv, EstateInv, EstateShape, GroupsInv, RanksInv, AlertsInv, TagsInv, TypeOK
  <1> QED BY <1>1, ContentAlways, PTL

\* Exit 0 of a converge that nobody disturbed means that what the script declares is so (converge of the super metrics,
\* reconcile of the groups and of the policies, deploy of the alerts, apply of the tags).
THEOREM ContentConverges == Spec => []ConvergedAsDeclared
  <1>1. ScriptInv => ConvergedAsDeclared
    BY DEF ScriptInv, EstateInv, GroupsInv, RanksInv, AlertsInv, TagsInv, ConvergedAsDeclared
  <1> QED BY <1>1, ContentAlways, PTL

\* Exit 0 of a teardown that nobody disturbed and whose read-back was answered leaves nothing it declared.
THEOREM ContentTearsDown == Spec => []TornDownIsGone
  <1>1. ScriptInv => TornDownIsGone
    BY DEF ScriptInv, EstateInv, TagsInv, TornDownIsGone
  <1> QED BY <1>1, ContentAlways, PTL

\* What a script did not come for stays: an object that is adopted is kept, a host in use a window ago stays in its group,
\* another team's policy keeps its rank, an alert that fires goes on firing, a tag that people set is not overwritten.
THEOREM ContentSpares == Spec => SparesTheRest
  <1>1. ScriptInv => (script = "estate" => Estate!AdoptsOrCreatesOne)
    BY DEF ScriptInv, EstateInv
  <1>2. ScriptInv /\ [Next]_vars =>
          [CASE script = "estate" -> TRUE [] script = "groups" -> Groups!Holds [] script = "ranking" -> Ranks!LeavesForeign
             [] script = "alerts" -> Scope!KeepsFiring [] script = "tags" -> Tags!Spares]_vars
    <2> SUFFICES ASSUME ScriptInv, Next
                 PROVE  CASE script = "estate" -> TRUE [] script = "groups" -> Groups!Holds
                          [] script = "ranking" -> Ranks!LeavesForeign [] script = "alerts" -> Scope!KeepsFiring
                          [] script = "tags" -> Tags!Spares
      OBVIOUS
    <2>1. script = "groups" => Groups!Holds
      BY GroupsHold DEF ScriptInv
    <2>2. script = "ranking" => Ranks!LeavesForeign
      BY RanksLeaveForeign DEF ScriptInv
    <2>3. script = "alerts" => Scope!KeepsFiring
      BY AlertsKeepFiring DEF ScriptInv, Next
    <2>4. script = "tags" => Tags!Spares
      BY TagsSpare DEF ScriptInv, Next
    <2>5. script \in {"estate", "groups", "ranking", "alerts", "tags"}
      BY DEF ScriptInv
    <2> QED BY <2>1, <2>2, <2>3, <2>4, <2>5
  <1> QED BY <1>1, <1>2, ContentAlways, PTL DEF Spec, SparesTheRest
=============================================================================
