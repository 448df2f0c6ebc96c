----------------------------- MODULE CycleProofs -----------------------------
(***************************************************************************)
(* The cycle leaves nothing behind (OpsCycle!OneFailureLeavesNothing): why *)
(* one failure, wherever it falls, still ends in a teardown that works.    *)
(***************************************************************************)
EXTENDS OpsCycle, FiniteSetTheorems, TLAPS

Tools ==
  [pc : {"idle", "list", "each", "readBack", "readAgain", "exit0", "exit1"}, script : {"converge", "dryRun", "teardown"},
   plan : [Declared -> [do : {"create", "unchanged", "update", "absent", "delete"}, id : 0 .. MaxId]],
   todo : SUBSET Declared, name : Declared, id : 0 .. MaxId, failed : BOOLEAN, deleted : BOOLEAN, wrote : BOOLEAN,
   alone : BOOLEAN, checked : BOOLEAN, top : 0 .. MaxId]

Cycles ==
  [pc : DOMAIN ScriptOf \cup Reads \cup CycleExits \cup {"start", "edit", "delete", "residue"}, waits : BOOLEAN,
   created : BOOLEAN, ids : [Declared -> 0 .. MaxId], kept : BOOLEAN, changed : BOOLEAN, noop : BOOLEAN, lost : BOOLEAN]

\* What the promise is made under: at most one failure, nobody else, no write without an answer, one page that holds all.
Quiet == faults <= 1 /\ others = 0 /\ ~cycle.lost /\ MaxId <= PageSize

Missing == {n \in Declared : Named(n) = {}}

\* The names of a run that are yet to come are as they were listed, each at most once.
Planned ==
  \A n \in tool.todo :
    /\ IF tool.plan[n].id = 0 THEN Named(n) = {} ELSE tool.plan[n].id \in Named(n)
    /\ tool.plan[n].do \in IF tool.script = "teardown"
                           THEN IF tool.plan[n].id = 0 THEN {"absent"} ELSE {"delete"}
                           ELSE IF tool.plan[n].id = 0 THEN {"create"} ELSE {"unchanged", "update"}

CycleShape ==
  /\ estate \in [Ids -> SuperMetric \cup {Absent}] /\ Live \subseteq 1 .. minted
  /\ desired \in [Declared -> Contents] /\ faults \in {0, 1} /\ late = {}
  /\ \A n \in Declared : \A i, j \in Named(n) : i = j

\* How the script that was started stands to the step of the cycle.
RunShape ==
  /\ ~cycle.waits => ~Running
  /\ cycle.waits => tool.script = ScriptOf[cycle.pc] /\ tool.pc # "idle"
  /\ tool.pc \in {"each", "readBack"} => tool.script # "dryRun" /\ Planned
  /\ tool.pc = "list" => tool.todo = Declared /\ ~tool.failed /\ ~tool.deleted
  /\ tool.pc = "readBack" => tool.script = "converge" /\ tool.name \notin tool.todo
  /\ tool.deleted \/ tool.pc = "readAgain" => tool.script = "teardown"
  /\ tool.failed \/ tool.pc = "exit1" => faults = 1

\* As long as nothing failed, a converge gets each name there and has ids left for it.
ConvergeGoesRight ==
  faults = 0 =>
    /\ cycle.waits /\ tool.script = "converge" /\ tool.pc \in {"each", "readBack"} =>
         \A n \in Declared \ tool.todo : Named(n) # {}
    /\ cycle.waits /\ tool.script = "converge" /\ tool.pc = "exit0" => Missing = {}
    /\ tool.pc = "readBack" => tool.id \in Named(tool.name) /\ estate[tool.id].content = desired[tool.name]
    /\ cycle.pc \in {"readDrift", "delete"} => Missing = {}
    /\ cycle.pc = "delete" => cycle.ids[Other] \in Named(Other)
    /\ cycle.pc \in {"start", "dry", "first", "readCreate", "second", "edit", "drift", "readDrift", "delete"} =>
         minted + Cardinality(Missing) <= Cardinality(Declared)
    /\ cycle.pc = "recreate" => minted + Cardinality(Missing) <= Cardinality(Declared) + 1

\* A teardown: what is behind it is gone, unless the one failure fell in this run, which then does not end well.
TeardownGoesRight ==
  cycle.waits /\ tool.script = "teardown" =>
    /\ tool.pc \in {"each", "readAgain"} =>
         \A n \in Declared \ tool.todo :
           Named(n) = {} \/ (faults = 1 /\ cycle.pc = "teardown" /\ (tool.failed \/ tool.deleted))
    /\ tool.pc = "readAgain" => tool.todo = {}
    /\ tool.pc = "exit0" => Gone
    /\ cycle.pc = "final" => ~tool.failed /\ tool.pc # "exit1"

CycleGoesRight ==
  /\ cycle.pc = "final" => faults = 1
  /\ cycle.pc \in {"start", "dry", "adopt", "residue"} => ~cycle.created
  /\ cycle.waits /\ ~cycle.created => tool.script = "dryRun"
  /\ ~cycle.created => cycle.pc \in {"start", "dry", "first", "adopt", "residue"} \cup CycleExits
  /\ ~cycle.created \/ Ended => Gone

QuietInv == CycleShape /\ RunShape /\ ConvergeGoesRight /\ TeardownGoesRight /\ CycleGoesRight

\* The types that hold of every cycle, quiet or not.
CycleTyped ==
  /\ minted \in 0 .. MaxId /\ tool \in Tools /\ cycle \in Cycles
  /\ cycle.waits => cycle.pc \in DOMAIN ScriptOf
  /\ faults \in Nat /\ others \in Nat

CycleInv == CycleTyped /\ (Quiet => QuietInv)

-----------------------------------------------------------------------------
(* What the operators of the estate come to. *)

LEMMA CycleNumbers ==
  /\ PageSize \in Nat /\ MaxId \in Nat /\ MaxTeardowns \in Nat /\ MaxFaults \in Nat /\ MaxOthers \in Nat
  /\ Declared # {} /\ Declared \subseteq Names /\ Absent \notin SuperMetric /\ Other \in Declared
  /\ IsFiniteSet(Declared) /\ Cardinality(Declared) \in Nat /\ Cardinality(Declared) < MaxId
  <1>1. Cardinality(Declared) \in Nat
    BY CycleAssumption, FS_CardinalityType
  <1> QED BY <1>1, CycleAssumption DEF EstateAssumption, Names, SuperMetric

\* The one page that is listed holds all there is.
LEMMA PageIsWhole ==
  ASSUME NEW shown \in Pages, MaxId <= PageSize
  PROVE  shown = Live
  <1>1. IsFiniteSet(1 .. MaxId) /\ Cardinality(1 .. MaxId) = MaxId
    <2>1. 1 \in Int /\ MaxId \in Int /\ MaxId \in Nat
      BY CycleNumbers
    <2>2. IsFiniteSet(1 .. MaxId) /\ Cardinality(1 .. MaxId) = IF 1 > MaxId THEN 0 ELSE MaxId - 1 + 1
      BY <2>1, FS_Interval
    <2> QED BY <2>1, <2>2
  <1>2. Live \in SUBSET (1 .. MaxId) /\ shown \in SUBSET Live
    BY DEF Live, Ids, Pages
  <1>3. IsFiniteSet(Live) /\ Cardinality(Live) \in Nat /\ Cardinality(Live) <= MaxId
    BY <1>1, <1>2, FS_Subset, FS_CardinalityType
  <1>4. Cardinality(shown) \in Nat /\ Cardinality(shown) <= Cardinality(Live)
        /\ (Cardinality(shown) = Cardinality(Live) => shown = Live)
    BY <1>2, <1>3, FS_Subset, FS_CardinalityType
  <1>5. Cardinality(shown) = PageSize \/ shown = Live
    BY DEF Pages
  <1> QED BY <1>3, <1>4, <1>5, CycleNumbers

\* A name is listed exactly when there is an object of it.
LEMMA ListingIs ==
  ASSUME NEW found \in Listings, MaxId <= PageSize
  PROVE  /\ found \in [Declared -> 0 .. MaxId]
         /\ \A n \in Declared : IF found[n] = 0 THEN Named(n) = {} ELSE found[n] \in Named(n)
  <1>1. PICK shown \in Pages : \A n \in Declared :
          IF Named(n) \cap shown = {} THEN found[n] = 0 ELSE found[n] \in Named(n) \cap shown
    BY DEF Listings
  <1>2. found \in [Declared -> 0 .. MaxId]
    BY DEF Listings
  <1>3. shown = Live
    BY PageIsWhole
  <1>4. \A n \in Declared : Named(n) \subseteq Live /\ 0 \notin Named(n)
    BY CycleNumbers DEF Named, Live, Ids
  <1> QED BY <1>1, <1>2, <1>3, <1>4

\* The record of a run that begins, and of one that never was.
LEMMA FreshTool ==
  ASSUME NEW s \in {"converge", "dryRun", "teardown"}
  PROVE  /\ \A t \in {Fresh(s), [Fresh(s) EXCEPT !.pc = "idle"]} :
              t \in Tools /\ t.script = s /\ t.todo = Declared /\ ~t.failed /\ ~t.deleted
         /\ Fresh(s).pc = "list" /\ [Fresh(s) EXCEPT !.pc = "idle"].pc = "idle"
  <1> DEFINE first == CHOOSE n \in Declared : TRUE
             plan == [n \in Declared |-> [do |-> "absent", id |-> 0]]
             base == [pc |-> "list", script |-> s, plan |-> plan, todo |-> Declared, name |-> first, id |-> 0,
                      failed |-> FALSE, deleted |-> FALSE, wrote |-> FALSE, alone |-> FALSE, checked |-> FALSE, top |-> 0]
             never == [base EXCEPT !.pc = "idle"]
  <1>1. first \in Declared
    BY CycleNumbers
  <1> HIDE DEF first
  <1>2. plan \in [Declared -> [do : {"create", "unchanged", "update", "absent", "delete"}, id : 0 .. MaxId]]
    BY CycleNumbers
  <1>3. Fresh(s) = base
    BY DEF Fresh, first
  <1> HIDE DEF plan
  <1>4. base \in Tools /\ never \in Tools
    <2>1. 0 \in 0 .. MaxId /\ Declared \in SUBSET Declared
      BY CycleNumbers
    <2>2. base \in Tools
      BY <1>1, <1>2, <2>1 DEF Tools
    <2>3. never \in Tools
      BY <1>1, <1>2, <2>1 DEF Tools
    <2> QED BY <2>2, <2>3
  <1>5. \A t \in {base, never} : t.script = s /\ t.todo = Declared /\ ~t.failed /\ ~t.deleted
    OBVIOUS
  <1>6. base.pc = "list" /\ never.pc = "idle"
    OBVIOUS
  <1> HIDE DEF base
  <1>7. [Fresh(s) EXCEPT !.pc = "idle"] = never
    BY <1>3
  <1> HIDE DEF never
  <1> QED BY <1>3, <1>4, <1>5, <1>6, <1>7

\* Names without an object can be counted.
LEMMA MissingCounted ==
  /\ IsFiniteSet(Missing) /\ Cardinality(Missing) \in Nat
  /\ IsFiniteSet(Missing') /\ Cardinality(Missing') \in Nat
  /\ Missing \subseteq Declared /\ Missing' \subseteq Declared
  <1>1. Missing \in SUBSET Declared /\ Missing' \in SUBSET Declared
    BY DEF Missing
  <1>2. IsFiniteSet(Missing) /\ IsFiniteSet(Missing')
    BY <1>1, FS_Subset, CycleNumbers
  <1> QED BY <1>1, <1>2, FS_CardinalityType

\* Where nothing is written nothing else changes.
LEMMA SameEstate ==
  ASSUME UNCHANGED estate
  PROVE  Live' = Live /\ (\A n : Named(n)' = Named(n)) /\ Missing' = Missing /\ (Gone' <=> Gone)
  BY DEF Live, Named, Missing, Gone


-----------------------------------------------------------------------------
(* The types, and that a cycle which is still quiet always was. *)

LEMMA PlanTyped ==
  ASSUME NEW found \in Listings
  PROVE  [n \in Declared |-> [do |-> Plan(tool.script, n, found[n]), id |-> found[n]]] \in
           [Declared -> [do : {"create", "unchanged", "update", "absent", "delete"}, id : 0 .. MaxId]]
  <1>1. found \in [Declared -> 0 .. MaxId]
    BY DEF Listings
  <1>2. \A n \in Declared : Plan(tool.script, n, found[n]) \in {"create", "unchanged", "update", "absent", "delete"}
    BY DEF Plan
  <1> QED BY <1>1, <1>2

LEMMA TypedListing ==
  ASSUME CycleTyped, Lists
  PROVE  tool' \in Tools
  <1>1. PICK found \in Listings :
          tool' = [tool EXCEPT !.pc = IF tool.script = "dryRun" THEN "exit0" ELSE "each", !.alone = TRUE, !.top = minted,
                    !.plan = [n \in Declared |-> [do |-> Plan(tool.script, n, found[n]), id |-> found[n]]]]
    BY DEF Lists
  <1> DEFINE plan == [n \in Declared |-> [do |-> Plan(tool.script, n, found[n]), id |-> found[n]]]
             pc == IF tool.script = "dryRun" THEN "exit0" ELSE "each"
  <1>2. plan \in [Declared -> [do : {"create", "unchanged", "update", "absent", "delete"}, id : 0 .. MaxId]]
    BY PlanTyped
  <1>3. pc \in {"exit0", "each"}
    OBVIOUS
  <1>4. tool' = [tool EXCEPT !.pc = pc, !.alone = TRUE, !.top = minted, !.plan = plan]
    BY <1>1
  <1> HIDE DEF plan, pc
  <1> QED BY <1>2, <1>3, <1>4 DEF CycleTyped, Tools

\* A run's record after a name is done with, in each way.
LEMMA TypedDone ==
  ASSUME tool \in Tools, NEW n \in Declared
  PROVE  /\ \A bad \in BOOLEAN : Done(n, bad) =>
              /\ tool' \in Tools /\ tool'.pc = "each" /\ tool'.todo = tool.todo \ {n} /\ tool'.plan = tool.plan
              /\ tool'.script = tool.script /\ tool'.deleted = tool.deleted /\ (tool'.failed <=> tool.failed \/ bad)
         /\ \A i \in 0 .. MaxId : Wrote(n, i) =>
              /\ tool' \in Tools /\ tool'.pc = "readBack" /\ tool'.todo = tool.todo \ {n} /\ tool'.plan = tool.plan
              /\ tool'.script = tool.script /\ tool'.deleted = tool.deleted /\ (tool'.failed <=> tool.failed)
              /\ tool'.name = n /\ tool'.id = i
         /\ Deleted(n) =>
              /\ tool' \in Tools /\ tool'.pc = tool.pc /\ tool'.todo = tool.todo \ {n} /\ tool'.plan = tool.plan
              /\ tool'.script = tool.script /\ tool'.deleted /\ (tool'.failed <=> tool.failed)
  <1>1. ASSUME NEW bad \in BOOLEAN, Done(n, bad)
        PROVE  /\ tool' \in Tools /\ tool'.pc = "each" /\ tool'.todo = tool.todo \ {n} /\ tool'.plan = tool.plan
               /\ tool'.script = tool.script /\ tool'.deleted = tool.deleted /\ (tool'.failed <=> tool.failed \/ bad)
    <2> DEFINE failed == tool.failed \/ bad
    <2>1. (tool.failed \/ bad) \in BOOLEAN
      BY DEF Tools
    <2>2. tool' = [tool EXCEPT !.todo = @ \ {n}, !.failed = failed, !.pc = "each"]
      BY <1>1 DEF Done
    <2>3. failed \in BOOLEAN /\ (failed <=> tool.failed \/ bad)
      BY <2>1
    <2> HIDE DEF failed
    <2>4. /\ tool' \in Tools /\ tool'.pc = "each" /\ tool'.todo = tool.todo \ {n} /\ tool'.plan = tool.plan
          /\ tool'.script = tool.script /\ tool'.deleted = tool.deleted /\ tool'.failed = failed
      BY <2>2, <2>3 DEF Tools
    <2> QED BY <2>3, <2>4
  <1>2. ASSUME NEW i \in 0 .. MaxId, Wrote(n, i)
        PROVE  /\ tool' \in Tools /\ tool'.pc = "readBack" /\ tool'.todo = tool.todo \ {n} /\ tool'.plan = tool.plan
               /\ tool'.script = tool.script /\ tool'.deleted = tool.deleted /\ (tool'.failed <=> tool.failed)
               /\ tool'.name = n /\ tool'.id = i
    BY <1>2 DEF Wrote, Tools
  <1>3. ASSUME Deleted(n)
        PROVE  /\ tool' \in Tools /\ tool'.pc = tool.pc /\ tool'.todo = tool.todo \ {n} /\ tool'.plan = tool.plan
               /\ tool'.script = tool.script /\ tool'.deleted /\ (tool'.failed <=> tool.failed)
    BY <1>3 DEF Deleted, Tools
  <1> QED BY <1>1, <1>2, <1>3

\* A run's record when it is over.
LEMMA TypedOver ==
  ASSUME tool \in Tools, NEW bad \in BOOLEAN, NEW checked \in BOOLEAN,
         tool' = [tool EXCEPT !.checked = checked, !.pc = Verdict(bad)]
  PROVE  /\ tool' \in Tools /\ tool'.pc = (IF bad THEN "exit1" ELSE "exit0") /\ tool'.script = tool.script
         /\ tool'.todo = tool.todo /\ tool'.failed = tool.failed /\ tool'.deleted = tool.deleted
  <1>1. tool' = [tool EXCEPT !.checked = checked, !.pc = IF bad THEN "exit1" ELSE "exit0"]
    BY DEF Verdict
  <1> QED BY <1>1 DEF Tools

\* How the run that reads again ends.
LEMMA ReadAgainIs ==
  ASSUME CycleTyped, ReadsAgain
  PROVE  \E bad \in BOOLEAN :
           /\ tool' \in Tools /\ tool'.pc = (IF bad THEN "exit1" ELSE "exit0") /\ tool'.script = tool.script
           /\ tool'.todo = tool.todo /\ tool'.failed = tool.failed /\ tool'.deleted = tool.deleted
           /\ \/ \E shown \in Pages :
                   UNCHANGED faults /\ (bad <=> tool.failed \/ \E n \in Declared : Named(n) \cap shown # {})
              \/ Fault /\ (bad <=> tool.failed)
  <1>1. tool \in Tools /\ tool.failed \in BOOLEAN
    BY DEF CycleTyped, Tools
  <1>2. ASSUME NEW shown \in Pages, UNCHANGED faults,
               tool' = [tool EXCEPT !.checked = TRUE,
                         !.pc = Verdict(tool.failed \/ \E n \in Declared : Named(n) \cap shown # {})]
        PROVE  \E bad \in BOOLEAN :
                 /\ tool' \in Tools /\ tool'.pc = (IF bad THEN "exit1" ELSE "exit0") /\ tool'.script = tool.script
                 /\ tool'.todo = tool.todo /\ tool'.failed = tool.failed /\ tool'.deleted = tool.deleted
                 /\ UNCHANGED faults /\ (bad <=> tool.failed \/ \E n \in Declared : Named(n) \cap shown # {})
    <2> DEFINE left == \E n \in Declared : Named(n) \cap shown # {}
               bad == tool.failed \/ left
    <2>1. bad \in BOOLEAN /\ (bad <=> tool.failed \/ left)
      BY <1>1
    <2>2. tool' = [tool EXCEPT !.checked = TRUE, !.pc = Verdict(bad)]
      BY <1>2
    <2> HIDE DEF bad
    <2>3. /\ tool' \in Tools /\ tool'.pc = (IF bad THEN "exit1" ELSE "exit0") /\ tool'.script = tool.script
          /\ tool'.todo = tool.todo /\ tool'.failed = tool.failed /\ tool'.deleted = tool.deleted
      BY <1>1, <2>1, <2>2, TypedOver
    <2> QED BY <1>2, <2>1, <2>3
  <1>3. ASSUME Fault, tool' = [tool EXCEPT !.pc = Verdict(tool.failed)]
        PROVE  \E bad \in BOOLEAN :
                 /\ tool' \in Tools /\ tool'.pc = (IF bad THEN "exit1" ELSE "exit0") /\ tool'.script = tool.script
                 /\ tool'.todo = tool.todo /\ tool'.failed = tool.failed /\ tool'.deleted = tool.deleted
                 /\ Fault /\ (bad <=> tool.failed)
    <2> DEFINE bad == tool.failed
    <2>1. tool' = [tool EXCEPT !.pc = Verdict(bad)] /\ bad \in BOOLEAN /\ (bad <=> tool.failed)
      BY <1>1, <1>3
    <2> HIDE DEF bad
    <2>2. tool' = [tool EXCEPT !.pc = IF bad THEN "exit1" ELSE "exit0"]
      BY <2>1 DEF Verdict
    <2>3. /\ tool' \in Tools /\ tool'.pc = (IF bad THEN "exit1" ELSE "exit0") /\ tool'.script = tool.script
          /\ tool'.todo = tool.todo /\ tool'.failed = tool.failed /\ tool'.deleted = tool.deleted
      BY <1>1, <2>1, <2>2 DEF Tools
    <2> QED BY <1>3, <2>1, <2>3
  <1> QED BY <1>2, <1>3 DEF ReadsAgain

LEMMA EndIs ==
  ASSUME CycleTyped, Ends
  PROVE  /\ tool' \in Tools /\ tool'.script = tool.script /\ tool'.todo = tool.todo
         /\ tool'.pc = (IF tool.deleted THEN "readAgain" ELSE IF tool.failed THEN "exit1" ELSE "exit0")
         /\ tool'.failed = tool.failed /\ tool'.deleted = tool.deleted
  <1> DEFINE pc == IF tool.deleted THEN "readAgain" ELSE IF tool.failed THEN "exit1" ELSE "exit0"
  <1>1. tool' = [tool EXCEPT !.pc = pc]
    BY DEF Ends, Verdict
  <1>2. pc \in {"readAgain", "exit1", "exit0"}
    OBVIOUS
  <1> HIDE DEF pc
  <1>3. tool' \in Tools /\ tool'.pc = pc /\ tool'.script = tool.script /\ tool'.todo = tool.todo
        /\ tool'.failed = tool.failed /\ tool'.deleted = tool.deleted
    BY <1>1, <1>2 DEF CycleTyped, Tools
  <1> QED BY <1>3 DEF pc

LEMMA TypedTool ==
  ASSUME CycleTyped, ToolStep
  PROVE  tool' \in Tools /\ minted' \in 0 .. MaxId /\ faults' \in Nat /\ faults <= faults' /\ UNCHANGED others
  <1>0. tool \in Tools /\ minted \in 0 .. MaxId /\ faults \in Nat /\ TRUE \in BOOLEAN /\ FALSE \in BOOLEAN
    BY DEF CycleTyped
  <1>1. Fault \/ UNCHANGED faults => faults' \in Nat /\ faults <= faults'
    BY <1>0 DEF Fault
  <1>2. CASE Lists
    BY <1>0, <1>1, <1>2, TypedListing DEF Lists, Looks
  <1>3. ASSUME NEW n \in Declared, Passes(n) \/ Refused(n) PROVE
          tool' \in Tools /\ minted' \in 0 .. MaxId /\ faults' \in Nat /\ faults <= faults' /\ UNCHANGED others
    BY <1>0, <1>1, <1>3, TypedDone DEF Passes, Refused, Looks, Rest
  <1>4. ASSUME NEW n \in Declared, Creates(n) PROVE
          tool' \in Tools /\ minted' \in 0 .. MaxId /\ faults' \in Nat /\ faults <= faults' /\ UNCHANGED others
    <2>1. minted < MaxId /\ minted + 1 \in 0 .. MaxId /\ 0 \in 0 .. MaxId
      BY <1>0, <1>4, CycleNumbers DEF Creates
    <2>2. /\ (Wrote(n, minted + 1) /\ minted' = minted + 1) \/ (Wrote(n, 0) /\ UNCHANGED minted)
          /\ Fault \/ UNCHANGED faults
          /\ UNCHANGED others
      BY <1>4 DEF Creates, Rest
    <2> QED BY <1>0, <1>1, <2>1, <2>2, TypedDone
  <1>5. ASSUME NEW n \in Declared, Updates(n) PROVE
          tool' \in Tools /\ minted' \in 0 .. MaxId /\ faults' \in Nat /\ faults <= faults' /\ UNCHANGED others
    <2>1. tool.plan[n].id \in 0 .. MaxId
      BY <1>0 DEF Tools
    <2> QED BY <1>0, <1>1, <1>5, <2>1, TypedDone DEF Updates, Rest
  <1>6. CASE ReadsBack
    <2> DEFINE bad == ~(tool.id \in Named(tool.name) /\ estate[tool.id].content = desired[tool.name])
    <2>1. bad \in BOOLEAN /\ tool.name \in Declared
      BY <1>0 DEF Tools
    <2>2. Done(tool.name, bad) \/ Done(tool.name, TRUE)
      BY <1>6 DEF ReadsBack
    <2> HIDE DEF bad
    <2>3. tool' \in Tools
      BY <1>0, <2>1, <2>2, TypedDone
    <2> QED BY <1>0, <1>1, <1>6, <2>3 DEF ReadsBack, Rest
  <1>7. CASE Ends
    BY <1>0, <1>1, <1>7, EndIs DEF Ends, Looks
  <1>8. ASSUME NEW n \in Declared, Deletes(n) PROVE
          tool' \in Tools /\ minted' \in 0 .. MaxId /\ faults' \in Nat /\ faults <= faults' /\ UNCHANGED others
    BY <1>0, <1>1, <1>8, TypedDone DEF Deletes, Rest
  <1>9. CASE ReadsAgain
    <2>1. tool' \in Tools
      BY <1>9, ReadAgainIs
    <2> QED BY <1>0, <1>1, <1>9, <2>1 DEF ReadsAgain, Rest
  <1> QED BY <1>2, <1>3, <1>4, <1>5, <1>6, <1>7, <1>8, <1>9 DEF ToolStep, Converge


\* A failure ends the step, and what may have been created is torn down.
LEMMA FailsIs ==
  ASSUME cycle \in Cycles, Fails
  PROVE  /\ cycle' \in Cycles /\ ~cycle'.waits /\ cycle'.pc = (IF cycle.created THEN "final" ELSE "exit1")
         /\ (cycle'.created <=> cycle.created) /\ cycle'.ids = cycle.ids /\ (cycle'.lost <=> cycle.lost)
  <1> DEFINE pc == IF cycle.created THEN "final" ELSE "exit1"
  <1>1. cycle' = [cycle EXCEPT !.waits = FALSE, !.pc = pc] /\ pc \in {"final", "exit1"}
    BY DEF Fails
  <1> HIDE DEF pc
  <1>2. pc \in DOMAIN ScriptOf \cup Reads \cup CycleExits \cup {"start", "edit", "delete", "residue"}
    BY <1>1 DEF ScriptOf, CycleExits
  <1>3. /\ cycle' \in Cycles /\ ~cycle'.waits /\ cycle'.pc = pc
        /\ (cycle'.created <=> cycle.created) /\ cycle'.ids = cycle.ids /\ (cycle'.lost <=> cycle.lost)
    BY <1>1, <1>2 DEF Cycles
  <1> QED BY <1>3 DEF pc

\* The parts of a cycle's record that a step leaves alone: that nothing was lost is one of them.
LEMMA BeginIs ==
  ASSUME cycle \in Cycles, Begins
  PROVE  /\ cycle' \in Cycles /\ cycle'.lost = cycle.lost /\ Now("start") /\ ~cycle'.waits
         /\ \/ /\ UNCHANGED vars /\ cycle'.pc \in {"dry", "refused"} /\ cycle'.created = cycle.created
            \/ CycleFault /\ Fails
  <1>1. CASE CycleFault /\ Fails
    BY <1>1, FailsIs DEF Begins, Cycles
  <1>2. ASSUME UNCHANGED vars, NEW found \in Listings,
               cycle' = [cycle EXCEPT !.pc = IF found = None THEN "dry" ELSE "refused"]
        PROVE  /\ cycle' \in Cycles /\ cycle'.lost = cycle.lost /\ Now("start") /\ ~cycle'.waits
               /\ UNCHANGED vars /\ cycle'.pc \in {"dry", "refused"} /\ cycle'.created = cycle.created
    <2> DEFINE pc == IF found = None THEN "dry" ELSE "refused"
    <2>1. cycle' = [cycle EXCEPT !.pc = pc] /\ pc \in {"dry", "refused"}
      BY <1>2
    <2> HIDE DEF pc
    <2>2. pc \in DOMAIN ScriptOf \cup Reads \cup CycleExits \cup {"start", "edit", "delete", "residue"}
      BY <2>1 DEF ScriptOf, CycleExits
    <2>3. cycle' \in Cycles /\ cycle'.lost = cycle.lost /\ cycle'.waits = cycle.waits /\ cycle'.pc = pc
          /\ cycle'.created = cycle.created
      BY <2>1, <2>2 DEF Cycles
    <2> QED BY <1>2, <2>1, <2>3 DEF Begins, Now
  <1> QED BY <1>1, <1>2 DEF Begins

LEMMA RunsIs ==
  ASSUME cycle \in Cycles, RunsStep
  PROVE  /\ cycle' \in Cycles /\ cycle'.lost = cycle.lost /\ cycle'.waits /\ cycle'.pc = cycle.pc
         /\ cycle'.ids = cycle.ids /\ (cycle'.created <=> cycle.created \/ cycle.pc = "first")
         /\ ScriptOf[cycle.pc] \in {"converge", "dryRun", "teardown"}
  <1> DEFINE created == cycle.created \/ cycle.pc = "first"
  <1>1. (cycle.created \/ cycle.pc = "first") \in BOOLEAN
    BY DEF Cycles
  <1>2. cycle' = [cycle EXCEPT !.waits = TRUE, !.created = created]
    BY DEF RunsStep
  <1>3. created \in BOOLEAN /\ (created <=> cycle.created \/ cycle.pc = "first")
    BY <1>1
  <1> HIDE DEF created
  <1>4. cycle' \in Cycles /\ cycle'.lost = cycle.lost /\ cycle'.waits /\ cycle'.pc = cycle.pc
        /\ cycle'.ids = cycle.ids /\ cycle'.created = created
    BY <1>2, <1>3 DEF Cycles
  <1>5. cycle.pc \in {"dry", "first", "second", "drift", "recreate", "teardown", "adopt", "final"}
    BY DEF RunsStep, ScriptOf
  <1>6. ScriptOf[cycle.pc] \in {"converge", "dryRun", "teardown"}
    BY <1>5 DEF ScriptOf
  <1> QED BY <1>3, <1>4, <1>6

LEMMA DoneIs ==
  ASSUME cycle \in Cycles, tool \in Tools, StepDone, cycle.pc \in DOMAIN ScriptOf
  PROVE  /\ cycle' \in Cycles /\ cycle'.lost = cycle.lost /\ ~cycle'.waits /\ cycle'.pc = After[cycle.pc]
         /\ cycle'.ids = cycle.ids /\ (cycle'.created <=> cycle.created /\ cycle.pc # "teardown")
         /\ cycle.pc \in {"dry", "first", "second", "drift", "recreate", "teardown", "adopt"}
  <1> DEFINE created == cycle.created /\ cycle.pc # "teardown"
             noop == IF cycle.pc = "second" THEN ~tool.wrote ELSE cycle.noop
             pc == After[cycle.pc]
  <1>1. (cycle.created /\ cycle.pc # "teardown") \in BOOLEAN
    BY DEF Cycles
  <1>2. cycle' = [cycle EXCEPT !.waits = FALSE, !.pc = pc, !.created = created, !.noop = noop]
    BY DEF StepDone
  <1>3. created \in BOOLEAN /\ (created <=> cycle.created /\ cycle.pc # "teardown")
    BY <1>1
  <1>4. noop \in BOOLEAN
    <2>1. (~tool.wrote) \in BOOLEAN /\ cycle.noop \in BOOLEAN
      BY DEF Cycles, Tools
    <2> QED BY <2>1
  <1>5. cycle.pc \in {"dry", "first", "second", "drift", "recreate", "teardown", "adopt"}
    BY DEF StepDone, ScriptOf
  <1>6. pc \in DOMAIN ScriptOf \cup Reads \cup CycleExits \cup {"start", "edit", "delete", "residue"}
    BY <1>5 DEF After, ScriptOf, Reads
  <1> HIDE DEF created, noop, pc
  <1>7. cycle' \in Cycles /\ cycle'.lost = cycle.lost /\ ~cycle'.waits /\ cycle'.pc = pc
        /\ cycle'.ids = cycle.ids /\ cycle'.created = created
    BY <1>2, <1>3, <1>4, <1>6 DEF Cycles
  <1> QED BY <1>3, <1>5, <1>7 DEF pc

LEMMA FinalIs ==
  ASSUME cycle \in Cycles, FinalEnds
  PROVE  /\ cycle' \in Cycles /\ cycle'.lost = cycle.lost /\ ~cycle'.waits /\ cycle'.pc = "exit1"
         /\ cycle'.ids = cycle.ids /\ cycle'.created = cycle.created
  <1>1. "exit1" \in DOMAIN ScriptOf \cup Reads \cup CycleExits \cup {"start", "edit", "delete", "residue"}
    BY DEF CycleExits
  <1> QED BY <1>1 DEF FinalEnds, Cycles

LEMMA ReadIs ==
  ASSUME cycle \in Cycles, ReadsIds
  PROVE  /\ cycle' \in Cycles /\ cycle'.lost = cycle.lost
         /\ \/ /\ UNCHANGED vars /\ cycle'.created = cycle.created /\ cycle'.waits = cycle.waits
               /\ \E found \in Listings :
                    \/ Now("readCreate") /\ cycle'.pc = "second"
                    \/ Now("readDrift") /\ cycle'.pc = "delete" /\ cycle'.ids = found
                    \/ cycle.pc \in Reads /\ ~Now("readCreate") /\ ~Now("readDrift") /\ cycle'.pc = "teardown"
            \/ CycleFault /\ Fails /\ cycle.pc \in Reads
  <1>1. CASE CycleFault /\ Fails
    BY <1>1, FailsIs DEF ReadsIds, Cycles
  <1>2. ASSUME UNCHANGED vars, NEW found \in Listings, cycle.pc \in Reads,
               cycle' = CASE Now("readCreate") -> [cycle EXCEPT !.pc = "second", !.ids = found]
                          [] Now("readDrift") -> [cycle EXCEPT !.pc = "delete", !.ids = found,
                                                               !.kept = found # None /\ found = cycle.ids]
                          [] OTHER -> [cycle EXCEPT !.pc = "teardown",
                                                    !.changed = found[Other] \notin {0, cycle.ids[Other]}]
        PROVE  /\ cycle' \in Cycles /\ cycle'.lost = cycle.lost
               /\ UNCHANGED vars /\ cycle'.created = cycle.created /\ cycle'.waits = cycle.waits
               /\ \/ Now("readCreate") /\ cycle'.pc = "second"
                  \/ Now("readDrift") /\ cycle'.pc = "delete" /\ cycle'.ids = found
                  \/ cycle.pc \in Reads /\ ~Now("readCreate") /\ ~Now("readDrift") /\ cycle'.pc = "teardown"
    <2>1. found \in [Declared -> 0 .. MaxId]
      BY DEF Listings
    <2>2. {"second", "delete", "teardown"} \subseteq
             DOMAIN ScriptOf \cup Reads \cup CycleExits \cup {"start", "edit", "delete", "residue"}
      BY DEF ScriptOf
    <2> DEFINE kept == found # None /\ found = cycle.ids
               changed == found[Other] \notin {0, cycle.ids[Other]}
    <2>3. kept \in BOOLEAN /\ changed \in BOOLEAN
      OBVIOUS
    <2>4. Now("readCreate") => ~Now("readDrift")
      BY DEF Now
    <2>5. \/ Now("readCreate") /\ cycle' = [cycle EXCEPT !.pc = "second", !.ids = found]
          \/ Now("readDrift") /\ cycle' = [cycle EXCEPT !.pc = "delete", !.ids = found, !.kept = kept]
          \/ ~Now("readCreate") /\ ~Now("readDrift") /\ cycle' = [cycle EXCEPT !.pc = "teardown", !.changed = changed]
      BY <1>2, <2>4
    <2> HIDE DEF kept, changed
    <2>6. CASE Now("readCreate") /\ cycle' = [cycle EXCEPT !.pc = "second", !.ids = found]
      BY <1>2, <2>1, <2>2, <2>6 DEF Cycles
    <2>7. CASE Now("readDrift") /\ cycle' = [cycle EXCEPT !.pc = "delete", !.ids = found, !.kept = kept]
      BY <1>2, <2>1, <2>2, <2>3, <2>7 DEF Cycles
    <2>8. CASE ~Now("readCreate") /\ ~Now("readDrift") /\ cycle' = [cycle EXCEPT !.pc = "teardown", !.changed = changed]
      BY <1>2, <2>2, <2>3, <2>8 DEF Cycles
    <2> QED BY <2>5, <2>6, <2>7, <2>8
  <1>3. cycle.pc \in Reads
    BY DEF ReadsIds
  <1>4. (CycleFault /\ Fails) \/ (UNCHANGED vars /\ \E found \in Listings :
             cycle' = CASE Now("readCreate") -> [cycle EXCEPT !.pc = "second", !.ids = found]
                        [] Now("readDrift") -> [cycle EXCEPT !.pc = "delete", !.ids = found,
                                                             !.kept = found # None /\ found = cycle.ids]
                        [] OTHER -> [cycle EXCEPT !.pc = "teardown",
                                                  !.changed = found[Other] \notin {0, cycle.ids[Other]}])
    BY DEF ReadsIds
  <1> QED BY <1>1, <1>2, <1>3, <1>4

LEMMA EditIs ==
  ASSUME cycle \in Cycles, EditsDrift
  PROVE  /\ cycle' \in Cycles /\ cycle'.lost = cycle.lost /\ cycle'.waits = cycle.waits /\ cycle'.pc = "drift"
         /\ cycle'.ids = cycle.ids /\ cycle'.created = cycle.created
  <1>1. "drift" \in DOMAIN ScriptOf \cup Reads \cup CycleExits \cup {"start", "edit", "delete", "residue"}
    BY DEF ScriptOf
  <1> QED BY <1>1 DEF EditsDrift, Cycles

LEMMA DeleteIs ==
  ASSUME cycle \in Cycles, DeletesOther
  PROVE  /\ cycle' \in Cycles /\ cycle'.lost = cycle.lost
         /\ Fails \/ (/\ cycle'.pc = "recreate" /\ cycle'.waits = cycle.waits /\ cycle'.created = cycle.created
                      /\ cycle.ids[Other] \in Live)
  <1>1. CASE Fails
    BY <1>1, FailsIs DEF Cycles
  <1>2. CASE cycle' = [cycle EXCEPT !.pc = "recreate"] /\ cycle.ids[Other] \in Live
    <2>1. "recreate" \in DOMAIN ScriptOf \cup Reads \cup CycleExits \cup {"start", "edit", "delete", "residue"}
      BY DEF ScriptOf
    <2> QED BY <1>2, <2>1 DEF Cycles
  <1> QED BY <1>1, <1>2 DEF DeletesOther

LEMMA ResidueIs ==
  ASSUME cycle \in Cycles, Residue
  PROVE  /\ cycle' \in Cycles /\ cycle'.lost = cycle.lost /\ cycle'.pc \in {"exit0", "exit1"}
         /\ cycle'.waits = cycle.waits /\ cycle'.created = cycle.created /\ Now("residue")
         /\ UNCHANGED vars \/ CycleFault
  <1>1. {"exit0", "exit1"} \subseteq DOMAIN ScriptOf \cup Reads \cup CycleExits \cup {"start", "edit", "delete", "residue"}
    BY DEF CycleExits
  <1>2. \E pc \in {"exit0", "exit1"} : cycle' = [cycle EXCEPT !.pc = pc]
    BY DEF Residue, Verdict
  <1>3. cycle' \in Cycles /\ cycle'.lost = cycle.lost /\ cycle'.pc \in {"exit0", "exit1"}
        /\ cycle'.waits = cycle.waits /\ cycle'.created = cycle.created
    BY <1>1, <1>2 DEF Cycles
  <1> QED BY <1>3 DEF Residue

LEMMA DeathIs ==
  ASSUME CycleTyped, Dies, cycle' = [cycle EXCEPT !.lost = @ \/ late' # late]
  PROVE  /\ cycle' \in Cycles /\ (cycle'.lost <=> cycle.lost \/ late' # late) /\ cycle'.pc = cycle.pc
         /\ cycle'.waits = cycle.waits /\ cycle'.ids = cycle.ids /\ cycle'.created = cycle.created
         /\ tool' \in Tools /\ tool'.pc = "exit1" /\ tool'.script = tool.script /\ tool'.failed = tool.failed
         /\ tool'.deleted = tool.deleted /\ tool'.todo = tool.todo
  <1> DEFINE lost == cycle.lost \/ late' # late
  <1>1. (cycle.lost \/ late' # late) \in BOOLEAN
    BY DEF CycleTyped, Cycles
  <1>2. cycle' = [cycle EXCEPT !.lost = lost]
    OBVIOUS
  <1>3. lost \in BOOLEAN /\ (lost <=> cycle.lost \/ late' # late)
    BY <1>1
  <1> HIDE DEF lost
  <1>4. /\ cycle' \in Cycles /\ cycle'.lost = lost /\ cycle'.pc = cycle.pc
        /\ cycle'.waits = cycle.waits /\ cycle'.ids = cycle.ids /\ cycle'.created = cycle.created
    BY <1>2, <1>3 DEF CycleTyped, Cycles
  <1>5. /\ tool' \in Tools /\ tool'.pc = "exit1" /\ tool'.script = tool.script /\ tool'.failed = tool.failed
        /\ tool'.deleted = tool.deleted /\ tool'.todo = tool.todo
    BY DEF Dies, CycleTyped, Tools
  <1> QED BY <1>3, <1>4, <1>5


\* Failures and other people are counted up and a lost write is not forgotten: a cycle that is quiet has always been so.
LEMMA QuietBefore ==
  ASSUME CycleTyped, CycleTyped', faults <= faults', others <= others', cycle.lost => cycle'.lost, Quiet'
  PROVE  Quiet
  BY CycleNumbers DEF CycleTyped, Quiet

LEMMA TypedAround ==
  ASSUME CycleTyped, Around
  PROVE  CycleTyped' /\ faults <= faults' /\ others <= others' /\ (cycle.lost => cycle'.lost)
  <1>0. tool \in Tools /\ minted \in 0 .. MaxId /\ faults \in Nat /\ others \in Nat /\ cycle \in Cycles
        /\ faults <= faults /\ others <= others
    BY DEF CycleTyped
  <1>1. ASSUME Disturbs PROVE tool' \in Tools
    BY <1>0, <1>1 DEF Disturbs, Tools
  <1>2. CASE OthersAct /\ UNCHANGED cycle
    <2>1. others' = others + 1 /\ UNCHANGED faults /\ tool' \in Tools
      BY <1>1, <1>2 DEF OthersAct
    <2>2. minted' \in 0 .. MaxId
      BY <1>0, <1>2, CycleNumbers DEF OthersAct
    <2>3. others' \in Nat /\ others <= others'
      BY <1>0, <2>1
    <2> QED BY <1>0, <1>2, <2>1, <2>2, <2>3 DEF CycleTyped
  <1>3. CASE Lands /\ UNCHANGED cycle
    <2>1. UNCHANGED <<others, faults>> /\ tool' \in Tools
      BY <1>1, <1>3 DEF Lands
    <2>2. minted' \in 0 .. MaxId
      BY <1>0, <1>3, CycleNumbers DEF Lands
    <2> QED BY <1>0, <1>3, <2>1, <2>2 DEF CycleTyped
  <1>4. CASE ToolStep /\ UNCHANGED cycle
    BY <1>0, <1>4, TypedTool DEF CycleTyped
  <1>5. CASE Dies /\ cycle' = [cycle EXCEPT !.lost = @ \/ late' # late]
    <2>1. /\ cycle' \in Cycles /\ (cycle'.lost <=> cycle.lost \/ late' # late) /\ cycle'.pc = cycle.pc
          /\ cycle'.waits = cycle.waits /\ tool' \in Tools
      BY <1>5, DeathIs
    <2>2. UNCHANGED <<others, minted>> /\ faults' = faults + 1
      BY <1>5 DEF Dies, Fault
    <2>3. faults' \in Nat /\ faults <= faults'
      BY <1>0, <2>2
    <2> QED BY <1>0, <2>1, <2>2, <2>3 DEF CycleTyped
  <1> QED BY <1>2, <1>3, <1>4, <1>5 DEF Around

LEMMA TypedCycle ==
  ASSUME CycleTyped, CycleStep
  PROVE  CycleTyped' /\ faults <= faults' /\ others <= others' /\ (cycle.lost => cycle'.lost)
  <1>0. tool \in Tools /\ minted \in 0 .. MaxId /\ faults \in Nat /\ others \in Nat /\ cycle \in Cycles
        /\ faults <= faults /\ others <= others
    BY DEF CycleTyped
  <1>1. ASSUME UNCHANGED vars \/ CycleFault, cycle' \in Cycles, cycle'.lost <=> cycle.lost,
               cycle'.waits => cycle'.pc \in DOMAIN ScriptOf
        PROVE  CycleTyped' /\ faults <= faults' /\ others <= others' /\ (cycle.lost => cycle'.lost)
    <2>1. UNCHANGED <<tool, minted, others>> /\ (UNCHANGED faults \/ faults' = faults + 1)
      BY <1>1 DEF vars, CycleFault, Fault
    <2>2. faults' \in Nat /\ faults <= faults'
      BY <1>0, <2>1
    <2> QED BY <1>0, <1>1, <2>1, <2>2 DEF CycleTyped
  <1>2. CASE Begins
    BY <1>0, <1>1, <1>2, BeginIs
  <1>3. CASE RunsStep
    <2>1. cycle' \in Cycles /\ cycle'.lost = cycle.lost /\ cycle'.pc = cycle.pc /\ cycle.pc \in DOMAIN ScriptOf
          /\ ScriptOf[cycle.pc] \in {"converge", "dryRun", "teardown"}
      BY <1>0, <1>3, RunsIs DEF RunsStep
    <2>2. tool' \in Tools /\ UNCHANGED <<minted, faults, others>>
      BY <1>3, <2>1, FreshTool DEF RunsStep, Starts
    <2> QED BY <1>0, <2>1, <2>2 DEF CycleTyped
  <1>4. CASE StepDone
    <2>1. cycle.pc \in DOMAIN ScriptOf
      BY <1>4 DEF StepDone, CycleTyped
    <2>2. cycle' \in Cycles /\ cycle'.lost = cycle.lost /\ ~cycle'.waits
      BY <1>0, <1>4, <2>1, DoneIs
    <2> QED BY <1>1, <1>4, <2>2 DEF StepDone
  <1>5. CASE StepFails
    BY <1>0, <1>1, <1>5, FailsIs DEF StepFails
  <1>6. CASE FinalEnds
    <2>1. cycle' \in Cycles /\ cycle'.lost = cycle.lost /\ ~cycle'.waits
      BY <1>0, <1>6, FinalIs
    <2> QED BY <1>1, <1>6, <2>1 DEF FinalEnds
  <1>7. CASE ReadsIds
    <2>1. ~cycle.waits
      BY <1>7 DEF ReadsIds, CycleTyped, ScriptOf, Reads
    <2>2. /\ cycle' \in Cycles /\ cycle'.lost = cycle.lost
          /\ (UNCHANGED vars /\ cycle'.waits = cycle.waits) \/ (CycleFault /\ Fails)
      BY <1>0, <1>7, ReadIs
    <2>3. ~cycle'.waits
      BY <1>0, <2>1, <2>2, FailsIs
    <2> QED BY <1>1, <2>2, <2>3
  <1>8. CASE EditsDrift
    <2>1. cycle' \in Cycles /\ cycle'.lost = cycle.lost /\ ~cycle'.waits
      BY <1>0, <1>8, EditIs DEF EditsDrift, Now
    <2>2. UNCHANGED <<tool, minted, others, faults>>
      BY <1>8 DEF EditsDrift
    <2> QED BY <1>0, <2>1, <2>2 DEF CycleTyped
  <1>9. CASE DeletesOther
    <2>1. cycle' \in Cycles /\ cycle'.lost = cycle.lost
      BY <1>0, <1>9, DeleteIs
    <2>2. ~cycle'.waits
      BY <1>0, <1>9, DeleteIs, FailsIs DEF DeletesOther, Now
    <2>3. UNCHANGED <<tool, minted, others>> /\ (UNCHANGED faults \/ faults' = faults + 1)
      BY <1>9 DEF DeletesOther, Fault
    <2>4. faults' \in Nat /\ faults <= faults'
      BY <1>0, <2>3
    <2> QED BY <1>0, <2>1, <2>2, <2>3, <2>4 DEF CycleTyped
  <1>10. CASE Residue
    <2>1. cycle' \in Cycles /\ cycle'.lost = cycle.lost /\ ~cycle'.waits /\ (UNCHANGED vars \/ CycleFault)
      BY <1>0, <1>10, ResidueIs DEF Now
    <2> QED BY <1>1, <2>1
  <1> QED BY <1>2, <1>3, <1>4, <1>5, <1>6, <1>7, <1>8, <1>9, <1>10 DEF CycleStep

-----------------------------------------------------------------------------
(* A quiet run: one name after the other. *)

\* What a quiet state of the cycle has at hand.
LEMMA QuietHas ==
  ASSUME CycleTyped, Quiet, QuietInv
  PROVE  /\ tool \in Tools /\ cycle \in Cycles /\ faults \in {0, 1} /\ faults \in Nat /\ minted \in Nat /\ MaxId <= PageSize
         /\ estate \in [Ids -> SuperMetric \cup {Absent}] /\ Live \subseteq 1 .. minted
         /\ desired \in [Declared -> Contents] /\ late = {} /\ tool.todo \subseteq Declared
         /\ tool.pc \notin {"idle", "exit0", "exit1"} =>
              cycle.waits /\ cycle.pc \in DOMAIN ScriptOf /\ tool.script = ScriptOf[cycle.pc]
         /\ tool.script = "teardown" /\ cycle.waits => cycle.pc \in {"teardown", "final"}
         /\ tool.script = "converge" /\ cycle.waits => cycle.pc \in {"first", "second", "drift", "recreate"}
         /\ Fault => faults' = faults + 1
  <1>1. tool.pc \notin {"idle", "exit0", "exit1"} => Running
    BY DEF Running, Exits
  <1>2. cycle.waits => cycle.pc \in {"dry", "first", "second", "drift", "recreate", "teardown", "adopt", "final"}
    BY DEF CycleTyped, ScriptOf
  <1>3. tool.todo \subseteq Declared
    BY DEF CycleTyped, Tools
  <1> QED BY <1>1, <1>2, <1>3 DEF CycleTyped, Quiet, QuietInv, CycleShape, RunShape, ScriptOf, Fault

\* Each name has at most one object, of which Named is the set.
LEMMA OneOfAName ==
  ASSUME CycleTyped, Quiet, QuietInv, NEW n \in Declared, NEW i \in Named(n)
  PROVE  Named(n) = {i} /\ i \in Live /\ estate[i] \in SuperMetric /\ estate[i].name = n
  BY DEF QuietInv, CycleShape, Named, Live

\* One name is done with and nothing was written.
LEMMA QuietDone ==
  ASSUME CycleTyped, CycleTyped', Quiet, Quiet', QuietInv, NEW n \in Declared, NEW bad \in BOOLEAN, Done(n, bad),
         \/ tool.pc = "each" /\ n \in tool.todo
         \/ tool.pc = "readBack" /\ n = tool.name,
         UNCHANGED <<estate, minted, desired, late, cycle>>, faults <= faults',
         bad => faults' = 1,
         tool.script = "converge" /\ faults' = 0 => Named(n) # {},
         tool.script = "teardown" => IF bad THEN cycle.pc = "teardown" ELSE Named(n) = {}
  PROVE  QuietInv'
  <1>1. /\ tool' \in Tools /\ tool'.pc = "each" /\ tool'.todo = tool.todo \ {n} /\ tool'.plan = tool.plan
        /\ tool'.script = tool.script /\ tool'.deleted = tool.deleted /\ (tool'.failed <=> tool.failed \/ bad)
    BY QuietHas, TypedDone
  <1>2. Live' = Live /\ (\A m : Named(m)' = Named(m)) /\ Missing' = Missing /\ (Gone' <=> Gone)
    BY SameEstate
  <1>3. faults' \in {0, 1} /\ (faults' = 0 => faults = 0)
    BY QuietHas DEF CycleTyped, Quiet
  <1>4. /\ cycle.waits /\ tool.script # "dryRun" /\ tool.script = ScriptOf[cycle.pc] /\ Planned
        /\ (tool.failed => faults = 1) /\ (tool.deleted => tool.script = "teardown") /\ (faults = 1 => faults' = 1)
    BY <1>3, QuietHas DEF QuietInv, RunShape
  <1>5. CycleShape'
    BY <1>2, <1>3 DEF QuietInv, CycleShape
  <1>6. RunShape'
    <2>1. Planned'
      BY <1>1, <1>2, <1>4 DEF Planned
    <2>2. Running'
      BY <1>1 DEF Running, Exits
    <2> QED BY <1>1, <1>4, <2>1, <2>2 DEF RunShape
  <1>7. ConvergeGoesRight'
    <2>1. ASSUME faults = 0, tool.script = "converge", NEW m \in Declared \ tool'.todo, Named(n) # {}
          PROVE  Named(m) # {}
      BY <1>1, <1>4, <2>1 DEF QuietInv, ConvergeGoesRight
    <2> QED BY <1>1, <1>2, <1>3, <1>4, <2>1 DEF QuietInv, ConvergeGoesRight
  <1>8. TeardownGoesRight'
    <2> SUFFICES ASSUME tool.script = "teardown"
                 PROVE  /\ \A m \in Declared \ tool'.todo :
                             Named(m) = {} \/ (faults' = 1 /\ cycle.pc = "teardown" /\ (tool'.failed \/ tool'.deleted))
                        /\ cycle.pc = "final" => ~tool'.failed
      BY <1>1, <1>2 DEF TeardownGoesRight
    <2>1. tool.pc = "each"
      BY DEF QuietInv, RunShape
    <2>2. ASSUME NEW m \in Declared \ tool.todo
          PROVE  Named(m) = {} \/ (faults = 1 /\ cycle.pc = "teardown" /\ (tool.failed \/ tool.deleted))
      BY <1>4, <2>1 DEF QuietInv, TeardownGoesRight
    <2>3. ASSUME cycle.pc = "final" PROVE ~tool'.failed
      <3>1. ~tool.failed /\ faults = 1
        BY <1>4, <2>3 DEF QuietInv, TeardownGoesRight, CycleGoesRight
      <3> QED BY <1>1, <2>3, <3>1
    <2>4. ASSUME NEW m \in Declared \ tool'.todo
          PROVE  Named(m) = {} \/ (faults' = 1 /\ cycle.pc = "teardown" /\ (tool'.failed \/ tool'.deleted))
      <3>1. CASE m = n
        BY <1>1, <3>1
      <3>2. CASE m # n
        BY <1>1, <1>4, <2>2, <2>4, <3>2
      <3> QED BY <3>1, <3>2
    <2> QED BY <2>3, <2>4
  <1>9. CycleGoesRight'
    BY <1>1, <1>2, <1>4 DEF QuietInv, CycleGoesRight, Ended
  <1> QED BY <1>5, <1>6, <1>7, <1>8, <1>9 DEF QuietInv

\* The same, of a name that has failed.
LEMMA QuietFailed ==
  ASSUME CycleTyped, CycleTyped', Quiet, Quiet', QuietInv, NEW n \in Declared, Done(n, TRUE),
         \/ tool.pc = "each" /\ n \in tool.todo
         \/ tool.pc = "readBack" /\ n = tool.name,
         UNCHANGED <<estate, minted, desired, late, cycle>>, faults <= faults', faults' = 1,
         tool.script = "teardown" => cycle.pc = "teardown"
  PROVE  QuietInv'
  <1> DEFINE bad == TRUE
  <1>1. bad \in BOOLEAN /\ Done(n, bad) /\ bad
    OBVIOUS
  <1> HIDE DEF bad
  <1>2. tool.script = "teardown" => IF bad THEN cycle.pc = "teardown" ELSE Named(n) = {}
    BY <1>1
  <1>3. (bad => faults' = 1) /\ (tool.script = "converge" /\ faults' = 0 => Named(n) # {})
    OBVIOUS
  <1> QED BY <1>1, <1>2, <1>3, QuietDone

LEMMA QuietPassed ==
  ASSUME CycleTyped, CycleTyped', Quiet, Quiet', QuietInv, NEW n \in Declared, Passes(n), UNCHANGED cycle
  PROVE  QuietInv'
  <1>1. /\ tool.pc = "each" /\ n \in tool.todo /\ tool.plan[n].do \in {"unchanged", "absent"} /\ Done(n, FALSE)
        /\ UNCHANGED <<estate, minted, desired, late, faults>>
    BY DEF Passes, Turn, At, Looks
  <1>2. Planned /\ tool.script # "dryRun" /\ faults <= faults'
    BY <1>1, QuietHas DEF QuietInv, RunShape
  <1>3. IF tool.script = "teardown" THEN Named(n) = {} ELSE Named(n) # {}
    BY <1>1, <1>2 DEF Planned
  <1> QED BY <1>1, <1>2, <1>3, QuietDone

\* As long as nothing failed there is an id left for a name that has no object.
LEMMA RoomIsLeft ==
  ASSUME CycleTyped, Quiet, QuietInv, faults = 0, tool.pc = "each", tool.script = "converge", NEW n \in Declared,
         Named(n) = {}
  PROVE  minted < MaxId
  <1>1. cycle.pc \in {"first", "second", "drift", "recreate"}
    BY QuietHas
  <1>2. minted + Cardinality(Missing) <= Cardinality(Declared) + 1
    <2>1. minted + Cardinality(Missing) <= Cardinality(Declared)
          \/ minted + Cardinality(Missing) <= Cardinality(Declared) + 1
      BY <1>1 DEF QuietInv, ConvergeGoesRight
    <2> QED BY <2>1, QuietHas, MissingCounted, CycleNumbers
  <1>3. Cardinality(Missing) # 0
    BY MissingCounted, FS_EmptySet DEF Missing
  <1> QED BY <1>2, <1>3, QuietHas, MissingCounted, CycleNumbers

LEMMA QuietRefused ==
  ASSUME CycleTyped, CycleTyped', Quiet, Quiet', QuietInv, NEW n \in Declared, Refused(n), UNCHANGED cycle
  PROVE  QuietInv'
  <1>1. /\ tool.pc = "each" /\ n \in tool.todo /\ Done(n, TRUE) /\ UNCHANGED <<estate, minted, desired, late>>
        /\ Fault \/ (tool.plan[n].do = "create" /\ minted = MaxId /\ UNCHANGED faults)
    BY DEF Refused, Turn, At, Rest
  <1>2. Planned /\ tool.script # "dryRun" /\ tool.script \in {"converge", "dryRun", "teardown"}
    BY <1>1, QuietHas DEF QuietInv, RunShape, Tools
  <1>3. CASE Fault
    <2>1. faults = 0 /\ faults' = 1 /\ faults <= faults'
      BY <1>3, QuietHas DEF Quiet
    <2>2. tool.script = "teardown" => cycle.pc = "teardown"
      BY <1>1, <2>1, QuietHas DEF QuietInv, CycleGoesRight
    <2> QED BY <1>1, <2>1, <2>2, QuietFailed
  <1>4. CASE tool.plan[n].do = "create" /\ minted = MaxId /\ UNCHANGED faults
    <2>1. tool.script = "converge" /\ Named(n) = {}
      BY <1>1, <1>2, <1>4 DEF Planned
    <2>2. faults # 0
      BY <1>1, <1>4, <2>1, RoomIsLeft, CycleNumbers
    <2>3. faults = 1 /\ faults' = 1 /\ faults <= faults'
      BY <1>4, <2>2, QuietHas
    <2> QED BY <1>1, <2>1, <2>3, QuietFailed
  <1> QED BY <1>1, <1>3, <1>4

LEMMA QuietReadBack ==
  ASSUME CycleTyped, CycleTyped', Quiet, Quiet', QuietInv, ReadsBack, UNCHANGED cycle
  PROVE  QuietInv'
  <1> DEFINE good == tool.id \in Named(tool.name) /\ estate[tool.id].content = desired[tool.name]
  <1>1. /\ tool.pc = "readBack" /\ tool.name \in Declared /\ tool.script = "converge"
        /\ UNCHANGED <<estate, minted, desired, late>>
    BY QuietHas DEF ReadsBack, At, Rest, Tools, QuietInv, RunShape
  <1>2. faults = 0 => good
    BY <1>1 DEF QuietInv, ConvergeGoesRight
  <1>3. good => Named(tool.name) # {}
    OBVIOUS
  <1>4. CASE UNCHANGED faults /\ Done(tool.name, ~good)
    <2>1. (~good) \in BOOLEAN /\ (~good => faults' = 1) /\ faults <= faults' /\ (faults' = 0 => Named(tool.name) # {})
      BY <1>2, <1>3, <1>4, QuietHas
    <2> HIDE DEF good
    <2> QED BY <1>1, <1>4, <2>1, QuietDone
  <1>5. CASE Fault /\ Done(tool.name, TRUE)
    <2>1. faults = 0 /\ faults' = 1 /\ faults <= faults'
      BY <1>5, QuietHas DEF Quiet
    <2> HIDE DEF good
    <2> QED BY <1>1, <1>5, <2>1, QuietFailed
  <1> QED BY <1>4, <1>5 DEF ReadsBack

\* A write was sent for n: of every other name there is what there was, and of n at most one object.
LEMMA QuietWrote ==
  ASSUME CycleTyped, CycleTyped', Quiet, Quiet', QuietInv, NEW n \in tool.todo, tool.pc = "each",
         tool.script = "converge", NEW i \in 0 .. MaxId, Wrote(n, i), UNCHANGED <<desired, late, cycle>>,
         faults <= faults', estate' \in [Ids -> SuperMetric \cup {Absent}], Live' \subseteq 1 .. minted',
         \A m \in Declared \ {n} : Named(m)' = Named(m),
         \A a, b \in Named(n)' : a = b,
         faults' = 0 => /\ i \in Named(n)' /\ estate'[i].content = desired[n]
                        /\ minted' + Cardinality(Missing') <= minted + Cardinality(Missing)
  PROVE  QuietInv'
  <1>1. /\ tool' \in Tools /\ tool'.pc = "readBack" /\ tool'.todo = tool.todo \ {n} /\ tool'.plan = tool.plan
        /\ tool'.script = tool.script /\ tool'.deleted = tool.deleted /\ (tool'.failed <=> tool.failed)
        /\ tool'.name = n /\ tool'.id = i /\ n \in Declared
    BY QuietHas, TypedDone
  <1>2. faults' \in {0, 1} /\ (faults' = 0 => faults = 0) /\ (faults = 1 => faults' = 1)
    BY QuietHas DEF CycleTyped, Quiet
  <1>3. /\ cycle.waits /\ tool.script = ScriptOf[cycle.pc] /\ Planned /\ cycle.pc \in {"first", "second", "drift", "recreate"}
        /\ (tool.failed => faults = 1) /\ ~tool.deleted
    BY QuietHas DEF QuietInv, RunShape
  <1>4. CycleShape'
    <2>1. \A m \in Declared : \A a, b \in Named(m)' : a = b
      BY DEF QuietInv, CycleShape
    <2> QED BY <1>2, <2>1 DEF QuietInv, CycleShape
  <1>5. RunShape'
    <2>1. \A m \in tool'.todo : m \in tool.todo /\ m \in Declared \ {n}
      BY <1>1, QuietHas
    <2>2. Planned'
      BY <1>1, <1>3, <2>1 DEF Planned
    <2>3. Running'
      BY <1>1 DEF Running, Exits
    <2> QED BY <1>1, <1>2, <1>3, <2>2, <2>3 DEF RunShape
  <1>6. ConvergeGoesRight'
    <2> SUFFICES ASSUME faults' = 0 PROVE ConvergeGoesRight'
      BY DEF ConvergeGoesRight
    <2>1. \A m \in Declared \ tool.todo : Named(m) # {}
      BY <1>2, <1>3 DEF QuietInv, ConvergeGoesRight
    <2>2. \A m \in Declared \ tool'.todo : Named(m)' # {}
      BY <1>1, <2>1
    <2>3. minted' + Cardinality(Missing') <= minted + Cardinality(Missing) /\ faults = 0
      BY <1>2
    <2>4. minted' \in Nat /\ minted \in Nat /\ Cardinality(Missing) \in Nat /\ Cardinality(Missing') \in Nat
      BY MissingCounted DEF CycleTyped
    <2>5. CASE cycle.pc = "recreate"
      <3>1. minted + Cardinality(Missing) <= Cardinality(Declared) + 1
        BY <2>3, <2>5 DEF QuietInv, ConvergeGoesRight
      <3>2. minted' + Cardinality(Missing') <= Cardinality(Declared) + 1
        BY <2>3, <2>4, <3>1, CycleNumbers
      <3> QED BY <1>1, <1>3, <2>2, <2>5, <3>2 DEF ConvergeGoesRight
    <2>6. CASE cycle.pc # "recreate"
      <3>1. minted + Cardinality(Missing) <= Cardinality(Declared)
        BY <1>3, <2>3, <2>6 DEF QuietInv, ConvergeGoesRight
      <3>2. minted' + Cardinality(Missing') <= Cardinality(Declared)
        BY <2>3, <2>4, <3>1, CycleNumbers
      <3> QED BY <1>1, <1>3, <2>2, <2>6, <3>2 DEF ConvergeGoesRight
    <2> QED BY <2>5, <2>6
  <1>7. TeardownGoesRight'
    BY <1>1 DEF TeardownGoesRight
  <1>8. CycleGoesRight'
    <2>1. cycle.created /\ ~Ended
      BY <1>3 DEF QuietInv, CycleGoesRight, Ended, CycleExits
    <2> QED BY <1>2, <1>3, <2>1 DEF CycleGoesRight, Ended, CycleExits
  <1> QED BY <1>4, <1>5, <1>6, <1>7, <1>8 DEF QuietInv

\* One object that is made.
LEMMA MadeOne ==
  ASSUME CycleTyped, Quiet, QuietInv, NEW n \in Declared, NEW c \in Contents, Named(n) = {}, minted < MaxId,
         minted' = minted + 1, estate' = Made(n, c)
  PROVE  /\ estate' \in [Ids -> SuperMetric \cup {Absent}] /\ Live' \subseteq 1 .. minted'
         /\ Named(n)' = {minted + 1} /\ \A m \in Declared \ {n} : Named(m)' = Named(m)
         /\ estate'[minted + 1].content = c
         /\ minted' + Cardinality(Missing') = minted + Cardinality(Missing)
  <1> DEFINE new == [name |-> n, content |-> c, by |-> "tool"]
  <1>1. new \in SuperMetric /\ new.name = n /\ new.content = c
    BY CycleNumbers DEF SuperMetric
  <1>2. estate' = [estate EXCEPT ![minted + 1] = new]
    BY DEF Made
  <1> HIDE DEF new
  <1>3. minted + 1 \in Ids /\ minted \in Nat /\ Live \subseteq 1 .. minted /\ minted + 1 \notin Live
    BY QuietHas, CycleNumbers DEF Ids
  <1>4. /\ estate' \in [Ids -> SuperMetric \cup {Absent}] /\ estate'[minted + 1] = new
        /\ \A i \in Ids \ {minted + 1} : estate'[i] = estate[i]
    BY <1>1, <1>2, <1>3, QuietHas
  <1>5. Live' = Live \cup {minted + 1}
    BY <1>1, <1>3, <1>4, CycleNumbers DEF Live
  <1>6. Live' \subseteq 1 .. minted'
    BY <1>3, <1>5
  <1>7. \A i \in Live : estate'[i] = estate[i]
    BY <1>3, <1>4 DEF Live
  <1>8. Named(n)' = {minted + 1} /\ \A m \in Declared \ {n} : Named(m)' = Named(m)
    BY <1>1, <1>4, <1>5, <1>7 DEF Named
  <1>9. Missing' = Missing \ {n} /\ n \in Missing
    BY <1>8 DEF Missing
  <1>10. Cardinality(Missing') = Cardinality(Missing) - 1
    BY <1>9, MissingCounted, FS_RemoveElement
  <1>11. minted' + Cardinality(Missing') = minted + Cardinality(Missing)
    BY <1>3, <1>10, MissingCounted
  <1> QED BY <1>1, <1>4, <1>6, <1>8, <1>11

LEMMA QuietCreated ==
  ASSUME CycleTyped, CycleTyped', Quiet, Quiet', QuietInv, NEW n \in Declared, Creates(n), UNCHANGED cycle
  PROVE  QuietInv'
  <1>1. tool.pc = "each" /\ n \in tool.todo /\ tool.plan[n].do = "create" /\ minted < MaxId /\ UNCHANGED <<desired, late>>
    BY DEF Creates, Turn, At, Rest
  <1>2. tool.script = "converge" /\ Named(n) = {}
    <2>1. Planned /\ tool.script \in {"converge", "dryRun", "teardown"} /\ tool.script # "dryRun"
      BY <1>1, QuietHas DEF QuietInv, RunShape, Tools
    <2> QED BY <1>1, <2>1 DEF Planned
  <1>3. minted + 1 \in 0 .. MaxId /\ 0 \in 0 .. MaxId /\ desired[n] \in Contents
    BY <1>1, QuietHas, CycleNumbers
  <1>4. ASSUME NEW c \in Contents, Wrote(n, minted + 1), minted' = minted + 1, estate' = Made(n, c),
               faults <= faults', faults' = 0 => c = desired[n]
        PROVE  QuietInv'
    <2>1. /\ estate' \in [Ids -> SuperMetric \cup {Absent}] /\ Live' \subseteq 1 .. minted'
          /\ Named(n)' = {minted + 1} /\ \A m \in Declared \ {n} : Named(m)' = Named(m)
          /\ estate'[minted + 1].content = c
          /\ minted' + Cardinality(Missing') = minted + Cardinality(Missing)
      BY <1>1, <1>2, <1>4, MadeOne
    <2>2. minted' + Cardinality(Missing') <= minted + Cardinality(Missing)
      BY <2>1, MissingCounted DEF CycleTyped
    <2>3. \A a, b \in Named(n)' : a = b
      BY <2>1
    <2> QED BY <1>1, <1>2, <1>3, <1>4, <2>1, <2>2, <2>3, QuietWrote
  <1>5. CASE Wrote(n, 0) /\ UNCHANGED <<estate, minted>> /\ Fault
    <2>1. faults' = 1 /\ faults <= faults'
      BY <1>5, QuietHas DEF Quiet
    <2>2. /\ estate' \in [Ids -> SuperMetric \cup {Absent}] /\ Live' \subseteq 1 .. minted'
          /\ (\A a, b \in Named(n)' : a = b) /\ \A m \in Declared \ {n} : Named(m)' = Named(m)
      BY <1>2, <1>5, SameEstate, QuietHas
    <2> QED BY <1>1, <1>2, <1>3, <1>5, <2>1, <2>2, QuietWrote
  <1>6. CASE Wrote(n, minted + 1) /\ minted' = minted + 1 /\ estate' = Made(n, desired[n]) /\ UNCHANGED faults
    BY <1>3, <1>4, <1>6, QuietHas
  <1>7. ASSUME Wrote(n, minted + 1), minted' = minted + 1, Fault, NEW c \in Contents, estate' = Made(n, c)
        PROVE  QuietInv'
    <2>1. faults' = 1 /\ faults <= faults'
      BY <1>7, QuietHas DEF Quiet
    <2> QED BY <1>4, <1>7, <2>1
  <1> QED BY <1>5, <1>6, <1>7 DEF Creates

LEMMA QuietUpdated ==
  ASSUME CycleTyped, CycleTyped', Quiet, Quiet', QuietInv, NEW n \in Declared, Updates(n), UNCHANGED cycle
  PROVE  QuietInv'
  <1> DEFINE i == tool.plan[n].id
  <1>1. tool.pc = "each" /\ n \in tool.todo /\ tool.plan[n].do = "update" /\ UNCHANGED <<minted, desired, late>>
    BY DEF Updates, Turn, At, Rest
  <1>2. tool.script = "converge" /\ i \in Named(n)
    <2>1. Planned /\ tool.script \in {"converge", "dryRun", "teardown"} /\ tool.script # "dryRun"
      BY <1>1, QuietHas DEF QuietInv, RunShape, Tools
    <2> QED BY <1>1, <2>1 DEF Planned
  <1>3. Named(n) = {i} /\ i \in Live /\ estate[i] \in SuperMetric /\ estate[i].name = n /\ i \in 0 .. MaxId
    <2>1. i \in 0 .. MaxId
      BY DEF CycleTyped, Tools
    <2> QED BY <1>2, <2>1, OneOfAName
  <1>4. ASSUME NEW c \in Contents, Wrote(n, i), estate' = Put(i, n, c), faults <= faults', faults' = 0 => c = desired[n]
        PROVE  QuietInv'
    <2> DEFINE new == [name |-> n, content |-> c, by |-> estate[i].by]
    <2>1. new \in SuperMetric /\ new.name = n /\ new.content = c
      BY <1>3, CycleNumbers DEF SuperMetric
    <2>2. i \in Ids
      BY <1>3 DEF Live
    <2>3. estate' = [estate EXCEPT ![i] = new]
      BY <1>4, <2>2, QuietHas DEF Put
    <2> HIDE DEF new
    <2>4. /\ estate' \in [Ids -> SuperMetric \cup {Absent}] /\ estate'[i] = new
          /\ \A j \in Ids \ {i} : estate'[j] = estate[j]
      BY <2>1, <2>2, <2>3, QuietHas
    <2>5. Live' = Live
      BY <1>3, <2>1, <2>2, <2>4, CycleNumbers DEF Live
    <2>6. \A m \in Declared : Named(m)' = Named(m)
      BY <1>3, <2>1, <2>2, <2>4, <2>5 DEF Named, Live
    <2>7. Missing' = Missing
      BY <2>6 DEF Missing
    <2>8. minted' + Cardinality(Missing') <= minted + Cardinality(Missing) /\ Live' \subseteq 1 .. minted'
      BY <1>1, <2>5, <2>7, MissingCounted, QuietHas
    <2>9. \A a, b \in Named(n)' : a = b
      BY <1>3, <2>6
    <2>10. faults' = 0 => i \in Named(n)' /\ estate'[i].content = desired[n]
      BY <1>2, <1>4, <2>1, <2>4, <2>6
    <2> HIDE DEF i
    <2> QED BY <1>1, <1>2, <1>3, <1>4, <2>4, <2>6, <2>8, <2>9, <2>10, QuietWrote
  <1>5. CASE Wrote(n, i) /\ UNCHANGED estate /\ Fault
    <2>1. faults' = 1 /\ faults <= faults'
      BY <1>5, QuietHas DEF Quiet
    <2>2. /\ estate' \in [Ids -> SuperMetric \cup {Absent}] /\ Live' \subseteq 1 .. minted'
          /\ (\A a, b \in Named(n)' : a = b) /\ \A m \in Declared \ {n} : Named(m)' = Named(m)
      BY <1>1, <1>3, <1>5, SameEstate, QuietHas
    <2> HIDE DEF i
    <2> QED BY <1>1, <1>2, <1>3, <1>5, <2>1, <2>2, QuietWrote
  <1>6. CASE Wrote(n, i) /\ estate' = Put(i, n, desired[n]) /\ UNCHANGED faults
    BY <1>4, <1>6, QuietHas
  <1>7. ASSUME Wrote(n, i), Fault, NEW c \in Contents, estate' = Put(i, n, c)
        PROVE  QuietInv'
    <2>1. faults' = 1 /\ faults <= faults'
      BY <1>7, QuietHas DEF Quiet
    <2> QED BY <1>4, <1>7, <2>1
  <1> QED BY <1>3, <1>5, <1>6, <1>7 DEF Updates

LEMMA QuietDeleted ==
  ASSUME CycleTyped, CycleTyped', Quiet, Quiet', QuietInv, NEW n \in Declared, Deletes(n), UNCHANGED cycle
  PROVE  QuietInv'
  <1> DEFINE i == tool.plan[n].id
  <1>1. tool.pc = "each" /\ n \in tool.todo /\ tool.plan[n].do = "delete" /\ UNCHANGED <<minted, desired, late>>
    BY DEF Deletes, Turn, At, Rest
  <1>2. /\ tool.script = "teardown" /\ i \in Named(n) /\ Planned /\ cycle.waits /\ cycle.pc \in {"teardown", "final"}
        /\ tool.script = ScriptOf[cycle.pc]
    <2>1. Planned /\ tool.script \in {"converge", "dryRun", "teardown"} /\ tool.script # "dryRun"
      BY <1>1, QuietHas DEF QuietInv, RunShape, Tools
    <2>2. tool.script = "teardown" /\ i \in Named(n)
      BY <1>1, <2>1 DEF Planned
    <2> QED BY <1>1, <2>1, <2>2, QuietHas
  <1>3. Named(n) = {i} /\ i \in Live
    BY <1>2, OneOfAName
  <1>4. ASSUME Deleted(n), estate' \in [Ids -> SuperMetric \cup {Absent}], faults <= faults', Live' \subseteq Live,
               \A m \in Declared \ {n} : Named(m)' = Named(m),
               Named(n)' = {} \/ (Named(n)' = Named(n) /\ faults' = 1 /\ cycle.pc = "teardown")
        PROVE  QuietInv'
    <2>1. /\ tool' \in Tools /\ tool'.pc = "each" /\ tool'.todo = tool.todo \ {n} /\ tool'.plan = tool.plan
          /\ tool'.script = "teardown" /\ tool'.deleted /\ (tool'.failed <=> tool.failed)
      BY <1>1, <1>2, <1>4, QuietHas, TypedDone
    <2>2. faults' \in {0, 1} /\ (faults' = 0 => faults = 0) /\ (faults = 1 => faults' = 1)
      BY <1>4, QuietHas DEF CycleTyped, Quiet
    <2>3. CycleShape'
      <3>1. \A m \in Declared : \A a, b \in Named(m)' : a = b
        BY <1>4 DEF QuietInv, CycleShape
      <3> QED BY <1>1, <1>4, <2>2, <3>1 DEF QuietInv, CycleShape
    <2>4. RunShape'
      <3>1. \A m \in tool'.todo : m \in tool.todo /\ m \in Declared \ {n}
        BY <2>1, QuietHas
      <3>2. Planned'
        BY <1>2, <1>4, <2>1, <3>1 DEF Planned
      <3>3. Running'
        BY <2>1 DEF Running, Exits
      <3>4. tool.failed => faults = 1
        BY DEF QuietInv, RunShape
      <3> QED BY <1>2, <2>1, <2>2, <3>2, <3>3, <3>4 DEF RunShape
    <2>5. ConvergeGoesRight'
      BY <1>2, <2>1 DEF ConvergeGoesRight
    <2>6. TeardownGoesRight'
      <3>1. ASSUME NEW m \in Declared \ tool'.todo
            PROVE  Named(m)' = {} \/ (faults' = 1 /\ cycle.pc = "teardown" /\ tool'.deleted)
        <4>1. CASE m = n
          BY <1>4, <2>1, <4>1
        <4>2. CASE m # n
          <5>1. Named(m) = {} \/ (faults = 1 /\ cycle.pc = "teardown" /\ (tool.failed \/ tool.deleted))
            BY <1>1, <1>2, <2>1, <3>1, <4>2 DEF QuietInv, TeardownGoesRight
          <5> QED BY <1>4, <2>1, <2>2, <4>2, <5>1
        <4> QED BY <4>1, <4>2
      <3>2. cycle.pc = "final" => ~tool.failed
        BY <1>2 DEF QuietInv, TeardownGoesRight
      <3> QED BY <2>1, <3>1, <3>2 DEF TeardownGoesRight
    <2>7. CycleGoesRight'
      <3>1. cycle.created /\ ~Ended
        BY <1>2 DEF QuietInv, CycleGoesRight, Ended, CycleExits
      <3> QED BY <1>2, <2>2, <3>1 DEF QuietInv, CycleGoesRight, Ended, CycleExits
    <2> QED BY <2>3, <2>4, <2>5, <2>6, <2>7 DEF QuietInv
  <1>5. CASE estate' = [estate EXCEPT ![i] = Absent] /\ Deleted(n) /\ UNCHANGED faults
    <2>1. i \in Ids
      BY <1>3 DEF Live
    <2>2. /\ estate' \in [Ids -> SuperMetric \cup {Absent}] /\ estate'[i] = Absent
          /\ \A j \in Ids \ {i} : estate'[j] = estate[j]
      BY <1>5, <2>1, QuietHas
    <2> HIDE DEF i
    <2>3. Live' = Live \ {i}
      BY <2>2 DEF Live
    <2>4. \A j \in Live \ {i} : estate'[j] = estate[j]
      BY <2>2 DEF Live
    <2>5. ASSUME NEW m \in Declared \ {n} PROVE Named(m)' = Named(m)
      <3>1. i \notin Named(m)
        BY <1>2, <2>5 DEF Named
      <3> QED BY <2>3, <2>4, <3>1 DEF Named
    <2>6. Named(n)' = {}
      BY <1>3, <2>3, <2>4 DEF Named
    <2>7. faults <= faults'
      BY <1>5, QuietHas
    <2> QED BY <1>4, <1>5, <2>2, <2>3, <2>5, <2>6, <2>7
  <1>6. CASE UNCHANGED estate /\ Deleted(n) /\ Fault
    <2>1. faults = 0 /\ faults' = 1 /\ faults <= faults'
      BY <1>6, QuietHas DEF Quiet
    <2>2. cycle.pc = "teardown"
      BY <1>2, <2>1 DEF QuietInv, CycleGoesRight
    <2> HIDE DEF i
    <2> QED BY <1>4, <1>6, <2>1, <2>2, SameEstate, QuietHas
  <1> QED BY <1>3, <1>5, <1>6 DEF Deletes

-----------------------------------------------------------------------------
(* A quiet run: how it begins and how it ends. *)

\* A run that is over has changed nothing by ending.
LEMMA QuietOver ==
  ASSUME CycleTyped, CycleTyped', Quiet, Quiet', QuietInv, tool.pc \notin {"idle", "exit0", "exit1"},
         UNCHANGED <<estate, minted, desired, late>>, faults <= faults',
         cycle'.pc = cycle.pc, cycle'.waits = cycle.waits, cycle'.ids = cycle.ids, cycle'.created = cycle.created,
         tool'.pc \in {"exit0", "exit1"}, tool'.script = tool.script, tool'.failed = tool.failed,
         tool'.deleted = tool.deleted,
         tool'.pc = "exit1" => faults' = 1,
         tool.script = "converge" /\ faults' = 0 => Missing = {},
         tool.script = "teardown" /\ tool'.pc = "exit0" => Gone,
         cycle.pc = "final" => tool'.pc = "exit0"
  PROVE  QuietInv'
  <1>1. Live' = Live /\ (\A m : Named(m)' = Named(m)) /\ Missing' = Missing /\ (Gone' <=> Gone)
    BY SameEstate
  <1>2. faults' \in {0, 1} /\ (faults' = 0 => faults = 0) /\ (faults = 1 => faults' = 1)
    BY QuietHas DEF CycleTyped, Quiet
  <1>3. /\ cycle.waits /\ tool.script = ScriptOf[cycle.pc]
        /\ (tool.failed => faults = 1) /\ (tool.deleted => tool.script = "teardown")
    BY QuietHas DEF QuietInv, RunShape
  <1>4. CycleShape'
    BY <1>1, <1>2 DEF QuietInv, CycleShape
  <1>5. RunShape'
    BY <1>2, <1>3 DEF RunShape
  <1>6. ConvergeGoesRight'
    BY <1>1, <1>2 DEF QuietInv, ConvergeGoesRight
  <1>7. TeardownGoesRight'
    <2>1. cycle.waits /\ tool.script = "teardown" /\ cycle.pc = "final" => ~tool.failed
      BY DEF QuietInv, TeardownGoesRight
    <2> QED BY <1>1, <1>3, <2>1 DEF TeardownGoesRight
  <1>8. CycleGoesRight'
    BY <1>1, <1>2, <1>3 DEF QuietInv, CycleGoesRight, Ended
  <1> QED BY <1>4, <1>5, <1>6, <1>7, <1>8 DEF QuietInv

LEMMA QuietListed ==
  ASSUME CycleTyped, CycleTyped', Quiet, Quiet', QuietInv, Lists, UNCHANGED cycle
  PROVE  QuietInv'
  <1>1. tool.pc = "list" /\ UNCHANGED <<estate, minted, desired, late, faults>>
    BY DEF Lists, At, Looks
  <1>2. PICK found \in Listings :
          tool' = [tool EXCEPT !.pc = IF tool.script = "dryRun" THEN "exit0" ELSE "each", !.alone = TRUE, !.top = minted,
                    !.plan = [n \in Declared |-> [do |-> Plan(tool.script, n, found[n]), id |-> found[n]]]]
    BY DEF Lists
  <1> DEFINE plan == [n \in Declared |-> [do |-> Plan(tool.script, n, found[n]), id |-> found[n]]]
             pc == IF tool.script = "dryRun" THEN "exit0" ELSE "each"
  <1>3. found \in [Declared -> 0 .. MaxId] /\ \A n \in Declared : IF found[n] = 0 THEN Named(n) = {} ELSE found[n] \in Named(n)
    BY ListingIs, QuietHas
  <1>4. \A n \in Declared : plan[n].id = found[n] /\ plan[n].do = Plan(tool.script, n, found[n])
    OBVIOUS
  <1>5. tool' = [tool EXCEPT !.pc = pc, !.alone = TRUE, !.top = minted, !.plan = plan]
    BY <1>2
  <1>6. IF tool.script = "dryRun" THEN pc = "exit0" ELSE pc = "each"
    OBVIOUS
  <1>7. /\ cycle.waits /\ cycle.pc \in DOMAIN ScriptOf /\ tool.script = ScriptOf[cycle.pc] /\ tool.todo = Declared
        /\ ~tool.failed /\ ~tool.deleted /\ (tool.script = "converge" => cycle.pc \in {"first", "second", "drift", "recreate"})
        /\ (tool.script = "teardown" => cycle.pc \in {"teardown", "final"})
        /\ tool.script \in {"converge", "dryRun", "teardown"}
    BY <1>1, QuietHas DEF QuietInv, RunShape, Tools
  <1> HIDE DEF plan, pc
  <1>8. /\ tool'.pc = pc /\ tool'.plan = plan /\ tool'.script = tool.script /\ tool'.todo = tool.todo
        /\ tool'.failed = tool.failed /\ tool'.deleted = tool.deleted
    BY <1>5 DEF CycleTyped, Tools
  <1>9. CASE tool.script = "dryRun"
    <2>1. cycle.pc # "final"
      BY <1>7, <1>9 DEF ScriptOf
    <2>2. tool'.pc = "exit0"
      BY <1>6, <1>8, <1>9
    <2>3. faults <= faults'
      BY <1>1, QuietHas
    <2> QED BY <1>1, <1>8, <1>9, <2>1, <2>2, <2>3, QuietOver
  <1>10. CASE tool.script # "dryRun"
    <2>1. Live' = Live /\ (\A m : Named(m)' = Named(m)) /\ Missing' = Missing /\ (Gone' <=> Gone)
      BY <1>1, SameEstate
    <2>2. tool'.pc = "each"
      BY <1>6, <1>8, <1>10
    <2>3. CycleShape'
      BY <1>1, <2>1 DEF QuietInv, CycleShape
    <2>4. Planned'
      <3>1. \A n \in Declared : plan[n].do \in IF tool.script = "teardown"
                                              THEN IF found[n] = 0 THEN {"absent"} ELSE {"delete"}
                                              ELSE IF found[n] = 0 THEN {"create"} ELSE {"unchanged", "update"}
        BY <1>4 DEF Plan
      <3> QED BY <1>3, <1>4, <1>7, <1>8, <2>1, <3>1 DEF Planned
    <2>5. RunShape'
      BY <1>7, <1>8, <1>10, <2>2, <2>4 DEF RunShape, Running, Exits
    <2>6. ConvergeGoesRight'
      BY <1>1, <1>7, <1>8, <2>1, <2>2 DEF QuietInv, ConvergeGoesRight
    <2>7. TeardownGoesRight'
      BY <1>7, <1>8, <2>2 DEF TeardownGoesRight
    <2>8. CycleGoesRight'
      BY <1>1, <1>8, <2>1 DEF QuietInv, CycleGoesRight, Ended
    <2> QED BY <2>3, <2>5, <2>6, <2>7, <2>8 DEF QuietInv
  <1> QED BY <1>9, <1>10

LEMMA QuietEnded ==
  ASSUME CycleTyped, CycleTyped', Quiet, Quiet', QuietInv, Ends, UNCHANGED cycle
  PROVE  QuietInv'
  <1>1. tool.pc = "each" /\ tool.todo = {} /\ UNCHANGED <<estate, minted, desired, late, faults>>
    BY DEF Ends, At, Looks
  <1>2. /\ tool'.script = tool.script /\ tool'.todo = tool.todo /\ tool' \in Tools
        /\ tool'.pc = (IF tool.deleted THEN "readAgain" ELSE IF tool.failed THEN "exit1" ELSE "exit0")
        /\ tool'.failed = tool.failed /\ tool'.deleted = tool.deleted
    BY EndIs
  <1>3. /\ cycle.waits /\ tool.script = ScriptOf[cycle.pc] /\ tool.script \in {"converge", "teardown"}
        /\ (tool.failed => faults = 1) /\ (tool.deleted => tool.script = "teardown") /\ faults <= faults'
        /\ (tool.script = "teardown" => cycle.pc \in {"teardown", "final"})
    BY <1>1, QuietHas DEF QuietInv, RunShape, Tools
  <1>4. tool.script = "converge" /\ faults = 0 => Missing = {}
    BY <1>1, <1>3 DEF QuietInv, ConvergeGoesRight, Missing
  <1>5. tool.script = "teardown" => \A n \in Declared :
          Named(n) = {} \/ (faults = 1 /\ cycle.pc = "teardown" /\ (tool.failed \/ tool.deleted))
    BY <1>1, <1>3 DEF QuietInv, TeardownGoesRight
  <1>6. cycle.pc = "final" => tool.script = "teardown" /\ ~tool.failed
    BY <1>3 DEF ScriptOf, QuietInv, TeardownGoesRight
  <1>7. CASE ~tool.deleted
    <2>1. tool.script = "teardown" /\ tool'.pc = "exit0" => Gone
      BY <1>2, <1>5, <1>7 DEF Gone
    <2>2. tool'.pc \in {"exit0", "exit1"} /\ (tool'.pc = "exit1" => tool.failed)
      BY <1>2, <1>7
    <2> QED BY <1>1, <1>2, <1>3, <1>4, <1>6, <2>1, <2>2, QuietOver
  <1>8. CASE tool.deleted
    <2>1. Live' = Live /\ (\A m : Named(m)' = Named(m)) /\ Missing' = Missing /\ (Gone' <=> Gone)
      BY <1>1, SameEstate
    <2>2. tool'.pc = "readAgain" /\ tool.script = "teardown"
      BY <1>2, <1>3, <1>8
    <2>3. CycleShape'
      BY <1>1, <2>1 DEF QuietInv, CycleShape
    <2>4. RunShape'
      BY <1>1, <1>2, <1>3, <2>2 DEF RunShape, Running, Exits
    <2>5. ConvergeGoesRight'
      BY <1>1, <1>2, <2>1, <2>2 DEF QuietInv, ConvergeGoesRight
    <2>6. TeardownGoesRight'
      BY <1>1, <1>2, <1>5, <1>6, <2>1, <2>2 DEF TeardownGoesRight
    <2>7. CycleGoesRight'
      BY <1>1, <1>2, <2>1 DEF QuietInv, CycleGoesRight, Ended
    <2> QED BY <2>3, <2>4, <2>5, <2>6, <2>7 DEF QuietInv
  <1> QED BY <1>7, <1>8

LEMMA QuietReadAgain ==
  ASSUME CycleTyped, CycleTyped', Quiet, Quiet', QuietInv, ReadsAgain, UNCHANGED cycle
  PROVE  QuietInv'
  <1>1. tool.pc = "readAgain" /\ tool.script = "teardown" /\ UNCHANGED <<estate, minted, desired, late>>
    BY DEF ReadsAgain, At, Rest, QuietInv, RunShape
  <1>2. PICK bad \in BOOLEAN :
           /\ tool' \in Tools /\ tool'.pc = (IF bad THEN "exit1" ELSE "exit0") /\ tool'.script = tool.script
           /\ tool'.todo = tool.todo /\ tool'.failed = tool.failed /\ tool'.deleted = tool.deleted
           /\ \/ \E shown \in Pages :
                   UNCHANGED faults /\ (bad <=> tool.failed \/ \E n \in Declared : Named(n) \cap shown # {})
              \/ Fault /\ (bad <=> tool.failed)
    BY ReadAgainIs
  <1>3. /\ cycle.waits /\ cycle.pc \in {"teardown", "final"} /\ tool.todo = {} /\ (tool.failed => faults = 1)
        /\ \A n \in Declared : Named(n) = {} \/ (faults = 1 /\ cycle.pc = "teardown")
        /\ (cycle.pc = "final" => ~tool.failed /\ faults = 1)
    BY <1>1, QuietHas DEF QuietInv, RunShape, TeardownGoesRight, CycleGoesRight
  <1>4. ASSUME NEW shown \in Pages, UNCHANGED faults, bad <=> tool.failed \/ \E n \in Declared : Named(n) \cap shown # {}
        PROVE  /\ faults <= faults' /\ (bad => faults' = 1) /\ (~bad => Gone) /\ (cycle.pc = "final" => ~bad)
    <2>1. shown = Live /\ \A n \in Declared : Named(n) \cap shown = Named(n)
      <3>1. shown = Live
        BY PageIsWhole, QuietHas
      <3> QED BY <3>1 DEF Named
    <2>2. bad <=> tool.failed \/ ~Gone
      BY <1>4, <2>1 DEF Gone
    <2>3. ~Gone => faults = 1 /\ cycle.pc = "teardown"
      BY <1>3 DEF Gone
    <2> QED BY <1>3, <1>4, <2>2, <2>3, QuietHas
  <1>5. ASSUME Fault, bad <=> tool.failed
        PROVE  /\ faults <= faults' /\ (bad => faults' = 1) /\ (~bad => Gone) /\ (cycle.pc = "final" => ~bad)
    <2>1. faults = 0 /\ faults' = 1 /\ faults <= faults'
      BY <1>5, QuietHas DEF Quiet
    <2>2. Gone
      BY <1>3, <2>1 DEF Gone
    <2> QED BY <1>3, <1>5, <2>1, <2>2
  <1>6. /\ faults <= faults' /\ (bad => faults' = 1) /\ (~bad => Gone) /\ (cycle.pc = "final" => ~bad)
    BY <1>2, <1>4, <1>5
  <1>7. tool'.pc \in {"exit0", "exit1"} /\ (tool'.pc = "exit1" <=> bad)
    BY <1>2
  <1>8. /\ tool'.script = tool.script /\ tool'.failed = tool.failed /\ tool'.deleted = tool.deleted
    BY <1>2
  <1> QED BY <1>1, <1>6, <1>7, <1>8, QuietOver

LEMMA QuietDied ==
  ASSUME CycleTyped, CycleTyped', Quiet, Quiet', QuietInv, Dies, cycle' = [cycle EXCEPT !.lost = @ \/ late' # late]
  PROVE  QuietInv'
  <1>1. /\ (cycle'.lost <=> cycle.lost \/ late' # late) /\ cycle'.pc = cycle.pc
        /\ cycle'.waits = cycle.waits /\ cycle'.ids = cycle.ids /\ cycle'.created = cycle.created
        /\ tool'.pc = "exit1" /\ tool'.script = tool.script /\ tool'.failed = tool.failed
        /\ tool'.deleted = tool.deleted
    BY DeathIs
  <1>2. late' = late
    BY <1>1 DEF Quiet
  <1>3. tool.pc \notin {"idle", "exit0", "exit1"} /\ UNCHANGED <<estate, minted, desired>>
    BY DEF Dies, Running, Exits
  <1>4. faults = 0 /\ faults' = 1 /\ faults <= faults'
    BY QuietHas DEF Dies, Quiet
  <1>5. cycle.pc # "final"
    BY <1>4 DEF QuietInv, CycleGoesRight
  <1> QED BY <1>1, <1>2, <1>3, <1>4, <1>5, QuietOver

LEMMA QuietTool ==
  ASSUME CycleTyped, CycleTyped', Quiet, Quiet', QuietInv, ToolStep, UNCHANGED cycle
  PROVE  QuietInv'
  BY QuietListed, QuietPassed, QuietRefused, QuietCreated, QuietUpdated, QuietReadBack, QuietEnded, QuietDeleted,
     QuietReadAgain DEF ToolStep, Converge

-----------------------------------------------------------------------------
(* A quiet cycle: its own steps, between the runs of the scripts. *)

\* A step while no script runs.
LEMMA QuietMoves ==
  ASSUME CycleTyped, CycleTyped', Quiet, Quiet', QuietInv, UNCHANGED tool, ~Running, ~cycle'.waits, faults <= faults',
         CycleShape',
         faults' = 0 =>
           /\ cycle'.pc \in {"readDrift", "delete"} => Missing' = {}
           /\ cycle'.pc = "delete" => cycle'.ids[Other] \in Named(Other)'
           /\ cycle'.pc \in {"start", "dry", "first", "readCreate", "second", "edit", "drift", "readDrift", "delete"} =>
                minted' + Cardinality(Missing') <= Cardinality(Declared)
           /\ cycle'.pc = "recreate" => minted' + Cardinality(Missing') <= Cardinality(Declared) + 1,
         cycle'.pc = "final" => faults' = 1,
         cycle'.pc \in {"start", "dry", "adopt", "residue"} => ~cycle'.created,
         ~cycle'.created => cycle'.pc \in {"start", "dry", "first", "adopt", "residue"} \cup CycleExits,
         ~cycle'.created \/ cycle'.pc \in CycleExits => Gone'
  PROVE  QuietInv'
  <1>1. tool.pc \notin {"list", "each", "readBack", "readAgain"} /\ ~Running'
    BY DEF Running, Exits
  <1>2. /\ (tool.deleted => tool.script = "teardown") /\ (tool.failed \/ tool.pc = "exit1" => faults = 1)
        /\ (faults = 1 => faults' = 1)
    BY QuietHas DEF QuietInv, RunShape, CycleShape
  <1>3. RunShape'
    BY <1>1, <1>2 DEF RunShape
  <1>4. ConvergeGoesRight'
    BY <1>1 DEF ConvergeGoesRight
  <1>5. TeardownGoesRight'
    BY DEF TeardownGoesRight
  <1>6. CycleGoesRight'
    BY DEF CycleGoesRight, Ended
  <1> QED BY <1>3, <1>4, <1>5, <1>6 DEF QuietInv

\* The same, of a step that writes nothing.
LEMMA QuietTurns ==
  ASSUME CycleTyped, CycleTyped', Quiet, Quiet', QuietInv, UNCHANGED <<estate, minted, tool, late>>, ~Running,
         desired' \in [Declared -> Contents], ~cycle'.waits, faults <= faults',
         faults' = 0 =>
           /\ cycle'.pc \in {"readDrift", "delete"} => Missing = {}
           /\ cycle'.pc = "delete" => cycle'.ids[Other] \in Named(Other)
           /\ cycle'.pc \in {"start", "dry", "first", "readCreate", "second", "edit", "drift", "readDrift", "delete"} =>
                minted + Cardinality(Missing) <= Cardinality(Declared)
           /\ cycle'.pc = "recreate" => minted + Cardinality(Missing) <= Cardinality(Declared) + 1,
         cycle'.pc = "final" => faults' = 1,
         cycle'.pc \in {"start", "dry", "adopt", "residue"} => ~cycle'.created,
         ~cycle'.created => cycle'.pc \in {"start", "dry", "first", "adopt", "residue"} \cup CycleExits,
         ~cycle'.created \/ cycle'.pc \in CycleExits => Gone
  PROVE  QuietInv'
  <1>1. Live' = Live /\ (\A n : Named(n)' = Named(n)) /\ Missing' = Missing /\ (Gone' <=> Gone)
    BY SameEstate
  <1>2. faults' \in {0, 1}
    BY QuietHas DEF CycleTyped, Quiet
  <1>3. CycleShape'
    BY <1>1, <1>2 DEF QuietInv, CycleShape
  <1> QED BY <1>1, <1>3, QuietMoves

\* A failure between the runs, or of one: what was created is torn down by the finally clause.
LEMMA QuietFails ==
  ASSUME CycleTyped, CycleTyped', Quiet, Quiet', QuietInv, UNCHANGED <<estate, minted, desired, tool, late>>, ~Running,
         faults <= faults', Fails, cycle.created => faults' = 1
  PROVE  QuietInv'
  <1>1. /\ ~cycle'.waits /\ cycle'.pc = (IF cycle.created THEN "final" ELSE "exit1")
        /\ (cycle'.created <=> cycle.created)
    BY FailsIs DEF CycleTyped
  <1>2. ~cycle.created => Gone
    BY DEF QuietInv, CycleGoesRight
  <1>3. cycle'.pc = "final" \/ (cycle'.pc = "exit1" /\ ~cycle.created)
    BY <1>1
  <1>4. "final" \notin CycleExits /\ "exit1" \in CycleExits
    BY DEF CycleExits
  <1>5. desired' \in [Declared -> Contents]
    BY QuietHas
  <1> QED BY <1>1, <1>2, <1>3, <1>4, <1>5, QuietTurns

LEMMA QuietIdle ==
  ASSUME CycleTyped, Quiet, QuietInv
  PROVE  /\ ~cycle.waits => ~Running
         /\ tool.pc \in {"exit0", "exit1"} => ~Running
         /\ UNCHANGED vars => UNCHANGED <<estate, minted, desired, tool, late, faults>> /\ faults <= faults'
         /\ CycleFault => UNCHANGED <<estate, minted, desired, tool, late>> /\ faults' = faults + 1 /\ faults <= faults'
         /\ UNCHANGED desired => desired' \in [Declared -> Contents]
  <1>1. faults \in {0, 1} /\ (CycleFault => faults' = faults + 1)
    BY QuietHas DEF CycleFault, Fault
  <1> QED BY <1>1, QuietHas DEF QuietInv, RunShape, Running, Exits, vars, CycleFault

LEMMA QuietBegun ==
  ASSUME CycleTyped, CycleTyped', Quiet, Quiet', QuietInv, Begins
  PROVE  QuietInv'
  <1>1. /\ Now("start") /\ ~cycle'.waits
        /\ \/ /\ UNCHANGED vars /\ cycle'.pc \in {"dry", "refused"} /\ cycle'.created = cycle.created
           \/ CycleFault /\ Fails
    BY BeginIs DEF CycleTyped
  <1>2. cycle.pc = "start" /\ ~cycle.waits /\ ~cycle.created /\ Gone /\ ~Running
    BY <1>1, QuietIdle DEF Now, QuietInv, CycleGoesRight
  <1>3. CASE CycleFault /\ Fails
    BY <1>2, <1>3, QuietIdle, QuietFails
  <1>4. CASE UNCHANGED vars /\ cycle'.pc \in {"dry", "refused"} /\ cycle'.created = cycle.created
    <2>1. faults = 0 => minted + Cardinality(Missing) <= Cardinality(Declared)
      BY <1>2 DEF QuietInv, ConvergeGoesRight
    <2>2. UNCHANGED <<estate, minted, desired, tool, late, faults>> /\ faults <= faults' /\ desired' \in [Declared -> Contents]
      BY <1>4, QuietIdle
    <2>3. "refused" \in CycleExits /\ "dry" \notin CycleExits
      BY DEF CycleExits
    <2> QED BY <1>1, <1>2, <1>4, <2>1, <2>2, <2>3, QuietTurns
  <1> QED BY <1>1, <1>3, <1>4

LEMMA QuietStarts ==
  ASSUME CycleTyped, CycleTyped', Quiet, Quiet', QuietInv, RunsStep
  PROVE  QuietInv'
  <1>1. /\ cycle'.waits /\ cycle'.pc = cycle.pc /\ cycle'.ids = cycle.ids
        /\ (cycle'.created <=> cycle.created \/ cycle.pc = "first")
        /\ ScriptOf[cycle.pc] \in {"converge", "dryRun", "teardown"}
    BY RunsIs DEF CycleTyped
  <1>2. /\ cycle.pc \in DOMAIN ScriptOf /\ ~cycle.waits /\ tool' = Fresh(ScriptOf[cycle.pc])
        /\ UNCHANGED <<estate, minted, desired, late, faults>>
    BY DEF RunsStep, Starts
  <1>3. /\ tool'.pc = "list" /\ tool'.script = ScriptOf[cycle.pc] /\ tool'.todo = Declared /\ ~tool'.failed /\ ~tool'.deleted
    BY <1>1, <1>2, FreshTool
  <1>4. Live' = Live /\ (\A n : Named(n)' = Named(n)) /\ Missing' = Missing /\ (Gone' <=> Gone)
    BY <1>2, SameEstate
  <1>5. cycle.pc \in {"dry", "first", "second", "drift", "recreate", "teardown", "adopt", "final"}
    BY <1>2 DEF ScriptOf
  <1>6. CycleShape'
    BY <1>2, <1>4 DEF QuietInv, CycleShape
  <1>7. RunShape'
    BY <1>1, <1>2, <1>3 DEF RunShape
  <1>8. ConvergeGoesRight'
    <2>1. cycle.pc \notin {"readDrift", "delete"}
      BY <1>5
    <2> QED BY <1>1, <1>2, <1>3, <1>4, <2>1 DEF QuietInv, ConvergeGoesRight
  <1>9. TeardownGoesRight'
    BY <1>3 DEF TeardownGoesRight
  <1>10. CycleGoesRight'
    <2>1. ~cycle'.created => ScriptOf[cycle.pc] = "dryRun"
      <3>1. ASSUME ~cycle.created, cycle.pc # "first" PROVE cycle.pc \in {"dry", "adopt"}
        BY <1>2, <1>5, <3>1 DEF QuietInv, CycleGoesRight, CycleExits
      <3> QED BY <1>1, <3>1 DEF ScriptOf
    <2>2. cycle.pc \notin CycleExits /\ cycle.pc \notin {"start", "residue"}
      BY <1>5 DEF CycleExits
    <2>3. cycle.pc \in {"dry", "adopt"} => ~cycle'.created
      BY <1>1 DEF QuietInv, CycleGoesRight
    <2>4. ~cycle'.created => Gone
      BY <1>1 DEF QuietInv, CycleGoesRight
    <2>5. cycle.pc = "final" => faults = 1
      BY DEF QuietInv, CycleGoesRight
    <2>6. ~cycle'.created => cycle.pc \in {"start", "dry", "first", "adopt", "residue"} \cup CycleExits
      BY <1>1 DEF QuietInv, CycleGoesRight
    <2> QED BY <1>1, <1>2, <1>3, <1>4, <2>1, <2>2, <2>3, <2>4, <2>5, <2>6 DEF CycleGoesRight, Ended
  <1> QED BY <1>6, <1>7, <1>8, <1>9, <1>10 DEF QuietInv

LEMMA QuietStepDone ==
  ASSUME CycleTyped, CycleTyped', Quiet, Quiet', QuietInv, StepDone
  PROVE  QuietInv'
  <1>1. /\ cycle.waits /\ tool.pc = "exit0" /\ cycle.pc # "final" /\ UNCHANGED vars /\ cycle.pc \in DOMAIN ScriptOf
        /\ tool.script = ScriptOf[cycle.pc] /\ ~Running
    BY QuietIdle DEF StepDone, CycleTyped, QuietInv, RunShape
  <1>2. /\ ~cycle'.waits /\ cycle'.pc = After[cycle.pc]
        /\ cycle'.ids = cycle.ids /\ (cycle'.created <=> cycle.created /\ cycle.pc # "teardown")
        /\ cycle.pc \in {"dry", "first", "second", "drift", "recreate", "teardown", "adopt"}
    BY <1>1, DoneIs DEF CycleTyped
  <1>3. UNCHANGED <<estate, minted, desired, tool, late, faults>> /\ faults <= faults' /\ desired' \in [Declared -> Contents]
    BY <1>1, QuietIdle
  <1>4. /\ cycle'.pc \in {"first", "readCreate", "edit", "readDrift", "readRecreate", "adopt", "residue"}
        /\ cycle'.pc = "first" => cycle.pc = "dry"
        /\ cycle'.pc = "readCreate" => cycle.pc = "first"
        /\ cycle'.pc = "edit" => cycle.pc = "second"
        /\ cycle'.pc = "readDrift" => cycle.pc = "drift"
        /\ cycle'.pc = "readRecreate" => cycle.pc = "recreate"
        /\ cycle'.pc = "adopt" => cycle.pc = "teardown"
        /\ cycle'.pc = "residue" => cycle.pc = "adopt"
    BY <1>2 DEF After
  <1>5. cycle'.pc \notin CycleExits
    BY <1>4 DEF CycleExits
  <1>6. faults = 0 /\ cycle.pc \in {"dry", "first", "second", "drift"} => minted + Cardinality(Missing) <= Cardinality(Declared)
    BY DEF QuietInv, ConvergeGoesRight
  <1>7. faults = 0 /\ cycle.pc = "drift" => Missing = {}
    BY <1>1 DEF QuietInv, ConvergeGoesRight, ScriptOf
  <1>8. cycle.pc = "teardown" => Gone
    BY <1>1 DEF QuietInv, TeardownGoesRight, ScriptOf
  <1>9. /\ cycle.pc = "adopt" => ~cycle.created
        /\ ~cycle.created => Gone
        /\ ~cycle.created => cycle.pc \in {"dry", "first", "adopt"}
    BY <1>2 DEF QuietInv, CycleGoesRight, CycleExits
  <1>10. ~cycle.created => ScriptOf[cycle.pc] = "dryRun"
    BY <1>1 DEF QuietInv, CycleGoesRight
  <1>11. ~cycle.created => cycle.pc \in {"dry", "adopt"}
    BY <1>9, <1>10 DEF ScriptOf
  <1>12. ~cycle'.created => cycle'.pc \in {"first", "adopt", "residue"}
    BY <1>2, <1>11 DEF After
  <1>13. ~cycle'.created => Gone
    BY <1>2, <1>8, <1>9
  <1>14. cycle'.pc \in {"start", "dry", "adopt", "residue"} => ~cycle'.created
    BY <1>2, <1>4, <1>9
  <1>15. faults' = 0 =>
           /\ cycle'.pc \in {"readDrift", "delete"} => Missing = {}
           /\ cycle'.pc # "delete" /\ cycle'.pc # "recreate"
           /\ cycle'.pc \in {"start", "dry", "first", "readCreate", "second", "edit", "drift", "readDrift", "delete"} =>
                minted + Cardinality(Missing) <= Cardinality(Declared)
    BY <1>3, <1>4, <1>6, <1>7
  <1>16. cycle'.pc # "final"
    BY <1>4
  <1> QED BY <1>1, <1>2, <1>3, <1>5, <1>12, <1>13, <1>14, <1>15, <1>16, QuietTurns

LEMMA QuietStepFails ==
  ASSUME CycleTyped, CycleTyped', Quiet, Quiet', QuietInv, StepFails
  PROVE  QuietInv'
  <1>1. tool.pc = "exit1" /\ UNCHANGED vars /\ Fails
    BY DEF StepFails
  <1>2. faults = 1 /\ ~Running
    BY <1>1, QuietIdle DEF QuietInv, RunShape
  <1>3. UNCHANGED <<estate, minted, desired, tool, late, faults>> /\ faults <= faults'
    BY <1>1, QuietIdle
  <1> QED BY <1>1, <1>2, <1>3, QuietFails

\* The teardown of the finally clause has the one failure behind it, so it ends well.
LEMMA QuietFinalEnds ==
  ASSUME CycleTyped, CycleTyped', Quiet, Quiet', QuietInv, FinalEnds
  PROVE  QuietInv'
  <1>1. cycle.waits /\ tool.pc \in {"exit0", "exit1"} /\ cycle.pc = "final" /\ UNCHANGED vars /\ ~Running
    BY QuietIdle DEF FinalEnds, Exits
  <1>2. tool.script = "teardown"
    BY <1>1 DEF QuietInv, RunShape, ScriptOf
  <1>3. Gone
    BY <1>1, <1>2 DEF QuietInv, TeardownGoesRight
  <1>4. ~cycle'.waits /\ cycle'.pc = "exit1" /\ "exit1" \in CycleExits
    BY FinalIs DEF CycleTyped, CycleExits
  <1>5. UNCHANGED <<estate, minted, desired, tool, late, faults>> /\ faults <= faults' /\ desired' \in [Declared -> Contents]
    BY <1>1, QuietIdle
  <1> QED BY <1>1, <1>3, <1>4, <1>5, QuietTurns

LEMMA QuietReads ==
  ASSUME CycleTyped, CycleTyped', Quiet, Quiet', QuietInv, ReadsIds
  PROVE  QuietInv'
  <1>1. ~cycle.waits /\ ~Running /\ cycle.pc \in {"readCreate", "readDrift", "readRecreate"}
    <2>1. cycle.pc \in {"readCreate", "readDrift", "readRecreate"}
      BY DEF ReadsIds, Reads
    <2>2. ~cycle.waits
      BY <2>1 DEF CycleTyped, ScriptOf
    <2> QED BY <2>1, <2>2, QuietIdle
  <1>2. cycle.created
    BY <1>1 DEF QuietInv, CycleGoesRight, CycleExits
  <1>3. CASE CycleFault /\ Fails
    <2>1. UNCHANGED <<estate, minted, desired, tool, late>> /\ faults' = 1 /\ faults <= faults'
      BY <1>3, QuietHas, QuietIdle DEF Quiet
    <2> QED BY <1>1, <1>3, <2>1, QuietFails
  <1>4. ASSUME UNCHANGED vars, cycle'.created = cycle.created, cycle'.waits = cycle.waits, NEW found \in Listings,
               \/ Now("readCreate") /\ cycle'.pc = "second"
               \/ Now("readDrift") /\ cycle'.pc = "delete" /\ cycle'.ids = found
               \/ cycle.pc \in Reads /\ ~Now("readCreate") /\ ~Now("readDrift") /\ cycle'.pc = "teardown"
        PROVE  QuietInv'
    <2>1. UNCHANGED <<estate, minted, desired, tool, late, faults>> /\ faults <= faults' /\ desired' \in [Declared -> Contents]
      BY <1>4, QuietIdle
    <2>2. cycle'.pc \in {"second", "delete", "teardown"} /\ cycle'.pc \notin CycleExits
      BY <1>4 DEF CycleExits
    <2>3. \A n \in Declared : IF found[n] = 0 THEN Named(n) = {} ELSE found[n] \in Named(n)
      BY ListingIs, QuietHas
    <2>4. /\ cycle'.pc = "second" => cycle.pc = "readCreate"
          /\ cycle'.pc = "delete" => cycle.pc = "readDrift" /\ cycle'.ids = found
      BY <1>4 DEF Now
    <2>5. faults = 0 /\ cycle'.pc \in {"second", "delete"} => minted + Cardinality(Missing) <= Cardinality(Declared)
      BY <2>4 DEF QuietInv, ConvergeGoesRight
    <2>6. faults = 0 /\ cycle'.pc = "delete" => Missing = {}
      BY <2>4 DEF QuietInv, ConvergeGoesRight
    <2>7. faults = 0 /\ cycle'.pc = "delete" => cycle'.ids[Other] \in Named(Other)
      BY <2>3, <2>4, <2>6, CycleNumbers DEF Missing
    <2>8. faults' = 0 =>
           /\ cycle'.pc \in {"readDrift", "delete"} => Missing = {}
           /\ cycle'.pc = "delete" => cycle'.ids[Other] \in Named(Other)
           /\ cycle'.pc \in {"start", "dry", "first", "readCreate", "second", "edit", "drift", "readDrift", "delete"} =>
                minted + Cardinality(Missing) <= Cardinality(Declared)
           /\ cycle'.pc # "recreate"
      BY <2>1, <2>2, <2>5, <2>6, <2>7
    <2> QED BY <1>1, <1>2, <1>4, <2>1, <2>2, <2>8, QuietTurns
  <1>5. \/ /\ UNCHANGED vars /\ cycle'.created = cycle.created /\ cycle'.waits = cycle.waits
           /\ \E found \in Listings :
                \/ Now("readCreate") /\ cycle'.pc = "second"
                \/ Now("readDrift") /\ cycle'.pc = "delete" /\ cycle'.ids = found
                \/ cycle.pc \in Reads /\ ~Now("readCreate") /\ ~Now("readDrift") /\ cycle'.pc = "teardown"
        \/ CycleFault /\ Fails /\ cycle.pc \in Reads
    BY ReadIs DEF CycleTyped
  <1> QED BY <1>3, <1>4, <1>5

LEMMA QuietEdits ==
  ASSUME CycleTyped, CycleTyped', Quiet, Quiet', QuietInv, EditsDrift
  PROVE  QuietInv'
  <1>1. cycle.pc = "edit" /\ ~cycle.waits /\ UNCHANGED <<estate, minted, tool, late, faults>> /\ desired' \in [Declared -> Contents]
    BY DEF EditsDrift, Now
  <1>2. ~cycle'.waits /\ cycle'.pc = "drift" /\ cycle'.created = cycle.created /\ ~Running /\ faults <= faults'
    BY <1>1, EditIs, QuietIdle, QuietHas DEF CycleTyped
  <1>3. cycle.created /\ "drift" \notin CycleExits
    BY <1>1 DEF QuietInv, CycleGoesRight, CycleExits
  <1>4. faults = 0 => minted + Cardinality(Missing) <= Cardinality(Declared)
    BY <1>1 DEF QuietInv, ConvergeGoesRight
  <1> QED BY <1>1, <1>2, <1>3, <1>4, QuietTurns

\* The object deleted outside is there, so the step goes through and the next converge has one to make.
LEMMA QuietDeletes ==
  ASSUME CycleTyped, CycleTyped', Quiet, Quiet', QuietInv, DeletesOther
  PROVE  QuietInv'
  <1> DEFINE i == cycle.ids[Other]
  <1>1. cycle.pc = "delete" /\ ~cycle.waits /\ ~Running /\ UNCHANGED <<minted, desired, tool, late>>
    BY QuietIdle DEF DeletesOther, Now
  <1>2. cycle.created /\ "recreate" \notin CycleExits
    BY <1>1 DEF QuietInv, CycleGoesRight, CycleExits
  <1>3. faults = 0 => i \in Named(Other) /\ Missing = {} /\ minted + Cardinality(Missing) <= Cardinality(Declared)
    BY <1>1 DEF QuietInv, ConvergeGoesRight
  <1>4. CASE i \notin Live /\ UNCHANGED <<estate, faults>> /\ Fails
    <2>1. faults = 1 /\ faults <= faults'
      BY <1>3, <1>4, QuietHas DEF Named
    <2> HIDE DEF i
    <2> QED BY <1>1, <1>4, <2>1, QuietFails
  <1>5. CASE UNCHANGED estate /\ Fault /\ Fails
    <2>1. faults' = 1 /\ faults <= faults'
      BY <1>5, QuietHas DEF Quiet
    <2> HIDE DEF i
    <2> QED BY <1>1, <1>5, <2>1, QuietFails
  <1>6. ASSUME i \in Live, cycle' = [cycle EXCEPT !.pc = "recreate"]
        PROVE  cycle'.pc = "recreate" /\ ~cycle'.waits /\ cycle'.created
    BY <1>1, <1>2, <1>6 DEF CycleTyped, Cycles
  <1>7. CASE i \in Live /\ cycle' = [cycle EXCEPT !.pc = "recreate"] /\ UNCHANGED estate /\ Fault
    <2>1. faults' = 1 /\ faults <= faults' /\ desired' \in [Declared -> Contents]
      BY <1>1, <1>7, QuietHas DEF Quiet
    <2>2. cycle'.pc = "recreate" /\ ~cycle'.waits /\ cycle'.created
      BY <1>6, <1>7
    <2> HIDE DEF i
    <2> QED BY <1>1, <1>2, <1>7, <2>1, <2>2, QuietTurns
  <1>8. CASE i \in Live /\ cycle' = [cycle EXCEPT !.pc = "recreate"] /\ estate' = [estate EXCEPT ![i] = Absent] /\ UNCHANGED faults
    <2>1. cycle'.pc = "recreate" /\ ~cycle'.waits /\ cycle'.created /\ i \in Ids /\ faults <= faults'
      BY <1>6, <1>8, QuietHas DEF Live
    <2>2. /\ estate' \in [Ids -> SuperMetric \cup {Absent}] /\ estate'[i] = Absent
          /\ \A j \in Ids \ {i} : estate'[j] = estate[j]
      BY <1>8, <2>1, QuietHas
    <2> HIDE DEF i
    <2>3. Live' = Live \ {i}
      BY <2>2 DEF Live
    <2>4. \A j \in Live \ {i} : estate'[j] = estate[j]
      BY <2>2 DEF Live
    <2>5. \A m \in Declared : Named(m)' = Named(m) \ {i}
      BY <2>3, <2>4 DEF Named
    <2>6. CycleShape'
      <3>1. Live' \subseteq 1 .. minted' /\ faults' \in {0, 1}
        BY <1>1, <1>8, <2>3, QuietHas
      <3>2. \A m \in Declared : \A a, b \in Named(m)' : a = b
        BY <2>5 DEF QuietInv, CycleShape
      <3> QED BY <1>1, <2>2, <3>1, <3>2, QuietHas DEF CycleShape
    <2>7. ASSUME faults' = 0 PROVE minted' + Cardinality(Missing') <= Cardinality(Declared) + 1
      <3>1. faults = 0 /\ i \in Named(Other) /\ Missing = {}
        BY <1>3, <1>8, <2>7 DEF i
      <3>2. Missing' \subseteq {Other}
        <4>1. \A m \in Declared \ {Other} : i \notin Named(m)
          BY <3>1 DEF Named
        <4>2. \A m \in Declared \ {Other} : Named(m)' # {}
          BY <2>5, <3>1, <4>1 DEF Missing
        <4> QED BY <4>2 DEF Missing
      <3>3. Cardinality(Missing') <= 1
        <4>1. IsFiniteSet({Other}) /\ Cardinality({Other}) = 1
          BY FS_Singleton
        <4>2. Cardinality(Missing') <= Cardinality({Other})
          BY <3>2, <4>1, FS_Subset
        <4> QED BY <4>1, <4>2
      <3>4. minted + Cardinality(Missing) <= Cardinality(Declared) /\ Cardinality(Missing) = 0
        BY <1>3, <3>1, FS_EmptySet
      <3> QED BY <1>1, <3>3, <3>4, MissingCounted, CycleNumbers, QuietHas
    <2> QED BY <1>1, <1>2, <2>1, <2>6, <2>7, QuietMoves
  <1> QED BY <1>4, <1>5, <1>7, <1>8 DEF DeletesOther

LEMMA QuietResidue ==
  ASSUME CycleTyped, CycleTyped', Quiet, Quiet', QuietInv, Residue
  PROVE  QuietInv'
  <1>1. /\ cycle'.pc \in {"exit0", "exit1"} /\ cycle'.waits = cycle.waits /\ cycle'.created = cycle.created /\ Now("residue")
        /\ UNCHANGED vars \/ CycleFault
    BY ResidueIs DEF CycleTyped
  <1>2. cycle.pc = "residue" /\ ~cycle'.waits /\ ~Running /\ ~cycle.created /\ Gone
    BY <1>1, QuietIdle DEF Now, QuietInv, CycleGoesRight
  <1>3. UNCHANGED <<estate, minted, desired, tool, late>> /\ faults <= faults' /\ desired' \in [Declared -> Contents]
    BY <1>1, QuietIdle
  <1>4. cycle'.pc \in CycleExits
    BY <1>1 DEF CycleExits
  <1> QED BY <1>1, <1>2, <1>3, <1>4, QuietTurns

-----------------------------------------------------------------------------
(* The theorem. *)

LEMMA CycleStarts == CycleInit => CycleInv
  <1> SUFFICES ASSUME CycleInit PROVE CycleInv
    OBVIOUS
  <1>1. /\ tool \in Tools /\ tool.pc = "idle" /\ tool.script = "converge" /\ ~tool.failed /\ ~tool.deleted
    BY FreshTool DEF CycleInit, Init
  <1>2. None \in [Declared -> 0 .. MaxId]
    BY CycleNumbers DEF None
  <1>3. cycle = [pc |-> "start", waits |-> FALSE, created |-> FALSE, ids |-> None, kept |-> FALSE, changed |-> FALSE,
                 noop |-> FALSE, lost |-> FALSE]
    BY DEF CycleInit
  <1>4. cycle \in Cycles /\ ~cycle.waits /\ cycle.pc = "start" /\ ~cycle.created
    BY <1>2, <1>3 DEF Cycles
  <1>5. minted = 0 /\ faults = 0 /\ others = 0 /\ late = {} /\ desired \in [Declared -> Contents]
        /\ estate = [i \in Ids |-> Absent]
    BY DEF CycleInit, Init
  <1>6. CycleTyped
    BY <1>1, <1>4, <1>5, CycleNumbers DEF CycleTyped
  <1>7. Live = {} /\ (\A n : Named(n) = {}) /\ Missing = Declared /\ Gone
    BY <1>5 DEF Live, Named, Missing, Gone
  <1>8. CycleShape
    BY <1>5, <1>7 DEF CycleShape
  <1>9. RunShape
    BY <1>1, <1>4 DEF RunShape, Running
  <1>10. ConvergeGoesRight
    <2>1. minted + Cardinality(Missing) <= Cardinality(Declared)
      BY <1>5, <1>7, CycleNumbers
    <2> QED BY <1>1, <1>4, <2>1 DEF ConvergeGoesRight
  <1>11. TeardownGoesRight
    BY <1>4 DEF TeardownGoesRight
  <1>12. CycleGoesRight
    BY <1>4, <1>7 DEF CycleGoesRight, Ended, CycleExits
  <1> QED BY <1>6, <1>8, <1>9, <1>10, <1>11, <1>12 DEF CycleInv, QuietInv

LEMMA CycleSteps == CycleInv /\ [CycleNext]_cycleVars => CycleInv'
  <1> SUFFICES ASSUME CycleInv, [CycleNext]_cycleVars PROVE CycleInv'
    OBVIOUS
  <1>1. CycleTyped /\ (Quiet => QuietInv)
    BY DEF CycleInv
  <1>2. CASE CycleStep
    <2>1. CycleTyped' /\ faults <= faults' /\ others <= others' /\ (cycle.lost => cycle'.lost)
      BY <1>1, <1>2, TypedCycle
    <2>2. ASSUME Quiet' PROVE QuietInv'
      <3>1. Quiet /\ QuietInv
        BY <1>1, <2>1, <2>2, QuietBefore
      <3> QED BY <1>1, <1>2, <2>1, <2>2, <3>1, QuietBegun, QuietStarts, QuietStepDone, QuietStepFails, QuietFinalEnds,
            QuietReads, QuietEdits, QuietDeletes, QuietResidue DEF CycleStep
    <2> QED BY <2>1, <2>2 DEF CycleInv
  <1>3. CASE Around
    <2>1. CycleTyped' /\ faults <= faults' /\ others <= others' /\ (cycle.lost => cycle'.lost)
      BY <1>1, <1>3, TypedAround
    <2>2. ASSUME Quiet' PROVE QuietInv'
      <3>1. Quiet /\ QuietInv
        BY <1>1, <2>1, <2>2, QuietBefore
      <3>2. ~OthersAct
        <4>1. others = 0 /\ others' = 0
          BY <2>2, <3>1 DEF Quiet
        <4> QED BY <4>1 DEF OthersAct
      <3>3. ~Lands
        BY <1>1, <3>1, QuietHas DEF Lands
      <3> QED BY <1>1, <1>3, <2>1, <2>2, <3>1, <3>2, <3>3, QuietTool, QuietDied DEF Around
    <2> QED BY <2>1, <2>2 DEF CycleInv
  <1>4. CASE UNCHANGED cycleVars
    <2>1. UNCHANGED <<estate, minted, desired, tool, late, faults, others, cycle>>
      BY <1>4 DEF cycleVars, vars
    <2>2. Live' = Live /\ (\A n : Named(n)' = Named(n)) /\ Missing' = Missing /\ (Gone' <=> Gone)
      BY <2>1, SameEstate
    <2>3. CycleTyped' /\ (Quiet' => Quiet)
      BY <1>1, <2>1 DEF CycleTyped, Quiet
    <2>4. ASSUME QuietInv PROVE QuietInv'
      <3>1. CycleShape' /\ (Planned => Planned')
        BY <2>1, <2>2, <2>4 DEF QuietInv, CycleShape, Planned
      <3>2. RunShape'
        BY <2>1, <2>4, <3>1 DEF QuietInv, RunShape, Running
      <3>3. ConvergeGoesRight' /\ TeardownGoesRight'
        BY <2>1, <2>2, <2>4 DEF QuietInv, ConvergeGoesRight, TeardownGoesRight
      <3>4. CycleGoesRight'
        BY <2>1, <2>2, <2>4 DEF QuietInv, CycleGoesRight, Ended
      <3> QED BY <3>1, <3>2, <3>3, <3>4 DEF QuietInv
    <2> QED BY <1>1, <2>3, <2>4 DEF CycleInv
  <1> QED BY <1>2, <1>3, <1>4 DEF CycleNext, Terminating

\* Wherever one failure falls - in a step, in a script, in the teardown or in its read-back - a cycle that has ended
\* leaves no declared name on the instance, for any number of names, contents and ids: unless somebody else wrote
\* meanwhile, a write was lost on the way, or the instance outgrew the one page that is listed.
THEOREM CycleLeavesNothing == CycleSpec => []OneFailureLeavesNothing
  <1>1. CycleInv => OneFailureLeavesNothing
    BY DEF CycleInv, QuietInv, CycleGoesRight, Quiet, OneFailureLeavesNothing
  <1> QED BY <1>1, CycleStarts, CycleSteps, PTL DEF CycleSpec

=============================================================================
