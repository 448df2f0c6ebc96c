---------------------------- MODULE DeploysProofs ----------------------------
(***************************************************************************)
(* Proofs about the two tools that put content on an Orchestrator, for any *)
(* declarations of the gate, any number of polls, runs, failures and acts  *)
(* of others; and about the gate itself (PreDeleteGate), which the first   *)
(* of them binds.                                                          *)
(***************************************************************************)
EXTENDS MCDeploys, PreDeleteGate, TLAPS

-----------------------------------------------------------------------------
(* The gate: what each step of a run has seen still holds when the run says so. *)

Imported == {"poll", "subscribe", "readSubscription", "exit0"}
Resolved == {"subscribe", "readSubscription", "exit0"}
Unsubscribed ==
  {"deleteWorkflow", "recheckWorkflow", "dispatch", "seekCategory", "openCategory", "deleteCategory", "seekAgain",
   "exit0"}
Unimported == {"dispatch", "seekCategory", "openCategory", "deleteCategory", "seekAgain", "exit0"}

ApplyInv ==
  binder.mode = "apply" =>
    /\ binder.pc \notin Gate!RemoveSteps
    /\ binder.pc \in Imported => Gate!ImportReadsBack
    /\ binder.pc \in Resolved => known
    /\ binder.pc = "exit0" => Gate!SubscriptionReadsBack

RemoveInv ==
  binder.mode = "remove" =>
    /\ binder.pc \in Unsubscribed /\ binder.gone => subscription = Absent
    /\ binder.pc \in Unimported /\ binder.gone => workflow = Absent
    /\ binder.pc = "exit0" => binder.gone /\ (bindOthers = 0 => ~category.there)

GateInv == Gate!TypeOK /\ (category.holds => bindOthers # 0) /\ ApplyInv /\ RemoveInv

-----------------------------------------------------------------------------
(* Proofs about the gate. *)

BindStages == {"idle"} \cup Gate!Exits \cup Gate!ApplySteps \cup Gate!RemoveSteps
Bind ==
  [pc : BindStages, mode : {"apply", "remove"}, registry : Registries, rest : Rests, scope : Scopes,
   polls : 0 .. MaxPolls, gone : BOOLEAN]

LEMMA GateNumbers ==
  /\ MaxPolls \in Nat /\ MaxRemoves \in Nat /\ MaxFaults \in Nat /\ MaxOthers \in Nat
  /\ 0 \in 0 .. MaxPolls /\ 0 \in 0 .. MaxRemoves /\ 0 \in 0 .. MaxFaults /\ 0 \in 0 .. MaxOthers
  /\ Absent \notin Gate!Workflow /\ Absent \notin Gate!Subscription
  BY DeploysAssumption DEF Gate!BindingAssumption, Gate!Workflow, Gate!Subscription

\* What is around the run.
LEMMA GateTypes ==
  ASSUME GateInv
  PROVE  /\ workflow \in Gate!Workflow \cup {Absent} /\ subscription \in Gate!Subscription \cup {Absent}
         /\ category \in [there : BOOLEAN, holds : BOOLEAN] /\ (category.holds => category.there)
         /\ category.there \in BOOLEAN /\ category.holds \in BOOLEAN
         /\ known \in BOOLEAN /\ binder \in Bind /\ removes \in 0 .. MaxRemoves /\ bindFaults \in 0 .. MaxFaults
         /\ bindOthers \in 0 .. MaxOthers
         /\ binder.registry \in Registries /\ binder.rest \in Rests /\ binder.scope \in Scopes
         /\ binder.polls \in 0 .. MaxPolls /\ binder.gone \in BOOLEAN /\ binder.mode \in {"apply", "remove"}
         /\ binder.pc \in BindStages
  BY DEF GateInv, Gate!TypeOK, Bind, BindStages

LEMMA GateFaults ==
  ASSUME bindFaults \in 0 .. MaxFaults, Gate!Fault \/ UNCHANGED bindFaults
  PROVE  bindFaults' \in 0 .. MaxFaults
  BY GateNumbers DEF Gate!Fault

\* The run goes on and keeps what it was asked for.
LEMMA GateGoes ==
  ASSUME binder \in Bind, NEW to \in BindStages, Gate!Goes(to)
  PROVE  /\ binder' \in Bind /\ binder'.pc = to /\ binder'.mode = binder.mode /\ binder'.registry = binder.registry
         /\ binder'.rest = binder.rest /\ binder'.scope = binder.scope /\ binder'.gone = binder.gone
  BY DEF Gate!Goes, Bind

LEMMA GateInit == Gate!Init => GateInv
<1> SUFFICES ASSUME Gate!Init PROVE GateInv
  OBVIOUS
<1>1. binder \in Bind /\ binder.pc = "idle" /\ binder.mode = "apply"
  BY GateNumbers DEF Gate!Init, Bind, BindStages
<1>2. Gate!TypeOK
  BY <1>1, GateNumbers DEF Gate!Init, Gate!TypeOK, Bind, BindStages, Gate!ApplySteps, Gate!Exits
<1> QED  BY <1>1, <1>2 DEF GateInv, ApplyInv, RemoveInv, Gate!Init, Imported, Resolved, Gate!RemoveSteps

\* The platform and the others.
LEMMA GateAround ==
  ASSUME GateInv, Gate!Enumerates \/ Gate!OthersUse
  PROVE  GateInv'
<1>1. CASE Gate!Enumerates
  <2>1. Gate!TypeOK'
    BY <1>1 DEF GateInv, Gate!TypeOK, Gate!Enumerates
  <2>2. ApplyInv' /\ RemoveInv' /\ (category.holds => bindOthers # 0)'
    BY <1>1 DEF GateInv, ApplyInv, RemoveInv, Gate!Enumerates, Gate!ImportReadsBack, Gate!SubscriptionReadsBack,
                    Imported, Resolved
  <2> QED  BY <2>1, <2>2 DEF GateInv
<1>2. CASE Gate!OthersUse
  <2>1. category \in [there : BOOLEAN, holds : BOOLEAN] /\ category.there /\ bindOthers \in 0 .. MaxOthers
        /\ category' = [category EXCEPT !.holds = ~@] /\ bindOthers < MaxOthers /\ bindOthers' = bindOthers + 1
        /\ UNCHANGED <<workflow, known, subscription, binder, removes, bindFaults>>
    BY <1>2, GateTypes DEF Gate!OthersUse
  <2>2. category' \in [there : BOOLEAN, holds : BOOLEAN] /\ category'.there
    BY <2>1
  <2>3. bindOthers' \in 0 .. MaxOthers /\ bindOthers' # 0
    BY <2>1, GateNumbers
  <2>4. Gate!TypeOK'
    BY <2>1, <2>2, <2>3 DEF GateInv, Gate!TypeOK
  <2>5. ApplyInv' /\ RemoveInv'
    BY <2>1, <2>3 DEF GateInv, ApplyInv, RemoveInv, Gate!ImportReadsBack, Gate!SubscriptionReadsBack
  <2> QED  BY <2>3, <2>4, <2>5 DEF GateInv
<1> QED  BY <1>1, <1>2

\* A new run, and one that breaks off.
LEMMA GateStarts ==
  ASSUME GateInv, NEW mode \in {"apply", "remove"}, Gate!Starts(mode)
  PROVE  GateInv'
<1>1. /\ binder' \in Bind /\ binder'.mode = mode
      /\ binder'.pc = IF mode = "apply" THEN "findCategory" ELSE "deleteSubscription"
  BY GateNumbers DEF Gate!Starts, Bind, BindStages, Gate!ApplySteps, Gate!RemoveSteps
<1>2. removes' \in 0 .. MaxRemoves
  BY GateTypes, GateNumbers DEF Gate!Starts
<1>3. UNCHANGED <<workflow, category, known, subscription, bindFaults, bindOthers>>
  BY DEF Gate!Starts
<1>4. Gate!TypeOK'
  BY <1>1, <1>2, <1>3 DEF GateInv, Gate!TypeOK, Bind, BindStages, Gate!ApplySteps
<1>5. ApplyInv' /\ RemoveInv'
  BY <1>1 DEF ApplyInv, RemoveInv, Imported, Resolved, Unsubscribed, Unimported, Gate!RemoveSteps
<1> QED  BY <1>3, <1>4, <1>5 DEF GateInv

LEMMA GateBreaks ==
  ASSUME GateInv, Gate!Breaks
  PROVE  GateInv'
<1>1. "exit1" \in BindStages
  BY DEF BindStages, Gate!Exits
<1>2. binder' \in Bind /\ binder'.pc = "exit1"
  BY <1>1, GateTypes, GateGoes DEF Gate!Breaks
<1>3. bindFaults' \in 0 .. MaxFaults /\ UNCHANGED <<workflow, category, known, subscription, removes, bindOthers>>
  BY GateTypes, GateFaults DEF Gate!Breaks, Gate!Platform
<1>4. Gate!TypeOK'
  BY <1>2, <1>3 DEF GateInv, Gate!TypeOK, Bind, BindStages, Gate!ApplySteps
<1>5. ApplyInv' /\ RemoveInv'
  BY <1>2 DEF ApplyInv, RemoveInv, Imported, Resolved, Unsubscribed, Unimported, Gate!RemoveSteps
<1> QED  BY <1>3, <1>4, <1>5 DEF GateInv

\* A step of an apply: the stages are told apart by name.
LEMMA GateStages ==
  /\ Gate!ApplySteps \subseteq BindStages /\ Gate!RemoveSteps \subseteq BindStages /\ Gate!Exits \subseteq BindStages
  /\ Gate!ApplySteps \cap Gate!RemoveSteps = {} /\ Gate!Exits \cap Gate!RemoveSteps = {}
  BY DEF BindStages, Gate!ApplySteps, Gate!RemoveSteps, Gate!Exits

\* The steps of an apply that only look.
LEMMA GateLooks ==
  ASSUME GateInv,
         \/ Gate!FindsCategory \/ Gate!RechecksCategory \/ Gate!ReadsImport \/ Gate!ReadsSubscription
         \/ Gate!Polls
  PROVE  GateInv'
<1>1. /\ binder.mode = "apply" /\ binder.pc \in Gate!ApplySteps
      /\ UNCHANGED <<workflow, category, known, subscription, removes, bindFaults, bindOthers>>
  BY DEF GateInv, Gate!TypeOK, Gate!FindsCategory, Gate!RechecksCategory, Gate!ReadsImport, Gate!ReadsSubscription,
         Gate!Polls, Gate!Looks, Gate!At, Gate!ApplySteps
<1>2. CASE Gate!Polls
  <2>1. /\ binder' \in Bind /\ binder'.mode = "apply" /\ binder'.pc \in {"poll", "subscribe", "exit2"}
        /\ binder.pc = "poll" /\ (binder'.pc = "subscribe" => known)
        /\ binder'.registry = binder.registry
    <3>1. CASE \E to \in {"subscribe", "exit2"} : Gate!Goes(to) /\ (to = "subscribe" => known) /\ Gate!At("poll")
      <4>1. PICK to \in {"subscribe", "exit2"} : Gate!Goes(to) /\ (to = "subscribe" => known) /\ Gate!At("poll")
        BY <3>1
      <4>2. to \in BindStages
        BY DEF BindStages, Gate!ApplySteps, Gate!Exits
      <4> QED  BY <1>1, <4>1, <4>2, GateTypes, GateGoes DEF Gate!At
    <3>2. CASE binder.polls < MaxPolls /\ binder' = [binder EXCEPT !.polls = @ + 1] /\ Gate!At("poll")
      <4>1. binder.polls + 1 \in 0 .. MaxPolls
        BY <3>2, GateTypes, GateNumbers
      <4> QED  BY <1>1, <3>2, <4>1, GateTypes DEF Bind, Gate!At
    <3> QED  BY <1>2, <3>1, <3>2 DEF Gate!Polls
  <2>2. Gate!TypeOK'
    BY <1>1, <2>1 DEF GateInv, Gate!TypeOK, Bind, BindStages, Gate!ApplySteps
  <2>3. ApplyInv' /\ RemoveInv'
    BY <1>1, <2>1 DEF GateInv, ApplyInv, RemoveInv, Imported, Resolved, Gate!RemoveSteps,
             Gate!ImportReadsBack, Gate!SubscriptionReadsBack
  <2> QED  BY <1>1, <2>2, <2>3 DEF GateInv
<1>3. CASE Gate!FindsCategory \/ Gate!RechecksCategory \/ Gate!ReadsImport \/ Gate!ReadsSubscription
  <2>1. PICK to \in {"createCategory", "import", "poll", "exit0", "exit1"} :
          /\ Gate!Goes(to)
          /\ to = "import" => category.there
          /\ to = "poll" => Gate!ImportReadsBack
          /\ to = "exit0" => binder.pc = "readSubscription" /\ Gate!SubscriptionReadsBack
    BY <1>3 DEF Gate!FindsCategory, Gate!RechecksCategory, Gate!ReadsImport, Gate!ReadsSubscription, Gate!At
  <2>2. to \in BindStages
    BY DEF BindStages, Gate!ApplySteps, Gate!Exits
  <2>3. /\ binder' \in Bind /\ binder'.pc = to /\ binder'.mode = "apply" /\ binder'.registry = binder.registry
        /\ binder'.scope = binder.scope
    BY <1>1, <2>1, <2>2, GateTypes, GateGoes
  <2>4. Gate!TypeOK'
    BY <1>1, <2>1, <2>3 DEF GateInv, Gate!TypeOK, Bind, BindStages, Gate!ApplySteps
  <2>5. ApplyInv' /\ RemoveInv'
    BY <1>1, <2>1, <2>3 DEF GateInv, ApplyInv, RemoveInv, Imported, Resolved, Gate!RemoveSteps,
             Gate!ImportReadsBack, Gate!SubscriptionReadsBack
  <2> QED  BY <1>1, <2>4, <2>5 DEF GateInv
<1> QED  BY <1>2, <1>3

\* The steps of an apply that write.
LEMMA GateWrites ==
  ASSUME GateInv, Gate!CreatesCategory \/ Gate!Imports \/ Gate!Subscribes
  PROVE  GateInv'
<1>1. PICK to \in {"recheckCategory", "readImport", "readSubscription"} : Gate!Goes(to) /\ binder.pc \in Gate!ApplySteps
  BY DEF Gate!CreatesCategory, Gate!Imports, Gate!Subscribes, Gate!At, Gate!ApplySteps
<1>2. to \in BindStages
  BY DEF BindStages, Gate!ApplySteps
<1>3. /\ binder' \in Bind /\ binder'.pc = to /\ binder'.mode = "apply" /\ binder.mode = "apply"
      /\ binder'.registry = binder.registry
  BY <1>1, <1>2, GateTypes, GateGoes DEF GateInv, Gate!TypeOK
<1>4. bindFaults' \in 0 .. MaxFaults /\ removes' = removes /\ bindOthers' = bindOthers
  BY GateTypes, GateFaults DEF Gate!CreatesCategory, Gate!Imports, Gate!Subscribes
<1>5. CASE Gate!CreatesCategory
  <2>1. /\ category' \in [there : BOOLEAN, holds : BOOLEAN] /\ category'.holds = category.holds
        /\ (category.there => category'.there)
    BY <1>5, GateTypes DEF Gate!CreatesCategory
  <2>2. to = "recheckCategory"
    BY <1>1, <1>3, <1>5, GateTypes DEF Gate!CreatesCategory, Gate!Goes, Bind
  <2>3. UNCHANGED <<workflow, known, subscription>>
    BY <1>5 DEF Gate!CreatesCategory
  <2>4. Gate!TypeOK'
    BY <1>3, <1>4, <2>1, <2>2, <2>3 DEF GateInv, Gate!TypeOK, Bind, BindStages, Gate!ApplySteps
  <2>5. ApplyInv' /\ RemoveInv'
    BY <1>3, <2>2 DEF ApplyInv, RemoveInv, Imported, Resolved, Gate!RemoveSteps
  <2> QED  BY <1>4, <2>1, <2>4, <2>5 DEF GateInv
<1>6. CASE Gate!Imports
  <2>1. Gate!Wanted \in Gate!Workflow
    BY GateTypes DEF Gate!Wanted, Gate!Workflow
  <2>2. workflow' \in Gate!Workflow \cup {Absent}
    BY <1>6, <2>1, GateTypes DEF Gate!Imports
  <2>3. to = "readImport" /\ binder.pc = "import"
    BY <1>1, <1>3, <1>6, GateTypes DEF Gate!Imports, Gate!Goes, Gate!At, Bind
  <2>4. UNCHANGED <<category, known, subscription>>
    BY <1>6 DEF Gate!Imports
  <2>5. Gate!TypeOK'
    BY <1>3, <1>4, <2>2, <2>3, <2>4 DEF GateInv, Gate!TypeOK, Bind, BindStages, Gate!ApplySteps
  <2>6. ApplyInv' /\ RemoveInv'
    BY <1>3, <2>3 DEF ApplyInv, RemoveInv, Imported, Resolved, Gate!RemoveSteps
  <2> QED  BY <1>4, <2>4, <2>5, <2>6 DEF GateInv
<1>7. CASE Gate!Subscribes
  <2>1. subscription' \in Gate!Subscription \cup {Absent}
    <3>1. subscription' \in {Gate!Asked, subscription} \cup Gate!Subscription
      BY <1>7 DEF Gate!Subscribes
    <3>2. binder.scope \in Scopes /\ subscription \in Gate!Subscription \cup {Absent}
      BY GateTypes
    <3>3. Gate!Asked \in Gate!Subscription
      BY <3>2 DEF Gate!Subscription, Gate!Asked
    <3> QED  BY <3>1, <3>2, <3>3
  <2>2. to = "readSubscription" /\ binder.pc = "subscribe"
    BY <1>1, <1>3, <1>7, GateTypes DEF Gate!Subscribes, Gate!Goes, Gate!At, Bind
  <2>3. UNCHANGED <<workflow, category, known>>
    BY <1>7 DEF Gate!Subscribes
  <2>4. Gate!TypeOK'
    BY <1>3, <1>4, <2>1, <2>2, <2>3 DEF GateInv, Gate!TypeOK, Bind, BindStages, Gate!ApplySteps
  <2>5. ApplyInv' /\ RemoveInv'
    BY <1>3, <2>2, <2>3 DEF GateInv, ApplyInv, RemoveInv, Imported, Resolved, Gate!RemoveSteps,
             Gate!ImportReadsBack, Gate!SubscriptionReadsBack
  <2> QED  BY <1>4, <2>3, <2>4, <2>5 DEF GateInv
<1> QED  BY <1>5, <1>6, <1>7

\* A step of a removal goes on: only what the read-backs have found may change.
GateRemoves(to, gone) == binder' = [binder EXCEPT !.pc = to, !.gone = gone]

LEMMA GateRemoving ==
  ASSUME GateInv, NEW to \in BindStages, NEW gone \in BOOLEAN, GateRemoves(to, gone)
  PROVE  /\ binder' \in Bind /\ binder'.pc = to /\ binder'.mode = binder.mode /\ binder'.gone = gone
  BY GateTypes DEF GateRemoves, Bind

\* What the read-back of one object says.
LEMMA GateRechecks ==
  ASSUME GateInv, NEW pc, NEW next \in BindStages, NEW there \in BOOLEAN, Gate!RechecksFor(pc, next, there)
  PROVE  /\ binder.pc = pc /\ binder' \in Bind /\ binder'.pc = next /\ binder'.mode = binder.mode
         /\ (binder'.gone => binder.gone /\ ~there)
         /\ bindFaults' \in 0 .. MaxFaults
         /\ UNCHANGED <<workflow, category, known, subscription, removes, bindOthers>>
<1> DEFINE kept == binder.gone /\ ~there
<1>1. kept \in BOOLEAN
  BY GateTypes
<1>2. binder.pc = pc /\ UNCHANGED <<workflow, category, known, subscription, removes, bindOthers>>
  BY DEF Gate!RechecksFor, Gate!At, Gate!Platform
<1>3. bindFaults' \in 0 .. MaxFaults
  BY GateTypes, GateFaults DEF Gate!RechecksFor
<1>4. GateRemoves(next, kept) \/ GateRemoves(next, FALSE)
  BY Zenon DEF Gate!RechecksFor, GateRemoves
<1>5. kept => binder.gone /\ ~there
  OBVIOUS
<1> HIDE DEF kept
<1>6. PICK gone \in {kept, FALSE} : GateRemoves(next, gone)
  BY <1>4
<1>7. gone \in BOOLEAN
  BY <1>1, <1>6
<1>8. binder' \in Bind /\ binder'.pc = next /\ binder'.mode = binder.mode /\ binder'.gone = gone
  BY <1>6, <1>7, GateRemoving
<1> QED  BY <1>2, <1>3, <1>5, <1>6, <1>8

\* The steps of a removal that read back what was deleted.
LEMMA GateReadsResidue ==
  ASSUME GateInv, Gate!RechecksSubscription \/ Gate!RechecksWorkflow
  PROVE  GateInv'
<1>1. {"deleteWorkflow", "dispatch"} \subseteq BindStages
  BY DEF BindStages, Gate!RemoveSteps
<1>2. CASE Gate!RechecksSubscription
  <2>1. /\ binder.pc = "recheckSubscription" /\ binder' \in Bind /\ binder'.pc = "deleteWorkflow"
        /\ binder'.mode = binder.mode /\ (binder'.gone => binder.gone /\ subscription = Absent)
        /\ bindFaults' \in 0 .. MaxFaults
        /\ UNCHANGED <<workflow, category, known, subscription, removes, bindOthers>>
    BY <1>1, <1>2, GateRechecks, Zenon DEF Gate!RechecksSubscription
  <2>2. Gate!TypeOK'
    BY <2>1 DEF GateInv, Gate!TypeOK, Bind, BindStages, Gate!ApplySteps
  <2>3. ApplyInv' /\ RemoveInv'
    BY <2>1 DEF GateInv, ApplyInv, RemoveInv, Unimported, Gate!RemoveSteps
  <2> QED  BY <2>1, <2>2, <2>3 DEF GateInv
<1>3. CASE Gate!RechecksWorkflow
  <2>1. /\ binder.pc = "recheckWorkflow" /\ binder' \in Bind /\ binder'.pc = "dispatch"
        /\ binder'.mode = binder.mode /\ (binder'.gone => binder.gone /\ workflow = Absent)
        /\ bindFaults' \in 0 .. MaxFaults
        /\ UNCHANGED <<workflow, category, known, subscription, removes, bindOthers>>
    BY <1>1, <1>3, GateRechecks, Zenon DEF Gate!RechecksWorkflow
  <2>2. Gate!TypeOK'
    BY <2>1 DEF GateInv, Gate!TypeOK, Bind, BindStages, Gate!ApplySteps
  <2>3. ApplyInv' /\ RemoveInv'
    BY <2>1 DEF GateInv, ApplyInv, RemoveInv, Unsubscribed, Gate!RemoveSteps
  <2> QED  BY <2>1, <2>2, <2>3 DEF GateInv
<1> QED  BY <1>2, <1>3

\* Its other steps keep what the read-backs have found, and delete or look.
LEMMA GateDeletes ==
  ASSUME GateInv, Gate!DeletesSubscription \/ Gate!DeletesWorkflow \/ Gate!DeletesCategory
  PROVE  GateInv'
<1>1. bindFaults' \in 0 .. MaxFaults /\ UNCHANGED <<known, removes, bindOthers>>
  BY GateTypes, GateFaults DEF Gate!DeletesSubscription, Gate!DeletesWorkflow, Gate!DeletesCategory
<1>2. {"recheckSubscription", "recheckWorkflow", "seekAgain"} \subseteq BindStages
  BY DEF BindStages, Gate!RemoveSteps
<1>3. CASE Gate!DeletesSubscription
  <2>1. /\ binder' \in Bind /\ binder.pc = "deleteSubscription" /\ binder'.pc = "recheckSubscription"
        /\ binder'.mode = binder.mode
        /\ subscription' \in {subscription, Absent} /\ UNCHANGED <<workflow, category>>
    BY <1>2, <1>3, GateTypes, GateGoes DEF Gate!DeletesSubscription, Gate!At
  <2>2. Gate!TypeOK'
    BY <1>1, <2>1 DEF GateInv, Gate!TypeOK, Bind, BindStages, Gate!ApplySteps
  <2>3. ApplyInv' /\ RemoveInv'
    BY <2>1 DEF GateInv, ApplyInv, RemoveInv, Unsubscribed, Unimported, Gate!RemoveSteps
  <2> QED  BY <1>1, <2>1, <2>2, <2>3 DEF GateInv
<1>4. CASE Gate!DeletesWorkflow
  <2>1. /\ binder' \in Bind /\ binder.pc = "deleteWorkflow" /\ binder'.pc = "recheckWorkflow"
        /\ binder'.mode = binder.mode /\ binder'.gone = binder.gone
        /\ workflow' \in {workflow, Absent} /\ UNCHANGED <<subscription, category>>
    BY <1>2, <1>4, GateTypes, GateGoes DEF Gate!DeletesWorkflow, Gate!At
  <2>2. Gate!TypeOK'
    BY <1>1, <2>1 DEF GateInv, Gate!TypeOK, Bind, BindStages, Gate!ApplySteps
  <2>3. ApplyInv' /\ RemoveInv'
    BY <2>1 DEF GateInv, ApplyInv, RemoveInv, Unsubscribed, Unimported, Gate!RemoveSteps
  <2> QED  BY <1>1, <2>1, <2>2, <2>3 DEF GateInv
<1>5. CASE Gate!DeletesCategory
  <2>1. /\ binder' \in Bind /\ binder.pc = "deleteCategory" /\ binder'.pc = "seekAgain"
        /\ binder'.mode = binder.mode /\ binder'.gone = binder.gone
        /\ UNCHANGED <<subscription, workflow>>
    BY <1>2, <1>5, GateTypes, GateGoes DEF Gate!DeletesCategory, Gate!At
  <2>2. /\ category' \in [there : BOOLEAN, holds : BOOLEAN] /\ (category'.holds => category'.there)
        /\ (category'.holds => bindOthers # 0)
    <3>1. category' = [there |-> FALSE, holds |-> FALSE] \/ category' = category
      BY <1>5 DEF Gate!DeletesCategory
    <3>2. category.holds => bindOthers # 0
      BY DEF GateInv
    <3>3. CASE category' = [there |-> FALSE, holds |-> FALSE]
      BY <3>3
    <3>4. CASE category' = category
      <4>1. category \in [there : BOOLEAN, holds : BOOLEAN] /\ (category.holds => category.there)
        BY GateTypes
      <4> QED  BY <3>2, <3>4, <4>1
    <3> QED  BY <3>1, <3>3, <3>4
  <2>3. Gate!TypeOK'
    BY <1>1, <2>1, <2>2 DEF GateInv, Gate!TypeOK, Bind, BindStages, Gate!ApplySteps
  <2>4. ApplyInv' /\ RemoveInv'
    BY <2>1 DEF GateInv, ApplyInv, RemoveInv, Unsubscribed, Unimported, Gate!RemoveSteps
  <2> QED  BY <1>1, <2>1, <2>2, <2>3, <2>4 DEF GateInv
<1> QED  BY <1>3, <1>4, <1>5

LEMMA GateVerdicts ==
  ASSUME NEW gone \in BOOLEAN
  PROVE  Gate!Verdict(gone) \in {"exit0", "exit1"} /\ (Gate!Verdict(gone) = "exit0" => gone)
  BY DEF Gate!Verdict

LEMMA GateCloses ==
  ASSUME GateInv, Gate!ChecksDispatch \/ Gate!SeeksCategory \/ Gate!OpensCategory \/ Gate!SeeksAgain
  PROVE  GateInv'
<1>1. /\ bindFaults' \in 0 .. MaxFaults
      /\ UNCHANGED <<workflow, category, known, subscription, removes, bindOthers>>
  BY GateTypes, GateFaults
     DEF Gate!ChecksDispatch, Gate!SeeksCategory, Gate!OpensCategory, Gate!SeeksAgain, Gate!Looks, Gate!Platform
<1>2. binder.pc \in Gate!RemoveSteps /\ binder.pc \in Unsubscribed /\ binder.pc \in Unimported
  BY DEF Gate!ChecksDispatch, Gate!SeeksCategory, Gate!OpensCategory, Gate!SeeksAgain, Gate!At, Gate!RemoveSteps,
         Unsubscribed, Unimported
<1>3. binder.mode = "remove"
  BY <1>2, GateTypes DEF GateInv, ApplyInv
<1>4. PICK to \in {"seekCategory", "openCategory", "deleteCategory", "exit0", "exit1"} :
        /\ Gate!Goes(to)
        /\ to = "exit0" => binder.gone /\ (~category.there \/ category.holds \/ workflow # Absent)
  <2>1. CASE Gate!ChecksDispatch
    BY <2>1 DEF Gate!ChecksDispatch
  <2>2. CASE Gate!SeeksCategory
    BY <2>2, GateTypes, GateVerdicts DEF Gate!SeeksCategory
  <2>3. CASE Gate!OpensCategory
    BY <2>3, GateTypes, GateVerdicts DEF Gate!OpensCategory
  <2>4. CASE Gate!SeeksAgain
    <3> DEFINE left == binder.gone /\ ~category.there
    <3>1. left \in BOOLEAN /\ (left => binder.gone /\ ~category.there)
      BY GateTypes
    <3>2. Gate!Goes(Gate!Verdict(left))
      BY <2>4, Zenon DEF Gate!SeeksAgain
    <3> HIDE DEF left
    <3> QED  BY <3>1, <3>2, GateVerdicts
  <2> QED  BY <2>1, <2>2, <2>3, <2>4
<1>5. to \in BindStages
  BY DEF BindStages, Gate!RemoveSteps, Gate!Exits
<1>6. /\ binder' \in Bind /\ binder'.pc = to /\ binder'.mode = "remove" /\ binder'.gone = binder.gone
  BY <1>3, <1>4, <1>5, GateTypes, GateGoes
<1>7. Gate!TypeOK'
  BY <1>1, <1>6 DEF GateInv, Gate!TypeOK, Bind, BindStages, Gate!ApplySteps
<1>8. /\ binder'.gone => subscription = Absent /\ workflow = Absent
      /\ to = "exit0" => binder.gone /\ (~category.there \/ bindOthers # 0)
  BY <1>2, <1>3, <1>4, <1>6, GateTypes DEF GateInv, RemoveInv
<1>9. ApplyInv' /\ RemoveInv'
  BY <1>1, <1>6, <1>8 DEF ApplyInv, RemoveInv
<1> QED  BY <1>1, <1>7, <1>9 DEF GateInv

LEMMA GateNext ==
  ASSUME GateInv, Gate!Next
  PROVE  GateInv'
  BY GateAround, GateStarts, GateBreaks, GateLooks, GateWrites, GateReadsResidue, GateDeletes, GateCloses
     DEF Gate!Next, Gate!Apply, Gate!Remove

LEMMA GateRests ==
  ASSUME GateInv, UNCHANGED gate
  PROVE  GateInv'
  BY DEF gate, GateInv, Gate!TypeOK, ApplyInv, RemoveInv, Gate!ImportReadsBack, Gate!SubscriptionReadsBack

\* What the invariant says of a run that is done.
LEMMA GateTells ==
  ASSUME GateInv
  PROVE  Gate!TypeOK /\ Gate!ExitZeroIsTrue
  BY GateTypes DEF GateInv, ApplyInv, RemoveInv, Imported, Resolved, Unsubscribed, Unimported, Gate!ExitZeroIsTrue,
     Gate!AppliedIsBound, Gate!RemovedIsGone, Gate!Applied, Gate!At, Gate!ImportReadsBack, Gate!SubscriptionReadsBack

-----------------------------------------------------------------------------
(* The content: how far a run has come, and what that says of the appliance. *)

Pcs == {"find", "write", "link", "action", "workflow", "element", "refs", "execs", "put", "back", "done"}
Run ==
  [op : Content!Ops, pc : Pcs, at : 1 .. 8, found : BOOLEAN, held : [Content!Issued -> Content!Ids],
   live : Content!Definition, bad : BOOLEAN, blind : BOOLEAN, vain : BOOLEAN, named : BOOLEAN, saw : BOOLEAN,
   quiet : BOOLEAN, exit : 0 .. 4]

Done0 == tool.pc = "done" /\ tool.exit = 0

\* A deploy that is under way has written the object of layer k.
Past(k) == tool.pc # "done" /\ (tool.at > k \/ (tool.at = k /\ tool.pc = "link"))

\* The identifiers a deploy goes by are some an appliance issued; they are those of what is here as long as nobody else
\* acts and every write that was accepted took effect.
DeployInv ==
  tool.op = "deploy" =>
    /\ tool.pc = "link" => tool.at > 4
    /\ Past(5) => tool.held["element"] # 0
    /\ Past(6) => tool.held["environment"] # 0
    /\ tool.quiet /\ ~tool.vain =>
         /\ Past(5) => Content!Names("element", tool.held["element"])
         /\ Past(6) => Content!Names("environment", tool.held["environment"])
         /\ Past(7) => "action" \in here /\ inside["action"] = tool.held["environment"]
         /\ Past(8) => "workflow" \in here /\ inside["workflow"] = tool.held["element"]
         /\ Done0 => Content!ActionBound /\ Content!WorkflowBound

ReadbackInv ==
  tool.op = "readback" /\ tool.quiet =>
    /\ tool.pc = "action" /\ tool.held["environment"] # 0 => Content!Names("environment", tool.held["environment"])
    /\ tool.pc \in {"workflow", "element"} /\ ~tool.bad => "action" \in here /\ (~tool.named => Content!ActionBound)
    /\ tool.pc = "element" => "workflow" \in here /\ tool.held["element"] = inside["workflow"]
    /\ Done0 => "action" \in here /\ (~tool.named => Content!ActionBound) /\ Content!WorkflowBound

\* What is put back is a copy, on what the run has read.
DriftInv ==
  /\ tool.pc \in {"refs", "execs", "put", "back"} => copy # Content!NoCopy /\ tool.op \in {"apply", "force"}
  /\ tool.op \in {"apply", "force"} /\ tool.quiet =>
       /\ tool.pc \in {"refs", "execs"} => "workflow" \in here /\ tool.live = Content!Live
       /\ tool.pc \in {"execs", "put", "back"} => Content!Names("element", copy.carries)
       /\ Done0 => Content!Live = copy /\ Content!WorkflowBound
  /\ tool.op = "diff" /\ tool.quiet /\ Done0 => Content!Live = copy

TeardownInv ==
  tool.op = "teardown" /\ tool.quiet /\ ~tool.blind /\ ~tool.vain =>
    /\ tool.pc # "done" /\ ~tool.bad => \A j \in 1 .. 8 : j < tool.at => Content!Teardown[j] \notin here
    /\ Done0 => here = {}

\* The executions a run saw, and what it does about them.
SawInv ==
  /\ tool.saw => running
  /\ tool.op = "apply" /\ tool.pc = "put" => ~tool.saw

ContentInv ==
  /\ Content!TypeOK /\ tool \in Run
  /\ \A o \in here \cap Content!Issued : id[o] # 0
  /\ copy # Content!NoCopy => copy.carries # 0 /\ copy.text # "none"
  /\ DeployInv /\ ReadbackInv /\ DriftInv /\ TeardownInv /\ SawInv

-----------------------------------------------------------------------------
(* Proofs about the content: types. *)

\* What is typed beside the run.
ApplianceOK ==
  /\ here \subseteq Content!Objects /\ linked \subseteq here \ {"package"} /\ (linked # {} => "package" \in here)
  /\ \A o \in here : ~Content!Homeless(o)
  /\ id \in [Content!Issued -> Content!Ids] /\ inside \in [Content!Carriers -> Content!Ids]
  /\ \A o \in Content!Carriers : o \in here => inside[o] # 0
  /\ text \in {"shipped", "edited"}
  /\ \A o \in here \cap Content!Issued : id[o] # 0

SettingOK ==
  /\ running \in BOOLEAN /\ copy \in Content!Definition
  /\ copy # Content!NoCopy => copy.carries # 0 /\ copy.text # "none"
  /\ teardowns \in 0 .. MaxTeardowns /\ others \in 0 .. MaxOthers /\ faults \in 0 .. MaxFaults

RunInv == DeployInv /\ ReadbackInv /\ DriftInv /\ TeardownInv /\ SawInv

LEMMA ContentNumbers ==
  /\ MaxId \in Nat \ {0} /\ MaxTeardowns \in Nat /\ MaxOthers \in Nat /\ MaxFaults \in Nat
  /\ 0 \in 0 .. MaxId /\ 0 \in 0 .. MaxTeardowns /\ 0 \in 0 .. MaxOthers /\ 0 \in 0 .. MaxFaults
  /\ 0 \in Content!Ids /\ Content!Ids \subseteq Nat /\ Content!NoCopy \in Content!Definition
  /\ Len(Content!Layers) = 8
  BY DeploysAssumption
     DEF Content!OrchestratorAssumption, Content!Ids, Content!NoCopy, Content!Definition, Content!Layers

LEMMA ContentParts == ContentInv <=> ApplianceOK /\ SettingOK /\ tool \in Run /\ RunInv
<1>1. tool \in Run => /\ tool.op \in Content!Ops /\ tool.at \in 1 .. 8 /\ tool.exit \in 0 .. 4
                      /\ tool.live \in Content!Definition /\ tool.pc \in Pcs
                      /\ tool.found \in BOOLEAN /\ tool.bad \in BOOLEAN /\ tool.blind \in BOOLEAN
                      /\ tool.vain \in BOOLEAN /\ tool.named \in BOOLEAN
                      /\ tool.saw \in BOOLEAN /\ tool.quiet \in BOOLEAN
                      /\ tool.held \in [Content!Issued -> Content!Ids]
  BY DEF Run
<1>2. ContentInv => ApplianceOK /\ SettingOK /\ tool \in Run /\ RunInv
  BY DEF ContentInv, Content!TypeOK, ApplianceOK, SettingOK, RunInv
<1>3. ApplianceOK /\ SettingOK /\ tool \in Run /\ RunInv => ContentInv
  BY <1>1, ContentNumbers DEF ContentInv, Content!TypeOK, ApplianceOK, SettingOK, RunInv, Pcs
<1> QED  BY <1>2, <1>3

LEMMA ContentPartsNext == (ApplianceOK /\ SettingOK /\ tool \in Run /\ RunInv)' => ContentInv'
<1>1. tool' \in Run =>
                      /\ tool'.op \in Content!Ops /\ tool'.at \in 1 .. 8 /\ tool'.exit \in 0 .. 4
                      /\ tool'.live \in Content!Definition /\ tool'.pc \in Pcs
                      /\ tool'.found \in BOOLEAN /\ tool'.bad \in BOOLEAN /\ tool'.blind \in BOOLEAN
                      /\ tool'.vain \in BOOLEAN /\ tool'.named \in BOOLEAN
                      /\ tool'.saw \in BOOLEAN /\ tool'.quiet \in BOOLEAN
                      /\ tool'.held \in [Content!Issued -> Content!Ids]
  BY DEF Run
<1> QED  BY <1>1, ContentNumbers DEF ContentInv, Content!TypeOK, ApplianceOK, SettingOK, RunInv, Pcs

LEMMA RunFields ==
  ASSUME NEW r \in Run
  PROVE  /\ r.op \in Content!Ops /\ r.at \in 1 .. 8 /\ r.exit \in 0 .. 4
         /\ r.live \in Content!Definition /\ r.pc \in Pcs
         /\ r.found \in BOOLEAN /\ r.bad \in BOOLEAN /\ r.blind \in BOOLEAN
         /\ r.vain \in BOOLEAN /\ r.named \in BOOLEAN /\ r.saw \in BOOLEAN /\ r.quiet \in BOOLEAN
         /\ r.held \in [Content!Issued -> Content!Ids]
  BY DEF Run

\* A run that starts, goes to another stage, ends, or takes up the next layer.
LEMMA RunStarts ==
  ASSUME NEW op \in Content!Ops, running \in BOOLEAN
  PROVE  /\ Content!Fresh(op) \in Run
         /\ Content!Fresh(op).op = op /\ Content!Fresh(op).pc = "find" /\ Content!Fresh(op).at = 1
         /\ (Content!Fresh(op).saw => running) /\ Content!Fresh(op).exit = 0
         /\ Content!Fresh(op).bad = FALSE /\ Content!Fresh(op).blind = FALSE
<1>1. [o \in Content!Issued |-> 0] \in [Content!Issued -> Content!Ids]
  BY ContentNumbers
<1> QED  BY <1>1, ContentNumbers DEF Content!Fresh, Run, Pcs

\* Everything of the run but its stage is as it was.
Same ==
  /\ tool'.op = tool.op /\ tool'.at = tool.at /\ tool'.found = tool.found /\ tool'.held = tool.held
  /\ tool'.live = tool.live /\ tool'.bad = tool.bad /\ tool'.blind = tool.blind /\ tool'.vain = tool.vain
  /\ tool'.named = tool.named /\ tool'.saw = tool.saw /\ tool'.quiet = tool.quiet

\* What a run that has ended keeps of t.
Kept(t) ==
  /\ tool'.op = t.op /\ tool'.quiet = t.quiet /\ tool'.blind = t.blind /\ tool'.vain = t.vain
  /\ tool'.named = t.named /\ ~tool'.saw

LEMMA RunGoes ==
  ASSUME tool \in Run, NEW pc \in Pcs, Content!Goes(pc)
  PROVE  tool' \in Run /\ tool'.pc = pc /\ Same /\ tool'.exit = tool.exit
  BY DEF Content!Goes, Run, Same

LEMMA RunEnds ==
  ASSUME NEW t \in Run, NEW code \in 0 .. 4, running \in BOOLEAN
  PROVE  LET e == Content!Ended(t, code) IN
         /\ e \in Run /\ e.pc = "done" /\ e.exit = code /\ e.op = t.op /\ e.quiet = t.quiet /\ e.blind = t.blind
         /\ e.vain = t.vain /\ e.named = t.named /\ ~e.saw
<1>1. t.op \in Content!Ops /\ t.quiet \in BOOLEAN /\ t.blind \in BOOLEAN /\ t.vain \in BOOLEAN /\ t.named \in BOOLEAN
  BY RunFields
<1>2. Content!Fresh(t.op) \in Run /\ Content!Fresh(t.op).op = t.op
  BY <1>1, RunStarts
<1>3. PICK f \in Run : f = Content!Fresh(t.op) /\ f.op = t.op
  BY <1>2
<1>4. Content!Ended(t, code) = [f EXCEPT !.pc = "done", !.exit = code, !.saw = FALSE, !.quiet = t.quiet,
                                         !.blind = t.blind, !.vain = t.vain, !.named = t.named]
  BY <1>3 DEF Content!Ended
<1> QED  BY <1>1, <1>3, <1>4 DEF Run, Pcs

LEMMA RunExits ==
  ASSUME SettingOK, tool \in Run, NEW code \in 0 .. 4, Content!Exits(code)
  PROVE  tool' \in Run /\ tool'.pc = "done" /\ Kept(tool) /\ tool'.exit = code
  BY RunEnds DEF Content!Exits, Kept, SettingOK

LEMMA RunUp ==
  ASSUME NEW t \in Run, NEW k \in 1 .. 8, tool' = [t EXCEPT !.pc = "find", !.at = k, !.found = FALSE]
  PROVE  /\ tool' \in Run /\ tool'.op = t.op /\ tool'.held = t.held /\ tool'.bad = t.bad /\ tool'.blind = t.blind
         /\ tool'.vain = t.vain /\ tool'.saw = t.saw /\ tool'.quiet = t.quiet /\ tool'.pc = "find" /\ tool'.at = k
  BY DEF Run, Pcs

LEMMA RunOnward ==
  ASSUME SettingOK, NEW t \in Run, Content!Onward(t)
  PROVE  /\ tool' \in Run /\ tool'.op = t.op /\ tool'.blind = t.blind /\ tool'.vain = t.vain /\ tool'.quiet = t.quiet
         /\ tool'.saw => t.saw
         /\ t.at < 8 => /\ tool'.pc = "find" /\ tool'.at = t.at + 1
                        /\ tool'.held = t.held /\ tool'.bad = t.bad
         /\ t.at = 8 => tool'.pc = "done" /\ (tool'.exit = 0 => ~t.bad)
<1>1. t.at \in 1 .. 8 /\ t.bad \in BOOLEAN
  BY RunFields
<1>2. CASE t.at < 8
  <2> DEFINE k == t.at + 1
  <2>1. tool' = [t EXCEPT !.pc = "find", !.at = k, !.found = FALSE]
    BY <1>2, ContentNumbers DEF Content!Onward
  <2>2. k \in 1 .. 8 /\ k = t.at + 1
    BY <1>1, <1>2
  <2> HIDE DEF k
  <2>3. /\ tool' \in Run /\ tool'.op = t.op /\ tool'.held = t.held /\ tool'.bad = t.bad /\ tool'.blind = t.blind
        /\ tool'.vain = t.vain /\ tool'.saw = t.saw /\ tool'.quiet = t.quiet /\ tool'.pc = "find" /\ tool'.at = k
    BY <2>1, <2>2, RunUp
  <2> QED  BY <1>1, <1>2, <2>2, <2>3
<1>3. CASE t.at = 8
  <2> DEFINE code == IF t.bad THEN 1 ELSE 0
  <2>1. tool' = Content!Ended(t, code)
    BY <1>3, ContentNumbers DEF Content!Onward
  <2>2. code \in 0 .. 4 /\ (code = 0 => ~t.bad)
    BY <1>1
  <2> HIDE DEF code
  <2> QED  BY <1>3, <2>1, <2>2, RunEnds DEF SettingOK
<1> QED  BY <1>1, <1>2, <1>3

\* The objects of the layers.
LEMMA LayerObjects ==
  /\ Content!Layers[1] = "package" /\ Content!Layers[2] = "configurations" /\ Content!Layers[3] = "actions"
  /\ Content!Layers[4] = "workflows" /\ Content!Layers[5] = "element" /\ Content!Layers[6] = "environment"
  /\ Content!Layers[7] = "action" /\ Content!Layers[8] = "workflow"
  /\ Content!Teardown[1] = "package" /\ Content!Teardown[2] = "workflow" /\ Content!Teardown[3] = "action"
  /\ Content!Teardown[4] = "environment" /\ Content!Teardown[5] = "element" /\ Content!Teardown[6] = "workflows"
  /\ Content!Teardown[7] = "actions" /\ Content!Teardown[8] = "configurations"
  BY DEF Content!Layers, Content!Teardown

LEMMA DeployTargets ==
  ASSUME tool \in Run, tool.op = "deploy"
  PROVE  /\ Content!Target = Content!Layers[tool.at] /\ Content!Target \in Content!Objects
         /\ Content!Target \in Content!Categories \cup {"package"} => tool.at < 5
         /\ Content!Target = "element" <=> tool.at = 5
         /\ Content!Target = "environment" <=> tool.at = 6
         /\ Content!Target = "action" <=> tool.at = 7
         /\ Content!Target = "workflow" <=> tool.at = 8
<1>1. tool.at \in 1 .. 8 /\ Content!Target = Content!Layers[tool.at]
  BY RunFields DEF Content!Target
<1>2. tool.at \in {1, 2, 3, 4, 5, 6, 7, 8}
  BY <1>1
<1> QED  BY <1>1, <1>2, LayerObjects DEF Content!Objects, Content!Categories, Content!Issued, Content!Carriers

LEMMA ContentInit == Content!Init => ContentInv
<1> SUFFICES ASSUME Content!Init PROVE ContentInv
  OBVIOUS
<1>1. running \in BOOLEAN /\ "diff" \in Content!Ops
  BY DEF Content!Init, Content!Ops
<1>2. Content!Fresh("diff") \in Run /\ Content!Fresh("diff").op = "diff" /\ tool = Content!Ended(Content!Fresh("diff"), 3)
  BY <1>1, RunStarts DEF Content!Init
<1>3. tool \in Run /\ tool.op = "diff" /\ tool.pc = "done" /\ tool.exit = 3 /\ ~tool.saw
  <2>1. 3 \in 0 .. 4
    OBVIOUS
  <2> QED  BY <1>1, <1>2, <2>1, RunEnds
<1>4. RunInv
  BY <1>3 DEF RunInv, DeployInv, ReadbackInv, DriftInv, TeardownInv, SawInv, Done0
<1>5. ApplianceOK /\ SettingOK
  BY ContentNumbers DEF Content!Init, ApplianceOK, SettingOK
<1> QED  BY <1>3, <1>4, <1>5, ContentParts

-----------------------------------------------------------------------------
(* Proofs about the content: what goes on around a run. *)

\* What is taken off the appliance leaves it consistent.
LEMMA ContentRemoves ==
  ASSUME ApplianceOK, NEW o, Content!Deletable(o), Content!Removes(o)
  PROVE  ApplianceOK'
<1>1. /\ here' = here \ {o} /\ linked' = (IF o = "package" THEN {} ELSE linked \ {o})
      /\ UNCHANGED <<id, inside, text>> /\ o \in here
      /\ \A p \in DOMAIN Content!Home \cap here : Content!Home[p] # o
  BY DEF Content!Removes, Content!Deletable
<1>2. here' \subseteq Content!Objects /\ linked' \subseteq here' \ {"package"} /\ (linked' # {} => "package" \in here')
  BY <1>1 DEF ApplianceOK
<1>3. \A p \in here' : ~Content!Homeless(p)'
  BY <1>1 DEF ApplianceOK, Content!Homeless
<1>4. \A p \in Content!Carriers : p \in here' => inside'[p] # 0
  BY <1>1 DEF ApplianceOK
<1> QED  BY <1>1, <1>2, <1>3, <1>4 DEF ApplianceOK, Content!Homeless

LEMMA RunQuiets ==
  ASSUME tool \in Run, tool' = [tool EXCEPT !.quiet = FALSE]
  PROVE  /\ tool' \in Run /\ tool'.op = tool.op /\ tool'.pc = tool.pc /\ tool'.at = tool.at /\ tool'.held = tool.held
         /\ tool'.saw = tool.saw /\ tool'.exit = tool.exit /\ ~tool'.quiet
  BY DEF Run

LEMMA RunForgets ==
  ASSUME tool \in Run, tool' = [tool EXCEPT !.saw = FALSE]
  PROVE  tool' \in Run /\ tool'.op = tool.op /\ tool'.pc = tool.pc /\ tool'.at = tool.at /\ tool'.held = tool.held
         /\ tool'.live = tool.live /\ tool'.bad = tool.bad /\ tool'.blind = tool.blind /\ tool'.vain = tool.vain
         /\ tool'.named = tool.named /\ tool'.quiet = tool.quiet /\ tool'.exit = tool.exit /\ ~tool'.saw
  BY DEF Run

LEMMA ContentIssues ==
  ASSUME ApplianceOK, NEW o \in Content!Issued, Content!Issues(o)
  PROVE  /\ id' \in [Content!Issued -> Content!Ids] /\ id'[o] # 0
         /\ \A p \in Content!Issued : p # o => id'[p] = id[p]
<1>1. /\ id[o] \in Nat /\ id[o] + 1 < MaxId /\ id' = [id EXCEPT ![o] = id[o] + 1]
      /\ id \in [Content!Issued -> Content!Ids]
  BY ContentNumbers DEF ApplianceOK, Content!Issues, Content!Nowhere
<1>2. id[o] + 1 \in Content!Ids /\ id[o] + 1 # 0
  BY <1>1, ContentNumbers DEF Content!Ids
<1> QED  BY <1>1, <1>2

LEMMA ContentOthersAct ==
  ASSUME ContentInv, Content!OthersAct
  PROVE  ContentInv'
<1>1. ApplianceOK /\ SettingOK /\ tool \in Run /\ RunInv
  BY ContentParts
<1>2. /\ tool' \in Run /\ tool'.op = tool.op /\ tool'.pc = tool.pc /\ tool'.at = tool.at /\ tool'.held = tool.held
      /\ tool'.saw = tool.saw /\ tool'.exit = tool.exit /\ ~tool'.quiet
  BY <1>1, RunQuiets DEF Content!OthersAct, Content!Acted
<1>3. /\ others \in 0 .. MaxOthers /\ others < MaxOthers /\ others' = others + 1
      /\ UNCHANGED <<running, copy, teardowns, faults>>
  BY <1>1 DEF Content!OthersAct, Content!Acted, SettingOK
<1>4. SettingOK'
  <2>1. others' \in 0 .. MaxOthers
    BY <1>3, ContentNumbers
  <2> QED  BY <1>1, <1>3, <2>1 DEF SettingOK
<1>5. RunInv'
  BY <1>1, <1>2, <1>3
     DEF RunInv, DeployInv, ReadbackInv, DriftInv, TeardownInv, SawInv, Done0, Past
<1>6. ApplianceOK'
  <2>1. CASE \E o \in Content!Objects : Content!Deletable(o) /\ Content!Removes(o)
    BY <1>1, <2>1, ContentRemoves
  <2>2. CASE \E o \in Content!Issued \cap here :
               Content!Issues(o) /\ linked' = linked \ {o} /\ UNCHANGED <<here, inside, text>>
    <3>1. PICK o \in Content!Issued \cap here :
            Content!Issues(o) /\ linked' = linked \ {o} /\ UNCHANGED <<here, inside, text>>
      BY <2>2
    <3>2. id' \in [Content!Issued -> Content!Ids] /\ \A p \in here \cap Content!Issued : id'[p] # 0
      BY <1>1, <3>1, ContentIssues DEF ApplianceOK
    <3> QED  BY <1>1, <3>1, <3>2 DEF ApplianceOK, Content!Homeless
  <2>3. CASE "workflow" \in here /\ text' = "edited" /\ UNCHANGED <<here, id, inside, linked>>
    BY <1>1, <2>3 DEF ApplianceOK, Content!Homeless
  <2> QED  BY <2>1, <2>2, <2>3 DEF Content!OthersAct
<1> QED  BY <1>2, <1>4, <1>5, <1>6, ContentPartsNext

LEMMA ContentExecutes ==
  ASSUME ContentInv, Content!Executes
  PROVE  ContentInv'
<1>1. ApplianceOK /\ SettingOK /\ tool \in Run /\ RunInv
  BY ContentParts
<1>2. /\ tool' \in Run /\ tool'.op = tool.op /\ tool'.pc = tool.pc /\ tool'.at = tool.at /\ tool'.held = tool.held
      /\ tool'.live = tool.live /\ tool'.bad = tool.bad /\ tool'.blind = tool.blind /\ tool'.vain = tool.vain
      /\ tool'.named = tool.named /\ tool'.quiet = tool.quiet /\ tool'.exit = tool.exit /\ ~tool'.saw
  BY <1>1, RunForgets DEF Content!Executes
<1>3. UNCHANGED <<here, id, inside, text, linked, copy, teardowns, others, faults>> /\ running' \in BOOLEAN
  BY DEF Content!Executes, Content!appliance
<1>4. ApplianceOK' /\ SettingOK'
  BY <1>1, <1>3 DEF ApplianceOK, SettingOK, Content!Homeless
<1>5. DeployInv' /\ TeardownInv' /\ SawInv'
  BY <1>1, <1>2, <1>3 DEF RunInv, DeployInv, TeardownInv, SawInv, Done0, Past, Content!Names, Content!ActionBound,
                           Content!WorkflowBound
<1>6. ReadbackInv' /\ DriftInv'
  BY <1>1, <1>2, <1>3
     DEF RunInv, ReadbackInv, DriftInv, Done0, Content!Names, Content!Live, Content!ActionBound, Content!WorkflowBound
<1> QED  BY <1>2, <1>4, <1>5, <1>6, ContentPartsNext DEF RunInv

LEMMA ContentStarts ==
  ASSUME ContentInv, NEW op \in Content!Ops, Content!Starts(op)
  PROVE  ContentInv'
<1>1. ApplianceOK /\ SettingOK
  BY ContentParts
<1>2. /\ tool' \in Run /\ tool'.op = op /\ tool'.pc = "find" /\ tool'.at = 1 /\ (tool'.saw => running)
      /\ tool'.exit = 0 /\ tool'.bad = FALSE /\ tool'.blind = FALSE
  BY <1>1, RunStarts DEF Content!Starts, SettingOK
<1>3. UNCHANGED <<here, id, inside, text, linked, running, copy, others, faults>>
  BY DEF Content!Starts, Content!appliance
<1>4. teardowns' \in 0 .. MaxTeardowns
  <2>1. PICK k \in {0, 1} : teardowns' = teardowns + k /\ teardowns' <= MaxTeardowns
    BY DEF Content!Starts
  <2> QED  BY <1>1, <2>1, ContentNumbers DEF SettingOK
<1>5. ApplianceOK' /\ SettingOK'
  BY <1>1, <1>3, <1>4 DEF ApplianceOK, SettingOK, Content!Homeless
<1>6. DeployInv' /\ ReadbackInv' /\ DriftInv' /\ SawInv'
  BY <1>1, <1>2, <1>3 DEF DeployInv, ReadbackInv, DriftInv, SawInv, Done0, Past, SettingOK
<1>7. TeardownInv'
  BY <1>2 DEF TeardownInv, Done0
<1> QED  BY <1>2, <1>5, <1>6, <1>7, ContentPartsNext DEF RunInv

LEMMA ContentFails ==
  ASSUME SettingOK, Content!Fails \/ Content!Fine
  PROVE  faults' \in 0 .. MaxFaults
  BY ContentNumbers DEF SettingOK, Content!Fails, Content!Fine

\* A step that only looks.
LEMMA ContentLooks ==
  ASSUME ApplianceOK, SettingOK, Content!Looks, Content!Fails \/ Content!Fine
  PROVE  ApplianceOK' /\ SettingOK' /\ UNCHANGED <<here, id, inside, text, linked, running, copy>>
<1>1. UNCHANGED <<here, id, inside, text, linked, running, copy, teardowns, others>>
  BY DEF Content!Looks, Content!Else, Content!appliance
<1>2. faults' \in 0 .. MaxFaults
  BY ContentFails
<1> QED  BY <1>1, <1>2 DEF ApplianceOK, SettingOK, Content!Homeless

\* A run that ends with a failure says so and promises nothing.
LEMMA ContentStopped ==
  ASSUME SettingOK, tool \in Run, NEW code \in 1 .. 4, Content!Exits(code)
  PROVE  tool' \in Run /\ RunInv'
<1>1. tool' \in Run /\ tool'.pc = "done" /\ tool'.exit # 0 /\ ~tool'.saw
  <2>1. code \in 0 .. 4 /\ code # 0
    OBVIOUS
  <2> QED  BY <2>1, RunExits DEF Kept
<1> QED  BY <1>1 DEF RunInv, DeployInv, ReadbackInv, DriftInv, TeardownInv, SawInv, Done0, Past

LEMMA ContentStops ==
  ASSUME ContentInv, Content!Stops
  PROVE  ContentInv'
<1>1. ApplianceOK /\ SettingOK /\ tool \in Run /\ RunInv
  BY ContentParts
<1>2. ApplianceOK' /\ SettingOK' /\ UNCHANGED <<here, id, inside, text, linked, running, copy>>
  BY <1>1, ContentLooks DEF Content!Stops
<1>3. 3 \in 1 .. 4 /\ Content!Exits(3)
  BY DEF Content!Stops
<1>4. tool' \in Run /\ RunInv'
  BY <1>1, <1>2, <1>3, ContentStopped
<1> QED  BY <1>2, <1>4, ContentPartsNext

-----------------------------------------------------------------------------
(* Proofs about the content: a deploy. *)

LEMMA DeployAlone ==
  ASSUME tool'.op = "deploy", DeployInv', SawInv', tool'.pc \notin {"refs", "execs", "put", "back"}
  PROVE  RunInv'
  BY DEF RunInv, ReadbackInv, DriftInv, TeardownInv

LEMMA RunFinds ==
  ASSUME tool \in Run, NEW found \in BOOLEAN, NEW held \in [Content!Issued -> Content!Ids],
         tool' = [tool EXCEPT !.pc = "write", !.found = found, !.held = held]
  PROVE  /\ tool' \in Run /\ tool'.op = tool.op /\ tool'.pc = "write" /\ tool'.at = tool.at /\ tool'.held = held
         /\ tool'.saw = tool.saw /\ tool'.quiet = tool.quiet /\ tool'.bad = tool.bad /\ tool'.blind = tool.blind
         /\ tool'.vain = tool.vain
  BY DEF Run, Pcs

LEMMA ContentHolding ==
  ASSUME ApplianceOK, tool \in Run
  PROVE  /\ Content!Holding \in [Content!Issued -> Content!Ids]
         /\ \A o \in Content!Issued : o # Content!Target => Content!Holding[o] = tool.held[o]
<1>1. tool.held \in [Content!Issued -> Content!Ids] /\ id \in [Content!Issued -> Content!Ids]
  BY RunFields DEF ApplianceOK
<1> QED  BY <1>1 DEF Content!Holding

LEMMA ContentFinds ==
  ASSUME ContentInv, Content!Finds
  PROVE  ContentInv'
<1>1. ApplianceOK /\ SettingOK /\ tool \in Run /\ RunInv
  BY ContentParts
<1>2. ApplianceOK' /\ SettingOK' /\ UNCHANGED <<here, id, inside, text, linked, running, copy>>
  BY <1>1, ContentLooks DEF Content!Finds
<1>3. tool.op = "deploy" /\ tool.pc = "find" /\ tool.at \in 1 .. 8
  BY <1>1, RunFields DEF Content!Finds, Content!In
<1>4. CASE Content!Target \in here \cap (Content!Categories \cup {"package"}) /\ Content!Onward(tool)
  <2>1. tool.at < 5
    BY <1>1, <1>3, <1>4, DeployTargets
  <2>2. /\ tool' \in Run /\ tool'.op = "deploy" /\ tool'.pc = "find" /\ tool'.at = tool.at + 1
        /\ (tool'.saw => tool.saw)
    BY <1>1, <1>3, <1>4, <2>1, RunOnward
  <2>3. tool'.at \in 1 .. 5
    BY <1>3, <2>1, <2>2
  <2>4. DeployInv' /\ SawInv'
    BY <1>1, <1>2, <2>2, <2>3 DEF RunInv, DeployInv, SawInv, Done0, Past
  <2> QED  BY <1>2, <2>2, <2>4, DeployAlone, ContentPartsNext
<1>5. CASE tool' = [tool EXCEPT !.pc = "write", !.found = Content!Target \in here, !.held = Content!Holding]
  <2> DEFINE found == Content!Target \in here
  <2>1. tool' = [tool EXCEPT !.pc = "write", !.found = found, !.held = Content!Holding]
    BY <1>5, Zenon
  <2>2. found \in BOOLEAN
    OBVIOUS
  <2> HIDE DEF found
  <2>3. Content!Holding \in [Content!Issued -> Content!Ids]
    BY <1>1, ContentHolding
  <2>4. /\ tool' \in Run /\ tool'.op = "deploy" /\ tool'.pc = "write" /\ tool'.at = tool.at
        /\ tool'.held = Content!Holding /\ tool'.saw = tool.saw /\ tool'.quiet = tool.quiet
        /\ tool'.vain = tool.vain
    BY <1>1, <1>3, <2>1, <2>2, <2>3, RunFinds
  <2>5. /\ tool.at > 5 => tool'.held["element"] = tool.held["element"]
        /\ tool.at > 6 => tool'.held["environment"] = tool.held["environment"]
    BY <1>1, <1>3, <2>4, ContentHolding, DeployTargets DEF Content!Issued
  <2>6. SawInv'
    BY <1>1, <1>2, <2>4 DEF RunInv, SawInv
  <2>7. DeployInv'
    <3>1. /\ tool.at > 5 => Past(5)
          /\ tool.at > 6 => Past(6) /\ tool.at > 5
          /\ tool.at > 7 => Past(7) /\ tool.at > 6
          /\ tool.at > 8 => FALSE
      BY <1>3 DEF Past
    <3>2. \A k \in {5, 6, 7, 8} : Past(k)' => tool.at > k
      BY <2>4 DEF Past, Done0
    <3>3. ~Done0' /\ tool'.pc # "link"
      BY <2>4 DEF Done0
    <3> QED  BY <1>1, <1>2, <1>3, <2>4, <2>5, <3>1, <3>2, <3>3 DEF RunInv, DeployInv, Content!Names
  <2> QED  BY <1>2, <2>4, <2>6, <2>7, DeployAlone, ContentPartsNext
<1>6. CASE Content!Exits(1)
  <2>1. 1 \in 1 .. 4
    OBVIOUS
  <2>2. tool' \in Run /\ RunInv'
    BY <1>1, <1>2, <1>6, <2>1, ContentStopped
  <2> QED  BY <1>2, <2>2, ContentPartsNext
<1> QED  BY <1>4, <1>5, <1>6 DEF Content!Finds

\* What the write of a layer leaves.
LEMMA ContentLands ==
  ASSUME ApplianceOK, tool \in Run, tool.op = "deploy", tool.pc # "done", DeployInv, Content!Lands
  PROVE  /\ here' = here \cup {Content!Target} /\ linked' = linked /\ ApplianceOK'
         /\ \A o \in Content!Issued : o # Content!Target => id'[o] = id[o]
         /\ \A o \in Content!Carriers : o # Content!Target => inside'[o] = inside[o]
         /\ Content!Target \in Content!Carriers => inside'[Content!Target] = tool.held[Content!Carried(Content!Target)]
         /\ Content!Target \in Content!Issued => id'[Content!Target] # 0
<1> DEFINE o == Content!Target
<1>1. /\ o \in Content!Objects /\ ~Content!Homeless(o) /\ linked' = linked
      /\ tool.held \in [Content!Issued -> Content!Ids]
  BY DeployTargets, RunFields DEF Content!Lands
<1>2. /\ here \subseteq Content!Objects /\ linked \subseteq here \ {"package"} /\ (linked # {} => "package" \in here)
      /\ \A p \in here : ~Content!Homeless(p)
      /\ id \in [Content!Issued -> Content!Ids] /\ inside \in [Content!Carriers -> Content!Ids]
      /\ \A p \in Content!Carriers : p \in here => inside[p] # 0
      /\ text \in {"shipped", "edited"}
      /\ \A p \in here \cap Content!Issued : id[p] # 0
  BY DEF ApplianceOK
<1>3. CASE o \in Content!Categories \cup {"package"} /\ Content!Puts(o) /\ UNCHANGED <<id, inside, text>>
  <2>1. o \notin Content!Issued /\ o \notin Content!Carriers
    BY <1>3 DEF Content!Categories, Content!Issued, Content!Carriers
  <2> QED  BY <1>1, <1>2, <1>3, <2>1 DEF ApplianceOK, Content!Puts, Content!Homeless
<1>4. CASE o \in Content!Issued /\ tool.found /\ Content!Names(o, tool.held[o]) /\ UNCHANGED <<here, id, inside, text>>
  <2>1. o \notin Content!Carriers /\ o \in here
    BY <1>4 DEF Content!Issued, Content!Carriers, Content!Names
  <2> QED  BY <1>1, <1>2, <1>4, <2>1 DEF ApplianceOK, Content!Homeless
<1>5. CASE o \in Content!Issued /\ Content!Issues(o) /\ Content!Puts(o) /\ UNCHANGED <<inside, text>>
  <2>1. o \notin Content!Carriers
    BY <1>5 DEF Content!Issued, Content!Carriers
  <2>2. id' \in [Content!Issued -> Content!Ids] /\ id'[o] # 0 /\ \A p \in Content!Issued : p # o => id'[p] = id[p]
    BY <1>5, ContentIssues
  <2> QED  BY <1>1, <1>2, <1>5, <2>1, <2>2 DEF ApplianceOK, Content!Puts, Content!Homeless
<1>6. CASE /\ o \in Content!Carriers /\ Content!Puts(o) /\ UNCHANGED id
           /\ inside' = [inside EXCEPT ![o] = Content!Binds(o)]
           /\ text' = IF o = "workflow" THEN "shipped" ELSE text
  <2>1. o \notin Content!Issued /\ Content!Binds(o) = tool.held[Content!Carried(o)]
    BY <1>6 DEF Content!Issued, Content!Carriers, Content!Binds
  <2>2. Content!Binds(o) \in Content!Ids /\ Content!Binds(o) # 0
    <3>1. CASE o = "action"
      <4>1. Past(6) /\ Content!Carried(o) = "environment"
        BY <3>1, DeployTargets DEF Past, Content!Carried
      <4> QED  BY <1>1, <2>1, <4>1 DEF DeployInv, Content!Issued
    <3>2. CASE o = "workflow"
      <4>1. Past(5) /\ Content!Carried(o) = "element"
        BY <3>2, DeployTargets DEF Past, Content!Carried
      <4> QED  BY <1>1, <2>1, <4>1 DEF DeployInv, Content!Issued
    <3> QED  BY <1>6, <3>1, <3>2 DEF Content!Carriers
  <2>3. /\ inside' \in [Content!Carriers -> Content!Ids] /\ inside'[o] = Content!Binds(o)
        /\ \A p \in Content!Carriers : p # o => inside'[p] = inside[p]
    BY <1>2, <1>6, <2>2
  <2>4. text' \in {"shipped", "edited"}
    BY <1>2, <1>6
  <2>5. here' = here \cup {o} /\ id' = id
    BY <1>6 DEF Content!Puts
  <2>6. ApplianceOK'
    BY <1>1, <1>2, <2>1, <2>2, <2>3, <2>4, <2>5 DEF ApplianceOK, Content!Homeless
  <2> QED  BY <1>1, <1>6, <2>1, <2>3, <2>5, <2>6
<1> QED  BY <1>3, <1>4, <1>5, <1>6 DEF Content!Lands

LEMMA RunLinks ==
  ASSUME NEW t \in Run, NEW held \in [Content!Issued -> Content!Ids],
         tool' = [t EXCEPT !.pc = "link", !.held = held]
  PROVE  /\ tool' \in Run /\ tool'.op = t.op /\ tool'.pc = "link" /\ tool'.at = t.at /\ tool'.held = held
         /\ tool'.saw = t.saw /\ tool'.quiet = t.quiet /\ tool'.vain = t.vain
  BY DEF Run, Pcs

\* What an accepted write does to the run.
LEMMA RunAccepts ==
  ASSUME SettingOK, tool \in Run, tool.op = "deploy", NEW vain \in BOOLEAN, Content!Accepted(vain),
         id' \in [Content!Issued -> Content!Ids]
  PROVE  /\ tool' \in Run /\ tool'.op = "deploy" /\ (tool'.saw => tool.saw)
         /\ tool'.quiet = tool.quiet /\ tool'.vain = (tool.vain \/ vain)
         /\ tool.at < 5 => tool'.pc = "find" /\ tool'.at \in 1 .. 5
         /\ tool.at > 4 => /\ tool'.pc = "link" /\ tool'.at = tool.at
                           /\ \A o \in Content!Issued :
                                tool'.held[o] = IF o = Content!Target THEN Content!Given(vain) ELSE tool.held[o]
<1>1. tool.at \in 1 .. 8 /\ tool.vain \in BOOLEAN /\ tool.held \in [Content!Issued -> Content!Ids]
  BY RunFields
<1> DEFINE v == tool.vain \/ vain
           t == [tool EXCEPT !.vain = v]
           held == IF Content!Target \in Content!Issued
                   THEN [tool.held EXCEPT ![Content!Target] = Content!Given(vain)] ELSE tool.held
<1>2. v \in BOOLEAN
  BY <1>1
<1>3. IF Content!Target \in Content!Issued \cup Content!Carriers
      THEN tool' = [t EXCEPT !.pc = "link", !.held = IF Content!Target \in Content!Issued
                                                     THEN [t.held EXCEPT ![Content!Target] = Content!Given(vain)]
                                                     ELSE t.held]
      ELSE Content!Onward(t)
  BY Zenon DEF Content!Accepted
<1> HIDE DEF v
<1>4. /\ t \in Run /\ t.op = "deploy" /\ t.saw = tool.saw /\ t.quiet = tool.quiet /\ t.vain = v /\ t.at = tool.at
      /\ t.held = tool.held
  BY <1>2 DEF Run
<1> HIDE DEF t
<1>5. CASE tool.at < 5
  <2>1. Content!Onward(t)
    BY <1>3, <1>5, DeployTargets DEF Content!Issued, Content!Carriers
  <2>2. /\ tool' \in Run /\ tool'.op = "deploy" /\ (tool'.saw => tool.saw) /\ tool'.quiet = tool.quiet
        /\ tool'.vain = v /\ tool'.pc = "find" /\ tool'.at = tool.at + 1
    BY <1>1, <1>4, <1>5, <2>1, RunOnward
  <2> QED  BY <1>1, <1>5, <2>2 DEF v
<1>6. CASE tool.at > 4
  <2>1. Content!Target \in Content!Issued \cup Content!Carriers
    BY <1>1, <1>6, DeployTargets DEF Content!Issued, Content!Carriers, Content!Objects, Content!Categories
  <2>2. Content!Target \in Content!Issued => Content!Given(vain) \in Content!Ids
    BY ContentNumbers DEF Content!Given, Content!Nowhere, Content!Ids
  <2>3. /\ held \in [Content!Issued -> Content!Ids]
        /\ \A o \in Content!Issued : held[o] = IF o = Content!Target THEN Content!Given(vain) ELSE tool.held[o]
    BY <1>1, <2>2
  <2>4. tool' = [t EXCEPT !.pc = "link", !.held = held]
    BY <1>3, <1>4, <2>1
  <2> HIDE DEF held
  <2>5. /\ tool' \in Run /\ tool'.op = t.op /\ tool'.pc = "link" /\ tool'.at = t.at /\ tool'.held = held
        /\ tool'.saw = t.saw /\ tool'.quiet = t.quiet /\ tool'.vain = t.vain
    BY <1>4, <2>3, <2>4, RunLinks
  <2> QED  BY <1>1, <1>4, <1>6, <2>3, <2>5 DEF v
<1> QED  BY <1>1, <1>5, <1>6

\* Nobody else has acted, and nothing was written in vain.
Undisturbed == tool.quiet /\ ~tool.vain

\* What a deploy has done before stays, whatever it writes next.
LEMMA DeployKeeps ==
  ASSUME ApplianceOK, tool \in Run, tool.op = "deploy", tool.pc = "write", DeployInv, Content!Lands
  PROVE  /\ tool.at > 5 => /\ tool.held["element"] # 0
                           /\ Undisturbed => "element" \in here' /\ id'["element"] = tool.held["element"]
         /\ tool.at > 6 => /\ tool.held["environment"] # 0
                           /\ Undisturbed => "environment" \in here' /\ id'["environment"] = tool.held["environment"]
         /\ tool.at > 7 /\ Undisturbed => "action" \in here' /\ inside'["action"] = tool.held["environment"]
         /\ tool.at = 5 => "element" \in here' /\ id'["element"] # 0
         /\ tool.at = 6 => "environment" \in here' /\ id'["environment"] # 0
         /\ tool.at = 7 => "action" \in here' /\ inside'["action"] = tool.held["environment"]
         /\ tool.at = 8 => "workflow" \in here' /\ inside'["workflow"] = tool.held["element"]
         /\ tool.at \in 1 .. 8
<1>1. /\ here' = here \cup {Content!Target}
      /\ \A o \in Content!Issued : o # Content!Target => id'[o] = id[o]
      /\ \A o \in Content!Carriers : o # Content!Target => inside'[o] = inside[o]
      /\ Content!Target \in Content!Carriers => inside'[Content!Target] = tool.held[Content!Carried(Content!Target)]
      /\ Content!Target \in Content!Issued => id'[Content!Target] # 0
  BY ContentLands
<1>2. /\ tool.at \in 1 .. 8
      /\ Content!Target = "element" <=> tool.at = 5
      /\ Content!Target = "environment" <=> tool.at = 6
      /\ Content!Target = "action" <=> tool.at = 7
      /\ Content!Target = "workflow" <=> tool.at = 8
  BY RunFields, DeployTargets
<1>3. /\ {"element", "environment"} \subseteq Content!Issued /\ {"action", "workflow"} \subseteq Content!Carriers
      /\ Content!Carried("action") = "environment" /\ Content!Carried("workflow") = "element"
  BY DEF Content!Issued, Content!Carriers, Content!Carried
<1>4. tool.at > 5 => /\ tool.held["element"] # 0
                     /\ Undisturbed => "element" \in here' /\ id'["element"] = tool.held["element"]
  <2> SUFFICES ASSUME tool.at > 5
               PROVE  /\ tool.held["element"] # 0
                      /\ Undisturbed => "element" \in here' /\ id'["element"] = tool.held["element"]
    OBVIOUS
  <2>1. Past(5) /\ Content!Target # "element"
    BY <1>2 DEF Past
  <2>2. tool.held["element"] # 0 /\ (Undisturbed => "element" \in here /\ id["element"] = tool.held["element"])
    BY <2>1 DEF DeployInv, Content!Names, Undisturbed
  <2>3. Undisturbed => "element" \in here' /\ id'["element"] = tool.held["element"]
    BY <1>1, <1>3, <2>1, <2>2
  <2> QED  BY <2>2, <2>3
<1>5. tool.at > 6 => /\ tool.held["environment"] # 0
                     /\ Undisturbed => "environment" \in here' /\ id'["environment"] = tool.held["environment"]
  <2> SUFFICES ASSUME tool.at > 6
               PROVE  /\ tool.held["environment"] # 0
                      /\ Undisturbed => "environment" \in here' /\ id'["environment"] = tool.held["environment"]
    OBVIOUS
  <2>1. Past(6) /\ Content!Target # "environment"
    BY <1>2 DEF Past
  <2>2. /\ tool.held["environment"] # 0
        /\ Undisturbed => "environment" \in here /\ id["environment"] = tool.held["environment"]
    BY <2>1 DEF DeployInv, Content!Names, Undisturbed
  <2>3. Undisturbed => "environment" \in here' /\ id'["environment"] = tool.held["environment"]
    BY <1>1, <1>3, <2>1, <2>2
  <2> QED  BY <2>2, <2>3
<1>6. tool.at > 7 /\ Undisturbed => "action" \in here' /\ inside'["action"] = tool.held["environment"]
  <2> SUFFICES ASSUME tool.at > 7, Undisturbed
               PROVE  "action" \in here' /\ inside'["action"] = tool.held["environment"]
    OBVIOUS
  <2>1. Past(7) /\ Content!Target # "action"
    BY <1>2 DEF Past
  <2> QED  BY <1>1, <1>3, <2>1 DEF DeployInv, Undisturbed
<1> QED  BY <1>1, <1>2, <1>3, <1>4, <1>5, <1>6

LEMMA ContentWrites ==
  ASSUME ContentInv, Content!Writes
  PROVE  ContentInv'
<1>1. ApplianceOK /\ SettingOK /\ tool \in Run /\ RunInv
  BY ContentParts
<1>2. /\ tool.op = "deploy" /\ tool.pc = "write" /\ tool.at \in 1 .. 8 /\ DeployInv /\ SawInv
      /\ UNCHANGED <<running, copy, teardowns, others>>
  BY <1>1, RunFields DEF Content!Writes, Content!In, Content!Else, RunInv
<1>3. SettingOK'
  <2>1. faults' \in 0 .. MaxFaults
    BY <1>1, ContentFails DEF Content!Writes
  <2> QED  BY <1>1, <1>2, <2>1 DEF SettingOK
<1>4. /\ tool.at # 5 => Content!Target # "element"
      /\ tool.at # 6 => Content!Target # "environment"
      /\ tool.at = 5 => Content!Target = "element"
      /\ tool.at = 6 => Content!Target = "environment"
      /\ {"element", "environment"} = Content!Issued
  BY <1>1, <1>2, DeployTargets DEF Content!Issued
<1>5. CASE Content!Lands /\ Content!Accepted(FALSE)
  <2>1. ApplianceOK' /\ id' \in [Content!Issued -> Content!Ids]
    BY <1>1, <1>2, <1>5, ContentLands DEF ApplianceOK
  <2>2. /\ tool' \in Run /\ tool'.op = "deploy" /\ (tool'.saw => tool.saw)
        /\ tool'.quiet = tool.quiet /\ tool'.vain = (tool.vain \/ FALSE)
        /\ tool.at < 5 => tool'.pc = "find" /\ tool'.at \in 1 .. 5
        /\ tool.at > 4 => /\ tool'.pc = "link" /\ tool'.at = tool.at
                          /\ \A o \in Content!Issued :
                               tool'.held[o] = IF o = Content!Target THEN Content!Given(FALSE) ELSE tool.held[o]
    BY <1>1, <1>2, <1>5, <2>1, RunAccepts
  <2>3. tool'.pc \in {"find", "link"} /\ SawInv' /\ tool'.vain = tool.vain
    <3>1. tool'.pc \in {"find", "link"}
      <4>1. tool.at < 5 \/ tool.at > 4
        BY <1>2
      <4>2. tool.at < 5 => tool'.pc = "find"
        BY <2>2, Zenon
      <4>3. tool.at > 4 => tool'.pc = "link"
        BY <2>2, Zenon
      <4> QED  BY <4>1, <4>2, <4>3
    <3>2. SawInv'
      BY <1>2, <2>2, <3>1 DEF SawInv
    <3>3. tool'.vain = tool.vain
      BY <1>1, <2>2, RunFields, Zenon
    <3> QED  BY <3>1, <3>2, <3>3
  <2>4. CASE tool.at < 5
    <3>1. DeployInv'
      BY <2>2, <2>4 DEF DeployInv, Done0, Past
    <3> QED  BY <1>3, <2>1, <2>2, <2>3, <3>1, DeployAlone, ContentPartsNext
  <2>5. CASE tool.at > 4
    <3>1. Content!Target \in Content!Issued => Content!Given(FALSE) = id'[Content!Target]
      BY DEF Content!Given
    <3>2. /\ tool.at # 5 => tool'.held["element"] = tool.held["element"]
          /\ tool.at # 6 => tool'.held["environment"] = tool.held["environment"]
          /\ tool.at = 5 => tool'.held["element"] = id'["element"]
          /\ tool.at = 6 => tool'.held["environment"] = id'["environment"]
      BY <1>4, <2>2, <2>5, <3>1
    <3>3. \A k \in {5, 6, 7, 8} : Past(k)' => tool.at > k \/ tool.at = k
      BY <2>2, <2>5 DEF Past
    <3>4. /\ Past(5)' => /\ tool'.held["element"] # 0
                         /\ Undisturbed => "element" \in here' /\ id'["element"] = tool'.held["element"]
          /\ Past(6)' => /\ tool'.held["environment"] # 0
                         /\ Undisturbed => "environment" \in here' /\ id'["environment"] = tool'.held["environment"]
          /\ Past(7)' => (Undisturbed => "action" \in here' /\ inside'["action"] = tool'.held["environment"])
          /\ Past(8)' => (Undisturbed => "workflow" \in here' /\ inside'["workflow"] = tool'.held["element"])
      BY <1>1, <1>2, <1>5, <3>2, <3>3, DeployKeeps
    <3>5. DeployInv'
      BY <2>2, <2>3, <2>5, <3>4 DEF DeployInv, Done0, Content!Names, Undisturbed
    <3> QED  BY <1>3, <2>1, <2>2, <2>3, <3>5, DeployAlone, ContentPartsNext
  <2> QED  BY <1>2, <2>4, <2>5
<1>6. CASE Content!CanLand /\ UNCHANGED Content!appliance /\ Content!Accepted(TRUE)
  <2>1. /\ UNCHANGED <<here, id, inside, text, linked>> /\ ApplianceOK'
        /\ id' \in [Content!Issued -> Content!Ids]
    BY <1>1, <1>6 DEF ApplianceOK, Content!appliance, Content!Homeless
  <2>2. /\ tool' \in Run /\ tool'.op = "deploy" /\ (tool'.saw => tool.saw)
        /\ tool'.quiet = tool.quiet /\ tool'.vain = (tool.vain \/ TRUE)
        /\ tool.at < 5 => tool'.pc = "find" /\ tool'.at \in 1 .. 5
        /\ tool.at > 4 => /\ tool'.pc = "link" /\ tool'.at = tool.at
                          /\ \A o \in Content!Issued :
                               tool'.held[o] = IF o = Content!Target THEN Content!Given(TRUE) ELSE tool.held[o]
    BY <1>1, <1>2, <1>6, <2>1, RunAccepts
  <2>3. tool'.pc \in {"find", "link"} /\ SawInv' /\ tool'.vain
    <3>1. tool'.pc \in {"find", "link"}
      <4>1. tool.at < 5 \/ tool.at > 4
        BY <1>2
      <4>2. tool.at < 5 => tool'.pc = "find"
        BY <2>2, Zenon
      <4>3. tool.at > 4 => tool'.pc = "link"
        BY <2>2, Zenon
      <4> QED  BY <4>1, <4>2, <4>3
    <3>2. SawInv'
      BY <1>2, <2>2, <3>1 DEF SawInv
    <3> QED  BY <2>2, <3>1, <3>2
  <2>4. CASE tool.at < 5
    <3>1. DeployInv'
      BY <2>2, <2>4 DEF DeployInv, Done0, Past
    <3> QED  BY <1>3, <2>1, <2>2, <2>3, <3>1, DeployAlone, ContentPartsNext
  <2>5. CASE tool.at > 4
    <3>1. Content!Target \in Content!Issued => Content!Given(TRUE) # 0
      <4>1. Content!Nowhere # 0
        BY ContentNumbers DEF Content!Nowhere
      <4>2. Content!Target \in Content!Issued /\ tool.found => Content!Target \in here
        BY <1>6 DEF Content!CanLand
      <4>3. Content!Target \in Content!Issued /\ tool.found => id'[Content!Target] # 0
        BY <1>1, <2>1, <4>2 DEF ApplianceOK
      <4> QED  BY <4>1, <4>3 DEF Content!Given
    <3>2. /\ tool.at # 5 => tool'.held["element"] = tool.held["element"]
          /\ tool.at # 6 => tool'.held["environment"] = tool.held["environment"]
          /\ tool.at = 5 => tool'.held["element"] # 0
          /\ tool.at = 6 => tool'.held["environment"] # 0
      BY <1>4, <2>2, <2>5, <3>1
    <3>3. /\ Past(5)' => tool'.held["element"] # 0
          /\ Past(6)' => tool'.held["environment"] # 0
      BY <1>2, <2>2, <2>5, <3>2 DEF Past, DeployInv
    <3>4. DeployInv'
      BY <2>2, <2>3, <2>5, <3>3 DEF DeployInv
    <3> QED  BY <1>3, <2>1, <2>2, <2>3, <3>4, DeployAlone, ContentPartsNext
  <2> QED  BY <1>2, <2>4, <2>5
<1>7. CASE Content!Lands /\ Content!Exits(3)
  <2>1. 3 \in 1 .. 4
    OBVIOUS
  <2>2. tool' \in Run /\ RunInv'
    BY <1>1, <1>7, <2>1, ContentStopped
  <2>3. ApplianceOK'
    BY <1>1, <1>2, <1>7, ContentLands
  <2> QED  BY <1>3, <2>2, <2>3, ContentPartsNext
<1>8. CASE Content!Exits(1) /\ UNCHANGED Content!appliance
  <2>1. 1 \in 1 .. 4 /\ UNCHANGED <<here, id, inside, text, linked>>
    BY <1>8 DEF Content!appliance
  <2>2. tool' \in Run /\ RunInv'
    BY <1>1, <1>8, <2>1, ContentStopped
  <2>3. ApplianceOK'
    BY <1>1, <2>1 DEF ApplianceOK, Content!Homeless
  <2> QED  BY <1>3, <2>2, <2>3, ContentPartsNext
<1> QED  BY <1>5, <1>6, <1>7, <1>8 DEF Content!Writes

LEMMA ContentLinks ==
  ASSUME ContentInv, Content!Links
  PROVE  ContentInv'
<1>1. ApplianceOK /\ SettingOK /\ tool \in Run /\ RunInv
  BY ContentParts
<1>2. /\ tool.op = "deploy" /\ tool.pc = "link" /\ tool.at \in 1 .. 8 /\ DeployInv /\ SawInv
      /\ Content!Onward(tool) /\ UNCHANGED <<here, id, inside, text, running, copy, teardowns, others>>
  BY <1>1, RunFields DEF Content!Links, Content!In, Content!Else, RunInv
<1>3. SettingOK'
  <2>1. faults' \in 0 .. MaxFaults
    BY <1>1, ContentFails DEF Content!Links
  <2> QED  BY <1>1, <1>2, <2>1 DEF SettingOK
<1>4. tool.at > 4
  BY <1>2 DEF DeployInv
<1>5. ApplianceOK'
  <2>1. Content!Target # "package"
    BY <1>1, <1>2, <1>4, DeployTargets
  <2>2. linked' = linked \/ (linked' = linked \cup {Content!Target} /\ {"package", Content!Target} \subseteq here)
    BY DEF Content!Links
  <2>3. linked' \subseteq here' \ {"package"} /\ (linked' # {} => "package" \in here')
    BY <1>1, <1>2, <2>1, <2>2 DEF ApplianceOK
  <2> QED  BY <1>1, <1>2, <2>3 DEF ApplianceOK, Content!Homeless
<1>6. /\ tool' \in Run /\ tool'.op = "deploy" /\ (tool'.saw => tool.saw)
      /\ tool'.quiet = tool.quiet /\ tool'.vain = tool.vain
      /\ tool.at < 8 => tool'.pc = "find" /\ tool'.at = tool.at + 1 /\ tool'.held = tool.held
      /\ tool.at = 8 => tool'.pc = "done"
  BY <1>1, <1>2, RunOnward
<1>7. tool'.pc \in {"find", "done"} /\ SawInv'
  BY <1>2, <1>6 DEF SawInv
<1>8. DeployInv'
  <2>1. CASE tool.at < 8
    <3>1. \A k \in {5, 6, 7, 8} : Past(k)' => Past(k)
      BY <1>2, <1>6, <2>1 DEF Past
    <3> QED  BY <1>2, <1>6, <2>1, <3>1 DEF DeployInv, Done0, Content!Names
  <2>2. CASE tool.at = 8
    <3>1. Past(5) /\ Past(6) /\ Past(7) /\ Past(8)
      BY <1>2, <2>2 DEF Past
    <3>2. tool.quiet /\ ~tool.vain => Content!ActionBound /\ Content!WorkflowBound
      BY <1>2, <3>1 DEF DeployInv, Content!ActionBound, Content!WorkflowBound, Content!Names
    <3>3. tool.quiet /\ ~tool.vain => (Content!ActionBound /\ Content!WorkflowBound)'
      BY <1>2, <3>2 DEF Content!ActionBound, Content!WorkflowBound, Content!Names
    <3> QED  BY <1>6, <2>2, <3>3 DEF DeployInv, Past
  <2> QED  BY <1>2, <2>1, <2>2
<1> QED  BY <1>3, <1>5, <1>6, <1>7, <1>8, DeployAlone, ContentPartsNext

-----------------------------------------------------------------------------
(* Proofs about the content: a readback. *)

LEMMA RunReadsEnvironment ==
  ASSUME tool \in Run, NEW i \in Content!Ids, tool' = [tool EXCEPT !.pc = "action", !.held["environment"] = i]
  PROVE  /\ tool' \in Run /\ tool'.op = tool.op /\ tool'.pc = "action" /\ tool'.saw = tool.saw
         /\ tool'.held["environment"] = i
<1>1. /\ [tool.held EXCEPT !["environment"] = i] \in [Content!Issued -> Content!Ids]
      /\ [tool.held EXCEPT !["environment"] = i]["environment"] = i
  BY RunFields DEF Content!Issued
<1> QED  BY <1>1 DEF Run, Pcs

LEMMA RunReadsElement ==
  ASSUME tool \in Run, NEW i \in Content!Ids, tool' = [tool EXCEPT !.pc = "element", !.held["element"] = i]
  PROVE  /\ tool' \in Run /\ tool'.op = tool.op /\ tool'.pc = "element" /\ tool'.saw = tool.saw
         /\ tool'.bad = tool.bad /\ tool'.quiet = tool.quiet /\ tool'.named = tool.named /\ tool'.held["element"] = i
<1>1. /\ [tool.held EXCEPT !["element"] = i] \in [Content!Issued -> Content!Ids]
      /\ [tool.held EXCEPT !["element"] = i]["element"] = i
  BY RunFields DEF Content!Issued
<1> QED  BY <1>1 DEF Run, Pcs

LEMMA RunJudges ==
  ASSUME tool \in Run, NEW bad \in BOOLEAN, tool' = [tool EXCEPT !.pc = "workflow", !.bad = bad]
  PROVE  /\ tool' \in Run /\ tool'.op = tool.op /\ tool'.pc = "workflow" /\ tool'.saw = tool.saw /\ tool'.bad = bad
         /\ tool'.named = tool.named /\ tool'.quiet = tool.quiet
  BY DEF Run, Pcs

LEMMA RunNames ==
  ASSUME tool \in Run, tool' = [tool EXCEPT !.pc = "workflow", !.named = TRUE]
  PROVE  /\ tool' \in Run /\ tool'.op = tool.op /\ tool'.pc = "workflow" /\ tool'.saw = tool.saw /\ tool'.bad = tool.bad
         /\ tool'.named
  BY DEF Run, Pcs

LEMMA ReadbackAlone ==
  ASSUME tool'.op = "readback", ReadbackInv', SawInv', tool'.pc \notin {"refs", "execs", "put", "back"}
  PROVE  RunInv'
  BY DEF RunInv, DeployInv, DriftInv, TeardownInv

LEMMA ContentReadsBack ==
  ASSUME ContentInv, Content!ReadsBack
  PROVE  ContentInv'
<1>1. ApplianceOK /\ SettingOK /\ tool \in Run /\ RunInv
  BY ContentParts
<1>2. ApplianceOK' /\ SettingOK' /\ UNCHANGED <<here, id, inside, text, linked, running, copy>>
  BY <1>1, ContentLooks DEF Content!ReadsBack
<1>3. tool.op = "readback" /\ ReadbackInv /\ SawInv
  BY <1>1 DEF Content!ReadsBack, RunInv
<1>4. CASE tool' = [tool EXCEPT !.pc = "action",
                      !.held["environment"] = IF "environment" \in here THEN id["environment"] ELSE 0]
  <2> DEFINE i == IF "environment" \in here THEN id["environment"] ELSE 0
  <2>1. i \in Content!Ids
    BY <1>1, ContentNumbers DEF ApplianceOK, Content!Issued
  <2>2. tool' = [tool EXCEPT !.pc = "action", !.held["environment"] = i]
    BY <1>4
  <2>3. i # 0 => Content!Names("environment", i)
    BY DEF Content!Names
  <2> HIDE DEF i
  <2>4. /\ tool' \in Run /\ tool'.op = "readback" /\ tool'.pc = "action" /\ tool'.saw = tool.saw
        /\ tool'.held["environment"] = i
    BY <1>1, <1>3, <2>1, <2>2, RunReadsEnvironment
  <2>5. ReadbackInv' /\ SawInv'
    BY <1>2, <1>3, <2>3, <2>4 DEF ReadbackInv, SawInv, Done0, Content!Names
  <2> QED  BY <1>2, <2>4, <2>5, ReadbackAlone, ContentPartsNext
<1>5. CASE \E ok \in BOOLEAN : Content!Judges(ok) /\ (ok /\ tool.quiet => Content!ActionBound)
  <2>1. PICK ok \in BOOLEAN : Content!Judges(ok) /\ (ok /\ tool.quiet => Content!ActionBound)
    BY <1>5
  <2> DEFINE bad == tool.bad \/ ~ok
  <2>2. bad \in BOOLEAN /\ (~bad => ok)
    BY <1>1, RunFields
  <2>3. tool' = [tool EXCEPT !.pc = "workflow", !.bad = bad]
    BY <2>1, Zenon DEF Content!Judges
  <2> HIDE DEF bad
  <2>4. /\ tool' \in Run /\ tool'.op = "readback" /\ tool'.pc = "workflow" /\ tool'.saw = tool.saw /\ tool'.bad = bad
        /\ tool'.quiet = tool.quiet
    BY <1>1, <1>3, <2>2, <2>3, RunJudges
  <2>5. ReadbackInv' /\ SawInv'
    BY <1>2, <1>3, <2>1, <2>2, <2>4 DEF ReadbackInv, SawInv, Done0, Content!ActionBound, Content!Names
  <2> QED  BY <1>2, <2>4, <2>5, ReadbackAlone, ContentPartsNext
<1>6. CASE /\ tool.pc = "workflow" /\ "workflow" \in here
           /\ tool' = [tool EXCEPT !.pc = "element", !.held["element"] = inside["workflow"]]
  <2>1. inside["workflow"] \in Content!Ids
    BY <1>1 DEF ApplianceOK, Content!Carriers
  <2>2. /\ tool' \in Run /\ tool'.op = "readback" /\ tool'.pc = "element" /\ tool'.saw = tool.saw
        /\ tool'.bad = tool.bad /\ tool'.quiet = tool.quiet /\ tool'.named = tool.named
        /\ tool'.held["element"] = inside["workflow"]
    BY <1>1, <1>3, <1>6, <2>1, RunReadsElement
  <2>3. ReadbackInv' /\ SawInv'
    BY <1>2, <1>3, <1>6, <2>2 DEF ReadbackInv, SawInv, Done0, Content!ActionBound, Content!Names
  <2> QED  BY <1>2, <2>2, <2>3, ReadbackAlone, ContentPartsNext
<1>7. CASE Content!Exits(1)
  <2>1. 1 \in 1 .. 4
    OBVIOUS
  <2>2. tool' \in Run /\ RunInv'
    BY <1>1, <1>2, <1>7, <2>1, ContentStopped
  <2> QED  BY <1>2, <2>2, ContentPartsNext
<1>8. CASE /\ tool.pc = "element" /\ Content!Exits(0)
           /\ ~tool.bad /\ Content!Names("element", tool.held["element"])
  <2>1. 0 \in 0 .. 4
    OBVIOUS
  <2>2. tool' \in Run /\ tool'.pc = "done" /\ Kept(tool) /\ tool'.exit = 0
    BY <1>1, <1>8, <2>1, RunExits
  <2>3. tool.quiet => "action" \in here /\ (~tool.named => Content!ActionBound) /\ Content!WorkflowBound
    BY <1>3, <1>8 DEF ReadbackInv, Content!WorkflowBound
  <2>4. ReadbackInv' /\ SawInv'
    BY <1>2, <1>3, <2>2, <2>3
       DEF ReadbackInv, SawInv, Kept, Content!ActionBound, Content!WorkflowBound, Content!Names
  <2> QED  BY <1>2, <1>3, <2>2, <2>4, ReadbackAlone, ContentPartsNext DEF Kept
<1>9. CASE tool.pc = "action" /\ Content!Judges("action" \in here /\ inside["action"] = tool.held["environment"])
  <2> DEFINE ok == "action" \in here /\ inside["action"] = tool.held["environment"]
  <2>1. "action" \in here => inside["action"] # 0
    BY <1>1 DEF ApplianceOK, Content!Carriers
  <2>2. ok \in BOOLEAN /\ (ok /\ tool.quiet => Content!ActionBound)
    BY <1>3, <1>9, <2>1 DEF ReadbackInv, Content!ActionBound
  <2>3. Content!Judges(ok)
    BY <1>9, Zenon
  <2> HIDE DEF ok
  <2> QED  BY <1>5, <2>2, <2>3
<1>10. CASE "action" \in here /\ tool' = [tool EXCEPT !.pc = "workflow", !.named = TRUE]
  <2>1. tool' \in Run /\ tool'.op = "readback" /\ tool'.pc = "workflow" /\ tool'.saw = tool.saw /\ tool'.named
    BY <1>1, <1>3, <1>10, RunNames
  <2>2. ReadbackInv' /\ SawInv'
    BY <1>2, <1>3, <1>10, <2>1 DEF ReadbackInv, SawInv, Done0
  <2> QED  BY <1>2, <2>1, <2>2, ReadbackAlone, ContentPartsNext
<1>11. CASE Content!Judges(FALSE)
  BY <1>5, <1>11
<1>12. CASE /\ tool.pc = "element"
            /\ Content!Exits(IF tool.bad \/ ~Content!Names("element", tool.held["element"]) THEN 1 ELSE 0)
  BY <1>7, <1>8, <1>12
<1>13. \/ tool' = [tool EXCEPT !.pc = "action",
                      !.held["environment"] = IF "environment" \in here THEN id["environment"] ELSE 0]
       \/ tool.pc = "action" /\ Content!Judges("action" \in here /\ inside["action"] = tool.held["environment"])
       \/ "action" \in here /\ tool' = [tool EXCEPT !.pc = "workflow", !.named = TRUE]
       \/ Content!Judges(FALSE)
       \/ /\ tool.pc = "workflow" /\ "workflow" \in here
          /\ tool' = [tool EXCEPT !.pc = "element", !.held["element"] = inside["workflow"]]
       \/ Content!Exits(1)
       \/ /\ tool.pc = "element"
          /\ Content!Exits(IF tool.bad \/ ~Content!Names("element", tool.held["element"]) THEN 1 ELSE 0)
  BY Zenon DEF Content!ReadsBack
<1> QED  BY <1>4, <1>6, <1>7, <1>9, <1>10, <1>11, <1>12, <1>13

-----------------------------------------------------------------------------
(* Proofs about the content: a teardown. *)

LEMMA TeardownAlone ==
  ASSUME tool'.op = "teardown", TeardownInv', SawInv', tool'.pc \notin {"refs", "execs", "put", "back"}
  PROVE  RunInv'
  BY DEF RunInv, ReadbackInv, DriftInv, DeployInv

\* The manifest's objects are those a teardown goes through.
LEMMA TeardownCovers == \A o \in Content!Objects : \E j \in 1 .. 8 : Content!Teardown[j] = o
<1>1. {1, 2, 3, 4, 5, 6, 7, 8} \subseteq 1 .. 8
  OBVIOUS
<1> QED  BY <1>1, LayerObjects DEF Content!Objects, Content!Categories, Content!Issued, Content!Carriers

LEMMA RunHolds ==
  ASSUME tool \in Run, NEW held \in [Content!Issued -> Content!Ids],
         tool' = [tool EXCEPT !.pc = "write", !.held = held]
  PROVE  /\ tool' \in Run /\ tool'.op = tool.op /\ tool'.pc = "write" /\ tool'.at = tool.at
         /\ tool'.saw = tool.saw /\ tool'.quiet = tool.quiet /\ tool'.bad = tool.bad /\ tool'.blind = tool.blind
         /\ tool'.vain = tool.vain
  BY DEF Run, Pcs

\* An object that is gone, and the ones before it: the run goes on to the next, or is done and leaves nothing.
LEMMA TeardownGoesOn ==
  ASSUME here \subseteq Content!Objects, tool \in Run, tool.op = "teardown", tool.pc # "done", TeardownInv, SawInv,
         SettingOK, running' = running, Content!Onward(tool), here' \subseteq here, Content!Target \notin here'
  PROVE  tool' \in Run /\ RunInv'
<1>1. /\ tool' \in Run /\ tool'.op = "teardown" /\ tool'.blind = tool.blind /\ tool'.vain = tool.vain
      /\ (tool'.saw => tool.saw) /\ tool'.quiet = tool.quiet
      /\ tool.at < 8 => tool'.pc = "find" /\ tool'.at = tool.at + 1 /\ tool'.bad = tool.bad
      /\ tool.at = 8 => tool'.pc = "done" /\ (tool'.exit = 0 => ~tool.bad)
  BY RunOnward
<1>2. tool.at \in 1 .. 8 /\ Content!Target = Content!Teardown[tool.at]
  BY RunFields DEF Content!Target
<1>3. SawInv' /\ tool'.pc \in {"find", "done"}
  BY <1>1, <1>2 DEF SawInv
<1>4. TeardownInv'
  <2> SUFFICES ASSUME tool.quiet, ~tool.blind, ~tool.vain
               PROVE  /\ tool'.pc # "done" /\ ~tool'.bad =>
                           \A j \in 1 .. 8 : j < tool'.at => Content!Teardown[j] \notin here'
                      /\ Done0' => here' = {}
    BY <1>1 DEF TeardownInv
  <2>1. ~tool.bad => \A j \in 1 .. 8 : j <= tool.at => Content!Teardown[j] \notin here'
    <3> SUFFICES ASSUME ~tool.bad, NEW j \in 1 .. 8, j <= tool.at
                 PROVE  Content!Teardown[j] \notin here'
      OBVIOUS
    <3>1. j < tool.at \/ j = tool.at
      BY <1>2
    <3> QED  BY <1>2, <3>1 DEF TeardownInv
  <2>2. Done0' => tool.at = 8 /\ ~tool.bad
    BY <1>1, <1>2 DEF Done0
  <2>3. Done0' => here' = {}
    BY <2>1, <2>2, TeardownCovers
  <2>4. tool'.pc # "done" /\ ~tool'.bad => \A j \in 1 .. 8 : j < tool'.at => Content!Teardown[j] \notin here'
    BY <1>1, <1>2, <2>1
  <2> QED  BY <2>3, <2>4
<1> QED  BY <1>1, <1>3, <1>4, TeardownAlone

\* A run that has noted a failure goes on, and ends with it; one that was misled goes on and promises nothing.
LEMMA TeardownNotes ==
  ASSUME tool \in Run, tool.op = "teardown", SawInv, SettingOK, running' = running,
         \/ Content!Onward([tool EXCEPT !.bad = TRUE])
         \/ Content!Onward([tool EXCEPT !.blind = TRUE])
         \/ Content!Onward([tool EXCEPT !.vain = TRUE])
  PROVE  tool' \in Run /\ RunInv'
<1>1. PICK t \in Run : /\ Content!Onward(t) /\ t.op = "teardown" /\ t.saw = tool.saw /\ t.at = tool.at
                       /\ t.bad \/ t.blind \/ t.vain
  <2>1. CASE Content!Onward([tool EXCEPT !.bad = TRUE])
    <3>1. /\ [tool EXCEPT !.bad = TRUE] \in Run /\ [tool EXCEPT !.bad = TRUE].op = "teardown"
          /\ [tool EXCEPT !.bad = TRUE].saw = tool.saw /\ [tool EXCEPT !.bad = TRUE].bad
          /\ [tool EXCEPT !.bad = TRUE].at = tool.at
      BY DEF Run
    <3> QED  BY <2>1, <3>1, Zenon
  <2>2. CASE Content!Onward([tool EXCEPT !.blind = TRUE])
    <3>1. /\ [tool EXCEPT !.blind = TRUE] \in Run /\ [tool EXCEPT !.blind = TRUE].op = "teardown"
          /\ [tool EXCEPT !.blind = TRUE].saw = tool.saw /\ [tool EXCEPT !.blind = TRUE].blind
          /\ [tool EXCEPT !.blind = TRUE].at = tool.at
      BY DEF Run
    <3> QED  BY <2>2, <3>1, Zenon
  <2>3. CASE Content!Onward([tool EXCEPT !.vain = TRUE])
    <3>1. /\ [tool EXCEPT !.vain = TRUE] \in Run /\ [tool EXCEPT !.vain = TRUE].op = "teardown"
          /\ [tool EXCEPT !.vain = TRUE].saw = tool.saw /\ [tool EXCEPT !.vain = TRUE].vain
          /\ [tool EXCEPT !.vain = TRUE].at = tool.at
      BY DEF Run
    <3> QED  BY <2>3, <3>1, Zenon
  <2> QED  BY <2>1, <2>2, <2>3
<1>2. /\ tool' \in Run /\ tool'.op = "teardown" /\ tool'.blind = t.blind /\ tool'.vain = t.vain
      /\ (tool'.saw => tool.saw)
      /\ t.at < 8 => tool'.pc = "find" /\ tool'.bad = t.bad
      /\ t.at = 8 => tool'.pc = "done" /\ (tool'.exit = 0 => ~t.bad)
  BY <1>1, RunOnward
<1>3. t.at \in 1 .. 8
  BY RunFields
<1>4. tool'.pc \in {"find", "done"} /\ SawInv'
  BY <1>2, <1>3 DEF SawInv
<1>5. TeardownInv'
  BY <1>1, <1>2, <1>3 DEF TeardownInv, Done0
<1> QED  BY <1>2, <1>4, <1>5, TeardownAlone

LEMMA ContentFindsToDelete ==
  ASSUME ContentInv, Content!FindsToDelete
  PROVE  ContentInv'
<1>1. ApplianceOK /\ SettingOK /\ tool \in Run /\ RunInv
  BY ContentParts
<1>2. ApplianceOK' /\ SettingOK' /\ UNCHANGED <<here, id, inside, text, linked, running, copy>>
  BY <1>1, ContentLooks DEF Content!FindsToDelete
<1>3. tool.op = "teardown" /\ tool.pc # "done" /\ TeardownInv /\ SawInv /\ here \subseteq Content!Objects
  BY <1>1 DEF Content!FindsToDelete, Content!In, RunInv, ApplianceOK
<1>4. CASE tool' = [tool EXCEPT !.pc = "write", !.held = Content!Holding]
  <2>1. /\ tool' \in Run /\ tool'.op = "teardown" /\ tool'.pc = "write" /\ tool'.at = tool.at
        /\ tool'.saw = tool.saw /\ tool'.quiet = tool.quiet /\ tool'.bad = tool.bad /\ tool'.blind = tool.blind
        /\ tool'.vain = tool.vain
    BY <1>1, <1>3, <1>4, RunHolds, ContentHolding
  <2>2. TeardownInv' /\ SawInv'
    BY <1>2, <1>3, <2>1 DEF TeardownInv, SawInv, Done0
  <2> QED  BY <1>2, <2>1, <2>2, TeardownAlone, ContentPartsNext
<1>5. CASE Content!Target \notin here /\ Content!Onward(tool)
  BY <1>1, <1>2, <1>3, <1>5, TeardownGoesOn, ContentPartsNext
<1>6. CASE Content!Onward([tool EXCEPT !.blind = TRUE])
  BY <1>1, <1>2, <1>3, <1>6, TeardownNotes, ContentPartsNext
<1> QED  BY <1>4, <1>5, <1>6 DEF Content!FindsToDelete

LEMMA ContentDeletes ==
  ASSUME ContentInv, Content!Deletes
  PROVE  ContentInv'
<1>1. ApplianceOK /\ SettingOK /\ tool \in Run /\ RunInv
  BY ContentParts
<1>2. /\ tool.op = "teardown" /\ tool.pc # "done" /\ TeardownInv /\ SawInv /\ here \subseteq Content!Objects
      /\ UNCHANGED <<running, copy, teardowns, others>>
  BY <1>1 DEF Content!Deletes, Content!In, Content!Else, RunInv, ApplianceOK
<1>3. SettingOK'
  <2>1. faults' \in 0 .. MaxFaults
    BY <1>1, ContentFails DEF Content!Deletes
  <2> QED  BY <1>1, <1>2, <2>1 DEF SettingOK
<1>4. CASE Content!Deletable(Content!Target) /\ Content!Removes(Content!Target) /\ Content!Onward(tool)
  <2>1. ApplianceOK' /\ here' \subseteq here /\ Content!Target \notin here'
    BY <1>1, <1>4, ContentRemoves DEF Content!Removes
  <2> QED  BY <1>1, <1>2, <1>3, <1>4, <2>1, TeardownGoesOn, ContentPartsNext
<1>5. CASE Content!Deletable(Content!Target) /\ Content!Removes(Content!Target) /\ Content!Exits(3)
  <2>1. ApplianceOK'
    BY <1>1, <1>5, ContentRemoves
  <2>2. 3 \in 1 .. 4
    OBVIOUS
  <2>3. tool' \in Run /\ RunInv'
    BY <1>1, <1>5, <2>2, ContentStopped
  <2> QED  BY <1>3, <2>1, <2>3, ContentPartsNext
<1>6. CASE /\ UNCHANGED Content!appliance
           /\ \/ Content!Onward([tool EXCEPT !.bad = TRUE])
              \/ Content!Onward([tool EXCEPT !.vain = TRUE])
  <2>1. ApplianceOK'
    BY <1>1, <1>6 DEF ApplianceOK, Content!appliance, Content!Homeless
  <2> QED  BY <1>1, <1>2, <1>3, <1>6, <2>1, TeardownNotes, ContentPartsNext
<1> QED  BY <1>4, <1>5, <1>6 DEF Content!Deletes

-----------------------------------------------------------------------------
(* Proofs about the content: the drift tool. *)

LEMMA DriftAlone ==
  ASSUME tool'.op \in {"fetch", "diff", "apply", "force"}, DriftInv', SawInv'
  PROVE  RunInv'
  BY DEF RunInv, ReadbackInv, TeardownInv, DeployInv

LEMMA LiveTypes ==
  ASSUME ApplianceOK, "workflow" \in here
  PROVE  Content!Live \in Content!Definition /\ Content!Live.carries # 0 /\ Content!Live.text # "none"
<1>1. inside["workflow"] \in Content!Ids /\ inside["workflow"] # 0 /\ text \in {"shipped", "edited"}
  BY DEF ApplianceOK, Content!Carriers
<1> QED  BY <1>1 DEF Content!Live, Content!Definition, Content!NoCopy

LEMMA RunReadsLive ==
  ASSUME tool \in Run, NEW live \in Content!Definition, tool' = [tool EXCEPT !.pc = "refs", !.live = live]
  PROVE  /\ tool' \in Run /\ tool'.op = tool.op /\ tool'.pc = "refs" /\ tool'.saw = tool.saw
         /\ tool'.quiet = tool.quiet /\ tool'.live = live
  BY DEF Run, Pcs

\* A run of the drift tool that exits 0 while it looks.
LEMMA DriftDone ==
  ASSUME SettingOK, tool \in Run, SawInv, running' = running, Content!Exits(0),
         tool.op \in {"fetch", "diff", "apply", "force"},
         tool.op = "diff" /\ tool.quiet => (Content!Live = copy)',
         tool.op \in {"apply", "force"} /\ tool.quiet => (Content!Live = copy /\ Content!WorkflowBound)'
  PROVE  tool' \in Run /\ RunInv'
<1>1. tool' \in Run /\ tool'.pc = "done" /\ Kept(tool)
  <2>1. 0 \in 0 .. 4
    OBVIOUS
  <2> QED  BY <2>1, RunExits
<1>2. DriftInv' /\ SawInv'
  BY <1>1 DEF DriftInv, SawInv, Kept
<1> QED  BY <1>1, <1>2, DriftAlone DEF Kept

LEMMA ContentReadsRunning ==
  ASSUME ContentInv, Content!ReadsRunning
  PROVE  ContentInv'
<1>1. ApplianceOK /\ SettingOK /\ tool \in Run /\ RunInv
  BY ContentParts
<1>2. /\ tool.op \in {"fetch", "diff", "apply", "force"} /\ SawInv
      /\ UNCHANGED <<here, id, inside, text, linked, running, teardowns, others, faults>>
  BY <1>1 DEF Content!ReadsRunning, Content!Drift, Content!Fine, Content!appliance, RunInv
<1>3. ApplianceOK'
  BY <1>1, <1>2 DEF ApplianceOK, Content!Homeless
<1>4. copy' = copy => SettingOK'
  BY <1>1, <1>2 DEF SettingOK
<1>5. CASE copy' = copy /\ \E code \in {2, 3} : Content!Exits(code)
  <2>1. PICK code \in {2, 3} : Content!Exits(code)
    BY <1>5
  <2>2. code \in 1 .. 4
    OBVIOUS
  <2>3. tool' \in Run /\ RunInv'
    BY <1>1, <1>2, <1>5, <2>1, <2>2, ContentStopped
  <2> QED  BY <1>3, <1>4, <1>5, <2>3, ContentPartsNext
<1>6. CASE "workflow" \in here /\ tool.op = "fetch" /\ copy' = Content!Live /\ Content!Exits(0)
  <2>1. copy' \in Content!Definition /\ copy'.carries # 0 /\ copy'.text # "none"
    BY <1>1, <1>6, LiveTypes
  <2>2. SettingOK'
    BY <1>1, <1>2, <2>1 DEF SettingOK
  <2>3. tool' \in Run /\ RunInv'
    BY <1>1, <1>2, <1>6, DriftDone
  <2> QED  BY <1>3, <2>2, <2>3, ContentPartsNext
<1>7. CASE /\ "workflow" \in here /\ tool.op = "diff" /\ copy' = copy
           /\ Content!Exits(IF copy = Content!Live THEN 0 ELSE 1)
  <2>1. CASE copy = Content!Live
    <3>1. Content!Exits(0) /\ (Content!Live = copy)'
      BY <1>2, <1>7, <2>1 DEF Content!Live
    <3>2. tool' \in Run /\ RunInv'
      BY <1>1, <1>2, <1>7, <3>1, DriftDone
    <3> QED  BY <1>3, <1>4, <1>7, <3>2, ContentPartsNext
  <2>2. CASE copy # Content!Live
    <3>1. Content!Exits(1) /\ 1 \in 1 .. 4
      BY <1>7, <2>2
    <3>2. tool' \in Run /\ RunInv'
      BY <1>1, <1>2, <1>7, <3>1, ContentStopped
    <3> QED  BY <1>3, <1>4, <1>7, <3>2, ContentPartsNext
  <2> QED  BY <2>1, <2>2
<1>8. CASE /\ "workflow" \in here /\ tool.op \in {"apply", "force"} /\ copy' = copy /\ copy # Content!NoCopy
           /\ tool' = [tool EXCEPT !.pc = "refs", !.live = Content!Live]
  <2>1. /\ tool' \in Run /\ tool'.op = tool.op /\ tool'.pc = "refs" /\ tool'.saw = tool.saw
        /\ tool'.quiet = tool.quiet /\ tool'.live = Content!Live
    BY <1>1, <1>8, LiveTypes, RunReadsLive
  <2>2. DriftInv' /\ SawInv'
    BY <1>2, <1>8, <2>1 DEF DriftInv, SawInv, Done0, Content!Live
  <2> QED  BY <1>2, <1>3, <1>4, <1>8, <2>1, <2>2, DriftAlone, ContentPartsNext
<1> QED  BY <1>5, <1>6, <1>7, <1>8 DEF Content!ReadsRunning

LEMMA ContentChecksReferences ==
  ASSUME ContentInv, Content!ChecksReferences
  PROVE  ContentInv'
<1>1. ApplianceOK /\ SettingOK /\ tool \in Run /\ RunInv
  BY ContentParts
<1>2. ApplianceOK' /\ SettingOK' /\ UNCHANGED <<here, id, inside, text, linked, running, copy>>
  BY <1>1, ContentLooks DEF Content!ChecksReferences
<1>3. tool.op \in {"apply", "force"} /\ tool.pc = "refs" /\ copy # Content!NoCopy /\ DriftInv /\ SawInv
  BY <1>1 DEF Content!ChecksReferences, RunInv, DriftInv
<1>4. CASE Content!Names("element", copy.carries) /\ Content!Goes("execs")
  <2>1. tool' \in Run /\ tool'.pc = "execs" /\ Same
    BY <1>1, <1>4, RunGoes DEF Pcs
  <2>2. DriftInv' /\ SawInv'
    BY <1>2, <1>3, <1>4, <2>1 DEF DriftInv, SawInv, Same, Done0, Content!Live, Content!Names
  <2> QED  BY <1>2, <1>3, <2>1, <2>2, DriftAlone, ContentPartsNext DEF Same
<1>5. CASE Content!Exits(4)
  <2>1. 4 \in 1 .. 4
    OBVIOUS
  <2>2. tool' \in Run /\ RunInv'
    BY <1>1, <1>2, <1>5, <2>1, ContentStopped
  <2> QED  BY <1>2, <2>2, ContentPartsNext
<1> QED  BY <1>4, <1>5 DEF Content!ChecksReferences

\* An apply goes on to the write only when no execution is there to be seen.
LEMMA ContentChecksExecutions ==
  ASSUME ContentInv, Content!ChecksExecutions
  PROVE  ContentInv'
<1>1. ApplianceOK /\ SettingOK /\ tool \in Run /\ RunInv
  BY ContentParts
<1>2. ApplianceOK' /\ SettingOK' /\ UNCHANGED <<here, id, inside, text, linked, running, copy>>
  BY <1>1, ContentLooks DEF Content!ChecksExecutions
<1>3. tool.op \in {"apply", "force"} /\ tool.pc = "execs" /\ copy # Content!NoCopy /\ DriftInv /\ SawInv
  BY <1>1 DEF Content!ChecksExecutions, RunInv, DriftInv
<1>4. CASE tool.live = copy /\ Content!Exits(0)
  <2>1. tool.quiet => Content!Live = copy /\ "workflow" \in here /\ Content!Names("element", copy.carries)
    BY <1>3, <1>4 DEF DriftInv
  <2>2. tool.quiet => (Content!Live = copy /\ Content!WorkflowBound)'
    <3>1. Content!Live.carries = inside["workflow"]
      BY DEF Content!Live
    <3> QED  BY <1>2, <2>1, <3>1 DEF Content!Live, Content!WorkflowBound, Content!Names
  <2>3. tool' \in Run /\ RunInv'
    BY <1>1, <1>2, <1>3, <1>4, <2>2, DriftDone
  <2> QED  BY <1>2, <2>3, ContentPartsNext
<1>5. CASE Content!Exits(4)
  <2>1. 4 \in 1 .. 4
    OBVIOUS
  <2>2. tool' \in Run /\ RunInv'
    BY <1>1, <1>2, <1>5, <2>1, ContentStopped
  <2> QED  BY <1>2, <2>2, ContentPartsNext
<1>6. CASE (tool.op = "apply" => ~running) /\ Content!Goes("put")
  <2>1. tool' \in Run /\ tool'.pc = "put" /\ Same
    BY <1>1, <1>6, RunGoes DEF Pcs
  <2>2. DriftInv' /\ SawInv'
    BY <1>2, <1>3, <1>6, <2>1 DEF DriftInv, SawInv, Same, Done0, Content!Names
  <2> QED  BY <1>2, <1>3, <2>1, <2>2, DriftAlone, ContentPartsNext DEF Same
<1>7. \/ tool.live = copy /\ Content!Exits(0)
      \/ Content!Exits(4)
      \/ (tool.op = "apply" => ~running) /\ Content!Goes("put")
  BY DEF Content!ChecksExecutions
<1> QED  BY <1>4, <1>5, <1>6, <1>7

LEMMA ContentSends ==
  ASSUME ContentInv, Content!Sends
  PROVE  ContentInv'
<1>1. ApplianceOK /\ SettingOK /\ tool \in Run /\ RunInv
  BY ContentParts
<1>2. /\ tool.op \in {"apply", "force"} /\ tool.pc = "put" /\ copy # Content!NoCopy /\ DriftInv /\ SawInv
      /\ UNCHANGED <<here, id, linked, running, copy, teardowns, others>>
  BY <1>1 DEF Content!Sends, Content!Else, RunInv, DriftInv
<1>3. SettingOK'
  <2>1. faults' \in 0 .. MaxFaults
    BY <1>1, ContentFails DEF Content!Sends
  <2> QED  BY <1>1, <1>2, <2>1 DEF SettingOK
<1>4. ApplianceOK'
  <2>1. CASE inside' = [inside EXCEPT !["workflow"] = copy.carries] /\ text' = copy.text
    <3>1. copy.carries \in Content!Ids /\ copy.carries # 0 /\ copy.text \in {"shipped", "edited"}
      BY <1>1, <1>2 DEF SettingOK, Content!Definition
    <3>2. /\ inside' \in [Content!Carriers -> Content!Ids]
          /\ \A o \in Content!Carriers : o \in here => inside'[o] # 0
      BY <1>1, <2>1, <3>1 DEF ApplianceOK
    <3> QED  BY <1>1, <1>2, <2>1, <3>1, <3>2 DEF ApplianceOK, Content!Homeless
  <2>2. CASE UNCHANGED <<inside, text>>
    BY <1>1, <1>2, <2>2 DEF ApplianceOK, Content!Homeless
  <2> QED  BY <2>1, <2>2 DEF Content!Sends
<1>5. CASE Content!Goes("back")
  <2>1. tool' \in Run /\ tool'.pc = "back" /\ Same
    BY <1>1, <1>5, RunGoes DEF Pcs
  <2>2. DriftInv' /\ SawInv'
    BY <1>2, <2>1 DEF DriftInv, SawInv, Same, Done0, Content!Names
  <2> QED  BY <1>2, <1>3, <1>4, <2>1, <2>2, DriftAlone, ContentPartsNext DEF Same
<1>6. CASE Content!Exits(3)
  <2>1. 3 \in 1 .. 4
    OBVIOUS
  <2>2. tool' \in Run /\ RunInv'
    BY <1>1, <1>6, <2>1, ContentStopped
  <2> QED  BY <1>3, <1>4, <2>2, ContentPartsNext
<1> QED  BY <1>5, <1>6 DEF Content!Sends

LEMMA ContentReadsSent ==
  ASSUME ContentInv, Content!ReadsSent
  PROVE  ContentInv'
<1>1. ApplianceOK /\ SettingOK /\ tool \in Run /\ RunInv
  BY ContentParts
<1>2. ApplianceOK' /\ SettingOK' /\ UNCHANGED <<here, id, inside, text, linked, running, copy>>
  BY <1>1, ContentLooks DEF Content!ReadsSent
<1>3. tool.op \in {"apply", "force"} /\ tool.pc = "back" /\ DriftInv /\ SawInv
  BY <1>1 DEF Content!ReadsSent, RunInv, DriftInv
<1>4. CASE "workflow" \in here /\ Content!Live = copy /\ Content!Exits(0)
  <2>1. tool.quiet => Content!Names("element", copy.carries)
    BY <1>3 DEF DriftInv
  <2>2. tool.quiet => (Content!Live = copy /\ Content!WorkflowBound)'
    <3>1. Content!Live.carries = inside["workflow"]
      BY DEF Content!Live
    <3> QED  BY <1>2, <1>4, <2>1, <3>1 DEF Content!Live, Content!WorkflowBound, Content!Names
  <2>3. tool' \in Run /\ RunInv'
    BY <1>1, <1>2, <1>3, <1>4, <2>2, DriftDone
  <2> QED  BY <1>2, <2>3, ContentPartsNext
<1>5. CASE Content!Exits(3)
  <2>1. 3 \in 1 .. 4
    OBVIOUS
  <2>2. tool' \in Run /\ RunInv'
    BY <1>1, <1>2, <1>5, <2>1, ContentStopped
  <2> QED  BY <1>2, <2>2, ContentPartsNext
<1> QED  BY <1>4, <1>5 DEF Content!ReadsSent

-----------------------------------------------------------------------------
(* Both. *)

LEMMA ContentNext ==
  ASSUME ContentInv, Content!Next
  PROVE  ContentInv'
  BY ContentOthersAct, ContentExecutes, ContentStarts, ContentStops, ContentFinds, ContentWrites, ContentLinks,
     ContentReadsBack, ContentFindsToDelete, ContentDeletes, ContentReadsRunning, ContentChecksReferences,
     ContentChecksExecutions, ContentSends, ContentReadsSent
     DEF Content!Next, Content!Step

LEMMA ContentRests ==
  ASSUME ContentInv, UNCHANGED content
  PROVE  ContentInv'
<1>1. UNCHANGED <<here, id, inside, text, linked, running, copy, tool, teardowns, others, faults>>
  BY DEF content
<1>2. Content!TypeOK'
  BY <1>1 DEF ContentInv, Content!TypeOK, Content!Homeless
<1>3. DeployInv' /\ TeardownInv' /\ SawInv'
  BY <1>1 DEF ContentInv, DeployInv, TeardownInv, SawInv, Past, Done0, Content!Names, Content!ActionBound,
              Content!WorkflowBound
<1>4. ReadbackInv' /\ DriftInv'
  BY <1>1 DEF ContentInv, ReadbackInv, DriftInv, Done0, Content!ActionBound, Content!WorkflowBound, Content!Names,
              Content!Live
<1> QED  BY <1>1, <1>2, <1>3, <1>4 DEF ContentInv

\* What the invariant says of a run that is done.
LEMMA ContentTells ==
  ASSUME ContentInv
  PROVE  Content!TypeOK /\ Content!ExitZeroIsTrue
<1>1. Content!TypeOK /\ DeployInv /\ ReadbackInv /\ DriftInv /\ TeardownInv
  BY DEF ContentInv
<1>2. Content!ExitZeroIsTrue
  BY <1>1 DEF Content!ExitZeroIsTrue, Content!Done, Done0, DeployInv, ReadbackInv, DriftInv, TeardownInv
<1> QED  BY <1>1, <1>2

-----------------------------------------------------------------------------
(* What holds of the tools, whichever of them runs. *)

DeploysInv == GateInv /\ ContentInv

\* Both invariants hold in every state the tools can get into.
THEOREM DeploysAlways == Spec => []DeploysInv
<1>1. Init => DeploysInv
  BY GateInit, ContentInit DEF Init, DeploysInv
<1>2. DeploysInv /\ [Next]_vars => DeploysInv'
  <2> SUFFICES ASSUME DeploysInv, [Next]_vars
               PROVE  DeploysInv'
    OBVIOUS
  <2>1. (Gate!Next \/ UNCHANGED gate) /\ (Content!Next \/ UNCHANGED content)
    BY DEF Next, vars
  <2> QED  BY <2>1, GateNext, GateRests, ContentNext, ContentRests DEF DeploysInv
<1> QED  BY <1>1, <1>2, PTL DEF Spec

\* Type correctness of the two tools and of what they work on.
THEOREM DeploysTypes == Spec => []TypeOK
<1>1. DeploysInv => TypeOK
  BY GateTells, ContentTells DEF DeploysInv, TypeOK
<1> QED  BY <1>1, DeploysAlways, PTL

\* Exit 0 of an apply or a removal of the gate (deploy_gate.py), and of a deploy, readback, teardown, diff or apply of
\* the content (deploy.py, reconcile.py), says what is so, for any number of runs, failures and acts of others.  What
\* deploy.py judges by the answer alone is excepted: a deploy one of whose writes, or a teardown one of whose deletes,
\* was accepted without effect, and the environment of an action that reports it by name.
THEOREM ExitZeroAlwaysTrue == Spec => []ExitZeroIsTrue
<1>1. DeploysInv => ExitZeroIsTrue
  BY GateTells, ContentTells DEF DeploysInv, ExitZeroIsTrue
<1> QED  BY <1>1, DeploysAlways, PTL

\* reconcile.py apply never replaces the definition of an execution that was going when the run began, whatever
\* executions start and end, people do and calls fail meanwhile.
THEOREM RunningAlwaysSpared == Spec => RunningIsSpared
<1>1. DeploysInv => (Content!In("apply", "put") /\ tool.saw => Content!Live' = Content!Live)
  BY DEF DeploysInv, ContentInv, SawInv, Content!In
<1>2. Spec => [][Content!In("apply", "put") /\ tool.saw => Content!Live' = Content!Live]_Content!vars
  BY <1>1, DeploysAlways, PTL
<1> QED  BY <1>2 DEF RunningIsSpared, Content!RunningIsSpared

-----------------------------------------------------------------------------
(* The gate: deletes, runs and the registry (PreDeleteGate), for any number of machines, workflow runs and failures
   and any deadline. *)

RunType ==
  [pc : {"idle", "plan", "call", "sleep"}, event : {"none", "create", "delete", "unreadable"},
   resource : Resources \cup {NoResource}, current : BOOLEAN, left : Int, attempts : Nat]

RunOK(k) ==
  /\ k \in RunType
  /\ k.pc # "idle" => k.resource \in Resources
  /\ k.pc \in {"call", "sleep"} => k.event = "delete"

\* A run that counts for the held request q carries that request's event; a delete was asked for (a).
RunFits(k, q, a) ==
  /\ k.current /\ k.pc # "idle" => q # "none" /\ k.event \in {q, "unreadable"}
  /\ k.event = "delete" => a

RunsFit == run \in [Runs -> RunType] /\ \A x \in Runs : RunOK(run[x]) /\ RunFits(run[x], request, asked)

PlatformType ==
  /\ deployment \in {"absent", "present", "removed"} /\ request \in {"none", "create", "delete"}
  /\ cleared \subseteq Resources /\ registry \subseteq Resources
  /\ asked \in BOOLEAN /\ failures \in Nat

\* A request is held for a deployment it makes sense for, and what it has cleared is unregistered.
RequestFits ==
  /\ request = "none" => cleared = {}
  /\ request = "create" => deployment = "absent"
  /\ request = "delete" => deployment = "present" /\ asked /\ cleared \cap registry = {}

DeleteInv == PlatformType /\ RunsFit /\ RequestFits /\ RemovedIsUnregistered /\ UnaskedIsKept

\* The invariant gives the module's type invariant.
LEMMA DeleteInvTypes == DeleteInv => DeleteTypeOK
  BY DEF DeleteInv, PlatformType, RunsFit, RunOK, RunType, DeleteTypeOK

\* A run that is not going fits every request.
LEMMA AsleepFits ==
  ASSUME NEW q, NEW a
  PROVE  RunOK(Asleep) /\ RunFits(Asleep, q, a)
<1>1. Asleep \in RunType
  BY DEF Asleep, RunType
<1> QED BY <1>1 DEF Asleep, RunOK, RunFits

\* The end of a request leaves no run that counts, and what does not count fits any request.
LEMMA Uncounted ==
  ASSUME NEW k, NEW q, NEW p, NEW a, RunOK(k), RunFits(k, p, a)
  PROVE  RunOK([k EXCEPT !.current = FALSE]) /\ RunFits([k EXCEPT !.current = FALSE], q, a)
<1>1. [k EXCEPT !.current = FALSE] \in RunType
  BY DEF RunOK, RunType
<1> QED BY <1>1 DEF RunOK, RunFits, RunType

\* One run changes and the request does not.
LEMMA OneRun ==
  ASSUME RunsFit, NEW x \in Runs, NEW k, run' = [run EXCEPT ![x] = k],
         RunOK(k), RunFits(k, request, asked), UNCHANGED <<request, asked>>
  PROVE  RunsFit'
  BY DEF RunsFit, RunOK

\* Every run stops counting, whatever the request becomes; one may fall asleep.
LEMMA AllUncounted ==
  ASSUME RunsFit, UNCHANGED asked,
         run' \in [Runs -> RunType],
         \A y \in Runs : run'[y] \in {Asleep, [run[y] EXCEPT !.current = FALSE]}
  PROVE  RunsFit'
<1>1. ASSUME NEW y \in Runs PROVE RunOK(run'[y]) /\ RunFits(run'[y], request', asked')
  <2>1. RunOK(run[y]) /\ RunFits(run[y], request, asked)
    BY DEF RunsFit
  <2>2. CASE run'[y] = Asleep
    BY <2>2, AsleepFits
  <2>3. CASE run'[y] = [run[y] EXCEPT !.current = FALSE]
    <3>1. RunOK([run[y] EXCEPT !.current = FALSE]) /\ RunFits([run[y] EXCEPT !.current = FALSE], request', asked)
      BY <2>1, Uncounted
    <3> QED BY <2>3, <3>1
  <2> QED BY <2>2, <2>3
<1> QED BY <1>1 DEF RunsFit

\* At the start nothing is registered, requested or running.
LEMMA DeleteStarts == DeleteInit => DeleteInv
<1> SUFFICES ASSUME DeleteInit PROVE DeleteInv
  OBVIOUS
<1>1. Asleep \in RunType
  BY DEF Asleep, RunType
<1>2. RunsFit
  BY <1>1, AsleepFits DEF DeleteInit, RunsFit
<1>3. PlatformType
  BY DEF DeleteInit, PlatformType
<1>4. RequestFits /\ RemovedIsUnregistered /\ UnaskedIsKept
  BY DEF DeleteInit, RequestFits, RemovedIsUnregistered, UnaskedIsKept
<1> QED BY <1>2, <1>3, <1>4 DEF DeleteInv

\* A run that returns, after a create or with its machine's record gone, keeps the invariant.
LEMMA ReturnsKeeps ==
  ASSUME DeleteInv, NEW x \in Runs, Returns(x), run[x].pc # "idle", UNCHANGED <<deployment, asked>>,
         \/ run[x].event = "create" /\ UNCHANGED <<registry, failures>>
         \/ run[x].event = "delete" /\ registry' = registry \ {run[x].resource} /\ UNCHANGED failures
  PROVE  DeleteInv'
<1>1. /\ RunOK(run[x]) /\ RunFits(run[x], request, asked) /\ run[x].resource \in Resources
      /\ UNCHANGED request /\ run' = [run EXCEPT ![x] = Asleep]
      /\ cleared' = IF run[x].current THEN cleared \cup {run[x].resource} ELSE cleared
  BY DEF DeleteInv, RunsFit, RunOK, Returns
<1>2. RunsFit'
  BY <1>1, AsleepFits, OneRun DEF DeleteInv
<1>3. PlatformType'
  BY <1>1 DEF DeleteInv, PlatformType
<1>4. RequestFits'
  BY <1>1 DEF DeleteInv, RequestFits, RunFits, PlatformType
<1>5. RemovedIsUnregistered' /\ UnaskedIsKept'
  BY <1>1 DEF DeleteInv, RemovedIsUnregistered, UnaskedIsKept, RunFits, PlatformType
<1> QED BY <1>2, <1>3, <1>4, <1>5 DEF DeleteInv

\* A run that raises refuses the request it counts for and keeps the invariant.
LEMMA RaisesKeeps ==
  ASSUME DeleteInv, NEW x \in Runs, Raises(x), UNCHANGED <<deployment, asked, registry>>, failures' \in Nat
  PROVE  DeleteInv'
<1>1. RunsFit /\ PlatformType
  BY DEF DeleteInv
<1>2. CASE run[x].current
  <2>1. \A y \in Runs : run'[y] \in {Asleep, [run[y] EXCEPT !.current = FALSE]}
    BY <1>2 DEF Raises
  <2>2. run' \in [Runs -> RunType]
    <3>1. Asleep \in RunType /\ \A y \in Runs : [run[y] EXCEPT !.current = FALSE] \in RunType
      <4>1. \A k \in RunType : [k EXCEPT !.current = FALSE] \in RunType
        BY DEF RunType
      <4>2. Asleep \in RunType
        BY DEF Asleep, RunType
      <4> QED BY <1>1, <4>1, <4>2 DEF RunsFit
    <3> QED BY <1>2, <3>1 DEF Raises
  <2>3. RunsFit'
    BY <1>1, <2>1, <2>2, AllUncounted
  <2>4. request' = "none" /\ cleared' = {}
    BY <1>2 DEF Raises
  <2>5. PlatformType' /\ RequestFits'
    BY <1>1, <2>4 DEF PlatformType, RequestFits
  <2>6. RemovedIsUnregistered' /\ UnaskedIsKept'
    BY DEF DeleteInv, RemovedIsUnregistered, UnaskedIsKept
  <2> QED BY <2>3, <2>5, <2>6 DEF DeleteInv
<1>3. CASE ~run[x].current
  <2>1. run' = [run EXCEPT ![x] = Asleep] /\ UNCHANGED <<request, cleared>>
    BY <1>3 DEF Raises
  <2>2. RunsFit'
    BY <1>1, <2>1, AsleepFits, OneRun
  <2> QED BY <1>1, <2>1, <2>2 DEF DeleteInv, PlatformType, RequestFits, RemovedIsUnregistered, UnaskedIsKept
<1> QED BY <1>2, <1>3

\* A run that goes on, or that begins: the request stays, and records only go for a delete that was asked for.
LEMMA RunChangeKeeps ==
  ASSUME DeleteInv, NEW x \in Runs, NEW k, run' = [run EXCEPT ![x] = k],
         RunOK(k), RunFits(k, request, asked), UNCHANGED <<deployment, request, cleared, asked>>,
         registry' \subseteq registry, failures' \in Nat, registry' # registry => asked
  PROVE  DeleteInv'
<1>1. RunsFit'
  BY OneRun DEF DeleteInv
<1> QED BY <1>1 DEF DeleteInv, PlatformType, RequestFits, RemovedIsUnregistered, UnaskedIsKept

\* A run that begins fits, when it does not count or carries the held request's event.
LEMMA BegunFits ==
  ASSUME NEW e \in {"create", "delete", "unreadable"}, NEW r \in Resources, NEW c \in BOOLEAN, NEW q, NEW a,
         c => q # "none" /\ e \in {q, "unreadable"}, e = "delete" => a,
         NEW k, k = [pc |-> "plan", event |-> e, resource |-> r, current |-> c, left |-> 0, attempts |-> 0]
  PROVE  RunOK(k) /\ RunFits(k, q, a)
<1>1. k \in RunType
  BY DEF RunType
<1> QED BY <1>1 DEF RunOK, RunFits

\* A run of a delete that goes on still fits.
LEMMA GoingOnFits ==
  ASSUME NEW q, NEW a, NEW h \in RunType, RunOK(h), RunFits(h, q, a), h.event = "delete", h.pc # "idle",
         NEW pc \in {"call", "sleep"}, NEW l \in Int, NEW n \in Nat
  PROVE  LET k == [h EXCEPT !.pc = pc, !.left = l, !.attempts = n] IN RunOK(k) /\ RunFits(k, q, a)
<1> DEFINE k == [h EXCEPT !.pc = pc, !.left = l, !.attempts = n]
<1>1. k \in RunType
  BY DEF RunType
<1>2. k.pc = pc /\ k.event = h.event /\ k.resource = h.resource /\ k.current = h.current
  BY DEF RunType
<1> QED BY <1>1, <1>2 DEF RunOK, RunFits

\* The delivery of an event, first, again, late or unreadable, keeps the invariant.
LEMMA DeliveryKeeps ==
  ASSUME DeleteInv, NEW x \in Runs, NEW r \in Resources,
         Delivers(x, r) \/ DeliversLate(x, r) \/ DeliversUnreadable(x, r)
  PROVE  DeleteInv'
<1>1. PlatformType /\ RequestFits
  BY DEF DeleteInv
<1>2. CASE Delivers(x, r)
  <2>1. request \in {"create", "delete"} /\ (request = "delete" => asked)
    BY <1>1, <1>2 DEF Delivers, PlatformType, RequestFits
  <2>2. PICK k : /\ run' = [run EXCEPT ![x] = k]
                 /\ k = [pc |-> "plan", event |-> request, resource |-> r, current |-> TRUE, left |-> 0, attempts |-> 0]
    BY <1>2 DEF Delivers, Begun
  <2>3. RunOK(k) /\ RunFits(k, request, asked)
    BY <2>1, <2>2, BegunFits
  <2> QED BY <1>1, <1>2, <2>2, <2>3, RunChangeKeeps DEF Delivers, PlatformType
<1>3. CASE DeliversLate(x, r)
  <2>1. PICK k : /\ run' = [run EXCEPT ![x] = k]
                 /\ k = [pc |-> "plan", event |-> "delete", resource |-> r, current |-> FALSE, left |-> 0, attempts |-> 0]
    BY <1>3 DEF DeliversLate, Begun
  <2>2. RunOK(k) /\ RunFits(k, request, asked)
    BY <1>3, <2>1, BegunFits DEF DeliversLate
  <2> QED BY <1>1, <1>3, <2>1, <2>2, RunChangeKeeps DEF DeliversLate, PlatformType
<1>4. CASE DeliversUnreadable(x, r)
  <2>1. PICK k : /\ run' = [run EXCEPT ![x] = k]
                 /\ k = [pc |-> "plan", event |-> "unreadable", resource |-> r, current |-> TRUE, left |-> 0, attempts |-> 0]
    BY <1>4 DEF DeliversUnreadable, Begun
  <2>2. RunOK(k) /\ RunFits(k, request, asked)
    BY <1>4, <2>1, BegunFits DEF DeliversUnreadable
  <2>3. failures' \in Nat
    BY <1>1, <1>4 DEF DeliversUnreadable, PlatformType
  <2> QED BY <1>1, <1>4, <2>1, <2>2, <2>3, RunChangeKeeps DEF DeliversUnreadable, PlatformType
<1> QED BY <1>2, <1>3, <1>4

\* Every step of a run of the gate keeps the invariant.
LEMMA RunStepKeeps ==
  ASSUME DeleteInv, NEW x \in Runs, RunStep(x)
  PROVE  DeleteInv'
<1>1. PlatformType /\ RunOK(run[x]) /\ RunFits(run[x], request, asked) /\ run[x] \in RunType
  BY DEF DeleteInv, RunsFit
<1>2. run[x].left \in Int /\ run[x].attempts \in Nat
  BY <1>1 DEF RunType
<1>3. \A pc \in {"call", "sleep"}, l \in Int, n \in Nat :
        run[x].event = "delete" /\ run[x].pc # "idle" =>
          LET k == [run[x] EXCEPT !.pc = pc, !.left = l, !.attempts = n]
          IN  RunOK(k) /\ RunFits(k, request, asked)
  BY <1>1, GoingOnFits
<1>4. CASE Plans(x)
  <2>1. CASE run[x].event = "create" /\ Returns(x)
    BY <1>4, <2>1, ReturnsKeeps DEF Plans
  <2>2. CASE Raises(x)
    BY <1>1, <1>4, <2>2, RaisesKeeps DEF Plans, PlatformType
  <2>3. CASE /\ run[x].event = "delete" /\ run' = [run EXCEPT ![x].pc = "call", ![x].left = Deadline]
             /\ UNCHANGED <<request, cleared>>
    <3>1. PICK k : k = [run[x] EXCEPT !.pc = "call", !.left = Deadline, !.attempts = run[x].attempts]
      OBVIOUS
    <3>2. k = [run[x] EXCEPT !.pc = "call", !.left = Deadline]
      BY <1>1, <3>1 DEF RunType
    <3>3. RunOK(k) /\ RunFits(k, request, asked)
      <4>1. Deadline \in Int /\ run[x].pc # "idle"
        BY <1>4, GateAssumption DEF Plans
      <4> QED BY <1>2, <1>3, <2>3, <3>1, <4>1
    <3>4. run' = [run EXCEPT ![x] = k]
      BY <2>3, <3>2
    <3> QED BY <1>1, <1>4, <2>3, <3>3, <3>4, RunChangeKeeps DEF Plans, PlatformType
  <2> QED BY <1>4, <2>1, <2>2, <2>3 DEF Plans
<1>5. CASE CallIsDone(x)
  BY <1>1, <1>5, ReturnsKeeps DEF CallIsDone, RunOK
<1>6. CASE CallFails(x)
  <2>1. PICK cost \in Costs(x) :
          run' = [run EXCEPT ![x].pc = "sleep", ![x].left = @ - cost, ![x].attempts = @ + 1]
    BY <1>6 DEF CallFails
  <2>2. cost \in Int
    BY <2>1 DEF Costs
  <2>3. PICK k : k = [run[x] EXCEPT !.pc = "sleep", !.left = run[x].left - cost, !.attempts = run[x].attempts + 1]
    OBVIOUS
  <2>4. run[x].event = "delete" /\ run[x].pc # "idle"
    BY <1>1, <1>6 DEF CallFails, RunOK
  <2>5. RunOK(k) /\ RunFits(k, request, asked) /\ asked
    <3>1. run[x].left - cost \in Int /\ run[x].attempts + 1 \in Nat
      BY <1>2, <2>2
    <3>2. asked
      BY <1>1, <2>4 DEF RunFits
    <3> QED BY <1>3, <2>3, <2>4, <3>1, <3>2
  <2>6. run' = [run EXCEPT ![x] = k]
    BY <2>1, <2>3
  <2>7. registry' \subseteq registry /\ failures' \in Nat
    BY <1>1, <1>6 DEF CallFails, PlatformType
  <2> QED BY <1>6, <2>5, <2>6, <2>7, RunChangeKeeps DEF CallFails
<1>7. CASE CallIsRefused(x) \/ GivesUp(x)
  BY <1>1, <1>7, RaisesKeeps DEF CallIsRefused, GivesUp, PlatformType
<1>8. CASE Sleeps(x)
  <2>1. PICK l : l = IF run[x].left > 0 THEN run[x].left - Lesser(Backoff * run[x].attempts, run[x].left)
                     ELSE run[x].left
    OBVIOUS
  <2>2. l \in Int
    <3>1. Backoff * run[x].attempts \in Int
      BY <1>2, GateAssumption
    <3> QED BY <1>2, <2>1, <3>1 DEF Lesser
  <2>3. PICK k : k = [run[x] EXCEPT !.pc = "call", !.left = l, !.attempts = run[x].attempts]
    OBVIOUS
  <2>4. k = [run[x] EXCEPT !.pc = "call", !.left = l]
    BY <1>1, <2>3 DEF RunType
  <2>5. run[x].event = "delete" /\ run[x].pc # "idle"
    BY <1>1, <1>8 DEF Sleeps, RunOK
  <2>6. RunOK(k) /\ RunFits(k, request, asked)
    BY <1>2, <1>3, <2>2, <2>3, <2>5
  <2>7. run' = [run EXCEPT ![x] = k]
    BY <1>8, <2>1, <2>4 DEF Sleeps
  <2> QED BY <1>1, <1>8, <2>6, <2>7, RunChangeKeeps DEF Sleeps, PlatformType
<1> QED BY <1>4, <1>5, <1>6, <1>7, <1>8 DEF RunStep

\* The completion of a request that every machine was cleared for keeps the invariant.
LEMMA CompletesKeeps ==
  ASSUME DeleteInv, Completes
  PROVE  DeleteInv'
<1>1. RunsFit /\ PlatformType /\ RequestFits
  BY DEF DeleteInv
<1>2. RunsFit'
  <2>1. \A y \in Runs : [run[y] EXCEPT !.current = FALSE] \in RunType
    BY <1>1 DEF RunsFit, RunType
  <2>2. run' \in [Runs -> RunType] /\ \A y \in Runs : run'[y] \in {Asleep, [run[y] EXCEPT !.current = FALSE]}
    BY <2>1 DEF Completes
  <2> QED BY <1>1, <2>2, AllUncounted DEF Completes
<1>3. PlatformType' /\ RequestFits'
  BY <1>1 DEF Completes, PlatformType, RequestFits
<1>4. RemovedIsUnregistered' /\ UnaskedIsKept'
  BY <1>1 DEF Completes, PlatformType, RequestFits, RemovedIsUnregistered, UnaskedIsKept
<1> QED BY <1>2, <1>3, <1>4 DEF DeleteInv

\* A new request on the deployment keeps the invariant.
LEMMA AsksKeeps ==
  ASSUME DeleteInv, NEW kind \in {"create", "delete"}, Asks(kind)
  PROVE  DeleteInv'
<1>1. RunsFit /\ PlatformType /\ RequestFits
  BY DEF DeleteInv
<1>2. RunsFit'
  BY <1>1 DEF Asks, RunsFit, RunFits, PlatformType
<1>3. PlatformType' /\ RequestFits'
  BY <1>1 DEF Asks, PlatformType, RequestFits
<1>4. RemovedIsUnregistered' /\ UnaskedIsKept'
  BY <1>1 DEF DeleteInv, Asks, PlatformType, RemovedIsUnregistered, UnaskedIsKept
<1> QED BY <1>2, <1>3, <1>4 DEF DeleteInv

\* The invariant is inductive.
LEMMA DeleteSteps == DeleteInv /\ [DeleteNext]_deleteVars => DeleteInv'
<1>1. ASSUME DeleteInv, UNCHANGED deleteVars PROVE DeleteInv'
  BY <1>1 DEF deleteVars, DeleteInv, RunsFit, PlatformType, RequestFits, RemovedIsUnregistered, UnaskedIsKept
<1> QED BY <1>1, AsksKeeps, DeliveryKeeps, RunStepKeeps, CompletesKeeps DEF DeleteNext

\* The invariant holds throughout.
LEMMA DeleteAlways == DeleteSpec => []DeleteInv
  BY DeleteStarts, DeleteSteps, PTL DEF DeleteSpec

\* The types hold for any number of machines and runs; in particular a run calls the registry for a delete only.
THEOREM DeleteTypes == DeleteSpec => []DeleteTypeOK
  BY DeleteAlways, DeleteInvTypes, PTL

\* Fail closed, for any number of machines, runs, failures and repeated deliveries: a machine that is gone has no record left.
THEOREM FailsClosed == DeleteSpec => []RemovedIsUnregistered
<1>1. DeleteInv => RemovedIsUnregistered
  BY DEF DeleteInv
<1> QED BY <1>1, DeleteAlways, PTL

\* Act only on deletes: until somebody asks for a delete, every record stays.
THEOREM ActsOnlyOnDeletes == DeleteSpec => []UnaskedIsKept
<1>1. DeleteInv => UnaskedIsKept
  BY DEF DeleteInv
<1> QED BY <1>1, DeleteAlways, PTL

-----------------------------------------------------------------------------
(* The deadline. *)

Bound == -((Operations - 1) * PerCall)

\* A call whose time-out is the lesser of what is left and PER_CALL_SECONDS, on each of its operations,
\* takes a run past its deadline by at most what all but one of the operations can take.
LEMMA CallOverrun ==
  ASSUME NEW left \in Nat, NEW cost \in 0 .. Operations * Lesser(left, PerCall)
  PROVE  left - cost >= Bound /\ Bound <= 0 /\ Bound \in Int
<1> DEFINE n == Operations - 1
           t == Lesser(left, PerCall)
<1>1. n \in Nat /\ PerCall \in Nat /\ t \in Nat /\ t <= left /\ t <= PerCall
  BY GateAssumption DEF Lesser
<1>2. \A a, b, c \in Nat : b <= c => a * b <= a * c
  <2>1. \A a, b, d \in Nat : a * (b + d) = a * b + a * d /\ a * d \in Nat /\ a * b \in Nat
    OBVIOUS
  <2> SUFFICES ASSUME NEW a \in Nat, NEW b \in Nat, NEW c \in Nat, b <= c PROVE a * b <= a * c
    OBVIOUS
  <2>2. c - b \in Nat /\ b + (c - b) = c
    OBVIOUS
  <2>3. a * (b + (c - b)) = a * b + a * (c - b) /\ a * (c - b) \in Nat /\ a * b \in Nat
    BY <2>1, <2>2
  <2>4. a * c = a * b + a * (c - b)
    BY <2>2, <2>3
  <2> QED BY <2>3, <2>4
<1>3. n * t <= n * PerCall
  BY <1>1, <1>2
<1>4. Operations * t = n * t + t
  <2>1. \A a, b \in Nat : (a + 1) * b = a * b + b
    OBVIOUS
  <2>2. Operations = n + 1
    BY GateAssumption
  <2> HIDE DEF n, t
  <2> QED BY <1>1, <2>1, <2>2
<1>5. n * t \in Nat /\ n * PerCall \in Nat
  BY <1>1
<1> HIDE DEF n, t
<1>6. cost \in Int /\ cost <= n * t + t
  BY <1>1, <1>4, <1>5 DEF t
<1>7. Bound = -(n * PerCall)
  BY DEF Bound, n
<1> QED BY <1>1, <1>3, <1>5, <1>6, <1>7

\* The bound is that of the property, and no positive number.
LEMMA BoundType == Bound \in Int /\ Bound <= 0
<1>1. 0 \in Nat /\ 0 \in 0 .. Operations * Lesser(0, PerCall)
  <2>1. Lesser(0, PerCall) = 0
    BY GateAssumption DEF Lesser
  <2>2. \A a \in Nat : a * 0 = 0
    OBVIOUS
  <2> QED BY <2>1, <2>2, GateAssumption
<1> QED BY <1>1, CallOverrun

\* A step after which every run has what it had left, or is inside the bound, keeps the bound.
LEMMA LeftsKept ==
  ASSUME OverrunBounded, \A y \in Runs : run'[y].left = run[y].left \/ run'[y].left >= Bound
  PROVE  OverrunBounded'
  BY DEF OverrunBounded, Bound

\* A run begins with nothing spent, a call spends what its operations can take, and a pause never takes
\* more than is left.
LEMMA OverrunNext == DeleteTypeOK /\ OverrunBounded /\ [DeleteNext]_deleteVars => OverrunBounded'
<1> SUFFICES ASSUME DeleteTypeOK, OverrunBounded, [DeleteNext]_deleteVars PROVE OverrunBounded'
  OBVIOUS
<1> DEFINE Type == [pc : {"idle", "plan", "call", "sleep"},
                    event : {"none", "create", "delete", "unreadable"},
                    resource : Resources \cup {NoResource}, current : BOOLEAN,
                    left : Int, attempts : Nat]
<1>1. run \in [Runs -> Type]
  BY DEF DeleteTypeOK
<1>2. \A k \in Type : [k EXCEPT !.current = FALSE].left = k.left
  OBVIOUS
<1>3. Asleep.left = 0 /\ 0 >= Bound
  BY BoundType DEF Asleep
<1> HIDE DEF Type
<1>4. ASSUME NEW x \in Runs, Returns(x) \/ Raises(x) PROVE OverrunBounded'
  <2>1. \A y \in Runs : run'[y] \in {Asleep, run[y], [run[y] EXCEPT !.current = FALSE]}
    BY <1>1, <1>4 DEF Returns, Raises
  <2> QED BY <1>1, <1>2, <1>3, <2>1, LeftsKept
<1>5. ASSUME NEW x \in Runs, RunStep(x) PROVE OverrunBounded'
  <2>1. run[x].left \in Int /\ run[x].attempts \in Nat
    BY <1>1 DEF Type
  <2>2. CASE Plans(x) \/ CallIsDone(x) \/ CallIsRefused(x) \/ GivesUp(x)
    <3>1. CASE Returns(x) \/ Raises(x)
      BY <1>4, <3>1
    <3>2. CASE run' = [run EXCEPT ![x].pc = "call", ![x].left = Deadline]
      <4>1. run'[x].left = Deadline /\ \A y \in Runs \ {x} : run'[y] = run[y]
        BY <1>1, <3>2 DEF Type
      <4>2. Deadline >= Bound
        BY BoundType, GateAssumption
      <4> QED BY <4>1, <4>2, LeftsKept
    <3> QED BY <2>2, <3>1, <3>2 DEF Plans, CallIsDone, CallIsRefused, GivesUp
  <2>3. CASE CallFails(x)
    <3>1. PICK cost \in Costs(x) :
            run' = [run EXCEPT ![x].pc = "sleep", ![x].left = @ - cost, ![x].attempts = @ + 1]
      BY <2>3 DEF CallFails
    <3>2. run'[x].left = run[x].left - cost /\ \A y \in Runs \ {x} : run'[y] = run[y]
      BY <1>1, <3>1 DEF Type
    <3>3. run[x].left \in Nat /\ cost \in 0 .. Operations * Lesser(run[x].left, PerCall)
      BY <2>1, <2>3, <3>1 DEF CallFails, Costs, Timeout
    <3>4. run[x].left - cost >= Bound
      BY <3>3, CallOverrun
    <3> QED BY <3>2, <3>4, LeftsKept
  <2>4. CASE Sleeps(x)
    <3> DEFINE l == IF run[x].left > 0 THEN run[x].left - Lesser(Backoff * run[x].attempts, run[x].left)
                    ELSE run[x].left
    <3>1. run' = [run EXCEPT ![x].pc = "call", ![x].left = l]
      BY <2>4 DEF Sleeps
    <3>2. run'[x].left = l /\ \A y \in Runs \ {x} : run'[y] = run[y]
      BY <1>1, <3>1 DEF Type
    <3>3. l = run[x].left \/ l >= 0
      <4>1. Backoff * run[x].attempts \in Int
        BY <2>1, GateAssumption
      <4> QED BY <2>1, <4>1 DEF Lesser
    <3>4. l = run[x].left \/ l >= Bound
      <4>1. l \in Int
        <5>1. Backoff * run[x].attempts \in Int
          BY <2>1, GateAssumption
        <5> QED BY <2>1, <5>1 DEF Lesser
      <4> QED BY <3>3, <4>1, BoundType
    <3> QED BY <3>2, <3>4, LeftsKept
  <2> QED BY <1>5, <2>2, <2>3, <2>4 DEF RunStep
<1>6. ASSUME NEW x \in Runs, NEW r \in Resources,
             Delivers(x, r) \/ DeliversLate(x, r) \/ DeliversUnreadable(x, r)
      PROVE  OverrunBounded'
  <2>1. \A e, c : Begun(e, r, c).left = 0
    BY DEF Begun
  <2>2. PICK k : k.left = 0 /\ run' = [run EXCEPT ![x] = k]
    BY <1>6, <2>1 DEF Delivers, DeliversLate, DeliversUnreadable
  <2>3. \A y \in Runs : run'[y].left = run[y].left \/ run'[y].left = 0
    BY <1>1, <2>2
  <2> QED BY <1>3, <2>3, LeftsKept
<1>7. ASSUME NEW kind \in {"create", "delete"}, Asks(kind) PROVE OverrunBounded'
  BY <1>7 DEF Asks, OverrunBounded
<1>8. CASE Completes
  <2>1. \A y \in Runs : run'[y] = [run[y] EXCEPT !.current = FALSE]
    BY <1>8 DEF Completes
  <2> QED BY <1>1, <1>2, <2>1, LeftsKept
<1>9. CASE UNCHANGED deleteVars
  BY <1>9 DEF deleteVars, OverrunBounded
<1> QED BY <1>5, <1>6, <1>7, <1>8, <1>9 DEF DeleteNext

\* Bound your own runtime, for every deadline, time-out and number of operations: a run of the gate is past
\* its deadline by at most what the later blocking operations of its last call can take.
THEOREM OverrunAlwaysBounded == DeleteSpec => []OverrunBounded
<1>1. DeleteInit => OverrunBounded
  BY BoundType DEF DeleteInit, OverrunBounded, Asleep, Bound
<1> QED BY <1>1, OverrunNext, DeleteTypes, PTL DEF DeleteSpec
=============================================================================
