------------------------------ MODULE OpsEstate ------------------------------
(***************************************************************************)
(* handbook/ops-estate: converge.py asserts the declared super metrics by  *)
(* name, teardown.py deletes them by name.  Both list the instance once    *)
(* and go by that list; meanwhile people work in the console, a write may  *)
(* be accepted without effect, and one whose answer was lost may land      *)
(* after the script has ended.                                             *)
(***************************************************************************)
EXTENDS Naturals, FiniteSets

CONSTANTS
  Declared, Undeclared,   \* names: those in desired-state.json, and some that are not
  Contents,               \* formula with description, decoded
  Absent,
  PageSize,               \* the one page that is listed (2000)
  MaxId, MaxTeardowns, MaxFaults, MaxOthers   \* bounds

EstateAssumption ==
  /\ {PageSize, MaxId, MaxTeardowns, MaxFaults, MaxOthers} \subseteq Nat
  /\ Declared # {} /\ Declared \cap Undeclared = {}
  /\ Absent \notin [name : Declared \cup Undeclared, content : Contents, by : {"tool", "others"}]

VARIABLES
  estate,      \* the instance: the super metric of each id
  minted,      \* ids given out so far
  desired,     \* desired-state.json
  tool,        \* the run of converge.py or teardown.py
  late,        \* writes without an answer, still to land
  teardowns, faults, others

vars == <<estate, minted, desired, tool, late, teardowns, faults, others>>

Ids == 1 .. MaxId
Names == Declared \cup Undeclared
SuperMetric == [name : Names, content : Contents, by : {"tool", "others"}]
Write == [id : 0 .. MaxId, name : Declared, content : Contents \cup {Absent}]   \* id 0: a POST; Absent: a DELETE
Exits == {"exit0", "exit1"}
Running == tool.pc \notin {"idle"} \cup Exits
Live == {i \in Ids : estate[i] # Absent}
Named(n) == {i \in Live : estate[i].name = n}

\* alone: since it listed, nobody but the run has changed anything.  top: the last id given out when it listed.
\* checked: the teardown's read-back was answered.
TypeOK ==
  /\ estate \in [Ids -> SuperMetric \cup {Absent}] /\ minted \in 0 .. MaxId
  /\ \A i \in Live : i <= minted
  /\ desired \in [Declared -> Contents] /\ late \subseteq Write
  /\ tool.pc \in {"idle", "list", "each", "readBack", "readAgain"} \cup Exits
  /\ tool.script \in {"converge", "dryRun", "teardown"}
  /\ tool.plan \in [Declared -> [do : {"create", "unchanged", "update", "absent", "delete"}, id : 0 .. minted]]
  /\ tool.todo \subseteq Declared /\ tool.name \in Declared /\ {tool.id, tool.top} \subseteq 0 .. minted
  /\ tool.pc = "each" => tool.script # "dryRun"
  /\ {tool.failed, tool.deleted, tool.wrote, tool.alone, tool.checked} \subseteq BOOLEAN
  /\ teardowns \in 0 .. MaxTeardowns /\ faults \in 0 .. MaxFaults /\ others \in 0 .. MaxOthers

Fresh(script) ==
  [pc |-> "list", script |-> script, plan |-> [n \in Declared |-> [do |-> "absent", id |-> 0]],
   todo |-> Declared, name |-> CHOOSE n \in Declared : TRUE, id |-> 0, failed |-> FALSE, deleted |-> FALSE,
   wrote |-> FALSE, alone |-> FALSE, checked |-> FALSE, top |-> 0]

Init ==
  /\ estate = [i \in Ids |-> Absent] /\ minted = 0 /\ desired \in [Declared -> Contents]
  /\ tool = [Fresh("converge") EXCEPT !.pc = "idle"]
  /\ late = {} /\ teardowns = 0 /\ faults = 0 /\ others = 0

-----------------------------------------------------------------------------
(* Everybody else. *)

Disturbs == tool' = [tool EXCEPT !.alone = FALSE]

OthersAct ==
  /\ others < MaxOthers /\ others' = others + 1 /\ Disturbs
  /\ \/ /\ minted < MaxId /\ minted' = minted + 1
        /\ \E n \in Names, c \in Contents :
             estate' = [estate EXCEPT ![minted + 1] = [name |-> n, content |-> c, by |-> "others"]]
     \/ /\ UNCHANGED minted
        /\ \E i \in Live : \/ \E c \in Contents : estate' = [estate EXCEPT ![i].content = c]
                           \/ \E n \in Names : estate' = [estate EXCEPT ![i].name = n]
                           \/ estate' = [estate EXCEPT ![i] = Absent]
  /\ UNCHANGED <<desired, late, teardowns, faults>>

\* The declaration is edited; a run keeps what it has read, so an edit during a run counts as one after it.
Edits ==
  /\ ~Running /\ Disturbs /\ desired' \in [Declared -> Contents]
  /\ UNCHANGED <<estate, minted, late, teardowns, faults, others>>

Made(n, c) == [estate EXCEPT ![minted + 1] = [name |-> n, content |-> c, by |-> "tool"]]
Put(i, n, c) == [estate EXCEPT ![i] = [name |-> n, content |-> c, by |-> @.by]]

\* A write whose answer was lost takes effect after all.
Lands ==
  /\ \E w \in late :
       /\ late' = late \ {w} /\ Disturbs
       /\ IF w.id = 0 /\ minted < MaxId THEN estate' = Made(w.name, w.content) /\ minted' = minted + 1
          ELSE /\ UNCHANGED minted
               /\ estate' = IF w.id \notin Live THEN estate
                            ELSE IF w.content = Absent THEN [estate EXCEPT ![w.id] = Absent]
                            ELSE Put(w.id, w.name, w.content)
  /\ UNCHANGED <<desired, teardowns, faults, others>>

-----------------------------------------------------------------------------
(* What the two scripts share: one list, and then each declared name by it. *)

At(pc) == tool.pc = pc
Fault == faults < MaxFaults /\ faults' = faults + 1
Looks == UNCHANGED <<estate, minted, desired, late, teardowns, faults, others>>
Rest == UNCHANGED <<desired, late, teardowns, others>>

Starts(script) ==
  /\ ~Running /\ (script = "teardown" => teardowns < MaxTeardowns)
  /\ tool' = Fresh(script)
  /\ teardowns' = IF script = "teardown" THEN teardowns + 1 ELSE teardowns
  /\ UNCHANGED <<estate, minted, desired, late, faults, others>>

\* Mutant: a drifted object is made anew.
RebuildPlan(script, n, i) ==
  CASE script = "teardown" -> IF i = 0 THEN "absent" ELSE "delete"
    [] OTHER -> IF i # 0 /\ estate[i].content = desired[n] THEN "unchanged" ELSE "create"

\* Mutant: a name that is live is taken as it is.
NamePlan(script, n, i) ==
  CASE script = "teardown" -> IF i = 0 THEN "absent" ELSE "delete"
    [] OTHER -> IF i = 0 THEN "create" ELSE "unchanged"

\* What becomes of a name whose live object is i (0: none was listed).
Plan(script, n, i) ==
  CASE script = "teardown" -> IF i = 0 THEN "absent" ELSE "delete"
    [] OTHER -> IF i = 0 THEN "create" ELSE IF estate[i].content = desired[n] THEN "unchanged" ELSE "update"

\* One page is listed, and of two objects of a name the dictionary keeps one.
Pages == {s \in SUBSET Live : Cardinality(s) = PageSize \/ (s = Live /\ Cardinality(s) <= PageSize)}

Listings ==
  {found \in [Declared -> 0 .. MaxId] :
     \E shown \in Pages : \A n \in Declared :
       IF Named(n) \cap shown = {} THEN found[n] = 0 ELSE found[n] \in Named(n) \cap shown}

\* Mutant: the dry run goes on to the writes.
ListsWet ==
  /\ At("list") /\ Looks
  /\ \E found \in Listings :
       tool' = [tool EXCEPT !.pc = "each", !.alone = TRUE, !.top = minted,
                    !.plan = [n \in Declared |-> [do |-> Plan(tool.script, n, found[n]), id |-> found[n]]]]

Lists ==
  /\ At("list") /\ Looks
  /\ \E found \in Listings :
       tool' = [tool EXCEPT !.pc = IF tool.script = "dryRun" THEN "exit0" ELSE "each", !.alone = TRUE, !.top = minted,
                    !.plan = [n \in Declared |-> [do |-> Plan(tool.script, n, found[n]), id |-> found[n]]]]

Turn(n, do) == At("each") /\ n \in tool.todo /\ tool.plan[n].do = do
Done(n, bad) == tool' = [tool EXCEPT !.todo = @ \ {n}, !.failed = @ \/ bad, !.pc = "each"]
Wrote(n, i) == tool' = [tool EXCEPT !.todo = @ \ {n}, !.pc = "readBack", !.name = n, !.id = i, !.wrote = TRUE]

Passes(n) == (Turn(n, "unchanged") \/ Turn(n, "absent")) /\ Looks /\ Done(n, FALSE)

Refused(n) ==
  /\ Turn(n, "create") \/ Turn(n, "update") \/ Turn(n, "delete")
  /\ Fault \/ (Turn(n, "create") /\ minted = MaxId /\ UNCHANGED faults)   \* (bound: no id is left)
  /\ Done(n, TRUE) /\ UNCHANGED <<estate, minted>> /\ Rest

\* A call without an HTTP answer, a list that is not answered 200, the parent's time limit: the run is over,
\* and a write it was at may have been lost or may land yet.
Dies ==
  /\ Running /\ Fault /\ tool' = [tool EXCEPT !.pc = "exit1"]
  /\ \/ UNCHANGED late
     \/ \E n \in tool.todo :
          \/ /\ Turn(n, "create") \/ Turn(n, "update")
             /\ late' = late \cup {[id |-> tool.plan[n].id, name |-> n, content |-> desired[n]]}
          \/ Turn(n, "delete") /\ late' = late \cup {[id |-> tool.plan[n].id, name |-> n, content |-> Absent]}
  /\ UNCHANGED <<estate, minted, desired, teardowns, others>>

-----------------------------------------------------------------------------
(* converge.py *)

Creates(n) ==
  /\ Turn(n, "create") /\ minted < MaxId /\ Rest
  /\ \/ Wrote(n, minted + 1) /\ minted' = minted + 1 /\ estate' = Made(n, desired[n]) /\ UNCHANGED faults
     \/ /\ Wrote(n, minted + 1) /\ minted' = minted + 1 /\ Fault
        /\ \E c \in Contents : estate' = Made(n, c)
     \/ Wrote(n, 0) /\ UNCHANGED <<estate, minted>> /\ Fault

\* The PUT goes by id and replaces the object, its name with it.
Updates(n) ==
  /\ Turn(n, "update") /\ UNCHANGED minted /\ Rest
  /\ LET i == tool.plan[n].id IN
     \/ i \in Live /\ Wrote(n, i) /\ estate' = Put(i, n, desired[n]) /\ UNCHANGED faults
     \/ i \in Live /\ Wrote(n, i) /\ estate' \in {estate} \cup {Put(i, n, c) : c \in Contents} /\ Fault
     \/ i \notin Live /\ Done(n, TRUE) /\ UNCHANGED <<estate, faults>>

\* Mutant: a write is believed.
BelievesWrite ==
  /\ At("readBack") /\ UNCHANGED <<estate, minted>> /\ Rest /\ UNCHANGED faults /\ Done(tool.name, FALSE)

ReadsBack ==
  /\ At("readBack") /\ UNCHANGED <<estate, minted>> /\ Rest
  /\ \/ /\ UNCHANGED faults
        /\ Done(tool.name, ~(tool.id \in Named(tool.name) /\ estate[tool.id].content = desired[tool.name]))
     \/ Fault /\ Done(tool.name, TRUE)

Verdict(bad) == IF bad THEN "exit1" ELSE "exit0"

Ends ==
  /\ At("each") /\ tool.todo = {} /\ Looks
  /\ tool' = [tool EXCEPT !.pc = IF tool.deleted THEN "readAgain" ELSE Verdict(tool.failed)]

Converge == \E n \in Declared : Passes(n) \/ Refused(n) \/ Creates(n) \/ Updates(n)

-----------------------------------------------------------------------------
(* teardown.py *)

Deleted(n) == tool' = [tool EXCEPT !.todo = @ \ {n}, !.deleted = TRUE, !.wrote = TRUE]

Deletes(n) ==
  /\ Turn(n, "delete") /\ UNCHANGED minted /\ Rest
  /\ LET i == tool.plan[n].id IN
     \/ i \in Live /\ estate' = [estate EXCEPT ![i] = Absent] /\ Deleted(n) /\ UNCHANGED faults
     \/ UNCHANGED estate /\ Deleted(n) /\ Fault
     \/ i \notin Live /\ UNCHANGED <<estate, faults>> /\ Done(n, TRUE)

\* Mutant: the answers to the deletes are believed.
BelievesDeletes ==
  /\ At("readAgain") /\ Looks /\ tool' = [tool EXCEPT !.pc = Verdict(tool.failed), !.checked = TRUE]

\* The read-back; an answer that is an error lists nothing, so nothing is left.
ReadsAgain ==
  /\ At("readAgain") /\ UNCHANGED <<estate, minted>> /\ Rest
  /\ \/ \E shown \in Pages :
          /\ UNCHANGED faults
          /\ tool' = [tool EXCEPT !.checked = TRUE,
                       !.pc = Verdict(tool.failed \/ \E n \in Declared : Named(n) \cap shown # {})]
     \/ Fault /\ tool' = [tool EXCEPT !.pc = Verdict(tool.failed)]

-----------------------------------------------------------------------------
ToolStep == Lists \/ Converge \/ ReadsBack \/ Ends \/ (\E n \in Declared : Deletes(n)) \/ ReadsAgain

Next ==
  \/ OthersAct \/ Edits \/ Lands \/ Dies \/ ToolStep
  \/ \E script \in {"converge", "dryRun", "teardown"} : Starts(script)

Spec == Init /\ [][Next]_vars

\* Converge is run again and again ("run it again"), and a script that runs goes on.
FairSpec == Spec /\ WF_vars(ToolStep) /\ SF_vars(Starts("converge")) /\ WF_vars(Lands)

-----------------------------------------------------------------------------
AsDeclared == \A n \in Declared : \E i \in Named(n) : estate[i].content = desired[n]
Over(script, code) == tool.script = script /\ tool.pc = code /\ tool.alone

\* Exit 0 of converge, whatever the instance did with its writes: every declared name is there as declared.
ConvergedAsDeclared == Over("converge", "exit0") => AsDeclared

\* "an object whose name is live is adopted ... an absent name is created": a converge left alone, whether it
\* is done, has failed or died, has kept every object it found under its id and made at most one of a name.
\* (A page that holds all there is now held all there was when the run began.)
AdoptsOrCreatesOne ==
  tool.script = "converge" /\ tool.alone /\ Cardinality(Live) <= PageSize =>
    \A n \in Declared :
      LET new == {i \in Named(n) : i > tool.top}
          old == {i \in Named(n) : i <= tool.top} IN
      IF tool.plan[n].id = 0 THEN old = {} /\ Cardinality(new) <= 1 ELSE new = {} /\ tool.plan[n].id \in old

\* Exit 0 of a teardown that deleted something and whose read-back was answered: no declared name is left,
\* duplicates of a name included.
TornDownIsGone ==
  Over("teardown", "exit0") /\ tool.checked /\ Cardinality(Live) <= PageSize => \A n \in Declared : Named(n) = {}

\* "level-triggered": whatever failed, drifted or landed late, running it again gets there.
GetsThere == []<>AsDeclared

\* "it verifies each deletion with a read-back": exit 0 after a delete means the name is gone.
\* It does not hold: a read-back that is answered with an error lists nothing.
DeletionIsVerified == Over("teardown", "exit0") /\ tool.deleted => \A n \in Declared : Named(n) = {}

\* "no undeclared writes: only the names in desired-state.json are touched".
\* It does not hold: an object renamed since the list is overwritten, name and all.
NoUndeclaredWrites ==
  [][Converge => \A i \in Live : estate'[i] # estate[i] => estate[i].name \in Declared]_vars
=============================================================================
