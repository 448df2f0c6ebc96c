----------------------------- MODULE EnsuredWrite -----------------------------
(***************************************************************************)
(* The third guarantee of handbook/resilient-api-call: ensure, confirm and *)
(* confirm_gone of resilient.py, as write_proof of demo.py calls them on   *)
(* one custom group whose name is the stable key.                          *)
(*                                                                         *)
(* A write may be answered and have no effect or the wrong one, it may be  *)
(* refused, and its answer may be lost, with the effect before, after or   *)
(* never.                                                                  *)
(***************************************************************************)
EXTENDS Integers, FiniteSets

CONSTANTS
  Demos,       \* runs of demo.py --write
  Together,    \* how many of them may be going at the same time
  MaxFaults    \* bound on what goes wrong: requests, effects and deaths

EnsureAssumption ==
  Demos \subseteq Nat \ {0} /\ IsFiniteSet(Demos) /\ Together \in Nat /\ MaxFaults \in Nat

VARIABLES
  groups,  \* the platform: the groups of that name; a group is named by the run that sent it
  late,    \* the platform: the creates it has not carried out yet, though their answer is lost
  demo,    \* the runs
  faults

vars == <<groups, late, demo, faults>>

\* A group: whose it is, and whether it is in the desired state.
Group == [by : Demos, ok : BOOLEAN]
NoGroup == 0

Fresh == [pc |-> "idle", sent |-> 0, made |-> NoGroup, failed |-> FALSE, troubled |-> FALSE]

Ended == {"done", "dead"}
Trying == {"ensure", "send", "confirm", "check", "again", "resend", "reconfirm", "expect"}
Leaving == {"finally", "delete", "gone", "goneByName"}

TypeOK ==
  /\ groups \subseteq Group /\ late \subseteq Group
  /\ demo \in [Demos -> [pc : {"idle", "look"} \cup Trying \cup Leaving \cup Ended, sent : 0 .. 2,
                         made : Demos \cup {NoGroup}, failed : BOOLEAN, troubled : BOOLEAN]]
  /\ \A d \in Demos :
       demo[d].pc \in {"check", "again", "resend", "reconfirm", "expect", "delete", "gone"} =>
         demo[d].made # NoGroup
  /\ faults \in 0 .. MaxFaults

Init ==
  /\ groups = {} /\ late = {} /\ demo = [d \in Demos |-> Fresh] /\ faults = 0

-----------------------------------------------------------------------------
At(d, pc) == demo[d].pc = pc
Goes(d, pc) == demo' = [demo EXCEPT ![d].pc = pc]
GoesWith(d, pc, failed) == demo' = [demo EXCEPT ![d].pc = pc, ![d].failed = @ \/ failed]
Reads == UNCHANGED <<groups, late, faults>>
Fault == faults < MaxFaults /\ faults' = faults + 1

ById(id) == {g \in groups : g.by = id}

Starts(d) ==
  /\ At(d, "idle") /\ Cardinality({e \in Demos : ~At(e, "idle") /\ demo[e].pc \notin Ended}) < Together
  /\ Goes(d, "look") /\ Reads

\* A group of that name is there already: nothing is written.
Looks(d) ==
  /\ At(d, "look") /\ Reads
  /\ \/ groups = {} /\ Goes(d, "ensure")
     \/ groups # {} /\ GoesWith(d, "done", TRUE)

\* The first ensure; whatever it returns, the group it found or confirmed is taken for the one made.
Ensures(d) ==
  /\ At(d, "ensure") /\ Reads
  /\ \/ groups = {} /\ Goes(d, "send")
     \/ \E g \in groups : demo' = [demo EXCEPT ![d].pc = "check", ![d].made = g.by]

\* The second ensure finds the group and sends nothing.
EnsuresAgain(d) ==
  /\ At(d, "again") /\ Reads
  /\ \/ groups = {} /\ Goes(d, "resend")
     \/ \E g \in groups : GoesWith(d, "expect", ~g.ok \/ demo[d].sent # 1)

\* The write of either ensure, counted before it is sent.  An answer: it took effect, or it did not, or
\* not as sent.
Sends(d) ==
  /\ At(d, "send") \/ At(d, "resend")
  /\ demo' = [demo EXCEPT ![d].pc = IF @ = "send" THEN "confirm" ELSE "reconfirm", ![d].sent = @ + 1]
  /\ UNCHANGED late
  /\ \/ groups' = groups \cup {[by |-> d, ok |-> TRUE]} /\ UNCHANGED faults
     \/ groups' \in {groups, groups \cup {[by |-> d, ok |-> FALSE]}} /\ Fault

\* No answer, or a refusal; the platform may have done it, do it later or never.
SendFails(d) ==
  /\ At(d, "send") \/ At(d, "resend")
  /\ demo' = [demo EXCEPT ![d].pc = "finally", ![d].sent = @ + 1, ![d].failed = TRUE, ![d].troubled = TRUE]
  /\ \/ groups' \in {groups, groups \cup {[by |-> d, ok |-> TRUE]}} /\ UNCHANGED late
     \/ late' = late \cup {[by |-> d, ok |-> TRUE]} /\ UNCHANGED groups
  /\ Fault

LandsLate ==
  \E g \in late : groups' = groups \cup {g} /\ late' = late \ {g} /\ UNCHANGED <<demo, faults>>

\* The re-read by name after a write: EffectError unless a group in the desired state is there.
Confirms(d) ==
  /\ At(d, "confirm") \/ At(d, "reconfirm")
  /\ Reads
  /\ \/ groups = {} /\ GoesWith(d, "finally", TRUE)
     \/ \E g \in groups :
          \/ ~g.ok /\ GoesWith(d, "finally", TRUE)
          \/ g.ok /\ At(d, "confirm") /\ demo' = [demo EXCEPT ![d].pc = "check", ![d].made = g.by]
          \/ g.ok /\ At(d, "reconfirm") /\ GoesWith(d, "expect", TRUE)

ChecksById(d) ==
  /\ At(d, "check") /\ Reads
  /\ IF \E g \in ById(demo[d].made) : g.ok THEN Goes(d, "again") ELSE GoesWith(d, "finally", TRUE)

\* An expectation the desired group does not meet has to be refused; another state may meet it.
Expects(d) ==
  /\ At(d, "expect") /\ Reads
  /\ \/ GoesWith(d, "finally", FALSE)
     \/ (\E g \in ById(demo[d].made) : ~g.ok) /\ GoesWith(d, "finally", TRUE)

\* The finally clause: a write that was sent and not confirmed is looked up by name.
Leaves(d) ==
  /\ At(d, "finally") /\ Reads
  /\ \/ demo[d].made # NoGroup /\ Goes(d, "delete")
     \/ demo[d].made = NoGroup /\ (demo[d].sent = 0 \/ groups = {}) /\ Goes(d, "done")
     \/ /\ demo[d].made = NoGroup /\ demo[d].sent > 0
        /\ \E g \in groups : demo' = [demo EXCEPT ![d].pc = "delete", ![d].made = g.by]

\* Answered: it took effect, or (a fault) it did not.  A group that is not there is an ApiError.
Deletes(d) ==
  /\ At(d, "delete") /\ UNCHANGED late
  /\ \/ /\ ById(demo[d].made) # {} /\ groups' = groups \ ById(demo[d].made)
        /\ Goes(d, "gone") /\ UNCHANGED faults
     \/ /\ ById(demo[d].made) # {} /\ UNCHANGED groups /\ Fault
        /\ demo' = [demo EXCEPT ![d].pc = "gone", ![d].troubled = TRUE]
     \/ ById(demo[d].made) = {} /\ GoesWith(d, "done", TRUE) /\ UNCHANGED <<groups, faults>>

DeleteFails(d) ==
  /\ At(d, "delete") /\ UNCHANGED late
  /\ groups' \in {groups, groups \ ById(demo[d].made)}
  /\ demo' = [demo EXCEPT ![d].pc = "done", ![d].failed = TRUE, ![d].troubled = TRUE]
  /\ Fault

\* Mutant: the answer to the delete is believed.
ConfirmsNothing(d) == At(d, "gone") /\ Reads /\ Goes(d, "done")

\* confirm_gone by identifier and then by name.
ConfirmsGone(d) ==
  /\ Reads
  /\ \/ At(d, "gone") /\ ById(demo[d].made) = {} /\ Goes(d, "goneByName")
     \/ At(d, "gone") /\ ById(demo[d].made) # {} /\ GoesWith(d, "done", TRUE)
     \/ At(d, "goneByName") /\ GoesWith(d, "done", groups # {})

\* A read fails: inside the try the finally clause still runs, elsewhere the run ends.
ReadFails(d) ==
  /\ demo[d].pc \in {"look", "ensure", "confirm", "check", "again", "reconfirm", "expect", "finally",
                     "gone", "goneByName"}
  /\ ~(At(d, "finally") /\ demo[d].made # NoGroup)
  /\ demo' = [demo EXCEPT ![d].pc = IF @ \in Trying THEN "finally" ELSE "done",
                          ![d].failed = TRUE, ![d].troubled = TRUE]
  /\ Fault /\ UNCHANGED <<groups, late>>

Dies(d) ==
  /\ demo[d].pc \notin Ended \cup {"idle"}
  /\ Goes(d, "dead") /\ Fault /\ UNCHANGED <<groups, late>>

-----------------------------------------------------------------------------
Next ==
  \/ LandsLate
  \/ \E d \in Demos :
       \/ Starts(d) \/ Looks(d) \/ Ensures(d) \/ EnsuresAgain(d) \/ Sends(d) \/ SendFails(d)
       \/ Confirms(d) \/ ChecksById(d) \/ Expects(d) \/ Leaves(d) \/ Deletes(d) \/ DeleteFails(d)
       \/ ConfirmsGone(d) \/ ReadFails(d) \/ Dies(d)

Spec == Init /\ [][Next]_vars

-----------------------------------------------------------------------------
\* Whoever's group of that name it is.
Remains(d) == \E g \in groups \cup late : g.by = d

\* Exit 0 means what it says: the group was written once, and nothing of it is left.
CleanExit == \A d \in Demos : At(d, "done") /\ ~demo[d].failed => demo[d].sent = 1 /\ ~Remains(d)

\* "deletes the one it created, even when a step in between fails": a run that had the name to itself and
\* whose requests were all answered leaves nothing behind, though a write had the wrong effect and a
\* check refused it.
RefusedIsRemoved ==
  \A d \in Demos :
    At(d, "done") /\ ~demo[d].troubled /\ (\A e \in Demos \ {d} : demo[e].sent = 0) => ~Remains(d)

\* Run twice safely: a run never sends its create twice, unless another run has taken its group for its own.
SentOnce ==
  \A d \in Demos : (\A e \in Demos \ {d} : demo[e].sent = 0 /\ demo[e].made = NoGroup) => demo[d].sent <= 1

\* "deletes the one it created": the group a run deletes is the one that run sent.
\* It does not hold: a run whose first ensure finds another's group takes it for the one it made.
DeletesItsOwn ==
  [][\A g \in groups \ groups' : demo[g.by].pc = "delete" /\ demo'[g.by].pc # "delete"]_vars
=============================================================================
