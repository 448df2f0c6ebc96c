---------------------------- MODULE PolicyRanking ----------------------------
(***************************************************************************)
(* frameworks/wtpc, reconcile_policy.py: a posture's policy exists (made   *)
(* on request only) and governs its groups, and the posture policies are   *)
(* ranked strict-first in the one priority order of the instance, which    *)
(* every team's policies share and which is replaced whole by a PUT.       *)
(***************************************************************************)
EXTENDS Naturals, FiniteSets, Sequences, SequencesExt

CONSTANTS
  Postures,              \* how many have a committed source; policy 1 is the strictest's
  Teams,                 \* policies of other teams
  MaxOthers, MaxFaults   \* bounds

RankingAssumption == {Postures, Teams, MaxOthers, MaxFaults} \subseteq Nat /\ Postures > 0

VARIABLES
  live,       \* the policies there are
  order,      \* the ranked ones, highest first
  vmsGroup, hardware,   \* the policy on the first posture's VMs group, and on its Hosts and Clusters groups ("noGroup":
                        \* they are not made yet)
  tiers,      \* tier policies are live
  run,
  others, faults

vars == <<live, order, vmsGroup, hardware, tiers, run, others, faults>>

Ours == 1 .. Postures
Foreign == Postures + 1 .. Postures + Teams
Target == 1              \* the posture of --posture and --create
Policies == Ours \cup Foreign
Carried == {"noGroup", "none", "posture", "another"}
Orders == {o \in BoundedSeq(Policies, Postures + Teams) : IsInjective(o)}
\* Numbers from the least up, and what is left of an order when only the policies in s stay.
Ascending(s) == CHOOSE o \in [1 .. Cardinality(s) -> s] : \A i, j \in DOMAIN o : i < j => o[i] < o[j]
Kept(o, s) == LET at == Ascending({i \in DOMAIN o : o[i] \in s}) IN [k \in DOMAIN at |-> o[at[k]]]
Exits == {"exit0", "exit1", "exit2"}
Running == run.pc \notin {"idle"} \cup Exits

\* seen: the ranked policies as the run read them; alone: since then nobody else has changed anything.
TypeOK ==
  /\ live \subseteq Policies /\ order \in Orders /\ Range(order) \subseteq live
  /\ {vmsGroup, hardware} \subseteq Carried /\ tiers \in BOOLEAN
  /\ run \in [pc : {"idle", "read", "create", "bind", "readGroups", "rank", "put", "verify"} \cup Exits,
              create : BOOLEAN, above : BOOLEAN, seen : Orders, there : SUBSET Policies, hardwareToo : BOOLEAN, alone : BOOLEAN]
  /\ others \in 0 .. MaxOthers /\ faults \in 0 .. MaxFaults
  /\ (vmsGroup = "posture" \/ hardware = "posture") => Target \in live

Blank(pc) ==
  [pc |-> pc, create |-> FALSE, above |-> FALSE, seen |-> <<>>, there |-> {}, hardwareToo |-> FALSE, alone |-> TRUE]

Init ==
  /\ live = Foreign /\ order \in {Ascending(s) : s \in SUBSET Foreign}
  /\ vmsGroup \in {"noGroup", "none"} /\ hardware = vmsGroup /\ tiers = FALSE
  /\ run = Blank("idle") /\ others = 0 /\ faults = 0

-----------------------------------------------------------------------------
\* Everybody else: a policy is made, ranked, moved or deleted; groups are made, or bound by hand; tier policies come.
OthersAct ==
  /\ others < MaxOthers /\ others' = others + 1 /\ run' = [run EXCEPT !.alone = FALSE]
  /\ \/ \E p \in Policies \ live : live' = live \cup {p} /\ order' \in {order, Append(order, p)}
        /\ UNCHANGED <<vmsGroup, hardware, tiers>>
     \/ \E p \in live \ {Target} : live' = live \ {p} /\ order' = Kept(order, live \ {p}) /\ UNCHANGED <<vmsGroup, hardware, tiers>>
     \/ order' \in {o \in Orders : Range(o) \subseteq live} \ {order} /\ UNCHANGED <<live, vmsGroup, hardware, tiers>>
     \/ vmsGroup = "noGroup" /\ vmsGroup' = "none" /\ hardware' = "none" /\ UNCHANGED <<live, order, tiers>>
     \/ vmsGroup # "noGroup" /\ vmsGroup' \in {"none", "another"} /\ UNCHANGED <<live, order, hardware, tiers>>
     \/ tiers' = TRUE /\ UNCHANGED <<live, order, vmsGroup, hardware>>
  /\ UNCHANGED faults

-----------------------------------------------------------------------------
At(pc) == run.pc = pc
Fault == faults < MaxFaults /\ faults' = faults + 1
Rest == UNCHANGED <<tiers, others>>
Groups == <<vmsGroup, hardware>>
Goes(pc) == run' = [run EXCEPT !.pc = pc]
Ended(code) == [Blank(code) EXCEPT !.alone = run.alone, !.create = run.create, !.above = run.above]
Dies == run' = Ended("exit1") /\ Fault

Starts(create, above) ==
  /\ ~Running /\ run' = [Blank("read") EXCEPT !.create = create, !.above = above]
  /\ UNCHANGED <<live, order, vmsGroup, hardware, tiers, others, faults>>

\* Adopted by name if it is live, made on request only; a posture without a policy has no groups to bind.
Reads ==
  /\ At("read") /\ UNCHANGED <<live, order, Groups>> /\ Rest
  /\ \/ /\ UNCHANGED faults
        /\ run' = [run EXCEPT !.seen = order, !.there = live, !.alone = TRUE,
                    !.pc = IF Target \in live THEN "bind" ELSE IF run.create THEN "create" ELSE "put"]
     \/ Dies

\* The instance may rank a new policy last, or not yet.
Creates ==
  /\ At("create") /\ UNCHANGED Groups /\ Rest
  /\ \/ /\ Target \notin live /\ Goes("bind") /\ UNCHANGED faults
        /\ live' = live \cup {Target} /\ order' \in {order, Append(order, Target)}
     \/ Dies /\ UNCHANGED <<live, order>>
     \/ Target \in live /\ run' = Ended("exit1") /\ UNCHANGED <<live, order, faults>>

\* Mutant: the posture keeps its hardware when tiers govern it.
AssignsOnly ==
  /\ vmsGroup # "noGroup"
  /\ run' = [run EXCEPT !.pc = "rank", !.hardwareToo = ~tiers] /\ UNCHANGED faults
  /\ vmsGroup' = "posture" /\ hardware' = IF tiers THEN hardware ELSE "posture"

\* The VMs group carries the posture's policy; the hardware does on an estate without tier policies, and where they are
\* live is released of it (of another policy it is not).  The two calls may have no effect, or the second fail.
Assigns ==
  /\ vmsGroup # "noGroup"
  /\ LET wanted == IF ~tiers THEN "posture" ELSE IF hardware = "posture" THEN "none" ELSE hardware
         same == vmsGroup = "posture" /\ hardware = wanted IN
     \/ /\ vmsGroup' = "posture" /\ hardware' = wanted /\ UNCHANGED faults
        /\ run' = [run EXCEPT !.pc = IF same THEN "rank" ELSE "readGroups", !.hardwareToo = ~tiers]
     \/ /\ ~same /\ Fault /\ run' = [run EXCEPT !.pc = "readGroups", !.hardwareToo = ~tiers]
        /\ \E g \in {Groups, <<"posture", hardware>>} : vmsGroup' = g[1] /\ hardware' = g[2]
     \/ Dies /\ \E g \in {Groups, <<"posture", hardware>>} : vmsGroup' = g[1] /\ hardware' = g[2]

\* With no groups made yet the posture is skipped.
Binds ==
  /\ At("bind") /\ UNCHANGED <<live, order>> /\ Rest
  /\ \/ vmsGroup = "noGroup" /\ UNCHANGED <<Groups, faults>> /\ Goes("rank")
     \/ vmsGroup = "noGroup" /\ UNCHANGED Groups /\ Dies
     \/ Assigns

ReadsGroups ==
  /\ At("readGroups") /\ UNCHANGED <<live, order, Groups>> /\ Rest
  /\ \/ /\ UNCHANGED faults
        /\ IF vmsGroup = "posture" /\ (hardware = "posture") = run.hardwareToo THEN Goes("rank") ELSE run' = Ended("exit1")
     \/ Dies

\* A policy that was made shifts the order, so it is read again; without a create the first read is used.
Ranks ==
  /\ At("rank") /\ UNCHANGED <<live, order, Groups>> /\ Rest
  /\ \/ /\ UNCHANGED faults
        /\ run' = [run EXCEPT !.pc = "put", !.seen = IF run.create THEN order ELSE @, !.there = IF run.create THEN live ELSE @]
     \/ run.create /\ Dies

-----------------------------------------------------------------------------
StrictFirst(s) == Ascending(s)

\* Mutant: ours are set one after the other from the first position they hold.
Together(seen, there) ==
  LET slots == {i \in DOMAIN seen : seen[i] \in Ours}
      rest == Kept(seen, Foreign)
      at == IF slots = {} THEN Len(rest) ELSE (CHOOSE i \in slots : \A j \in slots : i <= j) - 1 IN
  SubSeq(rest, 1, at) \o StrictFirst(there \cap Ours) \o SubSeq(rest, at + 1, Len(rest))

\* Ours, strict-first, in the positions that ours hold; one that is not ranked yet goes right after the last of them.
WithinOwnSlots(seen, there) ==
  LET slots == {i \in DOMAIN seen : seen[i] \in Ours}
      ranked == StrictFirst(there \cap Ours \cap Range(seen))
      placed == [i \in DOMAIN seen |-> IF i \in slots THEN ranked[Cardinality({j \in slots : j <= i})] ELSE seen[i]]
      at == IF slots = {} THEN Len(seen) ELSE CHOOSE i \in slots : \A j \in slots : j <= i IN
  SubSeq(placed, 1, at) \o StrictFirst((there \cap Ours) \ Range(seen)) \o SubSeq(placed, at + 1, Len(placed))

\* The opt-in: ours before every other.
AboveForeign(seen, there) == StrictFirst(there \cap Ours) \o Kept(seen, Foreign)

Desired == IF run.above THEN AboveForeign(run.seen, run.there) ELSE WithinOwnSlots(run.seen, run.there)

\* The PUT replaces the order: a policy ranked since the read and not named in it is ranked last or not at all, one that
\* is gone is refused.  It may have no effect.
Puts ==
  /\ At("put") /\ UNCHANGED <<live, Groups>> /\ Rest
  /\ LET left == Kept(order, Policies \ Range(Desired)) IN
     \/ Desired = run.seen /\ Goes("verify") /\ UNCHANGED <<order, faults>>
     \/ /\ Desired # run.seen /\ Range(Desired) \subseteq live /\ Goes("verify")
        /\ order' \in {Desired, Desired \o left} /\ UNCHANGED faults
     \/ Desired # run.seen /\ Range(Desired) \subseteq live /\ Goes("verify") /\ UNCHANGED order /\ Fault
     \/ Desired # run.seen /\ ~(Range(Desired) \subseteq live) /\ run' = Ended("exit1") /\ UNCHANGED <<order, faults>>
     \/ Dies /\ UNCHANGED order

\* One that is not ranked counts as the last (two of them stand as they are listed).
Rank(p) == IF p \in Range(order) THEN CHOOSE i \in DOMAIN order : order[i] = p ELSE Len(order) + 1
StrictestFirst == \A p, q \in live \cap Ours : p < q => Rank(p) <= Rank(q)

\* Mutant: the PUT is believed.
BelievesOrder == At("verify") /\ run' = Ended("exit0") /\ UNCHANGED <<live, order, Groups, faults>> /\ Rest

\* The order is read back; a policy that is missing is printed and is no reason to fail.  With none of ours ranked beside
\* ranked ones of others the check stops with an error.
Verifies ==
  /\ At("verify") /\ UNCHANGED <<live, order, Groups>> /\ Rest
  /\ LET unranked == (live \cap Ours) \ Range(order)
         stops == order # <<>> /\ unranked # {} /\ unranked = live \cap Ours IN
     \/ /\ UNCHANGED faults
        /\ \/ stops /\ run' = Ended("exit1")
           \/ ~stops /\ StrictestFirst /\ run' = Ended("exit0")
           \/ ~stops /\ (~StrictestFirst \/ Cardinality(unranked) > 1) /\ run' = Ended("exit2")
     \/ Dies

Step == Reads \/ Creates \/ Binds \/ ReadsGroups \/ Ranks \/ Puts \/ Verifies
Next == OthersAct \/ Step \/ \E create, above \in BOOLEAN : Starts(create, above)
Spec == Init /\ [][Next]_vars

\* A run goes on, and the controller is run routinely with the bootstrap of the target.
FairSpec == Spec /\ WF_vars(Step) /\ SF_vars(Starts(TRUE, FALSE))

-----------------------------------------------------------------------------
\* Exit 0 of a run left alone: ours are ranked strict-first, and a posture with a policy
\* and groups governs what it should.
ConvergedAsDeclared ==
  run.pc = "exit0" /\ run.alone =>
    /\ StrictestFirst /\ (run.create => Target \in live)
    /\ Target \in live /\ vmsGroup # "noGroup" => vmsGroup = "posture" /\ (hardware = "posture") = ~tiers

\* "it keeps every foreign policy exactly where it is", and ours come above it by opt-in only: while nobody else acts, a
\* policy of another team keeps its rank, but for policies of ours that get one, and none of ours passes the highest.
LeavesForeign ==
  Puts /\ run.alone /\ ~run.above =>
    \A f \in Foreign \cap Range(order) :
      LET at(o) == CHOOSE i \in DOMAIN o : o[i] = f IN
      /\ f \in Range(order')
      /\ Range(order') = Range(order) => at(order') = at(order)
      /\ (\A i \in 1 .. at(order) : order[i] \notin Ours) => \A i \in 1 .. at(order') : order'[i] \notin Ours
ForeignStaysPut == [][LeavesForeign]_vars

\* Run again and again, from any order, the postures are ranked strict-first and bound if they
\* have groups.
InPlace == Target \in live /\ StrictestFirst /\ vmsGroup \in {"noGroup", "posture"}
GetsThere == []<>InPlace

\* "ranked strict-first" after one run of its own that exits 0 or 2: it does not hold, an unranked policy goes behind a less
\* strict one, exit 2, and only the next run sets it right.
OneRunRanks == run.pc = "exit2" => ~run.alone

\* ForeignStaysPut whoever else acts.  It does not hold: the order that is sent is the one that was read.
ForeignAlwaysStaysPut ==
  [][Puts => Kept(order', Foreign) = Kept(order, Foreign)]_vars
=============================================================================
