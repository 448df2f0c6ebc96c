----------------------------- MODULE LeaverRule -----------------------------
(***************************************************************************)
(* handbook/identity-lifecycle/leavers.py, the pure part: whether an       *)
(* account's person has left, and what a run does with the answer.         *)
(*                                                                         *)
(* A gate is [required, claims, assigned, imported, unresolved]: whether   *)
(* the Entra app requires assignment, its groupMembershipClaims, the       *)
(* groups assigned to it, the imported groups that match one Entra group,  *)
(* and whether an imported group matches none or several.                  *)
(***************************************************************************)
EXTENDS Integers, FiniteSets

Decisions == {"keep", "leaver", "out of scope", "undetermined"}

ClaimGroups(gate) == gate.imported \cap (IF gate.claims = "ApplicationGroup" THEN gate.assigned ELSE gate.imported)

\* present: what the lookup found, "absent", "disabled" or "enabled".  direct, nested: the watched groups the
\* person is in; chosen: assigned to the app in person; role: the account holds a role directly.
PassesEntra(gate, direct, chosen) == gate.required => chosen \/ direct \cap gate.assigned # {}
Carried(gate, direct, nested) ==
  (IF gate.claims = "ApplicationGroup" THEN direct ELSE nested) \cap ClaimGroups(gate)

Decide(federated, present, direct, nested, chosen, role, gate) ==
  CASE ~federated -> "out of scope"
    [] federated /\ present # "enabled" -> "leaver"
    [] federated /\ present = "enabled" ->
         CASE ~PassesEntra(gate, direct, chosen) -> "leaver"
           [] PassesEntra(gate, direct, chosen) /\ (Carried(gate, direct, nested) # {} \/ role) -> "keep"
           [] OTHER -> IF gate.unresolved THEN "undetermined" ELSE "leaver"

Open(decision, enabled, tokens) == decision = "leaver" /\ (enabled \/ tokens # {})

\* A name no lookup finds is a leaver only beside a federated account that was found.
Unfound(decision, present, federated) ==
  IF \E a \in federated : present[a] \in {"disabled", "enabled"} THEN decision
  ELSE [a \in DOMAIN decision |->
          IF a \in federated /\ decision[a] = "leaver" /\ present[a] = "absent" THEN "undetermined" ELSE decision[a]]

\* --execute closes nothing in an organization where this many read gone.
Guard(opened, federated, max) == opened > max /\ opened * 4 > federated

Exit(notHeld, opened, unread, flagged) ==
  CASE notHeld -> 2 [] ~notHeld /\ opened -> 1 [] ~notHeld /\ ~opened /\ unread -> 3
    [] OTHER -> IF flagged THEN 4 ELSE 0
=============================================================================
