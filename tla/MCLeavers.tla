----------------------------- MODULE MCLeavers -----------------------------
(* Two people and a local account; a group that is assigned and imported. *)
EXTENDS Leavers, TLC

CONSTANTS a1, a2, l1, g1, g2, t1, t2

Absent == [present |-> "absent", direct |-> {}, nested |-> {}, chosen |-> FALSE]
Off == [present |-> "disabled", direct |-> {g1}, nested |-> {g1}, chosen |-> FALSE]
Member == [present |-> "enabled", direct |-> {g1}, nested |-> {g1}, chosen |-> FALSE]
Nested == [present |-> "enabled", direct |-> {}, nested |-> {g1}, chosen |-> FALSE]
Chosen == [present |-> "enabled", direct |-> {g2}, nested |-> {g2}, chosen |-> TRUE]
MCStandings == {Absent, Off, Member, Nested, Chosen}

\* The first account in every way, its record plain or with a role and an email the platform refuses; the second
\* only there or gone.
Start(odd, one, other) ==
  [account |-> (a1 :> [enabled |-> TRUE, role |-> odd, email |-> odd]) @@ (a2 :> Blank) @@ (l1 :> Blank),
   token |-> (a1 :> {t1}) @@ (a2 :> {}) @@ (l1 :> {}),
   entra |-> (a1 :> one) @@ (a2 :> other) @@ (l1 :> Absent)]
MCStarts ==
  {Start(FALSE, one, other) : one \in MCStandings, other \in {Absent, Member}}
    \cup {Start(TRUE, one, Absent) : one \in {Absent, Nested}}

Gate(required, claims, unresolved) ==
  [required |-> required, claims |-> claims, assigned |-> {g1}, imported |-> {g1, g2}, unresolved |-> unresolved]
MCGates == {Gate(TRUE, "ApplicationGroup", FALSE), Gate(FALSE, "All", TRUE)}
=============================================================================
