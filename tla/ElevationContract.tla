-------------------------- MODULE ElevationContract --------------------------
(***************************************************************************)
(* What the scope axis of the broker promises, without files, passes or    *)
(* processes: a raised role is held only under an entry in the register;   *)
(* an entry ends only when its window has closed and nothing it raised is  *)
(* left; and a revoked entry never raises again.                           *)
(***************************************************************************)
EXTENDS Integers

CONSTANTS Subjects, TopRole, NoBinding, Custom, NoEntry

VARIABLES
  entry,    \* the register: what each subject is allowed to be raised to
  binding,  \* the role each subject holds
  raised,   \* the broker raised it, and nobody has set it since
  clock

vars == <<entry, binding, raised, clock>>

Ladder == 1..TopRole
Held == Ladder \cup {Custom, NoBinding}
Entries == {e \in [role : Ladder, baseline : Ladder, expires : Nat, revoked : BOOLEAN] :
              e.baseline < e.role}

Closed(e) == e.revoked \/ clock >= e.expires

Init ==
  /\ entry = [s \in Subjects |-> NoEntry]
  /\ binding \in [Subjects -> Held]
  /\ raised = [s \in Subjects |-> FALSE]
  /\ clock \in Nat

Approve(s) ==
  /\ entry[s] = NoEntry
  /\ entry'[s] \in Entries /\ ~entry'[s].revoked
  /\ entry' = [entry EXCEPT ![s] = entry'[s]]
  /\ UNCHANGED <<binding, raised, clock>>

Revoke(s) ==
  /\ entry[s] # NoEntry
  /\ entry' = [entry EXCEPT ![s].revoked = TRUE]
  /\ UNCHANGED <<binding, raised, clock>>

\* A pass that began inside the window may still raise just after it.
Raise(s) ==
  /\ entry[s] # NoEntry /\ ~entry[s].revoked
  /\ binding' = [binding EXCEPT ![s] = entry[s].role]
  /\ raised' = [raised EXCEPT ![s] = TRUE]
  /\ UNCHANGED <<entry, clock>>

Lower(s) ==
  /\ entry[s] # NoEntry /\ Closed(entry[s])
  /\ binding' = [binding EXCEPT ![s] = entry[s].baseline]
  /\ raised' = [raised EXCEPT ![s] = FALSE]
  /\ UNCHANGED <<entry, clock>>

\* One pass ends the entries of several subjects at once.
End(S) ==
  /\ \A s \in S : entry[s] # NoEntry /\ Closed(entry[s]) /\ ~raised[s]
  /\ entry' = [s \in Subjects |-> IF s \in S THEN NoEntry ELSE entry[s]]
  /\ UNCHANGED <<binding, raised, clock>>

Outside(s, r) ==
  /\ binding' = [binding EXCEPT ![s] = r]
  /\ raised' = [raised EXCEPT ![s] = FALSE]
  /\ UNCHANGED <<entry, clock>>

Tick == clock' = clock + 1 /\ UNCHANGED <<entry, binding, raised>>

Next ==
  \/ \E s \in Subjects :
       \/ Approve(s) \/ Revoke(s) \/ Raise(s) \/ Lower(s)
       \/ \E r \in Held : Outside(s, r)
  \/ \E S \in SUBSET Subjects : End(S)
  \/ Tick

Spec == Init /\ [][Next]_vars
=============================================================================
