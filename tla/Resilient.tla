----------------------------- MODULE Resilient -----------------------------
(***************************************************************************)
(* The three guarantees of resilient.py.  They share no state, so each     *)
(* behaviour exercises one of them and the other two rest.                 *)
(***************************************************************************)
EXTENDS Integers

CONSTANTS
  Procs, Identities, IdentityOf, Nobody, Life, Buffer, MintDelay, OpenTogether, MaxClock, MaxMints, MaxTokenFaults,
  Objects, Size, MaxPages, MaxChanges,
  Demos, DemosTogether, MaxFaults

VARIABLES
  guarantee,
  now, minted, revoked, file, client, tokenFaults,
  collection, server, pc, page, items, chunk, total, steady, changes,
  groups, late, demo, faults

Client == INSTANCE TokenClient WITH
  Together <- OpenTogether, MaxFaults <- MaxTokenFaults, faults <- tokenFaults
Walk == INSTANCE PagedRead
Write == INSTANCE EnsuredWrite WITH Together <- DemosTogether

ASSUME ResilientAssumption ==
  Client!TokenAssumption /\ Walk!PageAssumption /\ Write!EnsureAssumption

token == <<now, minted, revoked, file, client, tokenFaults>>
paging == <<collection, server, pc, page, items, chunk, total, steady, changes>>
effect == <<groups, late, demo, faults>>

Init ==
  /\ guarantee \in {"token", "paging", "effect"}
  /\ Client!Init /\ Walk!Init /\ Write!Init
  /\ guarantee # "paging" =>
       collection = <<>> /\ server = [cap |-> Size, strides |-> "asked", beyond |-> 0, declares |-> TRUE]

Next ==
  /\ UNCHANGED guarantee
  /\ \/ guarantee = "token" /\ Client!Next /\ UNCHANGED <<paging, effect>>
     \/ guarantee = "paging" /\ Walk!Next /\ UNCHANGED <<token, effect>>
     \/ guarantee = "effect" /\ Write!Next /\ UNCHANGED <<token, paging>>

Spec == Init /\ [][Next]_<<guarantee, token, paging, effect>>

\* The types of all three, and the promises each module states and explains.
TypeOK == Client!TypeOK /\ Walk!TypeOK /\ Write!TypeOK

\* A 401 that reaches the caller was the answer to a token minted for that very call (TokenClient).
RefusedWasFresh == Client!RefusedWasFresh

\* A bearer that is used again has not expired (TokenClient).
ReusedHasLife == Client!ReusedHasLife

\* A walk of a collection that stood still returns each object once and in order (PagedRead).
WholeWhenStill == Walk!WholeWhenStill

\* Exit 0 means written once and nothing left; a create is sent twice only when another run took the group; and a run
\* whose requests were answered leaves nothing behind, though a check refused its write (EnsuredWrite).
CleanExit == Write!CleanExit /\ Write!SentOnce /\ Write!RefusedIsRemoved

=============================================================================
