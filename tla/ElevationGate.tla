---------------------------- MODULE ElevationGate ----------------------------
(***************************************************************************)
(* The broker's decision, cmd_check of handbook/temporary-elevation/       *)
(* broker.py, beside the commands of module Broker.  A check fixes its     *)
(* time when it starts; then it signs in as the caller, reads the          *)
(* deployment as the service identity, and only then loads the grants      *)
(* file, so grants, revocations and transfers of ownership can fall        *)
(* between its steps.                                                      *)
(***************************************************************************)
EXTENDS Broker

CONSTANTS
  Checks,     \* check processes that can run at the same time
  Harmless,   \* actions outside DESTRUCTIVE
  NoOwner     \* the deployment does not exist

VARIABLES
  owner,      \* the platform: who owns the deployment
  check,      \* the running and finished checks
  revoked     \* history: the ids whose revocation was printed

gateVars == <<owner, check, revoked>>

Asking == [pc |-> "idle", now |-> 0, caller |-> NoOwner, action |-> "", before |-> {},
           verdict |-> "none"]
Says(v) == [Asking EXCEPT !.verdict = v]

GateInit ==
  /\ Init
  /\ owner \in Subjects \cup {NoOwner}
  /\ check = [c \in Checks |-> Asking]
  /\ revoked = {}

\* The caller is who the caller's own session says it is.
CheckStarts(c, s, a) ==
  /\ check[c].pc = "idle"
  /\ check' = [check EXCEPT ![c] = [Asking EXCEPT !.pc = "owner", !.now = clock, !.caller = s,
                                                  !.action = a, !.before = revoked]]
  /\ UNCHANGED <<vars, owner, revoked>>

\* Ownership first and absolute; an action off the destructive list needs nothing more.
CheckReadsOwner(c) ==
  /\ check[c].pc = "owner"
  /\ check' = [check EXCEPT ![c] =
       IF owner # check[c].caller THEN Says("DENY")
       ELSE IF check[c].action \notin Destructive THEN Says("ALLOW")
       ELSE [@ EXCEPT !.pc = "grants"]]
  /\ UNCHANGED <<vars, owner, revoked>>

\* The grants that cover an action of a caller, judged at time t.
Covering(s, a, t) ==
  {i \in Ids : /\ file[i] # NoGrant /\ file[i].axis = "action"
               /\ IsLive(file[i], t) /\ file[i].subject = s /\ a \in file[i].actions}

CheckDecides(c) ==
  LET k == check[c]
  IN /\ k.pc = "grants"
     /\ check' = [check EXCEPT ![c] =
          Says(IF Covering(k.caller, k.action, k.now) # {} THEN "ALLOW" ELSE "DENY")]
     /\ UNCHANGED <<vars, owner, revoked>>

\* A sign-in or a read fails: exit 3, no verdict.
CheckFails(c) ==
  /\ check[c].pc # "idle" /\ faults < MaxFaults
  /\ check' = [check EXCEPT ![c] = Asking]
  /\ faults' = faults + 1
  /\ UNCHANGED <<file, issued, binding, heartbeat, clock, proc, raised, owned, edits, owner, revoked>>

\* The deployment is given to somebody else, or deleted.
Transfers(s) ==
  /\ edits < MaxEdits /\ owner # s
  /\ owner' = s /\ edits' = edits + 1
  /\ UNCHANGED <<file, issued, binding, heartbeat, clock, proc, raised, owned, faults, check, revoked>>

\* A command of module Broker; the save of a revocation prints it.
Revokes(p) == Saves(p) /\ proc[p].copy[proc[p].id].state = "REVOKED"
Commands ==
  /\ Next
  /\ revoked' = revoked \cup {proc[p].id : p \in {q \in Procs : Revokes(q)}}
  /\ UNCHANGED <<owner, check>>

GateNext ==
  \/ Commands
  \/ \E c \in Checks :
       \/ \E s \in Subjects, a \in Destructive \cup Harmless : CheckStarts(c, s, a)
       \/ CheckReadsOwner(c) \/ CheckDecides(c) \/ CheckFails(c)
  \/ \E s \in Subjects \cup {NoOwner} : Transfers(s)

GateSpec == GateInit /\ [][GateNext]_<<vars, gateVars>>

-----------------------------------------------------------------------------
Allows(c) == check[c].pc = "grants" /\ check'[c].verdict = "ALLOW"

\* A destructive action is allowed only under a grant that nobody had revoked when the caller asked,
\* whatever ran since: a revocation that was printed is never answered ALLOW.
RevokedIsDenied ==
  [][\A c \in Checks : Allows(c) =>
       Covering(check[c].caller, check[c].action, check[c].now) \ check[c].before # {}]_<<vars, gateVars>>

\* "a grant that is live now": when ALLOW is printed some covering grant is live at that moment.
\* It does not hold: the check's time is fixed before two sign-ins and two reads.
AllowedWhileLive ==
  [][\A c \in Checks : Allows(c) =>
       Covering(check[c].caller, check[c].action, clock) # {}]_<<vars, gateVars>>
=============================================================================
