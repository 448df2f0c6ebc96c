------------------------------- MODULE Broker -------------------------------
(***************************************************************************)
(* The elevation broker of handbook/temporary-elevation/broker.py: the     *)
(* approval commands (grant, revoke), the scope reconciler and its         *)
(* heartbeat.                                                              *)
(*                                                                         *)
(* Every command is an operating-system process of its own.  The processes *)
(* share three things: the grants file, which a command loads whole when   *)
(* it starts and replaces whole when it ends; the heartbeat file; and the  *)
(* role bindings on the platform, which an administrator also edits.  What *)
(* a command loaded is its private copy until it saves, so Procs with one  *)
(* element is the broker run one command at a time, and Procs with more is *)
(* the broker as the operating system may run it.                          *)
(*                                                                         *)
(* A subject stands for one (project, kind, principal) of the code, a role *)
(* for its position in ROLE_LADDER, and a grant id for the order in which  *)
(* the commands drew their uuid, which is also the order of the file.      *)
(***************************************************************************)
EXTENDS Integers, FiniteSets

CONSTANTS
  Subjects,     \* who a grant can name
  Procs,        \* command processes that can run at the same time
  Destructive,  \* DESTRUCTIVE: the actions an action grant can list
  TopRole,      \* length of ROLE_LADDER
  MaxHours,     \* MAX_HOURS, in clock ticks
  MaxAge,       \* --max-age-minutes of the heartbeat command, in clock ticks
  NoBinding,    \* the subject has no binding in the project
  Custom,       \* a role outside ROLE_LADDER
  NoGrant,      \* no grant of this id in a file
  MaxGrants, MaxClock, MaxFaults, MaxEdits   \* bounds on what a run explores

Ids == 1..MaxGrants
Ladder == 1..TopRole
Roles == Ladder \cup {Custom}
Held == Roles \cup {NoBinding}

Grant ==
  [axis : {"scope", "action"}, subject : Subjects, role : Held, baseline : Held,
   actions : SUBSET Destructive, expires : Nat, state : {"ACTIVE", "REVOKED", "EXPIRED"},
   revokedAt : Nat, reverted : BOOLEAN]
Files == [Ids -> Grant \cup {NoGrant}]

ASSUME BrokerAssumption ==
  /\ TopRole \in Nat /\ MaxHours \in Nat /\ MaxAge \in Nat
  /\ MaxGrants \in Nat /\ MaxClock \in Nat /\ MaxFaults \in Nat /\ MaxEdits \in Nat
  /\ NoBinding \notin Nat /\ Custom \notin Nat /\ NoBinding # Custom
  /\ NoGrant \notin Grant

VARIABLES
  file,       \* GRANTS_FILE: the grant of each id
  issued,     \* how many ids have been drawn
  binding,    \* the platform: the role each subject holds
  heartbeat,  \* HEARTBEAT_FILE
  clock,      \* the time of day
  proc,       \* the running commands
  raised,     \* history: the broker raised this binding and nobody has set it since
  owned,      \* history: the roles each subject was given by an administrator
  faults, edits  \* how much of MaxFaults and MaxEdits is used

vars == <<file, issued, binding, heartbeat, clock, proc, raised, owned, faults, edits>>

EmptyFile == [i \in Ids |-> NoGrant]
Command ==
  [pc : {"idle", "baseline", "save", "visit", "write", "readback", "beat"}, now : Nat,
   copy : Files, id : Nat, todo : SUBSET Ids, apply : BOOLEAN, failed : BOOLEAN]
Idle == [pc |-> "idle", now |-> 0, copy |-> EmptyFile, id |-> 0, todo |-> {},
         apply |-> FALSE, failed |-> FALSE]

-----------------------------------------------------------------------------
(* The grant record. *)

\* Mutant: only the time is looked at.
InWindow(g, t) == t < g.expires

IsLive(g, t) == g.state = "ACTIVE" /\ t < g.expires

IsScope(g) == g # NoGrant /\ g.axis = "scope"

\* Mutants, each the bug a slip in the definition after it would be.
OpenActiveIds(f) == {i \in Ids : IsScope(f[i]) /\ ~f[i].reverted /\ f[i].state = "ACTIVE"}
OverlapsLive(f, s, t) == \E i \in Ids : IsScope(f[i]) /\ f[i].subject = s /\ IsLive(f[i], t)

\* The scope grants a pass has to look at, and those that refuse an overlap.
OpenIds(f) == {i \in Ids : IsScope(f[i]) /\ ~f[i].reverted}
Overlaps(f, s, t) ==
  \E i \in Ids : /\ IsScope(f[i]) /\ f[i].subject = s
                 /\ IsLive(f[i], t) \/ ~f[i].reverted

\* Where a pass wants the binding, and what it records once the binding is there.
Want(g, t) == IF IsLive(g, t) THEN g.role ELSE g.baseline
SettleForgets(g) == [g EXCEPT !.reverted = TRUE, !.state = "EXPIRED"]
Settle(g) ==
  [g EXCEPT !.reverted = TRUE, !.state = IF g.state = "ACTIVE" THEN "EXPIRED" ELSE g.state]

ScopeGrant(s, r, t) ==
  [axis |-> "scope", subject |-> s, role |-> r, baseline |-> NoBinding, actions |-> {},
   expires |-> t, state |-> "ACTIVE", revokedAt |-> 0, reverted |-> FALSE]
ActionGrant(s, acts, t) ==
  [axis |-> "action", subject |-> s, role |-> NoBinding, baseline |-> NoBinding, actions |-> acts,
   expires |-> t, state |-> "ACTIVE", revokedAt |-> 0, reverted |-> TRUE]

-----------------------------------------------------------------------------
TypeOK ==
  /\ file \in Files
  /\ \A i \in Ids : IsScope(file[i]) => file[i].role \in Ladder /\ file[i].baseline \in Ladder
  /\ issued \in 0..MaxGrants
  /\ binding \in [Subjects -> Held]
  /\ heartbeat \in [at : Int, ok : BOOLEAN]
  /\ clock \in Nat
  /\ proc \in [Procs -> Command]
  /\ raised \in [Subjects -> BOOLEAN]
  /\ owned \in [Subjects -> SUBSET Roles]
  /\ faults \in Nat /\ edits \in Nat

Init ==
  /\ file = EmptyFile /\ issued = 0
  /\ binding \in [Subjects -> Held]
  /\ heartbeat = [at |-> -1, ok |-> FALSE]
  /\ clock = 0
  /\ proc = [p \in Procs |-> Idle]
  /\ raised = [s \in Subjects |-> FALSE]
  /\ owned = [s \in Subjects |-> {binding[s]} \ {NoBinding}]
  /\ faults = 0 /\ edits = 0

-----------------------------------------------------------------------------
(* grant and revoke: load, read the baseline, save.  A refusal changes nothing and is a stutter. *)

\* cmd_grant --scope up to the overlap check; the draft joins the private copy.
ScopeGrantStarts(p, s, r, h) ==
  /\ proc[p].pc = "idle" /\ issued < MaxGrants
  /\ ~Overlaps(file, s, clock)
  /\ issued' = issued + 1
  /\ proc' = [proc EXCEPT ![p] =
       [Idle EXCEPT !.pc = "baseline", !.now = clock, !.id = issued + 1,
                    !.copy = [file EXCEPT ![issued + 1] = ScopeGrant(s, r, clock + h)]]]
  /\ UNCHANGED <<file, binding, heartbeat, clock, raised, owned, faults, edits>>

\* Mutant: the non-member is not refused.
ScopeGrantReadsAny(p) ==
  LET i == proc[p].id
      g == proc[p].copy[i]
      base == binding[g.subject]
  IN /\ proc[p].pc = "baseline"
     /\ proc' = [proc EXCEPT ![p] =
          IF base \notin Ladder \/ base < g.role
          THEN [@ EXCEPT !.pc = "save", !.copy[i].baseline = base]
          ELSE Idle]
     /\ UNCHANGED <<file, issued, binding, heartbeat, clock, raised, owned, faults, edits>>

\* cmd_grant reads the role held now; a non-member and a role not below the granted one are refused.
ScopeGrantReads(p) ==
  LET i == proc[p].id
      g == proc[p].copy[i]
      base == binding[g.subject]
  IN /\ proc[p].pc = "baseline"
     /\ proc' = [proc EXCEPT ![p] =
          IF base \in Ladder /\ base < g.role
          THEN [@ EXCEPT !.pc = "save", !.copy[i].baseline = base]
          ELSE Idle]
     /\ UNCHANGED <<file, issued, binding, heartbeat, clock, raised, owned, faults, edits>>

\* cmd_grant --action: no network read between the load and the save.
ActionGrantStarts(p, s, acts, h) ==
  /\ proc[p].pc = "idle" /\ issued < MaxGrants
  /\ issued' = issued + 1
  /\ proc' = [proc EXCEPT ![p] =
       [Idle EXCEPT !.pc = "save", !.now = clock, !.id = issued + 1,
                    !.copy = [file EXCEPT ![issued + 1] = ActionGrant(s, acts, clock + h)]]]
  /\ UNCHANGED <<file, binding, heartbeat, clock, raised, owned, faults, edits>>

\* cmd_revoke up to the save.
RevokeStarts(p, i) ==
  /\ proc[p].pc = "idle" /\ file[i] # NoGrant
  /\ proc' = [proc EXCEPT ![p] =
       [Idle EXCEPT !.pc = "save", !.now = clock, !.id = i,
                    !.copy = [file EXCEPT ![i].state = "REVOKED", ![i].revokedAt = clock]]]
  /\ UNCHANGED <<file, issued, binding, heartbeat, clock, raised, owned, faults, edits>>

\* save_grants of grant and revoke: the whole file becomes the private copy.
Saves(p) ==
  /\ proc[p].pc = "save"
  /\ file' = proc[p].copy
  /\ proc' = [proc EXCEPT ![p] = Idle]
  /\ UNCHANGED <<issued, binding, heartbeat, clock, raised, owned, faults, edits>>

-----------------------------------------------------------------------------
(* reconcile: one pass over the open scope grants of the private copy, in file order. *)

PassStarts(p, apply) ==
  /\ proc[p].pc = "idle"
  /\ proc' = [proc EXCEPT ![p] =
       [Idle EXCEPT !.pc = "visit", !.now = clock, !.copy = file, !.todo = OpenIds(file),
                    !.apply = apply]]
  /\ UNCHANGED <<file, issued, binding, heartbeat, clock, raised, owned, faults, edits>>

Turn(p) == CHOOSE i \in proc[p].todo : \A j \in proc[p].todo : i <= j

\* The pass is done with grant i: settled when its window has closed, else as it was.
Done(p, i) ==
  [proc[p] EXCEPT !.pc = "visit", !.id = 0, !.todo = @ \ {i},
                  !.copy[i] = IF IsLive(@, proc[p].now) THEN @ ELSE Settle(@)]
\* Mutant: a failed write counts as done.
FailedSettles(p, i) == [Done(p, i) EXCEPT !.failed = TRUE]
Failed(p, i) == [proc[p] EXCEPT !.pc = "visit", !.id = 0, !.todo = @ \ {i}, !.failed = TRUE]

\* binding_role, then the decision: nothing to write, plan only, or a write to make.
PassVisits(p) ==
  /\ proc[p].pc = "visit" /\ proc[p].todo # {}
  /\ LET i == Turn(p)
         g == proc[p].copy[i]
         have == binding[g.subject]
         settled == have \in {NoBinding, Want(g, proc[p].now)}
     IN \/ settled /\ proc' = [proc EXCEPT ![p] = Done(p, i)]
        \/ ~settled /\ proc[p].apply /\ proc' = [proc EXCEPT ![p].pc = "write", ![p].id = i]
        \/ ~settled /\ ~proc[p].apply /\ proc' = [proc EXCEPT ![p].todo = @ \ {i}]
  /\ UNCHANGED <<file, issued, binding, heartbeat, clock, raised, owned, faults, edits>>

PassReadFails(p) ==
  /\ proc[p].pc = "visit" /\ proc[p].todo # {} /\ faults < MaxFaults
  /\ proc' = [proc EXCEPT ![p] = Failed(p, Turn(p))]
  /\ faults' = faults + 1
  /\ UNCHANGED <<file, issued, binding, heartbeat, clock, raised, owned, edits>>

\* The server-side apply of set_binding_role: it sets the role whatever the binding is by now, and
\* creates the binding when there is none.
Applies(p) ==
  LET g == proc[p].copy[proc[p].id]
  IN /\ binding' = [binding EXCEPT ![g.subject] = Want(g, proc[p].now)]
     /\ raised' = [raised EXCEPT ![g.subject] = IsLive(g, proc[p].now)]

PassWrites(p) ==
  /\ proc[p].pc = "write"
  /\ Applies(p)
  /\ proc' = [proc EXCEPT ![p].pc = "readback"]
  /\ UNCHANGED <<file, issued, heartbeat, clock, owned, faults, edits>>

\* The write is refused, or it lands and its answer is lost: the code cannot tell.
PassWriteFails(p) ==
  /\ proc[p].pc = "write" /\ faults < MaxFaults
  /\ Applies(p) \/ UNCHANGED <<binding, raised>>
  /\ proc' = [proc EXCEPT ![p] = Failed(p, proc[p].id)]
  /\ faults' = faults + 1
  /\ UNCHANGED <<file, issued, heartbeat, clock, owned, edits>>

\* The direct read after the write, compared with what was wanted.
PassReadsBack(p) ==
  LET i == proc[p].id
      g == proc[p].copy[i]
  IN /\ proc[p].pc = "readback"
     /\ proc' = [proc EXCEPT ![p] = IF binding[g.subject] = Want(g, proc[p].now)
                                    THEN Done(p, i) ELSE Failed(p, i)]
     /\ UNCHANGED <<file, issued, binding, heartbeat, clock, raised, owned, faults, edits>>

PassReadBackFails(p) ==
  /\ proc[p].pc = "readback" /\ faults < MaxFaults
  /\ proc' = [proc EXCEPT ![p] = Failed(p, proc[p].id)]
  /\ faults' = faults + 1
  /\ UNCHANGED <<file, issued, binding, heartbeat, clock, raised, owned, edits>>

\* A plan saves nothing; a pass with --apply saves what it loaded with its own marks on it.
PassEnds(p) ==
  /\ proc[p].pc = "visit" /\ proc[p].todo = {}
  /\ IF proc[p].apply
     THEN /\ file' = proc[p].copy
          /\ proc' = [proc EXCEPT ![p].pc = "beat"]
     ELSE /\ proc' = [proc EXCEPT ![p] = Idle]
          /\ UNCHANGED file
  /\ UNCHANGED <<issued, binding, heartbeat, clock, raised, owned, faults, edits>>

\* Mutant: the heartbeat does not say that something failed.
PassBeatsOk(p) ==
  /\ proc[p].pc = "beat"
  /\ heartbeat' = [at |-> proc[p].now, ok |-> TRUE]
  /\ proc' = [proc EXCEPT ![p] = Idle]
  /\ UNCHANGED <<file, issued, binding, clock, raised, owned, faults, edits>>

PassBeats(p) ==
  /\ proc[p].pc = "beat"
  /\ heartbeat' = [at |-> proc[p].now, ok |-> ~proc[p].failed]
  /\ proc' = [proc EXCEPT ![p] = Idle]
  /\ UNCHANGED <<file, issued, binding, clock, raised, owned, faults, edits>>

-----------------------------------------------------------------------------
(* The surroundings: a command dies or stops on a failed sign-in, time passes, an administrator *)
(* edits a binding.                                                                             *)

Dies(p) ==
  /\ proc[p].pc # "idle" /\ faults < MaxFaults
  /\ proc' = [proc EXCEPT ![p] = Idle]
  /\ faults' = faults + 1
  /\ UNCHANGED <<file, issued, binding, heartbeat, clock, raised, owned, edits>>

Tick ==
  /\ clock < MaxClock
  /\ clock' = clock + 1
  /\ UNCHANGED <<file, issued, binding, heartbeat, proc, raised, owned, faults, edits>>

AdminEdits(s, r) ==
  /\ edits < MaxEdits /\ r # binding[s]
  /\ binding' = [binding EXCEPT ![s] = r]
  /\ raised' = [raised EXCEPT ![s] = FALSE]
  /\ owned' = [owned EXCEPT ![s] = @ \cup ({r} \ {NoBinding})]
  /\ edits' = edits + 1
  /\ UNCHANGED <<file, issued, heartbeat, clock, proc, faults>>

-----------------------------------------------------------------------------
\* What a running command does next when nothing fails.
Step(p) ==
  \/ ScopeGrantReads(p) \/ Saves(p)
  \/ PassVisits(p) \/ PassWrites(p) \/ PassReadsBack(p) \/ PassEnds(p) \/ PassBeats(p)

Starts(p) ==
  \/ \E s \in Subjects, h \in 1..MaxHours :
       \/ \E r \in Ladder : ScopeGrantStarts(p, s, r, h)
       \/ \E acts \in (SUBSET Destructive) \ {{}} : ActionGrantStarts(p, s, acts, h)
  \/ \E i \in Ids : RevokeStarts(p, i)
  \/ \E apply \in BOOLEAN : PassStarts(p, apply)

Fails(p) == PassReadFails(p) \/ PassWriteFails(p) \/ PassReadBackFails(p) \/ Dies(p)

Next ==
  \/ \E p \in Procs : Starts(p) \/ Step(p) \/ Fails(p)
  \/ Tick
  \/ \E s \in Subjects, r \in Held : AdminEdits(s, r)

Spec == Init /\ [][Next]_vars

\* Time passes, a command that runs gets on with it, and the schedule gets its pass in.
FairSpec ==
  /\ Spec
  /\ WF_vars(Tick)
  /\ \A p \in Procs : WF_vars(Step(p)) /\ SF_vars(PassStarts(p, TRUE))

-----------------------------------------------------------------------------
(* Properties. *)

ClosedAt(g, t) == ~IsLive(g, t)

\* cmd_heartbeat says FRESH.
Fresh == heartbeat.at >= 0 /\ heartbeat.ok /\ clock - heartbeat.at <= MaxAge

\* Whoever holds a role the broker raised is covered by a grant of exactly that role that the file
\* still carries as not yet reverted: an elevation is never without the record that will end it.
RaisedIsRecorded ==
  \A s \in Subjects : raised[s] =>
    \E i \in OpenIds(file) : file[i].subject = s /\ file[i].role = binding[s]

\* A baseline is a role the subject was given by an administrator, never one the broker raised it to
\* (cmd_grant records it at approval and refuses an overlap for that reason).
BaselineWasOwned ==
  \A i \in OpenIds(file) : file[i].baseline \in owned[file[i].subject]

\* While the heartbeat command says FRESH, nobody is elevated under a window that closed longer than
\* --max-age-minutes ago: the alert covers the one failure that leaves somebody elevated.
Overdue(g) ==
  \/ g.expires + MaxAge < clock
  \/ g.state = "REVOKED" /\ g.revokedAt + MaxAge < clock
ElevationBounded ==
  Fresh => \A s \in Subjects : raised[s] =>
    \E i \in OpenIds(file) : file[i].subject = s /\ file[i].role = binding[s] /\ ~Overdue(file[i])

\* What the file says only moves forward: an approval stays in it, a revoked grant stays revoked, and
\* a reverted one stays reverted (save_grants replaces the whole file each time).
RecordMovesForward ==
  [][\A i \in Ids : file[i] # NoGrant =>
       /\ file'[i] # NoGrant
       /\ file[i].state = "REVOKED" => file'[i].state = "REVOKED"
       /\ file[i].reverted => file'[i].reverted]_vars

\* "REVOKED ...; the next reconcile reverts its binding": a grant that was revoked and is in the file is not given back.
RevocationKept ==
  [][\A i \in Ids : file[i] # NoGrant /\ file[i].state = "REVOKED" /\ file'[i] # NoGrant =>
       file'[i].state = "REVOKED"]_vars

\* The broker creates no binding for a subject that has none: only an administrator does.
\* It does not hold: an administrator who removes the binding between the pass's read and its server-side
\* apply sees it created again.
NoAccessCreated ==
  [][\A s \in Subjects : binding[s] = NoBinding /\ binding'[s] # NoBinding => edits' # edits]_vars

\* A window that has closed, by time or by revocation, is eventually reverted and recorded so.
ClosedIsReverted ==
  \A i \in Ids : (IsScope(file[i]) /\ ClosedAt(file[i], clock)) ~> (IsScope(file[i]) /\ file[i].reverted)
=============================================================================
