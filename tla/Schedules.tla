----------------------------- MODULE Schedules ------------------------------
(***************************************************************************)
(* handbook/federation-operations/watch.py, run once per Entra tenant: who *)
(* judges which organization, and what the exit of a run then says.        *)
(*                                                                         *)
(* A provider's organizations are federated to several tenants.  Each      *)
(* schedule has the read-only app of its tenant, or is declared to do      *)
(* without, and leaves the organizations of other tenants to theirs.       *)
(* Meanwhile organizations are federated, moved and broken.  The checks of *)
(* one organization are KeyRefresh and Rollover; here they have a state.   *)
(***************************************************************************)
EXTENDS Integers

CONSTANTS
  Count,                    \* the organizations, as the list gives them
  Tenants,                  \* the tenants a schedule is kept for; its ENTRA_TENANT_ID
  Outside, Elsewhere,       \* a tenant without one; a provider other than Entra ID
  MaxChanges, MaxFaults     \* bounds

SchedulesAssumption ==
  /\ {Outside, Elsewhere} \cap Tenants = {} /\ Outside # Elsewhere
  /\ {Count, MaxChanges, MaxFaults} \subseteq Nat

Orgs == 1 .. Count

VARIABLES
  orgs,     \* what each organization is: whether federated, to whom, and the state of its two sides
  config,   \* how the schedule of each tenant is kept: with the app, declared --provider-only for its tenant or for all,
            \* or neither; and whether it passes --expect-tenants
  run,      \* the run in progress or the last one
  exits,    \* of each schedule the exit of its last run, if that began after the last change
  changes, orgFaults

vars == <<orgs, config, run, exits, changes, orgFaults>>

Stale == -1

States == {"ok", "warn", "unknown", "fail"}
\* side: what the organization's own settings come to; entra: what its app's do, which may not be there.
Organization == [on : {TRUE}, tenant : Tenants \cup {Outside, Elsewhere}, side : States,
                 entra : {"ok", "fail", "missing"}]
Off == [on |-> FALSE, tenant |-> Elsewhere, side |-> "ok", entra |-> "ok"]
Modes == {"app", "declared", "declaredAll", "undeclared"}
Declared == {"declared", "declaredAll"}
Configuration == [mode : Modes, expects : BOOLEAN]
\* What a run has come to: the states of the checks, whether a read failed or a check is owed, whether an organization
\* of its tenant was named, one was kept whose settings were read, one was judged.
Tally == [states : SUBSET States, bad : BOOLEAN, named : BOOLEAN, known : BOOLEAN, judged : BOOLEAN]
NoTally == [states |-> {}, bad |-> FALSE, named |-> FALSE, known |-> FALSE, judged |-> FALSE]
Idle(t) == [pc |-> "idle", of |-> t, at |-> 1, tally |-> NoTally, refused |-> FALSE, quiet |-> FALSE]

TypeOK ==
  /\ orgs \in [Orgs -> Organization \cup {Off}] /\ config \in [Tenants -> Configuration]
  /\ run.pc \in {"idle", "reading"} /\ run.of \in Tenants /\ run.at \in 1 .. Count + 1 /\ run.tally \in Tally
  /\ run.tally.named => run.tally.known
  /\ {run.refused, run.quiet} \subseteq BOOLEAN
  /\ exits \in [Tenants -> {Stale} \cup 0 .. 3]
  /\ changes \in 0 .. MaxChanges /\ orgFaults \in 0 .. MaxFaults

Init ==
  /\ orgs \in [Orgs -> [on : {TRUE}, tenant : Tenants, side : {"ok"}, entra : {"ok"}]]
  /\ \A t \in Tenants : \E o \in Orgs : orgs[o].tenant = t
  /\ config \in [Tenants -> Configuration]
  /\ (\E t \in Tenants : run = Idle(t)) /\ exits = [t \in Tenants |-> Stale] /\ changes = 0 /\ orgFaults = 0

\* An organization is federated, switched off, moved to another provider, broken or mended.
Changes ==
  /\ changes < MaxChanges /\ changes' = changes + 1 /\ exits' = [t \in Tenants |-> Stale] /\ run' = [run EXCEPT !.quiet = FALSE]
  /\ \E o \in Orgs, r \in Organization \cup {Off} : r # orgs[o] /\ orgs' = [orgs EXCEPT ![o] = r]
  /\ UNCHANGED <<config, orgFaults>>

-----------------------------------------------------------------------------
(* A run of the schedule of run.of. *)

Fails == orgFaults < MaxFaults /\ orgFaults' = orgFaults + 1
Platform == <<orgs, config, changes>>
Mode == config[run.of].mode
\* The run names its tenant.
Named == Mode \in {"app", "declared"}

Starts(t) ==
  /\ run.pc = "idle" /\ UNCHANGED Platform /\ exits' = [exits EXCEPT ![t] = Stale]
  /\ \E refused \in BOOLEAN :
       /\ run' = [Idle(t) EXCEPT !.pc = "reading", !.refused = refused, !.quiet = TRUE]
       /\ IF refused THEN config[t].mode = "app" /\ Fails ELSE UNCHANGED orgFaults

Ends(code) ==
  run' = Idle(run.of) /\ exits' = [exits EXCEPT ![run.of] = IF run.quiet THEN code ELSE Stale]

\* No credential, no list, no record, or an error nobody expected.
Stops == run.pc = "reading" /\ Fails /\ Ends(3) /\ UNCHANGED Platform

\* Mutant: what is not on the list is somebody's.
CoverByTenant(tenant) == IF Named /\ tenant \notin {run.of, Elsewhere} THEN "other" ELSE "mine"

\* Whose schedule reads an organization federated to this tenant.
Cover(tenant) ==
  LET uncovered == tenant = Outside /\ config[run.of].expects IN
  CASE uncovered -> "uncovered"
    [] ~uncovered /\ Named /\ tenant \notin {run.of, Elsewhere} -> "other"
    [] OTHER -> "mine"

\* The states of the rollover checks, whether a read failed, and whether they are owed.
Rollover(org) ==
  CASE Mode \in Declared -> [states |-> {}, error |-> FALSE, owed |-> FALSE]
    [] Mode = "undeclared" \/ (Mode = "app" /\ org.tenant = Elsewhere) -> [states |-> {"unknown"}, error |-> FALSE, owed |-> TRUE]
    [] Mode = "app" /\ org.tenant # Elsewhere /\ run.refused -> [states |-> {"unknown"}, error |-> TRUE, owed |-> FALSE]
    [] Mode = "app" /\ org.tenant # Elsewhere /\ ~run.refused ->
         IF org.entra = "missing" THEN [states |-> {"unknown"}, error |-> TRUE, owed |-> FALSE]
         ELSE [states |-> {org.entra}, error |-> FALSE, owed |-> FALSE]

Goes(tally) == run' = [run EXCEPT !.at = @ + 1, !.tally = tally]

\* Mutant: only another schedule's organization shows that the list could be read.
JudgedUnknown(states, bad) ==
  Goes([run.tally EXCEPT !.states = @ \cup states, !.bad = @ \/ bad, !.named = @ \/ orgs[run.at].tenant = run.of,
                         !.judged = @ \/ states # {}])

\* An organization of the run's own, with the states of the checks that were made of it.
Judged(states, bad) ==
  Goes([states |-> run.tally.states \cup states, bad |-> run.tally.bad \/ bad, known |-> TRUE,
         named |-> run.tally.named \/ orgs[run.at].tenant = run.of, judged |-> run.tally.judged \/ states # {}])

\* watch_org; an organization that is off is left out.
ReadsOrg ==
  /\ run.pc = "reading" /\ run.at <= Count /\ UNCHANGED <<Platform, exits>>
  /\ LET org == orgs[run.at]
         cover == Cover(org.tenant)
         rollover == Rollover(org) IN
     \/ ~org.on /\ Goes(run.tally) /\ UNCHANGED orgFaults
     \/ /\ org.on /\ cover # "mine" /\ UNCHANGED orgFaults
        /\ Goes([run.tally EXCEPT !.known = TRUE, !.bad = @ \/ cover = "uncovered"])
     \/ /\ org.on /\ cover = "mine" /\ UNCHANGED orgFaults
        /\ Judged({org.side} \cup rollover.states, rollover.error \/ rollover.owed)
     \/ /\ org.on /\ cover = "mine" /\ Fails     \* one of its reads, at Entra or before
        /\ \E part \in SUBSET ({org.side, "unknown"} \cup rollover.states) : Judged(part, TRUE)
     \/ Fails /\ Goes([run.tally EXCEPT !.bad = TRUE])     \* its settings

\* Mutant: a run that found nothing wrong is a pass.
NoErrors == FALSE

\* The run as a whole: a tenant nobody names, or nothing judged.
RunErrors == (Named /\ run.tally.known /\ ~run.tally.named) \/ ~run.tally.judged

\* exit_code, and what the run as a whole comes to.
Judges ==
  /\ run.pc = "reading" /\ run.at > Count /\ UNCHANGED <<Platform, orgFaults>>
  /\ LET unsure == "unknown" \in run.tally.states \/ run.tally.bad \/ RunErrors IN
     Ends(CASE "fail" \in run.tally.states -> 2
            [] "fail" \notin run.tally.states /\ unsure -> 3
            [] OTHER -> IF "warn" \in run.tally.states THEN 1 ELSE 0)

Next == Changes \/ (\E t \in Tenants : Starts(t)) \/ ReadsOrg \/ Judges \/ Stops

Spec == Init /\ [][Next]_vars

-----------------------------------------------------------------------------
\* Exit 0 of every schedule, with nothing changed since the first of their runs began, means that every federated
\* organization is judged: its own side is sound, and so is Entra's unless its tenant's schedule is declared to do
\* without.  Each is to pass the list of tenants, and one that does is enough.  And no schedule, alone, passes or only warns with
\* nobody of its own to judge: a tenant that is none of the organizations', or federation switched off, is said.
ExitZeroIsTrue ==
  /\ (\A t \in Tenants : exits[t] = 0) /\ (\E t \in Tenants : config[t].expects) =>
       \A o \in Orgs : orgs[o].on =>
         /\ orgs[o].side = "ok"
         /\ orgs[o].entra = "ok" \/ \E t \in Tenants : config[t].mode \in Declared /\ orgs[o].tenant \in {t, Elsewhere}
  /\ \A t \in Tenants : exits[t] \in {0, 1} =>
       \E o \in Orgs : orgs[o].on /\ (config[t].mode \in {"app", "declared"} => orgs[o].tenant = t)

\* Exit 2 of a schedule: something of an organization of its own fails, and it is not what another's schedule reads.
ExitTwoIsTrue ==
  \A t \in Tenants : exits[t] = 2 =>
    \E o \in Orgs :
      /\ orgs[o].on /\ (config[t].mode \in {"app", "declared"} => orgs[o].tenant \in {t, Elsewhere})
      /\ orgs[o].side = "fail" \/ (config[t].mode = "app" /\ orgs[o].entra = "fail")

\* "3 nothing failed, and a read failed ... a record that could not be written": a failure the run found is its exit.
\* It does not hold: an error on writing the record ends the run with 3, whatever it had found.
FailureIsSaid ==
  [][run.pc = "reading" /\ run'.pc = "idle" /\ "fail" \in run.tally.states => exits'[run.of] \in {2, Stale}]_vars
=============================================================================
