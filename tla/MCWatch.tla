------------------------------- MODULE MCWatch -------------------------------
(***************************************************************************)
(* What a schedule watches, on small instances: an organization's signing  *)
(* keys, its credentials, the schedules of all tenants (watch.py) and the  *)
(* sessions of integrations (vcenter_exchange.py).  They share no state,   *)
(* so each behaviour exercises one and the others rest.                    *)
(***************************************************************************)
EXTENDS Integers

CONSTANTS
  Minute, MaxFaults,
  Minutes, Delay, Intervals,
  Creds, Hints, EndsAt, Tenth, WarnDays, Period, Horizon, MaxActs,
  Count, Tenants, Outside, Elsewhere, MaxChanges,
  CensusHour, CensusDay, MaxGap, Span, CoverHours, Cycle, Lengths, Lag, VCs, JobAt, LastStart

VARIABLES
  script,
  phase, ran, oauth, success, attempted, missing, failed, edited, keyFaults,
  now, saml, end, hint, listed, active, held, watch, last, since, told, acts, readFaults,
  orgs, config, run, exits, changes, orgFaults,
  clock, job, census, records, verdict, unreads

Keys == INSTANCE KeyRefresh
Roll == INSTANCE Rollover
Runs == INSTANCE Schedules
Sessions == INSTANCE SessionCensus WITH Hour <- CensusHour, Day <- CensusDay, MaxUnread <- MaxFaults

ASSUME WatchAssumption ==
  /\ Keys!RefreshAssumption /\ Roll!RolloverAssumption /\ Runs!SchedulesAssumption /\ Sessions!CensusAssumption

keys == <<phase, ran, oauth, success, attempted, missing, failed, edited, keyFaults>>
creds == <<now, saml, end, hint, listed, active, held, watch, last, since, told, acts, readFaults>>
schedules == <<orgs, config, run, exits, changes, orgFaults>>
sessions == <<clock, job, census, records, verdict, unreads>>
vars == <<script, keys, creds, schedules, sessions>>

\* Which of its credentials an organization begins with, which tenant's schedule runs first and to which tenant which
\* organization is federated are as good as any other; a first census begins at one of two hours.
One(S) == CHOOSE e \in S : TRUE
Federated == [o \in 1 .. Count |->
  [on |-> TRUE, side |-> "ok", entra |-> "ok", tenant |-> IF o = 1 THEN One(Tenants) ELSE One(Tenants \ {One(Tenants)})]]

KeysInit == script = "keys" /\ Keys!Init
CredsInit == script = "credentials" /\ active = One(Creds) /\ Roll!Init
SchedulesInit == script = "schedules" /\ orgs = Federated /\ Runs!Init /\ run.of = One(Tenants)
SessionsInit == script = "sessions" /\ clock \in {0, CensusHour + 1} /\ Sessions!Init

\* What rests has one state.
KeysRest == script # "keys" /\ phase = 0 /\ oauth = [auto |-> TRUE, add |-> TRUE, hours |-> One(Intervals)] /\ Keys!Init
CredsRest ==
  /\ script # "credentials" /\ saml = TRUE /\ active = One(Creds) /\ hint = [c \in Creds |-> One(Hints)]
  /\ end = [c \in Creds |-> One(EndsAt)] /\ Roll!Init
SchedulesRest ==
  /\ script # "schedules" /\ orgs = Federated /\ config = [t \in Tenants |-> [mode |-> "app", expects |-> TRUE]]
  /\ run = Runs!Idle(One(Tenants)) /\ Runs!Init
SessionsRest == script # "sessions" /\ clock = 0 /\ job = One(Sessions!Jobs) /\ Sessions!Init

Init ==
  /\ script \in {"keys", "credentials", "schedules", "sessions"}
  /\ KeysInit \/ KeysRest
  /\ CredsInit \/ CredsRest
  /\ SchedulesInit \/ SchedulesRest
  /\ SessionsInit \/ SessionsRest

Next ==
  /\ UNCHANGED script
  /\ \/ script = "keys" /\ Keys!Next /\ UNCHANGED <<creds, schedules, sessions>>
     \/ script = "credentials" /\ Roll!Next /\ UNCHANGED <<keys, schedules, sessions>>
     \/ script = "schedules" /\ Runs!Next /\ UNCHANGED <<keys, creds, sessions>>
     \/ script = "sessions" /\ Sessions!Next /\ UNCHANGED <<keys, creds, schedules>>

Spec == Init /\ [][Next]_vars

\* The types, and below the promises each module states and explains, of the script of the behaviour.
TypeOK ==
  CASE script = "keys" -> Keys!TypeOK
    [] script = "credentials" -> Roll!TypeOK
    [] script = "schedules" -> Runs!TypeOK
    [] script = "sessions" -> Sessions!TypeOK

\* What a run says is so: a refresh that fails (KeyRefresh), exit 0 and exit 2 for a credential and for the schedules of
\* all tenants together (Rollover, Schedules), exits 0, 1 and 4 of a comparison of session records (SessionCensus).
ExitIsTrue ==
  /\ script = "keys" => Keys!FailIsReal
  /\ script = "credentials" => Roll!ExitIsTrue
  /\ script = "schedules" => Runs!ExitZeroIsTrue /\ Runs!ExitTwoIsTrue
  /\ script = "sessions" => Sessions!CompareIsTrue

\* Nothing stops sign-in unsaid: the credential that ends (Rollover), the key the organization does not hold longer
\* than its interval and an hour (KeyRefresh).
EndIsForetold ==
  /\ script = "keys" => Keys!OutageIsBounded /\ Keys!OutageIsSeen
  /\ script = "credentials" => Roll!EndIsForetold
=============================================================================
