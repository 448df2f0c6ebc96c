---------------------------- MODULE KeyRefresh -----------------------------
(***************************************************************************)
(* handbook/federation-operations/watch.py, key_refresh and keys_held: is  *)
(* an organization's refresh of the provider's signing keys on schedule?   *)
(*                                                                         *)
(* VCF Automation looks every hour whether a refresh is due, records the   *)
(* success some seconds after the hour, and refreshes at the first such    *)
(* run a full interval after the last success: a run some seconds short of *)
(* the interval lets an hour more go by.  Meanwhile Entra rolls its keys.  *)
(* Time is kept as ages, so a behaviour has no last hour.                  *)
(***************************************************************************)
EXTENDS Integers

CONSTANTS
  Minute, Minutes,  \* ticks of a minute, minutes of an hour
  Delay,            \* a run records its success at most so many ticks after the hour
  Intervals,        \* keyRefreshFrequencyInHours
  MaxFaults         \* bound: refreshes that fail

RefreshAssumption ==
  /\ {Minute, Minutes} \subseteq Nat \ {0} /\ {Delay, MaxFaults} \subseteq Nat
  /\ Intervals \subseteq Nat \ {0} /\ \E i \in Intervals : \A j \in Intervals : j <= i
  /\ Delay < Minute

VARIABLES
  phase,     \* ticks since the hour
  ran,       \* this hour's run has been
  oauth,     \* the organization's settings: autoRefreshKey, keyRefreshStrategy is ADD, keyRefreshFrequencyInHours
  success,   \* the age of lastKeySuccessfulRefresh
  attempted, \* lastKeyRefreshAttempt is set
  missing,   \* how long Entra has published a key the organization does not hold
  failed,    \* a refresh has failed since the last success
  edited,    \* the interval was changed since the last success
  keyFaults

vars == <<phase, ran, oauth, success, attempted, missing, failed, edited, keyFaults>>

Hour == Minute * Minutes
Longest == CHOOSE i \in Intervals : \A j \in Intervals : j <= i
Ages == 0 .. (Longest + 2) * Hour       \* an age beyond that reads the same
Never == -1
Older(age) == IF age = Never \/ age + 1 \notin Ages THEN age ELSE age + 1

TypeOK ==
  /\ phase \in 0 .. Hour - 1 /\ oauth \in [auto : BOOLEAN, add : BOOLEAN, hours : Intervals]
  /\ {success, missing} \subseteq Ages \cup {Never}
  /\ {ran, attempted, failed, edited} \subseteq BOOLEAN
  /\ success # Never => attempted
  /\ keyFaults \in 0 .. MaxFaults

\* A new organization holds the keys published when it was federated.
Init ==
  /\ phase \in 0 .. Hour - 1 /\ ran = (phase > 0)
  /\ oauth \in [auto : BOOLEAN, add : BOOLEAN, hours : Intervals]
  /\ success = Never /\ missing = Never
  /\ attempted = FALSE /\ failed = FALSE /\ edited = FALSE /\ keyFaults = 0

-----------------------------------------------------------------------------
(* VCF Automation, Entra and an administrator. *)

\* The hourly run comes within Delay of the hour.
Tick ==
  /\ ran \/ phase < Delay
  /\ phase' = (phase + 1) % Hour /\ ran' = (ran /\ phase' # 0)
  /\ success' = Older(success) /\ missing' = Older(missing)
  /\ UNCHANGED <<oauth, attempted, failed, edited, keyFaults>>

Due == oauth.auto /\ (success = Never \/ success >= oauth.hours * Hour)

HourlyRun ==
  /\ ~ran /\ phase <= Delay /\ ran' = TRUE /\ attempted' = (attempted \/ oauth.auto) /\ UNCHANGED <<phase, oauth>>
  /\ \/ ~Due /\ UNCHANGED <<success, missing, failed, edited, keyFaults>>
     \/ Due /\ success' = 0 /\ missing' = Never /\ failed' = FALSE /\ edited' = FALSE /\ UNCHANGED keyFaults
     \/ /\ Due /\ keyFaults < MaxFaults /\ keyFaults' = keyFaults + 1
        /\ failed' = TRUE /\ UNCHANGED <<success, missing, edited>>

\* Entra publishes a key of its own accord, planned or in an emergency.
Rolls ==
  /\ missing = Never /\ missing' = 0
  /\ UNCHANGED <<phase, ran, oauth, success, attempted, failed, edited, keyFaults>>

\* A write of the settings puts the published keys back, and may change the interval, the strategy or the switch.
Writes ==
  /\ oauth' \in [auto : BOOLEAN, add : BOOLEAN, hours : Intervals] /\ missing' = Never
  /\ edited' = (edited \/ oauth'.hours # oauth.hours \/ oauth'.auto # oauth.auto)
  /\ UNCHANGED <<phase, ran, success, attempted, failed, keyFaults>>

Next == Tick \/ HourlyRun \/ Rolls \/ Writes

Spec == Init /\ [][Next]_vars

-----------------------------------------------------------------------------
(* What the watch says of what it reads, at any moment. *)

\* Mutant: no hour of grace for a run that was short of the interval.
PastWithoutGrace == success \div Minute > oauth.hours * Minutes

\* Mutant: the age is not counted in whole minutes.
PastBySeconds == success > (oauth.hours + 1) * Hour

\* Older than the interval plus an hour, in whole minutes.
Past == success \div Minute > (oauth.hours + 1) * Minutes

\* The cases are those of the code, the first that applies.
Verdict ==
  CASE ~oauth.auto -> "fail"
    [] oauth.auto /\ success = Never -> IF attempted THEN "fail" ELSE "unknown"
    [] oauth.auto /\ success # Never /\ Past -> "fail"
    [] OTHER -> IF oauth.add /\ oauth.hours = 1 THEN "ok" ELSE "warn"

-----------------------------------------------------------------------------

\* "a read in those seconds must not fail an organization whose refresh is under way": at no moment is the refresh said
\* to be failing while it is on and none has failed, as long as nobody changes its interval.
FailIsReal == Verdict = "fail" => ~oauth.auto \/ failed \/ edited

\* "An emergency roll stops sign-in for up to the interval plus an hour", in whole minutes: no longer, unless a refresh
\* failed.
OutageIsBounded ==
  oauth.auto /\ ~failed /\ ~edited => missing \div Minute <= (oauth.hours + 1) * Minutes

\* The converse: an outage longer than that is not passed over as on schedule.
OutageIsSeen == ~edited /\ missing \div Minute > (oauth.hours + 1) * Minutes => Verdict = "fail"

\* "the last successful refresh is past its interval plus an hour: refreshes are not succeeding".  It does not hold
\* after the interval was lowered, as the watch advises ("set 1 h"), until the next hourly run.
AdviceIsSafe == Verdict = "fail" => ~oauth.auto \/ failed
=============================================================================
