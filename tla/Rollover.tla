------------------------------ MODULE Rollover ------------------------------
(***************************************************************************)
(* handbook/federation-operations/watch.py, secret_end, saml_cert_end and  *)
(* saml_cert_held: one organization, the credentials its app at Entra      *)
(* lists, the people who roll them on both sides, and a watch that is run  *)
(* again within Period.  Over OIDC the organization holds one secret, of   *)
(* which Entra shows a hint only; over SAML the app signs with its active  *)
(* certificate and the organization's metadata holds some.                 *)
(***************************************************************************)
EXTENDS Integers

CONSTANTS
  Creds, Hints,    \* secrets or certificates, and what of a secret Graph shows
  EndsAt,            \* when a credential may end
  Tenth,           \* ticks of a tenth of a day, odd
  WarnDays,        \* in tenths of a day here
  Period,          \* ticks between two runs at most
  Horizon, MaxActs, MaxFaults   \* bounds

RolloverAssumption ==
  /\ {WarnDays, Period, Horizon, MaxActs, MaxFaults} \subseteq Nat /\ Tenth \in Nat /\ Tenth % 2 = 1
  /\ Period <= WarnDays * Tenth /\ EndsAt \subseteq Period .. Horizon

VARIABLES
  now,
  saml,      \* the organization signs in over SAML, not OIDC
  end, hint, \* of each credential; an end that Graph gives in another form does not read
  listed,    \* on the app
  active,    \* over SAML the certificate the app signs with
  held,      \* over OIDC the one secret the organization stores, over SAML what its metadata carries
  watch,     \* the run: what it read of the organization, what it said, and whether all has stayed so since it began
  last,      \* when the latest run began
  since,     \* when anybody last changed anything
  told,      \* a run since then ended with an exit other than 0
  acts, readFaults

app == <<saml, end, hint, listed, active, held>>
vars == <<now, app, watch, last, since, told, acts, readFaults>>

Unread == -1
Idle == [pc |-> "idle", read |-> {}, exit |-> 3, quiet |-> FALSE]

TypeOK ==
  /\ now \in 0 .. Horizon /\ saml \in BOOLEAN
  /\ end \in [Creds -> {Unread} \cup EndsAt] /\ hint \in [Creds -> Hints]
  /\ listed \subseteq Creds /\ active \in Creds /\ held \subseteq Creds
  /\ saml => active \in listed
  /\ ~saml => \E c \in Creds : held = {c}
  /\ watch.pc \in {"idle", "app", "done"} /\ watch.read \subseteq Creds \cup Hints
  /\ watch.exit \in 0 .. 3 /\ {watch.quiet, told} \subseteq BOOLEAN
  /\ {last, since} \subseteq 0 .. Horizon /\ last <= now
  /\ acts \in 0 .. MaxActs /\ readFaults \in 0 .. MaxFaults

\* Configured and working; a first run is due at once.
Init ==
  /\ now = 0 /\ saml \in BOOLEAN /\ hint \in [Creds -> Hints]
  /\ end \in [Creds -> {Unread} \cup EndsAt]
  /\ \E c \in Creds : active = c /\ listed = {c} /\ held = {c} /\ end[c] # Unread
  /\ watch = Idle /\ last = 0 /\ since = 0 /\ told = FALSE /\ acts = 0 /\ readFaults = 0

-----------------------------------------------------------------------------
(* Entra's administrator and the organization's. *)

\* A run takes no time beside the days it judges, and the schedule is kept.
Tick ==
  /\ now < Horizon /\ watch.pc # "app" /\ now < last + Period
  /\ now' = now + 1 /\ UNCHANGED <<app, watch, last, since, told, acts, readFaults>>

Acts ==
  /\ acts < MaxActs /\ acts' = acts + 1 /\ since' = now /\ told' = FALSE /\ watch' = [watch EXCEPT !.quiet = FALSE]
  /\ UNCHANGED <<now, saml, end, hint, last, readFaults>>

\* The next one is added, an old one removed; the active certificate cannot be.
Lists == \E c \in Creds \ listed : (end[c] = Unread \/ end[c] > now) /\ listed' = listed \cup {c} /\ Acts /\ UNCHANGED <<active, held>>
Removes == \E c \in listed : (saml => c # active) /\ listed' = listed \ {c} /\ Acts /\ UNCHANGED <<active, held>>

Activates == saml /\ (\E c \in listed \ {active} : active' = c) /\ Acts /\ UNCHANGED <<listed, held>>

\* A secret is written into the organization, or metadata loaded that carries all certificates or the active one.
Stores ==
  /\ held' \in (IF saml THEN {listed, {active}} ELSE {{c} : c \in Creds}) \ {held}
  /\ Acts /\ UNCHANGED <<listed, active>>

-----------------------------------------------------------------------------
(* The judgement. *)

\* Python rounds the days to a tenth; with Tenth odd there is nothing half way.
Days(c) == (end[c] - now + Tenth \div 2) \div Tenth

EndVerdict(c) ==
  CASE Days(c) < 0 -> "fail" [] Days(c) \in 0 .. WarnDays -> "warn" [] OTHER -> "ok"

InUse(prefix) == {c \in listed : hint[c] \in prefix}

\* Mutant: of several that share the hint the one that ends last is judged.
Latest(S) == CHOOSE c \in S : \A d \in S : end[d] <= end[c]

First(S) == CHOOSE c \in S : \A d \in S : end[c] <= end[d]

SecretEnd(prefix) ==
  LET unread == {c \in InUse(prefix) : end[c] = Unread}
      ended == {c \in InUse(prefix) \ unread : end[c] < now} IN
  CASE InUse(prefix) = {} -> "fail"
    [] unread # {} -> IF ended # {} THEN "fail" ELSE "unknown"
    [] OTHER -> EndVerdict(First(InUse(prefix)))

SamlCertEnd == IF end[active] = Unread THEN "unknown" ELSE EndVerdict(active)

\* Mutant: the certificate in use only.
ActiveHeld(stored) == IF active \in stored THEN "ok" ELSE "fail"

SamlCertHeld(stored) ==
  CASE active \notin stored -> "fail" [] active \in stored /\ listed \ stored # {} -> "warn" [] OTHER -> "ok"

Verdicts(read) == IF saml THEN {SamlCertEnd, SamlCertHeld(read)} ELSE {SecretEnd(read)}

\* exit_code: a failure, then what is not known, then a warning.
ExitOf(states) ==
  CASE "fail" \in states -> 2 [] "unknown" \in states \ {"fail"} -> 3 [] OTHER -> IF "warn" \in states THEN 1 ELSE 0

-----------------------------------------------------------------------------
(* The run: the organization's side first, then Graph. *)

Starts ==
  /\ watch.pc # "app" /\ (now > last \/ watch = Idle)
  /\ watch' = [pc |-> "app", read |-> IF saml THEN held ELSE {hint[c] : c \in held}, exit |-> 3, quiet |-> TRUE]
  /\ last' = now /\ UNCHANGED <<now, app, since, told, acts, readFaults>>

Says(states) ==
  /\ watch' = [watch EXCEPT !.pc = "done", !.exit = ExitOf(states)]
  /\ told' = (told \/ watch'.exit # 0)

ReadsApp ==
  /\ watch.pc = "app" /\ Says(Verdicts(watch.read))
  /\ UNCHANGED <<now, app, last, since, acts, readFaults>>

\* A read that fails on either side is said, and never a pass.
ReadFails ==
  /\ watch.pc = "app" /\ readFaults < MaxFaults /\ readFaults' = readFaults + 1 /\ Says({"unknown"})
  /\ UNCHANGED <<now, app, last, since, acts>>

Next == Tick \/ Lists \/ Removes \/ Activates \/ Stores \/ Starts \/ ReadsApp \/ ReadFails

Spec == Init /\ [][Next]_vars

-----------------------------------------------------------------------------

\* The credential sign-in goes by; what Entra does with one whose end does not read is not known here.
Using == IF saml THEN active ELSE CHOOSE c \in held : TRUE
Accepted == IF saml THEN active \in held ELSE Using \in listed
Ended == end[Using] # Unread /\ now >= end[Using]

\* Over OIDC no other secret of the app begins like the one the organization holds.
Alone == saml \/ \A c \in listed : hint[c] = hint[Using] => c = Using

Said(code) == watch.pc = "done" /\ watch.quiet /\ watch.exit = code /\ last = now

\* Exit 0: the credential is good for more than WARN_DAYS, and whichever certificate the app lists may be made active.
\* Exit 2: sign-in has stopped, or would.  Secrets that share a hint may make the watch fail early, and hide one that
\* was removed, but never hide the end of one that is there.
ExitIsTrue ==
  /\ Said(0) /\ Using \in listed => end[Using] - now > WarnDays * Tenth
  /\ Said(0) /\ (saml \/ Alone) => Accepted
  /\ Said(0) /\ saml => listed \subseteq held
  /\ Said(2) /\ Alone => ~Accepted \/ Ended

\* No credential ends unannounced: when the one in use ends, and nobody has touched anything for a Period before that,
\* some run has exited other than 0 since, whatever reads failed.
EndIsForetold == Accepted /\ Ended /\ since + Period < end[Using] => told

\* "2 a failure that stops sign-in now (an expired secret or certificate)".  It does not hold in the first twentieth of
\* a day: the days left round to -0.0, which warns.
EndedFails == Said(0) \/ Said(1) => ~(Accepted /\ now > end[Using] /\ end[Using] # Unread)

\* "A held secret that matches none of the app's secrets fails": that the secret is still the app's is known after exit
\* 0.  It does not hold for a secret whose hint another one shares.
HeldIsListed == Said(0) => Accepted
=============================================================================
