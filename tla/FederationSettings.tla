-------------------------- MODULE FederationSettings --------------------------
(***************************************************************************)
(* org_federation.py --configure and --update: the sign-in settings of an  *)
(* existing organization.  A run reads the organization, judges what it    *)
(* may change under the users it holds, reads the settings again for the   *)
(* write, sends the whole body back and reads it back; a configure also    *)
(* imports a group.                                                        *)
(*                                                                         *)
(* Entra's user is matched on a key the OIDC settings name, or on a claim  *)
(* the SAML settings name; "sub" is another for each application, "oid"    *)
(* and "upn" stay with a person.  Somebody signs in, and an administrator  *)
(* edits the settings, while a run is between its reads and its write.     *)
(* The client secret and Entra's OIDC signing keys are left out.           *)
(***************************************************************************)
EXTENDS Integers, FiniteSets

CONSTANTS
  Runs,
  Organizations, \* what an organization holds at first: its OIDC and SAML settings, and its group
  MaxFaults,     \* calls that are refused or get no answer, with or without their effect; deaths
  MaxOthers      \* acts of an administrator

VARIABLES oidc, saml, group, users, active, run, faults, others

settings == <<oidc, saml>>
vars == <<settings, group, users, active, run, faults, others>>

\* us: the tenant of the run; other: another tenant of Entra, which is the only other provider of SAML here; sso: VCF
\* single sign-on.
Issuers == {"none", "us", "other", "sso"}
UserKeys == {"oid", "upn"}                     \* USER_KEYS, which stay with a person across applications
Subjects == UserKeys \cup {"sub", "none"}
Claims == {"planned", "another", "none"}
Apps == {"a", "b", "none"}
Certs == {"signs", "next", "foreign"}          \* of the organization's application: the first two
Oidc == [on : BOOLEAN, iss : Issuers, app : Apps, key : Subjects]
Saml == [on : BOOLEAN, iss : {"none", "us", "other"}, claim : Claims, certs : SUBSET Certs]
Protocols == {"oidc", "saml"}
\* An imported group, by the protocol it came over, holding the role it was asked for or another.
Group == [over : Protocols \cup {"none"}, role : BOOLEAN]
\* A user, by what it was made under.
User == [over : {"oidc"}, iss : Issuers, app : Apps, key : Subjects]
          \cup [over : {"saml"}, iss : {"us", "other", "none"}, app : {"none"}, key : Claims]

\* The arguments: the key ("none": the one the organization holds), the metadata file's certificates, whether the
\* tenant's read-only application is given, and whether a group is named.
Ask == [mode |-> "groups", over |-> "oidc", key |-> "none", app |-> "none", enable |-> FALSE, group |-> TRUE,
        file |-> {}, reader |-> FALSE]
Files == {{"signs"}, {"next"}, {"signs", "next"}, {"signs", "foreign"}}
Request ==
  [mode : {"groups"}, over : Protocols, key : {"none"}, app : {"none"}, enable : {FALSE}, group : {TRUE}, file : {{}},
   reader : {FALSE}]
    \cup [mode : {"update"}, over : {"oidc"}, key : {"none"}, app : {"none"}, enable : {FALSE}, group : {FALSE},
          file : {{}}, reader : {FALSE}]
    \cup [mode : {"update"}, over : {"saml"}, key : {"none"}, app : {"none"}, enable : {FALSE}, group : {FALSE},
          file : Files, reader : BOOLEAN]
    \cup [mode : {"configure"}, over : {"oidc"}, key : {"oid", "none"}, app : {"a", "b"}, enable : BOOLEAN,
          group : BOOLEAN, file : {{}}, reader : {FALSE}]
    \cup [mode : {"configure"}, over : {"saml"}, key : {"none"}, app : {"none"}, enable : BOOLEAN, group : BOOLEAN,
          file : Files, reader : BOOLEAN]

Asked == [mode : {"groups", "update", "configure"}, over : Protocols, key : Subjects, app : Apps, enable : BOOLEAN,
          group : BOOLEAN, file : SUBSET Certs, reader : BOOLEAN]

Exits == {"exit0", "exit1", "exit2", "exit3"}
Rest == {"idle"} \cup Exits
Steps == {"read", "entra", "again", "put", "back", "import", "groups"}
NoOidc == [on |-> FALSE, iss |-> "none", app |-> "none", key |-> "none"]
NoGroup == [over |-> "none", role |-> FALSE]
NoSaml == [on |-> FALSE, iss |-> "none", claim |-> "none", certs |-> {}]

\* What one run knows.  ask: its arguments; o, f, us, g: the organization as it read it; o2, f2: the settings it read
\* for the write; active: the certificate Entra signs with, as it read it; held: every check so far passed; alone: no
\* administrator has acted since it started, and no run has started.
Idle == [pc |-> "idle", ask |-> Ask, o |-> NoOidc, f |-> NoSaml, us |-> {}, g |-> NoGroup, o2 |-> NoOidc, f2 |-> NoSaml,
         active |-> "none", held |-> TRUE, alone |-> FALSE]

TypeOK ==
  /\ oidc \in Oidc /\ saml \in Saml /\ group \in Group /\ users \subseteq User /\ active \in {"signs", "next"}
  /\ run \in [Runs -> [pc : Rest \cup Steps, ask : Asked, o : Oidc, f : Saml, us : SUBSET User, g : Group, o2 : Oidc,
                       f2 : Saml, active : {"none", "signs", "next"}, held : BOOLEAN, alone : BOOLEAN]]
  /\ \A p \in Runs : run[p].us \subseteq users
  /\ faults \in 0 .. MaxFaults /\ others \in 0 .. MaxOthers

Init ==
  /\ \E org \in Organizations : oidc = org.oidc /\ saml = org.saml /\ group = org.group
  /\ users = {} /\ active = "signs" /\ run = [p \in Runs |-> Idle] /\ faults = 0 /\ others = 0

-----------------------------------------------------------------------------
At(p, pc) == run[p].pc = pc
Busy == {p \in Runs : run[p].pc \notin Rest}
Fault == faults < MaxFaults /\ faults' = faults + 1
Sound == UNCHANGED faults
Goes(p, pc) == run' = [run EXCEPT ![p].pc = pc]
Knows(p, known) == run' = [run EXCEPT ![p] = known]
\* A run that ended is known by its exit code, and one that ended well by what it was asked.
Ends(p, code) == Knows(p, [Idle EXCEPT !.pc = code])
EndsWell(p) == Knows(p, [Idle EXCEPT !.pc = "exit0", !.ask = run[p].ask, !.alone = run[p].alone])
Organization == UNCHANGED <<settings, group, users, active>>

OidcOn(o) == o.on /\ o.iss # "sso"
Federated(o, f) ==
  IF OidcOn(o) /\ o.iss = "us" THEN "oidc" ELSE IF f.on /\ f.iss = "us" THEN "saml" ELSE "none"
On(o, f, over) == IF over = "oidc" THEN OidcOn(o) ELSE f.on
Made(us, over) == \E u \in us : u.over = over

\* The key a configure writes: the one it was given, or the one the organization holds, or oid.
KeyOf(ask, o) == IF ask.key # "none" THEN ask.key ELSE IF o.key # "none" THEN o.key ELSE "oid"

\* Somebody else's sign-in: another provider's settings are live.
Anothers(o, f) == o.iss = "sso" \/ ((OidcOn(o) \/ f.on) /\ Federated(o, f) = "none")

\* Mutant: what a federation that is switched off still holds is not looked at.
OnlyLive(ask, o, f, us, key) ==
  \/ Anothers(o, f)
  \/ Federated(o, f) \notin {"none", ask.over}
  \/ ask.over = "oidc" /\ Federated(o, f) = "oidc" /\ o.key # key
  \/ ask.over = "saml" /\ Made(us, "saml") /\ f.claim # "planned"

\* A protocol, an OIDC key or a SAML claim is never switched under the users it keys, judged on what the organization
\* stores, switched on or off; the application and the issuer only under a key a person keeps.
Switches(ask, o, f, us, key) ==
  LET now == Federated(o, f)
  IN \/ Anothers(o, f) \/ now \notin {"none", ask.over}
     \/ /\ ask.over = "oidc"
        /\ \/ now = "none" /\ (f.iss # "none" \/ Made(us, "saml") \/ o.iss = "other")
           \/ o.key # "none" /\ o.key # key
           \/ o.key = "none" /\ (now = "oidc" \/ Made(us, "oidc"))
           \/ Made(us, "oidc") /\ (o.iss # "us" \/ (o.app # ask.app /\ o.key \notin UserKeys))
     \/ /\ ask.over = "saml"
        /\ \/ now = "none" /\ (Made(us, "oidc") \/ f.iss = "other")
           \/ Made(us, "saml") /\ f.claim # "planned"

\* A group is imported alone only into settings of this tenant.
GroupServesNone(ask, o, f) ==
  \/ Anothers(o, f) \/ Federated(o, f) \notin {"none", ask.over}
  \/ (IF ask.over = "oidc" THEN o.iss ELSE f.iss) # "us"

Clashes(ask, g) == ask.group /\ g.over # "none" /\ g # [over |-> ask.over, role |-> TRUE]
ToImport(ask, g) == ask.group /\ g.over = "none"

\* The platform refuses an import into a federation that is switched off.
ImportsWhileOff(ask, o, f, g) == ToImport(ask, g) /\ ~ask.enable /\ ~On(o, f, ask.over)

Refused(ask, o, f, us, g) ==
  CASE ask.mode = "update" -> Federated(o, f) # ask.over
    [] ask.mode = "groups" -> GroupServesNone(ask, o, f) \/ Clashes(ask, g) \/ ImportsWhileOff(ask, o, f, g)
    [] OTHER -> Switches(ask, o, f, us, KeyOf(ask, o)) \/ Clashes(ask, g) \/ ImportsWhileOff(ask, o, f, g)

Starts(p) ==
  /\ run[p].pc \in Rest /\ Busy = {} /\ Organization /\ UNCHANGED <<faults, others>>
  /\ \E ask \in Request :
       run' = [q \in Runs |-> IF q = p THEN [Idle EXCEPT !.pc = "read", !.ask = ask, !.alone = TRUE]
                              ELSE [run[q] EXCEPT !.alone = FALSE]]

\* The organization's users, groups and settings, and what they refuse; the key is settled.
Reads(p) ==
  LET ask == run[p].ask
      next == IF ask.mode = "groups" THEN IF ToImport(ask, group) THEN "import" ELSE "groups"
              ELSE IF ask.over = "saml" THEN "entra" ELSE "again"
  IN /\ At(p, "read") /\ Organization /\ UNCHANGED others
     /\ \/ /\ Sound /\ ~Refused(ask, oidc, saml, users, group)
           /\ Knows(p, [run[p] EXCEPT !.ask.key = KeyOf(ask, oidc), !.o = oidc, !.f = saml, !.us = users, !.g = group,
                          !.pc = next])
        \/ Sound /\ Refused(ask, oidc, saml, users, group) /\ Ends(p, "exit2")
        \/ Fault /\ Ends(p, "exit3")

\* The application that signs the organization's people in, when the tenant's read-only one is given.
ReadsEntra(p) ==
  /\ At(p, "entra") /\ Organization /\ UNCHANGED others
  /\ \/ /\ Sound
        /\ Knows(p, [run[p] EXCEPT !.active = IF run[p].ask.reader THEN active ELSE "none", !.pc = "again"])
     \/ Fault /\ run[p].ask.reader /\ Ends(p, "exit3")

\* Mutant: the metadata is held against the number of the certificates.
JudgesCount(p, f) == Cardinality(run[p].ask.file) < Cardinality(f.certs)

\* Metadata that is not the organization's own application's, or that nothing ties to it.
Untied(p, f) ==
  IF run[p].active # "none" THEN run[p].active \notin run[p].ask.file \/ "foreign" \in run[p].ask.file
  ELSE f.certs # {} /\ f.certs \cap run[p].ask.file = {} /\ Made(run[p].us, "saml")

\* A federation that is switched off stays off unless --enable.
StaysAs(ask, on) == on \/ ask.enable

\* The bodies: every field of the settings read for the write, with those the run is about in their place.
OidcBody(ask, o) ==
  IF ask.mode = "update" THEN o ELSE [on |-> StaysAs(ask, o.on), iss |-> "us", app |-> ask.app, key |-> ask.key]
SamlBody(ask, f) ==
  IF ask.mode = "update" THEN [f EXCEPT !.certs = ask.file]
  ELSE [on |-> StaysAs(ask, f.on), iss |-> "us", claim |-> "planned", certs |-> ask.file]

\* The settings are read again, judged again on the users read before, and planned.
ReadsAgain(p) ==
  LET k == run[p]
      ask == k.ask
      refused ==
        IF ask.over = "saml" THEN Untied(p, IF ask.mode = "update" THEN k.f ELSE saml)
        ELSE ask.mode = "configure" /\ Switches(ask, oidc, k.f, k.us, ask.key)
      was == IF ask.over = "oidc" THEN oidc.on ELSE saml.on
      changes == IF ask.over = "oidc" THEN ask.mode = "update" \/ OidcBody(ask, oidc) # oidc
                 ELSE SamlBody(ask, saml) # saml
      stays == ask.mode = "configure" /\ changes /\ ~was /\ ~ask.enable
  IN /\ At(p, "again") /\ Organization /\ UNCHANGED others
     /\ \/ /\ Sound /\ ~refused /\ ~stays
           /\ Knows(p, [k EXCEPT !.o2 = oidc, !.f2 = saml, !.pc = IF changes THEN "put" ELSE "back"])
        \/ Sound /\ (refused \/ stays) /\ Ends(p, "exit2")
        \/ Fault /\ Ends(p, "exit3")

Sent(p) ==
  IF run[p].ask.over = "oidc"
  THEN oidc' = OidcBody(run[p].ask, run[p].o2) /\ UNCHANGED saml
  ELSE saml' = SamlBody(run[p].ask, run[p].f2) /\ UNCHANGED oidc

\* The whole body, in place of whatever is stored by now.
Puts(p) ==
  /\ At(p, "put") /\ UNCHANGED <<group, users, active, others>>
  /\ \/ Sound /\ Sent(p) /\ Goes(p, "back")
     \/ Fault /\ Sent(p) /\ Ends(p, "exit3")
     \/ Fault /\ UNCHANGED settings /\ (Ends(p, "exit1") \/ Ends(p, "exit3"))

\* Read back as planned; a check that failed shows in the exit code, and the group is imported all the same.
ReadsBack(p) ==
  LET ask == run[p].ask
      planned == IF ask.over = "oidc" THEN oidc = OidcBody(ask, run[p].o2)
                 ELSE /\ ask.file \subseteq saml.certs
                      /\ IF ask.mode = "update" THEN saml.on ELSE
                           saml.claim = "planned" /\ saml.on = StaysAs(ask, run[p].f2.on)
  IN /\ At(p, "back") /\ Organization /\ UNCHANGED others
     /\ \/ /\ Sound /\ ask.mode = "update"
           /\ IF planned THEN EndsWell(p) ELSE Ends(p, "exit1")
        \/ /\ Sound /\ ask.mode = "configure"
           /\ Knows(p, [run[p] EXCEPT !.held = planned, !.pc = IF ToImport(ask, run[p].g) THEN "import" ELSE "groups"])
        \/ Fault /\ Ends(p, "exit3")

\* An import of a name the organization holds by now is answered with the group it has.
Imports(p) ==
  LET over == run[p].ask.over
      imported == IF group.over = "none" THEN group' = [over |-> over, role |-> TRUE] ELSE UNCHANGED group
  IN /\ At(p, "import") /\ UNCHANGED <<settings, users, active, others>>
     /\ \/ Sound /\ On(oidc, saml, over) /\ imported /\ Goes(p, "groups")
        \/ Sound /\ ~On(oidc, saml, over) /\ UNCHANGED group /\ Ends(p, "exit1")
        \/ Fault /\ On(oidc, saml, over) /\ imported /\ Ends(p, "exit3")
        \/ Fault /\ UNCHANGED group /\ (Ends(p, "exit1") \/ Ends(p, "exit3"))

ReadsGroups(p) ==
  /\ At(p, "groups") /\ Organization /\ UNCHANGED others
  /\ \/ /\ Sound
        /\ IF run[p].held /\ (run[p].ask.group => group = [over |-> run[p].ask.over, role |-> TRUE])
           THEN EndsWell(p) ELSE Ends(p, "exit1")
     \/ Fault /\ Ends(p, "exit3")

\* The process ends, for any reason the script does not expect.
Dies(p) ==
  /\ p \in Busy /\ Fault /\ run' = [run EXCEPT ![p] = Idle] /\ Organization /\ UNCHANGED others

-----------------------------------------------------------------------------
\* A first sign-in makes a user under what the settings hold.
SignsIn ==
  /\ \/ /\ OidcOn(oidc) /\ group.over = "oidc"
        /\ users' = users \cup {[over |-> "oidc", iss |-> oidc.iss, app |-> oidc.app, key |-> oidc.key]}
     \/ /\ saml.on /\ ~OidcOn(oidc) /\ group.over = "saml" /\ active \in saml.certs
        /\ users' = users \cup {[over |-> "saml", iss |-> saml.iss, app |-> "none", key |-> saml.claim]}
  /\ users' # users /\ UNCHANGED <<settings, group, active, run, faults, others>>

\* An administrator switches a federation on or off, edits what users are matched on, imports or changes the group, or
\* makes the application's next certificate the one Entra signs with.
Administers ==
  /\ others < MaxOthers /\ others' = others + 1
  /\ run' = [p \in Runs |-> [run[p] EXCEPT !.alone = FALSE]]
  /\ UNCHANGED <<users, faults>>
  /\ \/ oidc.iss # "none" /\ oidc' = [oidc EXCEPT !.on = ~@] /\ UNCHANGED <<saml, group, active>>
     \/ saml.iss # "none" /\ saml' = [saml EXCEPT !.on = ~@] /\ UNCHANGED <<oidc, group, active>>
     \/ oidc.iss # "none" /\ (\E k \in {"oid", "sub"} : oidc' = [oidc EXCEPT !.key = k]) /\ UNCHANGED <<saml, group, active>>
     \/ saml.iss # "none" /\ (\E c \in {"planned", "another"} : saml' = [saml EXCEPT !.claim = c]) /\ UNCHANGED <<oidc, group, active>>
     \/ group' \in {NoGroup, [over |-> "oidc", role |-> FALSE], [over |-> "saml", role |-> TRUE]} /\ group' # group
        /\ UNCHANGED <<settings, active>>
     \/ active' = "next" /\ active # "next" /\ UNCHANGED <<settings, group>>

Step(p) ==
  \/ Reads(p) \/ ReadsEntra(p) \/ ReadsAgain(p) \/ Puts(p) \/ ReadsBack(p) \/ Imports(p) \/ ReadsGroups(p)

Next == SignsIn \/ Administers \/ \E p \in Runs : Step(p) \/ Dies(p) \/ Starts(p)

Spec == Init /\ [][Next]_vars

-----------------------------------------------------------------------------
\* A returning user is matched under these settings, as far as they are switched on.
Matched(u, o, f) ==
  IF u.over = "oidc" THEN ~f.on /\ o.iss = u.iss /\ o.key = u.key /\ (o.key = "sub" => o.app = u.app)
  ELSE ~OidcOn(o) /\ f.iss = u.iss /\ f.claim = u.key

Writes(p) == At(p, "put") /\ run'[p].pc # "put"

\* "never switched in place under the users it keys": a write leaves every user the organization's settings matched
\* matched, when no administrator acts and nobody signs in for the first time since the run read them.
UsersStayMatched ==
  [][\A p \in Runs : Writes(p) /\ run[p].alone /\ run[p].us = users =>
       \A u \in users : Matched(u, oidc, saml) => Matched(u, oidc', saml')]_vars

\* "metadata that does not name the certificate Entra signs the app with" is refused: what a run that read the
\* application writes admits its people.
WritesOwnMetadata ==
  [][\A p \in Runs : Writes(p) /\ saml' # saml /\ run[p].alone /\ run[p].ask.reader =>
       active \in saml'.certs /\ "foreign" \notin saml'.certs]_vars

\* Exit 0, when no administrator acted: the organization holds what the run was asked to write, and the group.
ExitZeroIsTrue ==
  \A p \in Runs : run[p].alone /\ At(p, "exit0") =>
    LET ask == run[p].ask
    IN /\ ask.group => group = [over |-> ask.over, role |-> TRUE]
       /\ ask.mode = "configure" /\ ask.over = "oidc" =>
            oidc.iss = "us" /\ oidc.app = ask.app /\ oidc.key = ask.key
       /\ ask.file \subseteq saml.certs
       /\ ask.enable => On(oidc, saml, ask.over)

\* "never switched in place under the users it keys": the same, whoever signs in meanwhile.
\* It does not hold: a first user signs in, under the claim that is stored, after the users were read.
UsersAlwaysStayMatched ==
  [][\A p \in Runs : Writes(p) /\ run[p].alone =>
       \A u \in users : Matched(u, oidc, saml) => Matched(u, oidc', saml')]_vars

\* "A federation that is switched off stays off", whoever switched it off meanwhile.
\* It does not hold: the body carries the switch as it was read.
OffAlwaysStaysOff ==
  [][\A p \in Runs : Writes(p) /\ ~run[p].ask.enable =>
       (OidcOn(oidc') => OidcOn(oidc)) /\ (saml'.on => saml.on)]_vars
=============================================================================
