---------------------------- MODULE OwnershipProofs ----------------------------
(***************************************************************************)
(* Theorems about the scripts that make or write things in a live platform *)
(* (MCOwnership), one part for each of the five.                           *)
(***************************************************************************)
EXTENDS MCOwnership, FiniteSetTheorems, TLAPS

(* The sign-in settings (FederationSettings): what a run that is left alone knows is so until it writes. *)

Writers ==
  [pc : Settings!Rest \cup Settings!Steps, ask : Settings!Asked, o : Settings!Oidc, f : Settings!Saml,
   us : SUBSET Settings!User, g : Settings!Group, o2 : Settings!Oidc, f2 : Settings!Saml,
   active : {"none", "signs", "next"}, held : BOOLEAN, alone : BOOLEAN]

\* What the arguments leave open to each mode.
Argued(ask) ==
  /\ ask.mode = "update" => ~ask.group /\ ~ask.enable
  /\ ask.mode = "groups" => ~ask.enable
  /\ ask.mode = "groups" \/ ask.over = "oidc" => ask.file = {}

\* Settings that are switched on name a provider.
NamedSaml(f) == f.on => f.iss # "none"

\* A run that was left alone: the settings are as it read them until it writes, and then as it wrote them.
SettingsFit(k) ==
  /\ k.pc \in {"entra", "again", "put"} =>
       /\ k.f = saml /\ k.ask.mode # "groups"
       /\ k.ask.mode = "configure" => ~Settings!Switches(k.ask, oidc, saml, k.us, k.ask.key)
  /\ k.pc \in {"again", "put"} /\ k.ask.over = "saml" => k.active = IF k.ask.reader THEN active ELSE "none"
  /\ k.pc = "put" =>
       /\ k.o2 = oidc /\ k.f2 = saml
       /\ k.ask.over = "saml" /\ k.ask.reader => active \in k.ask.file /\ "foreign" \notin k.ask.file
  /\ k.pc \in {"import", "groups"} => k.ask.mode # "update"
  /\ k.pc \in {"import", "groups"} /\ k.held /\ k.ask.mode = "configure" =>
       IF k.ask.over = "oidc" THEN oidc = Settings!OidcBody(k.ask, k.o2)
       ELSE k.ask.file \subseteq saml.certs /\ saml.on = Settings!StaysAs(k.ask, k.f2.on)

\* What the exit says of it.
Written(ask) ==
  /\ ask.group => group = [over |-> ask.over, role |-> TRUE]
  /\ ask.mode = "configure" /\ ask.over = "oidc" => oidc.iss = "us" /\ oidc.app = ask.app /\ oidc.key = ask.key
  /\ ask.file \subseteq saml.certs
  /\ ask.enable => Settings!On(oidc, saml, ask.over)

\* One run at a time, and who waits is no longer alone.
SettingsSole ==
  \A p, q \in Runs : p # q /\ writer[p].pc \notin Settings!Rest => writer[q].pc \in Settings!Rest /\ ~writer[q].alone

SettingsInv ==
  /\ Settings!TypeOK /\ SettingsSole /\ NamedSaml(saml)
  /\ \A u \in users : u.over = "saml" => u.iss # "none"
  /\ \A p \in Runs :
       /\ Argued(writer[p].ask) /\ NamedSaml(writer[p].f2)
       /\ writer[p].alone => SettingsFit(writer[p]) /\ (writer[p].pc = "exit0" => Written(writer[p].ask))

LEMMA SettingsNumbers == MaxFaults \in Nat /\ MaxOthers \in Nat
  BY OwnershipAssumption DEF OwnershipAssumption

LEMMA SettingsIdle ==
  /\ Settings!Idle \in Writers /\ Argued(Settings!Idle.ask) /\ NamedSaml(Settings!Idle.f2)
  /\ Settings!Idle.us = {} /\ ~Settings!Idle.alone /\ Settings!Idle.pc = "idle"
  BY DEF Writers, Settings!Idle, Settings!Ask, Settings!Asked, Settings!NoOidc, Settings!NoSaml, Settings!NoGroup,
         Settings!Oidc, Settings!Saml, Settings!Group, Settings!Issuers, Settings!Apps, Settings!Subjects,
         Settings!UserKeys, Settings!Claims, Settings!Certs, Settings!Protocols, Settings!Rest, Argued, NamedSaml

LEMMA SettingsStart == Settings!Init => SettingsInv
  <1> SUFFICES ASSUME Settings!Init PROVE SettingsInv
    OBVIOUS
  <1>1. PICK here \in Organizations : oidc = here.oidc /\ saml = here.saml /\ group = here.group
    BY DEF Settings!Init
  <1>2. oidc \in Settings!Oidc /\ saml \in Settings!Saml /\ group \in Settings!Group /\ NamedSaml(saml)
    <2>1. \A q \in {"none", "oidc", "saml"} : Over(q) \in Settings!Group
      BY DEF Over, Settings!Group, Settings!Protocols
    <2>2. \A on \in BOOLEAN, iss \in {"us", "other"}, key \in {"sub", "upn", "none"} : Oidc(on, iss, key) \in Settings!Oidc
      BY DEF Oidc, Settings!Oidc, Settings!Issuers, Settings!Apps, Settings!Subjects, Settings!UserKeys
    <2>3. NoOidc \in Settings!Oidc
      BY DEF NoOidc, Settings!Oidc, Settings!Issuers, Settings!Apps, Settings!Subjects, Settings!UserKeys
    <2>4. NoSaml \in Settings!Saml /\ Saml("planned") \in Settings!Saml
      <3>1. {} \in SUBSET Settings!Certs /\ {"signs"} \in SUBSET Settings!Certs
        BY DEF Settings!Certs
      <3> QED BY <3>1 DEF NoSaml, Saml, Settings!Saml, Settings!Claims
    <2>6. NamedSaml(NoSaml) /\ NamedSaml(Saml("planned"))
      BY DEF NamedSaml, NoSaml, Saml
    <2>5. PICK q \in {"none", "oidc", "saml"}, o \in Settings!Oidc, f \in {NoSaml, Saml("planned")} : here = Holds(o, f, q)
      BY <2>2, <2>3 DEF Organizations
    <2> QED BY <1>1, <2>1, <2>4, <2>5, <2>6 DEF Holds
  <1>4. writer = [p \in Runs |-> Settings!Idle] /\ users = {} /\ active = "signs" /\ setFaults = 0 /\ setOthers = 0
    BY DEF Settings!Init
  <1>5. Settings!TypeOK
    BY <1>2, <1>4, SettingsIdle, SettingsNumbers DEF Settings!TypeOK, Writers
  <1>6. SettingsSole
    BY <1>4, SettingsIdle DEF SettingsSole, Settings!Rest
  <1> QED BY <1>2, <1>4, <1>5, <1>6, SettingsIdle DEF SettingsInv

\* A run goes from one step to the next, whatever it writes meanwhile.
LEMMA SettingsMoves ==
  ASSUME SettingsInv, NEW p \in Runs, writer[p].pc \notin Settings!Rest,
         writer' = [writer EXCEPT ![p] = writer'[p]], writer'[p] \in Writers,
         Argued(writer'[p].ask), NamedSaml(writer'[p].f2), writer'[p].us \subseteq users,
         writer'[p].alone => SettingsFit(writer[p])' /\ (writer'[p].pc = "exit0" => Written(writer[p].ask)'),
         oidc' \in Settings!Oidc, saml' \in Settings!Saml, NamedSaml(saml'), group' \in Settings!Group,
         UNCHANGED <<users, active, setOthers>>, setFaults' \in 0 .. MaxFaults
  PROVE  SettingsInv'
  <1>1. writer \in [Runs -> Writers] /\ \A q \in Runs : writer[q].us \subseteq users
    BY DEF SettingsInv, Settings!TypeOK, Writers
  <1>2. \A q \in Runs \ {p} : writer'[q] = writer[q] /\ writer[q].pc \in Settings!Rest /\ ~writer[q].alone
    BY <1>1 DEF SettingsInv, SettingsSole
  <1>3. writer' \in [Runs -> Writers] /\ \A q \in Runs : writer'[q].us \subseteq users'
    BY <1>1, <1>2
  <1>4. Settings!TypeOK'
    BY <1>3 DEF SettingsInv, Settings!TypeOK, Writers
  <1>5. SettingsSole'
    BY <1>2 DEF SettingsSole
  <1>6. \A u \in users' : u.over = "saml" => u.iss # "none"
    BY DEF SettingsInv
  <1>7. \A q \in Runs : /\ Argued(writer'[q].ask) /\ NamedSaml(writer'[q].f2)
                        /\ writer'[q].alone => SettingsFit(writer[q])' /\ (writer'[q].pc = "exit0" => Written(writer[q].ask)')
    BY <1>2 DEF SettingsInv
  <1> QED BY <1>4, <1>5, <1>6, <1>7 DEF SettingsInv

\* A run that ends with a code, or dies.
LEMMA SettingsOver ==
  ASSUME SettingsInv, NEW p \in Runs, writer[p].pc \notin Settings!Rest, NEW code \in Settings!Rest,
         writer' = [writer EXCEPT ![p] = [Settings!Idle EXCEPT !.pc = code]],
         oidc' \in Settings!Oidc, saml' \in Settings!Saml, NamedSaml(saml'), group' \in Settings!Group,
         UNCHANGED <<users, active, setOthers>>, setFaults' \in 0 .. MaxFaults
  PROVE  SettingsInv'
  <1>1. writer'[p] = [Settings!Idle EXCEPT !.pc = code] /\ writer' = [writer EXCEPT ![p] = writer'[p]]
    BY DEF SettingsInv, Settings!TypeOK
  <1>2. writer'[p] \in Writers /\ Argued(writer'[p].ask) /\ NamedSaml(writer'[p].f2)
        /\ writer'[p].us = {} /\ ~writer'[p].alone
    BY <1>1, SettingsIdle DEF Writers, Settings!Rest
  <1>3. writer'[p].us \subseteq users
    BY <1>2
  <1> QED BY <1>1, <1>2, <1>3, SettingsMoves

LEMMA SettingsHave ==
  SettingsInv =>
    /\ oidc \in Settings!Oidc /\ saml \in Settings!Saml /\ group \in Settings!Group /\ users \in SUBSET Settings!User
    /\ active \in {"signs", "next"} /\ writer \in [Runs -> Writers] /\ NamedSaml(saml)
    /\ \A p \in Runs : writer[p].us \subseteq users /\ writer[p].us \in SUBSET Settings!User
    /\ setFaults \in 0 .. MaxFaults /\ setOthers \in 0 .. MaxOthers
    /\ (Settings!Fault \/ Settings!Sound) => setFaults' \in 0 .. MaxFaults
  BY SettingsNumbers DEF SettingsInv, Settings!TypeOK, Writers, Settings!Fault, Settings!Sound

LEMMA SettingsBegin ==
  ASSUME SettingsInv, NEW p \in Runs, Settings!Starts(p) PROVE SettingsInv'
  <1> USE SettingsHave
  <1>1. \A q \in Runs : writer[q].pc \in Settings!Rest
    BY DEF Settings!Starts, Settings!Busy
  <1>2. PICK ask \in Settings!Request :
          writer' = [q \in Runs |-> IF q = p THEN [Settings!Idle EXCEPT !.pc = "read", !.ask = ask, !.alone = TRUE]
                                    ELSE [writer[q] EXCEPT !.alone = FALSE]]
    BY DEF Settings!Starts
  <1>3. ask \in Settings!Asked /\ Argued(ask)
    <2>1. {} \in SUBSET Settings!Certs /\ \A meta \in Settings!Files : meta \in SUBSET Settings!Certs
      BY DEF Settings!Files, Settings!Certs
    <2>2. ask \in Settings!Asked
      BY <2>1 DEF Settings!Request, Settings!Asked, Settings!Protocols, Settings!Subjects, Settings!UserKeys, Settings!Apps
    <2> QED BY <2>2 DEF Settings!Request, Argued
  <1>4. /\ writer'[p] \in Writers /\ writer'[p].pc = "read" /\ writer'[p].ask = ask /\ writer'[p].us = {}
        /\ NamedSaml(writer'[p].f2)
    BY <1>2, <1>3, SettingsIdle DEF Writers, Settings!Steps
  <1>5. \A q \in Runs \ {p} :
          /\ writer'[q] \in Writers /\ writer'[q].pc = writer[q].pc /\ writer'[q].ask = writer[q].ask
          /\ writer'[q].us = writer[q].us /\ writer'[q].f2 = writer[q].f2 /\ ~writer'[q].alone
    BY <1>2, ZenonT(40) DEF Writers
  <1>6. UNCHANGED <<oidc, saml, group, users, active, setFaults, setOthers>>
    BY DEF Settings!Starts, Settings!Organization, Settings!settings
  <1>7. writer' \in [Runs -> Writers] /\ \A q \in Runs : writer'[q].us \subseteq users'
    BY <1>2, <1>4, <1>5, <1>6
  <1>8. Settings!TypeOK'
    BY <1>6, <1>7 DEF Settings!TypeOK, Writers
  <1>9. SettingsSole'
    BY <1>1, <1>4, <1>5 DEF SettingsSole, Settings!Rest
  <1>10. SettingsFit(writer[p])'
    BY <1>4 DEF SettingsFit
  <1>11. \A q \in Runs : /\ Argued(writer'[q].ask) /\ NamedSaml(writer'[q].f2)
                         /\ writer'[q].alone => SettingsFit(writer[q])' /\ (writer'[q].pc = "exit0" => Written(writer[q].ask)')
    BY <1>3, <1>4, <1>5, <1>10 DEF SettingsInv
  <1>12. NamedSaml(saml') /\ \A u \in users' : u.over = "saml" => u.iss # "none"
    BY <1>6 DEF SettingsInv
  <1> QED BY <1>8, <1>9, <1>11, <1>12 DEF SettingsInv

\* The run of an action is not at rest.
LEMMA SettingsAt ==
  ASSUME SettingsInv, NEW p \in Runs, Settings!Step(p) \/ Settings!Dies(p)
  PROVE  writer[p].pc \notin Settings!Rest
  BY DEF Settings!Step, Settings!Reads, Settings!ReadsEntra, Settings!ReadsAgain, Settings!Puts, Settings!ReadsBack,
       Settings!Imports, Settings!ReadsGroups, Settings!Dies, Settings!At, Settings!Busy, Settings!Rest, Settings!Exits

LEMMA SettingsRead ==
  ASSUME SettingsInv, NEW p \in Runs, Settings!Reads(p) PROVE SettingsInv'
  <1> USE SettingsHave
  <1> DEFINE ask == writer[p].ask
             next == IF ask.mode = "groups" THEN IF Settings!ToImport(ask, group) THEN "import" ELSE "groups"
                     ELSE IF ask.over = "saml" THEN "entra" ELSE "again"
             key == Settings!KeyOf(ask, oidc)
  <1>1. writer[p].pc \notin Settings!Rest
    BY SettingsAt DEF Settings!Step
  <1>2. UNCHANGED <<oidc, saml, group, users, active, setOthers>> /\ setFaults' \in 0 .. MaxFaults
    BY DEF Settings!Reads, Settings!Organization, Settings!settings
  <1>3. CASE \E code \in {"exit2", "exit3"} : Settings!Ends(p, code)
    <2>1. PICK code \in Settings!Rest : writer' = [writer EXCEPT ![p] = [Settings!Idle EXCEPT !.pc = code]]
      BY <1>3 DEF Settings!Ends, Settings!Knows, Settings!Rest, Settings!Exits
    <2> QED BY <1>1, <1>2, <2>1, SettingsOver DEF SettingsInv
  <1>4. CASE /\ ~Settings!Refused(ask, oidc, saml, users, group)
             /\ Settings!Knows(p, [writer[p] EXCEPT !.ask.key = key, !.o = oidc, !.f = saml, !.us = users, !.g = group,
                                     !.pc = next])
    <2>9. next \in {"entra", "again", "import", "groups"} /\ (next \in {"import", "groups"} <=> ask.mode = "groups")
          /\ (next = "again" => ask.over # "saml")
      OBVIOUS
    <2>1. key \in Settings!Subjects /\ next \in Settings!Steps
      <3>1. key \in Settings!Subjects
        BY DEF Settings!KeyOf, Writers, Settings!Asked, Settings!Oidc, Settings!Subjects, Settings!UserKeys
      <3> QED BY <2>9, <3>1 DEF Settings!Steps
    <2>3. ask.mode = "configure" => ~Settings!Switches(ask, oidc, saml, users, key)
      BY <1>4 DEF Settings!Refused
    <2> DEFINE asked == [ask EXCEPT !.key = key]
    <2>2. asked \in Settings!Asked
      BY <2>1 DEF Writers, Settings!Asked
    <2>10. writer' = [writer EXCEPT ![p] = [writer[p] EXCEPT !.ask = asked, !.o = oidc, !.f = saml, !.us = users, !.g = group,
                                              !.pc = next]]
      BY <1>4 DEF Settings!Knows
    <2>11. asked.mode = ask.mode /\ asked.over = ask.over /\ asked.app = ask.app /\ asked.key = key /\ Argued(asked)
      BY DEF Writers, Settings!Asked, SettingsInv, Argued
    <2> HIDE DEF next, key, asked
    <2>4. /\ writer' = [writer EXCEPT ![p] = writer'[p]] /\ writer'[p] \in Writers
          /\ writer'[p].pc = next /\ writer'[p].ask = asked /\ writer'[p].f = saml
          /\ writer'[p].us = users /\ writer'[p].f2 = writer[p].f2
      BY <2>1, <2>2, <2>10, ZenonT(40) DEF Writers
    <2>5. /\ writer'[p].ask.mode = ask.mode /\ writer'[p].ask.over = ask.over /\ writer'[p].ask.app = ask.app
          /\ writer'[p].ask.key = key /\ Argued(writer'[p].ask)
      BY <2>4, <2>11
    <2>6. ask.mode = "configure" => ~Settings!Switches(writer'[p].ask, oidc, saml, users, key)
      BY <2>3, <2>5 DEF Settings!Switches
    <2>7. SettingsFit(writer[p])'
      BY <1>2, <2>9, <2>4, <2>5, <2>6 DEF SettingsFit, Settings!Switches, Settings!Anothers, Settings!Federated,
           Settings!OidcOn, Settings!Made
    <2>8. NamedSaml(writer'[p].f2) /\ writer'[p].pc # "exit0"
      BY <2>4, <2>9 DEF SettingsInv
    <2> QED BY <1>1, <1>2, <2>4, <2>5, <2>7, <2>8, SettingsMoves DEF SettingsInv
  <1> QED BY <1>3, <1>4 DEF Settings!Reads

\* What a run knew and what it asked for stay as they are when only the step and the arguments' keys do.
LEMMA SettingsReadEntra ==
  ASSUME SettingsInv, NEW p \in Runs, Settings!ReadsEntra(p) PROVE SettingsInv'
  <1> USE SettingsHave
  <1>1. writer[p].pc = "entra" /\ writer[p].pc \notin Settings!Rest
    BY SettingsAt DEF Settings!Step, Settings!ReadsEntra, Settings!At
  <1>2. UNCHANGED <<oidc, saml, group, users, active, setOthers>> /\ setFaults' \in 0 .. MaxFaults
    BY DEF Settings!ReadsEntra, Settings!Organization, Settings!settings
  <1>3. CASE Settings!Ends(p, "exit3")
    <2>1. writer' = [writer EXCEPT ![p] = [Settings!Idle EXCEPT !.pc = "exit3"]] /\ "exit3" \in Settings!Rest
      BY <1>3 DEF Settings!Ends, Settings!Knows, Settings!Rest, Settings!Exits
    <2> QED BY <1>1, <1>2, <2>1, SettingsOver
  <1>4. CASE Settings!Knows(p, [writer[p] EXCEPT !.active = IF writer[p].ask.reader THEN active ELSE "none", !.pc = "again"])
    <2> DEFINE seen == IF writer[p].ask.reader THEN active ELSE "none"
    <2>4. seen \in {"none", "signs", "next"} /\ writer' = [writer EXCEPT ![p] = [writer[p] EXCEPT !.active = seen, !.pc = "again"]]
      BY <1>4 DEF Settings!Knows
    <2> HIDE DEF seen
    <2>5. [writer[p] EXCEPT !.active = seen, !.pc = "again"] \in Writers
      BY <2>4, ZenonT(40) DEF Writers, Settings!Steps
    <2>1. /\ writer' = [writer EXCEPT ![p] = writer'[p]] /\ writer'[p] \in Writers
          /\ writer'[p] = [writer[p] EXCEPT !.active = seen, !.pc = "again"]
      BY <2>4, <2>5
    <2>2. /\ writer'[p].ask = writer[p].ask /\ writer'[p].f = writer[p].f /\ writer'[p].us = writer[p].us
          /\ writer'[p].f2 = writer[p].f2 /\ writer'[p].alone = writer[p].alone /\ writer'[p].pc = "again"
          /\ writer'[p].active = seen
      BY <2>1 DEF Writers
    <2>3. ASSUME writer[p].alone PROVE SettingsFit(writer[p])'
      <3>1. /\ writer[p].f = saml /\ writer[p].ask.mode # "groups"
            /\ writer[p].ask.mode = "configure" =>
                 ~Settings!Switches(writer[p].ask, oidc, saml, writer[p].us, writer[p].ask.key)
        BY <1>1, <2>3 DEF SettingsInv, SettingsFit
      <3> QED BY <1>2, <2>2, <3>1 DEF SettingsFit, seen
    <2> QED BY <1>1, <1>2, <2>1, <2>2, <2>3, SettingsMoves DEF SettingsInv
  <1> QED BY <1>3, <1>4 DEF Settings!ReadsEntra

LEMMA SettingsReadAgain ==
  ASSUME SettingsInv, NEW p \in Runs, Settings!ReadsAgain(p) PROVE SettingsInv'
  <1> USE SettingsHave
  <1> DEFINE k == writer[p]
             ask == k.ask
             refused ==
               IF ask.over = "saml" THEN Settings!Untied(p, IF ask.mode = "update" THEN k.f ELSE saml)
               ELSE ask.mode = "configure" /\ Settings!Switches(ask, oidc, k.f, k.us, ask.key)
             changes == IF ask.over = "oidc" THEN ask.mode = "update" \/ Settings!OidcBody(ask, oidc) # oidc
                        ELSE Settings!SamlBody(ask, saml) # saml
             next == IF changes THEN "put" ELSE "back"
  <1>1. writer[p].pc = "again" /\ writer[p].pc \notin Settings!Rest
    BY SettingsAt DEF Settings!Step, Settings!ReadsAgain, Settings!At
  <1>2. UNCHANGED <<oidc, saml, group, users, active, setOthers>> /\ setFaults' \in 0 .. MaxFaults
    BY DEF Settings!ReadsAgain, Settings!Organization, Settings!settings
  <1>3. CASE \E code \in {"exit2", "exit3"} : Settings!Ends(p, code)
    <2>1. PICK code \in Settings!Rest : writer' = [writer EXCEPT ![p] = [Settings!Idle EXCEPT !.pc = code]]
      BY <1>3 DEF Settings!Ends, Settings!Knows, Settings!Rest, Settings!Exits
    <2> QED BY <1>1, <1>2, <2>1, SettingsOver
  <1>4. CASE ~refused /\ Settings!Knows(p, [k EXCEPT !.o2 = oidc, !.f2 = saml, !.pc = next])
    <2>1. next \in {"put", "back"}
      OBVIOUS
    <2>6. /\ ask.over = "saml" => ~Settings!Untied(p, IF ask.mode = "update" THEN k.f ELSE saml)
          /\ ask.over = "oidc" => ~(ask.mode = "configure" /\ Settings!Switches(ask, oidc, k.f, k.us, ask.key))
      BY <1>4
    <2> HIDE DEF next, refused, changes
    <2>7. writer' = [writer EXCEPT ![p] = [writer[p] EXCEPT !.o2 = oidc, !.f2 = saml, !.pc = next]]
      BY <1>4 DEF Settings!Knows
    <2>8. [writer[p] EXCEPT !.o2 = oidc, !.f2 = saml, !.pc = next] \in Writers
      BY <2>1, ZenonT(40) DEF Writers, Settings!Steps
    <2>2. /\ writer' = [writer EXCEPT ![p] = writer'[p]] /\ writer'[p] \in Writers
          /\ writer'[p] = [writer[p] EXCEPT !.o2 = oidc, !.f2 = saml, !.pc = next]
      BY <2>7, <2>8
    <2>3. /\ writer'[p].ask = writer[p].ask /\ writer'[p].f = writer[p].f /\ writer'[p].us = writer[p].us
          /\ writer'[p].f2 = saml /\ writer'[p].o2 = oidc /\ writer'[p].alone = writer[p].alone /\ writer'[p].pc = next
          /\ writer'[p].active = writer[p].active
      BY <2>2 DEF Writers
    <2>4. ASSUME k.alone PROVE SettingsFit(writer[p])'
      <3>1. /\ k.f = saml /\ ask.mode # "groups"
            /\ ask.mode = "configure" => ~Settings!Switches(ask, oidc, saml, k.us, ask.key)
            /\ ask.over = "saml" => k.active = IF ask.reader THEN active ELSE "none"
        BY <1>1, <2>4 DEF SettingsInv, SettingsFit
      <3>2. ask.over = "saml" /\ ask.reader => active \in ask.file /\ "foreign" \notin ask.file
        BY <2>6, <3>1 DEF Settings!Untied
      <3> QED BY <1>2, <2>1, <2>3, <3>1, <3>2 DEF SettingsFit, Settings!Switches, Settings!Anothers, Settings!Federated,
           Settings!OidcOn, Settings!Made
    <2>5. Argued(writer'[p].ask) /\ NamedSaml(writer'[p].f2) /\ writer'[p].us \subseteq users /\ writer'[p].pc # "exit0"
      BY <2>1, <2>3 DEF SettingsInv
    <2> QED BY <1>1, <1>2, <2>2, <2>3, <2>4, <2>5, SettingsMoves
  <1> QED BY <1>3, <1>4 DEF Settings!ReadsAgain

\* What a write leaves.
LEMMA SettingsSent ==
  ASSUME SettingsInv, NEW p \in Runs, Settings!Sent(p)
  PROVE  /\ oidc' \in Settings!Oidc /\ saml' \in Settings!Saml /\ NamedSaml(saml')
         /\ writer[p].ask.over = "oidc" => oidc' = Settings!OidcBody(writer[p].ask, writer[p].o2) /\ saml' = saml
         /\ writer[p].ask.over = "saml" => saml' = Settings!SamlBody(writer[p].ask, writer[p].f2) /\ oidc' = oidc
  <1> USE SettingsHave
  <1>1. CASE writer[p].ask.over = "oidc"
    <2>1. oidc' = Settings!OidcBody(writer[p].ask, writer[p].o2) /\ saml' = saml
      BY <1>1 DEF Settings!Sent
    <2>2. Settings!OidcBody(writer[p].ask, writer[p].o2) \in Settings!Oidc
      BY DEF Settings!OidcBody, Settings!StaysAs, Settings!Oidc, Writers, Settings!Asked, Settings!Issuers
    <2> QED BY <1>1, <2>1, <2>2
  <1>2. CASE writer[p].ask.over # "oidc"
    <2>1. saml' = Settings!SamlBody(writer[p].ask, writer[p].f2) /\ oidc' = oidc
      BY <1>2 DEF Settings!Sent
    <2>2. Settings!SamlBody(writer[p].ask, writer[p].f2) \in Settings!Saml
      BY DEF Settings!SamlBody, Settings!StaysAs, Settings!Saml, Writers, Settings!Asked, Settings!Claims
    <2>3. NamedSaml(Settings!SamlBody(writer[p].ask, writer[p].f2))
      BY DEF SettingsInv, NamedSaml, Settings!SamlBody, Settings!Saml, Writers
    <2> QED BY <1>2, <2>1, <2>2, <2>3
  <1> QED BY <1>1, <1>2

LEMMA SettingsPut ==
  ASSUME SettingsInv, NEW p \in Runs, Settings!Puts(p) PROVE SettingsInv'
  <1> USE SettingsHave
  <1>1. writer[p].pc = "put" /\ writer[p].pc \notin Settings!Rest
    BY SettingsAt DEF Settings!Step, Settings!Puts, Settings!At
  <1>2. UNCHANGED <<group, users, active, setOthers>> /\ setFaults' \in 0 .. MaxFaults
    BY DEF Settings!Puts
  <1>3. oidc' \in Settings!Oidc /\ saml' \in Settings!Saml /\ NamedSaml(saml') /\ group' \in Settings!Group
    BY <1>2, SettingsSent DEF Settings!Puts, Settings!settings
  <1>4. CASE \E code \in {"exit1", "exit3"} : Settings!Ends(p, code)
    <2>1. PICK code \in Settings!Rest : writer' = [writer EXCEPT ![p] = [Settings!Idle EXCEPT !.pc = code]]
      BY <1>4 DEF Settings!Ends, Settings!Knows, Settings!Rest, Settings!Exits
    <2> QED BY <1>1, <1>2, <1>3, <2>1, SettingsOver
  <1>5. CASE Settings!Goes(p, "back")
    <2>1. writer' = [writer EXCEPT ![p] = writer'[p]] /\ writer'[p] \in Writers /\ writer'[p] = [writer[p] EXCEPT !.pc = "back"]
      BY <1>5 DEF Settings!Goes, Writers, Settings!Steps
    <2>2. /\ writer'[p].ask = writer[p].ask /\ writer'[p].f2 = writer[p].f2 /\ writer'[p].us = writer[p].us
          /\ writer'[p].pc = "back"
      BY <2>1 DEF Writers
    <2>3. SettingsFit(writer[p])'
      BY <2>2 DEF SettingsFit
    <2> QED BY <1>1, <1>2, <1>3, <2>1, <2>2, <2>3, SettingsMoves DEF SettingsInv
  <1> QED BY <1>4, <1>5 DEF Settings!Puts

\* A run ends well: what it wrote is what it was asked for.
LEMMA SettingsEndsWell ==
  ASSUME SettingsInv, NEW p \in Runs, writer[p].pc \notin Settings!Rest, Settings!EndsWell(p),
         UNCHANGED <<oidc, saml, group, users, active, setOthers>>, setFaults' \in 0 .. MaxFaults,
         writer[p].alone => Written(writer[p].ask)
  PROVE  SettingsInv'
  <1> USE SettingsHave
  <1>1. writer' = [writer EXCEPT ![p] = [Settings!Idle EXCEPT !.pc = "exit0", !.ask = writer[p].ask, !.alone = writer[p].alone]]
    BY DEF Settings!EndsWell, Settings!Knows
  <1>2. [Settings!Idle EXCEPT !.pc = "exit0", !.ask = writer[p].ask, !.alone = writer[p].alone] \in Writers
    BY SettingsIdle DEF Writers, Settings!Rest, Settings!Exits
  <1>3. /\ writer' = [writer EXCEPT ![p] = writer'[p]] /\ writer'[p] \in Writers
        /\ writer'[p].ask = writer[p].ask /\ writer'[p].pc = "exit0" /\ writer'[p].us = {} /\ NamedSaml(writer'[p].f2)
        /\ writer'[p].alone = writer[p].alone
    BY <1>1, <1>2, SettingsIdle DEF Writers
  <1>4. SettingsFit(writer[p])'
    BY <1>3 DEF SettingsFit
  <1>5. writer'[p].alone => Written(writer[p].ask)'
    BY <1>3 DEF Written, Settings!On, Settings!OidcOn
  <1>6. Argued(writer'[p].ask) /\ writer'[p].us \subseteq users
    BY <1>3 DEF SettingsInv
  <1> QED BY <1>3, <1>4, <1>5, <1>6, SettingsMoves

LEMMA SettingsReadBack ==
  ASSUME SettingsInv, NEW p \in Runs, Settings!ReadsBack(p) PROVE SettingsInv'
  <1> USE SettingsHave
  <1> DEFINE ask == writer[p].ask
             planned == IF ask.over = "oidc" THEN oidc = Settings!OidcBody(ask, writer[p].o2)
                        ELSE /\ ask.file \subseteq saml.certs
                             /\ IF ask.mode = "update" THEN saml.on ELSE
                                  saml.claim = "planned" /\ saml.on = Settings!StaysAs(ask, writer[p].f2.on)
             next == IF Settings!ToImport(ask, writer[p].g) THEN "import" ELSE "groups"
  <1>1. writer[p].pc = "back" /\ writer[p].pc \notin Settings!Rest
    BY SettingsAt DEF Settings!Step, Settings!ReadsBack, Settings!At
  <1>2. UNCHANGED <<oidc, saml, group, users, active, setOthers>> /\ setFaults' \in 0 .. MaxFaults
    BY DEF Settings!ReadsBack, Settings!Organization, Settings!settings
  <1>3. CASE \E code \in {"exit1", "exit3"} : Settings!Ends(p, code)
    <2>1. PICK code \in Settings!Rest : writer' = [writer EXCEPT ![p] = [Settings!Idle EXCEPT !.pc = code]]
      BY <1>3 DEF Settings!Ends, Settings!Knows, Settings!Rest, Settings!Exits
    <2> QED BY <1>1, <1>2, <2>1, SettingsOver
  <1>4. CASE ask.mode = "update" /\ planned /\ Settings!EndsWell(p)
    <2>1. ask \in Settings!Asked /\ Argued(ask)
      BY DEF Writers, SettingsInv
    <2>2. ask.file \subseteq saml.certs
      <3>1. ask.over \in {"oidc", "saml"}
        BY <2>1 DEF Settings!Asked, Settings!Protocols
      <3> QED BY <1>4, <2>1, <3>1 DEF Argued
    <2>3. Written(ask)
      BY <1>4, <2>1, <2>2 DEF Argued, Written
    <2> QED BY <1>1, <1>2, <1>4, <2>3, SettingsEndsWell
  <1>5. CASE ask.mode = "configure" /\ Settings!Knows(p, [writer[p] EXCEPT !.held = planned, !.pc = next])
    <2>1. planned \in BOOLEAN /\ next \in {"import", "groups"}
      OBVIOUS
    <2>2. planned =>
            IF ask.over = "oidc" THEN oidc = Settings!OidcBody(ask, writer[p].o2)
            ELSE ask.file \subseteq saml.certs /\ saml.on = Settings!StaysAs(ask, writer[p].f2.on)
      BY <1>5
    <2> HIDE DEF planned, next
    <2>3. writer' = [writer EXCEPT ![p] = [writer[p] EXCEPT !.held = planned, !.pc = next]]
      BY <1>5 DEF Settings!Knows
    <2>4. [writer[p] EXCEPT !.held = planned, !.pc = next] \in Writers
      BY <2>1, ZenonT(40) DEF Writers, Settings!Steps
    <2>5. /\ writer' = [writer EXCEPT ![p] = writer'[p]] /\ writer'[p] \in Writers
          /\ writer'[p].ask = ask /\ writer'[p].pc = next /\ writer'[p].us = writer[p].us
          /\ writer'[p].f2 = writer[p].f2 /\ writer'[p].o2 = writer[p].o2
      BY <2>3, <2>4 DEF Writers
    <2>7. writer'[p].held = planned
      BY <2>3, <2>4 DEF Writers
    <2>6. SettingsFit(writer[p])'
      <3>1. /\ writer'[p].pc \notin {"entra", "again", "put"}
            /\ writer'[p].held => planned
            /\ writer'[p].ask.mode = "configure"
        BY <1>5, <2>1, <2>5, <2>7
      <3> QED BY <1>2, <2>2, <2>5, <3>1 DEF SettingsFit, Settings!OidcBody, Settings!StaysAs
    <2>8. Argued(writer'[p].ask) /\ NamedSaml(writer'[p].f2) /\ writer'[p].us \subseteq users /\ writer'[p].pc # "exit0"
      BY <2>1, <2>5 DEF SettingsInv
    <2> QED BY <1>1, <1>2, <2>5, <2>6, <2>8, SettingsMoves
  <1> QED BY <1>3, <1>4, <1>5 DEF Settings!ReadsBack

LEMMA SettingsImport ==
  ASSUME SettingsInv, NEW p \in Runs, Settings!Imports(p) PROVE SettingsInv'
  <1> USE SettingsHave
  <1>1. writer[p].pc = "import" /\ writer[p].pc \notin Settings!Rest
    BY SettingsAt DEF Settings!Step, Settings!Imports, Settings!At
  <1>2. UNCHANGED <<oidc, saml, users, active, setOthers>> /\ setFaults' \in 0 .. MaxFaults
    BY DEF Settings!Imports, Settings!settings
  <1>3. group' \in Settings!Group
    <2>1. group' \in {group, [over |-> writer[p].ask.over, role |-> TRUE]}
      BY DEF Settings!Imports
    <2>2. writer[p].ask.over \in Settings!Protocols
      BY DEF Writers, Settings!Asked
    <2>3. [over |-> writer[p].ask.over, role |-> TRUE] \in Settings!Group
      BY <2>2 DEF Settings!Group
    <2> QED BY <2>1, <2>3
  <1>4. CASE \E code \in {"exit1", "exit3"} : Settings!Ends(p, code)
    <2>1. PICK code \in Settings!Rest : writer' = [writer EXCEPT ![p] = [Settings!Idle EXCEPT !.pc = code]]
      BY <1>4 DEF Settings!Ends, Settings!Knows, Settings!Rest, Settings!Exits
    <2> QED BY <1>1, <1>2, <1>3, <2>1, SettingsOver
  <1>5. CASE Settings!Goes(p, "groups")
    <2>1. writer' = [writer EXCEPT ![p] = writer'[p]] /\ writer'[p] \in Writers /\ writer'[p] = [writer[p] EXCEPT !.pc = "groups"]
      BY <1>5 DEF Settings!Goes, Writers, Settings!Steps
    <2>2. /\ writer'[p].ask = writer[p].ask /\ writer'[p].f2 = writer[p].f2 /\ writer'[p].us = writer[p].us
          /\ writer'[p].pc = "groups" /\ writer'[p].held = writer[p].held /\ writer'[p].o2 = writer[p].o2
          /\ writer'[p].alone = writer[p].alone
      BY <2>1 DEF Writers
    <2>3. ASSUME writer[p].alone PROVE SettingsFit(writer[p])'
      <3>1. SettingsFit(writer[p])
        BY <2>3 DEF SettingsInv
      <3> QED BY <1>1, <1>2, <2>2, <3>1 DEF SettingsFit, Settings!OidcBody, Settings!StaysAs
    <2> QED BY <1>1, <1>2, <1>3, <2>1, <2>2, <2>3, SettingsMoves DEF SettingsInv
  <1> QED BY <1>4, <1>5 DEF Settings!Imports

LEMMA SettingsReadGroups ==
  ASSUME SettingsInv, NEW p \in Runs, Settings!ReadsGroups(p) PROVE SettingsInv'
  <1> USE SettingsHave
  <1>1. writer[p].pc = "groups" /\ writer[p].pc \notin Settings!Rest
    BY SettingsAt DEF Settings!Step, Settings!ReadsGroups, Settings!At
  <1>2. UNCHANGED <<oidc, saml, group, users, active, setOthers>> /\ setFaults' \in 0 .. MaxFaults
    BY DEF Settings!ReadsGroups, Settings!Organization, Settings!settings
  <1>3. CASE \E code \in {"exit1", "exit3"} : Settings!Ends(p, code)
    <2>1. PICK code \in Settings!Rest : writer' = [writer EXCEPT ![p] = [Settings!Idle EXCEPT !.pc = code]]
      BY <1>3 DEF Settings!Ends, Settings!Knows, Settings!Rest, Settings!Exits
    <2> QED BY <1>1, <1>2, <2>1, SettingsOver
  <1>4. CASE /\ writer[p].held /\ (writer[p].ask.group => group = [over |-> writer[p].ask.over, role |-> TRUE])
             /\ Settings!EndsWell(p)
    <2> DEFINE ask == writer[p].ask
    <2>1. ask \in Settings!Asked /\ Argued(ask) /\ ask.over \in {"oidc", "saml"} /\ ask.mode \in {"groups", "update", "configure"}
      BY DEF Writers, SettingsInv, Settings!Asked, Settings!Protocols
    <2>2. ASSUME writer[p].alone PROVE Written(ask)
      <3>1. ask.mode = "configure" =>
              IF ask.over = "oidc" THEN oidc = Settings!OidcBody(ask, writer[p].o2)
              ELSE ask.file \subseteq saml.certs /\ saml.on = Settings!StaysAs(ask, writer[p].f2.on)
        BY <1>1, <1>4, <2>2 DEF SettingsInv, SettingsFit
      <3>5. ask.mode # "update"
        BY <1>1, <2>2 DEF SettingsInv, SettingsFit
      <3>2. CASE ask.mode # "configure"
        BY <1>4, <2>1, <3>2, <3>5 DEF Written, Argued
      <3>3. CASE ask.mode = "configure" /\ ask.over = "oidc"
        <4>1. oidc.iss = "us" /\ oidc.app = ask.app /\ oidc.key = ask.key /\ oidc.on = Settings!StaysAs(ask, writer[p].o2.on)
          BY <3>1, <3>3 DEF Settings!OidcBody
        <4> QED BY <1>4, <2>1, <3>3, <4>1 DEF Written, Argued, Settings!On, Settings!OidcOn, Settings!StaysAs
      <3>4. CASE ask.mode = "configure" /\ ask.over = "saml"
        BY <1>4, <2>1, <3>1, <3>4 DEF Written, Argued, Settings!On, Settings!StaysAs
      <3> QED BY <2>1, <3>2, <3>3, <3>4
    <2> QED BY <1>1, <1>2, <1>4, <2>2, SettingsEndsWell
  <1> QED BY <1>3, <1>4 DEF Settings!ReadsGroups

LEMMA SettingsDied ==
  ASSUME SettingsInv, NEW p \in Runs, Settings!Dies(p) PROVE SettingsInv'
  <1> USE SettingsHave
  <1>1. writer[p].pc \notin Settings!Rest
    BY SettingsAt
  <1>2. UNCHANGED <<oidc, saml, group, users, active, setOthers>> /\ setFaults' \in 0 .. MaxFaults
    BY DEF Settings!Dies, Settings!Organization, Settings!settings
  <1>3. Settings!Idle = [Settings!Idle EXCEPT !.pc = "idle"]
    BY SettingsIdle DEF Writers
  <1>4. writer' = [writer EXCEPT ![p] = [Settings!Idle EXCEPT !.pc = "idle"]] /\ "idle" \in Settings!Rest
    BY <1>3 DEF Settings!Dies, Settings!Rest
  <1> QED BY <1>1, <1>2, <1>4, SettingsOver

LEMMA SettingsSignIn == SettingsInv /\ Settings!SignsIn => SettingsInv'
  <1> SUFFICES ASSUME SettingsInv, Settings!SignsIn PROVE SettingsInv'
    OBVIOUS
  <1> USE SettingsHave
  <1>1. UNCHANGED <<oidc, saml, group, active, writer, setFaults, setOthers>>
    BY DEF Settings!SignsIn, Settings!settings
  <1>2. users \subseteq users' /\ users' \subseteq Settings!User /\ \A u \in users' : u.over = "saml" => u.iss # "none"
    <2>1. CASE users' = users \cup {[over |-> "oidc", iss |-> oidc.iss, app |-> oidc.app, key |-> oidc.key]}
      <3>1. [over |-> "oidc", iss |-> oidc.iss, app |-> oidc.app, key |-> oidc.key] \in Settings!User
        BY DEF Settings!User, Settings!Oidc
      <3> QED BY <2>1, <3>1 DEF SettingsInv
    <2>2. CASE saml.on /\ users' = users \cup {[over |-> "saml", iss |-> saml.iss, app |-> "none", key |-> saml.claim]}
      <3>1. saml.iss # "none" /\ saml.iss \in {"none", "us", "other"} /\ saml.claim \in Settings!Claims
        BY <2>2 DEF NamedSaml, Settings!Saml
      <3>2. [over |-> "saml", iss |-> saml.iss, app |-> "none", key |-> saml.claim] \in Settings!User
        BY <3>1 DEF Settings!User
      <3> QED BY <2>2, <3>1, <3>2 DEF SettingsInv
    <2> QED BY <2>1, <2>2 DEF Settings!SignsIn
  <1>3. Settings!TypeOK' /\ SettingsSole' /\ NamedSaml(saml)'
    BY <1>1, <1>2 DEF SettingsInv, Settings!TypeOK, SettingsSole, NamedSaml
  <1>4. \A p \in Runs : SettingsFit(writer[p]) => SettingsFit(writer[p])'
    BY <1>1 DEF SettingsFit, Settings!OidcBody, Settings!StaysAs
  <1>5. \A p \in Runs : Written(writer[p].ask) => Written(writer[p].ask)'
    BY <1>1 DEF Written, Settings!On, Settings!OidcOn
  <1> QED BY <1>1, <1>2, <1>3, <1>4, <1>5 DEF SettingsInv

LEMMA SettingsAdministered == SettingsInv /\ Settings!Administers => SettingsInv'
  <1> SUFFICES ASSUME SettingsInv, Settings!Administers PROVE SettingsInv'
    OBVIOUS
  <1> USE SettingsHave
  <1>1. UNCHANGED <<users, setFaults>> /\ setOthers' \in 0 .. MaxOthers
    BY SettingsNumbers DEF Settings!Administers
  <1>2. writer' = [p \in Runs |-> [writer[p] EXCEPT !.alone = FALSE]]
    BY DEF Settings!Administers
  <1>3. \A p \in Runs :
          /\ writer'[p] \in Writers /\ writer'[p].pc = writer[p].pc /\ writer'[p].ask = writer[p].ask
          /\ writer'[p].us = writer[p].us /\ writer'[p].f2 = writer[p].f2 /\ ~writer'[p].alone
    BY <1>2, ZenonT(40) DEF Writers
  <1>4. oidc' \in Settings!Oidc
    <2>1. oidc' = oidc \/ oidc' = [oidc EXCEPT !.on = ~@] \/ \E k \in {"oid", "sub"} : oidc' = [oidc EXCEPT !.key = k]
      BY DEF Settings!Administers, Settings!settings
    <2> QED BY <2>1 DEF Settings!Oidc, Settings!Subjects, Settings!UserKeys
  <1>5. saml' \in Settings!Saml /\ NamedSaml(saml')
    <2>1. \/ saml' = saml
          \/ saml.iss # "none" /\ saml' = [saml EXCEPT !.on = ~@]
          \/ \E c \in {"planned", "another"} : saml' = [saml EXCEPT !.claim = c]
      BY DEF Settings!Administers, Settings!settings
    <2> QED BY <2>1 DEF Settings!Saml, Settings!Claims, NamedSaml
  <1>6. group' \in Settings!Group
    <2>1. group' \in {group, Settings!NoGroup, [over |-> "oidc", role |-> FALSE], [over |-> "saml", role |-> TRUE]}
      BY DEF Settings!Administers
    <2>2. {Settings!NoGroup, [over |-> "oidc", role |-> FALSE], [over |-> "saml", role |-> TRUE]} \subseteq Settings!Group
      BY DEF Settings!NoGroup, Settings!Group, Settings!Protocols
    <2> QED BY <2>1, <2>2
  <1>7. active' \in {"signs", "next"}
    BY DEF Settings!Administers
  <1>8. writer' \in [Runs -> Writers] /\ \A p \in Runs : writer'[p].us \subseteq users'
    BY <1>1, <1>2, <1>3
  <1>9. Settings!TypeOK'
    BY <1>1, <1>4, <1>5, <1>6, <1>7, <1>8 DEF SettingsInv, Settings!TypeOK, Writers
  <1>10. SettingsSole' /\ \A u \in users' : u.over = "saml" => u.iss # "none"
    BY <1>1, <1>3 DEF SettingsSole, SettingsInv
  <1> QED BY <1>3, <1>5, <1>9, <1>10 DEF SettingsInv

LEMMA SettingsStep == SettingsInv /\ Settings!Next => SettingsInv'
  BY SettingsSignIn, SettingsAdministered, SettingsBegin, SettingsRead, SettingsReadEntra, SettingsReadAgain,
     SettingsPut, SettingsReadBack, SettingsImport, SettingsReadGroups, SettingsDied DEF Settings!Next, Settings!Step

LEMMA SettingsStay == SettingsInv /\ UNCHANGED settings => SettingsInv'
  <1> SUFFICES ASSUME SettingsInv, UNCHANGED settings PROVE SettingsInv'
    OBVIOUS
  <1>1. UNCHANGED <<oidc, saml, group, users, active, writer, setFaults, setOthers>>
    BY DEF settings
  <1>2. Settings!TypeOK' /\ SettingsSole' /\ NamedSaml(saml)'
    BY <1>1 DEF SettingsInv, Settings!TypeOK, SettingsSole, NamedSaml
  <1>3. \A p \in Runs : SettingsFit(writer[p]) => SettingsFit(writer[p])'
    BY <1>1 DEF SettingsFit, Settings!OidcBody, Settings!StaysAs
  <1>4. \A p \in Runs : Written(writer[p].ask) => Written(writer[p].ask)'
    BY <1>1 DEF Written, Settings!On, Settings!OidcOn
  <1> QED BY <1>1, <1>2, <1>3, <1>4 DEF SettingsInv

\* Exit 0 is true, and a write spares the users and admits the people of the application.
LEMMA SettingsSays == SettingsInv => Settings!TypeOK /\ Settings!ExitZeroIsTrue
  BY DEF SettingsInv, Settings!ExitZeroIsTrue, Settings!At, Written

\* What is put is put by Puts alone.
LEMMA SettingsWriter ==
  ASSUME SettingsInv, Settings!Next, NEW p \in Runs, Settings!Writes(p), writer[p].alone
  PROVE  /\ Settings!Sent(p) \/ UNCHANGED <<oidc, saml>>
         /\ SettingsFit(writer[p]) /\ writer[p].pc = "put"
  <1> USE SettingsHave
  <1>1. SettingsFit(writer[p]) /\ writer[p].pc = "put" /\ writer'[p].pc # "put" /\ writer[p].pc \notin Settings!Rest
    BY DEF SettingsInv, Settings!Writes, Settings!At, Settings!Rest, Settings!Exits
  <1>2. ASSUME NEW q \in Runs, Settings!Step(q) PROVE q = p
    <2>1. writer[q].pc \notin Settings!Rest
      BY <1>2, SettingsAt
    <2> QED BY <1>1, <2>1 DEF SettingsInv, SettingsSole
  <1>3. ASSUME Settings!Step(p) PROVE Settings!Puts(p)
    BY <1>1, <1>3 DEF Settings!Step, Settings!Reads, Settings!ReadsEntra, Settings!ReadsAgain, Settings!ReadsBack,
         Settings!Imports, Settings!ReadsGroups, Settings!At
  <1>4. Settings!SignsIn \/ (\E q \in Runs : Settings!Dies(q) \/ Settings!Starts(q)) => UNCHANGED <<oidc, saml>>
    BY DEF Settings!SignsIn, Settings!Dies, Settings!Starts, Settings!Organization, Settings!settings
  <1>5. ~Settings!Administers
    <2>1. Settings!Administers => writer'[p].pc = writer[p].pc
      BY DEF Settings!Administers, Writers
    <2> QED BY <1>1, <2>1
  <1>6. Settings!Puts(p) => Settings!Sent(p) \/ UNCHANGED <<oidc, saml>>
    BY DEF Settings!Puts, Settings!settings
  <1> QED BY <1>1, <1>2, <1>3, <1>4, <1>5, <1>6 DEF Settings!Next

LEMMA SettingsSpares ==
  ASSUME SettingsInv, Settings!Next
  PROVE  /\ \A p \in Runs : Settings!Writes(p) /\ writer[p].alone /\ writer[p].us = users =>
              \A u \in users : Settings!Matched(u, oidc, saml) => Settings!Matched(u, oidc', saml')
         /\ \A p \in Runs : Settings!Writes(p) /\ saml' # saml /\ writer[p].alone /\ writer[p].ask.reader =>
              active \in saml'.certs /\ "foreign" \notin saml'.certs
  <1> USE SettingsHave
  <1> SUFFICES ASSUME NEW p \in Runs, Settings!Writes(p), writer[p].alone
               PROVE  /\ writer[p].us = users =>
                           \A u \in users : Settings!Matched(u, oidc, saml) => Settings!Matched(u, oidc', saml')
                      /\ saml' # saml /\ writer[p].ask.reader => active \in saml'.certs /\ "foreign" \notin saml'.certs
    OBVIOUS
  <1> DEFINE ask == writer[p].ask
  <1>1. SettingsFit(writer[p]) /\ writer[p].pc = "put"
    BY SettingsWriter
  <1>2. CASE UNCHANGED <<oidc, saml>>
    BY <1>2 DEF Settings!Matched
  <1>3. CASE Settings!Sent(p)
    <2>1. /\ ask \in Settings!Asked /\ ask.over \in {"oidc", "saml"} /\ ask.mode \in {"update", "configure"}
          /\ writer[p].o2 = oidc /\ writer[p].f2 = saml
          /\ ask.mode = "configure" => ~Settings!Switches(ask, oidc, saml, writer[p].us, ask.key)
      BY <1>1 DEF SettingsFit, Writers, Settings!Asked, Settings!Protocols
    <2>2. CASE ask.over = "oidc"
      <3>1. oidc' = Settings!OidcBody(ask, oidc) /\ saml' = saml
        BY <1>3, <2>1, <2>2, SettingsSent
      <3>2. CASE ask.mode = "update"
        BY <3>1, <3>2 DEF Settings!OidcBody
      <3>3. ASSUME ask.mode = "configure", writer[p].us = users, NEW u \in users, Settings!Matched(u, oidc, saml)
            PROVE  Settings!Matched(u, oidc', saml')
        <4>1. ~Settings!Switches(ask, oidc, saml, users, ask.key)
          BY <2>1, <3>3
        <4>2. u \in Settings!User
          OBVIOUS
        <4>3. oidc'.iss = "us" /\ oidc'.app = ask.app /\ oidc'.key = ask.key /\ oidc'.on = (oidc.on \/ ask.enable)
          BY <3>1, <3>3 DEF Settings!OidcBody, Settings!StaysAs
        <4>4. CASE u.over = "oidc"
          <5>1. Settings!Made(users, "oidc")
            BY <4>4 DEF Settings!Made
          <5>2. /\ oidc.iss = "us" /\ (oidc.app = ask.app \/ oidc.key \in Settings!UserKeys)
                /\ oidc.key = ask.key
            BY <2>2, <4>1, <5>1 DEF Settings!Switches
          <5> QED BY <3>1, <3>3, <4>3, <4>4, <5>2 DEF Settings!Matched, Settings!UserKeys
        <4>5. CASE u.over = "saml"
          <5>1. Settings!Made(users, "saml")
            BY <4>5 DEF Settings!Made
          <5>2. Settings!Federated(oidc, saml) = "oidc"
            BY <2>2, <4>1, <5>1 DEF Settings!Switches, Settings!Federated
          <5>3. Settings!OidcOn(oidc)
            BY <5>2 DEF Settings!Federated
          <5> QED BY <3>3, <4>5, <5>3 DEF Settings!Matched
        <4> QED BY <4>2, <4>4, <4>5 DEF Settings!User
      <3> QED BY <2>1, <3>1, <3>2, <3>3
    <2>3. CASE ask.over = "saml"
      <3>1. saml' = Settings!SamlBody(ask, saml) /\ oidc' = oidc
        BY <1>3, <2>1, <2>3, SettingsSent
      <3>2. saml'.certs = ask.file
        BY <3>1 DEF Settings!SamlBody, Settings!Saml
      <3>3. ask.reader => active \in saml'.certs /\ "foreign" \notin saml'.certs
        BY <1>1, <2>3, <3>2 DEF SettingsFit
      <3>4. CASE ask.mode = "update"
        <4>1. saml'.on = saml.on /\ saml'.iss = saml.iss /\ saml'.claim = saml.claim
          BY <3>1, <3>4 DEF Settings!SamlBody, Settings!Saml
        <4> QED BY <3>1, <3>3, <4>1 DEF Settings!Matched
      <3>5. ASSUME ask.mode = "configure", writer[p].us = users, NEW u \in users, Settings!Matched(u, oidc, saml)
            PROVE  Settings!Matched(u, oidc', saml')
        <4>1. ~Settings!Switches(ask, oidc, saml, users, ask.key)
          BY <2>1, <3>5
        <4>2. u \in Settings!User
          OBVIOUS
        <4>3. saml'.iss = "us" /\ saml'.claim = "planned"
          BY <3>1, <3>5 DEF Settings!SamlBody
        <4>4. CASE u.over = "oidc"
          <5>1. Settings!Made(users, "oidc")
            BY <4>4 DEF Settings!Made
          <5>2. Settings!Federated(oidc, saml) = "saml"
            BY <2>3, <4>1, <5>1 DEF Settings!Switches, Settings!Federated
          <5>3. saml.on
            BY <5>2 DEF Settings!Federated
          <5> QED BY <3>5, <4>4, <5>3 DEF Settings!Matched
        <4>5. CASE u.over = "saml"
          <5>1. Settings!Made(users, "saml") /\ u.iss # "none"
            BY <4>5 DEF Settings!Made, SettingsInv
          <5>2. saml.claim = "planned" /\ (Settings!Federated(oidc, saml) = "none" => saml.iss # "other")
                /\ Settings!Federated(oidc, saml) \in {"none", "saml"}
            BY <2>3, <4>1, <5>1 DEF Settings!Switches
          <5>3. saml.iss \in {"none", "us"}
            BY <5>2 DEF Settings!Federated, Settings!Saml
          <5> QED BY <3>1, <3>5, <4>3, <4>5, <5>1, <5>2, <5>3 DEF Settings!Matched
        <4> QED BY <4>2, <4>4, <4>5 DEF Settings!User
      <3> QED BY <2>1, <3>3, <3>4, <3>5
    <2> QED BY <2>1, <2>2, <2>3
  <1> QED BY <1>2, <1>3, SettingsWriter

-----------------------------------------------------------------------------
(* The service account (ServiceAccount): what a run that is left alone has done so far, and what is on record. *)

AccRuns ==
  [pc : Account!Rest \cup Account!Steps \cup Account!Checks, mode : {"create", "teardown"}, rows : SUBSET Account!Account,
   cid : 0 .. MaxAccounts, tok : 0 .. MaxTokens, ok : BOOLEAN, silent : BOOLEAN,
   left : {"unread", "there", "none"}, alone : BOOLEAN]

\* The token answers, and signs that account in.
SignsInAs(tok, i) == \E t \in live : t.id = tok /\ t.of = i

\* A create that was left alone: the account is the only one, and the token it holds answers.
CreateFit(k) ==
  /\ k.pc \in {"list", "judge", "register", "save", "write", "grant", "poll"} => k.tok = 0
  /\ k.pc = "judge" => k.rows = accounts
  /\ k.pc = "register" => accounts = {}
  /\ k.pc \in {"save", "write", "grant", "poll"} => accounts = {[id |-> k.cid, act |-> FALSE]}
  /\ k.pc \in {"store", "session", "refresh", "rewrite", "rewritten", "back", "exit0"} =>
       accounts = {[id |-> k.cid, act |-> TRUE]}
  /\ k.pc \in {"grant", "poll", "store", "session", "refresh", "rewrite", "rewritten", "back", "exit0"} =>
       accState = k.cid
  /\ k.pc \in {"store", "session", "refresh", "rewrite", "rewritten", "exit0"} => SignsInAs(k.tok, k.cid)
  /\ k.pc \in {"session", "refresh", "back", "exit0"} => file = k.tok
  /\ k.pc = "back" /\ k.ok => SignsInAs(k.tok, k.cid)
  /\ k.pc \in Account!Exits /\ k.tok # 0 => file = k.tok /\ (k.ok => SignsInAs(k.tok, k.cid))

\* A teardown that was left alone: what it was told is gone is gone.
TeardownFit(k) ==
  /\ k.pc = "judge" => k.rows = accounts
  /\ k.pc \in {"revoke", "tryRevoked", "delete", "gone", "tryDeleted", "end", "save", "write", "exit0"} =>
       \A a \in k.rows : a.id = k.cid
  /\ k.pc \in {"tryRevoked", "delete", "gone", "tryDeleted", "end", "save", "write", "exit0"} /\ k.ok /\ ~k.silent =>
       k.rows = {} \/ \A t \in live : t.of # k.cid
  /\ k.pc \in {"list", "judge", "revoke", "tryRevoked", "delete", "gone"} => k.left # "none"
  /\ k.pc \in {"tryDeleted", "end", "save", "write", "exit0"} /\ k.left = "none" => accounts = {}
  /\ k.pc = "exit0" => k.left = "none" /\ k.ok /\ ~k.silent

Saving == {"save", "write"}
Removing == {"revoke", "tryRevoked", "delete", "gone", "tryDeleted", "end"}

\* A step belongs to a mode.
Suits(k) == (k.pc \in Account!CreateSteps => k.mode = "create") /\ (k.pc \in Removing => k.mode = "teardown")

\* What is on record, or about to be, is the only account of this script.
OnRecord(i) ==
  IF \E p \in Runs : acc[p].pc \in Saving THEN \A p \in Runs : acc[p].pc \in Saving => acc[p].cid = i
  ELSE accState = i

\* How a run stands to the record.
RecordFit(k) ==
  /\ k.mode = "create" /\ (k.pc = "register" \/ (k.pc = "judge" /\ k.rows = {})) => \A a \in accounts : a.id \notin accAnswered
  /\ k.mode = "teardown" /\ k.rows # {} /\ k.pc \in Removing => k.cid = accState

AccountRecord ==
  /\ \A p, q \in Runs : acc[p].pc \notin Account!Rest /\ acc[q].pc \notin Account!Rest => p = q
  /\ ~accTorn => \A a \in accounts : a.id \in accAnswered => OnRecord(a.id)
  /\ \A p \in Runs : RecordFit(acc[p])

AccountInv ==
  /\ Account!TypeOK /\ accState \in accAnswered \cup {0}
  /\ \A a \in accounts : a.id <= registered
  /\ \A p, q \in Runs : acc[p].alone /\ p # q => acc[q].pc \in Account!Rest /\ ~acc[q].alone
  /\ \A p \in Runs :
       /\ acc[p].cid \in accAnswered \cup {0} /\ Suits(acc[p])
       /\ acc[p].mode = "create" /\ acc[p].pc \in Saving => acc[p].cid # 0
       /\ acc[p].alone => IF acc[p].mode = "create" THEN CreateFit(acc[p]) ELSE TeardownFit(acc[p])
  /\ Together <= 1 => AccountRecord

LEMMA AccountNumbers ==
  /\ Together \in Nat /\ MaxOthers \in Nat /\ MaxFaults \in Nat /\ MaxTokens \in Nat /\ MaxAccounts \in Nat
  /\ IsFiniteSet(Runs)
  BY OwnershipAssumption DEF OwnershipAssumption

LEMMA AccountHave ==
  AccountInv =>
    /\ acc \in [Runs -> AccRuns] /\ accounts \subseteq Account!Account /\ live \subseteq Account!Token
    /\ accState \in 0 .. MaxAccounts /\ file \in 0 .. MaxTokens /\ registered \in 0 .. MaxAccounts
    /\ accMinted \in 0 .. MaxTokens /\ accFaults \in 0 .. MaxFaults /\ accOthers \in 0 .. MaxOthers
    /\ accAnswered \subseteq 1 .. registered /\ accTorn \in BOOLEAN /\ accState \in accAnswered \cup {0}
    /\ \A a \in accounts : a.id <= registered
    /\ MaxAccounts \in Nat /\ MaxTokens \in Nat /\ MaxFaults \in Nat /\ MaxOthers \in Nat
  BY AccountNumbers DEF AccountInv, Account!TypeOK, AccRuns

LEMMA AccountIdle ==
  /\ Account!Idle \in AccRuns /\ Account!Idle.pc = "idle" /\ Account!Idle.mode = "create" /\ Account!Idle.rows = {}
  /\ Account!Idle.cid = 0 /\ Account!Idle.tok = 0 /\ Account!Idle.left = "unread" /\ ~Account!Idle.alone
  BY AccountNumbers DEF AccRuns, Account!Idle, Account!Rest

LEMMA AccountStart == Account!Init => AccountInv
  <1> SUFFICES ASSUME Account!Init PROVE AccountInv
    OBVIOUS
  <1> USE AccountIdle, AccountNumbers
  <1>1. acc = [p \in Runs |-> Account!Idle] /\ accounts = {} /\ accState = 0
    BY DEF Account!Init
  <1>2. \A p \in Runs : acc[p] = Account!Idle
    BY <1>1
  <1>3. Account!TypeOK
    <2>1. acc \in [Runs -> AccRuns]
      BY <1>1
    <2>2. /\ accounts = {} /\ live = {} /\ accState = 0 /\ file = 0 /\ registered = 0 /\ accMinted = 0 /\ accFaults = 0
          /\ accOthers = 0 /\ accAnswered = {}
      BY DEF Account!Init
    <2>3. accTorn \in BOOLEAN
      BY DEF Account!Init
    <2> HIDE AccountIdle
    <2> QED BY <2>1, <2>2, <2>3 DEF Account!TypeOK, AccRuns
  <1>4. AccountRecord
    BY <1>1, <1>2 DEF AccountRecord, RecordFit, Removing, Account!Rest
  <1> QED BY <1>1, <1>2, <1>3, <1>4 DEF AccountInv, Saving, Removing, Suits, Account!CreateSteps

\* What a run goes on with, whatever it did meanwhile.
Sets(p) == acc' = [acc EXCEPT ![p] = acc'[p]] /\ acc'[p] \in AccRuns
Same(p) ==
  /\ acc'[p].mode = acc[p].mode /\ acc'[p].rows = acc[p].rows /\ acc'[p].cid = acc[p].cid /\ acc'[p].tok = acc[p].tok
  /\ acc'[p].ok = acc[p].ok /\ acc'[p].silent = acc[p].silent /\ acc'[p].left = acc[p].left
  /\ acc'[p].alone = acc[p].alone

LEMMA AccountGoes ==
  ASSUME acc \in [Runs -> AccRuns], NEW p \in Runs,
         NEW pc \in Account!Rest \cup Account!Steps \cup Account!Checks, Account!Goes(p, pc)
  PROVE  Sets(p) /\ Same(p) /\ acc'[p].pc = pc
  <1>1. acc' = [acc EXCEPT ![p] = [acc[p] EXCEPT !.pc = pc]]
    BY DEF Account!Goes
  <1>2. acc'[p] = [acc[p] EXCEPT !.pc = pc] /\ acc' = [acc EXCEPT ![p] = acc'[p]] /\ acc[p] \in AccRuns
    BY <1>1
  <1> QED BY <1>2 DEF Sets, Same, AccRuns

LEMMA AccountKnows ==
  ASSUME acc \in [Runs -> AccRuns], NEW p \in Runs, NEW k \in AccRuns, Account!Knows(p, k)
  PROVE  Sets(p) /\ acc'[p] = k
  BY DEF Account!Knows, Sets

LEMMA AccountMoves ==
  ASSUME AccountInv, NEW p \in Runs, acc[p].pc \notin Account!Rest, Sets(p),
         accounts' \subseteq Account!Account, live' \subseteq Account!Token, file' \in 0 .. MaxTokens,
         registered' \in 0 .. MaxAccounts, accMinted' \in 0 .. MaxTokens, accFaults' \in 0 .. MaxFaults,
         accOthers' = accOthers, accAnswered' \subseteq 1 .. registered', accAnswered \subseteq accAnswered',
         accTorn' \in BOOLEAN, accState' \in accAnswered' \cup {0},
         \A a \in accounts' : a.id <= registered',
         acc'[p].alone => acc[p].alone, acc'[p].cid \in accAnswered' \cup {0}, Suits(acc[p])',
         acc'[p].mode = "create" /\ acc'[p].pc \in Saving => acc'[p].cid # 0,
         acc'[p].alone => IF acc'[p].mode = "create" THEN CreateFit(acc[p])' ELSE TeardownFit(acc[p])',
         Together <= 1 => AccountRecord'
  PROVE  AccountInv'
  <1> USE AccountHave DEF Sets
  <1>1. \A q \in Runs \ {p} : acc'[q] = acc[q] /\ ~acc[q].alone
    BY DEF AccountInv
  <1>2. acc' \in [Runs -> AccRuns]
    BY <1>1
  <1>3. accState' \in 0 .. MaxAccounts
    OBVIOUS
  <1>4. Account!TypeOK'
    BY <1>2, <1>3 DEF Account!TypeOK, AccRuns
  <1>5. \A q, o \in Runs : acc'[q].alone /\ q # o => acc'[o].pc \in Account!Rest /\ ~acc'[o].alone
    BY <1>1 DEF AccountInv
  <1>7. \A q \in Runs \ {p} : Suits(acc[q])'
    BY <1>1 DEF AccountInv, Suits
  <1>6. \A q \in Runs :
       /\ acc'[q].cid \in accAnswered' \cup {0} /\ Suits(acc[q])'
       /\ acc'[q].mode = "create" /\ acc'[q].pc \in Saving => acc'[q].cid # 0
       /\ acc'[q].alone => IF acc'[q].mode = "create" THEN CreateFit(acc[q])' ELSE TeardownFit(acc[q])'
    BY <1>1, <1>7 DEF AccountInv
  <1> QED BY <1>4, <1>5, <1>6 DEF AccountInv

\* The record stands when nothing of it changes hands.
LEMMA AccountRecordStays ==
  ASSUME AccountInv, Together <= 1, NEW p \in Runs, acc[p].pc \notin Account!Rest, Sets(p),
         UNCHANGED <<accAnswered, accTorn>>, acc'[p].pc \in Saving \/ accState' = accState,
         \A a \in accounts' : a.id \in accAnswered => \E b \in accounts : b.id = a.id,
         acc'[p].pc \in Saving <=> acc[p].pc \in Saving, acc'[p].pc \in Saving => acc'[p].cid = acc[p].cid,
         RecordFit(acc[p])'
  PROVE  AccountRecord'
  <1> USE AccountHave DEF Sets
  <1>1. AccountRecord
    BY DEF AccountInv
  <1>2. \A q \in Runs \ {p} : acc'[q] = acc[q] /\ acc[q].pc \in Account!Rest
    BY <1>1 DEF AccountRecord
  <1>3. \A q \in Runs : (acc'[q].pc \in Saving <=> acc[q].pc \in Saving) /\ (acc'[q].pc \in Saving => acc'[q].cid = acc[q].cid)
    BY <1>2
  <1>4. \A i : OnRecord(i) => OnRecord(i)'
    BY <1>2, <1>3 DEF OnRecord, Saving, Account!Rest, Account!Exits
  <1>5. \A q \in Runs \ {p} : RecordFit(acc[q])'
    BY <1>2 DEF RecordFit, Removing, Account!Rest, Account!Exits
  <1> QED BY <1>1, <1>2, <1>4, <1>5 DEF AccountRecord

\* The run of an action is not at rest.
LEMMA AccountAt ==
  ASSUME AccountInv, NEW p \in Runs, Account!Step(p) \/ Account!Dies(p)
  PROVE  acc[p].pc \notin Account!Rest
  BY DEF Account!Step, Account!Lists, Account!Judges, Account!Registers, Account!Saves, Account!Writes, Account!Grants,
       Account!Polls, Account!Stores, Account!ReadsSession, Account!Refreshes, Account!Rewrites, Account!Rewritten,
       Account!Backs, Account!Revokes, Account!Tries, Account!Checks, Account!Deletes, Account!Gone, Account!Ends,
       Account!Dies, Account!At, Account!Busy, Account!Rest, Account!Exits

\* What a call and an answer leave as they are.
LEMMA AccountFaults == AccountInv /\ (Account!Sound \/ Account!Fault) => accFaults' \in 0 .. MaxFaults
  BY AccountHave DEF Account!Sound, Account!Fault

LEMMA AccountLists ==
  ASSUME AccountInv, NEW p \in Runs, Account!Lists(p) PROVE AccountInv'
  <1> USE AccountHave
  <1>1. acc[p].pc = "list" /\ acc[p].pc \notin Account!Rest
    BY DEF Account!Lists, Account!At, Account!Rest, Account!Exits
  <1>2. UNCHANGED <<accounts, live, registered, accMinted, accAnswered, accState, file, accOthers, accTorn>>
    BY DEF Account!Lists, Account!Platform, Account!platform, Account!Desk
  <1>3. accFaults' \in 0 .. MaxFaults
    BY AccountFaults DEF Account!Lists
  <1>4. CASE Account!Knows(p, [acc[p] EXCEPT !.rows = accounts, !.pc = "judge"])
    <2> DEFINE k == [acc[p] EXCEPT !.rows = accounts, !.pc = "judge"]
    <2>1. /\ k \in AccRuns /\ k.pc = "judge" /\ k.rows = accounts /\ k.mode = acc[p].mode
          /\ k.cid = acc[p].cid /\ k.tok = acc[p].tok /\ k.left = acc[p].left /\ k.alone = acc[p].alone
      BY ZenonT(40) DEF AccRuns, Account!Steps
    <2>9. Account!Knows(p, k)
      BY <1>4
    <2> HIDE DEF k
    <2>2. /\ Sets(p) /\ acc'[p].pc = "judge" /\ acc'[p].rows = accounts /\ acc'[p].mode = acc[p].mode
          /\ acc'[p].cid = acc[p].cid /\ acc'[p].tok = acc[p].tok /\ acc'[p].left = acc[p].left
          /\ acc'[p].alone = acc[p].alone
      BY <2>1, <2>9, AccountKnows
    <2>3. Suits(acc[p])' /\ RecordFit(acc[p])'
      BY <1>2, <2>2 DEF Suits, RecordFit, Removing, Account!CreateSteps
    <2>4. acc'[p].alone => IF acc'[p].mode = "create" THEN CreateFit(acc[p])' ELSE TeardownFit(acc[p])'
      BY <1>1, <1>2, <2>2 DEF AccountInv, CreateFit, TeardownFit, Account!Exits
    <2>5. Together <= 1 => AccountRecord'
      BY <1>1, <1>2, <2>2, <2>3, AccountRecordStays DEF Saving
    <2>6. acc'[p].cid \in accAnswered' \cup {0}
      BY <1>2, <2>2 DEF AccountInv
    <2> QED BY <1>1, <1>2, <1>3, <2>2, <2>3, <2>4, <2>5, <2>6, AccountMoves DEF Saving
  <1>5. CASE Account!Goes(p, "exit3")
    <2>2. Sets(p) /\ Same(p) /\ acc'[p].pc = "exit3"
      BY <1>5, AccountGoes DEF Account!Rest, Account!Exits
    <2>3. Suits(acc[p])' /\ RecordFit(acc[p])'
      BY <1>2, <2>2 DEF Suits, RecordFit, Removing, Account!CreateSteps
    <2>4. acc'[p].alone => IF acc'[p].mode = "create" THEN CreateFit(acc[p])' ELSE TeardownFit(acc[p])'
      BY <1>1, <1>2, <2>2 DEF AccountInv, CreateFit, TeardownFit, Account!Exits, Same
    <2>5. Together <= 1 => AccountRecord'
      BY <1>1, <1>2, <2>2, <2>3, AccountRecordStays DEF Saving
    <2>6. acc'[p].cid \in accAnswered' \cup {0}
      BY <1>2, <2>2 DEF AccountInv, Same
    <2> QED BY <1>1, <1>2, <1>3, <2>2, <2>3, <2>4, <2>5, <2>6, AccountMoves DEF Saving, Same
  <1> QED BY <1>4, <1>5 DEF Account!Lists

LEMMA AccountJudges ==
  ASSUME AccountInv, NEW p \in Runs, Account!Judges(p) PROVE AccountInv'
  <1> USE AccountHave
  <1>1. acc[p].pc = "judge" /\ acc[p].pc \notin Account!Rest
    BY DEF Account!Judges, Account!At, Account!Rest, Account!Exits
  <1>2. UNCHANGED <<accounts, live, registered, accMinted, accAnswered, accState, file, accOthers, accTorn>>
    BY DEF Account!Judges, Account!Platform, Account!platform, Account!Desk
  <1>3. accFaults' \in 0 .. MaxFaults
    BY AccountFaults DEF Account!Judges
  <1>4. CASE \E pc \in {"register", "exit2", "gone"} :
               /\ Account!Goes(p, pc)
               /\ pc = "register" => acc[p].mode = "create" /\ acc[p].rows = {}
               /\ pc = "gone" => acc[p].mode = "teardown" /\ acc[p].rows = {}
    <2>1. PICK pc \in {"register", "exit2", "gone"} :
               /\ Account!Goes(p, pc)
               /\ pc = "register" => acc[p].mode = "create" /\ acc[p].rows = {}
               /\ pc = "gone" => acc[p].mode = "teardown" /\ acc[p].rows = {}
      BY <1>4
    <2>2. Sets(p) /\ Same(p) /\ acc'[p].pc = pc
      BY <2>1, AccountGoes DEF Account!Rest, Account!Exits, Account!Steps, Account!CreateSteps
    <2>3. Suits(acc[p])'
      BY <2>1, <2>2 DEF Suits, Removing, Account!CreateSteps, Same
    <2>7. Together <= 1 => RecordFit(acc[p])'
      BY <1>1, <1>2, <2>1, <2>2 DEF RecordFit, Removing, Same, AccountInv, AccountRecord
    <2>4. acc'[p].alone => IF acc'[p].mode = "create" THEN CreateFit(acc[p])' ELSE TeardownFit(acc[p])'
      BY <1>1, <1>2, <2>1, <2>2 DEF AccountInv, CreateFit, TeardownFit, Account!Exits, Same
    <2>5. Together <= 1 => AccountRecord'
      BY <1>1, <1>2, <2>2, <2>7, AccountRecordStays DEF Saving
    <2>6. acc'[p].cid \in accAnswered' \cup {0}
      BY <1>2, <2>2 DEF AccountInv, Same
    <2> QED BY <1>1, <1>2, <1>3, <2>2, <2>3, <2>4, <2>5, <2>6, AccountMoves DEF Saving, Same
  <1>5. CASE /\ acc[p].mode = "teardown" /\ Account!Owned(acc[p].rows)
             /\ \E a \in acc[p].rows : Account!Knows(p, [acc[p] EXCEPT !.cid = a.id, !.pc = "revoke"])
    <2>1. PICK a \in acc[p].rows : Account!Knows(p, [acc[p] EXCEPT !.cid = a.id, !.pc = "revoke"])
      BY <1>5
    <2>2. a.id = accState /\ \A b \in acc[p].rows : b.id = accState
      BY <1>5 DEF Account!Owned
    <2> DEFINE k == [acc[p] EXCEPT !.cid = accState, !.pc = "revoke"]
    <2>3. /\ k \in AccRuns /\ k.pc = "revoke" /\ k.cid = accState /\ k.rows = acc[p].rows /\ k.mode = acc[p].mode
          /\ k.left = acc[p].left /\ k.alone = acc[p].alone
      BY ZenonT(40) DEF AccRuns, Account!Steps
    <2>9. Account!Knows(p, k)
      BY <2>1, <2>2
    <2> HIDE DEF k
    <2>4. /\ Sets(p) /\ acc'[p].pc = "revoke" /\ acc'[p].cid = accState /\ acc'[p].rows = acc[p].rows
          /\ acc'[p].mode = "teardown" /\ acc'[p].alone = acc[p].alone /\ acc'[p].left = acc[p].left
      BY <1>5, <2>3, <2>9, AccountKnows
    <2>5. Suits(acc[p])' /\ RecordFit(acc[p])'
      BY <1>2, <2>4 DEF Suits, RecordFit, Removing, Account!CreateSteps
    <2>6. acc'[p].alone => TeardownFit(acc[p])'
      BY <1>1, <1>2, <1>5, <2>2, <2>4 DEF AccountInv, TeardownFit
    <2>7. Together <= 1 => AccountRecord'
      BY <1>1, <1>2, <2>4, <2>5, AccountRecordStays DEF Saving
    <2>8. acc'[p].cid \in accAnswered' \cup {0}
      BY <1>2, <2>4 DEF AccountInv
    <2> QED BY <1>1, <1>2, <1>3, <2>4, <2>5, <2>6, <2>7, <2>8, AccountMoves DEF Saving
  <1> QED BY <1>4, <1>5 DEF Account!Judges

LEMMA AccountRegisters ==
  ASSUME AccountInv, NEW p \in Runs, Account!Registers(p) PROVE AccountInv'
  <1> USE AccountHave
  <1>1. acc[p].pc = "register" /\ acc[p].pc \notin Account!Rest /\ acc[p].mode = "create"
    BY DEF Account!Registers, Account!At, Account!Rest, Account!Exits, AccountInv, Suits, Account!CreateSteps
  <1>2. UNCHANGED <<live, accMinted, accState, file, accOthers, accTorn>>
    BY DEF Account!Registers, Account!Desk
  <1>3. accFaults' \in 0 .. MaxFaults
    BY AccountFaults DEF Account!Registers
  <1>4. /\ Together <= 1 => \A a \in accounts : a.id \notin accAnswered
        /\ acc[p].alone => accounts = {} /\ acc[p].tok = 0
    BY <1>1 DEF AccountInv, AccountRecord, RecordFit, CreateFit
  <1>5. CASE /\ registered < MaxAccounts /\ registered' = registered + 1
             /\ accounts' = accounts \cup {[id |-> registered', act |-> FALSE]}
             /\ accAnswered' = accAnswered \cup {registered'}
             /\ Account!Knows(p, [acc[p] EXCEPT !.pc = "save", !.cid = registered'])
    <2> DEFINE new == [id |-> registered', act |-> FALSE]
    <2>1. registered' \in 1 .. MaxAccounts /\ registered' \notin accAnswered
      BY <1>5
    <2>2. new \in Account!Account /\ new.id = registered' /\ \A a \in accounts : a.id < registered'
      BY <1>5, <2>1 DEF Account!Account
    <2> DEFINE k == [acc[p] EXCEPT !.pc = "save", !.cid = registered']
    <2>3. /\ k \in AccRuns /\ k.pc = "save" /\ k.cid = registered' /\ k.mode = acc[p].mode /\ k.tok = acc[p].tok
          /\ k.alone = acc[p].alone
      <3>1. registered' \in 0 .. MaxAccounts /\ acc[p] \in AccRuns
        BY <2>1
      <3> QED BY <3>1 DEF AccRuns, Account!Steps
    <2>9. Account!Knows(p, k)
      BY <1>5
    <2> HIDE DEF k
    <2>4. /\ Sets(p) /\ acc'[p].pc = "save" /\ acc'[p].cid = registered' /\ acc'[p].mode = "create"
          /\ acc'[p].tok = acc[p].tok /\ acc'[p].alone = acc[p].alone
      BY <1>1, <2>3, <2>9, AccountKnows
    <2>5. Suits(acc[p])' /\ RecordFit(acc[p])'
      BY <2>4 DEF Suits, RecordFit, Removing, Account!CreateSteps
    <2>6. acc'[p].alone => CreateFit(acc[p])'
      <3>1. acc[p].alone => accounts' = {[id |-> acc'[p].cid, act |-> FALSE]}
        BY <1>4, <1>5, <2>4
      <3> QED BY <1>4, <2>4, <3>1 DEF CreateFit, Account!Exits
    <2>7. ASSUME Together <= 1 PROVE AccountRecord'
      <3>1. \A q \in Runs \ {p} : acc'[q] = acc[q] /\ acc[q].pc \in Account!Rest
        BY <1>1, <2>4, <2>7 DEF AccountInv, AccountRecord, Sets
      <3>2. \A q \in Runs : acc'[q].pc \in Saving => acc'[q].cid = registered'
        BY <2>4, <3>1 DEF Saving, Account!Rest, Account!Exits
      <3>3. \A i : i = registered' => OnRecord(i)'
        BY <2>4, <3>2 DEF OnRecord, Saving
      <3>4. \A a \in accounts' : a.id \in accAnswered' => a.id = registered'
        BY <1>4, <1>5, <2>2, <2>7
      <3>5. \A a \in accounts' : a.id \in accAnswered' => OnRecord(a.id)'
        BY <3>3, <3>4
      <3>6. \A q \in Runs : RecordFit(acc[q])'
        BY <2>5, <3>1 DEF RecordFit, Removing, Account!Rest, Account!Exits
      <3> QED BY <3>1, <3>5, <3>6 DEF AccountRecord
    <2>8. /\ accounts' \subseteq Account!Account /\ accAnswered' \subseteq 1 .. registered'
          /\ \A a \in accounts' : a.id <= registered'
      <3>1. accounts' = accounts \cup {new}
        BY <1>5
      <3> HIDE DEF new
      <3>2. accounts' \subseteq Account!Account
        BY <2>2, <3>1
      <3>3. \A a \in accounts : a.id <= registered'
        <4>1. \A a \in accounts : a.id \in Nat
          BY DEF Account!Account
        <4> QED BY <1>5, <4>1
      <3>4. new.id <= registered'
        BY <2>1, <2>2
      <3> QED BY <1>5, <2>1, <3>1, <3>2, <3>3, <3>4
    <2> HIDE DEF new
    <2> QED BY <1>1, <1>2, <1>3, <1>5, <2>1, <2>4, <2>5, <2>6, <2>7, <2>8, AccountMoves DEF Saving
  <1>6. CASE /\ UNCHANGED accAnswered /\ \E pc \in {"exit1", "exit3"} : Account!Goes(p, pc)
             /\ \/ UNCHANGED <<accounts, registered>>
                \/ /\ registered < MaxAccounts /\ registered' = registered + 1
                   /\ accounts' = accounts \cup {[id |-> registered', act |-> FALSE]}
    <2>1. PICK pc \in {"exit1", "exit3"} : Account!Goes(p, pc)
      BY <1>6
    <2>2. Sets(p) /\ Same(p) /\ acc'[p].pc = pc
      BY <2>1, AccountGoes DEF Account!Rest, Account!Exits
    <2>3. Suits(acc[p])' /\ RecordFit(acc[p])'
      BY <2>2 DEF Suits, RecordFit, Removing, Account!CreateSteps
    <2>4. acc'[p].alone => CreateFit(acc[p])'
      BY <1>4, <2>2 DEF CreateFit, Same
    <2>8. /\ accounts' \subseteq Account!Account /\ registered' \in 0 .. MaxAccounts /\ registered <= registered'
          /\ \A a \in accounts' : a.id <= registered' /\ (a \in accounts \/ a.id \notin accAnswered)
      <3>1. CASE registered < MaxAccounts /\ registered' = registered + 1
                 /\ accounts' = accounts \cup {[id |-> registered', act |-> FALSE]}
        <4> DEFINE new == [id |-> registered', act |-> FALSE]
        <4>1. new \in Account!Account /\ new.id = registered' /\ accounts' = accounts \cup {new}
          BY <3>1 DEF Account!Account
        <4>2. \A a \in accounts : a.id \in Nat
          BY DEF Account!Account
        <4> HIDE DEF new
        <4> QED BY <3>1, <4>1, <4>2
      <3> QED BY <1>6, <3>1 DEF Account!Account
    <2>5. Together <= 1 => AccountRecord'
      BY <1>1, <1>2, <1>6, <2>2, <2>3, <2>8, AccountRecordStays DEF Saving
    <2>6. acc'[p].cid \in accAnswered' \cup {0} /\ accAnswered' \subseteq 1 .. registered'
      BY <1>6, <2>2, <2>8 DEF AccountInv, Same
    <2> QED BY <1>1, <1>2, <1>3, <1>6, <2>2, <2>3, <2>4, <2>5, <2>6, <2>8, AccountMoves DEF Saving, Same
  <1> QED BY <1>5, <1>6 DEF Account!Registers

LEMMA AccountSaves ==
  ASSUME AccountInv, NEW p \in Runs, Account!Saves(p) PROVE AccountInv'
  <1> USE AccountHave
  <1>1. acc[p].pc = "save" /\ acc[p].pc \notin Account!Rest
    BY DEF Account!Saves, Account!At, Account!Rest, Account!Exits
  <1>2. UNCHANGED <<accounts, live, registered, accMinted, accAnswered, file, accOthers, accTorn>> /\ accState' = 0
    BY DEF Account!Saves, Account!Platform, Account!platform
  <1>3. accFaults' \in 0 .. MaxFaults
    BY AccountFaults DEF Account!Saves
  <1>4. Sets(p) /\ Same(p) /\ acc'[p].pc = "write"
    BY AccountGoes DEF Account!Saves, Account!Steps
  <1>5. Suits(acc[p])' /\ RecordFit(acc[p])'
    BY <1>4 DEF Suits, RecordFit, Removing, Account!CreateSteps
  <1>6. acc'[p].alone => IF acc'[p].mode = "create" THEN CreateFit(acc[p])' ELSE TeardownFit(acc[p])'
    BY <1>1, <1>2, <1>4, ZenonT(40) DEF AccountInv, CreateFit, TeardownFit, Account!Exits, Same
  <1>7. Together <= 1 => AccountRecord'
    BY <1>1, <1>2, <1>4, <1>5, AccountRecordStays DEF Saving, Same
  <1>8. acc'[p].cid \in accAnswered' \cup {0} /\ (acc'[p].mode = "create" => acc'[p].cid # 0)
    BY <1>1, <1>2, <1>4 DEF AccountInv, Same, Saving
  <1> QED BY <1>1, <1>2, <1>3, <1>4, <1>5, <1>6, <1>7, <1>8, AccountMoves DEF Same

LEMMA AccountWrites ==
  ASSUME AccountInv, NEW p \in Runs, Account!Writes(p) PROVE AccountInv'
  <1> USE AccountHave
  <1>1. acc[p].pc = "write" /\ acc[p].pc \notin Account!Rest
    BY DEF Account!Writes, Account!At, Account!Rest, Account!Exits
  <1>2. /\ UNCHANGED <<accounts, live, registered, accMinted, accAnswered, file, accOthers, accTorn>>
        /\ accState' = acc[p].cid /\ acc[p].cid \in accAnswered \cup {0}
    BY DEF Account!Writes, Account!Platform, Account!platform, AccountInv
  <1>3. accFaults' \in 0 .. MaxFaults
    BY AccountFaults DEF Account!Writes
  <1>4. PICK pc \in {"grant", "exit0", "exit1", "exit3"} :
          /\ Account!Goes(p, pc) /\ (pc = "grant" <=> acc[p].mode = "create")
          /\ pc = "exit0" => acc[p].left = "none" /\ acc[p].ok /\ ~acc[p].silent
    <2>1. CASE acc[p].mode = "create"
      BY <2>1 DEF Account!Writes
    <2>2. CASE acc[p].mode # "create"
      BY <2>2 DEF Account!Writes, Account!Verdict
    <2> QED BY <2>1, <2>2
  <1>5. Sets(p) /\ Same(p) /\ acc'[p].pc = pc
    BY <1>4, AccountGoes DEF Account!Rest, Account!Exits, Account!Steps, Account!CreateSteps
  <1>6. Suits(acc[p])' /\ RecordFit(acc[p])'
    BY <1>4, <1>5 DEF Suits, RecordFit, Removing, Account!CreateSteps, Same
  <1>7. acc'[p].alone => IF acc'[p].mode = "create" THEN CreateFit(acc[p])' ELSE TeardownFit(acc[p])'
    <2>1. acc[p].mode = "create" /\ acc[p].alone => CreateFit(acc[p])'
      BY <1>1, <1>2, <1>4, <1>5 DEF AccountInv, CreateFit, Account!Exits, Same
    <2>2. acc[p].mode # "create" /\ acc[p].alone => TeardownFit(acc[p])'
      BY <1>1, <1>2, <1>4, <1>5 DEF AccountInv, TeardownFit, Same
    <2> QED BY <1>5, <2>1, <2>2 DEF Same
  <1>8. ASSUME Together <= 1 PROVE AccountRecord'
    <2>1. AccountRecord
      BY <1>8 DEF AccountInv
    <2>2. \A q \in Runs \ {p} : acc'[q] = acc[q] /\ acc[q].pc \in Account!Rest
      BY <1>1, <1>5, <2>1 DEF AccountRecord, Sets
    <2>3. \A q \in Runs : acc'[q].pc \notin Saving
      BY <1>4, <1>5, <2>2 DEF Saving, Account!Rest, Account!Exits
    <2>4. \A i : OnRecord(i) => OnRecord(i)'
      BY <1>1, <1>2, <2>3 DEF OnRecord, Saving
    <2>5. \A q \in Runs : RecordFit(acc[q])'
      BY <1>6, <2>2 DEF RecordFit, Removing, Account!Rest, Account!Exits
    <2> QED BY <1>2, <2>1, <2>2, <2>4, <2>5 DEF AccountRecord
  <1>9. acc'[p].cid \in accAnswered' \cup {0} /\ acc'[p].pc \notin Saving
    BY <1>2, <1>4, <1>5 DEF Same, Saving
  <1> QED BY <1>1, <1>2, <1>3, <1>5, <1>6, <1>7, <1>8, <1>9, AccountMoves DEF Same

LEMMA AccountGrants ==
  ASSUME AccountInv, NEW p \in Runs, Account!Grants(p) PROVE AccountInv'
  <1> USE AccountHave
  <1>1. acc[p].pc = "grant" /\ acc[p].pc \notin Account!Rest /\ acc[p].mode = "create"
    BY DEF Account!Grants, Account!At, Account!Rest, Account!Exits, AccountInv, Suits, Account!CreateSteps
  <1>2. UNCHANGED <<accounts, live, registered, accMinted, accAnswered, accState, file, accOthers, accTorn>>
    BY DEF Account!Grants, Account!Platform, Account!platform, Account!Desk
  <1>3. accFaults' \in 0 .. MaxFaults
    BY AccountFaults DEF Account!Grants
  <1>4. PICK pc \in {"poll", "exit1", "exit3"} : Account!Goes(p, pc)
    BY DEF Account!Grants
  <1>5. Sets(p) /\ Same(p) /\ acc'[p].pc = pc
    BY <1>4, AccountGoes DEF Account!Rest, Account!Exits, Account!Steps, Account!CreateSteps
  <1>6. Suits(acc[p])' /\ RecordFit(acc[p])'
    BY <1>1, <1>5 DEF Suits, RecordFit, Removing, Account!CreateSteps, Same
  <1>7. acc'[p].alone => CreateFit(acc[p])'
    BY <1>1, <1>2, <1>5 DEF AccountInv, CreateFit, Account!Exits, Same
  <1>8. Together <= 1 => AccountRecord'
    BY <1>1, <1>2, <1>5, <1>6, AccountRecordStays DEF Saving
  <1>9. acc'[p].cid \in accAnswered' \cup {0} /\ acc'[p].pc \notin Saving /\ acc'[p].mode = "create"
    BY <1>1, <1>2, <1>5 DEF AccountInv, Same, Saving
  <1> QED BY <1>1, <1>2, <1>3, <1>5, <1>6, <1>7, <1>8, <1>9, AccountMoves DEF Same

LEMMA AccountPolls ==
  ASSUME AccountInv, NEW p \in Runs, Account!Polls(p) PROVE AccountInv'
  <1> USE AccountHave
  <1> DEFINE i == acc[p].cid
             granted == [id |-> i, act |-> TRUE]
             token == [id |-> accMinted', of |-> i]
  <1>1. acc[p].pc = "poll" /\ acc[p].pc \notin Account!Rest /\ acc[p].mode = "create"
    BY DEF Account!Polls, Account!At, Account!Rest, Account!Exits, AccountInv, Suits, Account!CreateSteps
  <1>2. UNCHANGED <<registered, accAnswered, accState, file, accOthers, accTorn>>
    BY DEF Account!Polls, Account!Desk
  <1>3. accFaults' \in 0 .. MaxFaults
    BY AccountFaults DEF Account!Polls
  <1>4. acc[p].alone => acc[p].tok = 0 /\ accounts = {[id |-> i, act |-> FALSE]} /\ accState = i
    BY <1>1 DEF AccountInv, CreateFit
  <1>5. CASE /\ Account!There(i) /\ accMinted < MaxTokens /\ accMinted' = accMinted + 1
             /\ live' = live \cup {token}
             /\ accounts' = {a \in accounts : a.id # i} \cup {granted}
             /\ Account!Knows(p, [acc[p] EXCEPT !.pc = "store", !.tok = accMinted']) \/ Account!Goes(p, "exit3")
    <2>1. PICK b \in accounts : b.id = i
      BY <1>5 DEF Account!There, Account!Ids
    <2>2. i \in 1 .. MaxAccounts /\ i <= registered /\ accMinted' \in 1 .. MaxTokens
      BY <1>5, <2>1 DEF Account!Account
    <2>3. granted \in Account!Account /\ granted.id = i /\ token \in Account!Token /\ token.id = accMinted' /\ token.of = i
      BY <2>2 DEF Account!Account, Account!Token
    <2>4. /\ accounts' \subseteq Account!Account /\ live' \subseteq Account!Token
          /\ \A a \in accounts' : a.id <= registered' /\ \E c \in accounts : c.id = a.id
      <3>1. accounts' = {a \in accounts : a.id # i} \cup {granted} /\ live' = live \cup {token}
        BY <1>5
      <3> HIDE DEF granted, token, i
      <3> QED BY <1>2, <2>1, <2>2, <2>3, <3>1
    <2>5. acc[p].alone => accounts' = {granted} /\ \E t \in live' : t.id = accMinted' /\ t.of = i
      <3>1. acc[p].alone => \A a \in accounts : a.id = i
        BY <1>4
      <3>2. token \in live' /\ accounts' = {a \in accounts : a.id # i} \cup {granted}
        BY <1>5
      <3> HIDE DEF granted, token, i
      <3> QED BY <2>3, <3>1, <3>2
    <2>6. CASE Account!Goes(p, "exit3")
      <3>1. Sets(p) /\ Same(p) /\ acc'[p].pc = "exit3"
        BY <2>6, AccountGoes DEF Account!Rest, Account!Exits
      <3>2. Suits(acc[p])' /\ RecordFit(acc[p])'
        BY <1>1, <3>1 DEF Suits, RecordFit, Removing, Account!CreateSteps, Same
      <3>3. acc'[p].alone => CreateFit(acc[p])'
        BY <1>4, <3>1 DEF CreateFit, Same
      <3>4. Together <= 1 => AccountRecord'
        BY <1>1, <1>2, <2>4, <3>1, <3>2, AccountRecordStays DEF Saving
      <3>5. acc'[p].cid \in accAnswered' \cup {0} /\ acc'[p].pc \notin Saving /\ acc'[p].mode = "create"
        BY <1>1, <1>2, <3>1 DEF AccountInv, Same, Saving
      <3> HIDE DEF granted, token, i
      <3> QED BY <1>1, <1>2, <1>3, <2>2, <2>4, <3>1, <3>2, <3>3, <3>4, <3>5, AccountMoves DEF Same
    <2>7. CASE Account!Knows(p, [acc[p] EXCEPT !.pc = "store", !.tok = accMinted'])
      <3> DEFINE k == [acc[p] EXCEPT !.pc = "store", !.tok = accMinted']
      <3>1. /\ k \in AccRuns /\ k.pc = "store" /\ k.tok = accMinted' /\ k.cid = i /\ k.mode = "create"
            /\ k.alone = acc[p].alone
        <4>1. accMinted' \in 0 .. MaxTokens /\ acc[p] \in AccRuns /\ acc[p].mode = "create"
          BY <1>1, <2>2
        <4> QED BY <4>1 DEF AccRuns, Account!Steps, Account!CreateSteps
      <3>9. Account!Knows(p, k)
        BY <2>7
      <3> HIDE DEF k
      <3>2. Sets(p) /\ acc'[p] = k
        BY <3>1, <3>9, AccountKnows
      <3>3. Suits(acc[p])' /\ RecordFit(acc[p])'
        BY <3>1, <3>2 DEF Suits, RecordFit, Removing
      <3>4. acc'[p].alone => CreateFit(acc[p])'
        BY <1>2, <1>4, <2>5, <3>1, <3>2 DEF CreateFit, SignsInAs, Account!Exits
      <3>5. Together <= 1 => AccountRecord'
        BY <1>1, <1>2, <2>4, <3>1, <3>2, <3>3, AccountRecordStays DEF Saving
      <3>6. acc'[p].cid \in accAnswered' \cup {0} /\ acc'[p].pc \notin Saving /\ acc'[p].mode = "create"
        BY <1>1, <1>2, <3>1, <3>2 DEF AccountInv, Saving
      <3> HIDE DEF granted, token, i
      <3> QED BY <1>1, <1>2, <1>3, <2>2, <2>4, <3>1, <3>2, <3>3, <3>4, <3>5, <3>6, AccountMoves
    <2> QED BY <1>5, <2>6, <2>7
  <1>6. CASE UNCHANGED <<accounts, live, accMinted>> /\ \E pc \in {"exit1", "exit3"} : Account!Goes(p, pc)
    <2>1. PICK pc \in {"exit1", "exit3"} : Account!Goes(p, pc)
      BY <1>6
    <2>2. Sets(p) /\ Same(p) /\ acc'[p].pc = pc
      BY <2>1, AccountGoes DEF Account!Rest, Account!Exits
    <2>3. Suits(acc[p])' /\ RecordFit(acc[p])'
      BY <1>1, <2>2 DEF Suits, RecordFit, Removing, Account!CreateSteps, Same
    <2>4. acc'[p].alone => CreateFit(acc[p])'
      BY <1>4, <2>2 DEF CreateFit, Same
    <2>5. Together <= 1 => AccountRecord'
      BY <1>1, <1>2, <1>6, <2>2, <2>3, AccountRecordStays DEF Saving
    <2>6. acc'[p].cid \in accAnswered' \cup {0} /\ acc'[p].pc \notin Saving /\ acc'[p].mode = "create"
      BY <1>1, <1>2, <2>2 DEF AccountInv, Same, Saving
    <2> QED BY <1>1, <1>2, <1>3, <1>6, <2>2, <2>3, <2>4, <2>5, <2>6, AccountMoves DEF Same
  <1> QED BY <1>5, <1>6 DEF Account!Polls

LEMMA AccountStores ==
  ASSUME AccountInv, NEW p \in Runs, Account!Stores(p) PROVE AccountInv'
  <1> USE AccountHave
  <1>1. acc[p].pc = "store" /\ acc[p].pc \notin Account!Rest /\ acc[p].mode = "create"
    BY DEF Account!Stores, Account!At, Account!Rest, Account!Exits, AccountInv, Suits, Account!CreateSteps
  <1>2. /\ UNCHANGED <<accounts, live, registered, accMinted, accAnswered, accState, accOthers, accTorn>>
        /\ file' = acc[p].tok /\ acc[p].tok \in 0 .. MaxTokens
    BY DEF Account!Stores, Account!Platform, Account!platform, AccRuns
  <1>3. accFaults' \in 0 .. MaxFaults
    BY AccountFaults DEF Account!Stores
  <1>5. Sets(p) /\ Same(p) /\ acc'[p].pc = "session"
    BY AccountGoes DEF Account!Stores, Account!Steps, Account!CreateSteps
  <1>6. Suits(acc[p])' /\ RecordFit(acc[p])'
    BY <1>1, <1>5 DEF Suits, RecordFit, Removing, Same
  <1>7. acc'[p].alone => CreateFit(acc[p])'
    BY <1>1, <1>2, <1>5, ZenonT(40) DEF AccountInv, CreateFit, Account!Exits, Same, SignsInAs
  <1>8. Together <= 1 => AccountRecord'
    BY <1>1, <1>2, <1>5, <1>6, AccountRecordStays DEF Saving
  <1>9. acc'[p].cid \in accAnswered' \cup {0} /\ acc'[p].pc \notin Saving /\ acc'[p].mode = "create"
    BY <1>1, <1>2, <1>5 DEF AccountInv, Same, Saving
  <1> QED BY <1>1, <1>2, <1>3, <1>5, <1>6, <1>7, <1>8, <1>9, AccountMoves DEF Same

LEMMA AccountReadsSession ==
  ASSUME AccountInv, NEW p \in Runs, Account!ReadsSession(p) PROVE AccountInv'
  <1> USE AccountHave
  <1>1. acc[p].pc = "session" /\ acc[p].pc \notin Account!Rest /\ acc[p].mode = "create"
    BY DEF Account!ReadsSession, Account!At, Account!Rest, Account!Exits, AccountInv, Suits, Account!CreateSteps
  <1>2. UNCHANGED <<accounts, live, registered, accMinted, accAnswered, accState, file, accOthers, accTorn>>
    BY DEF Account!ReadsSession, Account!Platform, Account!platform, Account!Desk
  <1>3. accFaults' \in 0 .. MaxFaults
    BY AccountFaults DEF Account!ReadsSession
  <1>4. PICK k \in AccRuns :
          /\ Account!Knows(p, k) /\ k.pc = "refresh" /\ k.mode = "create" /\ k.cid = acc[p].cid /\ k.tok = acc[p].tok
          /\ k.alone = acc[p].alone
    <2>1. acc[p] \in AccRuns
      OBVIOUS
    <2>2. ASSUME NEW b \in BOOLEAN
          PROVE  /\ [acc[p] EXCEPT !.ok = b, !.pc = "refresh"] \in AccRuns
                 /\ [acc[p] EXCEPT !.silent = b, !.pc = "refresh"] \in AccRuns
      BY <2>1 DEF AccRuns, Account!Steps, Account!CreateSteps
    <2>3. Account!There(acc[p].cid) \in BOOLEAN
      BY DEF Account!There
    <2>4. \E b \in BOOLEAN : \/ Account!Knows(p, [acc[p] EXCEPT !.ok = b, !.pc = "refresh"])
                             \/ Account!Knows(p, [acc[p] EXCEPT !.silent = b, !.pc = "refresh"])
      BY <2>3 DEF Account!ReadsSession
    <2>5. PICK b \in BOOLEAN : \/ Account!Knows(p, [acc[p] EXCEPT !.ok = b, !.pc = "refresh"])
                               \/ Account!Knows(p, [acc[p] EXCEPT !.silent = b, !.pc = "refresh"])
      BY <2>4
    <2>6. CASE Account!Knows(p, [acc[p] EXCEPT !.ok = b, !.pc = "refresh"])
      <3> DEFINE j == [acc[p] EXCEPT !.ok = b, !.pc = "refresh"]
      <3>1. /\ j.pc = "refresh" /\ j.mode = "create" /\ j.cid = acc[p].cid /\ j.tok = acc[p].tok
            /\ j.alone = acc[p].alone
        BY <1>1, <2>1 DEF AccRuns
      <3>2. j \in AccRuns /\ Account!Knows(p, j)
        BY <2>2, <2>6
      <3> HIDE DEF j
      <3> QED BY <3>1, <3>2
    <2>7. CASE Account!Knows(p, [acc[p] EXCEPT !.silent = b, !.pc = "refresh"])
      <3> DEFINE j == [acc[p] EXCEPT !.silent = b, !.pc = "refresh"]
      <3>1. /\ j.pc = "refresh" /\ j.mode = "create" /\ j.cid = acc[p].cid /\ j.tok = acc[p].tok
            /\ j.alone = acc[p].alone
        BY <1>1, <2>1 DEF AccRuns
      <3>2. j \in AccRuns /\ Account!Knows(p, j)
        BY <2>2, <2>7
      <3> HIDE DEF j
      <3> QED BY <3>1, <3>2
    <2> QED BY <2>5, <2>6, <2>7
  <1>5. Sets(p) /\ acc'[p] = k
    BY <1>4, AccountKnows
  <1>6. Suits(acc[p])' /\ RecordFit(acc[p])'
    BY <1>4, <1>5 DEF Suits, RecordFit, Removing
  <1>7. acc'[p].alone => CreateFit(acc[p])'
    BY <1>1, <1>2, <1>4, <1>5 DEF AccountInv, CreateFit, Account!Exits, SignsInAs
  <1>8. Together <= 1 => AccountRecord'
    BY <1>1, <1>2, <1>4, <1>5, <1>6, AccountRecordStays DEF Saving
  <1>9. acc'[p].cid \in accAnswered' \cup {0} /\ acc'[p].pc \notin Saving /\ acc'[p].mode = "create"
    BY <1>1, <1>2, <1>4, <1>5 DEF AccountInv, Saving
  <1> QED BY <1>1, <1>2, <1>3, <1>4, <1>5, <1>6, <1>7, <1>8, <1>9, AccountMoves

\* A rotation replaces one token by another of the same account.
LEMMA AccountRotates ==
  ASSUME AccountInv, NEW t \in 0 .. MaxTokens, Account!Rotates(t)
  PROVE  /\ live' \subseteq Account!Token /\ accMinted' \in 0 .. MaxTokens
         /\ accMinted' = accMinted => live' = live
         /\ accMinted' # accMinted => \A i : SignsInAs(t, i) => \E u \in live' : u.id = accMinted' /\ u.of = i
         /\ \A x \in live' : \E u \in live : u.of = x.of
  <1> USE AccountHave
  <1>1. CASE UNCHANGED <<live, accMinted>>
    BY <1>1
  <1>2. CASE /\ accMinted < MaxTokens /\ accMinted' = accMinted + 1
             /\ live' = {u \in live : u.id # t} \cup {[u EXCEPT !.id = accMinted'] : u \in {u \in live : u.id = t}}
    <2>1. accMinted' \in 1 .. MaxTokens /\ accMinted' # accMinted
      BY <1>2
    <2>2. \A u \in live : [u EXCEPT !.id = accMinted'] = [id |-> accMinted', of |-> u.of]
      BY DEF Account!Token
    <2>3. \A x \in live' : x \in live \/ \E u \in live : x = [id |-> accMinted', of |-> u.of]
      BY <1>2, <2>2, ZenonT(60)
    <2>4. \A u \in live : [id |-> accMinted', of |-> u.of] \in Account!Token
      BY <2>1 DEF Account!Token
    <2>5. live' \subseteq Account!Token
      BY <2>3, <2>4
    <2>6. \A u \in live : u.id = t => [id |-> accMinted', of |-> u.of] \in live'
      BY <1>2, <2>2, Zenon
    <2>7. \A i : SignsInAs(t, i) => \E u \in live' : u.id = accMinted' /\ u.of = i
      BY <2>6 DEF SignsInAs
    <2>8. \A x \in live' : \E u \in live : u.of = x.of
      BY <2>3
    <2> QED BY <2>1, <2>5, <2>7, <2>8
  <1> QED BY <1>1, <1>2 DEF Account!Rotates

LEMMA AccountRefreshes ==
  ASSUME AccountInv, NEW p \in Runs, Account!Refreshes(p) PROVE AccountInv'
  <1> USE AccountHave
  <1>1. acc[p].pc = "refresh" /\ acc[p].pc \notin Account!Rest /\ acc[p].mode = "create" /\ acc[p] \in AccRuns
    BY DEF Account!Refreshes, Account!At, Account!Rest, Account!Exits, AccountInv, Suits, Account!CreateSteps
  <1>2. UNCHANGED <<accounts, registered, accAnswered, accState, file, accOthers, accTorn>>
    BY DEF Account!Refreshes, Account!Desk
  <1>3. accFaults' \in 0 .. MaxFaults
    BY AccountFaults DEF Account!Refreshes
  <1>4. acc[p].tok \in 0 .. MaxTokens
    BY <1>1 DEF AccRuns
  <1>5. /\ live' \subseteq Account!Token /\ accMinted' \in 0 .. MaxTokens
        /\ accMinted' = accMinted => live' = live
        /\ accMinted' # accMinted =>
             \A i : SignsInAs(acc[p].tok, i) => \E u \in live' : u.id = accMinted' /\ u.of = i
    <2>1. CASE UNCHANGED <<live, accMinted>>
      BY <2>1
    <2>2. CASE Account!Rotates(acc[p].tok)
      BY <1>4, <2>2, AccountRotates
    <2> QED BY <2>1, <2>2 DEF Account!Refreshes
  <1>6. PICK k \in AccRuns :
          /\ Account!Knows(p, k) /\ k.mode = "create" /\ k.cid = acc[p].cid /\ k.alone = acc[p].alone
          /\ \/ k.pc = "back" /\ k.tok = acc[p].tok /\ (k.ok => accMinted' = accMinted)
             \/ k.pc = "rewrite" /\ k.tok = accMinted' /\ accMinted' # accMinted
    <2>1. CASE Account!Knows(p, [acc[p] EXCEPT !.tok = IF accMinted' = accMinted THEN @ ELSE accMinted',
                                               !.pc = Account!Kept(accMinted)])
      <3> DEFINE tok == IF accMinted' = accMinted THEN acc[p].tok ELSE accMinted'
                 pc == Account!Kept(accMinted)
                 j == [acc[p] EXCEPT !.tok = tok, !.pc = pc]
      <3>1. /\ tok \in 0 .. MaxTokens /\ pc \in Account!Steps
            /\ \/ pc = "back" /\ tok = acc[p].tok /\ accMinted' = accMinted
               \/ pc = "rewrite" /\ tok = accMinted' /\ accMinted' # accMinted
        BY <1>4, <1>5 DEF Account!Kept, Account!Steps, Account!CreateSteps
      <3>2. Account!Knows(p, j)
        BY <2>1
      <3> HIDE DEF tok, pc
      <3>3. /\ j \in AccRuns /\ j.mode = "create" /\ j.cid = acc[p].cid /\ j.alone = acc[p].alone
            /\ j.pc = pc /\ j.tok = tok
        BY <1>1, <3>1 DEF AccRuns
      <3> HIDE DEF j
      <3> QED BY <3>1, <3>2, <3>3
    <2>2. CASE \E s \in BOOLEAN : Account!Knows(p, [acc[p] EXCEPT !.ok = FALSE, !.silent = s, !.pc = "back"])
      <3>1. PICK s \in BOOLEAN : Account!Knows(p, [acc[p] EXCEPT !.ok = FALSE, !.silent = s, !.pc = "back"])
        BY <2>2
      <3> DEFINE j == [acc[p] EXCEPT !.ok = FALSE, !.silent = s, !.pc = "back"]
      <3>2. /\ j \in AccRuns /\ j.mode = "create" /\ j.cid = acc[p].cid /\ j.alone = acc[p].alone
            /\ j.pc = "back" /\ j.tok = acc[p].tok /\ ~j.ok
        BY <1>1 DEF AccRuns, Account!Steps, Account!CreateSteps
      <3>3. Account!Knows(p, j)
        BY <3>1
      <3> HIDE DEF j
      <3> QED BY <3>2, <3>3
    <2>3. CASE Account!Knows(p, [acc[p] EXCEPT !.ok = FALSE, !.pc = "back"])
      <3> DEFINE j == [acc[p] EXCEPT !.ok = FALSE, !.pc = "back"]
      <3>2. /\ j \in AccRuns /\ j.mode = "create" /\ j.cid = acc[p].cid /\ j.alone = acc[p].alone
            /\ j.pc = "back" /\ j.tok = acc[p].tok /\ ~j.ok
        BY <1>1 DEF AccRuns, Account!Steps, Account!CreateSteps
      <3>3. Account!Knows(p, j)
        BY <2>3
      <3> HIDE DEF j
      <3> QED BY <3>2, <3>3
    <2>4. CASE \E silent \in BOOLEAN :
                 Account!Knows(p, [acc[p] EXCEPT !.ok = FALSE, !.silent = @ \/ silent, !.pc = "back"])
      <3>1. PICK silent \in BOOLEAN :
              Account!Knows(p, [acc[p] EXCEPT !.ok = FALSE, !.silent = acc[p].silent \/ silent, !.pc = "back"])
        BY <2>4
      <3>2. (acc[p].silent \/ silent) \in BOOLEAN
        OBVIOUS
      <3> QED BY <2>2, <3>1, <3>2
    <2> QED BY <2>1, <2>3, <2>4 DEF Account!Refreshes
  <1>7. Sets(p) /\ acc'[p] = k
    BY <1>6, AccountKnows
  <1>8. Suits(acc[p])' /\ RecordFit(acc[p])'
    BY <1>6, <1>7 DEF Suits, RecordFit, Removing
  <1>9. ASSUME acc'[p].alone PROVE CreateFit(acc[p])'
    <2>1. /\ accounts' = {[id |-> acc'[p].cid, act |-> TRUE]} /\ accState' = acc'[p].cid /\ file' = acc[p].tok
          /\ SignsInAs(acc[p].tok, acc[p].cid)
      BY <1>1, <1>2, <1>6, <1>7, <1>9 DEF AccountInv, CreateFit
    <2>2. CASE acc'[p].pc = "back" /\ acc'[p].tok = acc[p].tok /\ (acc'[p].ok => accMinted' = accMinted)
      BY <1>5, <1>6, <1>7, <2>1, <2>2 DEF CreateFit, SignsInAs, Account!Exits
    <2>3. CASE acc'[p].pc = "rewrite" /\ acc'[p].tok = accMinted' /\ accMinted' # accMinted
      BY <1>5, <1>6, <1>7, <2>1, <2>3 DEF CreateFit, SignsInAs, Account!Exits
    <2> QED BY <1>6, <1>7, <2>2, <2>3
  <1>10. Together <= 1 => AccountRecord'
    BY <1>1, <1>2, <1>6, <1>7, <1>8, AccountRecordStays DEF Saving
  <1>11. acc'[p].cid \in accAnswered' \cup {0} /\ acc'[p].pc \notin Saving /\ acc'[p].mode = "create"
    BY <1>1, <1>2, <1>6, <1>7 DEF AccountInv, Saving
  <1> QED BY <1>1, <1>2, <1>3, <1>5, <1>6, <1>7, <1>8, <1>9, <1>10, <1>11, AccountMoves

LEMMA AccountRewrites ==
  ASSUME AccountInv, NEW p \in Runs, Account!Rewrites(p) \/ Account!Rewritten(p) PROVE AccountInv'
  <1> USE AccountHave
  <1>1. acc[p].pc \in {"rewrite", "rewritten"} /\ acc[p].pc \notin Account!Rest /\ acc[p].mode = "create"
    BY DEF Account!Rewrites, Account!Rewritten, Account!At, Account!Rest, Account!Exits, AccountInv, Suits,
           Account!CreateSteps
  <1>2. /\ UNCHANGED <<accounts, live, registered, accMinted, accAnswered, accState, accOthers, accTorn>>
        /\ file' = (IF acc[p].pc = "rewrite" THEN 0 ELSE acc[p].tok) /\ file' \in 0 .. MaxTokens
    BY DEF Account!Rewrites, Account!Rewritten, Account!Platform, Account!platform, Account!At, AccRuns
  <1>3. accFaults' \in 0 .. MaxFaults
    BY AccountFaults DEF Account!Rewrites, Account!Rewritten
  <1>5. Sets(p) /\ Same(p) /\ acc'[p].pc = IF acc[p].pc = "rewrite" THEN "rewritten" ELSE "back"
    BY AccountGoes DEF Account!Rewrites, Account!Rewritten, Account!Steps, Account!CreateSteps, Account!At
  <1>6. Suits(acc[p])' /\ RecordFit(acc[p])'
    BY <1>1, <1>5 DEF Suits, RecordFit, Removing, Same
  <1>7. acc'[p].alone => CreateFit(acc[p])'
    BY <1>1, <1>2, <1>5 DEF AccountInv, CreateFit, Account!Exits, Same, SignsInAs
  <1>8. Together <= 1 => AccountRecord'
    BY <1>1, <1>2, <1>5, <1>6, AccountRecordStays DEF Saving
  <1>9. acc'[p].cid \in accAnswered' \cup {0} /\ acc'[p].pc \notin Saving /\ acc'[p].mode = "create"
    BY <1>1, <1>2, <1>5 DEF AccountInv, Same, Saving
  <1> QED BY <1>1, <1>2, <1>3, <1>5, <1>6, <1>7, <1>8, <1>9, AccountMoves DEF Same

LEMMA AccountBacks ==
  ASSUME AccountInv, NEW p \in Runs, Account!Backs(p) PROVE AccountInv'
  <1> USE AccountHave
  <1>1. acc[p].pc = "back" /\ acc[p].pc \notin Account!Rest /\ acc[p].mode = "create"
    BY DEF Account!Backs, Account!At, Account!Rest, Account!Exits, AccountInv, Suits, Account!CreateSteps
  <1>2. UNCHANGED <<accounts, live, registered, accMinted, accAnswered, accState, file, accOthers, accTorn>>
    BY DEF Account!Backs, Account!Platform, Account!platform, Account!Desk
  <1>3. accFaults' \in 0 .. MaxFaults
    BY AccountFaults DEF Account!Backs
  <1>4. PICK pc \in {"exit0", "exit1", "exit3"} : Account!Goes(p, pc) /\ (pc = "exit0" => acc[p].ok)
    BY DEF Account!Backs
  <1>5. Sets(p) /\ Same(p) /\ acc'[p].pc = pc
    BY <1>4, AccountGoes DEF Account!Rest, Account!Exits
  <1>6. Suits(acc[p])' /\ RecordFit(acc[p])'
    BY <1>1, <1>5 DEF Suits, RecordFit, Removing, Account!CreateSteps, Same
  <1>7. acc'[p].alone => CreateFit(acc[p])'
    BY <1>1, <1>2, <1>4, <1>5 DEF AccountInv, CreateFit, Account!Exits, Same, SignsInAs
  <1>8. Together <= 1 => AccountRecord'
    BY <1>1, <1>2, <1>5, <1>6, AccountRecordStays DEF Saving
  <1>9. acc'[p].cid \in accAnswered' \cup {0} /\ acc'[p].pc \notin Saving /\ acc'[p].mode = "create"
    BY <1>1, <1>2, <1>5 DEF AccountInv, Same, Saving
  <1> QED BY <1>1, <1>2, <1>3, <1>5, <1>6, <1>7, <1>8, <1>9, AccountMoves DEF Same

\* How a teardown goes on: what it was told of the result, and nothing else of it, may change.
Goes_on(p, pcs) ==
  /\ Sets(p) /\ acc'[p].pc \in pcs /\ acc'[p].mode = acc[p].mode /\ acc'[p].rows = acc[p].rows
  /\ acc'[p].cid = acc[p].cid /\ acc'[p].tok = acc[p].tok /\ acc'[p].alone = acc[p].alone

LEMMA AccountTold ==
  ASSUME acc \in [Runs -> AccRuns], NEW p \in Runs, NEW pc \in Account!Steps \cup Account!Checks, NEW b \in BOOLEAN,
         NEW s \in BOOLEAN, NEW l \in {"unread", "there", "none"}, NEW k,
         k = [acc[p] EXCEPT !.pc = pc, !.ok = b, !.silent = s, !.left = l], Account!Knows(p, k)
  PROVE  Goes_on(p, {pc}) /\ acc'[p].ok = b /\ acc'[p].silent = s /\ acc'[p].left = l
  <1>1. acc[p] \in AccRuns
    OBVIOUS
  <1>2. /\ k \in AccRuns /\ k.pc = pc /\ k.ok = b /\ k.silent = s /\ k.left = l /\ k.mode = acc[p].mode
        /\ k.rows = acc[p].rows /\ k.cid = acc[p].cid /\ k.tok = acc[p].tok /\ k.alone = acc[p].alone
    BY <1>1 DEF AccRuns
  <1>3. Sets(p) /\ acc'[p] = k
    BY <1>2, AccountKnows
  <1> QED BY <1>2, <1>3 DEF Goes_on

\* A revoke ends the account's tokens and leaves the accounts.
LEMMA AccountRevoked ==
  ASSUME AccountInv, NEW i, Account!Revoked(i)
  PROVE  /\ live' \subseteq live /\ \A t \in live' : t.of # i
         /\ accounts' \subseteq Account!Account
         /\ \A a \in accounts' : \E b \in accounts : b.id = a.id
  <1> USE AccountHave
  <1>1. \A a \in accounts : /\ [a EXCEPT !.act = FALSE] \in Account!Account
                            /\ [a EXCEPT !.act = FALSE].id = a.id
    BY DEF Account!Account
  <1>2. \A x \in accounts' : \E a \in accounts : x = a \/ x = [a EXCEPT !.act = FALSE]
    BY Zenon DEF Account!Revoked
  <1>3. live' = {t \in live : t.of # i}
    BY DEF Account!Revoked
  <1> QED BY <1>1, <1>2, <1>3

LEMMA AccountRevokes ==
  ASSUME AccountInv, NEW p \in Runs, Account!Revokes(p) PROVE AccountInv'
  <1> USE AccountHave
  <1> DEFINE pc == IF acc[p].tok # 0 THEN "tryRevoked" ELSE "delete"
             k == [acc[p] EXCEPT !.pc = pc]
  <1>1. /\ acc[p].pc = "revoke" /\ acc[p].pc \notin Account!Rest /\ acc[p].mode = "teardown" /\ acc[p] \in AccRuns
        /\ acc[p].ok \in BOOLEAN /\ acc[p].silent \in BOOLEAN /\ acc[p].left \in {"unread", "there", "none"}
    BY DEF Account!Revokes, Account!At, Account!Rest, Account!Exits, AccountInv, Suits, Removing, AccRuns
  <1>2. UNCHANGED <<registered, accMinted, accAnswered, accState, file, accOthers, accTorn>>
    BY DEF Account!Revokes, Account!Desk
  <1>3. accFaults' \in 0 .. MaxFaults
    BY AccountFaults DEF Account!Revokes
  <1>4. /\ live' \subseteq live /\ accounts' \subseteq Account!Account
        /\ \A a \in accounts' : \E b \in accounts : b.id = a.id
    <2>1. CASE Account!Revoked(acc[p].cid)
      BY <2>1, AccountRevoked
    <2>2. CASE UNCHANGED <<live, accounts>>
      BY <2>2
    <2>3. k.cid = acc[p].cid
      BY <1>1 DEF AccRuns
    <2> QED BY <2>1, <2>2, <2>3 DEF Account!Revokes
  <1>5. /\ Goes_on(p, {"tryRevoked", "delete"}) /\ acc'[p].left = acc[p].left
        /\ acc'[p].ok /\ ~acc'[p].silent => \A t \in live' : t.of # acc[p].cid
    <2>0. k.cid = acc[p].cid /\ pc \in Account!Steps \cup Account!Checks /\ pc \in {"tryRevoked", "delete"}
      BY <1>1 DEF AccRuns, Account!Steps, Account!Checks
    <2>1. CASE Account!Revoked(acc[p].cid) /\ Account!Knows(p, k)
      <3>1. k = [acc[p] EXCEPT !.pc = pc, !.ok = acc[p].ok, !.silent = acc[p].silent, !.left = acc[p].left]
        BY <1>1 DEF AccRuns
      <3> HIDE DEF pc, k
      <3>2. Goes_on(p, {pc}) /\ acc'[p].left = acc[p].left
        BY <1>1, <2>0, <2>1, <3>1, AccountTold
      <3> QED BY <2>0, <2>1, <3>2, AccountRevoked DEF Goes_on
    <2>2. CASE Account!Knows(p, [k EXCEPT !.ok = FALSE])
      <3> DEFINE j == [k EXCEPT !.ok = FALSE]
      <3>1. j = [acc[p] EXCEPT !.pc = pc, !.ok = FALSE, !.silent = acc[p].silent, !.left = acc[p].left]
        BY <1>1 DEF AccRuns
      <3>3. Account!Knows(p, j)
        BY <2>2
      <3> HIDE DEF pc, j
      <3>2. Goes_on(p, {pc}) /\ acc'[p].left = acc[p].left /\ acc'[p].ok = FALSE
        BY <1>1, <2>0, <3>1, <3>3, AccountTold
      <3> QED BY <2>0, <3>2 DEF Goes_on
    <2>3. CASE Account!Knows(p, [k EXCEPT !.silent = TRUE])
      <3> DEFINE j == [k EXCEPT !.silent = TRUE]
      <3>1. j = [acc[p] EXCEPT !.pc = pc, !.ok = acc[p].ok, !.silent = TRUE, !.left = acc[p].left]
        BY <1>1 DEF AccRuns
      <3>3. Account!Knows(p, j)
        BY <2>3
      <3> HIDE DEF pc, j
      <3>2. Goes_on(p, {pc}) /\ acc'[p].left = acc[p].left /\ acc'[p].silent = TRUE
        BY <1>1, <2>0, <3>1, <3>3, AccountTold
      <3> QED BY <2>0, <3>2 DEF Goes_on
    <2>4. \/ Account!Revoked(k.cid) /\ Account!Knows(p, k)
          \/ Account!Knows(p, [k EXCEPT !.ok = FALSE])
          \/ Account!Knows(p, [k EXCEPT !.silent = TRUE])
      BY DEF Account!Revokes
    <2> QED BY <2>0, <2>1, <2>2, <2>3, <2>4
  <1> HIDE DEF pc, k
  <1>6. Suits(acc[p])'
    BY <1>1, <1>5 DEF Suits, Removing, Goes_on, Account!CreateSteps
  <1>7. acc'[p].alone => TeardownFit(acc[p])'
    BY <1>1, <1>5 DEF AccountInv, TeardownFit, Goes_on
  <1>8. Together <= 1 => RecordFit(acc[p])'
    BY <1>1, <1>2, <1>5 DEF AccountInv, AccountRecord, RecordFit, Goes_on, Removing
  <1>9. Together <= 1 => AccountRecord'
    BY <1>1, <1>2, <1>4, <1>5, <1>8, AccountRecordStays DEF Saving, Goes_on
  <1>10. /\ acc'[p].cid \in accAnswered' \cup {0} /\ acc'[p].pc \notin Saving /\ acc'[p].mode = "teardown"
         /\ \A a \in accounts' : a.id <= registered'
    BY <1>1, <1>2, <1>4, <1>5 DEF AccountInv, Saving, Goes_on
  <1> QED BY <1>1, <1>2, <1>3, <1>4, <1>5, <1>6, <1>7, <1>9, <1>10, AccountMoves DEF Goes_on

LEMMA AccountTries ==
  ASSUME AccountInv, NEW p \in Runs, Account!Tries(p) PROVE AccountInv'
  <1> USE AccountHave
  <1> DEFINE pc == IF acc[p].pc = "tryRevoked" THEN "delete" ELSE "end"
             k == [acc[p] EXCEPT !.pc = pc]
  <1>1. /\ acc[p].pc \in {"tryRevoked", "tryDeleted"} /\ acc[p].pc \notin Account!Rest /\ acc[p].mode = "teardown"
        /\ acc[p] \in AccRuns /\ acc[p].tok \in 0 .. MaxTokens
        /\ acc[p].ok \in BOOLEAN /\ acc[p].silent \in BOOLEAN /\ acc[p].left \in {"unread", "there", "none"}
    BY DEF Account!Tries, Account!Checks, Account!Rest, Account!Exits, AccountInv, Suits, Removing, AccRuns
  <1>2. UNCHANGED <<accounts, registered, accAnswered, accState, file, accOthers, accTorn>>
    BY DEF Account!Tries, Account!Desk
  <1>3. accFaults' \in 0 .. MaxFaults
    BY AccountFaults DEF Account!Tries
  <1>4. /\ live' \subseteq Account!Token /\ accMinted' \in 0 .. MaxTokens
        /\ \A x \in live' : \E u \in live : u.of = x.of
    <2>1. CASE UNCHANGED <<live, accMinted>>
      BY <2>1
    <2>2. CASE Account!Rotates(acc[p].tok)
      BY <1>1, <2>2, AccountRotates
    <2>3. k.tok = acc[p].tok
      BY <1>1 DEF AccRuns
    <2> QED BY <2>1, <2>2, <2>3 DEF Account!Tries, Account!At
  <1>5. /\ Goes_on(p, {pc}) /\ acc'[p].left = acc[p].left
        /\ acc'[p].ok /\ ~acc'[p].silent => acc[p].ok /\ ~acc[p].silent
    <2>0. pc \in Account!Steps \cup Account!Checks
      BY DEF Account!Steps
    <2>1. CASE Account!Knows(p, k)
      <3>1. k = [acc[p] EXCEPT !.pc = pc, !.ok = acc[p].ok, !.silent = acc[p].silent, !.left = acc[p].left]
        BY <1>1 DEF AccRuns
      <3> HIDE DEF pc, k
      <3>2. Goes_on(p, {pc}) /\ acc'[p].left = acc[p].left /\ acc'[p].ok = acc[p].ok /\ acc'[p].silent = acc[p].silent
        BY <1>1, <2>0, <2>1, <3>1, AccountTold, ZenonT(40)
      <3> QED BY <2>1, <3>2
    <2>2. CASE Account!Knows(p, [k EXCEPT !.ok = FALSE])
      <3> DEFINE j == [k EXCEPT !.ok = FALSE]
      <3>1. j = [acc[p] EXCEPT !.pc = pc, !.ok = FALSE, !.silent = acc[p].silent, !.left = acc[p].left]
        BY <1>1 DEF AccRuns
      <3>3. Account!Knows(p, j)
        BY <2>2
      <3> HIDE DEF pc, j
      <3>2. Goes_on(p, {pc}) /\ acc'[p].left = acc[p].left /\ acc'[p].ok = FALSE
        BY <1>1, <2>0, <3>1, <3>3, AccountTold
      <3> QED BY <3>2
    <2>3. CASE Account!Knows(p, [k EXCEPT !.silent = TRUE])
      <3> DEFINE j == [k EXCEPT !.silent = TRUE]
      <3>1. j = [acc[p] EXCEPT !.pc = pc, !.ok = acc[p].ok, !.silent = TRUE, !.left = acc[p].left]
        BY <1>1 DEF AccRuns
      <3>3. Account!Knows(p, j)
        BY <2>3
      <3> HIDE DEF pc, j
      <3>2. Goes_on(p, {pc}) /\ acc'[p].left = acc[p].left /\ acc'[p].silent = TRUE
        BY <1>1, <2>0, <3>1, <3>3, AccountTold
      <3> QED BY <3>2
    <2> HIDE DEF pc
    <2> QED BY <2>1, <2>2, <2>3 DEF Account!Tries, Account!At, pc
  <1> HIDE DEF k
  <1>6. Suits(acc[p])'
    BY <1>1, <1>5 DEF Suits, Removing, Goes_on, Account!CreateSteps
  <1>7. acc'[p].alone => TeardownFit(acc[p])'
    <2>1. /\ acc'[p].pc \in {"delete", "end"} /\ acc'[p].cid = acc[p].cid /\ acc'[p].rows = acc[p].rows
          /\ acc'[p].left = acc[p].left /\ acc'[p].alone = acc[p].alone
      BY <1>5 DEF Goes_on
    <2>2. acc[p].alone => TeardownFit(acc[p])
      BY <1>1 DEF AccountInv
    <2>3. ASSUME acc[p].alone
          PROVE  /\ \A a \in acc[p].rows : a.id = acc[p].cid
                 /\ acc'[p].ok /\ ~acc'[p].silent => acc[p].rows = {} \/ \A t \in live' : t.of # acc[p].cid
                 /\ acc[p].pc = "tryRevoked" => acc[p].left # "none"
                 /\ acc[p].pc = "tryDeleted" => (acc[p].left = "none" => accounts = {})
      <3>1. TeardownFit(acc[p])
        BY <2>2, <2>3
      <3>2. /\ \A a \in acc[p].rows : a.id = acc[p].cid
            /\ acc[p].ok /\ ~acc[p].silent => acc[p].rows = {} \/ \A t \in live : t.of # acc[p].cid
            /\ acc[p].pc = "tryRevoked" => acc[p].left # "none"
            /\ acc[p].pc = "tryDeleted" => (acc[p].left = "none" => accounts = {})
        BY <1>1, <3>1 DEF TeardownFit
      <3> QED BY <1>4, <1>5, <3>2
    <2>4. /\ acc'[p].pc = "delete" => acc[p].pc = "tryRevoked"
          /\ acc'[p].pc = "end" => acc[p].pc = "tryDeleted"
      BY <1>1, <1>5 DEF Goes_on
    <2> HIDE DEF pc
    <2> QED BY <1>2, <2>1, <2>3, <2>4 DEF TeardownFit
  <1>8. Together <= 1 => RecordFit(acc[p])'
    BY <1>1, <1>2, <1>5 DEF AccountInv, AccountRecord, RecordFit, Goes_on, Removing
  <1>9. Together <= 1 => AccountRecord'
    BY <1>1, <1>2, <1>5, <1>8, AccountRecordStays DEF Saving, Goes_on
  <1>10. /\ acc'[p].cid \in accAnswered' \cup {0} /\ acc'[p].pc \notin Saving /\ acc'[p].mode = "teardown"
    BY <1>1, <1>2, <1>5 DEF AccountInv, Saving, Goes_on
  <1> QED BY <1>1, <1>2, <1>3, <1>4, <1>5, <1>6, <1>7, <1>9, <1>10, AccountMoves DEF Goes_on

LEMMA AccountDeletes ==
  ASSUME AccountInv, NEW p \in Runs, Account!Deletes(p) PROVE AccountInv'
  <1> USE AccountHave
  <1>1. acc[p].pc = "delete" /\ acc[p].pc \notin Account!Rest /\ acc[p].mode = "teardown"
    BY DEF Account!Deletes, Account!At, Account!Rest, Account!Exits, AccountInv, Suits, Removing
  <1>2. UNCHANGED <<registered, accMinted, accAnswered, accState, file, accOthers, accTorn>>
    BY DEF Account!Deletes, Account!Desk
  <1>3. accFaults' \in 0 .. MaxFaults
    BY AccountFaults DEF Account!Deletes
  <1>4. accounts' \subseteq accounts /\ live' \subseteq live
    BY DEF Account!Deletes
  <1>5. Sets(p) /\ Same(p) /\ acc'[p].pc = "gone"
    BY AccountGoes DEF Account!Deletes, Account!Steps
  <1>6. Suits(acc[p])'
    BY <1>1, <1>5 DEF Suits, Removing, Account!CreateSteps, Same
  <1>7. acc'[p].alone => TeardownFit(acc[p])'
    BY <1>1, <1>2, <1>4, <1>5, ZenonT(40) DEF AccountInv, TeardownFit, Same
  <1>8. Together <= 1 => RecordFit(acc[p])'
    BY <1>1, <1>2, <1>5 DEF AccountInv, AccountRecord, RecordFit, Same, Removing
  <1>9. Together <= 1 => AccountRecord'
    BY <1>1, <1>2, <1>4, <1>5, <1>8, AccountRecordStays DEF Saving
  <1>10. /\ acc'[p].cid \in accAnswered' \cup {0} /\ acc'[p].pc \notin Saving /\ acc'[p].mode = "teardown"
         /\ accounts' \subseteq Account!Account /\ live' \subseteq Account!Token /\ \A a \in accounts' : a.id <= registered'
    BY <1>1, <1>2, <1>4, <1>5 DEF AccountInv, Saving, Same
  <1> QED BY <1>1, <1>2, <1>3, <1>5, <1>6, <1>7, <1>9, <1>10, AccountMoves DEF Same

LEMMA AccountGone ==
  ASSUME AccountInv, NEW p \in Runs, Account!Gone(p) PROVE AccountInv'
  <1> USE AccountHave
  <1> DEFINE pc == IF acc[p].rows # {} /\ acc[p].tok # 0 THEN "tryDeleted" ELSE "end"
             seen == IF accounts = {} THEN "none" ELSE "there"
  <1>1. /\ acc[p].pc = "gone" /\ acc[p].pc \notin Account!Rest /\ acc[p].mode = "teardown" /\ acc[p] \in AccRuns
        /\ acc[p].ok \in BOOLEAN /\ acc[p].silent \in BOOLEAN /\ acc[p].left \in {"unread", "there", "none"}
    BY DEF Account!Gone, Account!At, Account!Rest, Account!Exits, AccountInv, Suits, Removing, AccRuns
  <1>2. UNCHANGED <<accounts, live, registered, accMinted, accAnswered, accState, file, accOthers, accTorn>>
    BY DEF Account!Gone, Account!Platform, Account!platform, Account!Desk
  <1>3. accFaults' \in 0 .. MaxFaults
    BY AccountFaults DEF Account!Gone
  <1>5. /\ Goes_on(p, {"tryDeleted", "end"}) /\ acc'[p].ok = acc[p].ok /\ acc'[p].silent = acc[p].silent
        /\ acc'[p].left = acc[p].left \/ (acc'[p].left = "none" => accounts = {})
    <2>0. /\ pc \in Account!Steps \cup Account!Checks /\ pc \in {"tryDeleted", "end"}
          /\ seen \in {"unread", "there", "none"} /\ (seen = "none" => accounts = {})
      BY DEF Account!Steps, Account!Checks
    <2>1. CASE Account!Knows(p, [acc[p] EXCEPT !.left = seen, !.pc = pc])
      <3> DEFINE j == [acc[p] EXCEPT !.left = seen, !.pc = pc]
      <3> HIDE DEF pc, seen
      <3>1. j = [acc[p] EXCEPT !.pc = pc, !.ok = acc[p].ok, !.silent = acc[p].silent, !.left = seen]
        BY <1>1 DEF AccRuns
      <3>2. Account!Knows(p, j)
        BY <2>1
      <3> HIDE DEF j
      <3>3. Goes_on(p, {pc}) /\ acc'[p].ok = acc[p].ok /\ acc'[p].silent = acc[p].silent /\ acc'[p].left = seen
        BY <1>1, <2>0, <3>1, <3>2, AccountTold, ZenonT(40)
      <3> QED BY <2>0, <3>3 DEF Goes_on
    <2>2. CASE Account!Knows(p, [acc[p] EXCEPT !.pc = pc])
      <3> DEFINE j == [acc[p] EXCEPT !.pc = pc]
      <3> HIDE DEF pc, seen
      <3>1. j = [acc[p] EXCEPT !.pc = pc, !.ok = acc[p].ok, !.silent = acc[p].silent, !.left = acc[p].left]
        BY <1>1 DEF AccRuns
      <3>2. Account!Knows(p, j)
        BY <2>2
      <3> HIDE DEF j
      <3>3. /\ Goes_on(p, {pc}) /\ acc'[p].ok = acc[p].ok /\ acc'[p].silent = acc[p].silent
            /\ acc'[p].left = acc[p].left
        BY <1>1, <2>0, <3>1, <3>2, AccountTold, ZenonT(40)
      <3> QED BY <2>0, <3>3 DEF Goes_on
    <2> QED BY <2>1, <2>2 DEF Account!Gone
  <1> HIDE DEF pc, seen
  <1>6. Suits(acc[p])'
    BY <1>1, <1>5 DEF Suits, Removing, Goes_on, Account!CreateSteps
  <1>7. acc'[p].alone => TeardownFit(acc[p])'
    BY <1>1, <1>2, <1>5, ZenonT(40) DEF AccountInv, TeardownFit, Goes_on
  <1>8. Together <= 1 => RecordFit(acc[p])'
    BY <1>1, <1>2, <1>5 DEF AccountInv, AccountRecord, RecordFit, Goes_on, Removing
  <1>9. Together <= 1 => AccountRecord'
    BY <1>1, <1>2, <1>5, <1>8, AccountRecordStays DEF Saving, Goes_on
  <1>10. /\ acc'[p].cid \in accAnswered' \cup {0} /\ acc'[p].pc \notin Saving /\ acc'[p].mode = "teardown"
    BY <1>1, <1>2, <1>5 DEF AccountInv, Saving, Goes_on
  <1> QED BY <1>1, <1>2, <1>3, <1>5, <1>6, <1>7, <1>9, <1>10, AccountMoves DEF Goes_on

LEMMA AccountEnds ==
  ASSUME AccountInv, NEW p \in Runs, Account!Ends(p) PROVE AccountInv'
  <1> USE AccountHave
  <1>1. acc[p].pc = "end" /\ acc[p].pc \notin Account!Rest /\ acc[p].mode = "teardown"
    BY DEF Account!Ends, Account!At, Account!Rest, Account!Exits, AccountInv, Suits, Removing
  <1>2. UNCHANGED <<accounts, live, registered, accMinted, accAnswered, accState, file, accOthers, accTorn>>
    BY DEF Account!Ends, Account!Platform, Account!platform, Account!Desk
  <1>3. accFaults' \in 0 .. MaxFaults
    BY AccountFaults DEF Account!Ends
  <1>4. PICK pc \in {"save", "exit0", "exit1", "exit3"} :
          /\ Account!Goes(p, pc) /\ (pc = "save" => acc[p].rows # {})
          /\ pc = "exit0" => acc[p].left = "none" /\ acc[p].ok /\ ~acc[p].silent
    <2>1. CASE acc[p].left = "none" /\ acc[p].rows # {}
      BY <2>1 DEF Account!Ends
    <2>2. CASE ~(acc[p].left = "none" /\ acc[p].rows # {})
      BY <2>2 DEF Account!Ends, Account!Verdict
    <2> QED BY <2>1, <2>2
  <1>5. Sets(p) /\ Same(p) /\ acc'[p].pc = pc
    BY <1>4, AccountGoes DEF Account!Rest, Account!Exits, Account!Steps
  <1>6. Suits(acc[p])' /\ RecordFit(acc[p])'
    BY <1>1, <1>4, <1>5 DEF Suits, RecordFit, Removing, Account!CreateSteps, Same
  <1>7. acc'[p].alone => TeardownFit(acc[p])'
    BY <1>1, <1>2, <1>4, <1>5, ZenonT(40) DEF AccountInv, TeardownFit, Same
  <1>8. ASSUME Together <= 1 PROVE AccountRecord'
    <2>1. CASE pc # "save"
      BY <1>1, <1>2, <1>4, <1>5, <1>6, <1>8, <2>1, AccountRecordStays DEF Saving
    <2>2. CASE pc = "save"
      <3>1. AccountRecord /\ acc[p].cid = accState
        BY <1>1, <1>4, <1>8, <2>2 DEF AccountInv, AccountRecord, RecordFit, Removing
      <3>2. \A q \in Runs \ {p} : acc'[q] = acc[q] /\ acc[q].pc \in Account!Rest
        BY <1>1, <1>5, <3>1 DEF AccountRecord, Sets
      <3>3. \A q \in Runs : /\ acc'[q].pc \in Saving => acc'[q].cid = accState
                            /\ acc[q].pc \notin Saving
        BY <1>1, <1>5, <2>2, <3>1, <3>2 DEF Saving, Account!Rest, Account!Exits, Same
      <3>4. \A i : OnRecord(i) => OnRecord(i)'
        BY <1>2, <3>3 DEF OnRecord
      <3>5. \A q \in Runs : RecordFit(acc[q])'
        BY <1>6, <3>2 DEF RecordFit, Removing, Account!Rest, Account!Exits
      <3> QED BY <1>2, <3>1, <3>2, <3>4, <3>5 DEF AccountRecord
    <2> QED BY <2>1, <2>2
  <1>9. acc'[p].cid \in accAnswered' \cup {0} /\ acc'[p].mode = "teardown"
    BY <1>1, <1>2, <1>5 DEF AccountInv, Same
  <1> QED BY <1>1, <1>2, <1>3, <1>5, <1>6, <1>7, <1>8, <1>9, AccountMoves DEF Same

LEMMA AccountDies ==
  ASSUME AccountInv, NEW p \in Runs, Account!Dies(p) PROVE AccountInv'
  <1> USE AccountHave, AccountIdle
  <1>1. acc[p].pc \notin Account!Rest
    BY DEF Account!Dies, Account!Busy
  <1>2. UNCHANGED <<accounts, live, registered, accMinted, accAnswered, accState, file, accOthers>>
    BY DEF Account!Dies, Account!Platform, Account!platform
  <1>3. accFaults' \in 0 .. MaxFaults
    BY AccountFaults DEF Account!Dies
  <1>4. accTorn' = (accTorn \/ acc[p].pc \in Saving) /\ accTorn' \in BOOLEAN
    BY DEF Account!Dies, Saving
  <1>5. Sets(p) /\ acc'[p] = Account!Idle
    BY DEF Account!Dies, Sets
  <1> HIDE AccountIdle
  <1>6. Suits(acc[p])' /\ RecordFit(acc[p])'
    BY <1>5, AccountIdle DEF Suits, RecordFit, Removing, Account!CreateSteps
  <1>7. ~acc'[p].alone /\ acc'[p].cid = 0 /\ acc'[p].pc \notin Saving
    BY <1>5, AccountIdle DEF Saving
  <1>8. ASSUME Together <= 1 PROVE AccountRecord'
    <2>1. CASE acc[p].pc \notin Saving
      <3>1. accTorn' = accTorn
        BY <1>4, <2>1, Zenon
      <3> QED BY <1>1, <1>2, <1>5, <1>6, <1>7, <1>8, <2>1, <3>1, AccountRecordStays
    <2>2. CASE acc[p].pc \in Saving
      <3>1. AccountRecord
        BY <1>8 DEF AccountInv
      <3>2. \A q \in Runs \ {p} : acc'[q] = acc[q] /\ acc[q].pc \in Account!Rest
        BY <1>1, <1>5, <3>1 DEF AccountRecord, Sets
      <3>3. acc'[p].pc \in Account!Rest
        BY <1>5, AccountIdle DEF Account!Rest
      <3>4. \A q \in Runs : RecordFit(acc[q])'
        BY <1>6, <3>2 DEF RecordFit, Removing, Account!Rest, Account!Exits
      <3>5. accTorn'
        BY <1>4, <2>2, Zenon
      <3> QED BY <3>2, <3>3, <3>4, <3>5 DEF AccountRecord
    <2> QED BY <2>1, <2>2
  <1> QED BY <1>1, <1>2, <1>3, <1>4, <1>5, <1>6, <1>7, <1>8, AccountMoves

\* A run that is no longer alone is as it was otherwise.
LEMMA AccountCrowded ==
  ASSUME acc \in [Runs -> AccRuns], NEW q \in Runs, acc'[q] = [acc[q] EXCEPT !.alone = FALSE]
  PROVE  /\ acc'[q] \in AccRuns /\ acc'[q].pc = acc[q].pc /\ acc'[q].mode = acc[q].mode /\ acc'[q].rows = acc[q].rows
         /\ acc'[q].cid = acc[q].cid /\ ~acc'[q].alone
  <1>1. acc[q] \in AccRuns
    OBVIOUS
  <1> QED BY <1>1 DEF AccRuns

LEMMA AccountStarts ==
  ASSUME AccountInv, NEW p \in Runs, NEW m \in {"create", "teardown"}, Account!Starts(p, m) PROVE AccountInv'
  <1> USE AccountHave
  <1> DEFINE none == Account!Busy = {}
  <1>1. acc[p].pc \in Account!Rest /\ (none => \A q \in Runs : acc[q].pc \in Account!Rest)
    BY DEF Account!Starts, Account!Busy
  <1>2. /\ UNCHANGED <<accounts, live, registered, accMinted, accAnswered, accState, accFaults, accOthers, accTorn>>
        /\ file' = IF m = "create" THEN 0 ELSE file
    BY Zenon DEF Account!Starts, Account!Platform, Account!platform
  <1>13. file' \in 0 .. MaxTokens
    BY <1>2
  <1>14. PICK t \in {0} \cup (IF m = "create" THEN {} ELSE {file}) :
          acc' = [q \in Runs |->
               IF q = p THEN [Account!Idle EXCEPT !.pc = "list", !.mode = m, !.tok = t, !.alone = none]
               ELSE [acc[q] EXCEPT !.alone = FALSE]]
    BY Zenon DEF Account!Starts
  <1>3. PICK tok \in 0 .. MaxTokens :
          /\ m = "create" => tok = 0
          /\ acc' = [q \in Runs |->
               IF q = p THEN [Account!Idle EXCEPT !.pc = "list", !.mode = m, !.tok = tok, !.alone = none]
               ELSE [acc[q] EXCEPT !.alone = FALSE]]
    <2>1. t \in 0 .. MaxTokens /\ (m = "create" => t = 0)
      OBVIOUS
    <2> QED BY <1>14, <2>1, Zenon
  <1>4. none \in BOOLEAN
    OBVIOUS
  <1> HIDE DEF none
  <1>5. /\ acc'[p] \in AccRuns /\ acc'[p].pc = "list" /\ acc'[p].mode = m /\ acc'[p].tok = tok /\ acc'[p].cid = 0
        /\ acc'[p].left = "unread" /\ acc'[p].alone = none
    <2> DEFINE k == [Account!Idle EXCEPT !.pc = "list", !.mode = m, !.tok = tok, !.alone = none]
    <2>1. /\ k \in AccRuns /\ k.pc = "list" /\ k.mode = m /\ k.tok = tok /\ k.cid = 0 /\ k.left = "unread"
          /\ k.alone = none
      BY <1>4, AccountIdle DEF AccRuns, Account!Steps
    <2>2. acc'[p] = k
      BY <1>3
    <2> HIDE DEF k
    <2> QED BY <2>1, <2>2
  <1>6. \A q \in Runs \ {p} :
          /\ acc'[q] \in AccRuns /\ acc'[q].pc = acc[q].pc /\ acc'[q].mode = acc[q].mode /\ acc'[q].rows = acc[q].rows
          /\ acc'[q].cid = acc[q].cid /\ ~acc'[q].alone
    <2>1. \A q \in Runs \ {p} : acc'[q] = [acc[q] EXCEPT !.alone = FALSE]
      BY <1>3
    <2> QED BY <2>1, AccountCrowded
  <1>7. Account!TypeOK'
    <2>1. acc' \in [Runs -> AccRuns]
      BY <1>3, <1>5, <1>6
    <2> QED BY <1>2, <1>13, <2>1 DEF Account!TypeOK, AccRuns
  <1>8. \A q, o \in Runs : acc'[q].alone /\ q # o => acc'[o].pc \in Account!Rest /\ ~acc'[o].alone
    BY <1>1, <1>5, <1>6
  <1>9. \A q \in Runs : Suits(acc[q])' /\ acc'[q].cid \in accAnswered' \cup {0}
                        /\ (acc'[q].mode = "create" /\ acc'[q].pc \in Saving => acc'[q].cid # 0)
    BY <1>2, <1>5, <1>6 DEF AccountInv, Suits, Removing, Saving, Account!CreateSteps
  <1>10. (m = "create" => CreateFit(acc[p])') /\ (m = "teardown" => TeardownFit(acc[p])')
    BY <1>3, <1>5 DEF CreateFit, TeardownFit, Account!Exits
  <1>11. ASSUME Together <= 1 PROVE AccountRecord'
    <2>1. AccountRecord
      BY <1>11 DEF AccountInv
    <2>2. \A q \in Runs : acc[q].pc \in Account!Rest
      <3>1. IsFiniteSet(Account!Busy)
        BY AccountNumbers, FS_Subset DEF Account!Busy
      <3>2. Cardinality(Account!Busy) \in Nat
        BY <3>1, FS_CardinalityType
      <3>5. Cardinality(Account!Busy) < Together
        BY Zenon DEF Account!Starts, Account!Cardinality, Cardinality
      <3>3. Cardinality(Account!Busy) = 0
        BY <1>11, <3>2, <3>5, AccountNumbers
      <3>4. Account!Busy = {}
        BY <3>1, <3>3, FS_EmptySet
      <3> QED BY <3>4 DEF Account!Busy
    <2>3. \A q \in Runs : acc[q].pc \notin Saving /\ acc'[q].pc \notin Saving
      BY <1>5, <1>6, <2>2 DEF Saving, Account!Rest, Account!Exits
    <2>4. \A i : OnRecord(i) => OnRecord(i)'
      BY <1>2, <2>3 DEF OnRecord
    <2>5. \A q \in Runs : RecordFit(acc[q])'
      BY <1>5, <1>6, <2>2 DEF RecordFit, Removing, Account!Rest, Account!Exits
    <2>6. \A q, o \in Runs : acc'[q].pc \notin Account!Rest /\ acc'[o].pc \notin Account!Rest => q = o
      BY <1>6, <2>2
    <2> QED BY <1>2, <2>1, <2>4, <2>5, <2>6 DEF AccountRecord
  <1>12. \A q \in Runs : acc'[q].alone =>
           IF acc'[q].mode = "create" THEN CreateFit(acc[q])' ELSE TeardownFit(acc[q])'
    BY <1>5, <1>6, <1>10
  <1> QED BY <1>2, <1>7, <1>8, <1>9, <1>11, <1>12, <1>13 DEF AccountInv

LEMMA AccountOthers ==
  ASSUME AccountInv, Account!Others PROVE AccountInv'
  <1> USE AccountHave
  <1>1. UNCHANGED <<accState, file, accMinted, accFaults, accAnswered, accTorn>> /\ accOthers' \in 0 .. MaxOthers
    BY DEF Account!Others
  <1>2. acc' = [q \in Runs |-> [acc[q] EXCEPT !.alone = FALSE]]
    BY DEF Account!Others
  <1>3. \A q \in Runs :
          /\ acc'[q] \in AccRuns /\ acc'[q].pc = acc[q].pc /\ acc'[q].mode = acc[q].mode /\ acc'[q].rows = acc[q].rows
          /\ acc'[q].cid = acc[q].cid /\ ~acc'[q].alone
    <2>1. \A q \in Runs : acc'[q] = [acc[q] EXCEPT !.alone = FALSE]
      BY <1>2
    <2> QED BY <2>1, AccountCrowded
  <1>4. /\ accounts' \subseteq Account!Account /\ live' \subseteq live /\ registered' \in 0 .. MaxAccounts
        /\ registered <= registered' /\ \A a \in accounts' : a.id <= registered'
        /\ \A a \in accounts' : a.id \in accAnswered => \E b \in accounts : b.id = a.id
    <2>1. CASE /\ registered < MaxAccounts /\ registered' = registered + 1
               /\ accounts' = accounts \cup {[id |-> registered', act |-> TRUE]} /\ UNCHANGED live
      <3> DEFINE new == [id |-> registered', act |-> TRUE]
      <3>1. new \in Account!Account /\ new.id = registered' /\ accounts' = accounts \cup {new}
        BY <2>1 DEF Account!Account
      <3>2. \A a \in accounts : a.id \in Nat
        BY DEF Account!Account
      <3> HIDE DEF new
      <3> QED BY <2>1, <3>1, <3>2
    <2>2. ASSUME NEW a \in accounts, UNCHANGED registered, Account!Revoked(a.id)
          PROVE  /\ accounts' \subseteq Account!Account /\ live' \subseteq live
                 /\ \A x \in accounts' : x.id <= registered' /\ \E b \in accounts : b.id = x.id
      <3>1. /\ live' \subseteq live /\ accounts' \subseteq Account!Account
            /\ \A x \in accounts' : \E b \in accounts : b.id = x.id
        BY <2>2, AccountRevoked
      <3> QED BY <2>2, <3>1
    <2>3. ASSUME NEW a \in accounts, UNCHANGED registered, accounts' = accounts \ {a},
                 live' \in {live, {t \in live : t.of # a.id}}
          PROVE  /\ accounts' \subseteq Account!Account /\ live' \subseteq live
                 /\ \A x \in accounts' : x.id <= registered' /\ \E b \in accounts : b.id = x.id
      BY <2>3
    <2> QED BY <2>1, <2>2, <2>3 DEF Account!Others
  <1>5. Account!TypeOK'
    <2>1. acc' \in [Runs -> AccRuns]
      BY <1>2, <1>3
    <2> QED BY <1>1, <1>4, <2>1 DEF Account!TypeOK, AccRuns
  <1>6. \A q \in Runs : Suits(acc[q])' /\ acc'[q].cid \in accAnswered' \cup {0}
                        /\ (acc'[q].mode = "create" /\ acc'[q].pc \in Saving => acc'[q].cid # 0)
    BY <1>1, <1>3 DEF AccountInv, Suits
  <1>7. ASSUME Together <= 1 PROVE AccountRecord'
    <2>1. AccountRecord
      BY <1>7 DEF AccountInv
    <2>2. \A i : OnRecord(i) => OnRecord(i)'
      BY <1>1, <1>3 DEF OnRecord
    <2>3. \A q \in Runs : RecordFit(acc[q])'
      BY <1>1, <1>3, <1>4, <2>1 DEF RecordFit, AccountRecord
    <2>4. \A q, o \in Runs : acc'[q].pc \notin Account!Rest /\ acc'[o].pc \notin Account!Rest => q = o
      BY <1>3, <2>1 DEF AccountRecord
    <2>5. ~accTorn' => \A a \in accounts' : a.id \in accAnswered' => OnRecord(a.id)'
      BY <1>1, <1>4, <2>1, <2>2 DEF AccountRecord
    <2> QED BY <2>3, <2>4, <2>5 DEF AccountRecord
  <1> QED BY <1>1, <1>3, <1>4, <1>5, <1>6, <1>7 DEF AccountInv

LEMMA AccountStep == AccountInv /\ Account!Next => AccountInv'
  BY AccountStarts, AccountOthers, AccountDies, AccountLists, AccountJudges, AccountRegisters, AccountSaves,
     AccountWrites, AccountGrants, AccountPolls, AccountStores, AccountReadsSession, AccountRefreshes, AccountRewrites,
     AccountBacks, AccountRevokes, AccountTries, AccountDeletes, AccountGone, AccountEnds DEF Account!Next, Account!Step

LEMMA AccountStay == AccountInv /\ UNCHANGED account => AccountInv'
  <1> SUFFICES ASSUME AccountInv, UNCHANGED account PROVE AccountInv'
    OBVIOUS
  <1>1. UNCHANGED <<accounts, live, accState, file, acc, registered, accMinted, accFaults, accOthers, accAnswered, accTorn>>
    BY DEF account
  <1>2. Account!TypeOK' /\ \A p \in Runs : Suits(acc[p]) => Suits(acc[p])'
    BY <1>1 DEF AccountInv, Account!TypeOK, Suits
  <1>3. \A p \in Runs : /\ CreateFit(acc[p]) => CreateFit(acc[p])'
                        /\ TeardownFit(acc[p]) => TeardownFit(acc[p])'
    BY <1>1 DEF CreateFit, TeardownFit, SignsInAs
  <1>4. AccountRecord => AccountRecord'
    BY <1>1 DEF AccountRecord, RecordFit, OnRecord
  <1> QED BY <1>1, <1>2, <1>3, <1>4 DEF AccountInv

LEMMA AccountSays ==
  AccountInv =>
    /\ Account!TypeOK /\ Account!ActsOnlyOnItsOwn /\ Account!ExitZeroIsTrue /\ Account!StoredTokenLives
    /\ Together <= 1 => Account!MadeIsRecorded
  <1> SUFFICES ASSUME AccountInv
               PROVE  /\ Account!TypeOK /\ Account!ActsOnlyOnItsOwn /\ Account!ExitZeroIsTrue
                      /\ Account!StoredTokenLives /\ (Together <= 1 => Account!MadeIsRecorded)
    OBVIOUS
  <1> USE AccountHave
  <1>1. Account!TypeOK /\ Account!ActsOnlyOnItsOwn
    BY DEF AccountInv, Account!ActsOnlyOnItsOwn
  <1>2. Account!StoredTokenLives
    BY DEF AccountInv, Account!StoredTokenLives, CreateFit, SignsInAs, Account!Lives, Account!Ids
  <1>3. Account!ExitZeroIsTrue
    <2> SUFFICES ASSUME NEW p \in Runs, acc[p].alone, acc[p].pc = "exit0"
                 PROVE  IF acc[p].mode = "create"
                        THEN /\ accounts = {[id |-> acc[p].cid, act |-> TRUE]} /\ accState = acc[p].cid
                             /\ \E t \in live : t.id = file /\ t.of = acc[p].cid
                        ELSE accounts = {} /\ \A t \in live : t.of \notin Account!Ids(acc[p].rows)
      BY DEF Account!ExitZeroIsTrue, Account!At
    <2>1. CASE acc[p].mode = "create"
      BY <2>1 DEF AccountInv, CreateFit, SignsInAs
    <2>2. CASE acc[p].mode # "create"
      BY <2>2 DEF AccountInv, TeardownFit, Account!Ids
    <2> QED BY <2>1, <2>2
  <1>4. Together <= 1 => Account!MadeIsRecorded
    BY DEF AccountInv, AccountRecord, Account!MadeIsRecorded, OnRecord, Saving
  <1> QED BY <1>1, <1>2, <1>3, <1>4

-----------------------------------------------------------------------------
(* The probe roles (ProbeRoles): what the ledger and a run's copy of it name, and what is on record. *)

ProbeRuns ==
  [pc : Probe!Rest \cup Probe!ProbeSteps \cup Probe!RemoveSteps \cup {"claim"}, mode : {"probe", "remove", "adopt"},
   vc : VCs, led : SUBSET Probe!Entry, need : SUBSET Names, listed : SUBSET Probe!Role,
   ids : SUBSET (1 .. MaxRoles), new : Probe!Role \cup {Probe!NoRole}, hosts : SUBSET VCs,
   held : BOOLEAN, unread : BOOLEAN, alone : BOOLEAN]

\* A run was told it made the role of that number there, or adopted it.
Mine(v, i) == [vc |-> v, id |-> i] \in own

\* The entries of a ledger are of such roles, one for a name.
Entries(led) ==
  /\ led \subseteq Probe!Entry /\ \A e \in led : Mine(e.vc, e.id)
  /\ \A e, f \in led : e.vc = f.vc /\ e.name = f.name => e = f

\* A step belongs to a mode.
Moded(k) ==
  /\ k.pc \in Probe!ProbeSteps \ {"record"} => k.mode = "probe"
  /\ k.pc \in Probe!RemoveSteps => k.mode = "remove"
  /\ k.pc = "claim" => k.mode = "adopt" /\ k.vc = k.new.vc
  /\ k.pc = "record" => k.mode # "remove" /\ k.new \in Probe!Role /\ Mine(k.new.vc, k.new.id)

\* What a run may change or remove.
Reach(k) ==
  /\ Entries(k.led)
  /\ k.mode # "remove" => \A r \in k.listed : Mine(r.vc, r.id)
  /\ k.pc = "drop" => \A i \in k.ids : Mine(k.vc, i)

\* Nothing of these names is left there, and the ledger names nothing.
Bare(v) == Probe!On(v) = {} /\ Probe!Ours(ledger, v) = {}

\* A run that was left alone: its copy is the ledger, and what it refused for is not there when it removes.
ProbeFit(k) ==
  /\ k.led = ledger \/ (k.mode = "remove" /\ k.unread)
  /\ k.pc = "drop" => \A g \in grants : g.vc = k.vc => g.id \notin k.ids
  /\ k.pc \in {"drop", "forget"} /\ ~k.held /\ ~k.unread =>
       \A r \in Probe!On(k.vc) : Probe!EntryOf(r) \in k.led /\ \E s \in k.listed : Probe!EntryOf(s) = Probe!EntryOf(r)
  /\ k.pc = "host" /\ k.hosts = {} /\ ~k.held /\ ~k.unread => Bare(k.vc)
  /\ k.pc = "exit0" /\ k.mode = "remove" => Bare(k.vc)
  /\ k.pc = "exit0" /\ k.mode = "probe" => Probe!GrantsOfOurs(ledger, k.vc) = {}

\* The role is in that ledger, or about to be.
Entered(led, r) ==
  \/ Probe!EntryOf(r) \in led
  \/ \E p \in Runs : probe[p].pc = "record" /\ Probe!EntryOf(probe[p].new) = Probe!EntryOf(r)

\* No other role of this script has the name of the one to be entered; and a removal has listed all of them.
Kept(k) ==
  /\ k.pc = "record" =>
       \A r \in roles : Mine(r.vc, r.id) /\ r.vc = k.new.vc /\ r.name = k.new.name => r.id = k.new.id
  /\ k.pc \in {"drop", "forget"} =>
       \A r \in roles : Mine(r.vc, r.id) /\ r.vc = k.vc => \E s \in k.listed : Probe!EntryOf(s) = Probe!EntryOf(r)

ProbeRecord ==
  /\ \A p, q \in Runs : probe[p].pc \notin Probe!Rest /\ probe[q].pc \notin Probe!Rest => p = q
  /\ ~roleTorn => \A r \in roles : Mine(r.vc, r.id) =>
       Entered(ledger, r) /\ \A p \in Runs : probe[p].pc \notin Probe!Rest => Entered(probe[p].led, r)
  /\ \A p \in Runs : Kept(probe[p])

ProbeInv ==
  /\ Probe!TypeOK /\ Entries(ledger)
  /\ \A r \in roles : r.id <= numbered[r.vc]
  /\ \A o \in own : o.id <= numbered[o.vc]
  /\ \A p, q \in Runs : probe[p].alone /\ p # q => probe[q].pc \in Probe!Rest /\ ~probe[q].alone
  /\ \A p \in Runs :
       /\ Moded(probe[p]) /\ Reach(probe[p])
       /\ probe[p].pc \notin {"measured", "destroy"} => \A g \in grants : g.on # p
       /\ probe[p].alone => ProbeFit(probe[p])
  /\ Together <= 1 => ProbeRecord

LEMMA ProbeNumbers ==
  /\ Together \in Nat /\ MaxOthers \in Nat /\ MaxFaults \in Nat /\ MaxRoles \in Nat
  /\ IsFiniteSet(Runs) /\ "left" \notin Runs /\ "elsewhere" \notin Runs /\ VCs # {} /\ Names # {}
  BY OwnershipAssumption DEF OwnershipAssumption

\* What the platform holds, apart from who does what.
Platform ==
  /\ roles \subseteq Probe!Role /\ grants \subseteq Probe!Grant /\ numbered \in [VCs -> 0 .. MaxRoles]
  /\ own \subseteq [vc : VCs, id : 1 .. MaxRoles]
  /\ \A r, s \in roles : r.vc = s.vc /\ (r.name = s.name \/ r.id = s.id) => r = s
  /\ \A g \in grants : \E r \in roles : r.vc = g.vc /\ r.id = g.id
  /\ \A r \in roles : r.id <= numbered[r.vc]
  /\ \A o \in own : o.id <= numbered[o.vc]

LEMMA ProbeHave ==
  ProbeInv =>
    /\ probe \in [Runs -> ProbeRuns] /\ Platform /\ Entries(ledger) /\ roleFaults \in 0 .. MaxFaults
    /\ roleOthers \in 0 .. MaxOthers /\ roleTorn \in BOOLEAN
    /\ MaxRoles \in Nat /\ MaxFaults \in Nat /\ MaxOthers \in Nat
  BY ProbeNumbers DEF ProbeInv, Probe!TypeOK, ProbeRuns, Platform

LEMMA ProbeNone ==
  Probe!NoRole.vc \in VCs /\ Probe!NoRole.id = 0 /\ Probe!NoRole \notin Probe!Role
  BY ProbeNumbers DEF Probe!NoRole, Probe!Role

LEMMA ProbeIdle ==
  /\ Probe!Idle \in ProbeRuns /\ Probe!Idle.pc = "idle" /\ Probe!Idle.mode = "probe" /\ Probe!Idle.led = {}
  /\ Probe!Idle.listed = {} /\ Probe!Idle.ids = {} /\ ~Probe!Idle.alone /\ ~Probe!Idle.held /\ ~Probe!Idle.unread
  BY ProbeNone DEF ProbeRuns, Probe!Idle, Probe!Rest

LEMMA ProbeStart == Probe!Init => ProbeInv
  <1> SUFFICES ASSUME Probe!Init PROVE ProbeInv
    OBVIOUS
  <1> USE ProbeIdle, ProbeNumbers
  <1>1. /\ probe = [p \in Runs |-> Probe!Idle] /\ roles = {} /\ grants = {} /\ ledger = {} /\ own = {}
        /\ numbered = [v \in VCs |-> 0] /\ roleFaults = 0 /\ roleOthers = 0
    BY DEF Probe!Init
  <1>2. roleTorn \in BOOLEAN
    BY DEF Probe!Init
  <1>3. \A p \in Runs : probe[p] = Probe!Idle
    BY <1>1
  <1>4. Probe!TypeOK
    <2>1. probe \in [Runs -> ProbeRuns] /\ numbered \in [VCs -> 0 .. MaxRoles]
      BY <1>1
    <2> HIDE ProbeIdle
    <2> QED BY <1>1, <1>2, <2>1 DEF Probe!TypeOK, ProbeRuns
  <1>5. ProbeRecord
    BY <1>1, <1>3 DEF ProbeRecord, Kept, Probe!Rest
  <1>6. \A p \in Runs : Moded(probe[p]) /\ Reach(probe[p])
    BY <1>3 DEF Moded, Reach, Entries, Probe!ProbeSteps, Probe!RemoveSteps
  <1> QED BY <1>1, <1>3, <1>4, <1>5, <1>6 DEF ProbeInv, Entries

\* What a run goes on with.
Turns(p) == probe' = [probe EXCEPT ![p] = probe'[p]] /\ probe'[p] \in ProbeRuns
Stays(p) ==
  /\ probe'[p].mode = probe[p].mode /\ probe'[p].vc = probe[p].vc /\ probe'[p].led = probe[p].led
  /\ probe'[p].listed = probe[p].listed /\ probe'[p].new = probe[p].new /\ probe'[p].alone = probe[p].alone
Steady(p) ==
  /\ Stays(p) /\ probe'[p].ids = probe[p].ids /\ probe'[p].hosts = probe[p].hosts
  /\ probe'[p].held = probe[p].held /\ probe'[p].unread = probe[p].unread

AllSteps == Probe!Rest \cup Probe!ProbeSteps \cup Probe!RemoveSteps \cup {"claim"}

LEMMA ProbeKnows ==
  ASSUME probe \in [Runs -> ProbeRuns], NEW p \in Runs, NEW k \in ProbeRuns, Probe!Knows(p, k)
  PROVE  Turns(p) /\ probe'[p] = k
  BY DEF Probe!Knows, Turns

LEMMA ProbeGoes ==
  ASSUME probe \in [Runs -> ProbeRuns], NEW p \in Runs, NEW pc \in AllSteps, Probe!Goes(p, pc)
  PROVE  Turns(p) /\ Steady(p) /\ probe'[p].pc = pc
  <1>1. probe' = [probe EXCEPT ![p] = [probe[p] EXCEPT !.pc = pc]]
    BY DEF Probe!Goes
  <1>2. probe'[p] = [probe[p] EXCEPT !.pc = pc] /\ probe' = [probe EXCEPT ![p] = probe'[p]] /\ probe[p] \in ProbeRuns
    BY <1>1
  <1> QED BY <1>2 DEF Turns, Steady, Stays, ProbeRuns, AllSteps

\* A run that gives up part of its work.
LEMMA ProbeGivesUp ==
  ASSUME probe \in [Runs -> ProbeRuns], NEW p \in Runs, NEW pc \in AllSteps, NEW held \in BOOLEAN,
         NEW unread \in BOOLEAN, NEW k, k = [probe[p] EXCEPT !.pc = pc, !.held = held, !.unread = unread],
         Probe!Knows(p, k)
  PROVE  Turns(p) /\ Stays(p) /\ probe'[p].pc = pc /\ probe'[p].held = held /\ probe'[p].unread = unread
  <1>1. probe[p] \in ProbeRuns
    OBVIOUS
  <1>2. /\ k \in ProbeRuns /\ k.pc = pc /\ k.held = held /\ k.unread = unread /\ k.mode = probe[p].mode
        /\ k.vc = probe[p].vc /\ k.led = probe[p].led /\ k.listed = probe[p].listed /\ k.new = probe[p].new
        /\ k.alone = probe[p].alone
    BY <1>1 DEF ProbeRuns, AllSteps
  <1>3. Turns(p) /\ probe'[p] = k
    BY <1>2, ProbeKnows
  <1> QED BY <1>2, <1>3 DEF Stays

LEMMA ProbeMoves ==
  ASSUME ProbeInv, NEW p \in Runs, probe[p].pc \notin Probe!Rest, Turns(p), Platform', Entries(ledger)',
         own \subseteq own', roleFaults' \in 0 .. MaxFaults, roleOthers' = roleOthers, roleTorn' \in BOOLEAN,
         Moded(probe[p])', Reach(probe[p])', probe'[p].alone => probe[p].alone /\ ProbeFit(probe[p])',
         \A g \in grants' : g.on \in Runs \ {p} => \E h \in grants : h.on = g.on,
         probe'[p].pc \notin {"measured", "destroy"} => \A g \in grants' : g.on # p,
         Together <= 1 => ProbeRecord'
  PROVE  ProbeInv'
  <1> USE ProbeHave DEF Turns
  <1>1. \A q \in Runs \ {p} : probe'[q] = probe[q] /\ ~probe[q].alone
    BY DEF ProbeInv
  <1>2. probe' \in [Runs -> ProbeRuns]
    BY <1>1
  <1>3. Probe!TypeOK'
    BY <1>2 DEF Probe!TypeOK, ProbeRuns, Platform, Entries
  <1>4. \A q \in Runs \ {p} : Moded(probe[q])'
    BY <1>1 DEF ProbeInv, Moded, Mine
  <1>5. \A q \in Runs \ {p} : Reach(probe[q])'
    BY <1>1 DEF ProbeInv, Reach, Entries, Mine
  <1>6. \A q, o \in Runs : probe'[q].alone /\ q # o => probe'[o].pc \in Probe!Rest /\ ~probe'[o].alone
    BY <1>1 DEF ProbeInv
  <1>7. \A q \in Runs : probe'[q].pc \notin {"measured", "destroy"} => \A g \in grants' : g.on # q
    BY <1>1 DEF ProbeInv
  <1>8. \A q \in Runs : probe'[q].alone => ProbeFit(probe[q])'
    BY <1>1
  <1>9. (\A r \in roles' : r.id <= numbered'[r.vc]) /\ \A o \in own' : o.id <= numbered'[o.vc]
    BY DEF Platform
  <1> QED BY <1>3, <1>4, <1>5, <1>6, <1>7, <1>8, <1>9 DEF ProbeInv

\* The record stands while roles go, change or are made by others, and the ledger is written as the run loaded it.
LEMMA ProbeRecordStays ==
  ASSUME ProbeInv, Together <= 1, NEW p \in Runs, probe[p].pc \notin Probe!Rest, Turns(p),
         UNCHANGED <<own, roleTorn>>, ledger' \in {ledger, probe[p].led}, probe'[p].led = probe[p].led,
         probe[p].pc # "record", probe'[p].pc # "record",
         \A r \in roles' : Mine(r.vc, r.id) => \E s \in roles : Probe!EntryOf(s) = Probe!EntryOf(r),
         Kept(probe[p])'
  PROVE  ProbeRecord'
  <1> USE ProbeHave DEF Turns
  <1>1. ProbeRecord
    BY DEF ProbeInv
  <1>2. \A q \in Runs \ {p} : probe'[q] = probe[q] /\ probe[q].pc \in Probe!Rest
    BY <1>1 DEF ProbeRecord
  <1>3. \A q \in Runs : probe[q].pc # "record" /\ probe'[q].pc # "record"
    BY <1>2 DEF Probe!Rest, Probe!Exits
  <1>4. ASSUME ~roleTorn, NEW r \in roles', Mine(r.vc, r.id)
        PROVE  Probe!EntryOf(r) \in ledger /\ Probe!EntryOf(r) \in probe[p].led
    <2>1. PICK s \in roles : Probe!EntryOf(s) = Probe!EntryOf(r)
      BY <1>4
    <2>2. s.vc = r.vc /\ s.id = r.id
      BY <2>1 DEF Probe!EntryOf
    <2>3. Entered(ledger, s) /\ Entered(probe[p].led, s)
      BY <1>1, <1>4, <2>2 DEF ProbeRecord
    <2> QED BY <1>3, <2>1, <2>3 DEF Entered
  <1>5. ASSUME ~roleTorn', NEW r \in roles', Mine(r.vc, r.id)'
        PROVE  Entered(ledger, r)' /\ \A q \in Runs : probe'[q].pc \notin Probe!Rest => Entered(probe[q].led, r)'
    <2>1. Mine(r.vc, r.id) /\ ~roleTorn
      BY <1>5 DEF Mine
    <2>2. Probe!EntryOf(r) \in ledger' /\ Probe!EntryOf(r) \in probe'[p].led
      BY <1>4, <2>1
    <2>3. \A q \in Runs : probe'[q].pc \notin Probe!Rest => q = p
      BY <1>2
    <2> QED BY <2>2, <2>3 DEF Entered
  <1>6. \A q \in Runs : Kept(probe[q])'
    BY <1>2 DEF Kept, Probe!Rest, Probe!Exits
  <1>7. \A q, o \in Runs : probe'[q].pc \notin Probe!Rest /\ probe'[o].pc \notin Probe!Rest => q = o
    BY <1>2
  <1> QED BY <1>5, <1>6, <1>7 DEF ProbeRecord

\* The run of an action is not at rest.
LEMMA ProbeAt ==
  ASSUME ProbeInv, NEW p \in Runs, Probe!Step(p) \/ Probe!Dies(p)
  PROVE  probe[p].pc \notin Probe!Rest
  BY DEF Probe!Step, Probe!Looks, Probe!Plans, Probe!Presaves, Probe!Ensures, Probe!Records, Probe!Folder, Probe!Grants,
       Probe!TakesBack, Probe!Destroys, Probe!Residue, Probe!NextHost, Probe!Refuses, Probe!Drops, Probe!Forgets,
       Probe!Claims, Probe!Dies, Probe!At, Probe!Busy, Probe!Rest, Probe!Exits

\* The steps of a probe, other than the entry of a role it made.
LEMMA ProbeGoesOn ==
  ASSUME ProbeInv, NEW p \in Runs, probe[p].mode = "probe", probe[p].pc \in Probe!ProbeSteps \ {"record"}, Turns(p),
         probe'[p].mode = "probe", probe'[p].led = probe[p].led, probe'[p].alone = probe[p].alone,
         probe'[p].pc \in (Probe!ProbeSteps \ {"record"}) \cup {"exit0", "exit2", "exit3"},
         probe'[p].pc = "exit0" /\ probe[p].alone => Probe!GrantsOfOurs(ledger, probe[p].vc)' = {},
         \A r \in probe'[p].listed : Mine(r.vc, r.id),
         Platform', UNCHANGED <<own, roleOthers, roleTorn>>, ledger' \in {ledger, probe[p].led},
         roleFaults' \in 0 .. MaxFaults,
         \A r \in roles' : Mine(r.vc, r.id) => \E s \in roles : Probe!EntryOf(s) = Probe!EntryOf(r),
         \A g \in grants' : g.on \in Runs \ {p} => \E h \in grants : h.on = g.on,
         probe'[p].pc \notin {"measured", "destroy"} => \A g \in grants' : g.on # p
  PROVE  ProbeInv'
  <1> USE ProbeHave
  <1>1. probe[p].pc \notin Probe!Rest
    BY DEF Probe!ProbeSteps, Probe!Rest, Probe!Exits
  <1>2. Entries(ledger)' /\ Entries(probe[p].led)'
    BY DEF ProbeInv, Reach, Entries, Mine
  <1>3. Moded(probe[p])' /\ Reach(probe[p])'
    BY <1>2 DEF Moded, Reach, Mine, Probe!ProbeSteps, Probe!RemoveSteps
  <1>4. Kept(probe[p])'
    BY DEF Kept, Probe!ProbeSteps
  <1>5. probe'[p].alone => ProbeFit(probe[p])'
    BY DEF ProbeInv, ProbeFit, Probe!ProbeSteps
  <1>6. Together <= 1 => ProbeRecord'
    BY <1>1, <1>4, ProbeRecordStays DEF Probe!ProbeSteps
  <1> QED BY <1>1, <1>2, <1>3, <1>5, <1>6, ProbeMoves

LEMMA ProbeFaults == ProbeInv /\ (Probe!Sound \/ Probe!Fault) => roleFaults' \in 0 .. MaxFaults
  BY ProbeHave DEF Probe!Sound, Probe!Fault

\* Nothing is sent.
LEMMA ProbeCalm ==
  ASSUME ProbeInv, UNCHANGED <<roles, grants, numbered, own>>
  PROVE  Platform' /\ \A q \in Runs : probe[q].pc \notin {"measured", "destroy"} => \A g \in grants' : g.on # q
  BY ProbeHave DEF Platform, ProbeInv

LEMMA ProbeAborts ==
  ASSUME probe \in [Runs -> ProbeRuns], NEW p \in Runs, Probe!Aborts(p)
  PROVE  Turns(p) /\ Stays(p) /\ probe'[p].pc = "residue"
  <1> DEFINE k == [probe[p] EXCEPT !.pc = "residue", !.unread = TRUE]
  <1>1. probe[p] \in ProbeRuns /\ probe[p].held \in BOOLEAN
    BY DEF ProbeRuns
  <1>2. k = [probe[p] EXCEPT !.pc = "residue", !.held = probe[p].held, !.unread = TRUE]
    BY <1>1 DEF ProbeRuns
  <1>3. Probe!Knows(p, k)
    BY DEF Probe!Aborts
  <1>4. "residue" \in AllSteps
    BY DEF AllSteps, Probe!ProbeSteps
  <1> HIDE DEF k
  <1> QED BY <1>1, <1>2, <1>3, <1>4, ProbeGivesUp

LEMMA ProbeStops ==
  ASSUME probe \in [Runs -> ProbeRuns], NEW p \in Runs, Probe!Stops(p)
  PROVE  Turns(p) /\ Stays(p) /\ probe'[p].pc = "destroy"
  <1> DEFINE k == [probe[p] EXCEPT !.pc = "destroy", !.unread = TRUE]
  <1>1. probe[p] \in ProbeRuns /\ probe[p].held \in BOOLEAN
    BY DEF ProbeRuns
  <1>2. k = [probe[p] EXCEPT !.pc = "destroy", !.held = probe[p].held, !.unread = TRUE]
    BY <1>1 DEF ProbeRuns
  <1>3. Probe!Knows(p, k)
    BY DEF Probe!Stops
  <1>4. "destroy" \in AllSteps
    BY DEF AllSteps, Probe!ProbeSteps
  <1> HIDE DEF k
  <1> QED BY <1>1, <1>2, <1>3, <1>4, ProbeGivesUp

LEMMA ProbeOf ==
  ASSUME ProbeInv, NEW p \in Runs, probe[p].pc \in Probe!ProbeSteps \ {"record"}
  PROVE  probe[p].mode = "probe" /\ probe[p] \in ProbeRuns /\ \A r \in probe[p].listed : Mine(r.vc, r.id)
  BY ProbeHave DEF ProbeInv, Moded, Reach

LEMMA ProbeLooks ==
  ASSUME ProbeInv, NEW p \in Runs, Probe!Looks(p) PROVE ProbeInv'
  <1> USE ProbeHave
  <1>1. probe[p].pc = "look" /\ probe[p].pc \in Probe!ProbeSteps \ {"record"}
    BY DEF Probe!Looks, Probe!At, Probe!ProbeSteps
  <1>2. UNCHANGED <<roles, grants, numbered, ledger, own, roleOthers, roleTorn>>
    BY DEF Probe!Looks, Probe!VCenter, Probe!Rests
  <1>3. roleFaults' \in 0 .. MaxFaults
    BY ProbeFaults DEF Probe!Looks
  <1>4. Turns(p) /\ Stays(p) /\ probe'[p].pc \in {"residue", "plan"}
    <2>1. CASE Probe!Aborts(p)
      BY <2>1, ProbeAborts
    <2>2. CASE Probe!Goes(p, "plan")
      BY <2>2, ProbeGoes DEF AllSteps, Probe!ProbeSteps, Steady
    <2> QED BY <2>1, <2>2 DEF Probe!Looks
  <1> QED BY <1>1, <1>2, <1>3, <1>4, ProbeOf, ProbeCalm, ProbeGoesOn DEF Stays, Probe!ProbeSteps

\* What is the ledger's of a list is this script's.
LEMMA ProbeCounted ==
  ASSUME NEW led, Entries(led), NEW v, NEW set, NEW r \in Probe!Counted(led, v, set), r.vc = v
  PROVE  Mine(r.vc, r.id) /\ Probe!EntryOf(r) \in led
  <1>1. PICK e \in led : e.vc = v /\ e.name = r.name /\ e.id = r.id
    BY DEF Probe!Counted, Probe!Ours
  <1>2. e = [vc |-> r.vc, name |-> r.name, id |-> r.id]
    BY <1>1 DEF Entries, Probe!Entry
  <1> QED BY <1>1, <1>2 DEF Entries, Probe!EntryOf

LEMMA ProbePlans ==
  ASSUME ProbeInv, NEW p \in Runs, Probe!Plans(p) PROVE ProbeInv'
  <1> USE ProbeHave
  <1> DEFINE named == {r \in Probe!On(probe[p].vc) : r.name \in probe[p].need}
             pc == IF \A n \in probe[p].need : \E r \in named : r.name = n THEN "ensure" ELSE "presave"
  <1>1. probe[p].pc = "plan" /\ probe[p].pc \in Probe!ProbeSteps \ {"record"} /\ probe[p] \in ProbeRuns
    BY DEF Probe!Plans, Probe!At, Probe!ProbeSteps
  <1>2. UNCHANGED <<roles, grants, numbered, ledger, own, roleOthers, roleTorn>>
    BY DEF Probe!Plans, Probe!VCenter, Probe!Rests
  <1>3. roleFaults' \in 0 .. MaxFaults
    BY ProbeFaults DEF Probe!Plans
  <1>4. CASE Probe!Aborts(p)
    <2>1. Turns(p) /\ Stays(p) /\ probe'[p].pc = "residue"
      BY <1>4, ProbeAborts
    <2> QED BY <1>1, <1>2, <1>3, <2>1, ProbeOf, ProbeCalm, ProbeGoesOn DEF Stays, Probe!ProbeSteps
  <1>5. CASE /\ named = Probe!Counted(probe[p].led, probe[p].vc, named)
             /\ Probe!Knows(p, [probe[p] EXCEPT !.listed = named, !.pc = pc])
    <2> DEFINE k == [probe[p] EXCEPT !.listed = named, !.pc = pc]
    <2>1. named \in SUBSET Probe!Role /\ pc \in {"ensure", "presave"} /\ pc \in AllSteps
          /\ \A r \in named : r.vc = probe[p].vc
      BY DEF Platform, Probe!On, AllSteps, Probe!ProbeSteps
    <2>2. Probe!Knows(p, k)
      BY <1>5
    <2>6. \A r \in named : r \in Probe!Counted(probe[p].led, probe[p].vc, named)
      BY <1>5
    <2> HIDE DEF named, pc
    <2>3. /\ k \in ProbeRuns /\ k.pc = pc /\ k.listed = named /\ k.mode = probe[p].mode /\ k.led = probe[p].led
          /\ k.alone = probe[p].alone
      BY <1>1, <2>1 DEF ProbeRuns, AllSteps
    <2> HIDE DEF k
    <2>4. Turns(p) /\ probe'[p] = k
      BY <2>2, <2>3, ProbeKnows
    <2>5. \A r \in probe'[p].listed : Mine(r.vc, r.id)
      <3>1. Entries(probe[p].led)
        BY DEF ProbeInv, Reach
      <3> QED BY <2>1, <2>3, <2>4, <2>6, <3>1, ProbeCounted
    <2> QED BY <1>1, <1>2, <1>3, <2>1, <2>3, <2>4, <2>5, ProbeOf, ProbeCalm, ProbeGoesOn DEF Probe!ProbeSteps
  <1> QED BY <1>4, <1>5 DEF Probe!Plans

LEMMA ProbePresaves ==
  ASSUME ProbeInv, NEW p \in Runs, Probe!Presaves(p) PROVE ProbeInv'
  <1> USE ProbeHave
  <1>1. probe[p].pc = "presave" /\ probe[p].pc \in Probe!ProbeSteps \ {"record"}
    BY DEF Probe!Presaves, Probe!At, Probe!ProbeSteps
  <1>2. UNCHANGED <<roles, grants, numbered, own, roleOthers, roleTorn>> /\ ledger' \in {ledger, probe[p].led}
    BY DEF Probe!Presaves, Probe!VCenter, Probe!Rests
  <1>3. roleFaults' \in 0 .. MaxFaults
    BY ProbeFaults DEF Probe!Presaves
  <1>4. Turns(p) /\ Stays(p) /\ probe'[p].pc \in {"residue", "ensure"}
    <2>1. CASE Probe!Aborts(p)
      BY <2>1, ProbeAborts
    <2>2. CASE Probe!Goes(p, "ensure")
      BY <2>2, ProbeGoes DEF AllSteps, Probe!ProbeSteps, Steady
    <2> QED BY <2>1, <2>2 DEF Probe!Presaves
  <1> QED BY <1>1, <1>2, <1>3, <1>4, ProbeOf, ProbeCalm, ProbeGoesOn DEF Stays, Probe!ProbeSteps

LEMMA ProbeFolder ==
  ASSUME ProbeInv, NEW p \in Runs, Probe!Folder(p) PROVE ProbeInv'
  <1> USE ProbeHave
  <1>1. probe[p].pc = "folder" /\ probe[p].pc \in Probe!ProbeSteps \ {"record"} /\ probe[p] \in ProbeRuns
    BY DEF Probe!Folder, Probe!At, Probe!ProbeSteps
  <1>2. UNCHANGED <<roles, grants, numbered, ledger, own, roleOthers, roleTorn>>
    BY DEF Probe!Folder, Probe!VCenter, Probe!Rests
  <1>3. roleFaults' \in 0 .. MaxFaults
    BY ProbeFaults DEF Probe!Folder
  <1>4. Turns(p) /\ Stays(p) /\ probe'[p].pc \in {"residue", "cases"}
    <2>1. CASE Probe!Goes(p, "cases")
      BY <2>1, ProbeGoes DEF AllSteps, Probe!ProbeSteps, Steady
    <2>2. ASSUME NEW held0 \in BOOLEAN,
                 Probe!Knows(p, [probe[p] EXCEPT !.pc = "residue", !.unread = TRUE, !.held = held0])
          PROVE  Turns(p) /\ Stays(p) /\ probe'[p].pc = "residue"
      <3> DEFINE k == [probe[p] EXCEPT !.pc = "residue", !.unread = TRUE, !.held = held0]
      <3>1. k = [probe[p] EXCEPT !.pc = "residue", !.held = held0, !.unread = TRUE]
        BY <1>1 DEF ProbeRuns
      <3>2. Probe!Knows(p, k) /\ "residue" \in AllSteps
        BY <2>2 DEF AllSteps, Probe!ProbeSteps
      <3> HIDE DEF k
      <3> QED BY <3>1, <3>2, ProbeGivesUp
    <2> QED BY <2>1, <2>2 DEF Probe!Folder
  <1> QED BY <1>1, <1>2, <1>3, <1>4, ProbeOf, ProbeCalm, ProbeGoesOn DEF Stays, Probe!ProbeSteps

LEMMA ProbeGrants ==
  ASSUME ProbeInv, NEW p \in Runs, Probe!Grants(p) PROVE ProbeInv'
  <1> USE ProbeHave
  <1>1. probe[p].pc = "cases" /\ probe[p].pc \in Probe!ProbeSteps \ {"record"} /\ probe[p] \in ProbeRuns
    BY DEF Probe!Grants, Probe!At, Probe!ProbeSteps
  <1>2. UNCHANGED <<roles, numbered, ledger, own, roleOthers, roleTorn>>
    BY DEF Probe!Grants, Probe!Rests
  <1>3. roleFaults' \in 0 .. MaxFaults
    BY ProbeFaults DEF Probe!Grants
  <1>4. CASE UNCHANGED grants /\ (Probe!Goes(p, "destroy") \/ Probe!Stops(p))
    <2>1. Turns(p) /\ Stays(p) /\ probe'[p].pc = "destroy"
      BY <1>4, ProbeStops, ProbeGoes DEF AllSteps, Probe!ProbeSteps, Steady
    <2> QED BY <1>1, <1>2, <1>3, <1>4, <2>1, ProbeOf, ProbeCalm, ProbeGoesOn DEF Stays, Probe!ProbeSteps
  <1>5. ASSUME NEW i \in probe[p].ids, \E r \in Probe!On(probe[p].vc) : r.id = i,
               grants' = grants \cup {[vc |-> probe[p].vc, id |-> i, on |-> p]},
               Probe!Goes(p, "measured") \/ Probe!Stops(p)
        PROVE  ProbeInv'
    <2> DEFINE new == [vc |-> probe[p].vc, id |-> i, on |-> p]
    <2>1. Turns(p) /\ Stays(p) /\ probe'[p].pc \in {"measured", "destroy"}
      BY <1>5, ProbeGoes, ProbeStops DEF AllSteps, Probe!ProbeSteps, Steady
    <2>2. new \in Probe!Grant /\ new.on = p /\ grants' = grants \cup {new}
          /\ \E r \in roles : r.vc = new.vc /\ r.id = new.id
      BY <1>1, <1>5 DEF Probe!Grant, ProbeRuns, Probe!On
    <2> HIDE DEF new
    <2>3. Platform' /\ \A g \in grants' : g \in grants \/ g.on = p
      BY <1>2, <2>2 DEF Platform
    <2> QED BY <1>1, <1>2, <1>3, <2>1, <2>3, ProbeOf, ProbeGoesOn DEF Stays, Probe!ProbeSteps
  <1> QED BY <1>4, <1>5 DEF Probe!Grants

LEMMA ProbeTakesBack ==
  ASSUME ProbeInv, NEW p \in Runs, Probe!TakesBack(p) PROVE ProbeInv'
  <1> USE ProbeHave
  <1>1. probe[p].pc = "measured" /\ probe[p].pc \in Probe!ProbeSteps \ {"record"}
    BY DEF Probe!TakesBack, Probe!At, Probe!ProbeSteps
  <1>2. UNCHANGED <<roles, numbered, ledger, own, roleOthers, roleTorn>> /\ grants' \subseteq grants
    BY DEF Probe!TakesBack, Probe!Rests
  <1>3. roleFaults' \in 0 .. MaxFaults
    BY ProbeFaults DEF Probe!TakesBack
  <1>4. /\ Turns(p) /\ Stays(p) /\ probe'[p].pc \in {"cases", "destroy"}
        /\ probe'[p].pc = "cases" => \A g \in grants' : g.on # p
    <2>1. CASE Probe!Goes(p, "cases") /\ grants' = {g \in grants : g.on # p}
      BY <2>1, ProbeGoes DEF AllSteps, Probe!ProbeSteps, Steady
    <2>2. CASE Probe!Stops(p)
      BY <2>2, ProbeStops
    <2> QED BY <2>1, <2>2 DEF Probe!TakesBack
  <1>5. Platform'
    BY <1>2 DEF Platform
  <1> QED BY <1>1, <1>2, <1>3, <1>4, <1>5, ProbeOf, ProbeGoesOn DEF Stays, Probe!ProbeSteps

\* What is left on a folder that stays.
LEMMA ProbeLeft ==
  ASSUME ProbeInv, NEW p \in Runs, grants' = Probe!Left(p), UNCHANGED <<roles, numbered, own>>
  PROVE  /\ Platform' /\ \A g \in grants' : g.on # p
         /\ \A g \in grants' : g.on \in Runs => g \in grants
         /\ \A g \in grants' : \E h \in grants : g.vc = h.vc /\ g.id = h.id
  <1> USE ProbeHave, ProbeNumbers
  <1>1. \A g \in grants : [g EXCEPT !.on = "left"] = [vc |-> g.vc, id |-> g.id, on |-> "left"]
    BY DEF Platform, Probe!Grant
  <1>2. \A x \in grants' : \E g \in grants : (g.on = p /\ x = [g EXCEPT !.on = "left"]) \/ (g.on # p /\ x = g)
    BY Zenon DEF Probe!Left
  <1>3. \A x \in grants' : \E g \in grants : \/ g.on = p /\ x = [vc |-> g.vc, id |-> g.id, on |-> "left"]
                                             \/ g.on # p /\ x = g
    BY <1>1, <1>2
  <1>4. \A g \in grants : [vc |-> g.vc, id |-> g.id, on |-> "left"] \in Probe!Grant
    BY DEF Platform, Probe!Grant
  <1>5. grants' \subseteq Probe!Grant /\ \A x \in grants' : \E g \in grants : x.vc = g.vc /\ x.id = g.id
    BY <1>3, <1>4 DEF Platform
  <1>6. Platform'
    BY <1>5 DEF Platform
  <1>7. \A x \in grants' : x.on = "left" \/ (x \in grants /\ x.on # p)
    BY <1>3
  <1> QED BY <1>5, <1>6, <1>7

LEMMA ProbeDestroys ==
  ASSUME ProbeInv, NEW p \in Runs, Probe!Destroys(p) PROVE ProbeInv'
  <1> USE ProbeHave
  <1>1. probe[p].pc = "destroy" /\ probe[p].pc \in Probe!ProbeSteps \ {"record"} /\ probe[p] \in ProbeRuns
        /\ probe[p].unread \in BOOLEAN
    BY DEF Probe!Destroys, Probe!At, Probe!ProbeSteps, ProbeRuns
  <1>2. UNCHANGED <<roles, numbered, ledger, own, roleOthers, roleTorn>>
    BY DEF Probe!Destroys, Probe!Rests
  <1>3. roleFaults' \in 0 .. MaxFaults
    BY ProbeFaults DEF Probe!Destroys
  <1>4. Turns(p) /\ Stays(p) /\ probe'[p].pc = "residue"
    <2>1. CASE Probe!Goes(p, "residue")
      BY <2>1, ProbeGoes DEF AllSteps, Probe!ProbeSteps, Steady
    <2>2. CASE Probe!Knows(p, [probe[p] EXCEPT !.pc = "residue", !.held = TRUE])
      <3> DEFINE k == [probe[p] EXCEPT !.pc = "residue", !.held = TRUE]
      <3>1. k = [probe[p] EXCEPT !.pc = "residue", !.held = TRUE, !.unread = probe[p].unread]
        BY <1>1 DEF ProbeRuns
      <3>2. Probe!Knows(p, k) /\ "residue" \in AllSteps
        BY <2>2 DEF AllSteps, Probe!ProbeSteps
      <3> HIDE DEF k
      <3> QED BY <1>1, <3>1, <3>2, ProbeGivesUp
    <2> QED BY <2>1, <2>2 DEF Probe!Destroys
  <1>5. Platform' /\ (\A g \in grants' : g.on # p) /\ (\A g \in grants' : g.on \in Runs => g \in grants)
    <2>1. CASE grants' = {g \in grants : g.on # p}
      BY <1>2, <2>1 DEF Platform
    <2>2. CASE grants' = Probe!Left(p)
      BY <1>2, <2>2, ProbeLeft
    <2> QED BY <2>1, <2>2 DEF Probe!Destroys
  <1> QED BY <1>1, <1>2, <1>3, <1>4, <1>5, ProbeOf, ProbeGoesOn DEF Stays, Probe!ProbeSteps

LEMMA ProbeResidue ==
  ASSUME ProbeInv, NEW p \in Runs, Probe!Residue(p) PROVE ProbeInv'
  <1> USE ProbeHave
  <1>1. probe[p].pc = "residue" /\ probe[p].pc \in Probe!ProbeSteps \ {"record"}
    BY DEF Probe!Residue, Probe!At, Probe!ProbeSteps
  <1>2. UNCHANGED <<roles, grants, numbered, ledger, own, roleOthers, roleTorn>>
    BY DEF Probe!Residue, Probe!VCenter, Probe!Rests
  <1>3. roleFaults' \in 0 .. MaxFaults
    BY ProbeFaults DEF Probe!Residue
  <1>4. PICK code \in {"exit0", "exit2", "exit3"} :
          Probe!Goes(p, code) /\ (code = "exit0" => Probe!GrantsOfOurs(probe[p].led, probe[p].vc) = {})
    BY DEF Probe!Residue
  <1>5. Turns(p) /\ Stays(p) /\ probe'[p].pc = code
    BY <1>4, ProbeGoes DEF AllSteps, Probe!Rest, Probe!Exits, Steady
  <1>6. code = "exit0" /\ probe[p].alone => Probe!GrantsOfOurs(ledger, probe[p].vc)' = {}
    <2>1. probe[p].alone => probe[p].led = ledger
      BY <1>1, ProbeOf DEF ProbeInv, ProbeFit
    <2> QED BY <1>2, <1>4, <1>5, <2>1 DEF Probe!GrantsOfOurs, Probe!Counted, Probe!On, Probe!Ours, Stays
  <1> QED BY <1>1, <1>2, <1>3, <1>4, <1>5, <1>6, ProbeOf, ProbeCalm, ProbeGoesOn DEF Stays, Probe!ProbeSteps

\* A role of a number nobody has had.
LEMMA ProbeNewRole ==
  ASSUME ProbeInv, NEW r \in Probe!Role, r.id = numbered[r.vc] + 1, \A s \in roles : s.vc = r.vc => s.name # r.name,
         roles' = roles \cup {r}, numbered' = [numbered EXCEPT ![r.vc] = r.id], UNCHANGED grants,
         own' \in {own, own \cup {[vc |-> r.vc, id |-> r.id]}}
  PROVE  Platform' /\ ~Mine(r.vc, r.id) /\ \A s \in roles : s.vc = r.vc => s.id # r.id
  <1> USE ProbeHave
  <1>1. r.vc \in VCs /\ r.id \in 1 .. MaxRoles /\ numbered[r.vc] \in Nat /\ numbered[r.vc] < r.id
    BY DEF Platform, Probe!Role
  <1>2. \A s \in roles : s.vc = r.vc => s.id < r.id
    BY <1>1 DEF Platform, Probe!Role
  <1>3. \A o \in own : o.vc = r.vc => o.id < r.id
    BY <1>1 DEF Platform
  <1>4. ~Mine(r.vc, r.id)
    BY <1>1, <1>3 DEF Mine
  <1>5. /\ numbered' \in [VCs -> 0 .. MaxRoles] /\ numbered'[r.vc] = r.id
        /\ \A v \in VCs : v # r.vc => numbered'[v] = numbered[v]
    BY <1>1 DEF Platform
  <1>6. \A s \in roles' : s.id <= numbered'[s.vc]
    <2>1. \A s \in roles : s.vc \in VCs /\ s.id \in Nat /\ s.id <= numbered[s.vc]
      BY DEF Platform, Probe!Role
    <2> QED BY <1>1, <1>2, <1>5, <2>1
  <1>7. own' \subseteq [vc : VCs, id : 1 .. MaxRoles] /\ \A o \in own' : o.id <= numbered'[o.vc]
    <2> DEFINE new == [vc |-> r.vc, id |-> r.id]
    <2>1. new \in [vc : VCs, id : 1 .. MaxRoles] /\ new.vc = r.vc /\ new.id = r.id
      BY <1>1
    <2>2. own' \in {own, own \cup {new}}
      OBVIOUS
    <2>3. \A o \in own : o.vc \in VCs /\ o.id \in Nat /\ o.id <= numbered[o.vc]
      BY DEF Platform
    <2> HIDE DEF new
    <2>4. own' \subseteq [vc : VCs, id : 1 .. MaxRoles]
      BY <2>1, <2>2 DEF Platform
    <2> QED BY <1>1, <1>3, <1>5, <2>1, <2>2, <2>3, <2>4
  <1>8. \A s, t \in roles' : s.vc = t.vc /\ (s.name = t.name \/ s.id = t.id) => s = t
    <2>1. \A s \in roles : s.vc = r.vc => s.id # r.id
      BY <1>1, <1>2 DEF Platform, Probe!Role
    <2> QED BY <2>1 DEF Platform
  <1>9. \A g \in grants' : \E s \in roles' : s.vc = g.vc /\ s.id = g.id
    BY DEF Platform
  <1>10. roles' \subseteq Probe!Role /\ grants' \subseteq Probe!Grant
    BY DEF Platform
  <1> QED BY <1>1, <1>2, <1>4, <1>5, <1>6, <1>7, <1>8, <1>9, <1>10 DEF Platform, Probe!Role

LEMMA ProbeMakes ==
  ASSUME ProbeInv, NEW p \in Runs, probe[p].pc = "ensure", UNCHANGED <<grants, ledger, roleOthers, roleTorn>>,
         NEW n \in probe[p].need, Probe!Makes(p, n)
  PROVE  ProbeInv'
  <1> USE ProbeHave
  <1> DEFINE v == probe[p].vc
             i == numbered[v] + 1
  <1>8. PICK r : r = [vc |-> v, name |-> n, id |-> i, fits |-> TRUE]
    OBVIOUS
  <1>1. probe[p].pc \in Probe!ProbeSteps \ {"record"} /\ probe[p] \in ProbeRuns /\ probe[p].pc \notin Probe!Rest
        /\ v \in VCs /\ n \in Names
    BY DEF Probe!ProbeSteps, Probe!Rest, Probe!Exits, ProbeRuns
  <1>3. roleFaults' \in 0 .. MaxFaults
    BY ProbeFaults DEF Probe!Makes
  <1>4. CASE UNCHANGED <<roles, numbered, own>> /\ Probe!Aborts(p)
    <2>1. Turns(p) /\ Stays(p) /\ probe'[p].pc = "residue"
      BY <1>4, ProbeAborts
    <2> QED BY <1>1, <1>3, <1>4, <2>1, ProbeOf, ProbeCalm, ProbeGoesOn DEF Stays, Probe!ProbeSteps
  <1>5. ASSUME ~\E s \in Probe!On(v) : s.name = n, i <= MaxRoles, roles' = roles \cup {r},
               numbered' = [numbered EXCEPT ![v] = i], own' \in {own, own \cup {[vc |-> v, id |-> i]}}
        PROVE  /\ r \in Probe!Role /\ r.vc = v /\ r.name = n /\ r.id = i /\ i \in 1 .. MaxRoles
               /\ Platform' /\ ~Mine(r.vc, r.id)
               /\ \A s \in roles : s.vc = r.vc => s.id # r.id /\ s.name # r.name
    <2>1. i \in 1 .. MaxRoles /\ i = numbered[v] + 1
      BY <1>1, <1>5 DEF Platform
    <2>2. r \in Probe!Role /\ r.vc = v /\ r.name = n /\ r.id = i
      BY <1>1, <1>8, <2>1 DEF Probe!Role
    <2>3. \A s \in roles : s.vc = v => s.name # n
      BY <1>5 DEF Probe!On
    <2> HIDE DEF i, v
    <2> QED BY <1>5, <2>1, <2>2, <2>3, ProbeNewRole
  <1>6. CASE /\ ~(\E s \in Probe!On(v) : s.name = n) /\ i <= MaxRoles /\ roles' = roles \cup {r}
             /\ numbered' = [numbered EXCEPT ![v] = i] /\ UNCHANGED own /\ Probe!Aborts(p)
    <2>1. Turns(p) /\ Stays(p) /\ probe'[p].pc = "residue"
      BY <1>6, ProbeAborts
    <2>2. Platform' /\ ~Mine(r.vc, r.id)
      BY <1>5, <1>6
    <2>3. \A s \in roles' : Mine(s.vc, s.id) => s \in roles
      <3>1. roles' = roles \cup {r}
        BY <1>6
      <3> QED BY <2>2, <3>1
    <2>4. \A q \in Runs : probe[q].pc \notin {"measured", "destroy"} => \A g \in grants' : g.on # q
      BY DEF ProbeInv
    <2> HIDE DEF i, v
    <2> QED BY <1>1, <1>3, <1>6, <2>1, <2>2, <2>3, <2>4, ProbeOf, ProbeGoesOn DEF Stays, Probe!ProbeSteps
  <1>7. CASE /\ ~(\E s \in Probe!On(v) : s.name = n) /\ i <= MaxRoles /\ roles' = roles \cup {r}
             /\ numbered' = [numbered EXCEPT ![v] = i] /\ own' = own \cup {[vc |-> v, id |-> i]}
             /\ Probe!Knows(p, [probe[p] EXCEPT !.pc = Probe!OnceMade(p), !.new = r, !.need = @ \ {n}, !.ids = @ \cup {i}])
    <2>1. /\ r \in Probe!Role /\ r.vc = v /\ r.name = n /\ r.id = i /\ i \in 1 .. MaxRoles
          /\ Platform' /\ ~Mine(r.vc, r.id)
          /\ \A s \in roles : s.vc = r.vc => s.id # r.id /\ s.name # r.name
      BY <1>5, <1>7
    <2> DEFINE need == probe[p].need \ {n}
               ids == probe[p].ids \cup {i}
               k == [probe[p] EXCEPT !.pc = "record", !.new = r, !.need = need, !.ids = ids]
    <2>2. Probe!Knows(p, k)
      BY <1>7 DEF Probe!OnceMade
    <2>3. need \in SUBSET Names /\ ids \in SUBSET (1 .. MaxRoles) /\ "record" \in Probe!ProbeSteps
      BY <1>1, <2>1 DEF ProbeRuns, Probe!ProbeSteps
    <2>8. roles' = roles \cup {r} /\ own' = own \cup {[vc |-> r.vc, id |-> r.id]}
      <3>1. v = r.vc /\ i = r.id
        BY <1>8
      <3> HIDE DEF v, i
      <3> QED BY <1>7, <3>1
    <2> HIDE DEF need, ids, i, v
    <2>4. /\ k \in ProbeRuns /\ k.pc = "record" /\ k.new = r /\ k.mode = probe[p].mode /\ k.led = probe[p].led
          /\ k.listed = probe[p].listed /\ k.alone = probe[p].alone
      BY <1>1, <2>1, <2>3 DEF ProbeRuns
    <2> HIDE DEF k
    <2>5. Turns(p) /\ probe'[p] = k
      BY <2>2, <2>4, ProbeKnows
    <2>6. own \subseteq own' /\ Mine(r.vc, r.id)'
      BY <2>8 DEF Mine
    <2>7. Entries(ledger)' /\ Entries(probe[p].led)'
      BY <2>4, <2>5, <2>6 DEF ProbeInv, Reach, Entries, Mine
    <2>9. Moded(probe[p])'
      BY <1>1, <2>1, <2>4, <2>5, <2>6, ProbeOf DEF Moded, Mine, Probe!RemoveSteps
    <2>10. Reach(probe[p])'
      BY <1>1, <2>4, <2>5, <2>6, <2>7, ProbeOf DEF Reach, Mine
    <2>11. probe'[p].alone => probe[p].alone /\ ProbeFit(probe[p])'
      BY <1>1, <2>4, <2>5, ProbeOf DEF ProbeInv, ProbeFit
    <2>12. ASSUME Together <= 1 PROVE ProbeRecord'
      <3>1. ProbeRecord
        BY <2>12 DEF ProbeInv
      <3>2. \A q \in Runs \ {p} : probe'[q] = probe[q] /\ probe[q].pc \in Probe!Rest
        BY <1>1, <2>5, <3>1 DEF ProbeRecord, Turns
      <3>3. \A q \in Runs : probe[q].pc # "record"
        BY <1>1, <3>2 DEF Probe!Rest, Probe!Exits
      <3>4. ASSUME NEW s \in roles', Mine(s.vc, s.id)'
            PROVE  s = r \/ (s \in roles /\ Mine(s.vc, s.id) /\ (s.vc = r.vc => s.name # r.name))
        <4>1. s \in roles => Mine(s.vc, s.id)
          BY <2>1, <2>8, <3>4 DEF Mine
        <4> QED BY <2>1, <2>8, <4>1
      <3>5. \A s : Probe!EntryOf(s) = Probe!EntryOf(probe'[p].new) => \A led : Entered(led, s)'
        BY <2>4, <2>5 DEF Entered
      <3>6. ASSUME ~roleTorn', NEW s \in roles', Mine(s.vc, s.id)'
            PROVE  /\ Entered(ledger, s)'
                   /\ \A q \in Runs : probe'[q].pc \notin Probe!Rest => Entered(probe[q].led, s)'
        <4>1. CASE s = r
          BY <2>4, <2>5, <4>1 DEF Entered
        <4>2. CASE s \in roles /\ Mine(s.vc, s.id)
          <5>1. Entered(ledger, s) /\ Entered(probe[p].led, s)
            BY <1>1, <3>1, <3>6, <4>2 DEF ProbeRecord
          <5>2. Probe!EntryOf(s) \in ledger /\ Probe!EntryOf(s) \in probe[p].led
            BY <3>3, <5>1 DEF Entered
          <5> QED BY <2>4, <2>5, <3>2, <5>2 DEF Entered
        <4> QED BY <3>4, <3>6, <4>1, <4>2
      <3>7. Kept(probe[p])'
        BY <2>4, <2>5, <3>4 DEF Kept
      <3>8. \A q \in Runs : Kept(probe[q])'
        BY <3>2, <3>7 DEF Kept, Probe!Rest, Probe!Exits
      <3> QED BY <3>2, <3>6, <3>8 DEF ProbeRecord
    <2>13. \A g \in grants' : g.on # p
      BY DEF ProbeInv
    <2> QED BY <1>1, <1>3, <2>1, <2>5, <2>6, <2>7, <2>9, <2>10, <2>11, <2>12, <2>13, ProbeMoves
  <1> QED BY <1>4, <1>6, <1>7, <1>8 DEF Probe!Makes

\* A change of what roles hold leaves who they are.
LEMMA ProbeRefits ==
  ASSUME ProbeInv, UNCHANGED <<grants, numbered, own>>, roles' \subseteq Probe!Role,
         \A x \in roles' : \E s \in roles : s.vc = x.vc /\ s.name = x.name /\ s.id = x.id,
         \A s \in roles : \E x \in roles' : s.vc = x.vc /\ s.name = x.name /\ s.id = x.id,
         \A x, y \in roles' : x.vc = y.vc /\ x.id = y.id => x = y
  PROVE  Platform' /\ \A x \in roles' : \E s \in roles : Probe!EntryOf(s) = Probe!EntryOf(x)
  <1> USE ProbeHave
  <1>1. \A x, y \in roles' : x.vc = y.vc /\ x.name = y.name => x.id = y.id
    BY DEF Platform
  <1>2. \A g \in grants : \E x \in roles' : x.vc = g.vc /\ x.id = g.id
    BY DEF Platform
  <1>3. \A x \in roles' : x.id <= numbered[x.vc]
    BY DEF Platform
  <1>4. Platform'
    BY <1>1, <1>2, <1>3 DEF Platform
  <1> QED BY <1>4 DEF Probe!EntryOf

LEMMA ProbeReconciles ==
  ASSUME ProbeInv, NEW p \in Runs, probe[p].pc = "ensure", UNCHANGED <<grants, ledger, roleOthers, roleTorn>>,
         NEW n \in probe[p].need, Probe!Reconciles(p, n)
  PROVE  ProbeInv' /\ \A s \in roles \ roles' : Mine(s.vc, s.id)
  <1> USE ProbeHave
  <1>1. probe[p].pc \in Probe!ProbeSteps \ {"record"} /\ probe[p] \in ProbeRuns /\ UNCHANGED <<numbered, own>>
    BY DEF Probe!ProbeSteps, Probe!Reconciles
  <1>2. roleFaults' \in 0 .. MaxFaults
    BY ProbeFaults DEF Probe!Reconciles
  <1>3. CASE UNCHANGED roles /\ Probe!Aborts(p)
    <2>1. Turns(p) /\ Stays(p) /\ probe'[p].pc = "residue"
      BY <1>3, ProbeAborts
    <2> QED BY <1>1, <1>2, <1>3, <2>1, ProbeOf, ProbeCalm, ProbeGoesOn DEF Stays, Probe!ProbeSteps
  <1>4. ASSUME NEW r \in probe[p].listed,
               \/ UNCHANGED roles
               \/ roles' = {IF s.vc = r.vc /\ s.id = r.id THEN [s EXCEPT !.fits = TRUE] ELSE s : s \in roles}
        PROVE  /\ r \in Probe!Role /\ Mine(r.vc, r.id) /\ Platform'
               /\ \A x \in roles' : \E s \in roles : Probe!EntryOf(s) = Probe!EntryOf(x)
               /\ \A s \in roles \ roles' : Mine(s.vc, s.id)
    <2>1. r \in Probe!Role /\ Mine(r.vc, r.id)
      BY <1>1, ProbeOf DEF ProbeRuns
    <2>2. CASE UNCHANGED roles
      BY <1>1, <2>1, <2>2 DEF Platform
    <2>3. CASE roles' = {IF s.vc = r.vc /\ s.id = r.id THEN [s EXCEPT !.fits = TRUE] ELSE s : s \in roles}
      <3> DEFINE Fits(s) == IF s.vc = r.vc /\ s.id = r.id THEN [s EXCEPT !.fits = TRUE] ELSE s
      <3>1. \A s \in roles : /\ Fits(s) \in Probe!Role /\ Fits(s).vc = s.vc /\ Fits(s).name = s.name /\ Fits(s).id = s.id
                             /\ Fits(s) = s \/ (s.vc = r.vc /\ s.id = r.id)
        BY DEF Platform, Probe!Role
      <3>2. roles' = {Fits(s) : s \in roles}
        BY <2>3
      <3>3. (\A x \in roles' : \E s \in roles : x = Fits(s)) /\ \A s \in roles : Fits(s) \in roles'
        <4> HIDE DEF Fits
        <4> QED BY <3>2, Zenon
      <3> HIDE DEF Fits
      <3>4. \A x \in roles' : x \in Probe!Role /\ \E s \in roles : s.vc = x.vc /\ s.name = x.name /\ s.id = x.id
        BY <3>1, <3>3
      <3>5. \A s \in roles : \E x \in roles' : s.vc = x.vc /\ s.name = x.name /\ s.id = x.id
        BY <3>1, <3>3
      <3>6. \A x, y \in roles' : x.vc = y.vc /\ x.id = y.id => x = y
        BY <3>1, <3>3 DEF Platform
      <3>7. Platform' /\ \A x \in roles' : \E s \in roles : Probe!EntryOf(s) = Probe!EntryOf(x)
        BY <1>1, <3>4, <3>5, <3>6, ProbeRefits
      <3>8. \A s \in roles \ roles' : Mine(s.vc, s.id)
        BY <2>1, <3>1, <3>3
      <3> QED BY <2>1, <3>7, <3>8
    <2> QED BY <1>4, <2>2, <2>3
  <1>5. \A q \in Runs : probe[q].pc \notin {"measured", "destroy"} => \A g \in grants' : g.on # q
    BY DEF ProbeInv
  <1>6. ASSUME NEW r \in probe[p].listed,
               \/ UNCHANGED roles
               \/ roles' = {IF s.vc = r.vc /\ s.id = r.id THEN [s EXCEPT !.fits = TRUE] ELSE s : s \in roles},
               Probe!Knows(p, [probe[p] EXCEPT !.need = @ \ {n}, !.ids = @ \cup {r.id}])
        PROVE  ProbeInv' /\ \A s \in roles \ roles' : Mine(s.vc, s.id)
    <2>1. /\ r \in Probe!Role /\ Platform' /\ \A x \in roles' : \E s \in roles : Probe!EntryOf(s) = Probe!EntryOf(x)
          /\ \A s \in roles \ roles' : Mine(s.vc, s.id)
      BY <1>4, <1>6
    <2> DEFINE need == probe[p].need \ {n}
               ids == probe[p].ids \cup {r.id}
               k == [probe[p] EXCEPT !.need = need, !.ids = ids]
    <2>2. Probe!Knows(p, k)
      BY <1>6
    <2>3. need \in SUBSET Names /\ ids \in SUBSET (1 .. MaxRoles)
      BY <1>1, <2>1 DEF ProbeRuns, Probe!Role
    <2> HIDE DEF need, ids
    <2>4. /\ k \in ProbeRuns /\ k.pc = "ensure" /\ k.mode = probe[p].mode /\ k.led = probe[p].led
          /\ k.listed = probe[p].listed /\ k.alone = probe[p].alone
      BY <1>1, <2>3 DEF ProbeRuns
    <2> HIDE DEF k
    <2>5. Turns(p) /\ probe'[p] = k
      BY <2>2, <2>4, ProbeKnows
    <2> QED BY <1>1, <1>2, <1>5, <2>1, <2>4, <2>5, ProbeOf, ProbeGoesOn DEF Probe!ProbeSteps
  <1>7. ASSUME NEW r \in probe[p].listed,
               roles' = {IF s.vc = r.vc /\ s.id = r.id THEN [s EXCEPT !.fits = TRUE] ELSE s : s \in roles},
               Probe!Aborts(p)
        PROVE  ProbeInv' /\ \A s \in roles \ roles' : Mine(s.vc, s.id)
    <2>1. /\ Platform' /\ \A x \in roles' : \E s \in roles : Probe!EntryOf(s) = Probe!EntryOf(x)
          /\ \A s \in roles \ roles' : Mine(s.vc, s.id)
      BY <1>4, <1>7
    <2>2. Turns(p) /\ Stays(p) /\ probe'[p].pc = "residue"
      BY <1>7, ProbeAborts
    <2> QED BY <1>1, <1>2, <1>5, <2>1, <2>2, ProbeOf, ProbeGoesOn DEF Stays, Probe!ProbeSteps
  <1> QED BY <1>3, <1>6, <1>7 DEF Probe!Reconciles

LEMMA ProbeEnsures ==
  ASSUME ProbeInv, NEW p \in Runs, Probe!Ensures(p)
  PROVE  ProbeInv' /\ \A s \in roles \ roles' : Mine(s.vc, s.id)
  <1> USE ProbeHave
  <1>1. probe[p].pc = "ensure" /\ UNCHANGED <<grants, ledger, roleOthers, roleTorn>>
    BY DEF Probe!Ensures, Probe!At
  <1>2. CASE UNCHANGED <<roles, numbered, own>> /\ Probe!Sound /\ Probe!Goes(p, "folder")
    <2>1. Turns(p) /\ Stays(p) /\ probe'[p].pc = "folder" /\ probe[p].pc \in Probe!ProbeSteps \ {"record"}
      BY <1>1, <1>2, ProbeGoes DEF AllSteps, Probe!ProbeSteps, Steady
    <2>2. roleFaults' \in 0 .. MaxFaults
      BY <1>2, ProbeFaults
    <2> QED BY <1>1, <1>2, <2>1, <2>2, ProbeOf, ProbeCalm, ProbeGoesOn DEF Stays, Probe!ProbeSteps
  <1>3. ASSUME NEW n \in probe[p].need, Probe!Makes(p, n) PROVE ProbeInv' /\ roles \subseteq roles'
    BY <1>1, <1>3, ProbeMakes DEF Probe!Makes
  <1> QED BY <1>1, <1>2, <1>3, ProbeReconciles DEF Probe!Ensures

\* One entry takes the place of any other of its name.
LEMMA ProbeEnters ==
  ASSUME NEW led, Entries(led), NEW r \in Probe!Role, Mine(r.vc, r.id)
  PROVE  /\ Entries(Probe!Enters(led, Probe!EntryOf(r))) /\ Probe!EntryOf(r) \in Probe!Enters(led, Probe!EntryOf(r))
         /\ \A e \in led : e.vc # r.vc \/ e.name # r.name => e \in Probe!Enters(led, Probe!EntryOf(r))
  <1> DEFINE e == Probe!EntryOf(r)
  <1>1. e \in Probe!Entry /\ e.vc = r.vc /\ e.name = r.name /\ e.id = r.id
    BY DEF Probe!EntryOf, Probe!Entry, Probe!Role
  <1> HIDE DEF e
  <1>2. Probe!Enters(led, e) = {f \in led : f.vc # e.vc \/ f.name # e.name} \cup {e}
    BY DEF Probe!Enters
  <1>3. Entries(Probe!Enters(led, e))
    BY <1>1, <1>2 DEF Entries
  <1>4. e \in Probe!Enters(led, e) /\ \A f \in led : f.vc # r.vc \/ f.name # r.name => f \in Probe!Enters(led, e)
    BY <1>1, <1>2
  <1> QED BY <1>3, <1>4 DEF e

LEMMA ProbeRecords ==
  ASSUME ProbeInv, NEW p \in Runs, Probe!Records(p) PROVE ProbeInv'
  <1> USE ProbeHave
  <1> DEFINE new == probe[p].new
             led == Probe!Enters(probe[p].led, Probe!EntryOf(new))
             pc == IF probe[p].mode = "probe" THEN "ensure" ELSE "exit0"
  <1>1. /\ probe[p].pc = "record" /\ probe[p].pc \notin Probe!Rest /\ probe[p] \in ProbeRuns
        /\ probe[p].mode \in {"probe", "adopt"} /\ new \in Probe!Role /\ Mine(new.vc, new.id)
        /\ \A r \in probe[p].listed : Mine(r.vc, r.id)
    BY DEF Probe!Records, Probe!At, Probe!Rest, Probe!Exits, ProbeInv, Moded, Reach, ProbeRuns
  <1>2. UNCHANGED <<roles, grants, numbered, own, roleOthers>>
    BY DEF Probe!Records, Probe!VCenter
  <1>3. roleFaults' \in 0 .. MaxFaults
    BY ProbeFaults DEF Probe!Records
  <1>4. CASE /\ ledger' = led /\ UNCHANGED roleTorn
             /\ Probe!Knows(p, [probe[p] EXCEPT !.led = led, !.pc = pc])
    <2> DEFINE k == [probe[p] EXCEPT !.led = led, !.pc = pc]
    <2>1. /\ Entries(led) /\ Probe!EntryOf(new) \in led /\ led \in SUBSET Probe!Entry
          /\ \A e \in probe[p].led : e.vc # new.vc \/ e.name # new.name => e \in led
      <3>1. Entries(probe[p].led)
        BY DEF ProbeInv, Reach
      <3> QED BY <1>1, <3>1, ProbeEnters DEF Entries
    <2>2. Probe!Knows(p, k) /\ ledger' = led
      BY <1>4
    <2>3. pc \in AllSteps /\ (probe[p].mode = "probe" => pc = "ensure") /\ (probe[p].mode = "adopt" => pc = "exit0")
      BY DEF AllSteps, Probe!ProbeSteps, Probe!Rest, Probe!Exits
    <2> HIDE DEF led, pc
    <2>4. /\ k \in ProbeRuns /\ k.pc = pc /\ k.led = led /\ k.mode = probe[p].mode
          /\ k.listed = probe[p].listed /\ k.alone = probe[p].alone
      BY <1>1, <2>1, <2>3 DEF ProbeRuns, AllSteps
    <2> HIDE DEF k
    <2>5. Turns(p) /\ probe'[p] = k
      BY <2>2, <2>4, ProbeKnows
    <2>6. Moded(probe[p])'
      BY <1>1, <2>3, <2>4, <2>5 DEF Moded, Probe!ProbeSteps, Probe!RemoveSteps
    <2>7. Reach(probe[p])' /\ Entries(ledger)'
      BY <1>1, <1>2, <2>1, <2>2, <2>3, <2>4, <2>5 DEF Reach, Entries, Mine
    <2>8. ProbeFit(probe[p])'
      BY <1>1, <2>2, <2>3, <2>4, <2>5 DEF ProbeFit
    <2>9. ASSUME Together <= 1 PROVE ProbeRecord'
      <3>1. ProbeRecord
        BY <2>9 DEF ProbeInv
      <3>2. \A q \in Runs \ {p} : probe'[q] = probe[q] /\ probe[q].pc \in Probe!Rest
        BY <1>1, <2>5, <3>1 DEF ProbeRecord, Turns
      <3>3. \A q \in Runs : probe[q].pc = "record" => q = p
        BY <3>2 DEF Probe!Rest, Probe!Exits
      <3>4. ASSUME ~roleTorn, NEW r \in roles, Mine(r.vc, r.id) PROVE Probe!EntryOf(r) \in led
        <4>1. Entered(probe[p].led, r)
          BY <1>1, <3>1, <3>4 DEF ProbeRecord
        <4>2. Probe!EntryOf(r) \in probe[p].led \/ Probe!EntryOf(r) = Probe!EntryOf(new)
          BY <3>3, <4>1 DEF Entered
        <4>3. r.vc = new.vc /\ r.name = new.name => r.id = new.id
          BY <1>1, <3>1, <3>4 DEF ProbeRecord, Kept
        <4>4. Probe!EntryOf(r).vc = r.vc /\ Probe!EntryOf(r).name = r.name
              /\ (r.vc = new.vc /\ r.name = new.name /\ r.id = new.id => Probe!EntryOf(r) = Probe!EntryOf(new))
          BY DEF Probe!EntryOf
        <4> QED BY <2>1, <4>2, <4>3, <4>4
      <3>5. ASSUME ~roleTorn', NEW r \in roles', Mine(r.vc, r.id)'
            PROVE  /\ Entered(ledger, r)'
                   /\ \A q \in Runs : probe'[q].pc \notin Probe!Rest => Entered(probe[q].led, r)'
        <4>1. Probe!EntryOf(r) \in led
          BY <1>2, <1>4, <3>4, <3>5 DEF Mine
        <4> QED BY <2>2, <2>4, <2>5, <3>2, <4>1 DEF Entered
      <3>6. Kept(probe[p])'
        BY <2>3, <2>4, <2>5, <1>1 DEF Kept
      <3>7. \A q \in Runs : Kept(probe[q])'
        BY <3>2, <3>6 DEF Kept, Probe!Rest, Probe!Exits
      <3> QED BY <3>2, <3>5, <3>7 DEF ProbeRecord
    <2>10. roleTorn' \in BOOLEAN
      BY <1>4
    <2> QED BY <1>1, <1>2, <1>3, <2>4, <2>5, <2>6, <2>7, <2>8, <2>9, <2>10, ProbeCalm, ProbeMoves
  <1>5. CASE /\ UNCHANGED ledger /\ roleTorn' = TRUE
             /\ IF probe[p].mode = "probe" THEN Probe!Aborts(p) ELSE Probe!Goes(p, "exit3")
    <2>1. /\ Turns(p) /\ Stays(p) /\ probe'[p].pc \in {"residue", "exit3"}
          /\ probe'[p].pc = "residue" => probe[p].mode = "probe"
      BY <1>5, ProbeAborts, ProbeGoes DEF AllSteps, Probe!Rest, Probe!Exits, Steady
    <2>2. Moded(probe[p])'
      BY <2>1 DEF Moded, Stays, Probe!ProbeSteps, Probe!RemoveSteps
    <2>3. Reach(probe[p])' /\ Entries(ledger)'
      BY <1>1, <1>2, <1>5, <2>1 DEF ProbeInv, Reach, Entries, Mine, Stays
    <2>4. probe'[p].alone => probe[p].alone /\ ProbeFit(probe[p])'
      BY <1>1, <1>5, <2>1 DEF ProbeInv, ProbeFit, Stays
    <2>5. ASSUME Together <= 1 PROVE ProbeRecord'
      <3>1. \A q \in Runs \ {p} : probe'[q] = probe[q] /\ probe[q].pc \in Probe!Rest
        BY <1>1, <2>1, <2>5 DEF ProbeInv, ProbeRecord, Turns
      <3>2. \A q \in Runs : Kept(probe[q])'
        BY <2>1, <3>1 DEF Kept, Probe!Rest, Probe!Exits
      <3>3. roleTorn'
        BY <1>5
      <3> QED BY <3>1, <3>2, <3>3 DEF ProbeRecord
    <2>6. roleTorn' \in BOOLEAN
      BY <1>5
    <2> QED BY <1>1, <1>2, <1>3, <2>1, <2>2, <2>3, <2>4, <2>5, <2>6, ProbeCalm, ProbeMoves
  <1> QED BY <1>4, <1>5 DEF Probe!Records

LEMMA ProbeClaims ==
  ASSUME ProbeInv, NEW p \in Runs, Probe!Claims(p) PROVE ProbeInv'
  <1> USE ProbeHave
  <1>1. /\ probe[p].pc = "claim" /\ probe[p].pc \notin Probe!Rest /\ probe[p] \in ProbeRuns /\ probe[p].mode = "adopt"
        /\ probe[p].vc = probe[p].new.vc /\ \A r \in probe[p].listed : Mine(r.vc, r.id)
    BY DEF Probe!Claims, Probe!At, Probe!Rest, Probe!Exits, ProbeInv, Moded, Reach
  <1>2. UNCHANGED <<roles, grants, numbered, ledger, roleOthers, roleTorn>>
    BY DEF Probe!Claims, Probe!VCenter
  <1>3. roleFaults' \in 0 .. MaxFaults
    BY ProbeFaults DEF Probe!Claims
  <1>6. PICK new : new = probe[p].new
    OBVIOUS
  <1>4. CASE /\ probe[p].new \in roles /\ own' = own \cup {[vc |-> probe[p].vc, id |-> probe[p].new.id]}
             /\ Probe!Knows(p, [probe[p] EXCEPT !.led = ledger,
                                  !.pc = IF Probe!EntryOf(probe[p].new) \in ledger THEN "exit0" ELSE "record"])
    <2> DEFINE pc == IF Probe!EntryOf(new) \in ledger THEN "exit0" ELSE "record"
               k == [probe[p] EXCEPT !.led = ledger, !.pc = pc]
    <2>1. /\ new \in roles /\ new \in Probe!Role /\ own' = own \cup {[vc |-> new.vc, id |-> new.id]}
          /\ ledger \in SUBSET Probe!Entry
      BY <1>1, <1>4, <1>6 DEF Platform, Entries
    <2>2. Probe!Knows(p, k)
      BY <1>4, <1>6
    <2>3. pc \in AllSteps /\ pc \in {"exit0", "record"} /\ (pc = "exit0" => Probe!EntryOf(new) \in ledger)
      BY DEF AllSteps, Probe!ProbeSteps, Probe!Rest, Probe!Exits
    <2> HIDE DEF pc
    <2>4. /\ k \in ProbeRuns /\ k.pc = pc /\ k.led = ledger /\ k.mode = "adopt" /\ k.new = new
          /\ k.listed = probe[p].listed /\ k.alone = probe[p].alone
      BY <1>1, <1>6, <2>1, <2>3 DEF ProbeRuns, AllSteps
    <2> HIDE DEF k
    <2>5. Turns(p) /\ probe'[p] = k
      BY <2>2, <2>4, ProbeKnows
    <2>6. own \subseteq own' /\ Mine(new.vc, new.id)'
      BY <2>1 DEF Mine
    <2>7. Platform'
      <3> DEFINE o == [vc |-> new.vc, id |-> new.id]
      <3>1. o \in [vc : VCs, id : 1 .. MaxRoles] /\ o.id <= numbered[o.vc] /\ own' = own \cup {o}
        BY <2>1 DEF Platform, Probe!Role
      <3> HIDE DEF o
      <3> QED BY <1>2, <3>1 DEF Platform
    <2>8. Entries(ledger)' /\ Reach(probe[p])'
      BY <1>1, <1>2, <2>4, <2>5, <2>3, <2>6 DEF Entries, Reach, Mine
    <2>9. Moded(probe[p])'
      BY <2>1, <2>3, <2>4, <2>5, <2>6 DEF Moded, Probe!ProbeSteps, Probe!RemoveSteps
    <2>10. ProbeFit(probe[p])'
      BY <1>2, <2>3, <2>4, <2>5 DEF ProbeFit
    <2>11. ASSUME Together <= 1 PROVE ProbeRecord'
      <3>1. ProbeRecord
        BY <2>11 DEF ProbeInv
      <3>2. \A q \in Runs \ {p} : probe'[q] = probe[q] /\ probe[q].pc \in Probe!Rest
        BY <1>1, <2>5, <3>1 DEF ProbeRecord, Turns
      <3>3. \A q \in Runs : probe[q].pc # "record"
        BY <1>1, <3>2 DEF Probe!Rest, Probe!Exits
      <3>4. ASSUME NEW r \in roles, Mine(r.vc, r.id)' PROVE Mine(r.vc, r.id) \/ r = new
        <4>1. Mine(r.vc, r.id) \/ (r.vc = new.vc /\ r.id = new.id)
          BY <2>1, <3>4 DEF Mine
        <4> QED BY <2>1, <4>1 DEF Platform
      <3>5. ASSUME ~roleTorn, NEW r \in roles, Mine(r.vc, r.id) PROVE Probe!EntryOf(r) \in ledger
        BY <3>1, <3>3, <3>5 DEF ProbeRecord, Entered
      <3>6. ASSUME ~roleTorn', NEW r \in roles', Mine(r.vc, r.id)'
            PROVE  /\ Entered(ledger, r)'
                   /\ \A q \in Runs : probe'[q].pc \notin Probe!Rest => Entered(probe[q].led, r)'
        <4>1. Probe!EntryOf(r) \in ledger \/ (r = new /\ pc = "record")
          BY <1>2, <2>3, <3>4, <3>5, <3>6
        <4> QED BY <1>2, <2>4, <2>5, <3>2, <4>1 DEF Entered
      <3>7. Kept(probe[p])'
        BY <1>2, <2>1, <2>3, <2>4, <2>5 DEF Kept, Platform
      <3>8. \A q \in Runs : Kept(probe[q])'
        BY <3>2, <3>7 DEF Kept, Probe!Rest, Probe!Exits
      <3> QED BY <3>2, <3>6, <3>8 DEF ProbeRecord
    <2>12. \A g \in grants' : g.on # p
      BY <1>1, <1>2 DEF ProbeInv
    <2> QED BY <1>1, <1>2, <1>3, <2>4, <2>5, <2>6, <2>7, <2>8, <2>9, <2>10, <2>11, <2>12, ProbeMoves
  <1>5. CASE UNCHANGED own /\ (Probe!Goes(p, "exit5") \/ Probe!Goes(p, "exit3"))
    <2>1. Turns(p) /\ Stays(p) /\ probe'[p].pc \in {"exit5", "exit3"}
      BY <1>5, ProbeGoes DEF AllSteps, Probe!Rest, Probe!Exits, Steady
    <2>2. Moded(probe[p])' /\ Kept(probe[p])'
      BY <2>1 DEF Moded, Kept, Probe!ProbeSteps, Probe!RemoveSteps
    <2>3. Reach(probe[p])' /\ Entries(ledger)'
      BY <1>1, <1>2, <1>5, <2>1 DEF ProbeInv, Reach, Entries, Mine, Stays
    <2>4. probe'[p].alone => probe[p].alone /\ ProbeFit(probe[p])'
      BY <1>1, <1>2, <2>1 DEF ProbeInv, ProbeFit, Stays
    <2>5. Together <= 1 => ProbeRecord'
      BY <1>1, <1>2, <1>5, <2>1, <2>2, ProbeRecordStays DEF Stays
    <2> QED BY <1>1, <1>2, <1>3, <1>5, <2>1, <2>2, <2>3, <2>4, <2>5, ProbeCalm, ProbeMoves
  <1> QED BY <1>4, <1>5 DEF Probe!Claims

\* The steps of a removal.
LEMMA ProbeRemovesOn ==
  ASSUME ProbeInv, NEW p \in Runs, probe[p].pc \in Probe!RemoveSteps, Turns(p), probe'[p].mode = "remove",
         probe'[p].alone = probe[p].alone, probe'[p].pc \in Probe!RemoveSteps \cup {"exit0", "exit2", "exit3"},
         Entries(probe[p].led)', probe'[p].pc = "drop" => \A i \in probe'[p].ids : Mine(probe'[p].vc, i),
         probe[p].alone => ProbeFit(probe[p])', Platform', UNCHANGED <<own, roleOthers, roleTorn>>, Entries(ledger)',
         roleFaults' \in 0 .. MaxFaults, grants' \subseteq grants, Together <= 1 => ProbeRecord'
  PROVE  ProbeInv'
  <1> USE ProbeHave
  <1>1. probe[p].pc \notin Probe!Rest /\ probe[p].pc \notin {"measured", "destroy"}
    BY DEF Probe!RemoveSteps, Probe!Rest, Probe!Exits
  <1>2. Moded(probe[p])'
    BY DEF Moded, Probe!ProbeSteps, Probe!RemoveSteps
  <1>3. Reach(probe[p])'
    BY DEF Reach, Mine
  <1>4. \A g \in grants' : g.on # p
    BY <1>1 DEF ProbeInv
  <1> QED BY <1>1, <1>2, <1>3, <1>4, ProbeMoves

LEMMA ProbeNextHost ==
  ASSUME ProbeInv, NEW p \in Runs, Probe!NextHost(p) PROVE ProbeInv'
  <1> USE ProbeHave
  <1>1. probe[p].pc = "host" /\ probe[p].pc \in Probe!RemoveSteps /\ probe[p] \in ProbeRuns /\ probe[p].mode = "remove"
        /\ probe[p].pc \notin Probe!Rest /\ Entries(probe[p].led)
    BY DEF Probe!NextHost, Probe!At, Probe!RemoveSteps, ProbeInv, Moded, Reach, Probe!Rest, Probe!Exits
  <1>2. UNCHANGED <<roles, grants, numbered, ledger, own, roleOthers, roleTorn>>
    BY DEF Probe!NextHost, Probe!VCenter, Probe!Rests
  <1>3. roleFaults' \in 0 .. MaxFaults
    BY ProbeFaults DEF Probe!NextHost
  <1>4. PICK pc \in {"exit0", "exit2", "exit3", "refuse"} :
          /\ Turns(p) /\ probe'[p].pc = pc /\ probe'[p].mode = "remove" /\ probe'[p].led = probe[p].led
          /\ probe'[p].alone = probe[p].alone /\ probe'[p].unread = probe[p].unread
          /\ pc = "exit0" => probe'[p].vc = probe[p].vc /\ probe[p].hosts = {} /\ ~probe[p].held /\ ~probe[p].unread
    <2>1. CASE /\ probe[p].hosts = {}
               /\ Probe!Goes(p, IF probe[p].held THEN "exit2" ELSE IF probe[p].unread THEN "exit3" ELSE "exit0")
      <3>1. PICK pc \in {"exit0", "exit2", "exit3"} :
              Probe!Goes(p, pc) /\ (pc = "exit0" => ~probe[p].held /\ ~probe[p].unread)
        BY <2>1
      <3>2. Turns(p) /\ Steady(p) /\ probe'[p].pc = pc
        BY <3>1, ProbeGoes DEF AllSteps, Probe!Rest, Probe!Exits
      <3> QED BY <1>1, <2>1, <3>1, <3>2 DEF Steady, Stays
    <2>2. ASSUME NEW v \in probe[p].hosts,
                 Probe!Knows(p, [probe[p] EXCEPT !.hosts = @ \ {v}, !.vc = v, !.pc = "refuse"])
          PROVE  /\ Turns(p) /\ probe'[p].pc = "refuse" /\ probe'[p].mode = "remove" /\ probe'[p].led = probe[p].led
                 /\ probe'[p].alone = probe[p].alone /\ probe'[p].unread = probe[p].unread
      <3> DEFINE k == [probe[p] EXCEPT !.hosts = @ \ {v}, !.vc = v, !.pc = "refuse"]
      <3>1. /\ k \in ProbeRuns /\ k.pc = "refuse" /\ k.mode = "remove" /\ k.led = probe[p].led
            /\ k.alone = probe[p].alone /\ k.unread = probe[p].unread
        BY <1>1 DEF ProbeRuns, Probe!RemoveSteps
      <3>2. Probe!Knows(p, k)
        BY <2>2
      <3> HIDE DEF k
      <3>3. Turns(p) /\ probe'[p] = k
        BY <3>1, <3>2, ProbeKnows
      <3> QED BY <3>1, <3>3
    <2> QED BY <2>1, <2>2 DEF Probe!NextHost
  <1>5. ProbeFit(probe[p]) => ProbeFit(probe[p])'
    BY <1>1, <1>2, <1>4 DEF ProbeFit, Bare, Probe!On, Probe!Ours
  <1>6. Kept(probe[p])' /\ Entries(probe[p].led)' /\ Entries(ledger)'
    BY <1>1, <1>2, <1>4 DEF ProbeInv, Kept, Entries, Mine
  <1>7. Together <= 1 => ProbeRecord'
    BY <1>1, <1>2, <1>4, <1>6, ProbeRecordStays
  <1>8. probe[p].alone => ProbeFit(probe[p])'
    BY <1>5 DEF ProbeInv
  <1>9. Platform'
    BY <1>2, ProbeCalm
  <1>10. probe'[p].pc \in Probe!RemoveSteps \cup {"exit0", "exit2", "exit3"} /\ probe'[p].pc # "drop"
    BY <1>4 DEF Probe!RemoveSteps
  <1> QED BY <1>1, <1>2, <1>3, <1>4, <1>6, <1>7, <1>8, <1>9, <1>10, ProbeRemovesOn

LEMMA ProbeRefuses ==
  ASSUME ProbeInv, NEW p \in Runs, Probe!Refuses(p) PROVE ProbeInv'
  <1> USE ProbeHave
  <1>1. probe[p].pc = "refuse" /\ probe[p].pc \in Probe!RemoveSteps /\ probe[p] \in ProbeRuns /\ probe[p].mode = "remove"
        /\ probe[p].pc \notin Probe!Rest /\ Entries(probe[p].led) /\ probe[p].held \in BOOLEAN
        /\ probe[p].unread \in BOOLEAN
    BY DEF Probe!Refuses, Probe!At, Probe!RemoveSteps, ProbeInv, Moded, Reach, Probe!Rest, Probe!Exits, ProbeRuns
  <1>2. UNCHANGED <<roles, grants, numbered, ledger, own, roleOthers, roleTorn>>
    BY DEF Probe!Refuses, Probe!VCenter, Probe!Rests
  <1>3. roleFaults' \in 0 .. MaxFaults
    BY ProbeFaults DEF Probe!Refuses
  <1>4. Platform' /\ Entries(ledger)' /\ Entries(probe[p].led)
    BY <1>1, <1>2, ProbeCalm DEF ProbeInv, Entries, Mine
  <1>5. ASSUME NEW held \in BOOLEAN, NEW unread \in BOOLEAN, held \/ unread, probe[p].unread => unread, NEW k,
               k = [probe[p] EXCEPT !.pc = "host", !.held = held, !.unread = unread], Probe!Knows(p, k)
        PROVE  ProbeInv'
    <2>1. Turns(p) /\ Stays(p) /\ probe'[p].pc = "host" /\ probe'[p].held = held /\ probe'[p].unread = unread
      BY <1>5, ProbeGivesUp DEF AllSteps, Probe!RemoveSteps
    <2>2. ProbeFit(probe[p]) => ProbeFit(probe[p])'
      BY <1>1, <1>2, <1>5, <2>1 DEF ProbeFit, Stays
    <2>3. Kept(probe[p])' /\ Entries(probe[p].led)'
      BY <1>1, <1>2, <2>1 DEF Kept, Stays, Entries, Mine
    <2>4. Together <= 1 => ProbeRecord'
      BY <1>1, <1>2, <2>1, <2>3, ProbeRecordStays DEF Stays
    <2>5. probe[p].alone => ProbeFit(probe[p])'
      BY <2>2 DEF ProbeInv
    <2>6. probe'[p].pc \in Probe!RemoveSteps /\ probe'[p].pc # "drop"
      BY <2>1 DEF Probe!RemoveSteps
    <2> QED BY <1>1, <1>2, <1>3, <1>4, <2>1, <2>3, <2>4, <2>5, <2>6, ProbeRemovesOn DEF Stays
  <1>6. CASE Probe!Knows(p, [probe[p] EXCEPT !.pc = "host", !.held = TRUE])
    <2> DEFINE k == [probe[p] EXCEPT !.pc = "host", !.held = TRUE]
    <2>1. k = [probe[p] EXCEPT !.pc = "host", !.held = TRUE, !.unread = probe[p].unread] /\ Probe!Knows(p, k)
      BY <1>1, <1>6 DEF ProbeRuns
    <2> HIDE DEF k
    <2> QED BY <1>1, <1>5, <2>1
  <1>7. CASE Probe!Knows(p, [probe[p] EXCEPT !.pc = "host", !.unread = TRUE])
    <2> DEFINE k == [probe[p] EXCEPT !.pc = "host", !.unread = TRUE]
    <2>1. k = [probe[p] EXCEPT !.pc = "host", !.held = probe[p].held, !.unread = TRUE] /\ Probe!Knows(p, k)
      BY <1>1, <1>7 DEF ProbeRuns
    <2> HIDE DEF k
    <2> QED BY <1>1, <1>5, <2>1
  <1> DEFINE v == probe[p].vc
             mine == Probe!Counted(probe[p].led, v, Probe!On(v))
             nheld == probe[p].held \/ Probe!On(v) # mine
             pc == IF mine = {} THEN "forget" ELSE "drop"
             nids == {r.id : r \in mine}
  <1>8. CASE /\ Probe!Ungranted(p)
             /\ Probe!Knows(p, [probe[p] EXCEPT !.listed = Probe!On(v), !.ids = nids, !.held = nheld, !.pc = pc])
    <2>1. PICK on : on = Probe!On(v)
      OBVIOUS
    <2>2. PICK ids : ids = nids
      OBVIOUS
    <2>3. PICK host : host = v
      OBVIOUS
    <2>4. PICK held \in BOOLEAN : held = nheld
      OBVIOUS
    <2>5. \A r \in on : r \in roles /\ r.vc = host /\ r \in Probe!Role
      BY <2>1, <2>3 DEF Probe!On, Platform
    <2>6. \A r \in mine : r \in on /\ r.vc = host /\ Mine(host, r.id) /\ Probe!EntryOf(r) \in probe[p].led
      <3>1. \A r \in mine : r \in on
        BY <2>1 DEF Probe!Counted
      <3>2. \A r \in mine : r.vc = v
        BY <2>3, <2>5, <3>1
      <3> HIDE DEF v
      <3> QED BY <1>4, <2>3, <3>1, <3>2, ProbeCounted
    <2>7. ids \subseteq 1 .. MaxRoles /\ \A i \in ids : Mine(host, i)
      BY <2>2, <2>5, <2>6 DEF Probe!Role
    <2>8. \A g \in grants : g.vc = host => g.id \notin ids
      <3>1. Probe!GrantsOfOurs(probe[p].led, v) = {}
        BY <1>8 DEF Probe!Ungranted
      <3>2. \A g \in grants, r \in mine : g.vc = v /\ r.id = g.id => FALSE
        BY <3>1 DEF Probe!GrantsOfOurs
      <3> QED BY <2>2, <2>3, <3>2
    <2>9. ~held => ~probe[p].held /\ on = mine
      BY <2>1, <2>4
    <2> DEFINE k == [probe[p] EXCEPT !.listed = on, !.ids = ids, !.held = held, !.pc = pc]
    <2>10. Probe!Knows(p, k)
      BY <1>8, <2>1, <2>2, <2>4, Zenon
    <2>11. pc \in {"forget", "drop"} /\ pc \in AllSteps
      BY DEF AllSteps, Probe!RemoveSteps
    <2>12. on \in SUBSET Probe!Role
      BY <2>5
    <2> HIDE DEF pc, nheld, nids
    <2>13. /\ k \in ProbeRuns /\ k.pc = pc /\ k.listed = on /\ k.ids = ids /\ k.held = held /\ k.mode = "remove"
           /\ k.led = probe[p].led /\ k.vc = v /\ k.alone = probe[p].alone /\ k.unread = probe[p].unread
      BY <1>1, <2>4, <2>7, <2>11, <2>12 DEF ProbeRuns, AllSteps
    <2> HIDE DEF k, mine
    <2>14. Turns(p) /\ probe'[p] = k
      BY <2>10, <2>13, ProbeKnows
    <2>15. /\ Turns(p) /\ probe'[p].pc = pc /\ probe'[p].listed = on /\ probe'[p].ids = ids /\ probe'[p].held = held
           /\ probe'[p].mode = "remove" /\ probe'[p].led = probe[p].led /\ probe'[p].vc = host
           /\ probe'[p].alone = probe[p].alone /\ probe'[p].unread = probe[p].unread
      BY <2>3, <2>13, <2>14
    <2> HIDE DEF v
    <2>16. ProbeFit(probe[p]) => ProbeFit(probe[p])'
      <3>1. ~held => \A r \in Probe!On(host)' : Probe!EntryOf(r) \in probe[p].led /\ r \in on
        BY <1>2, <2>1, <2>3, <2>6, <2>9 DEF Probe!On
      <3>2. ~probe'[p].held => \A r \in Probe!On(probe[p].vc)' : Probe!EntryOf(r) \in probe'[p].led /\ r \in probe'[p].listed
        BY <2>15, <3>1
      <3> QED BY <1>1, <1>2, <2>8, <2>11, <2>15, <3>2 DEF ProbeFit
    <2>17. Kept(probe[p])'
      BY <1>2, <2>1, <2>3, <2>11, <2>15 DEF Kept, Probe!On
    <2>18. Entries(probe[p].led)' /\ (probe'[p].pc = "drop" => \A i \in probe'[p].ids : Mine(probe'[p].vc, i))
      BY <1>2, <1>4, <2>7, <2>15 DEF Entries, Mine
    <2>19. Together <= 1 => ProbeRecord'
      BY <1>1, <1>2, <2>11, <2>15, <2>17, ProbeRecordStays
    <2>20. probe[p].alone => ProbeFit(probe[p])'
      BY <2>16 DEF ProbeInv
    <2>21. probe'[p].pc \in Probe!RemoveSteps
      BY <2>11, <2>15 DEF Probe!RemoveSteps
    <2> QED BY <1>1, <1>2, <1>3, <1>4, <2>15, <2>18, <2>19, <2>20, <2>21, ProbeRemovesOn
  <1> QED BY <1>6, <1>7, <1>8 DEF Probe!Refuses

\* A removal takes what is this script's and, if the run was left alone, what nobody holds.
LEMMA ProbeDrops ==
  ASSUME ProbeInv, NEW p \in Runs, Probe!Drops(p)
  PROVE  ProbeInv' /\ (\A s \in roles \ roles' : Mine(s.vc, s.id)) /\ (probe[p].alone => grants' = grants)
  <1> USE ProbeHave
  <1>1. probe[p].pc = "drop" /\ probe[p].pc \in Probe!RemoveSteps /\ probe[p] \in ProbeRuns /\ probe[p].mode = "remove"
        /\ probe[p].pc \notin Probe!Rest /\ Entries(probe[p].led) /\ (\A i \in probe[p].ids : Mine(probe[p].vc, i))
    BY DEF Probe!Drops, Probe!At, Probe!RemoveSteps, ProbeInv, Moded, Reach, Probe!Rest, Probe!Exits
  <1>2. UNCHANGED <<numbered, ledger, own, roleOthers, roleTorn>>
    BY DEF Probe!Drops, Probe!Rests
  <1>3. roleFaults' \in 0 .. MaxFaults
    BY ProbeFaults DEF Probe!Drops
  <1>4. PICK i \in probe[p].ids :
          LET left == [probe[p] EXCEPT !.ids = @ \ {i}, !.pc = IF probe[p].ids = {i} THEN "forget" ELSE "drop"]
              stopped == [probe[p] EXCEPT !.pc = "forget", !.unread = TRUE]
          IN /\ Probe!Knows(p, left) \/ Probe!Knows(p, stopped)
             /\ \/ UNCHANGED <<roles, grants>>
                \/ /\ roles' = {r \in roles : r.vc # probe[p].vc \/ r.id # i}
                   /\ grants' = {g \in grants : g.vc # probe[p].vc \/ g.id # i}
    BY DEF Probe!Drops
  <1>5. /\ Turns(p) /\ probe'[p].pc \in {"forget", "drop"} /\ probe'[p].mode = "remove"
        /\ probe'[p].led = probe[p].led /\ probe'[p].vc = probe[p].vc /\ probe'[p].alone = probe[p].alone
        /\ probe'[p].listed = probe[p].listed /\ probe'[p].held = probe[p].held /\ probe'[p].ids \subseteq probe[p].ids
        /\ probe[p].unread => probe'[p].unread
    <2>1. CASE Probe!Knows(p, [probe[p] EXCEPT !.ids = @ \ {i}, !.pc = IF probe[p].ids = {i} THEN "forget" ELSE "drop"])
      <3> DEFINE pc == IF probe[p].ids = {i} THEN "forget" ELSE "drop"
                 k == [probe[p] EXCEPT !.ids = @ \ {i}, !.pc = pc]
      <3>1. pc \in {"forget", "drop"} /\ pc \in AllSteps
        BY DEF AllSteps, Probe!RemoveSteps
      <3>2. Probe!Knows(p, k)
        BY <2>1
      <3> HIDE DEF pc
      <3>3. /\ k \in ProbeRuns /\ k.pc = pc /\ k.mode = "remove" /\ k.led = probe[p].led /\ k.vc = probe[p].vc
            /\ k.alone = probe[p].alone /\ k.listed = probe[p].listed /\ k.held = probe[p].held
            /\ k.ids \subseteq probe[p].ids /\ k.unread = probe[p].unread
        BY <1>1, <3>1 DEF ProbeRuns, AllSteps
      <3> HIDE DEF k
      <3>4. Turns(p) /\ probe'[p] = k
        BY <3>2, <3>3, ProbeKnows
      <3> QED BY <3>1, <3>3, <3>4
    <2>2. CASE Probe!Knows(p, [probe[p] EXCEPT !.pc = "forget", !.unread = TRUE])
      <3> DEFINE k == [probe[p] EXCEPT !.pc = "forget", !.unread = TRUE]
      <3>1. Probe!Knows(p, k)
        BY <2>2
      <3>2. /\ k \in ProbeRuns /\ k.pc = "forget" /\ k.mode = "remove" /\ k.led = probe[p].led /\ k.vc = probe[p].vc
            /\ k.alone = probe[p].alone /\ k.listed = probe[p].listed /\ k.held = probe[p].held
            /\ k.ids = probe[p].ids /\ k.unread
        BY <1>1 DEF ProbeRuns, Probe!RemoveSteps
      <3> HIDE DEF k
      <3>3. Turns(p) /\ probe'[p] = k
        BY <3>1, <3>2, ProbeKnows
      <3> QED BY <3>2, <3>3
    <2> QED BY <1>4, <2>1, <2>2
  <1>6. /\ roles' \subseteq roles /\ grants' \subseteq grants
        /\ \A r \in roles \ roles' : r.vc = probe[p].vc /\ r.id = i
        /\ \A g \in grants \ grants' : g.vc = probe[p].vc /\ g.id = i
    BY <1>4
  <1>7. \A g \in grants' : \E r \in roles' : r.vc = g.vc /\ r.id = g.id
    BY <1>4 DEF Platform
  <1>8. Platform'
    BY <1>2, <1>6, <1>7 DEF Platform
  <1>9. ProbeFit(probe[p]) => ProbeFit(probe[p])'
    BY <1>1, <1>2, <1>5, <1>6 DEF ProbeFit, Probe!On
  <1>10. Together <= 1 => Kept(probe[p])'
    <2>1. Together <= 1 => Kept(probe[p])
      BY DEF ProbeInv, ProbeRecord
    <2> QED BY <1>1, <1>2, <1>5, <1>6, <2>1 DEF Kept, Mine
  <1>11. Together <= 1 => ProbeRecord'
    BY <1>1, <1>2, <1>5, <1>6, <1>10, ProbeRecordStays
  <1>12. Entries(probe[p].led)' /\ Entries(ledger)' /\ (\A j \in probe'[p].ids : Mine(probe'[p].vc, j))
    BY <1>1, <1>2, <1>5 DEF ProbeInv, Entries, Mine
  <1>13. (probe[p].alone => ProbeFit(probe[p])') /\ probe'[p].pc \in Probe!RemoveSteps
    BY <1>5, <1>9 DEF ProbeInv, Probe!RemoveSteps
  <1>15. ProbeInv'
    BY <1>1, <1>2, <1>3, <1>5, <1>6, <1>8, <1>11, <1>12, <1>13, ProbeRemovesOn
  <1>16. \A s \in roles \ roles' : Mine(s.vc, s.id)
    BY <1>1, <1>6
  <1>17. probe[p].alone => grants' = grants
    <2>1. probe[p].alone => \A g \in grants : g.vc = probe[p].vc => g.id \notin probe[p].ids
      BY <1>1 DEF ProbeInv, ProbeFit
    <2> QED BY <1>6, <2>1
  <1> QED BY <1>15, <1>16, <1>17

LEMMA ProbeForgets ==
  ASSUME ProbeInv, NEW p \in Runs, Probe!Forgets(p) PROVE ProbeInv'
  <1> USE ProbeHave
  <1> DEFINE v == probe[p].vc
             mine == Probe!Ours(probe[p].led, v)
             gone == {e \in mine : (\A r \in probe[p].listed : Probe!EntryOf(r) # e) \/ \A r \in Probe!On(v) : r.id # e.id}
             kept == {e \in mine : /\ \E r \in probe[p].listed : Probe!EntryOf(r) = e
                                   /\ \E r \in Probe!On(v) : r.id = e.id}
  <1>1. probe[p].pc = "forget" /\ probe[p].pc \in Probe!RemoveSteps /\ probe[p] \in ProbeRuns /\ probe[p].mode = "remove"
        /\ probe[p].pc \notin Probe!Rest /\ Entries(probe[p].led) /\ Entries(ledger) /\ probe[p].held \in BOOLEAN
        /\ probe[p].unread \in BOOLEAN
    BY DEF Probe!Forgets, Probe!At, Probe!RemoveSteps, ProbeInv, Moded, Reach, Probe!Rest, Probe!Exits, ProbeRuns
  <1>2. UNCHANGED <<roles, grants, numbered, own, roleOthers, roleTorn>>
    BY DEF Probe!Forgets, Probe!VCenter, Probe!Rests
  <1>3. roleFaults' \in 0 .. MaxFaults
    BY ProbeFaults DEF Probe!Forgets
  <1>4. PICK left : left = probe[p].led \ gone
    OBVIOUS
  <1>5. PICK found \in BOOLEAN : found = (kept # {})
    OBVIOUS
  \* What is gone names none of this script's roles that are there.
  <1>6. ASSUME Together <= 1, ~roleTorn, NEW r \in roles, Mine(r.vc, r.id)
        PROVE  Probe!EntryOf(r) \in ledger /\ Probe!EntryOf(r) \in left
    <2>1. ProbeRecord
      BY <1>6 DEF ProbeInv
    <2>2. \A q \in Runs : probe[q].pc # "record"
      BY <1>1, <2>1 DEF ProbeRecord, Probe!Rest, Probe!Exits
    <2>3. Probe!EntryOf(r) \in ledger /\ Probe!EntryOf(r) \in probe[p].led
      BY <1>1, <1>6, <2>1, <2>2 DEF ProbeRecord, Entered
    <2>4. Probe!EntryOf(r).vc = r.vc /\ Probe!EntryOf(r).id = r.id
      BY DEF Probe!EntryOf
    <2>5. r.vc = v => \E s \in probe[p].listed : Probe!EntryOf(s) = Probe!EntryOf(r)
      BY <1>1, <1>6, <2>1 DEF ProbeRecord, Kept
    <2>6. Probe!EntryOf(r) \notin gone
      BY <2>4, <2>5 DEF Probe!Ours, Probe!On
    <2> QED BY <1>4, <2>3, <2>6
  <1>7. left \in SUBSET Probe!Entry /\ Entries(left)
    BY <1>1, <1>4 DEF Entries
  \* The last: what was read of a vCenter that holds nothing of these names.
  <1>8. ASSUME ~found, \A r \in Probe!On(v) : /\ Probe!EntryOf(r) \in probe[p].led
                                               /\ \E s \in probe[p].listed : Probe!EntryOf(s) = Probe!EntryOf(r)
        PROVE  Probe!On(v) = {} /\ Probe!Ours(left, v) = {}
    <2>1. \A r \in Probe!On(v) : FALSE
      <3> SUFFICES ASSUME NEW r \in Probe!On(v) PROVE FALSE
        OBVIOUS
      <3>1. Probe!EntryOf(r).vc = v /\ Probe!EntryOf(r).id = r.id
        BY DEF Probe!EntryOf, Probe!On
      <3>2. Probe!EntryOf(r) \in mine
        BY <1>8, <3>1 DEF Probe!Ours
      <3>3. Probe!EntryOf(r) \in kept
        BY <1>8, <3>1, <3>2
      <3> QED BY <1>5, <1>8, <3>3
    <2>2. \A e \in mine : e \in gone
      BY <2>1
    <2>3. Probe!Ours(left, v) = {}
      BY <1>4, <2>2 DEF Probe!Ours
    <2> QED BY <2>1, <2>3
  <1>13. gone = {} => left = probe[p].led
    BY <1>4
  <1> HIDE DEF kept, gone, mine
  <1>9. ASSUME NEW led \in {probe[p].led, left}, NEW held \in BOOLEAN, NEW unread \in BOOLEAN, NEW k,
               k = [probe[p] EXCEPT !.pc = "host", !.held = held, !.led = led, !.unread = unread], Probe!Knows(p, k),
               probe[p].unread => unread, ledger' \in {ledger, left},
               \/ unread
               \/ /\ led = left /\ (~held => ~probe[p].held /\ ~found)
                  /\ ledger' = left \/ (ledger' = ledger /\ left = probe[p].led)
        PROVE  ProbeInv'
    <2>1. /\ k \in ProbeRuns /\ k.pc = "host" /\ k.held = held /\ k.led = led /\ k.unread = unread /\ k.mode = "remove"
          /\ k.vc = v /\ k.listed = probe[p].listed /\ k.alone = probe[p].alone
      BY <1>1, <1>7, <1>9 DEF ProbeRuns, Probe!RemoveSteps
    <2>2. Turns(p) /\ probe'[p] = k
      BY <1>9, <2>1, ProbeKnows
    <2>3. Entries(probe[p].led)' /\ Entries(ledger)'
      BY <1>1, <1>2, <1>7, <1>9, <2>1, <2>2 DEF Entries, Mine
    <2>4. ASSUME probe[p].alone PROVE ProbeFit(probe[p])'
      <3>1. ProbeFit(probe[p])
        BY <2>4 DEF ProbeInv
      <3>2. probe'[p].led = ledger' \/ unread
        BY <1>9, <2>1, <2>2, <3>1 DEF ProbeFit
      <3>3. ~held /\ ~unread => Probe!On(v) = {} /\ Probe!Ours(left, v) = {}
        BY <1>1, <1>8, <1>9, <3>1 DEF ProbeFit
      <3>4. ~unread => ledger' = left
        BY <1>1, <1>9, <3>1 DEF ProbeFit
      <3>5. Probe!On(v)' = Probe!On(v) /\ v' = v
        BY <1>2, <2>1, <2>2 DEF Probe!On
      <3>6. ~held /\ ~unread => Probe!On(probe[p].vc)' = {} /\ Probe!Ours(ledger, probe[p].vc)' = {}
        BY <2>1, <2>2, <3>3, <3>4, <3>5 DEF Probe!Ours
      <3> QED BY <2>1, <2>2, <3>2, <3>6 DEF ProbeFit, Bare
    <2>5. ASSUME Together <= 1 PROVE ProbeRecord'
      <3>1. ProbeRecord
        BY <2>5 DEF ProbeInv
      <3>2. \A q \in Runs \ {p} : probe'[q] = probe[q] /\ probe[q].pc \in Probe!Rest
        BY <1>1, <2>2, <3>1 DEF ProbeRecord, Turns
      <3>3. \A q \in Runs : Kept(probe[q])'
        BY <2>1, <2>2, <3>2 DEF Kept, Probe!Rest, Probe!Exits
      <3>4. ASSUME ~roleTorn', NEW r \in roles', Mine(r.vc, r.id)'
            PROVE  /\ Entered(ledger, r)'
                   /\ \A q \in Runs : probe'[q].pc \notin Probe!Rest => Entered(probe[q].led, r)'
        <4>1. Probe!EntryOf(r) \in ledger /\ Probe!EntryOf(r) \in left
          BY <1>2, <1>6, <2>5, <3>4 DEF Mine
        <4>2. Probe!EntryOf(r) \in probe[p].led
          BY <1>4, <4>1
        <4>3. Probe!EntryOf(r) \in ledger' /\ Probe!EntryOf(r) \in probe'[p].led
          BY <1>9, <2>1, <2>2, <4>1, <4>2
        <4> QED BY <3>2, <4>3 DEF Entered
      <3> QED BY <3>2, <3>3, <3>4 DEF ProbeRecord
    <2>6. Platform' /\ probe'[p].pc \in Probe!RemoveSteps /\ probe'[p].pc # "drop"
      BY <1>2, <2>1, <2>2, ProbeCalm DEF Probe!RemoveSteps
    <2> QED BY <1>1, <1>2, <1>3, <2>1, <2>2, <2>3, <2>4, <2>5, <2>6, ProbeRemovesOn
  <1>10. CASE /\ ledger' = (IF gone = {} THEN ledger ELSE probe[p].led \ gone)
              /\ Probe!Knows(p, [probe[p] EXCEPT !.pc = "host", !.held = @ \/ kept # {}, !.led = @ \ gone])
    <2>1. PICK held \in BOOLEAN : held = (probe[p].held \/ kept # {})
      OBVIOUS
    <2> DEFINE k == [probe[p] EXCEPT !.pc = "host", !.held = held, !.led = left, !.unread = probe[p].unread]
    <2>2. Probe!Knows(p, [probe[p] EXCEPT !.pc = "host", !.held = held, !.led = left])
      BY <1>4, <1>10, <2>1
    <2>3. k = [probe[p] EXCEPT !.pc = "host", !.held = held, !.led = left]
      BY <1>1 DEF ProbeRuns
    <2>4. Probe!Knows(p, k)
      BY <2>2, <2>3
    <2>5. ledger' = left \/ (ledger' = ledger /\ left = probe[p].led)
      BY <1>4, <1>10, <1>13
    <2>6. ~held => ~probe[p].held /\ ~found
      BY <1>5, <2>1
    <2>7. k = [probe[p] EXCEPT !.pc = "host", !.held = held, !.led = left, !.unread = probe[p].unread]
      OBVIOUS
    <2> HIDE DEF k
    <2> QED BY <1>1, <1>9, <2>4, <2>5, <2>6, <2>7
  <1>11. CASE /\ ledger' \in {ledger, IF gone = {} THEN ledger ELSE probe[p].led \ gone}
              /\ Probe!Knows(p, [[probe[p] EXCEPT !.pc = "host", !.held = @ \/ kept # {}, !.led = @ \ gone]
                                   EXCEPT !.unread = TRUE])
    <2>1. PICK held \in BOOLEAN : held = (probe[p].held \/ kept # {})
      OBVIOUS
    <2> DEFINE k == [probe[p] EXCEPT !.pc = "host", !.held = held, !.led = left, !.unread = TRUE]
    <2>2. Probe!Knows(p, [[probe[p] EXCEPT !.pc = "host", !.held = held, !.led = left] EXCEPT !.unread = TRUE])
      BY <1>4, <1>11, <2>1
    <2>3. k = [[probe[p] EXCEPT !.pc = "host", !.held = held, !.led = left] EXCEPT !.unread = TRUE]
      BY <1>1 DEF ProbeRuns
    <2>4. Probe!Knows(p, k)
      BY <2>2, <2>3
    <2>5. ledger' \in {ledger, left}
      BY <1>4, <1>11
    <2>7. k = [probe[p] EXCEPT !.pc = "host", !.held = held, !.led = left, !.unread = TRUE]
      OBVIOUS
    <2> HIDE DEF k
    <2> QED BY <1>1, <1>9, <2>4, <2>5, <2>7
  <1>12. CASE UNCHANGED ledger /\ Probe!Knows(p, [probe[p] EXCEPT !.pc = "host", !.unread = TRUE])
    <2> DEFINE k == [probe[p] EXCEPT !.pc = "host", !.held = probe[p].held, !.led = probe[p].led, !.unread = TRUE]
    <2>1. k = [probe[p] EXCEPT !.pc = "host", !.unread = TRUE]
      BY <1>1 DEF ProbeRuns
    <2>2. Probe!Knows(p, k)
      BY <1>12, <2>1
    <2>3. k = [probe[p] EXCEPT !.pc = "host", !.held = probe[p].held, !.led = probe[p].led, !.unread = TRUE]
      OBVIOUS
    <2> HIDE DEF k
    <2> QED BY <1>1, <1>9, <1>12, <2>2, <2>3
  <1> QED BY <1>10, <1>11, <1>12 DEF Probe!Forgets, kept, gone, mine

LEMMA ProbeDies ==
  ASSUME ProbeInv, NEW p \in Runs, Probe!Dies(p) PROVE ProbeInv'
  <1> USE ProbeHave
  <1>1. probe[p].pc \notin Probe!Rest
    BY ProbeAt
  <1>2. UNCHANGED <<roles, ledger, numbered, roleOthers, own>> /\ grants' = Probe!Left(p)
    BY DEF Probe!Dies
  <1>3. roleFaults' \in 0 .. MaxFaults
    BY ProbeFaults DEF Probe!Dies
  <1>4. roleTorn' = (roleTorn \/ probe[p].pc = "record") /\ roleTorn' \in BOOLEAN
    BY DEF Probe!Dies, Probe!At
  <1>5. probe' = [probe EXCEPT ![p] = Probe!Idle]
    BY DEF Probe!Dies
  <1>6. Turns(p) /\ probe'[p] = Probe!Idle
    BY <1>5, ProbeIdle DEF Turns
  <1>7. Platform' /\ (\A g \in grants' : g.on # p) /\ (\A g \in grants' : g.on \in Runs => g \in grants)
    BY <1>2, ProbeLeft
  <1>8. Entries(ledger)'
    BY <1>2 DEF ProbeInv, Entries, Mine
  <1>9. Moded(probe[p])' /\ Reach(probe[p])' /\ Kept(probe[p])' /\ ~probe'[p].alone
    BY <1>6, ProbeIdle DEF Moded, Reach, Kept, Entries, Probe!ProbeSteps, Probe!RemoveSteps
  <1>10. ASSUME Together <= 1 PROVE ProbeRecord'
    <2>1. ProbeRecord
      BY <1>10 DEF ProbeInv
    <2>2. \A q \in Runs \ {p} : probe'[q] = probe[q] /\ probe[q].pc \in Probe!Rest
      BY <1>1, <1>6, <2>1 DEF ProbeRecord, Turns
    <2>3. \A q \in Runs : probe'[q].pc \in Probe!Rest /\ (q # p => probe[q].pc # "record")
      BY <1>6, <2>2, ProbeIdle DEF Probe!Rest, Probe!Exits
    <2>4. \A q \in Runs : Kept(probe[q])'
      BY <1>9, <2>2 DEF Kept, Probe!Rest, Probe!Exits
    <2>5. ~roleTorn' => ~roleTorn /\ probe[p].pc # "record"
      BY <1>4, Zenon
    <2>6. ASSUME ~roleTorn', NEW r \in roles', Mine(r.vc, r.id)' PROVE Entered(ledger, r)'
      <3>1. Mine(r.vc, r.id) /\ r \in roles
        BY <1>2, <2>6 DEF Mine
      <3>2. Entered(ledger, r)
        BY <2>1, <2>5, <2>6, <3>1 DEF ProbeRecord
      <3>3. Probe!EntryOf(r) \in ledger
        BY <2>3, <2>5, <2>6, <3>2 DEF Entered
      <3> QED BY <1>2, <3>3 DEF Entered
    <2> QED BY <2>3, <2>4, <2>6 DEF ProbeRecord
  <1> QED BY <1>1, <1>2, <1>3, <1>4, <1>6, <1>7, <1>8, <1>9, <1>10, ProbeMoves

\* A run that is no longer alone is as it was otherwise.
LEMMA ProbeCrowded ==
  ASSUME probe \in [Runs -> ProbeRuns], NEW q \in Runs, probe'[q] = [probe[q] EXCEPT !.alone = FALSE]
  PROVE  /\ probe'[q] \in ProbeRuns /\ ~probe'[q].alone /\ probe'[q].pc = probe[q].pc /\ probe'[q].mode = probe[q].mode
         /\ probe'[q].vc = probe[q].vc /\ probe'[q].led = probe[q].led /\ probe'[q].listed = probe[q].listed
         /\ probe'[q].ids = probe[q].ids /\ probe'[q].new = probe[q].new
  <1>1. probe[q] \in ProbeRuns
    OBVIOUS
  <1> QED BY <1>1 DEF ProbeRuns

LEMMA ProbeOthers ==
  ASSUME ProbeInv, Probe!Others PROVE ProbeInv'
  <1> USE ProbeHave
  <1>1. UNCHANGED <<ledger, roleFaults, own, roleTorn>> /\ roleOthers' \in 0 .. MaxOthers
    BY DEF Probe!Others
  <1>2. probe' = [p \in Runs |-> [probe[p] EXCEPT !.alone = FALSE]]
    BY DEF Probe!Others
  <1>3. \A q \in Runs :
          /\ probe'[q] \in ProbeRuns /\ ~probe'[q].alone /\ probe'[q].pc = probe[q].pc /\ probe'[q].mode = probe[q].mode
          /\ probe'[q].vc = probe[q].vc /\ probe'[q].led = probe[q].led /\ probe'[q].listed = probe[q].listed
          /\ probe'[q].ids = probe[q].ids /\ probe'[q].new = probe[q].new
    <2>1. \A q \in Runs : probe'[q] = [probe[q] EXCEPT !.alone = FALSE]
      BY <1>2
    <2> QED BY <2>1, ProbeCrowded
  <1>4. /\ Platform'
        /\ \A x \in roles' : Mine(x.vc, x.id) => \E s \in roles : Probe!EntryOf(s) = Probe!EntryOf(x)
        /\ \A g \in grants' : g.on \in Runs => g \in grants
    <2>1. ASSUME NEW v \in VCs, NEW n \in Names, NEW fits \in BOOLEAN, \A r \in Probe!On(v) : r.name # n,
                 numbered[v] < MaxRoles, numbered' = [numbered EXCEPT ![v] = @ + 1],
                 roles' = roles \cup {[vc |-> v, name |-> n, id |-> numbered'[v], fits |-> fits]}, UNCHANGED grants
          PROVE  /\ Platform'
                 /\ \A x \in roles' : Mine(x.vc, x.id) => \E s \in roles : Probe!EntryOf(s) = Probe!EntryOf(x)
      <3>1. PICK i : i = numbered[v] + 1
        OBVIOUS
      <3>2. PICK r : r = [vc |-> v, name |-> n, id |-> i, fits |-> fits]
        OBVIOUS
      <3>3. numbered' = [numbered EXCEPT ![v] = i] /\ i \in 1 .. MaxRoles /\ numbered'[v] = i
        BY <2>1, <3>1 DEF Platform
      <3>4. r \in Probe!Role /\ r.vc = v /\ r.name = n /\ r.id = i /\ roles' = roles \cup {r}
        BY <2>1, <3>2, <3>3 DEF Probe!Role
      <3>5. Platform' /\ ~Mine(r.vc, r.id)
        BY <1>1, <2>1, <3>1, <3>3, <3>4, ProbeNewRole DEF Probe!On
      <3>6. \A x \in roles' : Mine(x.vc, x.id) => x \in roles
        BY <3>4, <3>5
      <3> QED BY <3>5, <3>6
    <2>2. ASSUME NEW r \in roles, UNCHANGED numbered, UNCHANGED grants,
                 roles' = (roles \ {r}) \cup {[r EXCEPT !.fits = ~@]}
          PROVE  /\ Platform'
                 /\ \A x \in roles' : \E s \in roles : Probe!EntryOf(s) = Probe!EntryOf(x)
      <3>8. PICK fits \in BOOLEAN : fits = ~r.fits
        OBVIOUS
      <3>1. PICK new : new = [r EXCEPT !.fits = fits]
        OBVIOUS
      <3>2. new \in Probe!Role /\ new.vc = r.vc /\ new.name = r.name /\ new.id = r.id
        BY <3>1 DEF Platform, Probe!Role
      <3>3. roles' = (roles \ {r}) \cup {new}
        BY <2>2, <3>1, <3>8
      <3>4. roles' \subseteq Probe!Role
        BY <3>2, <3>3 DEF Platform
      <3>5. \A x, y \in roles' : x.vc = y.vc /\ x.id = y.id => x = y
        BY <3>2, <3>3 DEF Platform
      <3>6. \A x \in roles' : \E s \in roles : s.vc = x.vc /\ s.name = x.name /\ s.id = x.id
        BY <3>2, <3>3
      <3>7. \A s \in roles : \E x \in roles' : s.vc = x.vc /\ s.name = x.name /\ s.id = x.id
        BY <3>2, <3>3
      <3> QED BY <1>1, <2>2, <3>4, <3>5, <3>6, <3>7, ProbeRefits
    <2>3. ASSUME NEW r \in roles, UNCHANGED numbered, roles' = roles \ {r},
                 grants' = {g \in grants : g.vc # r.vc \/ g.id # r.id}
          PROVE  Platform'
      BY <1>1, <2>3 DEF Platform
    <2>4. ASSUME NEW r \in roles, UNCHANGED numbered, UNCHANGED roles,
                 grants' = grants \cup {[vc |-> r.vc, id |-> r.id, on |-> "elsewhere"]}
          PROVE  Platform' /\ \A g \in grants' : g.on \in Runs => g \in grants
      <3>1. PICK new : new = [vc |-> r.vc, id |-> r.id, on |-> "elsewhere"]
        OBVIOUS
      <3>2. new \in Probe!Grant /\ new.vc = r.vc /\ new.id = r.id /\ new.on \notin Runs /\ grants' = grants \cup {new}
        BY <2>4, <3>1, ProbeNumbers DEF Platform, Probe!Role, Probe!Grant
      <3> QED BY <1>1, <2>4, <3>2 DEF Platform
    <2>5. ASSUME NEW g \in grants, grants' = grants \ {g}, UNCHANGED <<roles, numbered>>
          PROVE  Platform'
      BY <1>1, <2>5 DEF Platform
    <2> QED BY <2>1, <2>2, <2>3, <2>4, <2>5 DEF Probe!Others
  <1>5. Probe!TypeOK'
    <2>1. probe' \in [Runs -> ProbeRuns]
      BY <1>2, <1>3
    <2>2. ledger' \subseteq Probe!Entry /\ \A e, f \in ledger' : e.vc = f.vc /\ e.name = f.name => e = f
      BY <1>1 DEF Entries
    <2> QED BY <1>1, <1>4, <2>1, <2>2 DEF Probe!TypeOK, ProbeRuns, Platform
  <1>6. \A q \in Runs : /\ Moded(probe[q])' /\ Reach(probe[q])'
                        /\ probe'[q].pc \notin {"measured", "destroy"} => \A g \in grants' : g.on # q
    BY <1>1, <1>3, <1>4 DEF ProbeInv, Moded, Reach, Entries, Mine
  <1>7. ASSUME Together <= 1 PROVE ProbeRecord'
    <2>1. ProbeRecord
      BY <1>7 DEF ProbeInv
    <2>2. \A led : \A r : \A s : Probe!EntryOf(s) = Probe!EntryOf(r) /\ Entered(led, s) => Entered(led, r)'
      BY <1>3 DEF Entered
    <2>3. ASSUME ~roleTorn', NEW r \in roles', Mine(r.vc, r.id)'
          PROVE  /\ Entered(ledger, r)'
                 /\ \A q \in Runs : probe'[q].pc \notin Probe!Rest => Entered(probe[q].led, r)'
      <3>1. PICK s \in roles : Probe!EntryOf(s) = Probe!EntryOf(r)
        BY <1>1, <1>4, <2>3 DEF Mine
      <3>2. s.vc = r.vc /\ s.id = r.id
        BY <3>1 DEF Probe!EntryOf
      <3>3. Mine(s.vc, s.id)
        BY <1>1, <2>3, <3>2 DEF Mine
      <3>4. Entered(ledger, s) /\ \A q \in Runs : probe[q].pc \notin Probe!Rest => Entered(probe[q].led, s)
        BY <1>1, <2>1, <2>3, <3>3 DEF ProbeRecord
      <3>5. Entered(ledger, r)' /\ \A q \in Runs : probe[q].pc \notin Probe!Rest => Entered(probe[q].led, r)'
        BY <1>1, <1>3, <2>2, <3>1, <3>4
      <3> QED BY <1>3, <3>5
    <2>4. ASSUME NEW q \in Runs PROVE Kept(probe[q])'
      <3>1. \A r \in roles' : Mine(r.vc, r.id)' =>
              \E s \in roles : /\ Mine(s.vc, s.id) /\ s.vc = r.vc /\ s.name = r.name /\ s.id = r.id
                               /\ Probe!EntryOf(s) = Probe!EntryOf(r)
        BY <1>1, <1>4 DEF Probe!EntryOf, Mine
      <3>2. Kept(probe[q])
        BY <2>1 DEF ProbeRecord
      <3> QED BY <1>3, <3>1, <3>2 DEF Kept
    <2> QED BY <1>3, <2>1, <2>3, <2>4 DEF ProbeRecord
  <1>8. Entries(ledger)' /\ (\A r \in roles' : r.id <= numbered'[r.vc]) /\ \A o \in own' : o.id <= numbered'[o.vc]
    BY <1>1, <1>4 DEF Platform, Entries, Mine
  <1> QED BY <1>1, <1>3, <1>4, <1>5, <1>6, <1>7, <1>8 DEF ProbeInv

LEMMA ProbeStarts ==
  ASSUME ProbeInv, NEW p \in Runs, NEW m \in {"probe", "remove", "adopt"}, Probe!Starts(p, m) PROVE ProbeInv'
  <1> USE ProbeHave
  <1> DEFINE none == Probe!Busy = {}
             First(k) == [Probe!Idle EXCEPT !.pc = k.pc, !.mode = m, !.vc = k.vc, !.need = k.need, !.new = k.new,
                                            !.hosts = k.hosts, !.led = ledger, !.alone = none]
  <1>1. probe[p].pc \in Probe!Rest /\ (none => \A q \in Runs : probe[q].pc \in Probe!Rest)
    BY DEF Probe!Starts, Probe!Busy
  <1>2. UNCHANGED <<roles, grants, ledger, numbered, roleFaults, roleOthers, own, roleTorn>>
    BY DEF Probe!Starts
  <1>3. PICK k :
          /\ k \in CASE m = "probe" -> [pc : {"look"}, vc : VCs, need : (SUBSET Names) \ {{}}, new : {Probe!NoRole},
                                        hosts : {{}}]
                     [] m = "remove" -> [pc : {"host"}, vc : {Probe!NoRole.vc}, need : {{}}, new : {Probe!NoRole},
                                         hosts : (SUBSET VCs) \ {{}}]
                     [] OTHER -> [pc : {"claim"}, vc : VCs, need : {{}}, new : roles, hosts : {{}}]
          /\ m = "adopt" => k.vc = k.new.vc
          /\ probe' = [q \in Runs |-> IF q = p THEN First(k) ELSE [probe[q] EXCEPT !.alone = FALSE]]
    BY Zenon DEF Probe!Starts
  <1>4. /\ k.vc \in VCs /\ k.need \in SUBSET Names /\ k.new \in Probe!Role \cup {Probe!NoRole} /\ k.hosts \in SUBSET VCs
        /\ \/ m = "probe" /\ k.pc = "look"
           \/ m = "remove" /\ k.pc = "host" /\ k.hosts # {}
           \/ m = "adopt" /\ k.pc = "claim" /\ k.vc = k.new.vc
    <2>1. CASE m = "probe"
      BY <1>3, <2>1, ProbeNone
    <2>2. CASE m = "remove"
      <3>1. k \in [pc : {"host"}, vc : {Probe!NoRole.vc}, need : {{}}, new : {Probe!NoRole},
                   hosts : (SUBSET VCs) \ {{}}]
        BY <1>3, <2>2
      <3>2. k.pc = "host" /\ k.vc = Probe!NoRole.vc /\ k.need = {} /\ k.new = Probe!NoRole
            /\ k.hosts \in (SUBSET VCs) \ {{}}
        BY <3>1
      <3> QED BY <2>2, <3>2, ProbeNone
    <2>3. CASE m = "adopt"
      BY <1>3, <2>3, ProbeNone DEF Platform
    <2> QED BY <2>1, <2>2, <2>3
  <1>5. none \in BOOLEAN /\ ledger \in SUBSET Probe!Entry
    BY DEF Entries
  <1> HIDE DEF none
  <1>6. PICK first : first = First(k)
    OBVIOUS
  <1>7. /\ first \in ProbeRuns /\ first.pc = k.pc /\ first.mode = m /\ first.vc = k.vc /\ first.new = k.new
        /\ first.hosts = k.hosts /\ first.led = ledger /\ first.alone = none /\ first.listed = {}
    BY <1>4, <1>5, <1>6, ProbeIdle DEF ProbeRuns, Probe!ProbeSteps, Probe!RemoveSteps
  <1>8. probe' = [q \in Runs |-> IF q = p THEN first ELSE [probe[q] EXCEPT !.alone = FALSE]]
    BY <1>3, <1>6
  <1> HIDE DEF First
  <1>9. probe'[p] = first
    BY <1>8
  <1>10. \A q \in Runs \ {p} :
          /\ probe'[q] \in ProbeRuns /\ ~probe'[q].alone /\ probe'[q].pc = probe[q].pc /\ probe'[q].mode = probe[q].mode
          /\ probe'[q].vc = probe[q].vc /\ probe'[q].led = probe[q].led /\ probe'[q].listed = probe[q].listed
          /\ probe'[q].ids = probe[q].ids /\ probe'[q].new = probe[q].new
    <2>1. \A q \in Runs \ {p} : probe'[q] = [probe[q] EXCEPT !.alone = FALSE]
      BY <1>8
    <2> QED BY <2>1, ProbeCrowded
  <1>11. Probe!TypeOK'
    <2>1. probe' \in [Runs -> ProbeRuns]
      BY <1>7, <1>8, <1>9, <1>10
    <2>2. ledger' \subseteq Probe!Entry /\ \A e, f \in ledger' : e.vc = f.vc /\ e.name = f.name => e = f
      BY <1>2 DEF Entries
    <2>3. Platform'
      BY <1>2, ProbeCalm
    <2> QED BY <1>2, <2>1, <2>2, <2>3 DEF Probe!TypeOK, ProbeRuns, Platform
  <1>12. \A q, o \in Runs : probe'[q].alone /\ q # o => probe'[o].pc \in Probe!Rest /\ ~probe'[o].alone
    BY <1>1, <1>7, <1>9, <1>10
  <1>13. Moded(probe[p])' /\ Reach(probe[p])' /\ ProbeFit(probe[p])' /\ Kept(probe[p])'
    <2>1. Entries(first.led)'
      BY <1>2, <1>7 DEF Entries, Mine
    <2>2. Moded(probe[p])' /\ Kept(probe[p])'
      BY <1>4, <1>7, <1>9 DEF Moded, Kept, Probe!ProbeSteps, Probe!RemoveSteps
    <2>3. Reach(probe[p])'
      BY <1>4, <1>7, <1>9, <2>1 DEF Reach
    <2>4. ProbeFit(probe[p])'
      BY <1>2, <1>4, <1>7, <1>9 DEF ProbeFit
    <2> QED BY <2>2, <2>3, <2>4
  <1>14. \A q \in Runs \ {p} : /\ Moded(probe[q])' /\ Reach(probe[q])'
                               /\ probe'[q].pc \notin {"measured", "destroy"} => \A g \in grants' : g.on # q
    BY <1>2, <1>10 DEF ProbeInv, Moded, Reach, Entries, Mine
  <1>15. \A g \in grants' : g.on # p
    BY <1>1, <1>2 DEF ProbeInv, Probe!Rest, Probe!Exits
  <1>16. ASSUME Together <= 1 PROVE ProbeRecord'
    <2>1. ProbeRecord
      BY <1>16 DEF ProbeInv
    <2>2. \A q \in Runs : probe[q].pc \in Probe!Rest
      <3>1. IsFiniteSet(Probe!Busy)
        BY ProbeNumbers, FS_Subset DEF Probe!Busy
      <3>2. Cardinality(Probe!Busy) \in Nat
        BY <3>1, FS_CardinalityType
      <3>5. Cardinality(Probe!Busy) < Together
        BY Zenon DEF Probe!Starts, Probe!Cardinality, Cardinality
      <3>3. Cardinality(Probe!Busy) = 0
        BY <1>16, <3>2, <3>5, ProbeNumbers
      <3>4. Probe!Busy = {}
        BY <3>1, <3>3, FS_EmptySet
      <3> QED BY <3>4 DEF Probe!Busy
    <2>3. \A q \in Runs : probe[q].pc # "record" /\ (q # p => probe'[q].pc \in Probe!Rest)
      BY <1>10, <2>2 DEF Probe!Rest, Probe!Exits
    <2>4. \A q \in Runs : Kept(probe[q])'
      BY <1>13, <2>3 DEF Kept, Probe!Rest, Probe!Exits
    <2>5. ASSUME ~roleTorn', NEW r \in roles', Mine(r.vc, r.id)'
          PROVE  /\ Entered(ledger, r)'
                 /\ \A q \in Runs : probe'[q].pc \notin Probe!Rest => Entered(probe[q].led, r)'
      <3>1. Mine(r.vc, r.id) /\ r \in roles /\ ~roleTorn
        BY <1>2, <2>5 DEF Mine
      <3>2. Probe!EntryOf(r) \in ledger
        BY <2>1, <2>3, <3>1 DEF ProbeRecord, Entered
      <3> QED BY <1>2, <1>7, <1>9, <2>3, <3>2 DEF Entered
    <2> QED BY <2>3, <2>4, <2>5 DEF ProbeRecord
  <1>17. Entries(ledger)' /\ (\A r \in roles' : r.id <= numbered'[r.vc]) /\ \A o \in own' : o.id <= numbered'[o.vc]
    BY <1>2 DEF ProbeInv, Entries, Mine
  <1>18. \A q \in Runs : probe'[q].alone => ProbeFit(probe[q])'
    BY <1>10, <1>13
  <1> QED BY <1>11, <1>12, <1>13, <1>14, <1>15, <1>16, <1>17, <1>18 DEF ProbeInv

LEMMA ProbeStep == ProbeInv /\ Probe!Next => ProbeInv'
  BY ProbeStarts, ProbeOthers, ProbeDies, ProbeLooks, ProbePlans, ProbePresaves, ProbeEnsures, ProbeRecords, ProbeFolder,
     ProbeGrants, ProbeTakesBack, ProbeDestroys, ProbeResidue, ProbeNextHost, ProbeRefuses, ProbeDrops, ProbeForgets,
     ProbeClaims DEF Probe!Next, Probe!Step

LEMMA ProbeStay == ProbeInv /\ UNCHANGED role => ProbeInv'
  <1> SUFFICES ASSUME ProbeInv, UNCHANGED role PROVE ProbeInv'
    OBVIOUS
  <1>1. UNCHANGED <<roles, grants, ledger, probe, numbered, roleFaults, roleOthers, own, roleTorn>>
    BY DEF role
  <1>2. Probe!TypeOK'
    BY <1>1 DEF ProbeInv, Probe!TypeOK
  <1>3. \A led : Entries(led) => Entries(led)'
    BY <1>1 DEF Entries, Mine
  <1>4. \A p \in Runs : /\ Moded(probe[p]) => Moded(probe[p])'
                        /\ Reach(probe[p]) => Reach(probe[p])'
    BY <1>1 DEF Moded, Reach, Entries, Mine
  <1>5. \A p \in Runs : ProbeFit(probe[p]) => ProbeFit(probe[p])'
    BY <1>1 DEF ProbeFit, Bare, Probe!On, Probe!Ours, Probe!GrantsOfOurs, Probe!Counted
  <1>6. ProbeRecord => ProbeRecord'
    BY <1>1 DEF ProbeRecord, Kept, Entered, Mine
  <1>7. Entries(ledger)'
    BY <1>1 DEF ProbeInv, Entries, Mine
  <1> QED BY <1>1, <1>2, <1>4, <1>5, <1>6, <1>7 DEF ProbeInv

LEMMA ProbeSays ==
  ProbeInv => Probe!TypeOK /\ Probe!ExitZeroIsTrue /\ (Together <= 1 => Probe!MadeIsRecorded)
  <1> SUFFICES ASSUME ProbeInv PROVE Probe!TypeOK /\ Probe!ExitZeroIsTrue /\ (Together <= 1 => Probe!MadeIsRecorded)
    OBVIOUS
  <1>1. Probe!TypeOK
    BY DEF ProbeInv
  <1>2. Probe!ExitZeroIsTrue
    BY DEF ProbeInv, ProbeFit, Bare, Probe!ExitZeroIsTrue, Probe!At
  <1>3. Together <= 1 => Probe!MadeIsRecorded
    BY DEF ProbeInv, ProbeRecord, Entered, Mine, Probe!MadeIsRecorded, Probe!At
  <1> QED BY <1>1, <1>2, <1>3

\* Only the reconciliation and the removal change or take away a role.
LEMMA ProbeKeeps ==
  ASSUME ProbeInv, NEW p \in Runs, Probe!Step(p) \/ Probe!Dies(p)
  PROVE  \A s \in roles \ roles' : Mine(s.vc, s.id)
  <1>1. CASE Probe!Ensures(p)
    BY <1>1, ProbeEnsures
  <1>2. CASE Probe!Drops(p)
    BY <1>2, ProbeDrops
  <1>3. CASE ~Probe!Ensures(p) /\ ~Probe!Drops(p)
    <2>1. UNCHANGED roles
      BY <1>3 DEF Probe!Step, Probe!Looks, Probe!Plans, Probe!Presaves, Probe!Records, Probe!Folder, Probe!Grants,
           Probe!TakesBack, Probe!Destroys, Probe!Residue, Probe!NextHost, Probe!Refuses, Probe!Forgets, Probe!Claims,
           Probe!Dies, Probe!VCenter
    <2> QED BY <2>1
  <1> QED BY <1>1, <1>2, <1>3

LEMMA ProbeActs ==
  ProbeInv /\ Probe!Next =>
    \A p \in Runs : probe[p].pc \in {"ensure", "drop"} /\ probe'[p] # probe[p] /\ roleOthers' = roleOthers =>
      \A r \in roles \ roles' : [vc |-> r.vc, id |-> r.id] \in own
  <1> SUFFICES ASSUME ProbeInv, Probe!Next, roleOthers' = roleOthers
               PROVE  \A r \in roles \ roles' : Mine(r.vc, r.id)
    BY DEF Mine
  <1>1. CASE \E p \in Runs : Probe!Step(p) \/ Probe!Dies(p)
    BY <1>1, ProbeKeeps
  <1>2. ASSUME NEW p \in Runs, NEW m \in {"probe", "remove", "adopt"}, Probe!Starts(p, m) PROVE UNCHANGED roles
    BY <1>2, Zenon DEF Probe!Starts
  <1>3. ~Probe!Others
    <2>1. roleOthers \in Nat
      BY ProbeHave
    <2> QED BY <2>1 DEF Probe!Others
  <1> QED BY <1>1, <1>2, <1>3 DEF Probe!Next

LEMMA ProbeSpares ==
  ProbeInv /\ Probe!Next =>
    \A p \in Runs : Probe!At(p, "drop") /\ probe'[p] # probe[p] /\ probe[p].alone /\ roleOthers' = roleOthers =>
      {g \in grants : g.on = "elsewhere"} \subseteq grants'
  <1> SUFFICES ASSUME ProbeInv, Probe!Next, NEW p \in Runs, probe[p].pc = "drop", probe'[p] # probe[p],
                      probe[p].alone, roleOthers' = roleOthers, NEW g \in grants, g.on = "elsewhere"
               PROVE  g \in grants'
    BY DEF Probe!At
  <1>1. probe[p].pc \notin Probe!Rest /\ \A q \in Runs \ {p} : probe[q].pc \in Probe!Rest
    BY DEF ProbeInv, Probe!Rest, Probe!Exits
  <1>2. ASSUME NEW q \in Runs, Probe!Step(q) \/ Probe!Dies(q) PROVE q = p
    BY <1>1, <1>2, ProbeAt
  <1>3. CASE Probe!Step(p)
    <2>1. Probe!Drops(p)
      BY <1>3 DEF Probe!Step, Probe!Looks, Probe!Plans, Probe!Presaves, Probe!Ensures, Probe!Records, Probe!Folder,
           Probe!Grants, Probe!TakesBack, Probe!Destroys, Probe!Residue, Probe!NextHost, Probe!Refuses, Probe!Forgets,
           Probe!Claims, Probe!At
    <2> QED BY <2>1, ProbeDrops
  <1>4. CASE Probe!Dies(p)
    <2>1. g.on # p
      BY ProbeNumbers
    <2> QED BY <1>4, <2>1, Zenon DEF Probe!Dies, Probe!Left
  <1>5. ASSUME NEW q \in Runs, NEW m \in {"probe", "remove", "adopt"}, Probe!Starts(q, m) PROVE UNCHANGED grants
    BY <1>5, Zenon DEF Probe!Starts
  <1>6. ~Probe!Others
    <2>1. roleOthers \in Nat
      BY ProbeHave
    <2> QED BY <2>1 DEF Probe!Others
  <1> QED BY <1>2, <1>3, <1>4, <1>5, <1>6 DEF Probe!Next

-----------------------------------------------------------------------------
(* The throwaway organization (Federation): what the file of a run records, and the key of its users. *)

FedRuns ==
  [pc : Fed!Rest \cup Fed!Steps \cup Fed!DownSteps, mode : {"build", "teardown"}, key : {Fed!NoKey} \cup Keys,
   kind : Fed!Kinds, st : [Fed!Kinds -> {0} \cup Fed!Id], sent : BOOLEAN, alone : BOOLEAN]

FedWriting == {"save", "write"}

\* A state file names what a run was told it made.
Known(st) == \A k \in Fed!Kinds : st[k] \in fedOwn \cup {0}

\* A step belongs to a mode, and a mode to a key.
FedModed(k) ==
  /\ k.pc \in Fed!Steps => k.mode = "build" /\ k.key # Fed!NoKey
  /\ k.pc \in Fed!DownSteps => k.mode = "teardown"
  /\ k.pc = "take" => k.kind = "org"

\* What a run has settled of the organization: the key it may write is the one there, if any is.
Unsettled(k) == k.pc \in {"find", "make", "take"} /\ k.kind = "org"
OrgFit(k) ==
  /\ k.pc \in {"make", "take"} /\ k.kind = "org" => org.key = Fed!NoKey
  /\ k.pc \in Fed!Steps /\ ~Unsettled(k) =>
       k.st["org"] # 0 /\ (k.st["org"] = org.id => org.key \in {Fed!NoKey, k.key})

\* A run that was left alone.
FedFit(k) ==
  /\ k.mode = "build" /\ k.pc \in {"settings", "import", "exit0"} =>
       {a \in assigned : a.app = k.st["app"]} = {[app |-> k.st["app"], to |-> k.st["group"]]}
  /\ k.mode = "build" /\ k.pc \in {"import", "exit0"} => org.id = k.st["org"] /\ org.key = k.key
  /\ k.mode = "build" /\ k.pc = "exit0" => org.imported # "no"
  /\ k.mode = "teardown" /\ k.pc = "exit0" => org.id = 0 /\ \A o \in dir \cup bin : o.id # k.st[o.kind]
  /\ k.pc = "exit0" => k.st = orgState

\* What a run was told it made, and that is still there, is in that file.
Records(st) ==
  (org.id \in fedOwn => st["org"] = org.id) /\ \A o \in dir \cup bin : o.id \in fedOwn => st[o.kind] = o.id

FedRecord ==
  ~fedTorn /\ ~blind =>
    /\ \A p \in Runs : fed[p].pc \in FedWriting => Records(fed[p].st)
    /\ (\A p \in Runs : fed[p].pc \notin FedWriting) => Records(orgState)

\* The organization and the directory: numbers are given once.
FedWorld ==
  /\ org \in [id : {0} \cup Fed!Id, key : {Fed!NoKey} \cup Keys, imported : {"no", "member", "other"}, under : SUBSET Keys]
  /\ dir \subseteq Fed!Object /\ bin \subseteq Fed!Object /\ old \subseteq Fed!Object
  /\ assigned \subseteq [app : Fed!Id, to : {0} \cup Fed!Id]
  /\ made \in 0 .. MaxIds /\ fedOwn \subseteq 1 .. made
  /\ org.id <= made /\ (org.id = 0 => org = Fed!NoOrg) /\ (org.under # {} => org.key # Fed!NoKey)
  /\ \A o \in dir \cup bin : o.id <= made /\ o.id # org.id

FedInv ==
  /\ Fed!TypeOK /\ FedWorld /\ Known(orgState) /\ FedRecord
  /\ \A p, q \in Runs : fed[p].pc \notin Fed!Rest /\ fed[q].pc \notin Fed!Rest => p = q
  /\ \A p, q \in Runs : fed[p].alone /\ p # q => fed[q].pc \in Fed!Rest /\ ~fed[q].alone
  /\ \A p \in Runs :
       /\ Known(fed[p].st) /\ FedModed(fed[p]) /\ OrgFit(fed[p])
       /\ fed[p].pc \notin Fed!Rest \cup FedWriting => fed[p].st = orgState
       /\ fed[p].alone => FedFit(fed[p])

LEMMA FedNumbers ==
  MaxIds \in Nat /\ MaxFaults \in Nat /\ MaxOthers \in Nat /\ "none" \notin Keys /\ Together \in Nat
  BY OwnershipAssumption DEF OwnershipAssumption

LEMMA FedHave ==
  FedInv =>
    /\ fed \in [Runs -> FedRuns] /\ orgState \in [Fed!Kinds -> {0} \cup Fed!Id]
    /\ fedFaults \in 0 .. MaxFaults /\ fedOthers \in 0 .. MaxOthers /\ fedTorn \in BOOLEAN /\ blind \in BOOLEAN
    /\ MaxIds \in Nat /\ MaxFaults \in Nat /\ MaxOthers \in Nat /\ made \in Nat
  BY FedNumbers DEF FedInv, Fed!TypeOK, FedRuns, FedWorld

LEMMA FedKinds == Fed!Kinds = {"org", "app", "group"}
  BY DEF Fed!Kinds

LEMMA FedNone == Fed!None \in [Fed!Kinds -> {0} \cup Fed!Id] /\ \A k \in Fed!Kinds : Fed!None[k] = 0
  BY DEF Fed!None

LEMMA FedIdle ==
  /\ Fed!Idle \in FedRuns /\ Fed!Idle.pc = "idle" /\ Fed!Idle.st = Fed!None /\ Fed!Idle.kind = "org" /\ ~Fed!Idle.alone
  /\ Fed!Idle.sent = FALSE
  BY FedNone DEF FedRuns, Fed!Idle, Fed!Rest, Fed!Kinds, Fed!NoKey

LEMMA FedBlank ==
  /\ Fed!NoOrg.id = 0 /\ Fed!NoOrg.key = Fed!NoKey /\ Fed!NoOrg.imported = "no" /\ Fed!NoOrg.under = {}
  /\ Fed!NoOrg \in [id : {0} \cup Fed!Id, key : {Fed!NoKey} \cup Keys, imported : {"no", "member", "other"},
                    under : SUBSET Keys]
  BY DEF Fed!NoOrg

LEMMA FedStart == Fed!Init => FedInv
  <1> SUFFICES ASSUME Fed!Init PROVE FedInv
    OBVIOUS
  <1>1. /\ org = Fed!NoOrg /\ dir = {} /\ bin = {} /\ old = {} /\ assigned = {} /\ orgState = Fed!None
        /\ fed = [p \in Runs |-> Fed!Idle] /\ made = 0 /\ fedFaults = 0 /\ fedOthers = 0 /\ fedOwn = {}
        /\ fedTorn = FALSE /\ blind = FALSE
    BY DEF Fed!Init
  <1>2. \A p \in Runs : fed[p] = Fed!Idle
    BY <1>1
  <1>3. FedWorld
    BY <1>1, FedBlank, FedNumbers DEF FedWorld
  <1>4. Fed!TypeOK
    <2>1. fed \in [Runs -> FedRuns]
      BY <1>1, FedIdle
    <2>2. orgState \in [Fed!Kinds -> {0} \cup Fed!Id]
      BY <1>1, FedNone
    <2>3. fedFaults \in 0 .. MaxFaults /\ fedOthers \in 0 .. MaxOthers
      BY <1>1, FedNumbers
    <2>4. fedTorn \in BOOLEAN /\ blind \in BOOLEAN
      BY <1>1
    <2> QED BY <1>3, <2>1, <2>2, <2>3, <2>4 DEF Fed!TypeOK, FedRuns, FedWorld
  <1>5. \A p \in Runs : Known(fed[p].st) /\ FedModed(fed[p]) /\ OrgFit(fed[p]) /\ fed[p].pc \in Fed!Rest
    BY <1>1, <1>2, FedIdle, FedNone DEF Known, FedModed, OrgFit, Fed!Steps, Fed!DownSteps, Fed!Rest
  <1>6. Known(orgState) /\ FedRecord
    BY <1>1, <1>2, FedIdle, FedNone, FedBlank DEF Known, FedRecord, Records, FedWriting
  <1> QED BY <1>2, <1>3, <1>4, <1>5, <1>6, FedIdle DEF FedInv

\* What a run goes on with.
FedTurns(p) == fed' = [fed EXCEPT ![p] = fed'[p]] /\ fed'[p] \in FedRuns
FedStays(p) ==
  /\ fed'[p].mode = fed[p].mode /\ fed'[p].key = fed[p].key /\ fed'[p].st = fed[p].st
  /\ fed'[p].alone = fed[p].alone

FedSteps == Fed!Rest \cup Fed!Steps \cup Fed!DownSteps
FedFails == {"exit1", "exit2", "exit3"}

LEMMA FedGoes ==
  ASSUME fed \in [Runs -> FedRuns], NEW p \in Runs, NEW pc \in FedSteps, Fed!Goes(p, pc)
  PROVE  FedTurns(p) /\ FedStays(p) /\ fed'[p].pc = pc /\ fed'[p].kind = fed[p].kind
  <1>1. fed' = [fed EXCEPT ![p] = [fed[p] EXCEPT !.pc = pc]]
    BY DEF Fed!Goes
  <1>2. fed'[p] = [fed[p] EXCEPT !.pc = pc] /\ fed' = [fed EXCEPT ![p] = fed'[p]] /\ fed[p] \in FedRuns
    BY <1>1
  <1> QED BY <1>2 DEF FedTurns, FedStays, FedRuns, FedSteps

LEMMA FedGoesTo ==
  ASSUME fed \in [Runs -> FedRuns], NEW p \in Runs, NEW pc \in FedSteps, NEW kind \in Fed!Kinds, Fed!To(p, kind, pc)
  PROVE  FedTurns(p) /\ FedStays(p) /\ fed'[p].pc = pc /\ fed'[p].kind = kind
  <1>1. fed' = [fed EXCEPT ![p] = [fed[p] EXCEPT !.kind = kind, !.pc = pc]]
    BY DEF Fed!To
  <1>2. fed'[p] = [fed[p] EXCEPT !.kind = kind, !.pc = pc] /\ fed' = [fed EXCEPT ![p] = fed'[p]] /\ fed[p] \in FedRuns
    BY <1>1
  <1> QED BY <1>2 DEF FedTurns, FedStays, FedRuns, FedSteps

LEMMA FedFaults == FedInv /\ (Fed!Sound \/ Fed!Fault) => fedFaults' \in 0 .. MaxFaults
  BY FedHave DEF Fed!Sound, Fed!Fault

\* What the run that is busy has recorded so far.
LEMMA FedRecorded ==
  ASSUME FedInv, NEW p \in Runs, fed[p].pc \notin Fed!Rest, ~fedTorn, ~blind
  PROVE  Records(fed[p].st)
  <1>1. CASE fed[p].pc \in FedWriting
    BY <1>1 DEF FedInv, FedRecord
  <1>2. CASE fed[p].pc \notin FedWriting
    <2>1. \A q \in Runs : fed[q].pc \notin FedWriting
      BY <1>2 DEF FedInv, FedWriting, Fed!Rest, Fed!Exits
    <2>2. Records(orgState) /\ fed[p].st = orgState
      BY <1>2, <2>1 DEF FedInv, FedRecord
    <2> QED BY <2>2
  <1> QED BY <1>1, <1>2

LEMMA FedMoves ==
  ASSUME FedInv, NEW p \in Runs, fed[p].pc \notin Fed!Rest, FedTurns(p), FedWorld', Known(orgState)',
         orgState' \in [Fed!Kinds -> {0} \cup Fed!Id], fedOwn \subseteq fedOwn', fedFaults' \in 0 .. MaxFaults,
         fedOthers' = fedOthers, fedTorn' \in BOOLEAN, blind' \in BOOLEAN,
         Known(fed[p].st)', FedModed(fed[p])', OrgFit(fed[p])',
         fed'[p].pc \notin Fed!Rest \cup FedWriting => fed'[p].st = orgState',
         fed'[p].alone => fed[p].alone /\ FedFit(fed[p])',
         ~fedTorn' /\ ~blind' => IF fed'[p].pc \in FedWriting THEN Records(fed[p].st)' ELSE Records(orgState)'
  PROVE  FedInv'
  <1> USE FedHave DEF FedTurns
  <1>1. \A q \in Runs \ {p} : fed'[q] = fed[q] /\ ~fed[q].alone /\ fed[q].pc \in Fed!Rest
    BY DEF FedInv
  <1>2. fed' \in [Runs -> FedRuns]
    BY <1>1
  <1>3. Fed!TypeOK'
    BY <1>2 DEF Fed!TypeOK, FedRuns, FedWorld
  <1>4. \A q \in Runs \ {p} : Known(fed[q].st)' /\ FedModed(fed[q])'
    BY <1>1 DEF FedInv, Known, FedModed
  <1>5. \A q \in Runs \ {p} : OrgFit(fed[q])'
    BY <1>1 DEF OrgFit, Fed!Rest, Fed!Exits, Fed!Steps
  <1>6. \A q \in Runs : fed'[q].pc \notin Fed!Rest => q = p
    BY <1>1
  <1>7. \A q \in Runs : fed'[q].pc \in FedWriting => q = p
    BY <1>6 DEF FedWriting, Fed!Rest, Fed!Exits
  <1>8. FedRecord'
    BY <1>7 DEF FedRecord
  <1>9. \A q, o \in Runs : fed'[q].alone /\ q # o => fed'[o].pc \in Fed!Rest /\ ~fed'[o].alone
    BY <1>1 DEF FedInv
  <1>10. \A q \in Runs : fed'[q].alone => FedFit(fed[q])'
    BY <1>1
  <1>11. \A q \in Runs : fed'[q].pc \notin Fed!Rest \cup FedWriting => fed'[q].st = orgState'
    BY <1>6
  <1> QED BY <1>3, <1>4, <1>5, <1>6, <1>8, <1>9, <1>10, <1>11 DEF FedInv

\* The run of an action is not at rest.
LEMMA FedAt ==
  ASSUME FedInv, NEW p \in Runs, Fed!Step(p) \/ Fed!Dies(p)
  PROVE  fed[p].pc \notin Fed!Rest
  BY DEF Fed!Step, Fed!FindsOrg, Fed!MakesOrg, Fed!TakesOrg, Fed!Finds, Fed!Makes, Fed!Saves, Fed!Writes, Fed!Assigns,
       Fed!WritesSettings, Fed!Imports, Fed!Looks, Fed!DropsOrg, Fed!Drops, Fed!Purges, Fed!Residue, Fed!Dies, Fed!At,
       Fed!Busy, Fed!Rest, Fed!Exits

\* A step that enters nothing in the state file: the record stands, as what is new is nothing the run was told of.
LEMMA FedCarries ==
  ASSUME FedInv, NEW p \in Runs, fed[p].pc \notin Fed!Rest \cup FedWriting, FedTurns(p), FedStays(p), FedWorld',
         UNCHANGED <<fedOwn, orgState, fedOthers, fedTorn, blind>>, fedFaults' \in 0 .. MaxFaults,
         org'.id \in fedOwn => org'.id = org.id, \A o \in dir' \cup bin' : o.id \in fedOwn => o \in dir \cup bin,
         fed'[p].pc \notin FedWriting, FedModed(fed[p])', OrgFit(fed[p])', fed[p].alone => FedFit(fed[p])'
  PROVE  FedInv'
  <1> USE FedHave
  <1>1. fed[p].st = orgState /\ fed[p].pc \notin Fed!Rest
    BY DEF FedInv
  <1>2. Known(orgState)' /\ Known(fed[p].st)'
    BY <1>1 DEF FedInv, Known, FedStays
  <1>3. ~fedTorn' /\ ~blind' => Records(orgState)'
    <2>1. ~fedTorn /\ ~blind => Records(orgState)
      BY <1>1, FedRecorded
    <2> QED BY <2>1 DEF Records
  <1> QED BY <1>1, <1>2, <1>3, FedMoves DEF FedStays

\* It stops, or was stopped.
LEMMA FedStops ==
  ASSUME FedInv, NEW p \in Runs, fed[p].pc \notin Fed!Rest \cup FedWriting, FedTurns(p), FedStays(p), FedWorld',
         UNCHANGED <<fedOwn, orgState, fedOthers, fedTorn, blind>>, fedFaults' \in 0 .. MaxFaults,
         org'.id \in fedOwn => org'.id = org.id, \A o \in dir' \cup bin' : o.id \in fedOwn => o \in dir \cup bin,
         fed'[p].pc \in FedFails
  PROVE  FedInv'
  <1>1. FedModed(fed[p])' /\ OrgFit(fed[p])' /\ FedFit(fed[p])' /\ fed'[p].pc \notin FedWriting
    BY DEF FedModed, OrgFit, FedFit, FedFails, Fed!Steps, Fed!DownSteps, FedWriting
  <1> QED BY <1>1, FedCarries

LEMMA FedFailsAre == FedFails \subseteq FedSteps
  BY DEF FedFails, FedSteps, Fed!Rest, Fed!Exits

LEMMA FedFindsOrg ==
  ASSUME FedInv, NEW p \in Runs, Fed!FindsOrg(p) PROVE FedInv'
  <1> USE FedHave
  <1>1. fed[p].pc = "find" /\ fed[p].kind = "org" /\ fed[p].pc \notin Fed!Rest \cup FedWriting /\ FedModed(fed[p])
        /\ fed[p].pc \in Fed!Steps
    BY DEF Fed!FindsOrg, Fed!At, Fed!Rest, Fed!Exits, FedWriting, FedInv, Fed!Steps
  <1>2. UNCHANGED <<org, dir, bin, old, assigned, made, fedOwn, blind, orgState, fedOthers, fedTorn>>
    BY DEF Fed!FindsOrg, Fed!Entra, Fed!Counts, Fed!Rests
  <1>3. fedFaults' \in 0 .. MaxFaults /\ FedWorld'
    BY <1>2, FedFaults DEF Fed!FindsOrg, FedInv, FedWorld
  <1>4. CASE Fed!Goes(p, "exit2") \/ Fed!Goes(p, "exit3")
    <2>1. FedTurns(p) /\ FedStays(p) /\ fed'[p].pc \in FedFails
      BY <1>4, FedGoes, FedFailsAre DEF FedFails
    <2> QED BY <1>1, <1>2, <1>3, <2>1, FedStops
  <1>5. CASE org.id = 0 /\ Fed!Goes(p, "make")
    <2>1. FedTurns(p) /\ FedStays(p) /\ fed'[p].pc = "make" /\ fed'[p].kind = "org"
      BY <1>1, <1>5, FedGoes DEF FedSteps, Fed!Steps
    <2>2. org.key = Fed!NoKey
      BY <1>5, FedBlank DEF FedInv, FedWorld
    <2>3. FedModed(fed[p])' /\ OrgFit(fed[p])' /\ FedFit(fed[p])' /\ fed'[p].pc \notin FedWriting
      BY <1>1, <1>2, <2>1, <2>2 DEF FedModed, OrgFit, FedFit, FedStays, Unsettled, Fed!Steps, Fed!DownSteps, FedWriting
    <2> QED BY <1>1, <1>2, <1>3, <2>1, <2>3, FedCarries
  <1>6. CASE org.id # 0 /\ org.id = fed[p].st["org"] /\ Fed!SameSignIn(p) /\ Fed!To(p, "group", "find")
    <2>1. FedTurns(p) /\ FedStays(p) /\ fed'[p].pc = "find" /\ fed'[p].kind = "group"
      BY <1>6, FedGoesTo DEF FedSteps, Fed!Steps, Fed!Kinds
    <2>2. org.key \in {Fed!NoKey, fed[p].key}
      BY <1>6 DEF Fed!SameSignIn
    <2>3. FedModed(fed[p])' /\ OrgFit(fed[p])' /\ FedFit(fed[p])' /\ fed'[p].pc \notin FedWriting
      BY <1>1, <1>2, <1>6, <2>1, <2>2 DEF FedModed, OrgFit, FedFit, FedStays, Unsettled, Fed!Steps, Fed!DownSteps,
           FedWriting
    <2> QED BY <1>1, <1>2, <1>3, <2>1, <2>3, FedCarries
  <1> QED BY <1>4, <1>5, <1>6 DEF Fed!FindsOrg

\* An organization of a new number.
LEMMA FedNewOrg ==
  ASSUME FedInv, org' = Fed!NewOrg(made'), made < MaxIds, made' = made + 1, fedOwn' = fedOwn,
         dir' = dir, bin' = bin, old' = old, assigned' = assigned
  PROVE  /\ FedWorld' /\ org'.id = made' /\ org'.key = Fed!NoKey /\ org'.id \notin fedOwn
         /\ \A p \in Runs : fed[p].st["org"] # org'.id
  <1> USE FedHave
  <1>1. org' = [Fed!NoOrg EXCEPT !.id = made']
    BY DEF Fed!NewOrg
  <1>2. made' \in Fed!Id
    BY DEF Fed!Id
  <1>3. /\ org' \in [id : {0} \cup Fed!Id, key : {Fed!NoKey} \cup Keys, imported : {"no", "member", "other"},
                     under : SUBSET Keys]
        /\ org'.id = made' /\ org'.key = Fed!NoKey /\ org'.under = {}
    BY <1>1, <1>2, FedBlank
  <1>4. \A o \in dir \cup bin : o.id <= made /\ o.id \in Nat
    BY DEF FedInv, FedWorld, Fed!Object, Fed!Id
  <1>5. made' \in 0 .. MaxIds /\ made' \notin fedOwn /\ fedOwn \subseteq 1 .. made'
    BY DEF FedInv, FedWorld
  <1>6. FedWorld'
    BY <1>3, <1>4, <1>5 DEF FedInv, FedWorld
  <1>7. \A p \in Runs : fed[p].st["org"] # made'
    BY <1>5, FedKinds DEF FedInv, Known
  <1> QED BY <1>3, <1>5, <1>6, <1>7

LEMMA FedMakesOrg ==
  ASSUME FedInv, NEW p \in Runs, Fed!MakesOrg(p) PROVE FedInv'
  <1> USE FedHave
  <1>1. fed[p].pc = "make" /\ fed[p].kind = "org" /\ fed[p].pc \notin Fed!Rest \cup FedWriting /\ FedModed(fed[p])
        /\ fed[p].pc \in Fed!Steps
    BY DEF Fed!MakesOrg, Fed!At, Fed!Rest, Fed!Exits, FedWriting, FedInv, Fed!Steps
  <1>2. UNCHANGED <<dir, bin, old, assigned, fedOwn, blind, orgState, fedOthers, fedTorn>>
    BY DEF Fed!MakesOrg, Fed!Entra, Fed!Rests
  <1>3. fedFaults' \in 0 .. MaxFaults
    BY FedFaults DEF Fed!MakesOrg
  <1>4. CASE UNCHANGED <<org, made>> /\ (Fed!Goes(p, "exit1") \/ Fed!Goes(p, "exit3"))
    <2>1. FedTurns(p) /\ FedStays(p) /\ fed'[p].pc \in FedFails
      BY <1>4, FedGoes, FedFailsAre DEF FedFails
    <2>2. FedWorld'
      BY <1>2, <1>4 DEF FedInv, FedWorld
    <2> QED BY <1>1, <1>2, <1>3, <1>4, <2>1, <2>2, FedStops
  <1>5. CASE org.id = 0 /\ made < MaxIds /\ made' = made + 1 /\ org' = Fed!NewOrg(made')
    <2>1. FedWorld' /\ org'.id = made' /\ org'.key = Fed!NoKey /\ org'.id \notin fedOwn
      BY <1>2, <1>5, FedNewOrg
    <2>2. CASE Fed!Goes(p, "exit3")
      <3>1. FedTurns(p) /\ FedStays(p) /\ fed'[p].pc \in FedFails
        BY <2>2, FedGoes, FedFailsAre DEF FedFails
      <3> QED BY <1>1, <1>2, <1>3, <2>1, <3>1, FedStops
    <2>3. CASE fed' = [fed EXCEPT ![p].pc = "take", ![p].sent = TRUE]
      <3> DEFINE k == [fed[p] EXCEPT !.pc = "take", !.sent = TRUE]
      <3>1. fed[p] \in FedRuns
        OBVIOUS
      <3>2. /\ k \in FedRuns /\ k.pc = "take" /\ k.kind = "org" /\ k.mode = fed[p].mode /\ k.key = fed[p].key
            /\ k.st = fed[p].st /\ k.alone = fed[p].alone
        BY <1>1, <3>1 DEF FedRuns, Fed!Steps
      <3>3. fed' = [fed EXCEPT ![p] = k]
        BY <2>3
      <3> HIDE DEF k
      <3>4. FedTurns(p) /\ FedStays(p) /\ fed'[p].pc = "take" /\ fed'[p].kind = "org"
        BY <3>2, <3>3 DEF FedTurns, FedStays
      <3>5. FedModed(fed[p])' /\ OrgFit(fed[p])' /\ FedFit(fed[p])' /\ fed'[p].pc \notin FedWriting
        BY <1>1, <2>1, <3>4 DEF FedModed, OrgFit, FedFit, FedStays, Unsettled, Fed!Steps, Fed!DownSteps, FedWriting
      <3> QED BY <1>1, <1>2, <1>3, <2>1, <3>4, <3>5, FedCarries
    <2> QED BY <1>5, <2>2, <2>3 DEF Fed!MakesOrg
  <1> QED BY <1>4, <1>5 DEF Fed!MakesOrg

\* A file with one more entry.
LEMMA FedEnters ==
  ASSUME NEW st \in [Fed!Kinds -> {0} \cup Fed!Id], NEW kind \in Fed!Kinds, NEW i \in Fed!Id
  PROVE  /\ [st EXCEPT ![kind] = i] \in [Fed!Kinds -> {0} \cup Fed!Id] /\ [st EXCEPT ![kind] = i][kind] = i
         /\ \A k \in Fed!Kinds \ {kind} : [st EXCEPT ![kind] = i][k] = st[k]
  OBVIOUS

LEMMA FedTakesOrg ==
  ASSUME FedInv, NEW p \in Runs, Fed!TakesOrg(p) PROVE FedInv'
  <1> USE FedHave
  <1>1. fed[p].pc = "take" /\ fed[p].kind = "org" /\ fed[p].pc \notin Fed!Rest \cup FedWriting /\ FedModed(fed[p])
        /\ fed[p].pc \in Fed!Steps /\ fed[p] \in FedRuns /\ org.key = Fed!NoKey
    BY DEF Fed!TakesOrg, Fed!At, Fed!Rest, Fed!Exits, FedWriting, FedInv, Fed!Steps, FedModed, OrgFit
  <1>2. UNCHANGED <<org, dir, bin, old, assigned, made, blind, orgState, fedOthers, fedTorn>>
    BY DEF Fed!TakesOrg, Fed!Entra, Fed!Rests
  <1>3. fedFaults' \in 0 .. MaxFaults
    BY FedFaults DEF Fed!TakesOrg
  <1>4. CASE UNCHANGED fedOwn /\ (Fed!Goes(p, "exit1") \/ Fed!Goes(p, "exit3"))
    <2>1. FedTurns(p) /\ FedStays(p) /\ fed'[p].pc \in FedFails
      BY <1>4, FedGoes, FedFailsAre DEF FedFails
    <2>2. FedWorld'
      BY <1>2, <1>4 DEF FedInv, FedWorld
    <2> QED BY <1>1, <1>2, <1>3, <1>4, <2>1, <2>2, FedStops
  <1>5. CASE /\ org.id # 0 /\ fedOwn' = fedOwn \cup {org.id}
             /\ fed' = [fed EXCEPT ![p].st.org = org.id, ![p].pc = "save"]
    <2>1. PICK st : st = [fed[p].st EXCEPT !["org"] = org.id]
      OBVIOUS
    <2>2. org.id \in Fed!Id /\ "org" \in Fed!Kinds /\ fed[p].st \in [Fed!Kinds -> {0} \cup Fed!Id]
      BY <1>1, <1>5, FedKinds DEF FedInv, FedWorld, FedRuns
    <2>3. /\ st \in [Fed!Kinds -> {0} \cup Fed!Id] /\ st["org"] = org.id
          /\ \A w \in Fed!Kinds \ {"org"} : st[w] = fed[p].st[w]
      BY <2>1, <2>2, FedEnters
    <2> DEFINE k == [fed[p] EXCEPT !.st = st, !.pc = "save"]
    <2>4. fed' = [fed EXCEPT ![p] = k]
      BY <1>1, <1>5, <2>1 DEF FedRuns
    <2>5. /\ k \in FedRuns /\ k.pc = "save" /\ k.kind = "org" /\ k.mode = fed[p].mode /\ k.key = fed[p].key
          /\ k.st = st /\ k.alone = fed[p].alone
      BY <1>1, <2>3 DEF FedRuns, Fed!Steps
    <2> HIDE DEF k
    <2>6. FedTurns(p) /\ fed'[p] = k
      BY <2>4, <2>5 DEF FedTurns
    <2>7. FedWorld'
      BY <1>2, <1>5, <2>2 DEF FedInv, FedWorld, Fed!Id
    <2>8. Known(orgState)' /\ Known(fed[p].st)'
      <3>1. \A w \in Fed!Kinds : fed[p].st[w] \in fedOwn \cup {0} /\ orgState[w] \in fedOwn \cup {0}
        BY DEF FedInv, Known
      <3>2. \A w \in Fed!Kinds : st[w] \in fedOwn' \cup {0}
        BY <1>5, <2>3, <3>1
      <3> QED BY <1>2, <1>5, <2>5, <2>6, <3>1, <3>2 DEF Known
    <2>9. FedModed(fed[p])' /\ OrgFit(fed[p])' /\ FedFit(fed[p])' /\ fed'[p].pc \in FedWriting
      BY <1>1, <1>2, <1>5, <2>3, <2>5, <2>6 DEF FedModed, OrgFit, FedFit, Unsettled, Fed!Steps, Fed!DownSteps, FedWriting
    <2>10. ASSUME ~fedTorn', ~blind' PROVE Records(fed[p].st)'
      <3>1. Records(fed[p].st)
        BY <1>1, <1>2, <2>10, FedRecorded
      <3>2. \A o \in dir \cup bin : o.kind \in Fed!Kinds \ {"org"} /\ o.id # org.id
        BY FedKinds DEF FedInv, FedWorld, Fed!Object
      <3> QED BY <1>2, <1>5, <2>3, <2>5, <2>6, <3>1, <3>2 DEF Records
    <2> QED BY <1>1, <1>2, <1>3, <1>5, <2>5, <2>6, <2>7, <2>8, <2>9, <2>10, FedMoves
  <1> QED BY <1>4, <1>5 DEF Fed!TakesOrg

LEMMA FedFollowing ==
  \A kind \in Fed!Kinds : Fed!Following(kind) \in Fed!Kinds \ {"org"}
  BY FedKinds DEF Fed!Following

LEMMA FedFinds ==
  ASSUME FedInv, NEW p \in Runs, Fed!Finds(p) PROVE FedInv'
  <1> USE FedHave
  <1>1. fed[p].pc = "find" /\ fed[p].kind # "org" /\ fed[p].pc \notin Fed!Rest \cup FedWriting /\ FedModed(fed[p])
        /\ fed[p].pc \in Fed!Steps /\ fed[p].kind \in Fed!Kinds
    BY DEF Fed!Finds, Fed!At, Fed!Rest, Fed!Exits, FedWriting, FedInv, Fed!Steps, FedRuns
  <1>2. UNCHANGED <<org, dir, bin, old, assigned, made, fedOwn, blind, orgState, fedOthers, fedTorn>>
    BY DEF Fed!Finds, Fed!Entra, Fed!Counts, Fed!Rests
  <1>3. fedFaults' \in 0 .. MaxFaults /\ FedWorld'
    BY <1>2, FedFaults DEF Fed!Finds, FedInv, FedWorld
  <1>4. CASE Fed!Goes(p, "exit1") \/ Fed!Goes(p, "exit2") \/ Fed!Goes(p, "exit3")
    <2>1. FedTurns(p) /\ FedStays(p) /\ fed'[p].pc \in FedFails
      BY <1>4, FedGoes, FedFailsAre DEF FedFails
    <2> QED BY <1>1, <1>2, <1>3, <2>1, FedStops
  <1>5. ASSUME NEW pc \in {"make", "find", "assign"}, FedTurns(p), FedStays(p), fed'[p].pc = pc, fed'[p].kind # "org"
        PROVE  FedInv'
    <2>1. fed[p].st["org"] # 0 /\ (org.id = fed[p].st["org"] => org.key \in {Fed!NoKey, fed[p].key})
      BY <1>1 DEF FedInv, OrgFit, Unsettled
    <2>2. FedModed(fed[p])' /\ OrgFit(fed[p])' /\ FedFit(fed[p])' /\ fed'[p].pc \notin FedWriting
      BY <1>1, <1>2, <1>5, <2>1 DEF FedModed, OrgFit, FedFit, FedStays, Unsettled, Fed!Steps, Fed!DownSteps, FedWriting
    <2> QED BY <1>1, <1>2, <1>3, <1>5, <2>2, FedCarries
  <1>6. CASE Fed!Goes(p, "make")
    BY <1>1, <1>5, <1>6, FedGoes DEF FedSteps, Fed!Steps
  <1>7. CASE Fed!To(p, Fed!Following(fed[p].kind), IF fed[p].kind = "app" THEN "assign" ELSE "find")
    <2>1. PICK pc \in {"find", "assign"} : pc = IF fed[p].kind = "app" THEN "assign" ELSE "find"
      OBVIOUS
    <2>2. PICK kind \in Fed!Kinds \ {"org"} : kind = Fed!Following(fed[p].kind)
      BY <1>1, FedFollowing
    <2>3. Fed!To(p, kind, pc) /\ pc \in FedSteps
      BY <1>7, <2>1, <2>2 DEF FedSteps, Fed!Steps
    <2> QED BY <1>5, <2>3, FedGoesTo
  <1> QED BY <1>4, <1>6, <1>7 DEF Fed!Finds

\* An object of a new number.
LEMMA FedNewObject ==
  ASSUME FedInv, NEW kind \in {"app", "group"}, made < MaxIds, made' = made + 1,
         dir' = dir \cup {[kind |-> kind, id |-> made']}, old' = dir, UNCHANGED <<org, bin, assigned>>,
         fedOwn' \in {fedOwn, fedOwn \cup {made'}}
  PROVE  FedWorld' /\ made' \in Fed!Id /\ made' \notin fedOwn /\ \A o \in dir \cup bin : o.id # made'
  <1> USE FedHave
  <1> DEFINE new == [kind |-> kind, id |-> made']
  <1>1. made' \in Fed!Id /\ made' \notin fedOwn /\ fedOwn' \subseteq 1 .. made' /\ made' \in 0 .. MaxIds
    BY DEF FedInv, FedWorld, Fed!Id
  <1>2. new \in Fed!Object /\ new.id = made' /\ dir' = dir \cup {new}
    BY <1>1 DEF Fed!Object
  <1>3. \A o \in dir \cup bin : o.id <= made /\ o.id \in Nat
    BY DEF FedInv, FedWorld, Fed!Object, Fed!Id
  <1>4. org.id <= made /\ org.id \in Nat
    BY DEF FedInv, FedWorld, Fed!Id
  <1> HIDE DEF new
  <1>5. \A o \in dir' \cup bin' : o.id <= made' /\ o.id # org.id
    BY <1>2, <1>3, <1>4 DEF FedInv, FedWorld
  <1>6. FedWorld'
    BY <1>1, <1>2, <1>4, <1>5 DEF FedInv, FedWorld
  <1> QED BY <1>1, <1>3, <1>6

LEMMA FedMakes ==
  ASSUME FedInv, NEW p \in Runs, Fed!Makes(p) PROVE FedInv'
  <1> USE FedHave
  <1>10. PICK kind : kind = fed[p].kind
    OBVIOUS
  <1>1. fed[p].pc = "make" /\ kind # "org" /\ fed[p].pc \notin Fed!Rest \cup FedWriting /\ FedModed(fed[p])
        /\ fed[p].pc \in Fed!Steps /\ kind \in Fed!Kinds /\ fed[p] \in FedRuns /\ kind \in {"app", "group"}
    BY <1>10, FedKinds DEF Fed!Makes, Fed!At, Fed!Rest, Fed!Exits, FedWriting, FedInv, Fed!Steps, FedRuns
  <1>2. UNCHANGED <<org, bin, assigned, orgState, fedOthers, fedTorn>>
    BY DEF Fed!Makes, Fed!Rests
  <1>3. fedFaults' \in 0 .. MaxFaults
    BY FedFaults DEF Fed!Makes
  <1>4. CASE UNCHANGED <<made, dir, old, fedOwn, blind>> /\ (Fed!Goes(p, "exit1") \/ Fed!Goes(p, "exit3"))
    <2>1. FedTurns(p) /\ FedStays(p) /\ fed'[p].pc \in FedFails
      BY <1>4, FedGoes, FedFailsAre DEF FedFails
    <2>2. FedWorld'
      BY <1>2, <1>4 DEF FedInv, FedWorld
    <2> QED BY <1>1, <1>2, <1>3, <1>4, <2>1, <2>2, FedStops
  <1>5. ASSUME made < MaxIds, made' = made + 1, dir' = dir \cup {[kind |-> kind, id |-> made']}, old' = dir,
               UNCHANGED <<fedOwn, blind>>, Fed!Goes(p, "exit3")
        PROVE  FedInv'
    <2>1. FedTurns(p) /\ FedStays(p) /\ fed'[p].pc \in FedFails
      BY <1>5, FedGoes, FedFailsAre DEF FedFails
    <2>2. FedWorld' /\ made' \notin fedOwn
      BY <1>1, <1>2, <1>5, FedNewObject
    <2>3. \A o \in dir' \cup bin' : o.id \in fedOwn => o \in dir \cup bin
      BY <1>2, <1>5, <2>2
    <2> QED BY <1>1, <1>2, <1>3, <1>5, <2>1, <2>2, <2>3, FedStops
  <1>6. ASSUME made < MaxIds, made' = made + 1, dir' = dir \cup {[kind |-> kind, id |-> made']}, old' = dir,
               fedOwn' = fedOwn \cup {made'}, blind' = (blind \/ Fed!Mine(p) \in dir \cup bin),
               fed' = [fed EXCEPT ![p].st[kind] = made', ![p].sent = TRUE, ![p].pc = Fed!OnceMade(kind),
                         ![p].kind = IF Fed!OnceMade(kind) = "find" THEN Fed!Following(kind) ELSE kind]
        PROVE  FedInv'
    <2>1. PICK st : st = [fed[p].st EXCEPT ![kind] = made']
      OBVIOUS
    <2>2. FedWorld' /\ made' \in Fed!Id /\ made' \notin fedOwn /\ \A o \in dir \cup bin : o.id # made'
      BY <1>1, <1>2, <1>6, FedNewObject
    <2>3. /\ st \in [Fed!Kinds -> {0} \cup Fed!Id] /\ st[kind] = made'
          /\ \A k \in Fed!Kinds \ {kind} : st[k] = fed[p].st[k]
      <3>1. fed[p].st \in [Fed!Kinds -> {0} \cup Fed!Id]
        BY <1>1 DEF FedRuns
      <3> QED BY <1>1, <2>1, <2>2, <3>1, FedEnters
    <2> DEFINE k == [fed[p] EXCEPT !.st = st, !.sent = TRUE, !.pc = "save", !.kind = kind]
    <2>4. fed' = [fed EXCEPT ![p] = k]
      BY <1>1, <1>6, <2>1 DEF FedRuns, Fed!OnceMade
    <2>5. /\ k \in FedRuns /\ k.pc = "save" /\ k.kind = kind /\ k.mode = fed[p].mode /\ k.key = fed[p].key
          /\ k.st = st /\ k.alone = fed[p].alone
      BY <1>1, <2>3 DEF FedRuns, Fed!Steps
    <2> HIDE DEF k
    <2>6. FedTurns(p) /\ fed'[p] = k
      BY <2>4, <2>5 DEF FedTurns
    <2>8. Known(orgState)' /\ Known(fed[p].st)'
      <3>1. \A j \in Fed!Kinds : fed[p].st[j] \in fedOwn \cup {0} /\ orgState[j] \in fedOwn \cup {0}
        BY DEF FedInv, Known
      <3>2. \A j \in Fed!Kinds : st[j] \in fedOwn' \cup {0}
        BY <1>6, <2>3, <3>1
      <3> QED BY <1>2, <1>6, <2>5, <2>6, <3>1, <3>2 DEF Known
    <2>7. st["org"] = fed[p].st["org"] /\ OrgFit(fed[p])
      BY <1>1, <2>3, FedKinds DEF FedInv
    <2>9. FedModed(fed[p])' /\ OrgFit(fed[p])' /\ FedFit(fed[p])' /\ fed'[p].pc \in FedWriting
      BY <1>1, <1>2, <1>10, <2>5, <2>6, <2>7 DEF FedModed, OrgFit, FedFit, Unsettled, Fed!Steps, Fed!DownSteps, FedWriting
    <2>10. ASSUME ~fedTorn', ~blind' PROVE Records(fed[p].st)'
      <3>1. ~blind /\ Fed!Mine(p) \notin dir \cup bin /\ ~fedTorn
        BY <1>2, <1>6, <2>10, Zenon
      <3>2. Records(fed[p].st)
        BY <1>1, <3>1, FedRecorded
      <3>3. [kind |-> kind, id |-> fed[p].st[kind]] \notin dir \cup bin
        BY <1>10, <3>1 DEF Fed!Mine
      <3>4. \A o \in dir \cup bin : o \in Fed!Object /\ o.kind \in Fed!Kinds /\ o = [kind |-> o.kind, id |-> o.id]
        BY FedKinds DEF FedInv, FedWorld, Fed!Object
      <3>5. ASSUME NEW o \in dir \cup bin, o.id \in fedOwn' PROVE st[o.kind] = o.id
        <4>1. o.id \in fedOwn
          BY <1>6, <2>2, <3>5
        <4>2. fed[p].st[o.kind] = o.id
          BY <3>2, <4>1 DEF Records
        <4>3. o.kind # kind
          BY <3>3, <3>4, <4>2
        <4> QED BY <2>3, <3>4, <4>2, <4>3
      <3>6. org.id \in fedOwn' => st["org"] = org.id
        <4>1. org.id # made'
          BY <1>6 DEF FedInv, FedWorld, Fed!Id
        <4> QED BY <1>6, <2>7, <3>2, <4>1 DEF Records
      <3>7. \A o \in dir' \cup bin' : o.id \in fedOwn' => st[o.kind] = o.id
        BY <1>2, <1>6, <2>3, <3>5
      <3> QED BY <1>2, <2>5, <2>6, <3>6, <3>7 DEF Records
    <2>11. blind' \in BOOLEAN
      BY <1>6
    <2> QED BY <1>1, <1>2, <1>3, <1>6, <2>2, <2>5, <2>6, <2>8, <2>9, <2>10, <2>11, FedMoves
  <1> QED BY <1>4, <1>5, <1>6, <1>10 DEF Fed!Makes

LEMMA FedSaves ==
  ASSUME FedInv, NEW p \in Runs, Fed!Saves(p) PROVE FedInv'
  <1> USE FedHave
  <1>1. fed[p].pc = "save" /\ fed[p].pc \notin Fed!Rest /\ FedModed(fed[p]) /\ OrgFit(fed[p]) /\ fed[p].pc \in Fed!Steps
    BY DEF Fed!Saves, Fed!At, Fed!Rest, Fed!Exits, FedInv, Fed!Steps
  <1>2. UNCHANGED <<org, dir, bin, old, assigned, made, fedOwn, blind, fedOthers, fedTorn, fedFaults>>
        /\ orgState' = Fed!None
    BY DEF Fed!Saves, Fed!Entra, Fed!Counts, Fed!Rests, Fed!Sound
  <1>3. FedWorld'
    BY <1>2 DEF FedInv, FedWorld
  <1>4. FedTurns(p) /\ FedStays(p) /\ fed'[p].pc = "write" /\ fed'[p].kind = fed[p].kind
    BY FedGoes DEF Fed!Saves, FedSteps, Fed!Steps
  <1>5. Known(orgState)' /\ Known(fed[p].st)'
    BY <1>2, <1>4, FedNone DEF FedInv, Known, FedStays
  <1>6. FedModed(fed[p])' /\ OrgFit(fed[p])' /\ FedFit(fed[p])' /\ fed'[p].pc \in FedWriting
    BY <1>1, <1>2, <1>4 DEF FedModed, OrgFit, FedFit, FedStays, Unsettled, Fed!Steps, Fed!DownSteps, FedWriting
  <1>7. ~fedTorn' /\ ~blind' => Records(fed[p].st)'
    <2>1. ~fedTorn /\ ~blind => Records(fed[p].st)
      BY <1>1, FedRecorded
    <2> QED BY <1>2, <1>4, <2>1 DEF Records, FedStays
  <1> QED BY <1>1, <1>2, <1>3, <1>4, <1>5, <1>6, <1>7, FedNone, FedMoves DEF FedStays

LEMMA FedWrites ==
  ASSUME FedInv, NEW p \in Runs, Fed!Writes(p) PROVE FedInv'
  <1> USE FedHave
  <1>1. fed[p].pc = "write" /\ fed[p].pc \notin Fed!Rest /\ FedModed(fed[p]) /\ OrgFit(fed[p]) /\ fed[p].pc \in Fed!Steps
        /\ fed[p] \in FedRuns /\ fed[p].kind \in Fed!Kinds /\ fed[p].st \in [Fed!Kinds -> {0} \cup Fed!Id]
    BY DEF Fed!Writes, Fed!At, Fed!Rest, Fed!Exits, FedInv, Fed!Steps, FedRuns
  <1>2. UNCHANGED <<org, dir, bin, old, assigned, made, fedOwn, blind, fedOthers, fedTorn, fedFaults>>
        /\ orgState' = fed[p].st
    BY DEF Fed!Writes, Fed!Entra, Fed!Counts, Fed!Rests, Fed!Sound
  <1>3. FedWorld'
    BY <1>2 DEF FedInv, FedWorld
  <1>4. FedTurns(p) /\ FedStays(p) /\ fed'[p].pc \in {"find", "assign"} /\ fed'[p].kind # "org"
    <2>1. PICK pc \in {"find", "assign"} : pc = IF fed[p].kind = "app" THEN "assign" ELSE "find"
      OBVIOUS
    <2>2. PICK kind \in Fed!Kinds \ {"org"} : kind = Fed!Following(fed[p].kind)
      BY <1>1, FedFollowing
    <2>3. Fed!To(p, kind, pc) /\ pc \in FedSteps
      BY <2>1, <2>2 DEF Fed!Writes, FedSteps, Fed!Steps
    <2> QED BY <2>3, FedGoesTo
  <1>5. Known(orgState)' /\ Known(fed[p].st)'
    BY <1>2, <1>4 DEF FedInv, Known, FedStays
  <1>6. FedModed(fed[p])' /\ OrgFit(fed[p])' /\ FedFit(fed[p])' /\ fed'[p].pc \notin FedWriting
    BY <1>1, <1>2, <1>4 DEF FedModed, OrgFit, FedFit, FedStays, Unsettled, Fed!Steps, Fed!DownSteps, FedWriting
  <1>7. ~fedTorn' /\ ~blind' => Records(orgState)'
    <2>1. ~fedTorn /\ ~blind => Records(fed[p].st)
      BY <1>1, FedRecorded
    <2> QED BY <1>2, <2>1 DEF Records
  <1> QED BY <1>1, <1>2, <1>3, <1>4, <1>5, <1>6, <1>7, FedMoves DEF FedStays

LEMMA FedAssigns ==
  ASSUME FedInv, NEW p \in Runs, Fed!Assigns(p) PROVE FedInv'
  <1> USE FedHave
  <1> DEFINE app == fed[p].st["app"]
             grp == fed[p].st["group"]
             rest == {a \in assigned : a.app # app}
             new == [app |-> app, to |-> grp]
  <1>1. fed[p].pc = "assign" /\ fed[p].pc \notin Fed!Rest \cup FedWriting /\ FedModed(fed[p]) /\ OrgFit(fed[p])
        /\ fed[p].pc \in Fed!Steps /\ app \in {0} \cup Fed!Id /\ grp \in {0} \cup Fed!Id
    BY FedKinds DEF Fed!Assigns, Fed!At, Fed!Rest, Fed!Exits, FedWriting, FedInv, Fed!Steps, FedRuns
  <1>2. UNCHANGED <<org, dir, bin, old, made, fedOwn, blind, orgState, fedOthers, fedTorn>>
    BY DEF Fed!Assigns, Fed!Counts, Fed!Rests
  <1>3. fedFaults' \in 0 .. MaxFaults
    BY FedFaults DEF Fed!Assigns
  <1>4. (\E o, g \in dir : o.id = app /\ g.id = grp) => new \in [app : Fed!Id, to : {0} \cup Fed!Id]
    BY <1>1 DEF FedInv, FedWorld, Fed!Object
  <1>5. CASE /\ \E o, g \in dir : o.id = app /\ g.id = grp
             /\ assigned' = rest \cup {new} /\ Fed!Goes(p, "settings")
    <2>1. FedTurns(p) /\ FedStays(p) /\ fed'[p].pc = "settings" /\ fed'[p].kind = fed[p].kind
      BY <1>5, FedGoes DEF FedSteps, Fed!Steps
    <2>2. FedWorld'
      <3>1. assigned' \subseteq [app : Fed!Id, to : {0} \cup Fed!Id]
        BY <1>4, <1>5 DEF FedInv, FedWorld
      <3> QED BY <1>2, <3>1 DEF FedInv, FedWorld
    <2>3. {a \in assigned' : a.app = app} = {new} /\ new.app = app
      BY <1>5
    <2>4. FedFit(fed[p])'
      BY <2>1, <2>3 DEF FedFit, FedStays
    <2> HIDE DEF app, grp, rest, new
    <2>5. FedModed(fed[p])' /\ OrgFit(fed[p])' /\ fed'[p].pc \notin FedWriting
      BY <1>1, <1>2, <2>1 DEF FedModed, OrgFit, FedStays, Unsettled, Fed!Steps, Fed!DownSteps, FedWriting
    <2> QED BY <1>1, <1>2, <1>3, <2>1, <2>2, <2>4, <2>5, FedCarries
  <1>6. ASSUME assigned' \subseteq [app : Fed!Id, to : {0} \cup Fed!Id], Fed!Goes(p, "exit1") \/ Fed!Goes(p, "exit3")
        PROVE  FedInv'
    <2>1. FedTurns(p) /\ FedStays(p) /\ fed'[p].pc \in FedFails
      BY <1>6, FedGoes, FedFailsAre DEF FedFails
    <2>2. FedWorld'
      BY <1>2, <1>6 DEF FedInv, FedWorld
    <2> QED BY <1>1, <1>2, <1>3, <2>1, <2>2, FedStops
  <1>7. assigned \subseteq [app : Fed!Id, to : {0} \cup Fed!Id]
    BY DEF FedInv, FedWorld
  <1>8. ASSUME \E o, g \in dir : o.id = app /\ g.id = grp, NEW more \in SUBSET {a \in assigned : a.app = app},
               assigned' = rest \cup more \cup {new}
        PROVE  assigned' \subseteq [app : Fed!Id, to : {0} \cup Fed!Id]
    <2>1. new \in [app : Fed!Id, to : {0} \cup Fed!Id]
      BY <1>4, <1>8
    <2>2. rest \subseteq assigned /\ more \subseteq assigned
      OBVIOUS
    <2> HIDE DEF new, rest, app
    <2> QED BY <1>7, <1>8, <2>1, <2>2
  <1> QED BY <1>5, <1>6, <1>7, <1>8 DEF Fed!Assigns

\* The settings of the organization it settled on: no other key than its users have.
LEMMA FedWritesSettings ==
  ASSUME FedInv, NEW p \in Runs, Fed!WritesSettings(p)
  PROVE  /\ FedInv' /\ org'.id = org.id /\ (org.under # {} => org'.key = org.key)
         /\ org'.key # org.key => org.id \in fedOwn
  <1> USE FedHave
  <1>1. fed[p].pc = "settings" /\ fed[p].pc \notin Fed!Rest \cup FedWriting /\ FedModed(fed[p]) /\ OrgFit(fed[p])
        /\ fed[p].pc \in Fed!Steps /\ fed[p].key \in Keys \cup {Fed!NoKey}
    BY DEF Fed!WritesSettings, Fed!At, Fed!Rest, Fed!Exits, FedWriting, FedInv, Fed!Steps, FedRuns
  <1>2. UNCHANGED <<dir, bin, old, assigned, made, fedOwn, blind, orgState, fedOthers, fedTorn>>
    BY DEF Fed!WritesSettings, Fed!Entra, Fed!Counts, Fed!Rests
  <1>3. fedFaults' \in 0 .. MaxFaults
    BY FedFaults DEF Fed!WritesSettings
  <1>4. fed[p].key # Fed!NoKey /\ fed[p].st["org"] # 0
        /\ (fed[p].st["org"] = org.id => org.key \in {Fed!NoKey, fed[p].key})
    BY <1>1 DEF FedModed, OrgFit, Unsettled
  <1>5. fed[p].st["org"] \in fedOwn
    BY <1>4, FedKinds DEF FedInv, Known
  <1>6. ASSUME org.id = fed[p].st["org"], org' = [org EXCEPT !.key = fed[p].key]
        PROVE  /\ FedWorld' /\ org'.id = org.id /\ org'.key = fed[p].key
               /\ org.under # {} => org'.key = org.key
    <2>1. org \in [id : {0} \cup Fed!Id, key : {Fed!NoKey} \cup Keys, imported : {"no", "member", "other"},
                   under : SUBSET Keys]
      BY DEF FedInv, FedWorld
    <2>2. /\ org' \in [id : {0} \cup Fed!Id, key : {Fed!NoKey} \cup Keys, imported : {"no", "member", "other"},
                       under : SUBSET Keys]
          /\ org'.id = org.id /\ org'.key = fed[p].key /\ org'.under = org.under
      BY <1>1, <1>6, <2>1
    <2>3. FedWorld'
      BY <1>2, <1>4, <1>6, <2>2 DEF FedInv, FedWorld
    <2>4. org.under # {} => org.key = fed[p].key
      BY <1>4, <1>6 DEF FedInv, FedWorld
    <2> QED BY <2>2, <2>3, <2>4
  <1>7. UNCHANGED org => FedWorld'
    BY <1>2 DEF FedInv, FedWorld
  <1>8. \/ UNCHANGED org
        \/ org.id = fed[p].st["org"] /\ org' = [org EXCEPT !.key = fed[p].key]
    BY DEF Fed!WritesSettings
  <1>9. CASE Fed!Goes(p, "exit1") \/ Fed!Goes(p, "exit3")
    <2>1. FedTurns(p) /\ FedStays(p) /\ fed'[p].pc \in FedFails
      BY <1>9, FedGoes, FedFailsAre DEF FedFails
    <2>2. FedWorld' /\ org'.id = org.id
      BY <1>6, <1>7, <1>8
    <2>3. FedInv'
      BY <1>1, <1>2, <1>3, <2>1, <2>2, FedStops
    <2> QED BY <1>5, <1>6, <1>8, <2>2, <2>3
  <1>10. CASE org.id = fed[p].st["org"] /\ org' = [org EXCEPT !.key = fed[p].key] /\ Fed!Goes(p, "import")
    <2>1. FedTurns(p) /\ FedStays(p) /\ fed'[p].pc = "import" /\ fed'[p].kind = fed[p].kind
      BY <1>10, FedGoes DEF FedSteps, Fed!Steps
    <2>2. FedWorld' /\ org'.id = org.id /\ org'.key = fed[p].key
      BY <1>6, <1>10
    <2>3. FedModed(fed[p])' /\ OrgFit(fed[p])' /\ fed'[p].pc \notin FedWriting
      BY <1>1, <1>4, <2>1, <2>2 DEF FedModed, OrgFit, FedStays, Unsettled, Fed!Steps, Fed!DownSteps, FedWriting
    <2>4. fed[p].alone => FedFit(fed[p])'
      <3>1. FedFit(fed[p]) => FedFit(fed[p])'
        BY <1>1, <1>2, <1>10, <2>1, <2>2 DEF FedFit, FedStays
      <3> QED BY <3>1 DEF FedInv
    <2>5. FedInv'
      BY <1>1, <1>2, <1>3, <2>1, <2>2, <2>3, <2>4, FedCarries
    <2> QED BY <1>5, <1>6, <1>10, <2>2, <2>5
  <1> QED BY <1>9, <1>10 DEF Fed!WritesSettings

LEMMA FedImports ==
  ASSUME FedInv, NEW p \in Runs, Fed!Imports(p) PROVE FedInv' /\ org'.id = org.id /\ org'.key = org.key
  <1> USE FedHave
  <1>1. fed[p].pc = "import" /\ fed[p].pc \notin Fed!Rest \cup FedWriting /\ FedModed(fed[p]) /\ OrgFit(fed[p])
        /\ fed[p].pc \in Fed!Steps /\ fed[p].st = orgState /\ fed[p].st["org"] # 0
    BY DEF Fed!Imports, Fed!At, Fed!Rest, Fed!Exits, FedWriting, FedInv, Fed!Steps, OrgFit, Unsettled
  <1>2. UNCHANGED <<dir, bin, old, assigned, made, fedOwn, blind, orgState, fedOthers, fedTorn>>
    BY DEF Fed!Imports, Fed!Entra, Fed!Counts, Fed!Rests
  <1>3. fedFaults' \in 0 .. MaxFaults
    BY FedFaults DEF Fed!Imports
  <1>4. org \in [id : {0} \cup Fed!Id, key : {Fed!NoKey} \cup Keys, imported : {"no", "member", "other"},
                 under : SUBSET Keys]
    BY DEF FedInv, FedWorld
  <1>5. \/ UNCHANGED org
        \/ org.id = fed[p].st["org"] /\ org' = [org EXCEPT !.imported = "member"]
    BY DEF Fed!Imports
  <1>6. org'.id = org.id /\ org'.key = org.key /\ FedWorld'
    <2>1. CASE UNCHANGED org
      BY <1>2, <2>1 DEF FedInv, FedWorld
    <2>2. CASE org.id = fed[p].st["org"] /\ org' = [org EXCEPT !.imported = "member"]
      <3>1. /\ org' \in [id : {0} \cup Fed!Id, key : {Fed!NoKey} \cup Keys, imported : {"no", "member", "other"},
                         under : SUBSET Keys]
            /\ org'.id = org.id /\ org'.key = org.key /\ org'.under = org.under
        BY <1>4, <2>2
      <3> QED BY <1>1, <1>2, <2>2, <3>1 DEF FedInv, FedWorld
    <2> QED BY <1>5, <2>1, <2>2
  <1>7. CASE Fed!Goes(p, "exit1") \/ Fed!Goes(p, "exit3")
    <2>1. FedTurns(p) /\ FedStays(p) /\ fed'[p].pc \in FedFails
      BY <1>7, FedGoes, FedFailsAre DEF FedFails
    <2> QED BY <1>1, <1>2, <1>3, <1>6, <2>1, FedStops
  <1>8. CASE /\ org.id = fed[p].st["org"] /\ Fed!Goes(p, "exit0")
             /\ org' = IF org.imported = "no" THEN [org EXCEPT !.imported = "member"] ELSE org
    <2>1. FedTurns(p) /\ FedStays(p) /\ fed'[p].pc = "exit0" /\ fed'[p].kind = fed[p].kind
      BY <1>8, FedGoes DEF FedSteps, Fed!Rest, Fed!Exits
    <2>2. org'.imported # "no"
      BY <1>4, <1>8
    <2>3. FedModed(fed[p])' /\ OrgFit(fed[p])' /\ fed'[p].pc \notin FedWriting
      BY <2>1 DEF FedModed, OrgFit, Unsettled, Fed!Steps, Fed!DownSteps, FedWriting
    <2>4. fed[p].alone => FedFit(fed[p])'
      <3>1. FedFit(fed[p]) => FedFit(fed[p])'
        BY <1>1, <1>2, <1>6, <2>1, <2>2 DEF FedFit, FedStays, FedModed
      <3> QED BY <3>1 DEF FedInv
    <2> QED BY <1>1, <1>2, <1>3, <1>6, <2>1, <2>3, <2>4, FedCarries
  <1> QED BY <1>6, <1>7, <1>8 DEF Fed!Imports

\* A step of a teardown, other than its end.
LEMMA FedGoesDown ==
  ASSUME FedInv, NEW p \in Runs, fed[p].pc \in Fed!DownSteps, FedTurns(p), FedStays(p), FedWorld',
         UNCHANGED <<fedOwn, orgState, fedOthers, fedTorn, blind>>, fedFaults' \in 0 .. MaxFaults,
         org'.id \in fedOwn => org'.id = org.id, \A o \in dir' \cup bin' : o.id \in fedOwn => o \in dir \cup bin,
         fed'[p].pc \in Fed!DownSteps \cup FedFails
  PROVE  FedInv'
  <1>1. fed[p].pc \notin Fed!Rest \cup FedWriting /\ FedModed(fed[p])
    BY DEF Fed!DownSteps, Fed!Rest, Fed!Exits, FedWriting, FedInv
  <1>2. FedModed(fed[p])' /\ OrgFit(fed[p])' /\ FedFit(fed[p])' /\ fed'[p].pc \notin FedWriting
    BY <1>1 DEF FedModed, OrgFit, FedFit, FedFails, FedStays, Unsettled, Fed!Steps, Fed!DownSteps, FedWriting
  <1> QED BY <1>1, <1>2, FedCarries

LEMMA FedLooks ==
  ASSUME FedInv, NEW p \in Runs, Fed!Looks(p) PROVE FedInv'
  <1> USE FedHave
  <1>1. fed[p].pc = "look" /\ fed[p].pc \in Fed!DownSteps
    BY DEF Fed!Looks, Fed!At, Fed!DownSteps
  <1>2. UNCHANGED <<org, dir, bin, old, assigned, made, fedOwn, blind, orgState, fedOthers, fedTorn>>
    BY DEF Fed!Looks, Fed!Entra, Fed!Counts, Fed!Rests
  <1>3. fedFaults' \in 0 .. MaxFaults /\ FedWorld'
    BY <1>2, FedFaults DEF Fed!Looks, FedInv, FedWorld
  <1>4. FedTurns(p) /\ FedStays(p) /\ fed'[p].pc \in Fed!DownSteps \cup FedFails
    <2>1. ASSUME NEW pc \in {"drop", "exit3"}, Fed!Goes(p, pc)
          PROVE  FedTurns(p) /\ FedStays(p) /\ fed'[p].pc \in Fed!DownSteps \cup FedFails
      BY <2>1, FedGoes DEF FedSteps, Fed!DownSteps, FedFails, Fed!Rest, Fed!Exits
    <2>2. ASSUME NEW pc \in {"look", "purge"}, NEW kind \in {"app", "group"}, Fed!To(p, kind, pc)
          PROVE  FedTurns(p) /\ FedStays(p) /\ fed'[p].pc \in Fed!DownSteps \cup FedFails
      BY <2>2, FedGoesTo, FedKinds DEF FedSteps, Fed!DownSteps
    <2> QED BY <2>1, <2>2 DEF Fed!Looks
  <1> QED BY <1>1, <1>2, <1>3, <1>4, FedGoesDown

LEMMA FedDropsOrg ==
  ASSUME FedInv, NEW p \in Runs, Fed!DropsOrg(p)
  PROVE  FedInv' /\ (UNCHANGED org \/ (org.id \in fedOwn /\ org.id # 0 /\ org' = Fed!NoOrg))
  <1> USE FedHave
  <1>1. fed[p].pc = "drop" /\ fed[p].pc \in Fed!DownSteps
    BY DEF Fed!DropsOrg, Fed!At, Fed!DownSteps
  <1>2. UNCHANGED <<dir, bin, old, assigned, made, fedOwn, blind, orgState, fedOthers, fedTorn>>
    BY DEF Fed!DropsOrg, Fed!Entra, Fed!Counts, Fed!Rests
  <1>3. fedFaults' \in 0 .. MaxFaults
    BY FedFaults DEF Fed!DropsOrg
  <1>4. UNCHANGED org \/ (Fed!OrgIsMine(p) /\ org' = Fed!NoOrg)
    BY DEF Fed!DropsOrg
  <1>5. Fed!OrgIsMine(p) => org.id \in fedOwn /\ org.id # 0
    BY FedKinds DEF FedInv, Known, Fed!OrgIsMine
  <1>6. FedWorld'
    <2>1. CASE UNCHANGED org
      BY <1>2, <2>1 DEF FedInv, FedWorld
    <2>2. CASE org' = Fed!NoOrg
      <3>1. \A o \in dir \cup bin : o.id # 0
        BY DEF FedInv, FedWorld, Fed!Object, Fed!Id
      <3> QED BY <1>2, <2>2, <3>1, FedBlank DEF FedInv, FedWorld
    <2> QED BY <1>4, <2>1, <2>2
  <1>7. FedTurns(p) /\ FedStays(p) /\ fed'[p].pc \in Fed!DownSteps \cup FedFails
    <2>1. ASSUME NEW pc \in {"exit1", "exit3"}, Fed!Goes(p, pc)
          PROVE  FedTurns(p) /\ FedStays(p) /\ fed'[p].pc \in Fed!DownSteps \cup FedFails
      BY <2>1, FedGoes DEF FedSteps, FedFails, Fed!Rest, Fed!Exits
    <2>2. CASE Fed!To(p, "app", "look")
      BY <2>2, FedGoesTo, FedKinds DEF FedSteps, Fed!DownSteps
    <2> QED BY <2>1, <2>2 DEF Fed!DropsOrg
  <1>8. org'.id \in fedOwn => org'.id = org.id
    <2>1. 0 \notin fedOwn
      BY DEF FedInv, FedWorld
    <2> QED BY <1>4, <2>1, FedBlank
  <1> QED BY <1>1, <1>2, <1>3, <1>4, <1>5, <1>6, <1>7, <1>8, FedGoesDown

\* An object goes to the recycle bin.
LEMMA FedBins ==
  ASSUME FedInv, NEW o \in dir, Fed!Bins(o), UNCHANGED <<org, made, fedOwn>>
  PROVE  FedWorld' /\ dir' \cup bin' = dir \cup bin /\ dir \ dir' \subseteq {o}
  <1>1. dir' = dir \ {o} /\ bin' = bin \cup {o} /\ old' = dir /\ assigned' \subseteq assigned
    BY DEF Fed!Bins
  <1> QED BY <1>1 DEF FedInv, FedWorld

\* A teardown reaches what it was told it made.
LEMMA FedMine ==
  ASSUME FedInv, NEW p \in Runs, Fed!Mine(p) \in dir \cup bin
  PROVE  Fed!Mine(p).id \in fedOwn
  <1> USE FedHave
  <1>1. Fed!Mine(p).id = fed[p].st[fed[p].kind] /\ Fed!Mine(p).id # 0
    BY DEF Fed!Mine, FedInv, FedWorld, Fed!Object, Fed!Id
  <1>2. fed[p].kind \in Fed!Kinds
    BY DEF FedRuns
  <1> QED BY <1>1, <1>2 DEF FedInv, Known

LEMMA FedDrops ==
  ASSUME FedInv, NEW p \in Runs, Fed!Drops(p)
  PROVE  FedInv' /\ dir' \cup bin' = dir \cup bin /\ \A o \in dir \ dir' : o.id \in fedOwn
  <1> USE FedHave
  <1>1. fed[p].pc = "drop" /\ fed[p].pc \in Fed!DownSteps
    BY DEF Fed!Drops, Fed!At, Fed!DownSteps
  <1>2. UNCHANGED <<org, made, fedOwn, blind, orgState, fedOthers, fedTorn>>
    BY DEF Fed!Drops, Fed!Counts, Fed!Rests
  <1>3. fedFaults' \in 0 .. MaxFaults
    BY FedFaults DEF Fed!Drops
  <1>4. FedTurns(p) /\ FedStays(p) /\ fed'[p].pc \in Fed!DownSteps \cup FedFails
    <2>1. ASSUME NEW pc \in {"exit1", "exit3"}, Fed!Goes(p, pc)
          PROVE  FedTurns(p) /\ FedStays(p) /\ fed'[p].pc \in Fed!DownSteps \cup FedFails
      BY <2>1, FedGoes DEF FedSteps, FedFails, Fed!Rest, Fed!Exits
    <2>2. ASSUME NEW pc \in {"look", "purge"}, NEW kind \in {"app", "group"}, Fed!To(p, kind, pc)
          PROVE  FedTurns(p) /\ FedStays(p) /\ fed'[p].pc \in Fed!DownSteps \cup FedFails
      BY <2>2, FedGoesTo, FedKinds DEF FedSteps, Fed!DownSteps
    <2> QED BY <2>1, <2>2 DEF Fed!Drops
  <1>5. CASE Fed!Entra
    <2>1. UNCHANGED <<dir, bin, old, assigned>>
      BY <1>5 DEF Fed!Entra
    <2>2. FedWorld'
      BY <1>2, <2>1 DEF FedInv, FedWorld
    <2> QED BY <1>1, <1>2, <1>3, <1>4, <2>1, <2>2, FedGoesDown
  <1>6. CASE Fed!Mine(p) \in dir /\ Fed!Bins(Fed!Mine(p))
    <2>1. FedWorld' /\ dir' \cup bin' = dir \cup bin /\ dir \ dir' \subseteq {Fed!Mine(p)}
      BY <1>2, <1>6, FedBins
    <2>2. Fed!Mine(p).id \in fedOwn
      BY <1>6, FedMine
    <2>3. FedInv'
      BY <1>1, <1>2, <1>3, <1>4, <2>1, FedGoesDown
    <2> QED BY <2>1, <2>2, <2>3
  <1> QED BY <1>5, <1>6 DEF Fed!Drops

LEMMA FedPurges ==
  ASSUME FedInv, NEW p \in Runs, Fed!Purges(p)
  PROVE  FedInv' /\ UNCHANGED dir /\ \A o \in bin \ bin' : o.id \in fedOwn
  <1> USE FedHave
  <1>1. fed[p].pc = "purge" /\ fed[p].pc \in Fed!DownSteps
    BY DEF Fed!Purges, Fed!At, Fed!DownSteps
  <1>2. UNCHANGED <<org, dir, old, assigned, made, fedOwn, blind, orgState, fedOthers, fedTorn>>
    BY DEF Fed!Purges, Fed!Counts, Fed!Rests
  <1>3. fedFaults' \in 0 .. MaxFaults
    BY FedFaults DEF Fed!Purges
  <1>4. FedTurns(p) /\ FedStays(p) /\ fed'[p].pc \in Fed!DownSteps \cup FedFails
    <2>1. ASSUME NEW pc \in {"residue", "exit3"}, Fed!Goes(p, pc)
          PROVE  FedTurns(p) /\ FedStays(p) /\ fed'[p].pc \in Fed!DownSteps \cup FedFails
      BY <2>1, FedGoes DEF FedSteps, Fed!DownSteps, FedFails, Fed!Rest, Fed!Exits
    <2>2. CASE Fed!To(p, "group", "purge")
      BY <2>2, FedGoesTo, FedKinds DEF FedSteps, Fed!DownSteps
    <2> QED BY <2>1, <2>2 DEF Fed!Purges
  <1>5. bin' \in {bin, bin \ {Fed!Mine(p)}}
    BY DEF Fed!Purges
  <1>6. FedWorld'
    BY <1>2, <1>5 DEF FedInv, FedWorld
  <1>7. \A o \in bin \ bin' : o.id \in fedOwn
    BY <1>5, FedMine
  <1>8. FedInv'
    BY <1>1, <1>2, <1>3, <1>4, <1>5, <1>6, FedGoesDown
  <1> QED BY <1>2, <1>7, <1>8

LEMMA FedResidue ==
  ASSUME FedInv, NEW p \in Runs, Fed!Residue(p) PROVE FedInv'
  <1> USE FedHave
  <1>1. fed[p].pc = "residue" /\ fed[p].pc \in Fed!DownSteps /\ fed[p].pc \notin Fed!Rest \cup FedWriting
        /\ FedModed(fed[p]) /\ fed[p].st = orgState
    BY DEF Fed!Residue, Fed!At, Fed!DownSteps, Fed!Rest, Fed!Exits, FedWriting, FedInv
  <1>2. UNCHANGED <<org, dir, bin, old, assigned, made, fedOwn, blind, orgState, fedOthers, fedTorn>>
    BY DEF Fed!Residue, Fed!Entra, Fed!Counts, Fed!Rests
  <1>3. fedFaults' \in 0 .. MaxFaults /\ FedWorld'
    BY <1>2, FedFaults DEF Fed!Residue, FedInv, FedWorld
  <1>4. PICK pc \in {"exit0", "exit1", "exit3"} : Fed!Goes(p, pc) /\ (pc = "exit0" => Fed!NoResidue(p))
    BY DEF Fed!Residue
  <1>5. FedTurns(p) /\ FedStays(p) /\ fed'[p].pc = pc
    BY <1>4, FedGoes DEF FedSteps, Fed!Rest, Fed!Exits
  <1>6. CASE pc # "exit0"
    BY <1>1, <1>2, <1>3, <1>5, <1>6, FedGoesDown DEF FedFails
  <1>7. CASE pc = "exit0"
    <2>1. FedModed(fed[p])' /\ OrgFit(fed[p])' /\ fed'[p].pc \notin FedWriting
      BY <1>5, <1>7 DEF FedModed, OrgFit, Unsettled, Fed!Steps, Fed!DownSteps, FedWriting
    <2>2. FedFit(fed[p])'
      BY <1>1, <1>2, <1>4, <1>5, <1>7 DEF FedFit, FedStays, FedModed, Fed!NoResidue
    <2> QED BY <1>1, <1>2, <1>3, <1>5, <2>1, <2>2, FedCarries
  <1> QED BY <1>6, <1>7

LEMMA FedDies ==
  ASSUME FedInv, NEW p \in Runs, Fed!Dies(p) PROVE FedInv'
  <1> USE FedHave
  <1>1. fed[p].pc \notin Fed!Rest
    BY FedAt
  <1>2. UNCHANGED <<org, dir, bin, old, assigned, made, fedOwn, blind, orgState, fedOthers>>
    BY DEF Fed!Dies, Fed!Entra, Fed!Counts
  <1>3. fedFaults' \in 0 .. MaxFaults /\ FedWorld'
    BY <1>2, FedFaults DEF Fed!Dies, FedInv, FedWorld
  <1>4. fedTorn' = (fedTorn \/ fed[p].pc \in FedWriting) /\ fedTorn' \in BOOLEAN
    BY DEF Fed!Dies, FedWriting
  <1>5. fed' = [fed EXCEPT ![p] = Fed!Idle]
    BY DEF Fed!Dies
  <1>6. FedTurns(p) /\ fed'[p] = Fed!Idle
    BY <1>5, FedIdle DEF FedTurns
  <1>7. fed'[p].pc \in Fed!Rest /\ fed'[p].pc \notin FedWriting /\ ~fed'[p].alone
    BY <1>6, FedIdle DEF Fed!Rest, FedWriting
  <1>8. FedModed(fed[p])' /\ OrgFit(fed[p])'
    BY <1>6, FedIdle DEF FedModed, OrgFit, Fed!Steps, Fed!DownSteps
  <1>9. Known(orgState)' /\ Known(fed[p].st)'
    BY <1>2, <1>6, FedIdle, FedNone DEF FedInv, Known
  <1>10. ASSUME ~fedTorn', ~blind' PROVE Records(orgState)'
    <2>1. ~fedTorn /\ fed[p].pc \notin FedWriting
      BY <1>4, <1>10, Zenon
    <2>2. Records(fed[p].st) /\ fed[p].st = orgState
      BY <1>1, <1>2, <1>10, <2>1, FedRecorded DEF FedInv
    <2> QED BY <1>2, <2>2 DEF Records
  <1> QED BY <1>1, <1>2, <1>3, <1>4, <1>6, <1>7, <1>8, <1>9, <1>10, FedMoves

LEMMA FedStarts ==
  ASSUME FedInv, NEW p \in Runs, NEW m \in {"build", "teardown"}, NEW key \in {Fed!NoKey} \cup Keys,
         Fed!Starts(p, m, key)
  PROVE  FedInv' /\ UNCHANGED <<org, dir, bin>>
  <1> USE FedHave
  <1>1. (\A q \in Runs : fed[q].pc \in Fed!Rest) /\ (m = "teardown") = (key = Fed!NoKey)
    BY DEF Fed!Starts, Fed!Busy
  <1>2. UNCHANGED <<org, dir, bin, old, assigned, made, fedOwn, blind, orgState, fedOthers, fedTorn, fedFaults>>
    BY Zenon DEF Fed!Starts, Fed!Entra, Fed!Counts, Fed!Rests
  <1>3. PICK pc : pc = IF m = "build" THEN "find" ELSE IF orgState = Fed!None THEN "exit2" ELSE "look"
    OBVIOUS
  <1>4. PICK first : first = [Fed!Idle EXCEPT !.mode = m, !.key = key, !.st = orgState, !.alone = TRUE, !.pc = pc]
    OBVIOUS
  <1>5. fed' = [q \in Runs |-> IF q = p THEN first ELSE [fed[q] EXCEPT !.alone = FALSE]]
    BY <1>3, <1>4, Zenon DEF Fed!Starts
  <1>6. pc \in {"find", "exit2", "look"} /\ (pc = "find") = (m = "build")
    BY <1>3
  <1>7. /\ first \in FedRuns /\ first.pc = pc /\ first.mode = m /\ first.key = key /\ first.kind = "org"
        /\ first.st = orgState
    BY <1>4, <1>6, FedIdle DEF FedRuns, Fed!Rest, Fed!Exits, Fed!Steps, Fed!DownSteps
  <1>8. fed'[p] = first
    BY <1>5
  <1>9. \A q \in Runs \ {p} :
          /\ fed'[q] \in FedRuns /\ fed'[q].pc \in Fed!Rest /\ fed'[q].st = fed[q].st /\ fed'[q].mode = fed[q].mode
          /\ fed'[q].key = fed[q].key /\ fed'[q].kind = fed[q].kind /\ fed'[q].pc = fed[q].pc /\ ~fed'[q].alone
    <2> SUFFICES ASSUME NEW q \in Runs \ {p}
                 PROVE  /\ fed'[q] \in FedRuns /\ fed'[q].pc = fed[q].pc /\ fed'[q].st = fed[q].st
                        /\ fed'[q].mode = fed[q].mode /\ fed'[q].key = fed[q].key /\ fed'[q].kind = fed[q].kind
                        /\ ~fed'[q].alone
      BY <1>1
    <2>1. fed'[q] = [fed[q] EXCEPT !.alone = FALSE] /\ fed[q] \in FedRuns
      BY <1>5
    <2> QED BY <2>1 DEF FedRuns
  <1>10. fed' \in [Runs -> FedRuns]
    BY <1>5, <1>7, <1>8, <1>9
  <1>11. FedWorld'
    BY <1>2 DEF FedInv, FedWorld
  <1>12. Fed!TypeOK'
    BY <1>2, <1>10, <1>11 DEF FedInv, Fed!TypeOK, FedRuns, FedWorld
  <1>13. Known(fed[p].st)' /\ FedModed(fed[p])' /\ OrgFit(fed[p])' /\ FedFit(fed[p])'
         /\ (fed'[p].pc \notin Fed!Rest \cup FedWriting => fed'[p].st = orgState')
    <2>1. Known(fed[p].st)'
      BY <1>2, <1>7, <1>8 DEF FedInv, Known
    <2>2. FedModed(fed[p])'
      BY <1>1, <1>6, <1>7, <1>8 DEF FedModed, Fed!Steps, Fed!DownSteps
    <2>3. OrgFit(fed[p])'
      BY <1>6, <1>7, <1>8 DEF OrgFit, Unsettled, Fed!Steps
    <2>4. FedFit(fed[p])'
      BY <1>6, <1>7, <1>8 DEF FedFit
    <2> QED BY <1>2, <1>7, <1>8, <2>1, <2>2, <2>3, <2>4
  <1>14. \A q \in Runs \ {p} : Known(fed[q].st)' /\ FedModed(fed[q])' /\ OrgFit(fed[q])'
    BY <1>2, <1>9 DEF FedInv, Known, FedModed, OrgFit, Fed!Rest, Fed!Exits, Fed!Steps, Fed!DownSteps
  <1>15. \A q \in Runs : fed[q].pc \notin FedWriting /\ fed'[q].pc \notin FedWriting
    BY <1>1, <1>6, <1>7, <1>8, <1>9 DEF FedWriting, Fed!Rest, Fed!Exits
  <1>16. FedRecord'
    BY <1>2, <1>15 DEF FedInv, FedRecord, Records
  <1>17. Known(orgState)'
    BY <1>2 DEF FedInv, Known
  <1>18. \A q, o \in Runs : fed'[q].alone /\ q # o => fed'[o].pc \in Fed!Rest /\ ~fed'[o].alone
    BY <1>9
  <1> QED BY <1>2, <1>9, <1>11, <1>12, <1>13, <1>14, <1>16, <1>17, <1>18 DEF FedInv

\* Something happens beside the runs: no key appears, and nothing a run was told of.
LEMMA FedBeside ==
  ASSUME FedInv, FedWorld', UNCHANGED <<orgState, fedOwn, fedTorn, blind>>,
         fedFaults' \in 0 .. MaxFaults, fedOthers' \in 0 .. MaxOthers, fed' \in [Runs -> FedRuns],
         \A p \in Runs : /\ fed'[p].pc = fed[p].pc /\ fed'[p].mode = fed[p].mode /\ fed'[p].key = fed[p].key
                         /\ fed'[p].kind = fed[p].kind /\ fed'[p].st = fed[p].st
                         /\ fed'[p].alone => fed[p].alone /\ FedFit(fed[p])',
         org'.key = Fed!NoKey \/ (org'.id = org.id /\ org'.key = org.key), org'.id \in fedOwn => org'.id = org.id,
         \A o \in dir' \cup bin' : o.id \in fedOwn => o \in dir \cup bin
  PROVE  FedInv'
  <1> USE FedHave
  <1>1. Fed!TypeOK'
    BY DEF Fed!TypeOK, FedRuns, FedWorld
  <1>2. Known(orgState)' /\ \A p \in Runs : Known(fed[p].st)' /\ FedModed(fed[p])'
    BY DEF FedInv, Known, FedModed
  <1>3. \A p \in Runs : OrgFit(fed[p])'
    <2>1. \A p \in Runs : OrgFit(fed[p])
      BY DEF FedInv
    <2> QED BY <2>1 DEF OrgFit, Unsettled
  <1>4. FedRecord'
    <2>1. ASSUME NEW st, Records(st) PROVE Records(st)'
      BY <2>1 DEF Records
    <2> QED BY <2>1 DEF FedInv, FedRecord, Records
  <1>5. \A p \in Runs : fed'[p].pc \notin Fed!Rest \cup FedWriting => fed'[p].st = orgState'
    BY DEF FedInv
  <1>6. \A p, q \in Runs : fed'[p].pc \notin Fed!Rest /\ fed'[q].pc \notin Fed!Rest => p = q
    BY DEF FedInv
  <1>7. \A p, q \in Runs : fed'[p].alone /\ p # q => fed'[q].pc \in Fed!Rest /\ ~fed'[q].alone
    BY DEF FedInv
  <1> QED BY <1>1, <1>2, <1>3, <1>4, <1>5, <1>6, <1>7 DEF FedInv

\* Nothing happens, or what no run settles on changes.
LEMMA FedQuiet ==
  ASSUME FedInv, FedWorld', UNCHANGED <<fed, dir, bin, assigned, orgState, fedOwn, fedTorn, blind, fedFaults, fedOthers>>,
         org'.id = org.id, org'.key = org.key, org'.imported = org.imported
  PROVE  FedInv'
  <1> USE FedHave
  <1>1. \A p \in Runs : fed[p].alone => FedFit(fed[p])'
    <2>1. \A p \in Runs : fed[p].alone => FedFit(fed[p])
      BY DEF FedInv
    <2> QED BY <2>1 DEF FedFit
  <1> QED BY <1>1, FedBeside

LEMMA FedSignsIn ==
  ASSUME FedInv, Fed!SignsIn PROVE FedInv' /\ UNCHANGED <<dir, bin>> /\ org'.id = org.id /\ org'.key = org.key
  <1> USE FedHave
  <1>1. UNCHANGED <<dir, bin, old, assigned, made, fedOwn, blind, orgState, fedOthers, fedTorn, fed, fedFaults>>
    BY DEF Fed!SignsIn, Fed!Entra, Fed!Counts, Fed!Rests
  <1>2. org \in [id : {0} \cup Fed!Id, key : {Fed!NoKey} \cup Keys, imported : {"no", "member", "other"},
                 under : SUBSET Keys] /\ org.key # Fed!NoKey
    BY DEF FedInv, FedWorld, Fed!SignsIn
  <1>3. org' = [org EXCEPT !.under = org.under \cup {org.key}]
    BY DEF Fed!SignsIn
  <1>4. /\ org' \in [id : {0} \cup Fed!Id, key : {Fed!NoKey} \cup Keys, imported : {"no", "member", "other"},
                     under : SUBSET Keys]
        /\ org'.id = org.id /\ org'.key = org.key /\ org'.imported = org.imported
    BY <1>2, <1>3
  <1>5. org.id # 0
    BY <1>2, FedBlank DEF FedInv, FedWorld
  <1>6. FedWorld'
    BY <1>1, <1>2, <1>4, <1>5 DEF FedInv, FedWorld
  <1> QED BY <1>1, <1>4, <1>6, FedQuiet

LEMMA FedSettles == ASSUME FedInv, Fed!Settles PROVE FedInv' /\ UNCHANGED <<org, dir, bin>>
  <1> USE FedHave
  <1>1. UNCHANGED <<org, dir, bin, assigned, made, fedOwn, blind, orgState, fedOthers, fedTorn, fed, fedFaults>>
        /\ old' = dir
    BY DEF Fed!Settles, Fed!Counts, Fed!Rests
  <1>2. FedWorld'
    BY <1>1 DEF FedInv, FedWorld
  <1> QED BY <1>1, <1>2, FedQuiet

LEMMA FedStay == FedInv /\ UNCHANGED throwaway => FedInv'
  <1> SUFFICES ASSUME FedInv, UNCHANGED throwaway PROVE FedInv'
    OBVIOUS
  <1>1. UNCHANGED <<org, dir, bin, old, assigned, orgState, fed, made, fedFaults, fedOthers, fedOwn, fedTorn, blind>>
    BY DEF throwaway
  <1>2. FedWorld'
    BY <1>1 DEF FedInv, FedWorld
  <1> QED BY <1>1, <1>2, FedQuiet

LEMMA FedOthers == ASSUME FedInv, Fed!Others PROVE FedInv'
  <1> USE FedHave
  <1>1. UNCHANGED <<orgState, fedFaults, fedOwn, fedTorn, blind>> /\ fedOthers' \in 0 .. MaxOthers
    BY DEF Fed!Others
  <1>2. fed' = [p \in Runs |-> [fed[p] EXCEPT !.alone = FALSE]]
    BY DEF Fed!Others
  <1>3. \A p \in Runs :
          /\ fed'[p] \in FedRuns /\ fed'[p].pc = fed[p].pc /\ fed'[p].mode = fed[p].mode /\ fed'[p].key = fed[p].key
          /\ fed'[p].kind = fed[p].kind /\ fed'[p].st = fed[p].st /\ ~fed'[p].alone
    BY <1>2 DEF FedRuns
  <1>4. fed' \in [Runs -> FedRuns]
    BY <1>2, <1>3
  <1>5. ASSUME FedWorld', org'.key = Fed!NoKey \/ (org'.id = org.id /\ org'.key = org.key),
               org'.id \in fedOwn => org'.id = org.id, \A o \in dir' \cup bin' : o.id \in fedOwn => o \in dir \cup bin
        PROVE  FedInv'
    BY <1>1, <1>3, <1>4, <1>5, FedBeside
  <1>6. org \in [id : {0} \cup Fed!Id, key : {Fed!NoKey} \cup Keys, imported : {"no", "member", "other"},
                 under : SUBSET Keys]
    BY DEF FedInv, FedWorld
  <1>7. CASE org.id = 0 /\ made < MaxIds /\ made' = made + 1 /\ org' = Fed!NewOrg(made') /\ Fed!Entra
    <2>1. UNCHANGED <<dir, bin, old, assigned>>
      BY <1>7 DEF Fed!Entra
    <2> QED BY <1>1, <1>5, <1>7, <2>1, FedNewOrg
  <1>8. CASE org.id # 0 /\ org' \in {Fed!NoOrg, [org EXCEPT !.imported = "other"]} /\ UNCHANGED made /\ Fed!Entra
    <2>1. UNCHANGED <<dir, bin, old, assigned>>
      BY <1>8 DEF Fed!Entra
    <2>2. CASE org' = Fed!NoOrg
      <3>1. (\A o \in dir \cup bin : o.id # 0) /\ 0 \notin fedOwn
        BY DEF FedInv, FedWorld, Fed!Object, Fed!Id
      <3>2. FedWorld'
        BY <1>1, <1>8, <2>1, <2>2, <3>1, FedBlank DEF FedInv, FedWorld
      <3> QED BY <1>5, <2>1, <2>2, <3>1, <3>2, FedBlank
    <2>3. CASE org' = [org EXCEPT !.imported = "other"]
      <3>1. /\ org' \in [id : {0} \cup Fed!Id, key : {Fed!NoKey} \cup Keys, imported : {"no", "member", "other"},
                         under : SUBSET Keys]
            /\ org'.id = org.id /\ org'.key = org.key /\ org'.under = org.under
        BY <1>6, <2>3
      <3>2. FedWorld'
        BY <1>1, <1>8, <2>1, <3>1 DEF FedInv, FedWorld
      <3> QED BY <1>5, <2>1, <3>1, <3>2
    <2> QED BY <1>8, <2>2, <2>3
  <1>9. ASSUME made < MaxIds, made' = made + 1, UNCHANGED <<org, bin, assigned>>, old' = dir, NEW kind \in {"app", "group"},
               dir' = dir \cup {[kind |-> kind, id |-> made']}
        PROVE  FedInv'
    <2>1. FedWorld' /\ made' \notin fedOwn
      BY <1>1, <1>9, FedNewObject
    <2> QED BY <1>5, <1>9, <2>1
  <1>10. ASSUME NEW o \in dir, Fed!Bins(o), UNCHANGED <<org, made>> PROVE FedInv'
    <2>1. FedWorld' /\ dir' \cup bin' = dir \cup bin
      BY <1>1, <1>10, FedBins
    <2> QED BY <1>5, <1>10, <2>1
  <1>11. ASSUME NEW o \in dir, assigned' = assigned \cup {[app |-> o.id, to |-> 0]}, UNCHANGED <<org, dir, bin, old, made>>
         PROVE  FedInv'
    <2>1. [app |-> o.id, to |-> 0] \in [app : Fed!Id, to : {0} \cup Fed!Id]
      BY DEF FedInv, FedWorld, Fed!Object
    <2>2. FedWorld'
      BY <1>1, <1>11, <2>1 DEF FedInv, FedWorld
    <2> QED BY <1>5, <1>11, <2>2
  <1> QED BY <1>7, <1>8, <1>9, <1>10, <1>11 DEF Fed!Others, Fed!OfKind

LEMMA FedStartsOne ==
  ASSUME FedInv, NEW p \in Runs, NEW k \in {Fed!NoKey} \cup Keys,
         Fed!Starts(p, IF k = Fed!NoKey THEN "teardown" ELSE "build", k)
  PROVE  FedInv' /\ UNCHANGED <<org, dir, bin>>
  <1>1. PICK m \in {"build", "teardown"} : m = IF k = Fed!NoKey THEN "teardown" ELSE "build"
    OBVIOUS
  <1> QED BY <1>1, FedStarts

LEMMA FedStep == FedInv /\ Fed!Next => FedInv'
  BY FedFindsOrg, FedMakesOrg, FedTakesOrg, FedFinds, FedMakes, FedSaves, FedWrites, FedAssigns, FedWritesSettings,
     FedImports, FedLooks, FedDropsOrg, FedDrops, FedPurges, FedResidue, FedDies, FedStartsOne, FedSignsIn, FedSettles,
     FedOthers DEF Fed!Next, Fed!Step

LEMMA FedSays == FedInv => Fed!TypeOK /\ Fed!ExitZeroIsTrue /\ Fed!MadeIsRecorded
  <1> SUFFICES ASSUME FedInv PROVE Fed!TypeOK /\ Fed!ExitZeroIsTrue /\ Fed!MadeIsRecorded
    OBVIOUS
  <1>1. ASSUME NEW p \in Runs, fed[p].alone, fed[p].pc = "exit0" PROVE FedFit(fed[p]) /\ fed[p].st = orgState
        /\ (fed[p].mode = "build" \/ fed[p].mode = "teardown")
    BY <1>1, FedHave DEF FedInv, FedFit, FedRuns
  <1>2. Fed!ExitZeroIsTrue
    BY <1>1 DEF FedFit, Fed!ExitZeroIsTrue, Fed!At
  <1>3. Fed!MadeIsRecorded
    BY DEF FedInv, FedRecord, Records, FedWriting, Fed!MadeIsRecorded
  <1> QED BY <1>2, <1>3 DEF FedInv

\* What a step of a run does to the organization and to the objects.
LEMMA FedTouches ==
  ASSUME FedInv, NEW p \in Runs, Fed!Step(p) \/ Fed!Dies(p)
  PROVE  /\ \A o \in dir \cup bin : o \notin dir' \cup bin' => o.id \in fedOwn
         /\ \A o \in dir \ dir' : o.id \in fedOwn
         /\ org.id # 0 /\ <<org'.id, org'.key>> # <<org.id, org.key>> => org.id \in fedOwn
         /\ org.id = org'.id /\ org.under # {} => org'.key = org.key
  <1>1. CASE Fed!WritesSettings(p)
    <2>1. UNCHANGED <<dir, bin>>
      BY <1>1 DEF Fed!WritesSettings, Fed!Entra
    <2> QED BY <1>1, <2>1, FedWritesSettings
  <1>2. CASE Fed!Imports(p)
    <2>1. UNCHANGED <<dir, bin>>
      BY <1>2 DEF Fed!Imports, Fed!Entra
    <2> QED BY <1>2, <2>1, FedImports
  <1>3. CASE Fed!DropsOrg(p)
    <2>1. UNCHANGED <<dir, bin>>
      BY <1>3 DEF Fed!DropsOrg, Fed!Entra
    <2> QED BY <1>3, <2>1, FedDropsOrg, FedBlank
  <1>4. CASE Fed!Drops(p)
    <2>1. UNCHANGED org
      BY <1>4 DEF Fed!Drops
    <2> QED BY <1>4, <2>1, FedDrops
  <1>5. CASE Fed!Purges(p)
    <2>1. UNCHANGED org
      BY <1>5 DEF Fed!Purges
    <2> QED BY <1>5, <2>1, FedPurges
  <1>6. CASE Fed!MakesOrg(p)
    <2>1. UNCHANGED <<dir, bin>> /\ (UNCHANGED org \/ org.id = 0)
      BY <1>6 DEF Fed!MakesOrg, Fed!Entra
    <2>2. org.id = 0 => org.under = {}
      BY FedBlank DEF FedInv, FedWorld
    <2> QED BY <2>1, <2>2
  <1>7. CASE Fed!Makes(p)
    <2>1. UNCHANGED <<org, bin>> /\ dir \subseteq dir'
      BY <1>7 DEF Fed!Makes
    <2> QED BY <2>1
  <1>8. CASE Fed!FindsOrg(p) \/ Fed!TakesOrg(p) \/ Fed!Finds(p) \/ Fed!Saves(p) \/ Fed!Writes(p) \/ Fed!Looks(p)
             \/ Fed!Residue(p) \/ Fed!Dies(p) \/ Fed!Assigns(p)
    <2>1. UNCHANGED <<org, dir, bin>>
      BY <1>8 DEF Fed!FindsOrg, Fed!TakesOrg, Fed!Finds, Fed!Saves, Fed!Writes, Fed!Looks, Fed!Residue, Fed!Dies,
           Fed!Assigns, Fed!Entra
    <2> QED BY <2>1
  <1> QED BY <1>1, <1>2, <1>3, <1>4, <1>5, <1>6, <1>7, <1>8 DEF Fed!Step

LEMMA FedActs ==
  FedInv /\ Fed!Next =>
    /\ fedOthers' = fedOthers =>
         /\ \A o \in dir \cup bin : o \notin dir' \cup bin' => o.id \in fedOwn
         /\ \A o \in dir \ dir' : o.id \in fedOwn
         /\ org.id # 0 /\ <<org'.id, org'.key>> # <<org.id, org.key>> => org.id \in fedOwn
    /\ org.id = org'.id /\ org.under # {} => org'.key = org.key
  <1> SUFFICES ASSUME FedInv, Fed!Next
               PROVE  /\ fedOthers' = fedOthers =>
                           /\ \A o \in dir \cup bin : o \notin dir' \cup bin' => o.id \in fedOwn
                           /\ \A o \in dir \ dir' : o.id \in fedOwn
                           /\ org.id # 0 /\ <<org'.id, org'.key>> # <<org.id, org.key>> => org.id \in fedOwn
                      /\ org.id = org'.id /\ org.under # {} => org'.key = org.key
    OBVIOUS
  <1>1. CASE \E p \in Runs : Fed!Step(p) \/ Fed!Dies(p)
    BY <1>1, FedTouches
  <1>2. ASSUME NEW p \in Runs, NEW k \in {Fed!NoKey} \cup Keys,
               Fed!Starts(p, IF k = Fed!NoKey THEN "teardown" ELSE "build", k)
        PROVE  UNCHANGED <<org, dir, bin>>
    BY <1>2, FedStartsOne
  <1>3. CASE Fed!SignsIn
    BY <1>3, FedSignsIn
  <1>4. CASE Fed!Settles
    BY <1>4, FedSettles
  <1>5. CASE Fed!Others
    <2>1. fedOthers' # fedOthers
      BY <1>5, FedHave DEF Fed!Others
    <2>2. org \in [id : {0} \cup Fed!Id, key : {Fed!NoKey} \cup Keys, imported : {"no", "member", "other"},
                   under : SUBSET Keys]
      BY DEF FedInv, FedWorld
    <2>3. org'.id # org.id \/ org'.key = org.key
      <3>1. org' = org \/ (org.id = 0 /\ org' = Fed!NewOrg(made') /\ made' = made + 1)
            \/ (org.id # 0 /\ org' = Fed!NoOrg) \/ org' = [org EXCEPT !.imported = "other"]
        BY <1>5 DEF Fed!Others, Fed!Entra, Fed!Bins
      <3>2. Fed!NewOrg(made').id = made'
        BY DEF Fed!NewOrg, Fed!NoOrg
      <3> QED BY <2>2, <3>1, <3>2, FedBlank, FedHave
    <2> QED BY <2>1, <2>3
  <1> QED BY <1>1, <1>2, <1>3, <1>4, <1>5 DEF Fed!Next

-----------------------------------------------------------------------------
(* The API client (ApiClient): the client on record, the tokens of a run, and the token somebody relies on. *)

ApiRuns ==
  [pc : Api!Rest \cup Api!Steps, mode : Api!Modes, realm : Realms, cl : Api!ClientRow, tk : SUBSET Api!Token,
   st : Api!StateFile, saw : 0 .. MaxClients, new : 0 .. MaxTokens, trade : {"none", "ok", "refused", "silent"},
   draft : Api!StateFile, one : BOOLEAN, alone : BOOLEAN]

ApiWriting == {"save", "write"}

\* The steps of each mode, and what a step rests on.
Turn(k) ==
  /\ k.pc \in {"post", "bind"} => k.mode = "create"
  /\ k.pc \in {"issue", "trade", "after"} => k.mode \in {"create", "rotate"}
  /\ k.pc \in ApiWriting => k.mode \in {"create", "rotate", "teardown"}
  /\ k.pc \in ApiWriting /\ k.mode = "rotate" => k.new # 0
  /\ k.pc = "tokens" => k.mode # "create"
  /\ k.pc = "delete" => k.mode \in {"retire", "teardown"}
  /\ k.pc = "deleteClient" => k.mode = "teardown"
  /\ k.pc \in {"trade", "after"} => k.new \in issued
  /\ k.mode # "create" /\ k.pc \in {"issue", "delete", "deleteClient"} => k.saw \in answered
  /\ k.mode = "retire" /\ k.pc = "delete" => \A t \in k.tk : t.id < k.st.last
  /\ {k.st.uuid, k.draft.uuid} \subseteq answered \cup {0} /\ \A t \in k.tk : t.id <= minted

\* The token a run was given.
Given(k) == [id |-> k.new, realm |-> k.realm, live |-> TRUE]

\* A create that was left alone.
MakesFit(k) ==
  /\ k.pc \in {"clients", "judge", "post"} => k.new = 0
  /\ k.pc \in {"save", "write", "bind", "issue", "trade", "after", "backClients", "backTokens", "exit0"} =>
       /\ client[k.realm].uuid = k.saw /\ k.draft.uuid = k.saw
       /\ k.new # 0 => Given(k) \in tokens /\ client[k.realm].role
  /\ k.pc \in {"bind", "issue", "trade", "after", "backClients", "backTokens", "exit0"} => state.uuid = k.saw
  /\ k.pc = "issue" => client[k.realm].role
  /\ k.pc \in {"trade", "after", "backClients", "backTokens", "exit0"} => k.new # 0

\* A rotation that was left alone: the tokens are those it listed, and its own.
TurnsFit(k) ==
  /\ k.pc \in {"judge", "issue"} => k.tk = Api!Listed(k.realm)
  /\ k.pc \in {"trade", "after", "save", "write", "backClients", "backTokens"} =>
       Api!Listed(k.realm) = k.tk \cup {Given(k)} /\ k.new \notin Api!Ids(k.tk)
  /\ k.pc \in ApiWriting => k.draft.last = k.new
  /\ k.pc \in {"backClients", "backTokens", "exit0"} => state.last = k.new
  /\ k.pc = "exit0" => k.tk \cup {Given(k)} \subseteq Api!Live(Api!Listed(k.realm))

\* A retirement that was left alone.
RetiresFit(k) ==
  /\ k.pc \in {"delete", "backClients", "backTokens"} => k.new = state.last
  /\ k.pc = "exit0" =>
       /\ Api!Ids(Api!Listed(k.realm)) = {state.last}
       /\ Api!Live(Api!Listed(k.realm)) = Api!Listed(k.realm)

\* A teardown that was left alone: the file is of its realm, if it says anything.
EndsFit(k) ==
  /\ k.pc \notin {"exit1", "exit2", "exit3"} => state = Api!Nothing \/ state.realm = k.realm
  /\ k.pc \in {"delete", "deleteClient", "backClients", "backTokens"} => k.st = Api!Nothing \/ k.st.realm = k.realm
  /\ k.pc \in ApiWriting => k.draft = Api!Nothing \/ k.draft.realm = k.realm
  /\ k.pc \in {"save", "write", "exit0"} => client[k.realm] = Api!NoClient /\ Api!Listed(k.realm) = {}

ApiFit(k) ==
  /\ k.pc = "backTokens" => k.cl = client[k.realm]
  /\ k.mode = "create" => MakesFit(k)
  /\ k.mode = "rotate" => TurnsFit(k)
  /\ k.mode = "retire" => RetiresFit(k)
  /\ k.mode = "teardown" => EndsFit(k)

\* The client of the last create that was answered is the one a state file records.
LastMade(r) == client[r].uuid \in answered /\ \A u \in answered : u <= client[r].uuid
Tells(st) == \A r \in Realms : LastMade(r) => st.uuid = client[r].uuid /\ st.realm = r

ApiRecord ==
  ~apiTorn =>
    /\ \A p \in Runs : rotation[p].pc \in ApiWriting => Tells(rotation[p].draft)
    /\ (\A p \in Runs : rotation[p].pc \notin ApiWriting) => Tells(state)

\* A run that shares the client with no other: what it holds of the state file is what is there, and the last token
\* is the one that was handed over, or the one it was given itself.
Newest(i) == \A j \in issued : j <= i
Agrees(st) == st.uuid = state.uuid /\ st.realm = state.realm
SoleFit(k) ==
  /\ k.mode = "create" /\ k.pc \in {"bind", "issue", "trade", "after"} => Agrees(k.draft)
  /\ k.mode = "rotate" /\ k.pc \in {"issue", "trade", "after"} => Agrees(k.st)
  /\ k.mode = "teardown" /\ k.pc \in {"delete", "deleteClient", "backClients", "backTokens"} => Agrees(k.st)
  /\ k.mode \in {"create", "rotate"} /\ k.pc \notin Api!Rest => handed = 0 /\ (k.new # 0 => Newest(k.new))
  /\ k.mode = "retire" /\ k.pc \notin Api!Rest => handed # 0 /\ serves = handed

ApiSole ==
  /\ \A p, q \in Runs : rotation[p].pc \notin Api!Rest /\ rotation[q].pc \notin Api!Rest => p = q
  /\ ApiRecord /\ (handed # 0 => Newest(handed)) /\ \A p \in Runs : SoleFit(rotation[p])

\* Numbers given so far have a greatest (kept as a part of the invariant: each is greater than those before it).
HaveGreatest(set) == \A s \in SUBSET set : s # {} => \E i \in s : \A j \in s : j <= i

\* The console: numbers are given once.
Fleet ==
  /\ client \in [Realms -> Api!ClientRow] /\ tokens \subseteq Api!Token
  /\ clients \in 0 .. MaxClients /\ minted \in 0 .. MaxTokens
  /\ answered \subseteq 1 .. clients /\ issued \subseteq 1 .. minted
  /\ \A t \in tokens : t.id <= minted
  /\ \A t, u \in tokens : t.id = u.id => t = u
  /\ \A r \in Realms : client[r].uuid <= clients
  /\ HaveGreatest(1 .. minted) /\ HaveGreatest(1 .. clients)

ApiInv ==
  /\ Api!TypeOK /\ Fleet /\ state.uuid \in answered \cup {0}
  /\ \A p, q \in Runs : rotation[p].alone /\ p # q => rotation[q].pc \in Api!Rest /\ ~rotation[q].alone
  /\ \A p \in Runs : Turn(rotation[p]) /\ (rotation[p].alone => ApiFit(rotation[p]))
  /\ Together <= 1 => ApiSole

LEMMA ApiNumbers ==
  /\ MaxClients \in Nat /\ MaxTokens \in Nat /\ MaxFaults \in Nat /\ MaxOthers \in Nat /\ Together \in Nat
  /\ IsFiniteSet(Runs) /\ Realms # {}
  BY OwnershipAssumption DEF OwnershipAssumption

LEMMA ApiHave ==
  ApiInv =>
    /\ rotation \in [Runs -> ApiRuns] /\ state \in Api!StateFile /\ handed \in 0 .. MaxTokens /\ serves \in 0 .. MaxTokens
    /\ apiFaults \in 0 .. MaxFaults /\ apiOthers \in 0 .. MaxOthers /\ apiTorn \in BOOLEAN
    /\ MaxClients \in Nat /\ MaxTokens \in Nat /\ MaxFaults \in Nat /\ MaxOthers \in Nat
    /\ clients \in Nat /\ minted \in Nat
  BY ApiNumbers DEF ApiInv, Api!TypeOK, ApiRuns, Fleet

LEMMA ApiBlank ==
  /\ Api!Nothing \in Api!StateFile /\ Api!Nothing.uuid = 0 /\ Api!Nothing.last = 0
  /\ Api!NoClient \in Api!ClientRow /\ Api!NoClient.uuid = 0
  BY ApiNumbers DEF Api!Nothing, Api!StateFile, Api!NoClient, Api!ClientRow

LEMMA ApiIdle ==
  /\ Api!Idle \in ApiRuns /\ Api!Idle.pc = "idle" /\ Api!Idle.mode = "create" /\ Api!Idle.new = 0 /\ Api!Idle.st = Api!Nothing
  /\ Api!Idle.draft = Api!Nothing /\ ~Api!Idle.alone /\ Api!Idle.tk = {}
  BY ApiBlank, ApiNumbers DEF ApiRuns, Api!Idle, Api!Rest, Api!Modes, Api!Nothing, Api!StateFile

LEMMA ApiGreater ==
  ASSUME NEW n \in Nat, HaveGreatest(1 .. n) PROVE HaveGreatest(1 .. (n + 1))
  <1> SUFFICES ASSUME NEW s \in SUBSET (1 .. (n + 1)), s # {} PROVE \E i \in s : \A j \in s : j <= i
    BY DEF HaveGreatest
  <1>1. CASE n + 1 \in s
    BY <1>1
  <1>2. CASE n + 1 \notin s
    <2>1. s \in SUBSET (1 .. n)
      BY <1>2
    <2> QED BY <2>1 DEF HaveGreatest
  <1> QED BY <1>1, <1>2

LEMMA ApiStart == Api!Init => ApiInv
  <1> SUFFICES ASSUME Api!Init PROVE ApiInv
    OBVIOUS
  <1>1. /\ client = [r \in Realms |-> Api!NoClient] /\ tokens = {} /\ state = Api!Nothing
        /\ rotation = [p \in Runs |-> Api!Idle] /\ handed = 0 /\ serves = 0 /\ clients = 0 /\ minted = 0 /\ apiFaults = 0
        /\ apiOthers = 0 /\ answered = {} /\ issued = {} /\ apiTorn = FALSE
    BY DEF Api!Init
  <1>2. \A p \in Runs : rotation[p] = Api!Idle
    BY <1>1
  <1>3. \A r \in Realms : client[r] = Api!NoClient
    BY <1>1
  <1>4. Fleet
    <2>1. HaveGreatest(1 .. 0)
      <3>1. 1 .. 0 = {}
        OBVIOUS
      <3> QED BY <3>1 DEF HaveGreatest
    <2>2. client \in [Realms -> Api!ClientRow]
      BY <1>1, ApiBlank
    <2>3. clients \in 0 .. MaxClients /\ minted \in 0 .. MaxTokens
      BY <1>1, ApiNumbers
    <2> QED BY <1>1, <1>3, <2>1, <2>2, <2>3, ApiBlank DEF Fleet
  <1>5. \A p \in Runs : rotation[p] \in ApiRuns /\ rotation[p].pc \in Api!Rest /\ rotation[p].pc \notin ApiWriting
    BY <1>2, ApiIdle DEF Api!Rest, ApiWriting
  <1>6. Api!TypeOK
    <2>1. rotation \in [Runs -> ApiRuns]
      BY <1>1, ApiIdle
    <2>2. /\ handed \in 0 .. MaxTokens /\ serves \in 0 .. MaxTokens /\ apiFaults \in 0 .. MaxFaults
          /\ apiOthers \in 0 .. MaxOthers /\ state \in Api!StateFile
      BY <1>1, ApiNumbers, ApiBlank
    <2>4. apiTorn \in BOOLEAN
      BY <1>1
    <2>3. \A p \in Runs : rotation[p].pc \notin {"trade", "after"}
      BY <1>2, ApiIdle
    <2> QED BY <1>4, <2>1, <2>2, <2>3, <2>4 DEF Api!TypeOK, ApiRuns, Fleet
  <1>7. \A p \in Runs : Turn(rotation[p]) /\ SoleFit(rotation[p])
    BY <1>2, ApiIdle, ApiBlank DEF Turn, SoleFit, ApiWriting, Api!Rest
  <1>8. ApiSole
    BY <1>1, <1>3, <1>5, <1>7, ApiBlank DEF ApiSole, ApiRecord, Tells, LastMade
  <1> QED BY <1>1, <1>2, <1>4, <1>5, <1>6, <1>7, <1>8, ApiIdle, ApiBlank DEF ApiInv

\* What a run goes on with.
ApiTurns(p) == rotation' = [rotation EXCEPT ![p] = rotation'[p]] /\ rotation'[p] \in ApiRuns
ApiStays(p) ==
  /\ rotation'[p].mode = rotation[p].mode /\ rotation'[p].realm = rotation[p].realm /\ rotation'[p].cl = rotation[p].cl
  /\ rotation'[p].tk = rotation[p].tk /\ rotation'[p].st = rotation[p].st /\ rotation'[p].saw = rotation[p].saw
  /\ rotation'[p].new = rotation[p].new /\ rotation'[p].trade = rotation[p].trade
  /\ rotation'[p].draft = rotation[p].draft /\ rotation'[p].one = rotation[p].one
  /\ rotation'[p].alone = rotation[p].alone

ApiSteps == Api!Rest \cup Api!Steps
ApiFails == {"exit1", "exit2", "exit3"}

LEMMA ApiGoes ==
  ASSUME rotation \in [Runs -> ApiRuns], NEW p \in Runs, NEW pc \in ApiSteps, Api!Goes(p, pc)
  PROVE  ApiTurns(p) /\ ApiStays(p) /\ rotation'[p].pc = pc
  <1>1. rotation' = [rotation EXCEPT ![p] = [rotation[p] EXCEPT !.pc = pc]]
    BY DEF Api!Goes
  <1>2. rotation'[p] = [rotation[p] EXCEPT !.pc = pc] /\ rotation' = [rotation EXCEPT ![p] = rotation'[p]]
        /\ rotation[p] \in ApiRuns
    BY <1>1
  <1> QED BY <1>2 DEF ApiTurns, ApiStays, ApiRuns, ApiSteps

LEMMA ApiKnows ==
  ASSUME rotation \in [Runs -> ApiRuns], NEW p \in Runs, NEW k \in ApiRuns, Api!Knows(p, k)
  PROVE  ApiTurns(p) /\ rotation'[p] = k
  BY DEF Api!Knows, ApiTurns

LEMMA ApiFaults == ApiInv /\ (Api!Sound \/ Api!Fault) => apiFaults' \in 0 .. MaxFaults
  BY ApiHave DEF Api!Sound, Api!Fault

LEMMA ApiFailsAre == ApiFails \subseteq ApiSteps
  BY DEF ApiFails, ApiSteps, Api!Rest, Api!Exits

LEMMA ApiAt ==
  ASSUME ApiInv, NEW p \in Runs, Api!Step(p) \/ Api!Dies(p)
  PROVE  rotation[p].pc \notin Api!Rest
  BY DEF Api!Step, Api!ReadsClients, Api!ReadsTokens, Api!Judges, Api!Creates, Api!Saves, Api!Writes, Api!Binds,
       Api!Issues, Api!Trades, Api!ReadsAfter, Api!Deletes, Api!DeletesClient, Api!BacksClients, Api!BacksTokens,
       Api!Dies, Api!At, Api!Busy, Api!Rest, Api!Exits

LEMMA ApiMoves ==
  ASSUME ApiInv, NEW p \in Runs, rotation[p].pc \notin Api!Rest, ApiTurns(p), Fleet', state' \in Api!StateFile,
         state'.uuid \in answered' \cup {0}, answered \subseteq answered', issued \subseteq issued', minted <= minted',
         handed' \in 0 .. MaxTokens, serves' = serves, apiFaults' \in 0 .. MaxFaults, apiOthers' = apiOthers,
         apiTorn' \in BOOLEAN, Turn(rotation[p])', rotation'[p].alone => rotation[p].alone /\ ApiFit(rotation[p])',
         Together <= 1 =>
           /\ ~apiTorn' => IF rotation'[p].pc \in ApiWriting THEN Tells(rotation[p].draft)' ELSE Tells(state)'
           /\ (handed' # 0 => Newest(handed)') /\ SoleFit(rotation[p])'
  PROVE  ApiInv'
  <1> USE ApiHave DEF ApiTurns
  <1>1. \A q \in Runs \ {p} : rotation'[q] = rotation[q] /\ ~rotation[q].alone
    BY DEF ApiInv
  <1>2. rotation' \in [Runs -> ApiRuns]
    BY <1>1
  <1>3. \A q \in Runs \ {p} : Turn(rotation[q])'
    <2>1. ASSUME NEW q \in Runs \ {p}, NEW t \in rotation[q].tk PROVE t.id <= minted'
      <3>0. rotation[q].tk \in SUBSET Api!Token /\ t \in Api!Token
        <4>1. rotation[q] \in ApiRuns
          OBVIOUS
        <4> QED BY <4>1 DEF ApiRuns
      <3>1. t.id \in Nat /\ t.id <= minted /\ minted' \in Nat
        BY <3>0 DEF ApiInv, Turn, Api!Token, Fleet
      <3> QED BY <3>1
    <2> QED BY <1>1, <2>1 DEF ApiInv, Turn
  <1>4. Api!TypeOK'
    BY <1>2, <1>3 DEF Api!TypeOK, ApiRuns, Fleet, Turn
  <1>5. \A q, o \in Runs : rotation'[q].alone /\ q # o => rotation'[o].pc \in Api!Rest /\ ~rotation'[o].alone
    BY <1>1 DEF ApiInv
  <1>6. \A q \in Runs : rotation'[q].alone => ApiFit(rotation[q])'
    BY <1>1
  <1>7. ASSUME Together <= 1 PROVE ApiSole'
    <2>1. \A q \in Runs \ {p} : rotation'[q].pc \in Api!Rest
      BY <1>1, <1>7 DEF ApiInv, ApiSole
    <2>2. \A q \in Runs \ {p} : SoleFit(rotation[q])'
      BY <2>1 DEF SoleFit, Api!Rest, Api!Exits
    <2>3. \A q \in Runs \ {p} : rotation'[q].pc \notin ApiWriting
      BY <2>1 DEF ApiWriting, Api!Rest, Api!Exits
    <2>4. ApiRecord'
      BY <1>7, <2>3 DEF ApiRecord
    <2> QED BY <1>7, <2>1, <2>2, <2>4 DEF ApiSole
  <1> QED BY <1>3, <1>4, <1>5, <1>6, <1>7 DEF ApiInv

\* What the busy run has told the file so far.
LEMMA ApiTold ==
  ASSUME ApiInv, Together <= 1, NEW p \in Runs, rotation[p].pc \notin Api!Rest, ~apiTorn
  PROVE  IF rotation[p].pc \in ApiWriting THEN Tells(rotation[p].draft) ELSE Tells(state)
  <1>1. \A q \in Runs \ {p} : rotation[q].pc \notin ApiWriting
    BY DEF ApiInv, ApiSole, ApiWriting, Api!Rest, Api!Exits
  <1> QED BY <1>1 DEF ApiInv, ApiSole, ApiRecord

\* A step that only reads, and may settle what to write.
LEMMA ApiReads ==
  ASSUME ApiInv, NEW p \in Runs, rotation[p].pc \notin Api!Rest \cup ApiWriting, ApiTurns(p),
         UNCHANGED <<client, tokens, clients, minted, answered, issued, state, handed, serves, apiTorn, apiOthers>>,
         apiFaults' \in 0 .. MaxFaults, Turn(rotation[p])',
         rotation'[p].alone => rotation[p].alone /\ ApiFit(rotation[p])',
         Together <= 1 => SoleFit(rotation[p])' /\ (rotation'[p].pc \in ApiWriting => Agrees(rotation'[p].draft))
  PROVE  ApiInv'
  <1> USE ApiHave
  <1>1. Fleet' /\ state'.uuid \in answered' \cup {0}
    BY DEF ApiInv, Fleet, HaveGreatest
  <1>2. ASSUME Together <= 1, ~apiTorn'
        PROVE  IF rotation'[p].pc \in ApiWriting THEN Tells(rotation[p].draft)' ELSE Tells(state)'
    <2>1. Tells(state)
      BY <1>2, ApiTold
    <2> QED BY <1>2, <2>1 DEF Tells, LastMade, Agrees
  <1>3. Together <= 1 => (handed' # 0 => Newest(handed)')
    BY DEF ApiInv, ApiSole, Newest
  <1> QED BY <1>1, <1>2, <1>3, ApiMoves

\* It stops.
LEMMA ApiStops ==
  ASSUME ApiInv, NEW p \in Runs, rotation[p].pc \notin Api!Rest \cup ApiWriting, ApiTurns(p), ApiStays(p), Fleet',
         UNCHANGED <<state, handed, serves, apiTorn, apiOthers, answered>>, issued \subseteq issued', minted <= minted',
         apiFaults' \in 0 .. MaxFaults, rotation'[p].pc \in ApiFails,
         \A r \in Realms : LastMade(r)' => LastMade(r) /\ client'[r].uuid = client[r].uuid,
         issued' = issued \/ rotation[p].mode \in {"create", "rotate"}
  PROVE  ApiInv'
  <1> USE ApiHave
  <1>1. Turn(rotation[p])' /\ ApiFit(rotation[p])' /\ SoleFit(rotation[p])' /\ rotation'[p].pc \notin ApiWriting
    <2>1. \A t \in rotation[p].tk : t.id <= minted'
      <3>1. \A t \in rotation[p].tk : t.id \in Nat /\ t.id <= minted
        BY DEF ApiInv, Turn, ApiRuns, Api!Token
      <3>2. minted' \in Nat
        BY DEF Fleet
      <3> QED BY <3>1, <3>2
    <2>2. {rotation[p].st.uuid, rotation[p].draft.uuid} \subseteq answered \cup {0}
      BY DEF ApiInv, Turn
    <2>3. Turn(rotation[p])' /\ rotation'[p].pc \notin ApiWriting
      BY <2>1, <2>2 DEF Turn, ApiStays, ApiFails, ApiWriting
    <2>4. SoleFit(rotation[p])'
      BY DEF SoleFit, ApiFails, Api!Rest, Api!Exits
    <2>5. ApiFit(rotation[p])'
      BY DEF ApiFit, MakesFit, TurnsFit, RetiresFit, EndsFit, ApiFails, ApiWriting
    <2> QED BY <2>3, <2>4, <2>5
  <1>2. ASSUME Together <= 1, ~apiTorn' PROVE Tells(state)'
    <2>1. Tells(state)
      BY <1>2, ApiTold
    <2> QED BY <2>1 DEF Tells
  <1>3. Together <= 1 => (handed' # 0 => Newest(handed)')
    <2>1. Together <= 1 /\ rotation[p].mode \in {"create", "rotate"} => handed = 0
      BY DEF ApiInv, ApiSole, SoleFit
    <2> QED BY <2>1 DEF ApiInv, ApiSole, Newest
  <1>4. state'.uuid \in answered' \cup {0} /\ (rotation'[p].alone => rotation[p].alone)
    BY DEF ApiInv, ApiStays
  <1> QED BY <1>1, <1>2, <1>3, <1>4, ApiMoves

LEMMA ApiSame ==
  ASSUME UNCHANGED <<client, tokens, clients, minted, answered, issued>>
  PROVE  /\ Fleet => Fleet'
         /\ \A r \in Realms : (LastMade(r) <=> LastMade(r)') /\ client'[r].uuid = client[r].uuid
         /\ \A r : Api!Listed(r)' = Api!Listed(r)
         /\ \A i : Newest(i) <=> Newest(i)'
  BY DEF Fleet, LastMade, HaveGreatest, Api!Listed, Newest

\* It breaks off, and has changed nothing.
LEMMA ApiBreaks ==
  ASSUME ApiInv, NEW p \in Runs, rotation[p].pc \notin Api!Rest \cup ApiWriting,
         UNCHANGED <<client, tokens, clients, minted, answered, issued, state, handed, serves, apiTorn, apiOthers>>,
         apiFaults' \in 0 .. MaxFaults, NEW pc \in ApiFails, Api!Goes(p, pc)
  PROVE  ApiInv'
  <1>1. ApiTurns(p) /\ ApiStays(p) /\ rotation'[p].pc = pc
    BY ApiGoes, ApiFailsAre, ApiHave
  <1>2. Fleet' /\ minted <= minted'
    BY ApiSame, ApiHave DEF ApiInv
  <1> QED BY <1>1, <1>2, ApiSame, ApiStops

LEMMA ApiReadsClients ==
  ASSUME ApiInv, NEW p \in Runs, Api!ReadsClients(p) PROVE ApiInv'
  <1> USE ApiHave
  <1>1. rotation[p].pc = "clients" /\ rotation[p].pc \notin Api!Rest \cup ApiWriting
    BY DEF Api!ReadsClients, Api!At, Api!Rest, Api!Exits, ApiWriting
  <1>2. UNCHANGED <<client, tokens, clients, minted, answered, issued, state, handed, serves, apiTorn, apiOthers>>
        /\ apiFaults' \in 0 .. MaxFaults
    BY ApiFaults DEF Api!ReadsClients, Api!Fleet, Api!fleet, Api!Desk
  <1>3. CASE Api!Goes(p, "exit3")
    BY <1>1, <1>2, <1>3, ApiBreaks DEF ApiFails
  <1>4. CASE Api!Knows(p, [rotation[p] EXCEPT !.cl = client[rotation[p].realm],
                             !.pc = IF rotation[p].mode \in {"rotate", "retire"} THEN "tokens" ELSE "judge"])
    <2>1. PICK pc \in {"tokens", "judge"} : pc = IF rotation[p].mode \in {"rotate", "retire"} THEN "tokens" ELSE "judge"
      OBVIOUS
    <2>2. PICK k : k = [rotation[p] EXCEPT !.cl = client[rotation[p].realm], !.pc = pc]
      OBVIOUS
    <2>3. rotation[p] \in ApiRuns /\ client[rotation[p].realm] \in Api!ClientRow
      BY DEF ApiInv, Fleet, ApiRuns
    <2>4. /\ k \in ApiRuns /\ k.pc = pc /\ k.mode = rotation[p].mode /\ k.realm = rotation[p].realm
          /\ k.tk = rotation[p].tk /\ k.st = rotation[p].st /\ k.new = rotation[p].new /\ k.draft = rotation[p].draft
          /\ k.alone = rotation[p].alone
      BY <2>2, <2>3 DEF ApiRuns, Api!Steps
    <2>5. ApiTurns(p) /\ rotation'[p] = k
      BY <1>4, <2>1, <2>2, <2>4, ApiKnows
    <2>6. Turn(rotation[p])' /\ rotation'[p].pc \notin ApiWriting
      BY <1>2, <2>1, <2>4, <2>5 DEF ApiInv, Turn, ApiWriting
    <2>7. ASSUME rotation[p].alone PROVE ApiFit(rotation[p])'
      <3>1. ApiFit(rotation[p])
        BY <2>7 DEF ApiInv
      <3> QED BY <1>1, <1>2, <2>1, <2>4, <2>5, <3>1 DEF ApiFit, MakesFit, TurnsFit, RetiresFit, EndsFit, ApiWriting
    <2>8. ASSUME Together <= 1 PROVE SoleFit(rotation[p])'
      BY <1>1, <1>2, <2>1, <2>4, <2>5, <2>8 DEF ApiInv, ApiSole, SoleFit, Newest
    <2> QED BY <1>1, <1>2, <2>4, <2>5, <2>6, <2>7, <2>8, ApiReads
  <1> QED BY <1>3, <1>4 DEF Api!ReadsClients

LEMMA ApiListed ==
  ASSUME ApiInv, NEW r
  PROVE  /\ Api!Listed(r) \subseteq tokens /\ Api!Listed(r) \in SUBSET Api!Token
         /\ \A t \in Api!Listed(r) : t.id <= minted /\ t.realm = r
  BY DEF ApiInv, Fleet, Api!Listed

LEMMA ApiReadsTokens ==
  ASSUME ApiInv, NEW p \in Runs, Api!ReadsTokens(p) PROVE ApiInv'
  <1> USE ApiHave
  <1>1. rotation[p].pc = "tokens" /\ rotation[p].pc \notin Api!Rest \cup ApiWriting /\ rotation[p].mode # "create"
    BY DEF Api!ReadsTokens, Api!At, Api!Rest, Api!Exits, ApiWriting, ApiInv, Turn
  <1>2. UNCHANGED <<client, tokens, clients, minted, answered, issued, state, handed, serves, apiTorn, apiOthers>>
        /\ apiFaults' \in 0 .. MaxFaults
    BY ApiFaults DEF Api!ReadsTokens, Api!Fleet, Api!fleet, Api!Desk
  <1>3. CASE Api!Goes(p, "exit3")
    BY <1>1, <1>2, <1>3, ApiBreaks DEF ApiFails
  <1>4. CASE Api!Knows(p, [rotation[p] EXCEPT !.tk = Api!Listed(rotation[p].realm),
                             !.pc = IF rotation[p].mode = "teardown" THEN "clients" ELSE "judge"])
    <2>1. PICK pc \in {"clients", "judge"} : pc = IF rotation[p].mode = "teardown" THEN "clients" ELSE "judge"
      OBVIOUS
    <2>9. PICK shown : shown = Api!Listed(rotation[p].realm)
      OBVIOUS
    <2>2. PICK k : k = [rotation[p] EXCEPT !.tk = shown, !.pc = pc]
      OBVIOUS
    <2>3. rotation[p] \in ApiRuns /\ shown \in SUBSET Api!Token /\ \A t \in shown : t.id <= minted
      BY <2>9, ApiListed
    <2>4. /\ k \in ApiRuns /\ k.pc = pc /\ k.mode = rotation[p].mode /\ k.realm = rotation[p].realm
          /\ k.tk = shown /\ k.st = rotation[p].st /\ k.new = rotation[p].new /\ k.draft = rotation[p].draft
          /\ k.alone = rotation[p].alone
      BY <2>2, <2>3 DEF ApiRuns, Api!Steps
    <2>5. ApiTurns(p) /\ rotation'[p] = k
      BY <1>4, <2>1, <2>2, <2>4, <2>9, ApiKnows
    <2>6. Turn(rotation[p])' /\ rotation'[p].pc \notin ApiWriting
      BY <1>2, <2>1, <2>3, <2>4, <2>5 DEF ApiInv, Turn, ApiWriting
    <2>7. ASSUME rotation[p].alone PROVE ApiFit(rotation[p])'
      <3>1. ApiFit(rotation[p])
        BY <2>7 DEF ApiInv
      <3>2. TurnsFit(rotation[p])'
        BY <2>1, <2>4, <2>5, <2>9, <1>2 DEF TurnsFit, ApiWriting, Api!Listed
      <3> QED BY <1>1, <1>2, <2>1, <2>4, <2>5, <3>1, <3>2 DEF ApiFit, RetiresFit, EndsFit, ApiWriting
    <2>8. ASSUME Together <= 1 PROVE SoleFit(rotation[p])'
      BY <1>1, <1>2, <2>1, <2>4, <2>5, <2>8 DEF ApiInv, ApiSole, SoleFit, Newest
    <2> QED BY <1>1, <1>2, <2>4, <2>5, <2>6, <2>7, <2>8, ApiReads
  <1> QED BY <1>3, <1>4 DEF Api!ReadsTokens

\* The newest of a list that is not empty.
LEMMA ApiNewest ==
  ASSUME NEW n \in Nat, HaveGreatest(1 .. n), NEW set \in SUBSET Api!Token, Cardinality(set) > 1, \A t \in set : t.id <= n
  PROVE  Api!Newest(set) \in Api!Ids(set) /\ \A t \in set : t.id <= Api!Newest(set)
  <1>1. set # {}
    BY FS_EmptySet
  <1>2. Api!Ids(set) \in SUBSET (1 .. n) /\ Api!Ids(set) # {}
    <2>1. \A t \in set : t.id \in Nat /\ t.id >= 1
      BY DEF Api!Token
    <2> QED BY <1>1, <2>1 DEF Api!Ids
  <1>3. \E i \in Api!Ids(set) : \A j \in Api!Ids(set) : j <= i
    BY <1>2 DEF HaveGreatest
  <1>4. Api!Newest(set) \in Api!Ids(set) /\ \A j \in Api!Ids(set) : j <= Api!Newest(set)
    BY <1>3 DEF Api!Newest
  <1> QED BY <1>4 DEF Api!Ids

\* What a run may go on to once it has judged what it read.
Allowed(p, k) ==
  \/ k.pc \in ApiFails
  \/ k.mode = "create" /\ k.pc = "post" /\ k.new = rotation[p].new
  \/ k.mode = "teardown" /\ k.pc = "backClients"
  \/ k.mode = "rotate" /\ k.pc = "issue" /\ k.tk = rotation[p].tk /\ k.saw \in answered
  \/ k.mode = "retire" /\ k.pc = "delete" /\ k.saw \in answered /\ k.new = state.last /\ \A t \in k.tk : t.id < state.last
  \/ k.mode = "teardown" /\ k.pc \in {"delete", "deleteClient"} /\ k.saw \in answered

LEMMA ApiJudged ==
  ASSUME ApiInv, NEW p \in Runs, rotation[p].pc = "judge",
         UNCHANGED <<client, tokens, clients, minted, answered, issued, state, handed, serves, apiTorn, apiOthers>>,
         apiFaults' \in 0 .. MaxFaults, NEW k \in ApiRuns, Api!Knows(p, k), k.mode = rotation[p].mode,
         k.realm = rotation[p].realm, k.st = state, k.draft = rotation[p].draft, k.alone = rotation[p].alone,
         k.new = rotation[p].new \/ k.mode = "retire", k.tk \subseteq rotation[p].tk, Allowed(p, k)
  PROVE  ApiInv'
  <1> USE ApiHave
  <1>1. ApiTurns(p) /\ rotation'[p] = k /\ rotation[p].pc \notin Api!Rest \cup ApiWriting
    BY ApiKnows DEF Api!Rest, Api!Exits, ApiWriting
  <1>2. Turn(rotation[p])' /\ rotation'[p].pc \notin ApiWriting
    BY <1>1 DEF ApiInv, Turn, ApiWriting, Allowed, ApiFails
  <1>3. ASSUME rotation[p].alone PROVE ApiFit(rotation[p])'
    <2>1. ApiFit(rotation[p])
      BY <1>3 DEF ApiInv
    <2>2. MakesFit(k)' \/ k.mode # "create"
      BY <2>1 DEF Allowed, ApiFails, ApiFit, MakesFit
    <2>3. TurnsFit(k)' \/ k.mode # "rotate"
      BY <2>1 DEF Allowed, ApiFails, ApiFit, TurnsFit, ApiWriting, Api!Listed
    <2>4. RetiresFit(k)' \/ k.mode # "retire"
      BY <2>1 DEF Allowed, ApiFails, ApiFit, RetiresFit
    <2>5. EndsFit(k)' \/ k.mode # "teardown"
      BY <2>1 DEF Allowed, ApiFails, ApiFit, EndsFit, ApiWriting
    <2>6. k.pc # "backTokens"
      BY DEF Allowed, ApiFails
    <2>7. ApiFit(k)'
      BY <2>2, <2>3, <2>4, <2>5, <2>6 DEF ApiFit
    <2>8. \A i : i = rotation'[p] => (ApiFit(i)' <=> ApiFit(rotation[p])')
      OBVIOUS
    <2> QED BY <1>1, <2>7, <2>8
  <1>4. ASSUME Together <= 1 PROVE SoleFit(rotation[p])'
    <2>1. SoleFit(rotation[p])
      BY <1>4 DEF ApiInv, ApiSole
    <2> QED BY <1>1, <2>1 DEF SoleFit, Allowed, ApiFails, Agrees, Newest, Api!Rest, Api!Exits
  <1> QED BY <1>1, <1>2, <1>3, <1>4, ApiReads

LEMMA ApiJudges ==
  ASSUME ApiInv, NEW p \in Runs, Api!Judges(p) PROVE ApiInv'
  <1> USE ApiHave
  <1>1. rotation[p].pc = "judge" /\ rotation[p] \in ApiRuns
    BY DEF Api!Judges, Api!At
  <1>2. UNCHANGED <<client, tokens, clients, minted, answered, issued, state, handed, serves, apiTorn, apiOthers>>
        /\ apiFaults' \in 0 .. MaxFaults
    BY ApiFaults DEF Api!Judges, Api!Fleet, Api!fleet, Api!Desk
  <1>3. PICK k0 : k0 = [rotation[p] EXCEPT !.st = state, !.saw = rotation[p].cl.uuid]
    OBVIOUS
  <1>4. /\ k0 \in ApiRuns /\ k0.mode = rotation[p].mode /\ k0.realm = rotation[p].realm /\ k0.st = state
        /\ k0.draft = rotation[p].draft /\ k0.alone = rotation[p].alone /\ k0.new = rotation[p].new
        /\ k0.tk = rotation[p].tk /\ k0.cl = rotation[p].cl /\ k0.saw = rotation[p].cl.uuid
    <2>1. rotation[p].cl.uuid \in 0 .. MaxClients
      BY <1>1 DEF ApiRuns, Api!ClientRow
    <2> QED BY <1>1, <1>3, <2>1 DEF ApiRuns
  <1>5. Api!Owned(state, k0.cl) => k0.saw \in answered
    BY <1>4 DEF Api!Owned, ApiInv
  <1>6. ASSUME NEW pc \in ApiSteps, NEW k, k = [k0 EXCEPT !.pc = pc], Api!Knows(p, k),
               \/ pc \in ApiFails
               \/ k0.mode = "create" /\ pc = "post"
               \/ k0.mode = "teardown" /\ pc = "backClients"
               \/ k0.mode = "rotate" /\ pc = "issue" /\ k0.saw \in answered
               \/ k0.mode = "teardown" /\ pc \in {"delete", "deleteClient"} /\ k0.saw \in answered
        PROVE  ApiInv'
    <2>1. /\ k \in ApiRuns /\ k.pc = pc /\ k.mode = rotation[p].mode /\ k.realm = rotation[p].realm /\ k.st = state
          /\ k.draft = rotation[p].draft /\ k.alone = rotation[p].alone /\ k.new = rotation[p].new
          /\ k.tk = rotation[p].tk /\ k.saw = k0.saw
      BY <1>4, <1>6 DEF ApiRuns, ApiSteps
    <2>2. Allowed(p, k)
      BY <1>4, <1>6, <2>1 DEF Allowed
    <2> QED BY <1>1, <1>2, <1>6, <2>1, <2>2, ApiJudged
  <1>7. {"post", "issue", "delete", "deleteClient", "backClients"} \cup ApiFails \subseteq ApiSteps
    BY ApiFailsAre DEF ApiSteps, Api!Steps
  <1>8. CASE k0.mode = "create" /\ Api!Knows(p, [k0 EXCEPT !.pc = IF k0.cl = Api!NoClient THEN "post" ELSE "exit2"])
    <2>1. PICK pc \in {"post", "exit2"} : pc = IF k0.cl = Api!NoClient THEN "post" ELSE "exit2"
      OBVIOUS
    <2> QED BY <1>6, <1>7, <1>8, <2>1 DEF ApiFails
  <1>9. CASE /\ k0.mode # "create"
             /\ Api!Knows(p, [k0 EXCEPT !.pc = IF Api!Elsewhere(k0.realm) THEN "exit3"
                                               ELSE IF k0.mode = "teardown" THEN "backClients" ELSE "exit2"])
    <2>1. PICK pc : pc = IF Api!Elsewhere(k0.realm) THEN "exit3" ELSE IF k0.mode = "teardown" THEN "backClients" ELSE "exit2"
      OBVIOUS
    <2>2. pc \in ApiFails \/ (k0.mode = "teardown" /\ pc = "backClients")
      BY <2>1 DEF ApiFails
    <2> QED BY <1>6, <1>7, <1>9, <2>1, <2>2
  <1>10. CASE Api!Knows(p, [k0 EXCEPT !.pc = "exit2"])
    BY <1>6, <1>7, <1>10 DEF ApiFails
  <1>11. CASE k0.mode = "rotate" /\ Api!Owned(state, k0.cl) /\ Api!Knows(p, [k0 EXCEPT !.pc = "issue"])
    BY <1>5, <1>6, <1>7, <1>11
  <1>12. CASE /\ k0.mode = "teardown" /\ Api!Owned(state, k0.cl)
              /\ Api!Knows(p, [k0 EXCEPT !.pc = IF k0.tk = {} THEN "deleteClient" ELSE "delete"])
    <2>1. PICK pc \in {"delete", "deleteClient"} : pc = IF k0.tk = {} THEN "deleteClient" ELSE "delete"
      OBVIOUS
    <2> QED BY <1>5, <1>6, <1>7, <1>12, <2>1
  <1>13. ASSUME k0.mode = "retire", Api!Owned(state, k0.cl), Api!Retires(state, k0.tk),
                Api!Knows(p, [k0 EXCEPT !.pc = "delete", !.new = Api!Newest(k0.tk),
                                !.tk = {t \in k0.tk : t.id # Api!Newest(k0.tk)}])
         PROVE  ApiInv'
    <2>1. state.last = Api!Newest(k0.tk) /\ state.last \in 0 .. MaxTokens /\ Cardinality(k0.tk) > 1
      BY <1>13 DEF Api!Retires, Api!StateFile, Api!Cardinality, Cardinality
    <2>2. k0.tk \in SUBSET Api!Token /\ \A t \in k0.tk : t.id <= minted
      BY <1>4 DEF ApiInv, Turn, ApiRuns
    <2>3. \A t \in k0.tk : t.id <= state.last
      BY <2>1, <2>2, ApiNewest DEF ApiInv, Fleet
    <2>4. PICK older : older = {t \in k0.tk : t.id # state.last}
      OBVIOUS
    <2>5. PICK k : k = [k0 EXCEPT !.pc = "delete", !.new = state.last, !.tk = older]
      OBVIOUS
    <2>6. older \in SUBSET Api!Token /\ older \subseteq k0.tk /\ \A t \in older : t.id < state.last
      <3>1. \A t \in k0.tk : t.id \in Nat
        BY <2>2 DEF Api!Token
      <3> QED BY <2>1, <2>2, <2>3, <2>4, <3>1
    <2>7. /\ k \in ApiRuns /\ k.pc = "delete" /\ k.mode = rotation[p].mode /\ k.realm = rotation[p].realm /\ k.st = state
          /\ k.draft = rotation[p].draft /\ k.alone = rotation[p].alone /\ k.new = state.last
          /\ k.tk = older /\ k.saw = k0.saw
      BY <1>4, <2>1, <2>5, <2>6 DEF ApiRuns, Api!Steps
    <2>8. Api!Knows(p, k)
      BY <1>13, <2>1, <2>4, <2>5
    <2>9. Allowed(p, k)
      BY <1>4, <1>5, <1>13, <2>6, <2>7 DEF Allowed
    <2> QED BY <1>1, <1>2, <1>4, <1>13, <2>6, <2>7, <2>8, <2>9, ApiJudged
  <1>14. CASE /\ k0.mode = "retire" /\ Api!Owned(state, k0.cl)
              /\ Api!Knows(p, IF Api!Retires(state, k0.tk)
                              THEN [k0 EXCEPT !.pc = "delete", !.new = Api!Newest(k0.tk),
                                      !.tk = {t \in k0.tk : t.id # Api!Newest(k0.tk)}]
                              ELSE [k0 EXCEPT !.pc = "exit2"])
    <2>1. CASE Api!Retires(state, k0.tk)
      BY <1>13, <1>14, <2>1
    <2>2. CASE ~Api!Retires(state, k0.tk)
      BY <1>10, <1>14, <2>2
    <2> QED BY <2>1, <2>2
  <1> QED BY <1>3, <1>8, <1>9, <1>10, <1>11, <1>12, <1>14 DEF Api!Judges

\* A client of a new number.
LEMMA ApiNewClient ==
  ASSUME ApiInv, NEW r \in Realms, clients < MaxClients, clients' = clients + 1, NEW b \in BOOLEAN,
         client' = [client EXCEPT ![r] = [uuid |-> clients', role |-> b]], UNCHANGED <<tokens, minted, issued>>,
         answered' \in {answered, answered \cup {clients'}}
  PROVE  /\ Fleet' /\ client'[r] = [uuid |-> clients', role |-> b] /\ \A q \in Realms \ {r} : client'[q] = client[q]
         /\ clients' \in 1 .. MaxClients /\ clients' \notin answered
         /\ \A q \in Realms : client[q].uuid <= clients /\ client[q].uuid \in Nat
  <1> USE ApiHave
  <1>1. clients' \in 1 .. MaxClients /\ clients' \notin answered /\ answered' \subseteq 1 .. clients'
    BY DEF ApiInv, Fleet
  <1>2. \A q \in Realms : client[q].uuid <= clients /\ client[q].uuid \in Nat
    BY DEF ApiInv, Fleet, Api!ClientRow
  <1>3. client \in [Realms -> Api!ClientRow]
    BY DEF ApiInv, Fleet
  <1>4. PICK row : row = [uuid |-> clients', role |-> b]
    OBVIOUS
  <1>5. row \in Api!ClientRow /\ row.uuid = clients' /\ client' = [client EXCEPT ![r] = row]
    BY <1>1, <1>4 DEF Api!ClientRow
  <1>6. client'[r] = row /\ (\A q \in Realms \ {r} : client'[q] = client[q]) /\ client' \in [Realms -> Api!ClientRow]
    BY <1>3, <1>5
  <1>7. \A q \in Realms : client'[q].uuid <= clients'
    BY <1>1, <1>2, <1>5, <1>6
  <1>8. HaveGreatest(1 .. clients') /\ HaveGreatest(1 .. minted')
    <2>1. HaveGreatest(1 .. (clients + 1))
      BY ApiGreater DEF ApiInv, Fleet
    <2> QED BY <2>1 DEF ApiInv, Fleet
  <1>9. Fleet'
    <2>1. \A set : HaveGreatest(set) <=> HaveGreatest(set)'
      BY DEF HaveGreatest
    <2> QED BY <1>1, <1>6, <1>7, <1>8, <2>1 DEF ApiInv, Fleet, HaveGreatest
  <1> QED BY <1>1, <1>2, <1>4, <1>6, <1>9

LEMMA ApiCreates ==
  ASSUME ApiInv, NEW p \in Runs, Api!Creates(p) PROVE ApiInv'
  <1> USE ApiHave
  <1>1. /\ rotation[p].pc = "post" /\ rotation[p].pc \notin Api!Rest \cup ApiWriting /\ rotation[p].mode = "create"
        /\ rotation[p] \in ApiRuns /\ rotation[p].realm \in Realms /\ Turn(rotation[p])
    BY DEF Api!Creates, Api!At, Api!Rest, Api!Exits, ApiWriting, ApiInv, Turn, ApiRuns
  <1>2. UNCHANGED <<tokens, minted, issued, state, handed, serves, apiTorn, apiOthers>>
        /\ apiFaults' \in 0 .. MaxFaults
    BY ApiFaults DEF Api!Creates, Api!Desk
  <1>3. CASE UNCHANGED <<client, clients, answered>> /\ (Api!Goes(p, "exit1") \/ Api!Goes(p, "exit3"))
    BY <1>1, <1>2, <1>3, ApiBreaks DEF ApiFails
  <1>4. ASSUME clients < MaxClients, clients' = clients + 1,
               client' = [client EXCEPT ![rotation[p].realm] = [uuid |-> clients', role |-> FALSE]],
               UNCHANGED answered, Api!Goes(p, "exit3")
        PROVE  ApiInv'
    <2>1. PICK r \in Realms : r = rotation[p].realm
      BY <1>1
    <2>2. /\ Fleet' /\ client'[r] = [uuid |-> clients', role |-> FALSE] /\ \A q \in Realms \ {r} : client'[q] = client[q]
          /\ clients' \notin answered
      BY <1>2, <1>4, <2>1, ApiNewClient
    <2>3. \A q \in Realms : LastMade(q)' => LastMade(q) /\ client'[q].uuid = client[q].uuid
      BY <1>4, <2>2 DEF LastMade
    <2>4. ApiTurns(p) /\ ApiStays(p) /\ rotation'[p].pc \in ApiFails
      BY <1>4, ApiGoes, ApiFailsAre DEF ApiFails
    <2> QED BY <1>1, <1>2, <1>4, <2>2, <2>3, <2>4, ApiStops
  <1>5. ASSUME clients < MaxClients, clients' = clients + 1,
               client' = [client EXCEPT ![rotation[p].realm] = [uuid |-> clients', role |-> FALSE]],
               answered' = answered \cup {clients'},
               Api!Knows(p, [rotation[p] EXCEPT !.pc = Api!OnceMade, !.saw = clients',
                               !.draft = [uuid |-> clients', realm |-> rotation[p].realm, last |-> 0]])
        PROVE  ApiInv'
    <2>1. PICK r \in Realms : r = rotation[p].realm
      BY <1>1
    <2>2. /\ Fleet' /\ client'[r] = [uuid |-> clients', role |-> FALSE] /\ \A q \in Realms \ {r} : client'[q] = client[q]
          /\ clients' \in 1 .. MaxClients /\ clients' \notin answered
          /\ \A q \in Realms : client[q].uuid <= clients /\ client[q].uuid \in Nat
      BY <1>2, <1>5, <2>1, ApiNewClient
    <2>3. PICK new \in 0 .. MaxClients : new = clients'
      BY <2>2
    <2>4. PICK draft : draft = [uuid |-> new, realm |-> r, last |-> 0]
      OBVIOUS
    <2>5. draft \in Api!StateFile /\ draft.uuid = new /\ draft.realm = r
      BY <2>4 DEF Api!StateFile
    <2>6. PICK k : k = [rotation[p] EXCEPT !.pc = "save", !.saw = new, !.draft = draft]
      OBVIOUS
    <2>7. /\ k \in ApiRuns /\ k.pc = "save" /\ k.mode = "create" /\ k.realm = r /\ k.saw = new /\ k.draft = draft
          /\ k.st = rotation[p].st /\ k.tk = rotation[p].tk /\ k.new = rotation[p].new /\ k.alone = rotation[p].alone
      BY <1>1, <2>1, <2>3, <2>5, <2>6 DEF ApiRuns, Api!Steps
    <2>8. Api!Knows(p, k)
      BY <1>5, <2>1, <2>3, <2>4, <2>6 DEF Api!OnceMade
    <2>9. ApiTurns(p) /\ rotation'[p] = k
      BY <2>7, <2>8, ApiKnows
    <2>10. Turn(rotation[p])'
      BY <1>1, <1>2, <1>5, <2>3, <2>5, <2>7, <2>9 DEF Turn, ApiWriting
    <2>11. ASSUME rotation[p].alone PROVE ApiFit(rotation[p])'
      <3>1. rotation[p].new = 0
        BY <1>1, <2>11 DEF ApiInv, ApiFit, MakesFit
      <3> QED BY <2>2, <2>3, <2>5, <2>7, <2>9, <3>1 DEF ApiFit, MakesFit
    <2>12. ASSUME Together <= 1 PROVE Tells(rotation[p].draft)' /\ SoleFit(rotation[p])' /\ (handed' # 0 => Newest(handed)')
      <3>1. SoleFit(rotation[p]) /\ (handed # 0 => Newest(handed))
        BY <2>12 DEF ApiInv, ApiSole
      <3>2. SoleFit(rotation[p])' /\ (handed' # 0 => Newest(handed)')
        BY <1>1, <1>2, <2>7, <2>9, <3>1 DEF SoleFit, Newest, Api!Rest, Api!Exits
      <3>3. ASSUME NEW q \in Realms, LastMade(q)' PROVE q = r
        <4>1. new <= client'[q].uuid /\ new = clients + 1
          BY <1>5, <2>3, <3>3 DEF LastMade
        <4>2. CASE q # r
          BY <2>2, <4>1, <4>2
        <4> QED BY <4>2
      <3>4. Tells(rotation[p].draft)'
        BY <2>2, <2>3, <2>5, <2>7, <2>9, <3>3 DEF Tells
      <3> QED BY <3>2, <3>4
    <2>13. state'.uuid \in answered' \cup {0} /\ rotation'[p].pc \in ApiWriting /\ answered \subseteq answered'
      BY <1>2, <1>5, <2>7, <2>9 DEF ApiInv, ApiWriting
    <2> QED BY <1>1, <1>2, <2>2, <2>7, <2>9, <2>10, <2>11, <2>12, <2>13, ApiMoves
  <1> QED BY <1>3, <1>4, <1>5 DEF Api!Creates

LEMMA ApiSaves ==
  ASSUME ApiInv, NEW p \in Runs, Api!Saves(p) PROVE ApiInv'
  <1> USE ApiHave
  <1>1. rotation[p].pc = "save" /\ rotation[p].pc \notin Api!Rest /\ rotation[p].pc \in ApiWriting /\ Turn(rotation[p])
    BY DEF Api!Saves, Api!At, Api!Rest, Api!Exits, ApiWriting, ApiInv
  <1>2. UNCHANGED <<client, tokens, clients, minted, answered, issued, handed, serves, apiTorn, apiOthers, apiFaults>>
        /\ state' = Api!Nothing
    BY DEF Api!Saves, Api!Fleet, Api!fleet, Api!Desk, Api!Sound
  <1>3. ApiTurns(p) /\ ApiStays(p) /\ rotation'[p].pc = "write"
    BY ApiGoes DEF Api!Saves, ApiSteps, Api!Steps
  <1>4. Turn(rotation[p])' /\ rotation'[p].pc \in ApiWriting
    BY <1>1, <1>2, <1>3 DEF Turn, ApiStays, ApiWriting
  <1>5. ASSUME rotation[p].alone PROVE ApiFit(rotation[p])'
    <2>1. ApiFit(rotation[p])
      BY <1>5 DEF ApiInv
    <2> QED BY <1>1, <1>2, <1>3, <1>4, <2>1
           DEF ApiFit, MakesFit, TurnsFit, RetiresFit, EndsFit, ApiStays, ApiWriting, Given, Api!Listed, Turn
  <1>6. ASSUME Together <= 1
        PROVE  /\ ~apiTorn' => Tells(rotation[p].draft)'
               /\ SoleFit(rotation[p])' /\ (handed' # 0 => Newest(handed)')
    <2>1. SoleFit(rotation[p]) /\ (handed # 0 => Newest(handed)) /\ (~apiTorn => Tells(rotation[p].draft))
      BY <1>1, <1>6, ApiTold DEF ApiInv, ApiSole
    <2> QED BY <1>1, <1>2, <1>3, <2>1 DEF SoleFit, Newest, ApiStays, Api!Rest, Api!Exits, Tells, LastMade
  <1>7. Fleet' /\ state' \in Api!StateFile /\ state'.uuid \in answered' \cup {0}
    BY <1>2, ApiSame, ApiBlank DEF ApiInv
  <1> QED BY <1>1, <1>2, <1>3, <1>4, <1>5, <1>6, <1>7, ApiMoves DEF ApiStays

LEMMA ApiWrites ==
  ASSUME ApiInv, NEW p \in Runs, Api!Writes(p) PROVE ApiInv'
  <1> USE ApiHave
  <1>1. /\ rotation[p].pc = "write" /\ rotation[p].pc \notin Api!Rest /\ rotation[p].pc \in ApiWriting /\ Turn(rotation[p])
        /\ rotation[p] \in ApiRuns /\ rotation[p].draft \in Api!StateFile
    BY DEF Api!Writes, Api!At, Api!Rest, Api!Exits, ApiWriting, ApiInv, ApiRuns
  <1>2. UNCHANGED <<client, tokens, clients, minted, answered, issued, handed, serves, apiTorn, apiOthers, apiFaults>>
        /\ state' = rotation[p].draft
    BY DEF Api!Writes, Api!Fleet, Api!fleet, Api!Desk, Api!Sound
  <1>3. /\ ApiTurns(p) /\ ApiStays(p)
        /\ \/ rotation[p].mode = "teardown" /\ rotation'[p].pc = "exit0"
           \/ rotation[p].mode = "create" /\ rotation[p].new = 0 /\ rotation'[p].pc = "bind"
           \/ rotation[p].mode \in {"create", "rotate"} /\ rotation[p].new # 0 /\ rotation'[p].pc = "backClients"
    <2>1. rotation[p].mode \in {"create", "rotate", "teardown"} /\ (rotation[p].mode = "rotate" => rotation[p].new # 0)
      BY <1>1 DEF Turn
    <2>2. CASE rotation[p].mode = "teardown" /\ Api!Goes(p, "exit0")
      BY <2>2, ApiGoes DEF ApiSteps, Api!Rest, Api!Exits
    <2>3. CASE rotation[p].mode # "teardown" /\ rotation[p].new = 0 /\ Api!Goes(p, "bind")
      BY <2>1, <2>3, ApiGoes DEF ApiSteps, Api!Steps
    <2>4. CASE rotation[p].mode # "teardown" /\ rotation[p].new # 0 /\ Api!Goes(p, "backClients")
      BY <2>1, <2>4, ApiGoes DEF ApiSteps, Api!Steps
    <2> QED BY <2>2, <2>3, <2>4 DEF Api!Writes
  <1>4. Turn(rotation[p])' /\ rotation'[p].pc \notin ApiWriting
    BY <1>1, <1>2, <1>3 DEF Turn, ApiStays, ApiWriting
  <1>5. ASSUME rotation[p].alone PROVE ApiFit(rotation[p])'
    <2>1. ApiFit(rotation[p])
      BY <1>5 DEF ApiInv
    <2>2. CASE rotation[p].mode = "teardown"
      BY <1>1, <1>2, <1>3, <2>1, <2>2 DEF ApiFit, EndsFit, ApiStays, ApiWriting, Api!Listed
    <2>3. CASE rotation[p].mode = "create"
      BY <1>1, <1>2, <1>3, <2>1, <2>3 DEF ApiFit, MakesFit, ApiStays, Given
    <2>4. CASE rotation[p].mode = "rotate"
      BY <1>1, <1>2, <1>3, <2>1, <2>4 DEF ApiFit, TurnsFit, ApiStays, ApiWriting, Given, Api!Listed
    <2> QED BY <1>3, <2>2, <2>3, <2>4
  <1>6. ASSUME Together <= 1
        PROVE  /\ ~apiTorn' => Tells(state)'
               /\ SoleFit(rotation[p])' /\ (handed' # 0 => Newest(handed)')
    <2>1. SoleFit(rotation[p]) /\ (handed # 0 => Newest(handed)) /\ (~apiTorn => Tells(rotation[p].draft))
      BY <1>1, <1>6, ApiTold DEF ApiInv, ApiSole
    <2>2. SoleFit(rotation[p])' /\ (handed' # 0 => Newest(handed)')
      BY <1>1, <1>2, <1>3, <2>1 DEF SoleFit, Newest, ApiStays, Api!Rest, Api!Exits, Agrees
    <2>3. ~apiTorn' => Tells(state)'
      BY <1>2, <2>1 DEF Tells, LastMade
    <2> QED BY <2>2, <2>3
  <1>7. Fleet' /\ state' \in Api!StateFile /\ state'.uuid \in answered' \cup {0}
    BY <1>1, <1>2, ApiSame DEF ApiInv, Turn
  <1> QED BY <1>1, <1>2, <1>3, <1>4, <1>5, <1>6, <1>7, ApiMoves DEF ApiStays

LEMMA ApiBinds ==
  ASSUME ApiInv, NEW p \in Runs, Api!Binds(p) PROVE ApiInv'
  <1> USE ApiHave
  <1>1. /\ rotation[p].pc = "bind" /\ rotation[p].pc \notin Api!Rest \cup ApiWriting /\ rotation[p].mode = "create"
        /\ rotation[p] \in ApiRuns /\ rotation[p].realm \in Realms /\ Turn(rotation[p])
    BY DEF Api!Binds, Api!At, Api!Rest, Api!Exits, ApiWriting, ApiInv, Turn, ApiRuns
  <1>2. UNCHANGED <<tokens, clients, minted, answered, issued, state, handed, serves, apiTorn, apiOthers>>
        /\ apiFaults' \in 0 .. MaxFaults
    BY ApiFaults DEF Api!Binds, Api!Desk
  <1>3. CASE UNCHANGED client /\ (Api!Goes(p, "exit1") \/ Api!Goes(p, "exit3"))
    BY <1>1, <1>2, <1>3, ApiBreaks DEF ApiFails
  <1>4. ASSUME client[rotation[p].realm].uuid = rotation[p].saw,
               client' = [client EXCEPT ![rotation[p].realm].role = TRUE],
               Api!Goes(p, "issue") \/ Api!Goes(p, "exit3")
        PROVE  ApiInv'
    <2>1. PICK r \in Realms : r = rotation[p].realm
      BY <1>1
    <2>2. client \in [Realms -> Api!ClientRow] /\ client[r] \in Api!ClientRow
      BY DEF ApiInv, Fleet
    <2>3. PICK row : row = [client[r] EXCEPT !.role = TRUE]
      OBVIOUS
    <2>4. row \in Api!ClientRow /\ row.uuid = client[r].uuid /\ row.role /\ client' = [client EXCEPT ![r] = row]
      BY <1>4, <2>1, <2>2, <2>3 DEF Api!ClientRow
    <2>5. client'[r] = row /\ (\A q \in Realms \ {r} : client'[q] = client[q]) /\ client' \in [Realms -> Api!ClientRow]
      BY <2>2, <2>4
    <2>6. \A q \in Realms : client'[q].uuid = client[q].uuid
      BY <2>4, <2>5
    <2>7. Fleet'
      BY <1>2, <2>5, <2>6 DEF ApiInv, Fleet, HaveGreatest
    <2>8. \A q \in Realms : LastMade(q) <=> LastMade(q)'
      BY <1>2, <2>6 DEF LastMade
    <2>9. CASE Api!Goes(p, "exit3")
      <3>1. ApiTurns(p) /\ ApiStays(p) /\ rotation'[p].pc \in ApiFails
        BY <2>9, ApiGoes, ApiFailsAre DEF ApiFails
      <3> QED BY <1>1, <1>2, <2>6, <2>7, <2>8, <3>1, ApiStops
    <2>10. CASE Api!Goes(p, "issue")
      <3>1. ApiTurns(p) /\ ApiStays(p) /\ rotation'[p].pc = "issue"
        BY <2>10, ApiGoes DEF ApiSteps, Api!Steps
      <3>2. Turn(rotation[p])' /\ rotation'[p].pc \notin ApiWriting
        BY <1>1, <1>2, <3>1 DEF Turn, ApiStays, ApiWriting
      <3>3. ASSUME rotation[p].alone PROVE ApiFit(rotation[p])'
        <4>1. MakesFit(rotation[p])
          BY <1>1, <3>3 DEF ApiInv, ApiFit
        <4> QED BY <1>1, <1>2, <2>1, <2>4, <2>5, <3>1, <4>1 DEF ApiFit, MakesFit, ApiStays, Given
      <3>4. ASSUME Together <= 1
            PROVE  (~apiTorn' => Tells(state)') /\ SoleFit(rotation[p])' /\ (handed' # 0 => Newest(handed)')
        <4>1. SoleFit(rotation[p]) /\ (handed # 0 => Newest(handed)) /\ (~apiTorn => Tells(state))
          BY <1>1, <3>4, ApiTold DEF ApiInv, ApiSole
        <4>2. SoleFit(rotation[p])' /\ (handed' # 0 => Newest(handed)')
          BY <1>1, <1>2, <3>1, <4>1 DEF SoleFit, Newest, ApiStays, Api!Rest, Api!Exits, Agrees
        <4>3. ~apiTorn' => Tells(state)'
          BY <1>2, <2>6, <2>8, <4>1 DEF Tells
        <4> QED BY <4>2, <4>3
      <3>5. state'.uuid \in answered' \cup {0}
        BY <1>2 DEF ApiInv
      <3> QED BY <1>1, <1>2, <2>7, <3>1, <3>2, <3>3, <3>4, <3>5, ApiMoves DEF ApiStays
    <2> QED BY <1>4, <2>9, <2>10
  <1> QED BY <1>3, <1>4 DEF Api!Binds

\* A token of a new number.
LEMMA ApiNewToken ==
  ASSUME ApiInv, NEW r \in Realms, minted < MaxTokens, minted' = minted + 1,
         tokens' = tokens \cup {[id |-> minted', realm |-> r, live |-> TRUE]},
         UNCHANGED <<client, clients, answered>>, issued' \in {issued, issued \cup {minted'}}
  PROVE  /\ Fleet' /\ minted' \in 1 .. MaxTokens /\ minted' \notin issued /\ \A i \in issued' : i <= minted'
         /\ \A t \in tokens : t.id # minted'
  <1> USE ApiHave
  <1>1. PICK new : new = [id |-> minted', realm |-> r, live |-> TRUE]
    OBVIOUS
  <1>2. minted' \in 1 .. MaxTokens /\ minted' \notin issued /\ issued' \subseteq 1 .. minted'
    BY DEF ApiInv, Fleet
  <1>3. new \in Api!Token /\ new.id = minted' /\ tokens' = tokens \cup {new}
    BY <1>1, <1>2 DEF Api!Token
  <1>4. \A t \in tokens : t.id <= minted /\ t.id \in Nat /\ t \in Api!Token
    BY DEF ApiInv, Fleet, Api!Token
  <1>5. HaveGreatest(1 .. minted')
    <2>1. HaveGreatest(1 .. (minted + 1))
      BY ApiGreater DEF ApiInv, Fleet
    <2> QED BY <2>1
  <1>6. \A t, u \in tokens' : t.id = u.id => t = u
    BY <1>3, <1>4 DEF ApiInv, Fleet
  <1>7. \A t \in tokens' : t.id <= minted' /\ t \in Api!Token
    BY <1>3, <1>4, <1>2
  <1>8. Fleet'
    <2>1. minted' \in 0 .. MaxTokens
      BY <1>2
    <2>2. HaveGreatest(1 .. minted)' /\ HaveGreatest(1 .. clients)'
      <3>1. \A set : HaveGreatest(set) <=> HaveGreatest(set)'
        BY DEF HaveGreatest
      <3> QED BY <1>5, <3>1 DEF ApiInv, Fleet, HaveGreatest
    <2> QED BY <1>2, <1>6, <1>7, <2>1, <2>2 DEF ApiInv, Fleet
  <1> QED BY <1>2, <1>4, <1>8

LEMMA ApiIssues ==
  ASSUME ApiInv, NEW p \in Runs, Api!Issues(p) PROVE ApiInv'
  <1> USE ApiHave
  <1>1. /\ rotation[p].pc = "issue" /\ rotation[p].pc \notin Api!Rest \cup ApiWriting
        /\ rotation[p].mode \in {"create", "rotate"} /\ rotation[p] \in ApiRuns /\ rotation[p].realm \in Realms
        /\ Turn(rotation[p])
    BY DEF Api!Issues, Api!At, Api!Rest, Api!Exits, ApiWriting, ApiInv, Turn, ApiRuns
  <1>2. UNCHANGED <<client, clients, answered, state, handed, serves, apiTorn, apiOthers>>
        /\ apiFaults' \in 0 .. MaxFaults
    BY ApiFaults DEF Api!Issues, Api!Desk
  <1>3. CASE UNCHANGED <<tokens, minted, issued>> /\ (Api!Goes(p, "exit1") \/ Api!Goes(p, "exit3"))
    BY <1>1, <1>2, <1>3, ApiBreaks DEF ApiFails
  <1>4. ASSUME minted < MaxTokens, minted' = minted + 1,
               tokens' = tokens \cup {[id |-> minted', realm |-> rotation[p].realm, live |-> TRUE]},
               issued' = issued \cup {minted'},
               Api!Knows(p, [rotation[p] EXCEPT !.pc = "trade", !.new = minted']) \/ Api!Goes(p, "exit3")
        PROVE  ApiInv'
    <2>1. PICK r \in Realms : r = rotation[p].realm
      BY <1>1
    <2>2. /\ Fleet' /\ minted' \in 1 .. MaxTokens /\ minted' \notin issued /\ \A i \in issued' : i <= minted'
          /\ \A t \in tokens : t.id # minted'
      BY <1>2, <1>4, <2>1, ApiNewToken
    <2>3. \A q \in Realms : client'[q].uuid = client[q].uuid /\ (LastMade(q) <=> LastMade(q)')
      BY <1>2 DEF LastMade
    <2>4. issued \subseteq issued' /\ minted <= minted'
      BY <1>4
    <2>5. CASE Api!Goes(p, "exit3")
      <3>1. ApiTurns(p) /\ ApiStays(p) /\ rotation'[p].pc \in ApiFails
        BY <2>5, ApiGoes, ApiFailsAre DEF ApiFails
      <3> QED BY <1>1, <1>2, <2>2, <2>3, <2>4, <3>1, ApiStops
    <2>6. CASE Api!Knows(p, [rotation[p] EXCEPT !.pc = "trade", !.new = minted'])
      <3>1. PICK new \in 0 .. MaxTokens : new = minted' /\ new # 0
        BY <2>2
      <3>2. PICK k : k = [rotation[p] EXCEPT !.pc = "trade", !.new = new]
        OBVIOUS
      <3>3. /\ k \in ApiRuns /\ k.pc = "trade" /\ k.new = new /\ k.mode = rotation[p].mode /\ k.realm = r
            /\ k.st = rotation[p].st /\ k.draft = rotation[p].draft /\ k.tk = rotation[p].tk
            /\ k.saw = rotation[p].saw /\ k.alone = rotation[p].alone
        BY <1>1, <2>1, <3>2 DEF ApiRuns, Api!Steps
      <3>4. ApiTurns(p) /\ rotation'[p] = k
        BY <2>6, <3>1, <3>2, <3>3, ApiKnows
      <3>5. Given(k) \in tokens' /\ Given(k) = [id |-> minted', realm |-> r, live |-> TRUE]
            /\ tokens' = tokens \cup {Given(k)} /\ Given(k).realm = r
        BY <1>4, <2>1, <3>1, <3>3 DEF Given
      <3>6. \A t \in k.tk : t.id <= minted' /\ t.id # new
        <4>1. \A t \in rotation[p].tk : t.id \in Nat /\ t.id <= minted
          BY <1>1 DEF Turn, ApiRuns, Api!Token
        <4> QED BY <1>4, <3>1, <3>3, <4>1
      <3>7. Turn(rotation[p])' /\ rotation'[p].pc \notin ApiWriting
        BY <1>1, <1>2, <1>4, <3>1, <3>3, <3>4, <3>6 DEF Turn, ApiWriting
      <3>8. ASSUME rotation[p].alone PROVE ApiFit(rotation[p])'
        <4>1. ApiFit(rotation[p])
          BY <3>8 DEF ApiInv
        <4>2. CASE rotation[p].mode = "create"
          <5>1. Given(rotation[p])' \in tokens'
            BY <3>4, <3>5
          <5> QED BY <1>1, <1>2, <2>1, <3>1, <3>3, <3>4, <4>1, <4>2, <5>1 DEF ApiFit, MakesFit
        <4>3. CASE rotation[p].mode = "rotate"
          <5>1. k.tk = Api!Listed(r)
            BY <1>1, <2>1, <3>3, <4>1, <4>3 DEF ApiFit, TurnsFit
          <5>2. Api!Listed(r)' = k.tk \cup {Given(k)}
            BY <3>5, <5>1 DEF Api!Listed
          <5>3. new \notin Api!Ids(k.tk)
            BY <3>6 DEF Api!Ids
          <5>4. TurnsFit(k)'
            BY <3>3, <5>2, <5>3 DEF TurnsFit, ApiWriting, Given
          <5>5. \A i : i = rotation'[p] => (TurnsFit(i)' <=> TurnsFit(rotation[p])')
            OBVIOUS
          <5> QED BY <3>3, <3>4, <4>3, <5>4, <5>5 DEF ApiFit
        <4> QED BY <1>1, <4>2, <4>3
      <3>9. ASSUME Together <= 1
            PROVE  (~apiTorn' => Tells(state)') /\ SoleFit(rotation[p])' /\ (handed' # 0 => Newest(handed)')
        <4>1. SoleFit(rotation[p]) /\ (~apiTorn => Tells(state))
          BY <1>1, <3>9, ApiTold DEF ApiInv, ApiSole
        <4>2. handed = 0
          BY <1>1, <4>1 DEF SoleFit
        <4>3. Newest(new)'
          BY <2>2, <3>1 DEF Newest
        <4>4. SoleFit(rotation[p])'
          BY <1>1, <1>2, <3>3, <3>4, <4>1, <4>2, <4>3 DEF SoleFit, Agrees, Newest, Api!Rest, Api!Exits
        <4>5. ~apiTorn' => Tells(state)'
          BY <1>2, <2>3, <4>1 DEF Tells
        <4> QED BY <1>2, <4>2, <4>4, <4>5
      <3>10. state'.uuid \in answered' \cup {0}
        BY <1>2 DEF ApiInv
      <3> QED BY <1>1, <1>2, <2>2, <2>4, <3>3, <3>4, <3>7, <3>8, <3>9, <3>10, ApiMoves
    <2> QED BY <1>4, <2>5, <2>6
  <1> QED BY <1>3, <1>4 DEF Api!Issues

LEMMA ApiTrades ==
  ASSUME ApiInv, NEW p \in Runs, Api!Trades(p) PROVE ApiInv'
  <1> USE ApiHave
  <1>1. /\ rotation[p].pc = "trade" /\ rotation[p].pc \notin Api!Rest \cup ApiWriting
        /\ rotation[p].mode \in {"create", "rotate"} /\ rotation[p] \in ApiRuns /\ Turn(rotation[p])
    BY DEF Api!Trades, Api!At, Api!Rest, Api!Exits, ApiWriting, ApiInv, Turn
  <1>2. UNCHANGED <<client, tokens, clients, minted, answered, issued, state, handed, serves, apiTorn, apiOthers>>
        /\ apiFaults' \in 0 .. MaxFaults
    BY ApiFaults DEF Api!Trades, Api!Fleet, Api!fleet, Api!Desk
  <1>3. PICK a \in {"ok", "refused", "silent"} : Api!Knows(p, [rotation[p] EXCEPT !.pc = "after", !.trade = a])
    <2>1. (IF rotation[p].new \in Api!Ids(Api!Live(tokens)) THEN "ok" ELSE "refused") \in {"ok", "refused", "silent"}
      OBVIOUS
    <2> QED BY <2>1 DEF Api!Trades
  <1>4. PICK k : k = [rotation[p] EXCEPT !.pc = "after", !.trade = a]
    OBVIOUS
  <1>5. /\ k \in ApiRuns /\ k.pc = "after" /\ k.new = rotation[p].new /\ k.mode = rotation[p].mode
        /\ k.realm = rotation[p].realm /\ k.st = rotation[p].st /\ k.draft = rotation[p].draft
        /\ k.tk = rotation[p].tk /\ k.saw = rotation[p].saw /\ k.alone = rotation[p].alone
    BY <1>1, <1>4 DEF ApiRuns, Api!Steps
  <1>6. ApiTurns(p) /\ rotation'[p] = k
    BY <1>3, <1>4, <1>5, ApiKnows
  <1>7. Turn(rotation[p])' /\ rotation'[p].pc \notin ApiWriting
    BY <1>1, <1>2, <1>5, <1>6 DEF Turn, ApiWriting
  <1>8. ASSUME rotation[p].alone PROVE ApiFit(rotation[p])'
    <2>1. ApiFit(rotation[p]) /\ Given(k) = Given(rotation[p])
      BY <1>5, <1>8 DEF ApiInv, Given
    <2>2. CASE rotation[p].mode = "create"
      <3>1. MakesFit(k)'
        BY <1>1, <1>2, <1>5, <2>1, <2>2 DEF ApiFit, MakesFit, Given
      <3>2. \A i : i = rotation'[p] => (MakesFit(i)' <=> MakesFit(rotation[p])')
        OBVIOUS
      <3> QED BY <1>5, <1>6, <2>2, <3>1, <3>2 DEF ApiFit
    <2>3. CASE rotation[p].mode = "rotate"
      <3>1. Api!Listed(k.realm)' = k.tk \cup {Given(k)} /\ k.new \notin Api!Ids(k.tk)
        BY <1>1, <1>2, <1>5, <2>1, <2>3, ApiSame DEF ApiFit, TurnsFit
      <3>2. TurnsFit(k)'
        BY <1>5, <3>1 DEF TurnsFit, ApiWriting, Given
      <3>3. \A i : i = rotation'[p] => (TurnsFit(i)' <=> TurnsFit(rotation[p])')
        OBVIOUS
      <3> QED BY <1>5, <1>6, <2>3, <3>2, <3>3 DEF ApiFit
    <2> QED BY <1>1, <2>2, <2>3
  <1>9. ASSUME Together <= 1 PROVE SoleFit(rotation[p])'
    <2>1. SoleFit(rotation[p])
      BY <1>9 DEF ApiInv, ApiSole
    <2> QED BY <1>1, <1>2, <1>5, <1>6, <2>1 DEF SoleFit, Agrees, Newest, Api!Rest, Api!Exits
  <1> QED BY <1>1, <1>2, <1>5, <1>6, <1>7, <1>8, <1>9, ApiReads

LEMMA ApiReadsAfter ==
  ASSUME ApiInv, NEW p \in Runs, Api!ReadsAfter(p) PROVE ApiInv'
  <1> USE ApiHave
  <1>1. /\ rotation[p].pc = "after" /\ rotation[p].pc \notin Api!Rest \cup ApiWriting
        /\ rotation[p] \in ApiRuns /\ Turn(rotation[p]) /\ rotation[p].new # 0
    <2>1. rotation[p].pc = "after" /\ rotation[p].pc \notin Api!Rest \cup ApiWriting /\ Turn(rotation[p])
      BY DEF Api!ReadsAfter, Api!At, Api!Rest, Api!Exits, ApiWriting, ApiInv
    <2>2. rotation[p].new \in issued /\ 0 \notin issued
      BY <2>1 DEF Turn, ApiInv, Fleet
    <2> QED BY <2>1, <2>2
  <1>2. UNCHANGED <<client, tokens, clients, minted, answered, issued, state, handed, serves, apiTorn, apiOthers>>
        /\ apiFaults' \in 0 .. MaxFaults
    BY ApiFaults DEF Api!ReadsAfter, Api!Fleet, Api!fleet, Api!Desk
  <1>3. CASE Api!Goes(p, "exit3")
    BY <1>1, <1>2, <1>3, ApiBreaks DEF ApiFails
  <1>4. ASSUME rotation[p].mode = "create", NEW last \in Api!Ids(Api!Listed(rotation[p].realm)) \cup {0},
               Api!Knows(p, [rotation[p] EXCEPT !.pc = "save", !.draft.last = last])
        PROVE  ApiInv'
    <2>1. last \in 0 .. MaxTokens
      <3>1. \A t \in Api!Listed(rotation[p].realm) : t.id \in 0 .. MaxTokens
        BY ApiListed DEF Api!Token
      <3> QED BY <3>1 DEF Api!Ids
    <2>2. PICK draft : draft = [rotation[p].draft EXCEPT !.last = last]
      OBVIOUS
    <2>3. draft \in Api!StateFile /\ draft.uuid = rotation[p].draft.uuid /\ draft.realm = rotation[p].draft.realm
      BY <1>1, <2>1, <2>2 DEF ApiRuns, Api!StateFile
    <2>4. PICK k : k = [rotation[p] EXCEPT !.pc = "save", !.draft = draft]
      OBVIOUS
    <2>5. /\ k \in ApiRuns /\ k.pc = "save" /\ k.new = rotation[p].new /\ k.mode = rotation[p].mode
          /\ k.realm = rotation[p].realm /\ k.st = rotation[p].st /\ k.draft = draft
          /\ k.tk = rotation[p].tk /\ k.saw = rotation[p].saw /\ k.alone = rotation[p].alone
      BY <1>1, <2>3, <2>4 DEF ApiRuns, Api!Steps
    <2>6. Api!Knows(p, k)
      BY <1>1, <1>4, <2>2, <2>4 DEF ApiRuns, Api!Knows
    <2>7. ApiTurns(p) /\ rotation'[p] = k
      BY <2>5, <2>6, ApiKnows
    <2>8. Turn(rotation[p])'
      BY <1>1, <1>2, <1>4, <2>3, <2>5, <2>7 DEF Turn, ApiWriting
    <2>9. ASSUME rotation[p].alone PROVE ApiFit(rotation[p])'
      <3>1. MakesFit(rotation[p])
        BY <1>4, <2>9 DEF ApiInv, ApiFit
      <3> QED BY <1>1, <1>2, <1>4, <2>3, <2>5, <2>7, <3>1 DEF ApiFit, MakesFit, Given
    <2>10. ASSUME Together <= 1 PROVE SoleFit(rotation[p])' /\ Agrees(rotation'[p].draft)
      <3>1. SoleFit(rotation[p])
        BY <2>10 DEF ApiInv, ApiSole
      <3> QED BY <1>1, <1>2, <1>4, <2>3, <2>5, <2>7, <3>1 DEF SoleFit, Agrees, Newest, Api!Rest, Api!Exits
    <2> QED BY <1>1, <1>2, <2>5, <2>7, <2>8, <2>9, <2>10, ApiReads
  <1>5. ASSUME rotation[p].alone, rotation[p].mode = "rotate"
        PROVE  Api!NewOnes(p) = {rotation[p].new} /\ Cardinality(Api!NewOnes(p)) = 1
    <2>1. /\ Api!Listed(rotation[p].realm) = rotation[p].tk \cup {Given(rotation[p])}
          /\ rotation[p].new \notin Api!Ids(rotation[p].tk)
      BY <1>1, <1>5 DEF ApiInv, ApiFit, TurnsFit
    <2>2. Given(rotation[p]).id = rotation[p].new
      BY DEF Given
    <2>3. Api!Ids(Api!Listed(rotation[p].realm)) = Api!Ids(rotation[p].tk) \cup {rotation[p].new}
      <3> HIDE DEF Given
      <3> QED BY <2>1, <2>2 DEF Api!Ids
    <2>4. Api!NewOnes(p) = {rotation[p].new}
      BY <2>1, <2>3 DEF Api!NewOnes
    <2> QED BY <2>4, FS_Singleton
  <1>6. ASSUME rotation[p].mode = "rotate", Cardinality(Api!NewOnes(p)) # 1, Api!Goes(p, "backClients")
        PROVE  ApiInv'
    <2>1. ApiTurns(p) /\ ApiStays(p) /\ rotation'[p].pc = "backClients"
      BY <1>6, ApiGoes DEF ApiSteps, Api!Steps
    <2>2. Turn(rotation[p])' /\ rotation'[p].pc \notin ApiWriting
      BY <1>1, <1>2, <2>1 DEF Turn, ApiStays, ApiWriting
    <2>3. ASSUME Together <= 1 PROVE SoleFit(rotation[p])'
      <3>1. SoleFit(rotation[p])
        BY <2>3 DEF ApiInv, ApiSole
      <3> QED BY <1>1, <1>2, <1>6, <2>1, <3>1 DEF SoleFit, ApiStays, Newest, Api!Rest, Api!Exits
    <2>4. ~rotation'[p].alone
      BY <1>5, <1>6, <2>1 DEF ApiStays
    <2> QED BY <1>1, <1>2, <2>1, <2>2, <2>3, <2>4, ApiReads
  <1>7. ASSUME rotation[p].mode = "rotate", Cardinality(Api!NewOnes(p)) = 1,
               Api!Knows(p, [rotation[p] EXCEPT !.pc = "save", !.one = TRUE,
                               !.draft = [rotation[p].st EXCEPT !.last = CHOOSE i \in Api!NewOnes(p) : TRUE]])
        PROVE  ApiInv'
    <2>1. PICK last : last = CHOOSE i \in Api!NewOnes(p) : TRUE
      OBVIOUS
    <2>2. last \in Api!NewOnes(p)
      <3>1. Api!NewOnes(p) # {}
        BY <1>7, FS_EmptySet
      <3> QED BY <2>1, <3>1
    <2>3. last \in 0 .. MaxTokens
      <3>1. \A t \in Api!Listed(rotation[p].realm) : t.id \in 0 .. MaxTokens
        BY ApiListed DEF Api!Token
      <3> QED BY <2>2, <3>1 DEF Api!NewOnes, Api!Ids
    <2>4. PICK draft : draft = [rotation[p].st EXCEPT !.last = last]
      OBVIOUS
    <2>5. draft \in Api!StateFile /\ draft.uuid = rotation[p].st.uuid /\ draft.realm = rotation[p].st.realm /\ draft.last = last
      BY <1>1, <2>3, <2>4 DEF ApiRuns, Api!StateFile
    <2>6. PICK k : k = [rotation[p] EXCEPT !.pc = "save", !.one = TRUE, !.draft = draft]
      OBVIOUS
    <2>7. /\ k \in ApiRuns /\ k.pc = "save" /\ k.new = rotation[p].new /\ k.mode = rotation[p].mode
          /\ k.realm = rotation[p].realm /\ k.st = rotation[p].st /\ k.draft = draft
          /\ k.tk = rotation[p].tk /\ k.saw = rotation[p].saw /\ k.alone = rotation[p].alone
      BY <1>1, <2>5, <2>6 DEF ApiRuns, Api!Steps
    <2>8. Api!Knows(p, k)
      BY <1>7, <2>1, <2>4, <2>6
    <2>9. ApiTurns(p) /\ rotation'[p] = k
      BY <2>7, <2>8, ApiKnows
    <2>10. Turn(rotation[p])'
      BY <1>1, <1>2, <1>7, <2>5, <2>7, <2>9 DEF Turn, ApiWriting
    <2>11. ASSUME rotation[p].alone PROVE ApiFit(rotation[p])'
      <3>1. TurnsFit(rotation[p]) /\ last = rotation[p].new
        BY <1>5, <1>7, <2>2, <2>11 DEF ApiInv, ApiFit
      <3> QED BY <1>1, <1>2, <1>7, <2>5, <2>7, <2>9, <3>1 DEF ApiFit, TurnsFit, ApiWriting, Given, Api!Listed
    <2>12. ASSUME Together <= 1 PROVE SoleFit(rotation[p])' /\ Agrees(rotation'[p].draft)
      <3>1. SoleFit(rotation[p])
        BY <2>12 DEF ApiInv, ApiSole
      <3> QED BY <1>1, <1>2, <1>7, <2>5, <2>7, <2>9, <3>1 DEF SoleFit, Agrees, Newest, Api!Rest, Api!Exits
    <2> QED BY <1>1, <1>2, <2>7, <2>9, <2>10, <2>11, <2>12, ApiReads
  <1> QED BY <1>3, <1>4, <1>6, <1>7, Zenon DEF Api!ReadsAfter, Api!Cardinality, Cardinality

\* Fewer tokens, and perhaps one client less.
LEMMA ApiFewer ==
  ASSUME ApiInv, NEW r \in Realms, tokens' \in SUBSET tokens, client' \in {client, [client EXCEPT ![r] = Api!NoClient]},
         UNCHANGED <<clients, minted, answered, issued>>
  PROVE  /\ Fleet' /\ \A q \in Realms : LastMade(q)' => LastMade(q) /\ client'[q].uuid = client[q].uuid
         /\ \A i : Newest(i) <=> Newest(i)'
  <1> USE ApiHave, ApiBlank
  <1>1. client \in [Realms -> Api!ClientRow] /\ \A q \in Realms : client[q].uuid <= clients
    BY DEF ApiInv, Fleet
  <1>2. client' \in [Realms -> Api!ClientRow] /\ \A q \in Realms : client'[q] = client[q] \/ client'[q] = Api!NoClient
    BY <1>1
  <1>3. \A q \in Realms : client'[q].uuid <= clients
    BY <1>1, <1>2
  <1>4. HaveGreatest(1 .. minted)' /\ HaveGreatest(1 .. clients)'
    BY DEF HaveGreatest, ApiInv, Fleet
  <1>5. Fleet'
    BY <1>2, <1>3, <1>4 DEF ApiInv, Fleet
  <1>6. 0 \notin answered
    BY DEF ApiInv, Fleet
  <1> QED BY <1>2, <1>5, <1>6 DEF LastMade, Newest

\* A deletion that goes on.
LEMMA ApiRemoves ==
  ASSUME ApiInv, NEW p \in Runs, rotation[p].pc \in {"delete", "deleteClient"}, NEW r \in Realms, r = rotation[p].realm,
         tokens' \in SUBSET tokens, client' \in {client, [client EXCEPT ![r] = Api!NoClient]},
         UNCHANGED <<clients, minted, answered, issued, state, handed, serves, apiTorn, apiOthers>>,
         apiFaults' \in 0 .. MaxFaults, NEW k \in ApiRuns, Api!Knows(p, k), k.mode = rotation[p].mode, k.realm = r,
         k.st = rotation[p].st, k.draft = rotation[p].draft, k.alone = rotation[p].alone, k.new = rotation[p].new,
         k.saw = rotation[p].saw, k.tk \subseteq rotation[p].tk, k.pc \in {"delete", "deleteClient", "backClients"},
         k.pc = "delete" => rotation[p].pc = "delete", k.pc = "deleteClient" => k.mode = "teardown"
  PROVE  ApiInv'
  <1> USE ApiHave
  <1>1. /\ ApiTurns(p) /\ rotation'[p] = k /\ rotation[p].pc \notin Api!Rest \cup ApiWriting
        /\ rotation[p].mode \in {"retire", "teardown"} /\ Turn(rotation[p])
    BY ApiKnows DEF Api!Rest, Api!Exits, ApiWriting, ApiInv, Turn
  <1>2. /\ Fleet' /\ \A q \in Realms : LastMade(q)' => LastMade(q) /\ client'[q].uuid = client[q].uuid
        /\ \A i : Newest(i) <=> Newest(i)'
    BY ApiFewer
  <1>3. Turn(rotation[p])' /\ rotation'[p].pc \notin ApiWriting
    BY <1>1 DEF Turn, ApiWriting
  <1>4. ASSUME rotation[p].alone PROVE ApiFit(rotation[p])'
    <2>1. ApiFit(rotation[p])
      BY <1>4 DEF ApiInv
    <2>2. k.mode = "retire" => RetiresFit(k)'
      BY <1>1, <2>1 DEF ApiFit, RetiresFit, Turn
    <2>3. k.mode = "teardown" => EndsFit(k)'
      BY <1>1, <2>1 DEF ApiFit, EndsFit, ApiWriting
    <2>4. ApiFit(k)'
      BY <1>1, <2>2, <2>3 DEF ApiFit
    <2>5. \A i : i = rotation'[p] => (ApiFit(i)' <=> ApiFit(rotation[p])')
      OBVIOUS
    <2> QED BY <1>1, <2>4, <2>5
  <1>5. ASSUME Together <= 1
        PROVE  (~apiTorn' => Tells(state)') /\ SoleFit(rotation[p])' /\ (handed' # 0 => Newest(handed)')
    <2>1. SoleFit(rotation[p]) /\ (handed # 0 => Newest(handed)) /\ (~apiTorn => Tells(state))
      BY <1>1, <1>5, ApiTold DEF ApiInv, ApiSole
    <2>2. SoleFit(rotation[p])'
      BY <1>1, <2>1 DEF SoleFit, Api!Rest, Api!Exits, Agrees
    <2>3. handed' # 0 => Newest(handed)'
      BY <2>1 DEF Newest
    <2>4. ~apiTorn' => Tells(state)'
      BY <1>2, <2>1 DEF Tells
    <2> QED BY <2>2, <2>3, <2>4
  <1>6. state'.uuid \in answered' \cup {0}
    BY DEF ApiInv
  <1> QED BY <1>1, <1>2, <1>3, <1>4, <1>5, <1>6, ApiMoves

LEMMA ApiDeletes ==
  ASSUME ApiInv, NEW p \in Runs, Api!Deletes(p) PROVE ApiInv'
  <1> USE ApiHave
  <1>1. /\ rotation[p].pc = "delete" /\ rotation[p] \in ApiRuns /\ rotation[p].realm \in Realms
        /\ rotation[p].mode \in {"retire", "teardown"}
    BY DEF Api!Deletes, Api!At, ApiInv, Turn, ApiRuns
  <1>2. UNCHANGED <<client, clients, minted, answered, issued, state, handed, serves, apiTorn, apiOthers>>
        /\ apiFaults' \in 0 .. MaxFaults
    BY ApiFaults DEF Api!Deletes, Api!Desk
  <1>3. PICK t \in rotation[p].tk :
          /\ tokens' \in SUBSET tokens
          /\ Api!Knows(p, [rotation[p] EXCEPT !.tk = @ \ {t},
                             !.pc = IF rotation[p].tk # {t} THEN "delete"
                                    ELSE IF rotation[p].mode = "teardown" THEN "deleteClient" ELSE "backClients"])
    BY DEF Api!Deletes
  <1>4. PICK pc : pc = IF rotation[p].tk # {t} THEN "delete"
                       ELSE IF rotation[p].mode = "teardown" THEN "deleteClient" ELSE "backClients"
    OBVIOUS
  <1>5. PICK older : older = rotation[p].tk \ {t}
    OBVIOUS
  <1>6. PICK k : k = [rotation[p] EXCEPT !.tk = older, !.pc = pc]
    OBVIOUS
  <1>7. older \in SUBSET Api!Token /\ pc \in {"delete", "deleteClient", "backClients"} /\ older \subseteq rotation[p].tk
        /\ (pc = "deleteClient" => rotation[p].mode = "teardown")
    BY <1>1, <1>4, <1>5 DEF ApiRuns
  <1>8. /\ k \in ApiRuns /\ k.pc = pc /\ k.mode = rotation[p].mode /\ k.realm = rotation[p].realm
        /\ k.st = rotation[p].st /\ k.draft = rotation[p].draft /\ k.alone = rotation[p].alone
        /\ k.new = rotation[p].new /\ k.saw = rotation[p].saw /\ k.tk = older
    BY <1>1, <1>6, <1>7 DEF ApiRuns, Api!Steps
  <1>9. Api!Knows(p, k)
    BY <1>1, <1>3, <1>4, <1>5, <1>6 DEF ApiRuns
  <1> QED BY <1>1, <1>2, <1>3, <1>7, <1>8, <1>9, ApiRemoves

LEMMA ApiDeletesClient ==
  ASSUME ApiInv, NEW p \in Runs, Api!DeletesClient(p) PROVE ApiInv'
  <1> USE ApiHave
  <1>1. /\ rotation[p].pc = "deleteClient" /\ rotation[p] \in ApiRuns /\ rotation[p].realm \in Realms
    BY DEF Api!DeletesClient, Api!At, ApiRuns
  <1>2. UNCHANGED <<clients, minted, answered, issued, state, handed, serves, apiTorn, apiOthers>>
        /\ apiFaults' \in 0 .. MaxFaults
    BY ApiFaults DEF Api!DeletesClient, Api!Desk
  <1>3. PICK k : k = [rotation[p] EXCEPT !.pc = "backClients"]
    OBVIOUS
  <1>4. /\ k \in ApiRuns /\ k.pc = "backClients" /\ k.mode = rotation[p].mode /\ k.realm = rotation[p].realm
        /\ k.st = rotation[p].st /\ k.draft = rotation[p].draft /\ k.alone = rotation[p].alone
        /\ k.new = rotation[p].new /\ k.saw = rotation[p].saw /\ k.tk = rotation[p].tk
    BY <1>1, <1>3 DEF ApiRuns, Api!Steps
  <1>5. Api!Knows(p, k)
    BY <1>3 DEF Api!DeletesClient, Api!Goes, Api!Knows
  <1>6. tokens' \in SUBSET tokens /\ client' \in {client, [client EXCEPT ![rotation[p].realm] = Api!NoClient]}
    BY DEF Api!DeletesClient
  <1> QED BY <1>1, <1>2, <1>4, <1>5, <1>6, ApiRemoves

LEMMA ApiBacksClients ==
  ASSUME ApiInv, NEW p \in Runs, Api!BacksClients(p) PROVE ApiInv'
  <1> USE ApiHave
  <1>1. /\ rotation[p].pc = "backClients" /\ rotation[p].pc \notin Api!Rest \cup ApiWriting
        /\ rotation[p] \in ApiRuns /\ rotation[p].realm \in Realms /\ Turn(rotation[p])
    BY DEF Api!BacksClients, Api!At, Api!Rest, Api!Exits, ApiWriting, ApiRuns, ApiInv
  <1>2. UNCHANGED <<client, tokens, clients, minted, answered, issued, state, handed, serves, apiTorn, apiOthers>>
        /\ apiFaults' \in 0 .. MaxFaults
    BY ApiFaults DEF Api!BacksClients, Api!Fleet, Api!fleet, Api!Desk
  <1>3. CASE Api!Goes(p, Api!Unread(p))
    <2>1. Api!Unread(p) \in ApiFails
      BY DEF Api!Unread, ApiFails
    <2> QED BY <1>1, <1>2, <1>3, <2>1, ApiBreaks
  <1>4. CASE Api!Knows(p, [rotation[p] EXCEPT !.pc = "backTokens", !.cl = client[rotation[p].realm]])
    <2>1. PICK row \in Api!ClientRow : row = client[rotation[p].realm]
      BY <1>1 DEF ApiInv, Fleet
    <2>2. PICK k : k = [rotation[p] EXCEPT !.pc = "backTokens", !.cl = row]
      OBVIOUS
    <2>3. /\ k \in ApiRuns /\ k.pc = "backTokens" /\ k.mode = rotation[p].mode /\ k.realm = rotation[p].realm
          /\ k.st = rotation[p].st /\ k.draft = rotation[p].draft /\ k.alone = rotation[p].alone /\ k.cl = row
          /\ k.new = rotation[p].new /\ k.saw = rotation[p].saw /\ k.tk = rotation[p].tk
      BY <1>1, <2>2 DEF ApiRuns, Api!Steps
    <2>4. ApiTurns(p) /\ rotation'[p] = k
      BY <1>4, <2>1, <2>2, <2>3, ApiKnows
    <2>5. Turn(rotation[p])' /\ rotation'[p].pc \notin ApiWriting
      BY <1>1, <1>2, <2>3, <2>4 DEF Turn, ApiWriting
    <2>6. ASSUME rotation[p].alone PROVE ApiFit(rotation[p])'
      <3>1. ApiFit(rotation[p]) /\ Given(k) = Given(rotation[p]) /\ Api!Listed(k.realm)' = Api!Listed(rotation[p].realm)
        BY <1>2, <2>3, <2>6, ApiSame DEF ApiInv, Given
      <3>2. k.mode = "create" => MakesFit(k)'
        BY <1>1, <1>2, <2>3, <3>1 DEF ApiFit, MakesFit, Given
      <3>3. k.mode = "rotate" => TurnsFit(k)'
        BY <1>1, <1>2, <2>3, <3>1 DEF ApiFit, TurnsFit, ApiWriting, Given
      <3>4. k.mode = "retire" => RetiresFit(k)'
        BY <1>1, <1>2, <2>3, <3>1 DEF ApiFit, RetiresFit
      <3>5. k.mode = "teardown" => EndsFit(k)'
        BY <1>1, <1>2, <2>3, <3>1 DEF ApiFit, EndsFit, ApiWriting
      <3>6. ApiFit(k)'
        BY <1>2, <2>1, <2>3, <3>2, <3>3, <3>4, <3>5 DEF ApiFit
      <3>7. \A i : i = rotation'[p] => (ApiFit(i)' <=> ApiFit(rotation[p])')
        OBVIOUS
      <3> QED BY <2>4, <3>6, <3>7
    <2>7. ASSUME Together <= 1 PROVE SoleFit(rotation[p])'
      <3>1. SoleFit(rotation[p])
        BY <2>7 DEF ApiInv, ApiSole
      <3> QED BY <1>1, <1>2, <2>3, <2>4, <3>1 DEF SoleFit, Agrees, Newest, Api!Rest, Api!Exits
    <2> QED BY <1>1, <1>2, <2>3, <2>4, <2>5, <2>6, <2>7, ApiReads
  <1> QED BY <1>3, <1>4 DEF Api!BacksClients

\* The tokens are finitely many.
LEMMA ApiTokens == ASSUME ApiInv, NEW set \in SUBSET tokens PROVE IsFiniteSet(set)
  <1>1. PICK f : f = [t \in set |-> t.id]
    OBVIOUS
  <1>2. \A t \in set : t \in Api!Token /\ t.id <= minted
    BY DEF ApiInv, Fleet
  <1>3. \A t \in set : t.id \in 1 .. minted
    BY <1>2, ApiHave DEF Api!Token
  <1>4. f \in Injection(set, 1 .. minted)
    <2>1. \A t, u \in set : t.id = u.id => t = u
      BY DEF ApiInv, Fleet
    <2>2. f \in [set -> 1 .. minted]
      BY <1>1, <1>3
    <2>3. \A t, u \in set : f[t] = f[u] => t = u
      BY <1>1, <2>1
    <2> QED BY <2>2, <2>3 DEF Injection, IsInjective
  <1>5. IsFiniteSet(1 .. minted)
    BY ApiHave, FS_Interval
  <1> QED BY <1>4, <1>5, FS_Injection

\* A rotation that holds: every token it listed, and its own, is live.
LEMMA ApiAllLive ==
  ASSUME ApiInv, NEW p \in Runs, rotation[p].mode = "rotate", rotation[p].pc = "backTokens", rotation[p].alone,
         Api!Held(p, Api!Listed(rotation[p].realm))
  PROVE  rotation[p].tk \cup {Given(rotation[p])} \subseteq Api!Live(Api!Listed(rotation[p].realm))
  <1>1. PICK left : left = Api!Listed(rotation[p].realm)
    OBVIOUS
  <1>2. left = rotation[p].tk \cup {Given(rotation[p])} /\ rotation[p].new \notin Api!Ids(rotation[p].tk)
    BY <1>1 DEF ApiInv, ApiFit, TurnsFit
  <1>3. Cardinality(Api!Live(left)) = Cardinality(rotation[p].tk) + 1
    BY <1>1 DEF Api!Held, Api!Cardinality, Cardinality
  <1>4. left \in SUBSET tokens
    BY <1>1 DEF Api!Listed
  <1>5. IsFiniteSet(left)
    BY <1>4, ApiTokens
  <1>6. IsFiniteSet(rotation[p].tk)
    BY <1>2, <1>5, FS_Subset
  <1>7. Given(rotation[p]) \notin rotation[p].tk
    BY <1>2 DEF Given, Api!Ids
  <1>8. Cardinality(left) = Cardinality(rotation[p].tk) + 1
    BY <1>2, <1>6, <1>7, FS_AddElement
  <1>9. Api!Live(left) \in SUBSET left
    BY DEF Api!Live
  <1>10. Api!Live(left) = left
    BY <1>3, <1>5, <1>8, <1>9, FS_Subset
  <1> QED BY <1>1, <1>2, <1>10

LEMMA ApiBacksTokens ==
  ASSUME ApiInv, NEW p \in Runs, Api!BacksTokens(p) PROVE ApiInv'
  <1> USE ApiHave
  <1>1. /\ rotation[p].pc = "backTokens" /\ rotation[p].pc \notin Api!Rest \cup ApiWriting
        /\ rotation[p] \in ApiRuns /\ rotation[p].realm \in Realms /\ Turn(rotation[p])
    BY DEF Api!BacksTokens, Api!At, Api!Rest, Api!Exits, ApiWriting, ApiRuns, ApiInv
  <1>2. UNCHANGED <<client, tokens, clients, minted, answered, issued, state, serves, apiTorn, apiOthers>>
        /\ apiFaults' \in 0 .. MaxFaults
    BY ApiFaults DEF Api!BacksTokens, Api!Fleet, Api!fleet
  <1>3. CASE UNCHANGED handed /\ \E pc \in ApiFails : Api!Goes(p, pc)
    BY <1>1, <1>2, <1>3, ApiBreaks
  <1>4. ASSUME Api!Held(p, Api!Listed(rotation[p].realm)), rotation[p].mode = "teardown", rotation[p].saw # 0,
               Api!Knows(p, [rotation[p] EXCEPT !.pc = "save", !.draft = rotation[p].st]), handed' = handed
        PROVE  ApiInv'
    <2>1. PICK draft \in Api!StateFile : draft = rotation[p].st
      BY <1>1 DEF ApiRuns
    <2>2. PICK k : k = [rotation[p] EXCEPT !.pc = "save", !.draft = draft]
      OBVIOUS
    <2>3. /\ k \in ApiRuns /\ k.pc = "save" /\ k.mode = rotation[p].mode /\ k.realm = rotation[p].realm
          /\ k.st = rotation[p].st /\ k.draft = draft /\ k.alone = rotation[p].alone
          /\ k.new = rotation[p].new /\ k.saw = rotation[p].saw /\ k.tk = rotation[p].tk
      BY <1>1, <2>2 DEF ApiRuns, Api!Steps
    <2>4. ApiTurns(p) /\ rotation'[p] = k
      BY <1>4, <2>1, <2>2, <2>3, ApiKnows
    <2>5. Turn(rotation[p])'
      BY <1>1, <1>2, <1>4, <2>1, <2>3, <2>4 DEF Turn, ApiWriting
    <2>6. ASSUME rotation[p].alone PROVE ApiFit(rotation[p])'
      <3>1. EndsFit(rotation[p]) /\ rotation[p].cl = client[rotation[p].realm]
        BY <1>1, <1>4, <2>6 DEF ApiInv, ApiFit
      <3>2. rotation[p].cl = Api!NoClient /\ Api!Listed(rotation[p].realm) = {}
        BY <1>4 DEF Api!Held
      <3>3. client'[k.realm] = Api!NoClient /\ Api!Listed(k.realm)' = {}
        BY <1>2, <2>3, <3>1, <3>2, ApiSame
      <3>4. EndsFit(k)'
        BY <1>1, <1>2, <2>1, <2>3, <3>1, <3>3 DEF EndsFit, ApiWriting
      <3>5. ApiFit(k)'
        BY <1>4, <2>3, <3>4 DEF ApiFit
      <3>6. \A i : i = rotation'[p] => (ApiFit(i)' <=> ApiFit(rotation[p])')
        OBVIOUS
      <3> QED BY <2>4, <3>5, <3>6
    <2>7. ASSUME Together <= 1 PROVE SoleFit(rotation[p])' /\ Agrees(rotation'[p].draft)
      <3>1. SoleFit(rotation[p])
        BY <2>7 DEF ApiInv, ApiSole
      <3> QED BY <1>1, <1>2, <1>4, <2>1, <2>3, <2>4, <3>1 DEF SoleFit, Agrees, Newest, Api!Rest, Api!Exits
    <2> QED BY <1>1, <1>2, <1>4, <2>3, <2>4, <2>5, <2>6, <2>7, ApiReads
  <1>5. ASSUME Api!Held(p, Api!Listed(rotation[p].realm)), rotation[p].mode = "teardown" => rotation[p].saw = 0,
               Api!Goes(p, "exit0"), handed' = IF rotation[p].mode \in {"create", "rotate"} THEN rotation[p].new ELSE handed
        PROVE  ApiInv'
    <2>1. ApiTurns(p) /\ ApiStays(p) /\ rotation'[p].pc = "exit0"
      BY <1>5, ApiGoes DEF ApiSteps, Api!Rest, Api!Exits
    <2>2. PICK k : k = rotation'[p]
      OBVIOUS
    <2>3. /\ k.pc = "exit0" /\ k.mode = rotation[p].mode /\ k.realm = rotation[p].realm
          /\ k.st = rotation[p].st /\ k.draft = rotation[p].draft /\ k.alone = rotation[p].alone
          /\ k.new = rotation[p].new /\ k.saw = rotation[p].saw /\ k.tk = rotation[p].tk
      BY <2>1, <2>2 DEF ApiStays
    <2>4. Turn(rotation[p])' /\ rotation'[p].pc \notin ApiWriting
      BY <1>1, <1>2, <2>2, <2>3 DEF Turn, ApiWriting
    <2>5. ASSUME rotation[p].alone PROVE ApiFit(rotation[p])'
      <3>1. ApiFit(rotation[p]) /\ Given(k) = Given(rotation[p]) /\ Api!Listed(k.realm)' = Api!Listed(rotation[p].realm)
            /\ rotation[p].cl = client[rotation[p].realm]
        BY <1>1, <1>2, <2>3, <2>5, ApiSame DEF ApiInv, Given, ApiFit
      <3>2. k.mode = "create" => MakesFit(k)'
        BY <1>1, <1>2, <2>3, <3>1 DEF ApiFit, MakesFit, Given
      <3>3. ASSUME k.mode = "rotate" PROVE TurnsFit(k)'
        <4>1. rotation[p].tk \cup {Given(rotation[p])} \subseteq Api!Live(Api!Listed(rotation[p].realm))
          BY <1>1, <1>5, <2>3, <2>5, <3>3, ApiAllLive
        <4>2. k.tk \cup {Given(k)} \subseteq Api!Live(Api!Listed(k.realm)')
          BY <2>3, <3>1, <4>1
        <4>3. \A set : Api!Live(set)' = Api!Live(set)
          BY DEF Api!Live
        <4>4. state'.last = k.new
          BY <1>1, <1>2, <2>3, <3>1, <3>3 DEF ApiFit, TurnsFit
        <4>5. k.tk \cup {Given(k)} \subseteq Api!Live(Api!Listed(k.realm))'
          BY <4>2 DEF Api!Live
        <4> QED BY <2>3, <4>4, <4>5 DEF TurnsFit, ApiWriting, Given
      <3>4. ASSUME k.mode = "retire" PROVE RetiresFit(k)'
        <4>1. /\ Api!Listed(rotation[p].realm) = Api!Live(Api!Listed(rotation[p].realm))
              /\ Api!Ids(Api!Listed(rotation[p].realm)) = {rotation[p].new} /\ rotation[p].new = state.last
          BY <1>1, <1>5, <2>3, <3>1, <3>4 DEF Api!Held, ApiFit, RetiresFit
        <4>2. Api!Listed(k.realm)' = Api!Live(Api!Listed(k.realm)') /\ Api!Ids(Api!Listed(k.realm)') = {state'.last}
          BY <1>2, <3>1, <4>1
        <4> QED BY <2>3, <4>2 DEF RetiresFit, Api!Live, Api!Ids
      <3>5. ASSUME k.mode = "teardown" PROVE EndsFit(k)'
        <4>1. rotation[p].cl = Api!NoClient /\ Api!Listed(rotation[p].realm) = {}
          BY <1>5, <2>3, <3>5 DEF Api!Held
        <4>2. client'[k.realm] = Api!NoClient /\ Api!Listed(k.realm)' = {}
          BY <1>2, <2>3, <3>1, <4>1
        <4> QED BY <1>1, <1>2, <2>3, <3>1, <3>5, <4>2 DEF ApiFit, EndsFit, ApiWriting
      <3>6. ApiFit(k)'
        BY <2>3, <3>2, <3>3, <3>4, <3>5 DEF ApiFit
      <3>7. \A i : i = rotation'[p] => (ApiFit(i)' <=> ApiFit(rotation[p])')
        OBVIOUS
      <3> QED BY <2>2, <3>6, <3>7
    <2>6. ASSUME Together <= 1
          PROVE  (~apiTorn' => Tells(state)') /\ SoleFit(rotation[p])' /\ (handed' # 0 => Newest(handed)')
      <3>1. SoleFit(rotation[p]) /\ (handed # 0 => Newest(handed)) /\ (~apiTorn => Tells(state))
        BY <1>1, <2>6, ApiTold DEF ApiInv, ApiSole
      <3>2. SoleFit(rotation[p])'
        BY <2>2, <2>3 DEF SoleFit, Api!Rest, Api!Exits
      <3>3. handed' # 0 => Newest(handed')
        BY <1>1, <1>5, <3>1 DEF SoleFit
      <3>4. handed' # 0 => Newest(handed)'
        BY <1>2, <3>3 DEF Newest
      <3>5. ~apiTorn' => Tells(state)'
        BY <1>2, <3>1 DEF Tells, LastMade
      <3> QED BY <3>2, <3>4, <3>5
    <2>7. handed' \in 0 .. MaxTokens
      BY <1>1, <1>5 DEF ApiRuns
    <2>8. Fleet' /\ state'.uuid \in answered' \cup {0} /\ state' \in Api!StateFile
      BY <1>2, ApiSame DEF ApiInv
    <2> QED BY <1>1, <1>2, <2>1, <2>4, <2>5, <2>6, <2>7, <2>8, ApiMoves DEF ApiStays
  <1>6. CASE UNCHANGED handed /\ Api!Goes(p, IF rotation[p].trade = "silent" THEN "exit3" ELSE Api!Unread(p))
    <2>1. (IF rotation[p].trade = "silent" THEN "exit3" ELSE Api!Unread(p)) \in ApiFails
      BY DEF Api!Unread, ApiFails
    <2> QED BY <1>3, <1>6, <2>1
  <1>7. CASE UNCHANGED handed /\ (Api!Goes(p, "exit1") \/ Api!Goes(p, "exit3"))
    BY <1>3, <1>7 DEF ApiFails
  <1>8. CASE /\ Api!Held(p, Api!Listed(rotation[p].realm))
             /\ IF rotation[p].mode = "teardown" /\ rotation[p].saw # 0
                THEN Api!Knows(p, [rotation[p] EXCEPT !.pc = "save", !.draft = rotation[p].st])
                ELSE Api!Goes(p, "exit0")
             /\ handed' = IF rotation[p].mode \in {"create", "rotate"} THEN rotation[p].new ELSE handed
    <2>1. CASE rotation[p].mode = "teardown" /\ rotation[p].saw # 0
      BY <1>4, <1>8, <2>1
    <2>2. CASE ~(rotation[p].mode = "teardown" /\ rotation[p].saw # 0)
      BY <1>5, <1>8, <2>2
    <2> QED BY <2>1, <2>2
  <1> QED BY <1>6, <1>7, <1>8 DEF Api!BacksTokens

LEMMA ApiDies ==
  ASSUME ApiInv, NEW p \in Runs, Api!Dies(p) PROVE ApiInv'
  <1> USE ApiHave, ApiIdle
  <1>1. rotation[p].pc \notin Api!Rest
    BY ApiAt
  <1>2. UNCHANGED <<client, tokens, clients, minted, answered, issued, state, handed, serves, apiOthers>>
        /\ apiFaults' \in 0 .. MaxFaults /\ apiTorn' \in BOOLEAN
    BY ApiFaults DEF Api!Dies, Api!fleet
  <1>3. apiTorn' = (apiTorn \/ rotation[p].pc \in ApiWriting)
    BY DEF Api!Dies, ApiWriting
  <1>4. ApiTurns(p) /\ rotation'[p] = Api!Idle
    BY ApiKnows DEF Api!Dies, Api!Knows
  <1>5. Turn(rotation[p])' /\ SoleFit(rotation[p])' /\ rotation'[p].pc \notin ApiWriting
    BY <1>4, ApiBlank DEF Turn, SoleFit, ApiWriting, Api!Rest, Api!Exits
  <1>6. ASSUME Together <= 1 PROVE (~apiTorn' => Tells(state)') /\ (handed' # 0 => Newest(handed)')
    <2>1. (handed # 0 => Newest(handed)) /\ (~apiTorn /\ rotation[p].pc \notin ApiWriting => Tells(state))
      BY <1>1, <1>6, ApiTold DEF ApiInv, ApiSole
    <2>2. handed' # 0 => Newest(handed)'
      BY <1>2, <2>1 DEF Newest
    <2>3. ~apiTorn' => Tells(state)'
      BY <1>2, <1>3, <2>1 DEF Tells, LastMade
    <2> QED BY <2>2, <2>3
  <1>7. Fleet' /\ state'.uuid \in answered' \cup {0} /\ state' \in Api!StateFile
    BY <1>2, ApiSame DEF ApiInv
  <1> QED BY <1>1, <1>2, <1>4, <1>5, <1>6, <1>7, ApiMoves

\* A run that is no longer alone.
LEMMA ApiFades ==
  ASSUME NEW k \in ApiRuns, NEW f, f = [k EXCEPT !.alone = FALSE]
  PROVE  /\ f \in ApiRuns /\ ~f.alone /\ f.pc = k.pc /\ f.mode = k.mode /\ f.realm = k.realm /\ f.cl = k.cl /\ f.tk = k.tk
         /\ f.st = k.st /\ f.saw = k.saw /\ f.new = k.new /\ f.trade = k.trade /\ f.draft = k.draft /\ f.one = k.one
  BY DEF ApiRuns

LEMMA ApiTurnStays ==
  ASSUME NEW k \in ApiRuns, Turn(k), answered \subseteq answered', issued \subseteq issued', minted \in Nat, minted' \in Nat,
         minted <= minted', NEW f, f.pc = k.pc, f.mode = k.mode, f.tk = k.tk, f.st = k.st, f.saw = k.saw, f.new = k.new,
         f.draft = k.draft
  PROVE  Turn(f)'
  <1>1. \A t \in k.tk : t.id \in Nat
    BY DEF ApiRuns, Api!Token
  <1>2. \A t \in f.tk : t.id <= minted'
    BY <1>1 DEF Turn
  <1> QED BY <1>2 DEF Turn

\* Somebody else acts.
LEMMA ApiBeside ==
  ASSUME ApiInv, Fleet', rotation' = [q \in Runs |-> [rotation[q] EXCEPT !.alone = FALSE]],
         UNCHANGED <<state, handed, serves, answered, issued, apiTorn, apiFaults>>, minted <= minted',
         apiOthers' \in 0 .. MaxOthers,
         \A r \in Realms : LastMade(r)' => LastMade(r) /\ client'[r].uuid = client[r].uuid
  PROVE  ApiInv'
  <1> USE ApiHave
  <1>1. \A q \in Runs :
          /\ rotation'[q] \in ApiRuns /\ ~rotation'[q].alone /\ rotation'[q].pc = rotation[q].pc
          /\ rotation'[q].mode = rotation[q].mode /\ rotation'[q].tk = rotation[q].tk /\ rotation'[q].st = rotation[q].st
          /\ rotation'[q].saw = rotation[q].saw /\ rotation'[q].new = rotation[q].new
          /\ rotation'[q].draft = rotation[q].draft
    BY ApiFades
  <1>2. rotation' \in [Runs -> ApiRuns]
    BY <1>1
  <1>3. ASSUME NEW q \in Runs PROVE Turn(rotation[q])'
    <2>1. rotation[q] \in ApiRuns /\ Turn(rotation[q]) /\ minted' \in Nat
      BY DEF ApiInv, Fleet
    <2>2. \A f : f = rotation'[q] => (Turn(f)' <=> Turn(rotation[q])')
      OBVIOUS
    <2>3. PICK f : f = rotation'[q]
      OBVIOUS
    <2>4. Turn(f)'
      BY <1>1, <2>1, <2>3, ApiTurnStays
    <2> QED BY <2>2, <2>3, <2>4
  <1>4. Api!TypeOK'
    BY <1>2, <1>3 DEF Api!TypeOK, ApiRuns, Fleet, Turn
  <1>5. ASSUME Together <= 1 PROVE ApiSole'
    <2>1. \A q, o \in Runs : rotation'[q].pc \notin Api!Rest /\ rotation'[o].pc \notin Api!Rest => q = o
      BY <1>1, <1>5 DEF ApiInv, ApiSole
    <2>2. \A q \in Runs : SoleFit(rotation[q])'
      BY <1>1, <1>5 DEF ApiInv, ApiSole, SoleFit, Agrees, Newest
    <2>3. handed' # 0 => Newest(handed)'
      BY <1>5 DEF ApiInv, ApiSole, Newest
    <2>4. ApiRecord'
      BY <1>1, <1>5 DEF ApiInv, ApiSole, ApiRecord, Tells
    <2> QED BY <2>1, <2>2, <2>3, <2>4 DEF ApiSole
  <1>6. state'.uuid \in answered' \cup {0}
    BY DEF ApiInv
  <1> QED BY <1>1, <1>3, <1>4, <1>5, <1>6 DEF ApiInv

LEMMA ApiConsole ==
  ASSUME ApiInv, NEW r \in Realms, Api!Console(r) PROVE ApiInv'
  <1> USE ApiHave
  <1>1. /\ rotation' = [q \in Runs |-> [rotation[q] EXCEPT !.alone = FALSE]]
        /\ UNCHANGED <<state, handed, serves, answered, issued, apiTorn, apiFaults>> /\ apiOthers' \in 0 .. MaxOthers
    <2>1. apiOthers < MaxOthers /\ apiOthers' = apiOthers + 1
      BY DEF Api!Console, Api!Other
    <2> QED BY <2>1 DEF Api!Console, Api!Other
  <1>2. CASE /\ clients < MaxClients /\ clients' = clients + 1
             /\ client' = [client EXCEPT ![r] = [uuid |-> clients', role |-> TRUE]] /\ UNCHANGED <<tokens, minted>>
    <2>1. /\ Fleet' /\ client'[r] = [uuid |-> clients', role |-> TRUE] /\ \A q \in Realms \ {r} : client'[q] = client[q]
          /\ clients' \notin answered
      BY <1>1, <1>2, ApiNewClient
    <2>2. \A q \in Realms : LastMade(q)' => LastMade(q) /\ client'[q].uuid = client[q].uuid
      BY <1>1, <2>1 DEF LastMade
    <2> QED BY <1>1, <1>2, <2>1, <2>2, ApiBeside
  <1>3. CASE /\ client' \in {client, [client EXCEPT ![r] = Api!NoClient]} /\ tokens' \in SUBSET tokens
             /\ UNCHANGED <<clients, minted>>
    <2>1. Fleet' /\ \A q \in Realms : LastMade(q)' => LastMade(q) /\ client'[q].uuid = client[q].uuid
      BY <1>1, <1>3, ApiFewer
    <2> QED BY <1>1, <1>3, <2>1, ApiBeside
  <1>4. CASE /\ minted < MaxTokens /\ minted' = minted + 1
             /\ tokens' = tokens \cup {[id |-> minted', realm |-> r, live |-> TRUE]} /\ UNCHANGED <<client, clients>>
    <2>1. Fleet'
      BY <1>1, <1>4, ApiNewToken
    <2>2. \A q \in Realms : LastMade(q)' => LastMade(q) /\ client'[q].uuid = client[q].uuid
      BY <1>1, <1>4 DEF LastMade
    <2> QED BY <1>1, <1>4, <2>1, <2>2, ApiBeside
  <1>5. CASE client' = [client EXCEPT ![r] = Api!NoClient] /\ tokens' \in {tokens, tokens \ Api!Listed(r)}
             /\ UNCHANGED <<clients, minted>>
    <2>1. tokens' \in SUBSET tokens
      BY <1>5
    <2> QED BY <1>3, <1>5, <2>1
  <1>6. CASE \E t \in Api!Listed(r) : tokens' = tokens \ {t} /\ UNCHANGED <<client, clients, minted>>
    <2>1. tokens' \in SUBSET tokens
      BY <1>6
    <2> QED BY <1>3, <1>6, <2>1
  <1> QED BY <1>2, <1>4, <1>5, <1>6 DEF Api!Console

LEMMA ApiExpires ==
  ASSUME ApiInv, NEW t \in tokens, Api!Expires(t) PROVE ApiInv'
  <1> USE ApiHave
  <1>1. /\ rotation' = [q \in Runs |-> [rotation[q] EXCEPT !.alone = FALSE]]
        /\ UNCHANGED <<state, handed, serves, answered, issued, apiTorn, apiFaults, client, clients, minted>>
        /\ apiOthers' \in 0 .. MaxOthers
    <2>1. apiOthers < MaxOthers /\ apiOthers' = apiOthers + 1
      BY DEF Api!Expires, Api!Other
    <2> QED BY <2>1 DEF Api!Expires, Api!Other
  <1>2. PICK u : u = [t EXCEPT !.live = FALSE]
    OBVIOUS
  <1>3. tokens' = (tokens \ {t}) \cup {u} /\ t \in Api!Token
    BY <1>2 DEF Api!Expires, ApiInv, Fleet
  <1>4. u \in Api!Token /\ u.id = t.id
    BY <1>2, <1>3 DEF Api!Token
  <1>5. /\ tokens' \subseteq Api!Token /\ \A s \in tokens' : s.id <= minted
        /\ \A s, v \in tokens' : s.id = v.id => s = v
    BY <1>3, <1>4 DEF ApiInv, Fleet
  <1>6. HaveGreatest(1 .. minted)' /\ HaveGreatest(1 .. clients)'
    BY <1>1 DEF HaveGreatest, ApiInv, Fleet
  <1>7. Fleet'
    BY <1>1, <1>5, <1>6 DEF ApiInv, Fleet
  <1>8. \A q \in Realms : LastMade(q)' => LastMade(q) /\ client'[q].uuid = client[q].uuid
    BY <1>1 DEF LastMade
  <1> QED BY <1>1, <1>7, <1>8, ApiBeside

LEMMA ApiPoints == ASSUME ApiInv, Api!Points PROVE ApiInv'
  <1> USE ApiHave
  <1>1. UNCHANGED <<client, tokens, clients, minted, answered, issued, state, rotation, handed, apiFaults, apiOthers, apiTorn>>
        /\ serves' = handed
    BY DEF Api!Points, Api!fleet
  <1>2. Fleet'
    BY <1>1, ApiSame DEF ApiInv
  <1>3. \A p \in Runs : Turn(rotation[p])'
    BY <1>1 DEF ApiInv, Turn
  <1>4. \A p \in Runs : rotation'[p].alone => ApiFit(rotation[p])'
    BY <1>1 DEF ApiInv, ApiFit, MakesFit, TurnsFit, RetiresFit, EndsFit, Api!Listed
  <1>5. ASSUME Together <= 1 PROVE ApiSole'
    <2>1. \A p \in Runs : SoleFit(rotation[p])'
      BY <1>1, <1>5 DEF ApiInv, ApiSole, SoleFit, Agrees, Newest
    <2>2. ApiRecord'
      BY <1>1, <1>5 DEF ApiInv, ApiSole, ApiRecord, Tells, LastMade
    <2> QED BY <1>1, <1>5, <2>1, <2>2 DEF ApiInv, ApiSole, Newest
  <1>6. Api!TypeOK'
    BY <1>1 DEF ApiInv, Api!TypeOK
  <1> QED BY <1>1, <1>2, <1>3, <1>4, <1>5, <1>6 DEF ApiInv

LEMMA ApiStarts ==
  ASSUME ApiInv, NEW p \in Runs, NEW m \in Api!Modes, NEW r \in Realms, Api!Starts(p, m, r) PROVE ApiInv'
  <1> USE ApiHave
  <1> DEFINE none == Api!Busy = {}
  <1>1. /\ rotation[p].pc \in Api!Rest /\ none \in BOOLEAN /\ (none => \A q \in Runs : rotation[q].pc \in Api!Rest)
        /\ (m # "create" => state = Api!Nothing \/ state.realm = r) /\ (m = "retire" => handed # 0 /\ serves = handed)
    BY DEF Api!Starts, Api!Busy
  <1>2. UNCHANGED <<client, tokens, clients, minted, answered, issued, state, serves, apiFaults, apiOthers, apiTorn>>
        /\ handed' = IF m \in {"create", "rotate"} THEN 0 ELSE handed
    BY DEF Api!Starts, Api!fleet
  <1>3. PICK pc \in {"tokens", "clients"} : pc = IF m = "teardown" THEN "tokens" ELSE "clients"
    OBVIOUS
  <1>4. PICK first : first = [Api!Idle EXCEPT !.pc = pc, !.mode = m, !.realm = r, !.alone = none]
    OBVIOUS
  <1>5. rotation' = [q \in Runs |-> IF q = p THEN first ELSE [rotation[q] EXCEPT !.alone = FALSE]]
    BY <1>3, <1>4, Zenon DEF Api!Starts
  <1> HIDE DEF none
  <1>6. /\ first \in ApiRuns /\ first.pc = pc /\ first.mode = m /\ first.realm = r /\ first.alone = none /\ first.tk = {}
        /\ first.st = Api!Nothing /\ first.draft = Api!Nothing /\ first.new = 0
    BY <1>1, <1>4, ApiIdle DEF ApiRuns, Api!Steps
  <1>7. rotation'[p] = first
    BY <1>5
  <1>8. \A q \in Runs \ {p} :
          /\ rotation'[q] \in ApiRuns /\ ~rotation'[q].alone /\ rotation'[q].pc = rotation[q].pc
          /\ rotation'[q].mode = rotation[q].mode /\ rotation'[q].tk = rotation[q].tk /\ rotation'[q].st = rotation[q].st
          /\ rotation'[q].saw = rotation[q].saw /\ rotation'[q].new = rotation[q].new
          /\ rotation'[q].draft = rotation[q].draft
    BY <1>5, ApiFades
  <1>9. rotation' \in [Runs -> ApiRuns]
    BY <1>5, <1>6, <1>7, <1>8
  <1>10. \A q \in Runs \ {p} : Turn(rotation[q])'
    <2>1. ASSUME NEW q \in Runs \ {p} PROVE Turn(rotation[q])'
      <3>1. rotation[q] \in ApiRuns /\ Turn(rotation[q])
        BY DEF ApiInv
      <3>2. \A f : f = rotation'[q] => (Turn(f)' <=> Turn(rotation[q])')
        OBVIOUS
      <3>3. PICK f : f = rotation'[q]
        OBVIOUS
      <3>4. Turn(f)'
        BY <1>2, <1>8, <3>1, <3>3, ApiTurnStays
      <3> QED BY <3>2, <3>3, <3>4
    <2> QED BY <2>1
  <1>11. Turn(rotation[p])' /\ rotation'[p].pc \notin ApiWriting
    BY <1>3, <1>6, <1>7, ApiBlank DEF Turn, ApiWriting
  <1>12. handed' \in 0 .. MaxTokens
    BY <1>2
  <1>13. Fleet' /\ \A q \in Realms : (LastMade(q) <=> LastMade(q)') /\ client'[q].uuid = client[q].uuid
    BY <1>2, ApiSame DEF ApiInv
  <1>14. Api!TypeOK'
    <2>1. \A q \in Runs : rotation'[q].pc \in {"trade", "after"} => rotation'[q].new \in issued'
      BY <1>10, <1>11 DEF Turn
    <2> QED BY <1>2, <1>9, <1>12, <1>13, <2>1 DEF Api!TypeOK, ApiRuns, Fleet
  <1>15. \A q, o \in Runs : rotation'[q].alone /\ q # o => rotation'[o].pc \in Api!Rest /\ ~rotation'[o].alone
    BY <1>1, <1>6, <1>7, <1>8
  <1>16. ApiFit(rotation[p])'
    <2>1. m = "create" => MakesFit(first)'
      BY <1>3, <1>6 DEF MakesFit
    <2>2. m = "rotate" => TurnsFit(first)'
      BY <1>3, <1>6 DEF TurnsFit, ApiWriting
    <2>3. m = "retire" => RetiresFit(first)'
      BY <1>3, <1>6 DEF RetiresFit
    <2>4. m = "teardown" => EndsFit(first)'
      BY <1>1, <1>2, <1>3, <1>6 DEF EndsFit, ApiWriting
    <2>5. ApiFit(first)'
      BY <1>3, <1>6, <2>1, <2>2, <2>3, <2>4 DEF ApiFit
    <2>6. \A i : i = rotation'[p] => (ApiFit(i)' <=> ApiFit(rotation[p])')
      OBVIOUS
    <2> QED BY <1>7, <2>5, <2>6
  <1>17. ASSUME Together <= 1 PROVE ApiSole'
    <2>1. \A q \in Runs : rotation[q].pc \in Api!Rest
      <3>1. IsFiniteSet(Api!Busy)
        BY ApiNumbers, FS_Subset DEF Api!Busy
      <3>2. Cardinality(Api!Busy) \in Nat
        BY <3>1, FS_CardinalityType
      <3>3. Cardinality(Api!Busy) < Together
        BY Zenon DEF Api!Starts, Api!Cardinality, Cardinality
      <3>4. Cardinality(Api!Busy) = 0
        BY <1>17, <3>2, <3>3, ApiNumbers
      <3>5. Api!Busy = {}
        BY <3>1, <3>4, FS_EmptySet
      <3> QED BY <3>5 DEF Api!Busy
    <2>2. \A q \in Runs : /\ rotation[q].pc \notin ApiWriting /\ rotation'[q].pc \notin ApiWriting
                          /\ q # p => rotation'[q].pc \in Api!Rest
      BY <1>8, <1>11, <2>1 DEF Api!Rest, Api!Exits, ApiWriting
    <2>3. ApiRecord'
      <3>1. ~apiTorn => Tells(state)
        BY <1>17, <2>2 DEF ApiInv, ApiSole, ApiRecord
      <3>2. ~apiTorn' => Tells(state)'
        BY <1>2, <1>13, <3>1 DEF Tells
      <3> QED BY <2>2, <3>2 DEF ApiRecord
    <2>4. handed' # 0 => Newest(handed)'
      BY <1>2, <1>17 DEF ApiInv, ApiSole, Newest
    <2>5. SoleFit(first)'
      BY <1>1, <1>2, <1>3, <1>6 DEF SoleFit, Api!Modes
    <2>6. SoleFit(rotation[p])'
      <3>1. \A i : i = rotation'[p] => (SoleFit(i)' <=> SoleFit(rotation[p])')
        OBVIOUS
      <3> QED BY <1>7, <2>5, <3>1
    <2>7. \A q \in Runs \ {p} : SoleFit(rotation[q])'
      BY <2>2 DEF SoleFit, Api!Rest, Api!Exits
    <2> QED BY <2>2, <2>3, <2>4, <2>6, <2>7 DEF ApiSole
  <1>18. state'.uuid \in answered' \cup {0}
    BY <1>2 DEF ApiInv
  <1>19. \A q \in Runs : rotation'[q].alone => ApiFit(rotation[q])'
    BY <1>8, <1>16
  <1>20. \A q \in Runs : Turn(rotation[q])'
    BY <1>10, <1>11
  <1> QED BY <1>13, <1>14, <1>15, <1>17, <1>18, <1>19, <1>20 DEF ApiInv

LEMMA ApiStep == ApiInv /\ Api!Next => ApiInv'
  BY ApiReadsClients, ApiReadsTokens, ApiJudges, ApiCreates, ApiSaves, ApiWrites, ApiBinds, ApiIssues, ApiTrades,
     ApiReadsAfter, ApiDeletes, ApiDeletesClient, ApiBacksClients, ApiBacksTokens, ApiDies, ApiStarts, ApiPoints,
     ApiConsole, ApiExpires DEF Api!Next, Api!Step

LEMMA ApiStay == ApiInv /\ UNCHANGED api => ApiInv'
  <1> SUFFICES ASSUME ApiInv, UNCHANGED api PROVE ApiInv'
    OBVIOUS
  <1>1. UNCHANGED <<client, tokens, clients, minted, answered, issued, state, rotation, handed, serves, apiFaults,
                    apiOthers, apiTorn>>
    BY DEF api
  <1>2. Fleet'
    BY <1>1, ApiSame DEF ApiInv
  <1>3. \A p \in Runs : Turn(rotation[p])'
    BY <1>1 DEF ApiInv, Turn
  <1>4. \A p \in Runs : rotation'[p].alone => ApiFit(rotation[p])'
    BY <1>1 DEF ApiInv, ApiFit, MakesFit, TurnsFit, RetiresFit, EndsFit, Api!Listed
  <1>5. ASSUME Together <= 1 PROVE ApiSole'
    <2>1. \A p \in Runs : SoleFit(rotation[p])'
      BY <1>1, <1>5 DEF ApiInv, ApiSole, SoleFit, Agrees, Newest
    <2>2. ApiRecord'
      BY <1>1, <1>5 DEF ApiInv, ApiSole, ApiRecord, Tells, LastMade
    <2> QED BY <1>1, <1>5, <2>1, <2>2 DEF ApiInv, ApiSole, Newest
  <1>6. Api!TypeOK'
    BY <1>1 DEF ApiInv, Api!TypeOK
  <1> QED BY <1>1, <1>2, <1>3, <1>4, <1>5, <1>6 DEF ApiInv

LEMMA ApiSays ==
  ApiInv => /\ Api!TypeOK /\ Api!ActsOnlyOnItsOwn /\ Api!ExitZeroIsTrue
            /\ Together <= 1 => Api!MadeIsRecorded
  <1> SUFFICES ASSUME ApiInv
               PROVE  /\ Api!TypeOK /\ Api!ActsOnlyOnItsOwn /\ Api!ExitZeroIsTrue
                      /\ Together <= 1 => Api!MadeIsRecorded
    OBVIOUS
  <1> USE ApiHave
  <1>1. Api!TypeOK
    BY DEF ApiInv
  <1>2. Api!ActsOnlyOnItsOwn
    BY DEF ApiInv, Turn, Api!ActsOnlyOnItsOwn
  <1>3. ASSUME NEW p \in Runs, rotation[p].alone, rotation[p].pc = "exit0", NEW r, r = rotation[p].realm,
               NEW mine, mine = Api!Listed(r)
        PROVE  CASE rotation[p].mode = "create" ->
                      /\ client[r] = [uuid |-> rotation[p].saw, role |-> TRUE] /\ client[r].uuid = state.uuid
                      /\ rotation[p].new \in Api!Ids(Api!Live(mine))
                 [] rotation[p].mode = "rotate" ->
                      /\ rotation[p].tk \subseteq Api!Live(mine) /\ rotation[p].new \in Api!Ids(Api!Live(mine))
                      /\ state.last = rotation[p].new
                 [] rotation[p].mode = "retire" -> Api!Ids(mine) = {state.last} /\ Api!Live(mine) = mine
                 [] OTHER -> client[r] = Api!NoClient /\ mine = {} /\ (answered # {} /\ state # Api!Nothing => state.realm = r)
    <2>1. ApiFit(rotation[p]) /\ rotation[p] \in ApiRuns /\ r \in Realms /\ client[r] \in Api!ClientRow
      BY <1>3 DEF ApiInv, ApiRuns, Fleet
    <2>2. Given(rotation[p]).id = rotation[p].new /\ Given(rotation[p]).live /\ Given(rotation[p]).realm = r
      BY <1>3 DEF Given
    <2>3. CASE rotation[p].mode = "create"
      <3>1. /\ client[r].uuid = rotation[p].saw /\ rotation[p].new # 0 /\ Given(rotation[p]) \in tokens
            /\ client[r].role /\ state.uuid = rotation[p].saw
        BY <1>3, <2>1, <2>3 DEF ApiFit, MakesFit
      <3>2. client[r] = [uuid |-> rotation[p].saw, role |-> TRUE]
        BY <2>1, <3>1 DEF Api!ClientRow
      <3>3. Given(rotation[p]) \in Api!Live(mine)
        BY <1>3, <2>2, <3>1 DEF Api!Live, Api!Listed
      <3>4. rotation[p].new \in Api!Ids(Api!Live(mine))
        BY <2>2, <3>3 DEF Api!Ids
      <3> QED BY <2>3, <3>1, <3>2, <3>4
    <2>4. CASE rotation[p].mode = "rotate"
      <3>1. rotation[p].tk \cup {Given(rotation[p])} \subseteq Api!Live(mine) /\ state.last = rotation[p].new
        BY <1>3, <2>1, <2>4 DEF ApiFit, TurnsFit
      <3>2. rotation[p].new \in Api!Ids(Api!Live(mine))
        BY <2>2, <3>1 DEF Api!Ids
      <3> QED BY <2>4, <3>1, <3>2
    <2>5. CASE rotation[p].mode = "retire"
      BY <1>3, <2>1, <2>5 DEF ApiFit, RetiresFit
    <2>6. CASE rotation[p].mode = "teardown"
      BY <1>3, <2>1, <2>6 DEF ApiFit, EndsFit
    <2>7. rotation[p].mode \in {"create", "rotate", "retire", "teardown"}
      BY <2>1 DEF ApiRuns, Api!Modes
    <2> QED BY <2>3, <2>4, <2>5, <2>6, <2>7
  <1>4. Api!ExitZeroIsTrue
    BY <1>3, Zenon DEF Api!ExitZeroIsTrue, Api!At
  <1>5. ASSUME Together <= 1 PROVE Api!MadeIsRecorded
    <2>1. SUFFICES ASSUME NEW r \in Realms, client[r].uuid # 0, client[r].uuid \in answered,
                          client[r].uuid = Api!Last(answered), ~apiTorn, \A p \in Runs : rotation[p].pc \notin ApiWriting
                   PROVE  state.uuid = client[r].uuid /\ state.realm = r
      BY DEF Api!MadeIsRecorded, ApiWriting
    <2>2. answered \in SUBSET (1 .. clients) /\ answered # {}
      BY <2>1 DEF ApiInv, Fleet
    <2>3. \E i \in answered : \A j \in answered : j <= i
      BY <2>2 DEF ApiInv, Fleet, HaveGreatest
    <2>4. \A j \in answered : j <= Api!Last(answered)
      BY <2>3 DEF Api!Last
    <2>5. LastMade(r)
      BY <2>1, <2>4 DEF LastMade
    <2> QED BY <1>5, <2>1, <2>5 DEF ApiInv, ApiSole, ApiRecord, Tells
  <1> QED BY <1>1, <1>2, <1>4, <1>5

\* A retirement spares the token the integration holds.
LEMMA ApiKeeps ==
  ASSUME ApiInv, Together <= 1, Api!Next
  PROVE  \A p \in Runs : Api!At(p, "delete") /\ rotation'[p].tk # rotation[p].tk /\ rotation[p].mode = "retire"
                           /\ rotation[p].st.last \in issued => serves \notin Api!Ids(tokens) \ Api!Ids(tokens')
  <1> USE ApiHave
  <1> SUFFICES ASSUME NEW p \in Runs, rotation[p].pc = "delete", rotation'[p].tk # rotation[p].tk, rotation[p].mode = "retire",
                      rotation[p].st.last \in issued
               PROVE  serves \notin Api!Ids(tokens) \ Api!Ids(tokens')
    BY DEF Api!At
  <1>1. CASE UNCHANGED tokens
    BY <1>1
  <1>2. ASSUME NEW t \in rotation[p].tk, tokens' = {u \in tokens : u.id # t.id}
        PROVE  serves \notin Api!Ids(tokens) \ Api!Ids(tokens')
    <2>1. serves = handed /\ handed # 0 /\ Newest(handed)
      BY DEF ApiInv, ApiSole, SoleFit, Api!Rest, Api!Exits
    <2>2. t.id < rotation[p].st.last /\ rotation[p].st.last <= serves
      BY <2>1 DEF ApiInv, Turn, Newest
    <2>3. t.id \in Nat /\ rotation[p].st.last \in Nat
      BY DEF ApiRuns, Api!Token, Api!StateFile
    <2>4. t.id # serves
      BY <2>2, <2>3
    <2> QED BY <1>2, <2>4 DEF Api!Ids
  <1>3. \A q \in Runs : Api!Step(q) => q = p
    BY ApiAt DEF ApiInv, ApiSole, Api!Rest, Api!Exits
  <1>4. CASE Api!Step(p)
    <2>1. Api!Deletes(p)
      BY <1>4 DEF Api!Step, Api!ReadsClients, Api!ReadsTokens, Api!Judges, Api!Creates, Api!Saves, Api!Writes, Api!Binds,
                 Api!Issues, Api!Trades, Api!ReadsAfter, Api!DeletesClient, Api!BacksClients, Api!BacksTokens, Api!At
    <2> QED BY <1>1, <1>2, <2>1 DEF Api!Deletes
  <1>5. ASSUME rotation' = [q \in Runs |-> [rotation[q] EXCEPT !.alone = FALSE]] PROVE FALSE
    <2>1. rotation'[p] = [rotation[p] EXCEPT !.alone = FALSE] /\ rotation[p] \in ApiRuns
      BY <1>5
    <2> QED BY <2>1 DEF ApiRuns
  <1>6. CASE \E q \in Runs : Api!Dies(q)
    BY <1>1, <1>6 DEF Api!Dies, Api!fleet
  <1>7. CASE \E q \in Runs, m \in Api!Modes, r \in Realms : Api!Starts(q, m, r)
    BY <1>1, <1>7 DEF Api!Starts, Api!fleet
  <1>8. CASE Api!Points
    BY <1>1, <1>8 DEF Api!Points, Api!fleet
  <1>9. CASE \E r \in Realms : Api!Console(r)
    BY <1>5, <1>9 DEF Api!Console, Api!Other
  <1>10. CASE \E t \in tokens : Api!Expires(t)
    BY <1>5, <1>10 DEF Api!Expires, Api!Other
  <1> QED BY <1>3, <1>4, <1>6, <1>7, <1>8, <1>9, <1>10 DEF Api!Next

-----------------------------------------------------------------------------
(* The five scripts together. *)

ownership == <<script, api, role, account, throwaway, settings>>

\* Each script keeps its own invariant, and leaves the others' state alone.
OwnershipInv == ApiInv /\ ProbeInv /\ AccountInv /\ FedInv /\ SettingsInv

LEMMA OwnershipStart == Init => OwnershipInv
  BY ApiStart, ProbeStart, AccountStart, FedStart, SettingsStart DEF Init, OwnershipInv

LEMMA OwnershipStep == OwnershipInv /\ [Next]_ownership => OwnershipInv'
  <1> SUFFICES ASSUME OwnershipInv, [Next]_ownership PROVE OwnershipInv'
    OBVIOUS
  <1>1. (Api!Next \/ UNCHANGED api) /\ (Probe!Next \/ UNCHANGED role) /\ (Account!Next \/ UNCHANGED account)
        /\ (Fed!Next \/ UNCHANGED throwaway) /\ (Settings!Next \/ UNCHANGED settings)
    BY DEF Next, ownership
  <1>2. ApiInv'
    BY <1>1, ApiStep, ApiStay DEF OwnershipInv
  <1>3. ProbeInv'
    BY <1>1, ProbeStep, ProbeStay DEF OwnershipInv
  <1>4. AccountInv'
    BY <1>1, AccountStep, AccountStay DEF OwnershipInv
  <1>5. FedInv'
    BY <1>1, FedStep, FedStay DEF OwnershipInv
  <1>6. SettingsInv'
    BY <1>1, SettingsStep, SettingsStay DEF OwnershipInv
  <1> QED BY <1>2, <1>3, <1>4, <1>5, <1>6 DEF OwnershipInv

\* The inductive invariant of the five scripts.
THEOREM OwnershipAlways == Spec => []OwnershipInv
  BY OwnershipStart, OwnershipStep, PTL DEF Spec, ownership

\* The types of the five scripts.
THEOREM OwnershipTypes == Spec => []TypeOK
  <1>1. OwnershipInv => TypeOK
    BY ApiSays, ProbeSays, AccountSays, FedSays, SettingsSays DEF OwnershipInv, TypeOK
  <1> QED BY <1>1, OwnershipAlways, PTL

\* Exit 0 means what the manual says of each script, when nobody else acted during the run: whatever calls are refused,
\* lose their effect or get no answer, wherever runs die, and for any number of runs at a time.
THEOREM ExitZeroAlwaysTrue == Spec => []ExitZeroIsTrue
  <1>1. OwnershipInv => ExitZeroIsTrue
    BY ApiSays, ProbeSays, AccountSays, FedSays, SettingsSays DEF OwnershipInv, ExitZeroIsTrue
  <1> QED BY <1>1, OwnershipAlways, PTL

\* Wherever a run stops, what a script was told it made is on record, unless the write of that record failed: for an
\* administrator who has one run of a script going at a time.
THEOREM MadeAlwaysRecorded == ASSUME Together <= 1 PROVE Spec => []MadeIsRecorded
  <1>1. OwnershipInv => MadeIsRecorded
    BY ApiSays, ProbeSays, AccountSays, FedSays DEF OwnershipInv, MadeIsRecorded
  <1> QED BY <1>1, OwnershipAlways, PTL

\* A script writes only on what it made: the API client whose create was answered, the roles it made or adopted, the
\* account it registered, the objects of a throwaway organization, and metadata with the active certificate and no
\* foreign one.
THEOREM AlwaysOnItsOwn == Spec => ActsOnlyOnItsOwn
  <1>1. OwnershipInv => /\ script = "api_client" => Api!ActsOnlyOnItsOwn
                        /\ script = "service_account" => Account!ActsOnlyOnItsOwn
    BY ApiSays, AccountSays DEF OwnershipInv
  <1>2. OwnershipInv /\ [Next]_ownership =>
          [\A p \in Runs : probe[p].pc \in {"ensure", "drop"} /\ probe'[p] # probe[p] /\ roleOthers' = roleOthers =>
             \A r \in roles \ roles' : [vc |-> r.vc, id |-> r.id] \in own]_(Probe!vars)
    <2>1. [Next]_ownership => Probe!Next \/ UNCHANGED Probe!vars
      BY DEF Next, ownership, role, Probe!vars
    <2> QED BY <2>1, ProbeActs DEF OwnershipInv
  <1>3. OwnershipInv /\ [Next]_ownership =>
          [fedOthers' = fedOthers =>
             /\ \A o \in dir \cup bin : o \notin dir' \cup bin' => o.id \in fedOwn
             /\ \A o \in dir \ dir' : o.id \in fedOwn
             /\ org.id # 0 /\ <<org'.id, org'.key>> # <<org.id, org.key>> => org.id \in fedOwn]_(Fed!vars)
    <2>1. [Next]_ownership => Fed!Next \/ UNCHANGED Fed!vars
      BY DEF Next, ownership, throwaway, Fed!vars
    <2> QED BY <2>1, FedActs DEF OwnershipInv
  <1>4. OwnershipInv /\ [Next]_ownership =>
          [\A p \in Runs : Settings!Writes(p) /\ saml' # saml /\ writer[p].alone /\ writer[p].ask.reader =>
             active \in saml'.certs /\ "foreign" \notin saml'.certs]_(Settings!vars)
    <2>1. [Next]_ownership => Settings!Next \/ UNCHANGED Settings!vars
      BY DEF Next, ownership, settings, Settings!vars, Settings!settings
    <2> QED BY <2>1, SettingsSpares DEF OwnershipInv
  <1> QED BY <1>1, <1>2, <1>3, <1>4, OwnershipAlways, PTL
      DEF Spec, ownership, ActsOnlyOnItsOwn, Probe!ActsOnlyOnItsOwn, Fed!ActsOnlyOnItsOwn, Settings!WritesOwnMetadata

\* What somebody relies on is spared: the token an integration holds, the token of a service account somebody stored,
\* the access somebody was granted through a role, the key the users of an organization were made under, and the
\* identity the users of an organization are matched by; with one run at a time.
THEOREM InUseAlwaysSpared == ASSUME Together <= 1 PROVE Spec => InUseIsSpared
  <1>1. OwnershipInv => (script = "service_account" => Account!StoredTokenLives)
    BY AccountSays DEF OwnershipInv
  <1>2. OwnershipInv /\ [Next]_ownership =>
          [\A p \in Runs : Api!At(p, "delete") /\ rotation'[p].tk # rotation[p].tk /\ rotation[p].mode = "retire"
                             /\ rotation[p].st.last \in issued => serves \notin Api!Ids(tokens) \ Api!Ids(tokens')]_(Api!vars)
    <2>1. [Next]_ownership => Api!Next \/ UNCHANGED Api!vars
      BY DEF Next, ownership, api, Api!vars, Api!fleet
    <2> QED BY <2>1, ApiKeeps DEF OwnershipInv
  <1>3. OwnershipInv /\ [Next]_ownership =>
          [\A p \in Runs : Probe!At(p, "drop") /\ probe'[p] # probe[p] /\ probe[p].alone /\ roleOthers' = roleOthers =>
             {g \in grants : g.on = "elsewhere"} \subseteq grants']_(Probe!vars)
    <2>1. [Next]_ownership => Probe!Next \/ UNCHANGED Probe!vars
      BY DEF Next, ownership, role, Probe!vars
    <2> QED BY <2>1, ProbeSpares DEF OwnershipInv
  <1>4. OwnershipInv /\ [Next]_ownership =>
          [org.id = org'.id /\ org.under # {} => org'.key = org.key]_(Fed!vars)
    <2>1. [Next]_ownership => Fed!Next \/ UNCHANGED Fed!vars
      BY DEF Next, ownership, throwaway, Fed!vars
    <2> QED BY <2>1, FedActs DEF OwnershipInv
  <1>5. OwnershipInv /\ [Next]_ownership =>
          [\A p \in Runs : Settings!Writes(p) /\ writer[p].alone /\ writer[p].us = users =>
             \A u \in users : Settings!Matched(u, oidc, saml) => Settings!Matched(u, oidc', saml')]_(Settings!vars)
    <2>1. [Next]_ownership => Settings!Next \/ UNCHANGED Settings!vars
      BY DEF Next, ownership, settings, Settings!vars, Settings!settings
    <2> QED BY <2>1, SettingsSpares DEF OwnershipInv
  <1> QED BY <1>1, <1>2, <1>3, <1>4, <1>5, OwnershipAlways, PTL
      DEF Spec, ownership, InUseIsSpared, Api!RetireKeepsServed, Probe!RemovalTakesNoAccess, Fed!KeyIsKept,
          Settings!UsersStayMatched
=============================================================================
