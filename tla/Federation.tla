------------------------------ MODULE Federation ------------------------------
(***************************************************************************)
(* org_federation.py --execute and --teardown: a throwaway organization,   *)
(* an Entra application and one group are made, wired to each other and,   *)
(* later, removed.  A state file says which of each name are this          *)
(* script's.                                                               *)
(*                                                                         *)
(* An organization's name is its own, while Entra admits several           *)
(* applications and groups of one name, and its lists may answer from      *)
(* before the last change.  Others make and remove objects of these names, *)
(* and people sign in, under the key the organization stores.  A protocol  *)
(* and its user key are one Key here; the service principal goes with its  *)
(* application.                                                            *)
(***************************************************************************)
EXTENDS Integers, FiniteSets

CONSTANTS
  Keys, Runs,
  MaxIds,        \* objects made
  MaxFaults,     \* calls that are refused or get no answer, with or without their effect; deaths
  MaxOthers      \* acts of somebody else

VARIABLES
  org,           \* the organization of that name; under: the keys its users were made under
  dir, bin,      \* Entra's applications and groups of these names, and those in its recycle bin
  old,           \* the directory before its last change, which a list may still show
  assigned,      \* who is assigned to an application: a group, or 0 for somebody else
  state, run, made, faults, others,
  own,           \* history: the objects a run was told it made, and the organization it read after it made one
  torn,          \* history: a run died before or inside a write of the state file
  blind          \* history: a second object was made while the one on record was in the directory or its bin

vars == <<org, dir, bin, old, assigned, state, run, made, faults, others, own, torn, blind>>

Kinds == {"org", "app", "group"}
Id == 1 .. MaxIds
None == [k \in Kinds |-> 0]
NoKey == "none"
NoOrg == [id |-> 0, key |-> NoKey, imported |-> "no", under |-> {}]
NewOrg(i) == [NoOrg EXCEPT !.id = i]
Object == [kind : {"app", "group"}, id : Id]
Exits == {"exit0", "exit1", "exit2", "exit3"}
Rest == {"idle"} \cup Exits
Steps == {"find", "make", "take", "save", "write", "assign", "settings", "import"}
DownSteps == {"look", "drop", "purge", "residue"}

\* What one run knows.  kind: the object it is at; st: the state file as it loaded and changed it; sent: it has made
\* something; alone: nobody else has acted since it started.
Idle == [pc |-> "idle", mode |-> "build", key |-> NoKey, kind |-> "org", st |-> None, sent |-> FALSE, alone |-> FALSE]

TypeOK ==
  /\ org \in [id : {0} \cup Id, key : {NoKey} \cup Keys, imported : {"no", "member", "other"}, under : SUBSET Keys]
  /\ dir \subseteq Object /\ bin \subseteq Object /\ old \subseteq Object
  /\ assigned \subseteq [app : Id, to : {0} \cup Id] /\ state \in [Kinds -> {0} \cup Id]
  /\ run \in [Runs -> [pc : Rest \cup Steps \cup DownSteps, mode : {"build", "teardown"}, key : {NoKey} \cup Keys,
                       kind : Kinds, st : [Kinds -> {0} \cup Id], sent : BOOLEAN, alone : BOOLEAN]]
  /\ made \in 0 .. MaxIds /\ faults \in 0 .. MaxFaults /\ others \in 0 .. MaxOthers
  /\ own \subseteq 1 .. made /\ torn \in BOOLEAN /\ blind \in BOOLEAN

Init ==
  /\ org = NoOrg /\ dir = {} /\ bin = {} /\ old = {} /\ assigned = {} /\ state = None /\ run = [p \in Runs |-> Idle]
  /\ made = 0 /\ faults = 0 /\ others = 0 /\ own = {} /\ torn = FALSE /\ blind = FALSE

-----------------------------------------------------------------------------
At(p, pc) == run[p].pc = pc
Busy == {p \in Runs : run[p].pc \notin Rest}
Fault == faults < MaxFaults /\ faults' = faults + 1
Sound == UNCHANGED faults
Goes(p, pc) == run' = [run EXCEPT ![p].pc = pc]
To(p, kind, pc) == run' = [run EXCEPT ![p].kind = kind, ![p].pc = pc]
Entra == UNCHANGED <<dir, bin, old, assigned>>
Rests == UNCHANGED <<others, torn>>
Counts == UNCHANGED <<made, own, blind>>
OfKind(set, kind) == {o \in set : o.kind = kind}
Mine(p) == [kind |-> run[p].kind, id |-> run[p].st[run[p].kind]]

\* A state file that cannot be read stops every run until the administrator removes it.
Starts(p, m, k) ==
  /\ run[p].pc \in Rest /\ Busy = {} /\ (m = "teardown") = (k = NoKey)
  /\ run' = [q \in Runs |->
       IF q = p THEN [Idle EXCEPT !.mode = m, !.key = k, !.st = state, !.alone = TRUE,
                        !.pc = IF m = "build" THEN "find" ELSE IF state = None THEN "exit2" ELSE "look"]
       ELSE [run[q] EXCEPT !.alone = FALSE]]
  /\ Entra /\ Counts /\ Rests /\ UNCHANGED <<org, state, faults>>

-----------------------------------------------------------------------------
\* Mutant: a run over its own organization writes the key it was given.
AnyKey(p) == TRUE

\* A run over its own organization keeps the key its settings hold, or is refused before it sends anything.
SameSignIn(p) == org.key \in {NoKey, run[p].key}

\* The organization, by its name.
FindsOrg(p) ==
  /\ At(p, "find") /\ run[p].kind = "org" /\ Entra /\ Counts /\ Rests /\ UNCHANGED <<org, state>>
  /\ \/ Sound /\ org.id = 0 /\ Goes(p, "make")
     \/ Sound /\ org.id # 0 /\ org.id = run[p].st.org /\ SameSignIn(p) /\ To(p, "group", "find")
     \/ Sound /\ org.id # 0 /\ (org.id # run[p].st.org \/ ~SameSignIn(p)) /\ Goes(p, "exit2")
     \/ Fault /\ Goes(p, "exit3")

MakesOrg(p) ==
  /\ At(p, "make") /\ run[p].kind = "org" /\ Entra /\ Rests /\ UNCHANGED <<state, own, blind>>
  /\ \/ /\ org.id = 0 /\ made < MaxIds /\ made' = made + 1 /\ org' = NewOrg(made')
        /\ \/ Sound /\ run' = [run EXCEPT ![p].pc = "take", ![p].sent = TRUE]
           \/ Fault /\ Goes(p, "exit3")
     \/ org.id # 0 /\ Sound /\ UNCHANGED <<org, made>> /\ Goes(p, "exit1")
     \/ Fault /\ UNCHANGED <<org, made>> /\ (Goes(p, "exit1") \/ Goes(p, "exit3"))

\* The answer names a task and no organization: the one of that name is read once the task has ended.
TakesOrg(p) ==
  /\ At(p, "take") /\ Entra /\ Rests /\ UNCHANGED <<org, state, made, blind>>
  /\ \/ /\ Sound /\ org.id # 0 /\ own' = own \cup {org.id}
        /\ run' = [run EXCEPT ![p].st.org = org.id, ![p].pc = "save"]
     \/ Sound /\ org.id = 0 /\ UNCHANGED own /\ Goes(p, "exit3")
     \/ Fault /\ UNCHANGED own /\ (Goes(p, "exit1") \/ Goes(p, "exit3"))

Following(kind) == CASE kind = "org" -> "group" [] kind = "group" -> "app" [] OTHER -> "app"

\* The group and then the application, by a list that may show the directory before its last change.
Finds(p) ==
  LET kind == run[p].kind
  IN /\ At(p, "find") /\ kind # "org" /\ Entra /\ Counts /\ Rests /\ UNCHANGED <<org, state>>
     /\ \/ \E shown \in {OfKind(dir, kind), OfKind(old, kind)} :
             /\ Sound
             /\ \/ shown = {} /\ Goes(p, "make")
                \/ Cardinality(shown) > 1 /\ Goes(p, "exit1")
                \/ shown # {} /\ shown = {Mine(p)} /\ To(p, Following(kind), IF kind = "app" THEN "assign" ELSE "find")
                \/ Cardinality(shown) = 1 /\ shown # {Mine(p)} /\ Goes(p, "exit2")
        \/ Fault /\ Goes(p, "exit3")

\* Mutant: an object is entered in the state file by the next write of it.
EntersLater(kind) == IF kind = "group" THEN "find" ELSE "save"

\* Each object is entered in the state file the moment it is made.
OnceMade(kind) == "save"

Makes(p) ==
  LET kind == run[p].kind
  IN /\ At(p, "make") /\ kind # "org" /\ Rests /\ UNCHANGED <<org, bin, assigned, state>>
     /\ \/ /\ made < MaxIds /\ made' = made + 1 /\ dir' = dir \cup {[kind |-> kind, id |-> made']} /\ old' = dir
           /\ \/ /\ Sound /\ own' = own \cup {made'} /\ blind' = (blind \/ Mine(p) \in dir \cup bin)
                 /\ run' = [run EXCEPT ![p].st[kind] = made', ![p].sent = TRUE, ![p].pc = OnceMade(kind),
                              ![p].kind = IF OnceMade(kind) = "find" THEN Following(kind) ELSE kind]
              \/ Fault /\ UNCHANGED <<own, blind>> /\ Goes(p, "exit3")
        \/ Fault /\ UNCHANGED <<made, dir, old, own, blind>> /\ (Goes(p, "exit1") \/ Goes(p, "exit3"))

\* The state file is truncated and then written.
Saves(p) ==
  /\ At(p, "save") /\ Entra /\ Counts /\ Rests /\ Sound /\ UNCHANGED org /\ state' = None /\ Goes(p, "write")

Writes(p) ==
  /\ At(p, "write") /\ Entra /\ Counts /\ Rests /\ Sound /\ UNCHANGED org /\ state' = run[p].st
  /\ To(p, Following(run[p].kind), IF run[p].kind = "app" THEN "assign" ELSE "find")

\* The group becomes the application's only assignment, one call for each that is added or removed.
Assigns(p) ==
  LET app == run[p].st.app  group == run[p].st.group
      there == \E o, g \in dir : o.id = app /\ g.id = group
      rest == {a \in assigned : a.app # app}
  IN /\ At(p, "assign") /\ Counts /\ Rests /\ UNCHANGED <<org, dir, bin, old, state>>
     /\ \/ Sound /\ there /\ assigned' = rest \cup {[app |-> app, to |-> group]} /\ Goes(p, "settings")
        \/ Sound /\ ~there /\ UNCHANGED assigned /\ (Goes(p, "exit1") \/ Goes(p, "exit3"))
        \/ /\ Fault /\ (Goes(p, "exit1") \/ Goes(p, "exit3"))
           /\ \/ UNCHANGED assigned
              \/ there /\ \E more \in SUBSET {a \in assigned : a.app = app} :
                   assigned' = rest \cup more \cup {[app |-> app, to |-> group]}

\* The sign-in settings, written to the organization and read back.
WritesSettings(p) ==
  LET there == org.id = run[p].st.org
  IN /\ At(p, "settings") /\ Entra /\ Counts /\ Rests /\ UNCHANGED state
     /\ \/ Sound /\ there /\ org' = [org EXCEPT !.key = run[p].key] /\ Goes(p, "import")
        \/ Sound /\ ~there /\ UNCHANGED org /\ Goes(p, "exit3")
        \/ /\ Fault /\ (Goes(p, "exit1") \/ Goes(p, "exit3"))
           /\ \/ UNCHANGED org
              \/ there /\ org' = [org EXCEPT !.key = run[p].key]

\* The group is imported with the member's role, unless one of that name is there.
Imports(p) ==
  LET there == org.id = run[p].st.org
  IN /\ At(p, "import") /\ Entra /\ Counts /\ Rests /\ UNCHANGED state
     /\ \/ /\ Sound /\ there /\ Goes(p, "exit0")
           /\ org' = IF org.imported = "no" THEN [org EXCEPT !.imported = "member"] ELSE org
        \/ Sound /\ ~there /\ UNCHANGED org /\ Goes(p, "exit3")
        \/ /\ Fault /\ (Goes(p, "exit1") \/ Goes(p, "exit3"))
           /\ \/ UNCHANGED org
              \/ there /\ org.imported = "no" /\ org' = [org EXCEPT !.imported = "member"]

-----------------------------------------------------------------------------
\* Mutant: the organization to delete is the one of that name.
OrgOfThatName(p) == org.id # 0

\* The organization to delete is of that name, and the one on record.
OrgIsMine(p) == org.id # 0 /\ org.id = run[p].st.org

\* The teardown asks after the organization by its name, and after each object by the id on record.
Looks(p) ==
  LET kind == run[p].kind
      mine == IF kind = "org" THEN OrgIsMine(p) ELSE Mine(p) \in dir
  IN /\ At(p, "look") /\ Entra /\ Counts /\ Rests /\ UNCHANGED <<org, state>>
     /\ \/ Sound /\ mine /\ Goes(p, "drop")
        \/ /\ Sound /\ ~mine
           /\ IF kind = "group" THEN To(p, "app", "purge") ELSE To(p, IF kind = "org" THEN "app" ELSE "group", "look")
        \/ Fault /\ Goes(p, "exit3")

\* Disabled, deleted with what it holds, and its task waited for.
DropsOrg(p) ==
  /\ At(p, "drop") /\ run[p].kind = "org" /\ Entra /\ Counts /\ Rests /\ UNCHANGED state
  /\ \/ Sound /\ OrgIsMine(p) /\ org' = NoOrg /\ To(p, "app", "look")
     \/ Sound /\ ~OrgIsMine(p) /\ UNCHANGED org /\ Goes(p, "exit3")
     \/ /\ Fault /\ (Goes(p, "exit1") \/ Goes(p, "exit3"))
        /\ UNCHANGED org \/ (OrgIsMine(p) /\ org' = NoOrg)

\* A deleted object waits in the recycle bin; its assignments go with it.
Bins(o) ==
  /\ dir' = dir \ {o} /\ bin' = bin \cup {o} /\ old' = dir
  /\ assigned' = {a \in assigned : o.id \notin {a.app, a.to}}

Drops(p) ==
  /\ At(p, "drop") /\ run[p].kind # "org" /\ Counts /\ Rests /\ UNCHANGED <<org, state>>
  /\ \/ /\ Sound /\ Mine(p) \in dir /\ Bins(Mine(p))
        /\ IF run[p].kind = "app" THEN To(p, "group", "look") ELSE To(p, "app", "purge")
     \/ Sound /\ Mine(p) \notin dir /\ Entra /\ Goes(p, "exit1")
     \/ Fault /\ (Entra \/ (Mine(p) \in dir /\ Bins(Mine(p)))) /\ (Goes(p, "exit1") \/ Goes(p, "exit3"))

\* The purge is asked for until it is done, or for three minutes, and the run goes on either way.
Purges(p) ==
  LET next == IF run[p].kind = "app" THEN To(p, "group", "purge") ELSE Goes(p, "residue")
  IN /\ At(p, "purge") /\ Counts /\ Rests /\ UNCHANGED <<org, dir, old, assigned, state>>
     /\ \/ Sound /\ bin' = bin \ {Mine(p)} /\ next
        \/ Fault /\ UNCHANGED bin /\ (next \/ Goes(p, "exit3"))

\* Mutant: an object is gone once the directory does not hold it.
GoneFromDirectory(p) == org.id = 0 /\ \A o \in dir : o.id # run[p].st[o.kind]

\* No organization of that name, and no object on record in the directory or the recycle bin.
NoResidue(p) == org.id = 0 /\ \A o \in dir \cup bin : o.id # run[p].st[o.kind]

Residue(p) ==
  /\ At(p, "residue") /\ Entra /\ Counts /\ Rests /\ UNCHANGED <<org, state>>
  /\ \/ Sound /\ Goes(p, IF NoResidue(p) THEN "exit0" ELSE "exit1")
     \/ Fault /\ (Goes(p, "exit3") \/ (~NoResidue(p) /\ Goes(p, "exit1")))

\* The process ends, for any reason the script does not expect.
Dies(p) ==
  /\ p \in Busy /\ Fault /\ run' = [run EXCEPT ![p] = Idle] /\ torn' = (torn \/ run[p].pc \in {"save", "write"})
  /\ Entra /\ Counts /\ UNCHANGED <<org, state, others>>

-----------------------------------------------------------------------------
\* Somebody who may: the organization admits its group's members, and a first sign-in makes a user under its key.
SignsIn ==
  /\ org.key # NoKey /\ org.imported # "no" /\ (\E a \in assigned : a.to # 0) /\ org.key \notin org.under
  /\ org' = [org EXCEPT !.under = @ \cup {org.key}]
  /\ Entra /\ Counts /\ Rests /\ UNCHANGED <<state, run, faults>>

\* Entra's lists answer from the present again.
Settles == old # dir /\ old' = dir /\ Rests /\ Counts /\ UNCHANGED <<org, dir, bin, assigned, state, run, faults>>

\* Somebody else makes or removes an object of one of these names, assigns somebody, or imports a group of that name.
Others ==
  /\ others < MaxOthers /\ others' = others + 1
  /\ run' = [p \in Runs |-> [run[p] EXCEPT !.alone = FALSE]]
  /\ UNCHANGED <<state, faults, own, torn, blind>>
  /\ \/ org.id = 0 /\ made < MaxIds /\ made' = made + 1 /\ org' = NewOrg(made') /\ Entra
     \/ org.id # 0 /\ org' \in {NoOrg, [org EXCEPT !.imported = "other"]} /\ UNCHANGED made /\ Entra
     \/ /\ made < MaxIds /\ made' = made + 1 /\ UNCHANGED <<org, bin, assigned>> /\ old' = dir
        /\ \E kind \in {"app", "group"} : dir' = dir \cup {[kind |-> kind, id |-> made']}
     \/ \E o \in dir : Bins(o) /\ UNCHANGED <<org, made>>
     \/ /\ \E o \in OfKind(dir, "app") : assigned' = assigned \cup {[app |-> o.id, to |-> 0]}
        /\ UNCHANGED <<org, dir, bin, old, made>>

Step(p) ==
  \/ FindsOrg(p) \/ MakesOrg(p) \/ TakesOrg(p) \/ Finds(p) \/ Makes(p) \/ Saves(p) \/ Writes(p)
  \/ Assigns(p) \/ WritesSettings(p) \/ Imports(p)
  \/ Looks(p) \/ DropsOrg(p) \/ Drops(p) \/ Purges(p) \/ Residue(p)

Next ==
  \/ \E p \in Runs : Step(p) \/ Dies(p) \/ \E k \in {NoKey} \cup Keys : Starts(p, IF k = NoKey THEN "teardown" ELSE "build", k)
  \/ SignsIn \/ Settles \/ Others

Spec == Init /\ [][Next]_vars

-----------------------------------------------------------------------------
\* "--teardown deletes only objects that state file records", "this script did not create it; choose another": whatever
\* a run deletes, purges or writes settings to is one it was told it made.
ActsOnlyOnItsOwn ==
  [][others' = others =>
       /\ \A o \in dir \cup bin : o \notin dir' \cup bin' => o.id \in own
       /\ \A o \in dir \ dir' : o.id \in own
       /\ org.id # 0 /\ <<org'.id, org'.key>> # <<org.id, org.key>> => org.id \in own]_vars

\* Wherever a run stops, an object it was told it made, and that is still there, is on record, so that a teardown can
\* remove it: unless the write of the state file was cut short, or another took its place on record.
MadeIsRecorded ==
  ~torn /\ ~blind =>
    \/ \E p \in Runs : run[p].pc \in {"save", "write"}
    \/ (org.id \in own => state.org = org.id) /\ \A o \in dir \cup bin : o.id \in own => state[o.kind] = o.id

\* "a re-run over this script's own organization keeps the protocol and key its users were made under".
KeyIsKept == [][org.id = org'.id /\ org.under # {} => org'.key = org.key]_vars

\* Exit 0, when nobody else acted: what the build says is wired is wired, and what the state file of a teardown
\* records is gone, from the recycle bin too.
ExitZeroIsTrue ==
  \A p \in Runs : run[p].alone /\ At(p, "exit0") =>
    IF run[p].mode = "teardown" THEN org.id = 0 /\ \A o \in dir \cup bin : o.id # state[o.kind]
    ELSE /\ org.id = state.org /\ org.key = run[p].key /\ org.imported # "no"
         /\ {a \in assigned : a.app = state.app} = {[app |-> state.app, to |-> state.group]}

\* "imports the group with the member-level role": and so it holds that role when a build exits 0.
\* It does not hold: a group of that name somebody imported before counts as imported, whatever its role.
MemberIsImported ==
  \A p \in Runs : run[p].alone /\ At(p, "exit0") /\ run[p].mode = "build" => org.imported = "member"

\* "2 refused by what it read ... with nothing sent".
\* It does not hold: the organization is made before the names of the group and the application are read.
RefusedSentNothing ==
  [][\A p \in Runs : ~At(p, "exit2") /\ run'[p].pc = "exit2" /\ run[p].alone => ~run[p].sent]_vars

\* "reads each object back to confirm nothing is left": an object it was told it made is gone when a teardown exits 0.
\* It does not hold: an object made because a list did not show the first one takes its place on record.
EveryMadeIsGone ==
  \A p \in Runs : run[p].alone /\ At(p, "exit0") /\ run[p].mode = "teardown" /\ ~torn =>
    \A o \in dir \cup bin : o.id \notin own
=============================================================================
