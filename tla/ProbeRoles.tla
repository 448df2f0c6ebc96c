----------------------------- MODULE ProbeRoles ------------------------------
(***************************************************************************)
(* authz.py's probe roles.  A probe makes the roles it needs, by fixed     *)
(* names, grants them for a moment on a folder of its own, and keeps them  *)
(* for the next run; a ledger beside the script names, for each vCenter,   *)
(* which role of those names is this companion's, by role id.              *)
(* --remove-probe-roles removes those and no others, --adopt-probe-role    *)
(* enters one that a run made and the ledger does not name.                *)
(*                                                                         *)
(* Others make, change, remove and grant roles meanwhile, of the same      *)
(* names too.  vCenter numbers its roles itself, so one id may be a        *)
(* different role on another vCenter.                                      *)
(***************************************************************************)
EXTENDS Integers, FiniteSets

CONSTANTS
  VCs, Names, Runs,
  Together,      \* runs at a time
  MaxRoles,      \* roles made on one vCenter
  MaxFaults,     \* calls that raise, with or without their effect; a ledger that is not written; deaths
  MaxOthers      \* acts of somebody else

VARIABLES
  roles,         \* fits: the role holds the privileges its name declares
  grants,        \* who holds a role: the subject, on the folder of a run or on one that was left, or somebody elsewhere
  ledger,
  run,
  numbered,      \* roles made so far on each vCenter
  faults, others,
  own,           \* history: the roles a run was told it made, or adopted
  torn           \* history: a role was made and the ledger not written

vars == <<roles, grants, ledger, run, numbered, faults, others, own, torn>>

Role == [vc : VCs, name : Names, id : 1 .. MaxRoles, fits : BOOLEAN]
Grant == [vc : VCs, id : 1 .. MaxRoles, on : Runs \cup {"left", "elsewhere"}]
Entry == [vc : VCs, name : Names, id : 1 .. MaxRoles]
EntryOf(r) == [vc |-> r.vc, name |-> r.name, id |-> r.id]
NoRole == [vc |-> CHOOSE v \in VCs : TRUE, name |-> CHOOSE n \in Names : TRUE, id |-> 0, fits |-> FALSE]

Exits == {"exit0", "exit2", "exit3", "exit5"}
Rest == {"idle"} \cup Exits
ProbeSteps == {"look", "plan", "presave", "ensure", "record", "folder", "cases", "measured", "destroy", "residue"}
RemoveSteps == {"host", "refuse", "drop", "forget"}

\* What one run knows.  led: the ledger as it loaded it; need: the names it still has to ensure; listed: the role
\* list it read; ids: the roles it may grant; new: the role it made or adopts; hosts: the vCenters to go;
\* held: a finding that ends in exit 2; unread: one that ends in exit 3; alone: nobody else has acted meanwhile.
Idle == [pc |-> "idle", mode |-> "probe", vc |-> NoRole.vc, led |-> {}, need |-> {}, listed |-> {}, ids |-> {},
         new |-> NoRole, hosts |-> {}, held |-> FALSE, unread |-> FALSE, alone |-> FALSE]

TypeOK ==
  /\ roles \subseteq Role /\ grants \subseteq Grant /\ ledger \subseteq Entry
  /\ run \in [Runs -> [pc : Rest \cup ProbeSteps \cup RemoveSteps \cup {"claim"}, mode : {"probe", "remove", "adopt"},
                       vc : VCs, led : SUBSET Entry, need : SUBSET Names, listed : SUBSET Role,
                       ids : SUBSET (1 .. MaxRoles), new : Role \cup {NoRole}, hosts : SUBSET VCs,
                       held : BOOLEAN, unread : BOOLEAN, alone : BOOLEAN]]
  /\ numbered \in [VCs -> 0 .. MaxRoles] /\ faults \in 0 .. MaxFaults /\ others \in 0 .. MaxOthers
  /\ own \subseteq [vc : VCs, id : 1 .. MaxRoles] /\ torn \in BOOLEAN
  \* The ledger names one role of a name on a vCenter, and so does the vCenter; a grant is of a role that is there.
  /\ \A e, f \in ledger : e.vc = f.vc /\ e.name = f.name => e = f
  /\ \A r, s \in roles : r.vc = s.vc /\ (r.name = s.name \/ r.id = s.id) => r = s
  /\ \A g \in grants : \E r \in roles : r.vc = g.vc /\ r.id = g.id

Init ==
  /\ roles = {} /\ grants = {} /\ ledger = {} /\ run = [p \in Runs |-> Idle] /\ numbered = [v \in VCs |-> 0]
  /\ faults = 0 /\ others = 0 /\ own = {} /\ torn = FALSE

-----------------------------------------------------------------------------
At(p, pc) == run[p].pc = pc
Busy == {p \in Runs : run[p].pc \notin Rest}
Fault == faults < MaxFaults /\ faults' = faults + 1
Sound == UNCHANGED faults
Goes(p, pc) == run' = [run EXCEPT ![p].pc = pc]
Knows(p, known) == run' = [run EXCEPT ![p] = known]
VCenter == UNCHANGED <<roles, grants, numbered>>
Rests == UNCHANGED <<others, own, torn>>
On(v) == {r \in roles : r.vc = v}

\* Mutant: the ledger's ids are read on any vCenter.
OursAnywhere(led, v) == led

\* The ledger's roles on one vCenter.
Ours(led, v) == {e \in led : e.vc = v}

\* Mutant: a role is the ledger's by its name.
NamedAsOurs(led, v, set) == {r \in set : \E e \in Ours(led, v) : e.name = r.name}

\* The listed roles that are the ledger's: under that name with that id.
Counted(led, v, set) == {r \in set : \E e \in Ours(led, v) : e.name = r.name /\ e.id = r.id}

\* Grants of the ledger's roles to anyone.
GrantsOfOurs(led, v) == {g \in grants : g.vc = v /\ \E r \in Counted(led, v, On(v)) : r.id = g.id}

Starts(p, m) ==
  /\ run[p].pc \in Rest /\ Cardinality(Busy) < Together
  /\ \E k \in
       CASE m = "probe" -> [pc : {"look"}, vc : VCs, need : (SUBSET Names) \ {{}}, new : {NoRole}, hosts : {{}}]
         [] m = "remove" -> [pc : {"host"}, vc : {NoRole.vc}, need : {{}}, new : {NoRole}, hosts : (SUBSET VCs) \ {{}}]
         [] OTHER -> [pc : {"claim"}, vc : VCs, need : {{}}, new : roles, hosts : {{}}] :
       /\ m = "adopt" => k.vc = k.new.vc
       /\ run' = [q \in Runs |->
            IF q = p THEN [Idle EXCEPT !.pc = k.pc, !.mode = m, !.vc = k.vc, !.need = k.need, !.new = k.new,
                                       !.hosts = k.hosts, !.led = ledger, !.alone = Busy = {}]
            ELSE [run[q] EXCEPT !.alone = FALSE]]
  /\ UNCHANGED <<roles, grants, ledger, numbered, faults, others, own, torn>>

-----------------------------------------------------------------------------
\* The probe.  What stops it goes to the residue read, which every probe ends with.
Aborts(p) == Knows(p, [run[p] EXCEPT !.pc = "residue", !.unread = TRUE])

\* A ledger role somebody holds already: nothing is sent.
Looks(p) ==
  /\ At(p, "look") /\ VCenter /\ Rests /\ UNCHANGED ledger
  /\ \/ Sound /\ GrantsOfOurs(run[p].led, run[p].vc) # {} /\ Aborts(p)
     \/ Sound /\ GrantsOfOurs(run[p].led, run[p].vc) = {} /\ Goes(p, "plan")
     \/ Fault /\ Aborts(p)

\* Every role is planned before any is sent: one that carries a needed name and is not the ledger's stops the probe.
Plans(p) ==
  LET named == {r \in On(run[p].vc) : r.name \in run[p].need}
  IN /\ At(p, "plan") /\ VCenter /\ Rests /\ UNCHANGED ledger
     /\ \/ Sound /\ named # Counted(run[p].led, run[p].vc, named) /\ Aborts(p)
        \/ /\ Sound /\ named = Counted(run[p].led, run[p].vc, named)
           /\ Knows(p, [run[p] EXCEPT !.listed = named,
                          !.pc = IF \A n \in run[p].need : \E r \in named : r.name = n THEN "ensure" ELSE "presave"])
        \/ Fault /\ Aborts(p)

\* The ledger is written once before the first create, so that one that cannot be written stops the probe here.
Presaves(p) ==
  /\ At(p, "presave") /\ VCenter /\ Rests
  /\ \/ Sound /\ ledger' = run[p].led /\ Goes(p, "ensure")
     \/ Fault /\ UNCHANGED ledger /\ Aborts(p)

\* Mutant: the roles are entered in the ledger by the next write of it.
EntersLater(p) == "ensure"

\* What follows a create: the role is entered in the ledger the moment it is made.
OnceMade(p) == "record"

\* A role no role carries the name of.
Makes(p, n) ==
  LET v == run[p].vc  i == numbered[v] + 1  r == [vc |-> v, name |-> n, id |-> i, fits |-> TRUE]
  IN /\ ~\E s \in run[p].listed : s.name = n
     /\ \/ /\ ~\E s \in On(v) : s.name = n
           /\ i <= MaxRoles /\ roles' = roles \cup {r} /\ numbered' = [numbered EXCEPT ![v] = i]
           /\ \/ /\ Sound /\ own' = own \cup {[vc |-> v, id |-> i]}
                 /\ Knows(p, [run[p] EXCEPT !.pc = OnceMade(p), !.new = r, !.need = @ \ {n}, !.ids = @ \cup {i}])
              \/ Fault /\ UNCHANGED own /\ Aborts(p)
        \/ Sound /\ (\E s \in On(v) : s.name = n) /\ UNCHANGED <<roles, numbered, own>> /\ Aborts(p)
        \/ Fault /\ UNCHANGED <<roles, numbered, own>> /\ Aborts(p)

\* A role of the ledger is reused, and given its privileges back, by its id, if the list showed others.
Reconciles(p, n) ==
  /\ UNCHANGED <<numbered, own>>
  /\ \E r \in run[p].listed :
       LET there == \E s \in On(r.vc) : s.id = r.id
           fitted == {IF s.vc = r.vc /\ s.id = r.id THEN [s EXCEPT !.fits = TRUE] ELSE s : s \in roles}
       IN /\ r.name = n
          /\ \/ /\ Sound /\ (r.fits \/ there)
                /\ roles' = IF r.fits THEN roles ELSE fitted
                /\ Knows(p, [run[p] EXCEPT !.need = @ \ {n}, !.ids = @ \cup {r.id}])
             \/ Sound /\ ~r.fits /\ ~there /\ UNCHANGED roles /\ Aborts(p)
             \/ Fault /\ ~r.fits /\ roles' \in {roles, fitted} /\ Aborts(p)

Ensures(p) ==
  /\ At(p, "ensure") /\ UNCHANGED <<grants, ledger, others, torn>>
  /\ \/ run[p].need = {} /\ Sound /\ UNCHANGED <<roles, numbered, own>> /\ Goes(p, "folder")
     \/ \E n \in run[p].need : Makes(p, n) \/ Reconciles(p, n)

\* Mutant: the entry is added to the ones of that name.
EntersBeside(led, new) == led \cup {new}

\* One entry, in place of any other of that name on that vCenter.
Enters(led, new) == {e \in led : e.vc # new.vc \/ e.name # new.name} \cup {new}

\* The file is replaced whole by what this run loaded, with the entry.
Records(p) ==
  LET led == Enters(run[p].led, EntryOf(run[p].new))
  IN /\ At(p, "record") /\ VCenter /\ UNCHANGED <<others, own>>
     /\ \/ /\ Sound /\ ledger' = led /\ UNCHANGED torn
           /\ Knows(p, [run[p] EXCEPT !.led = led, !.pc = IF run[p].mode = "probe" THEN "ensure" ELSE "exit0"])
        \/ /\ Fault /\ UNCHANGED ledger /\ torn' = TRUE
           /\ IF run[p].mode = "probe" THEN Aborts(p) ELSE Goes(p, "exit3")

\* The folder; one whose create got no answer may be there all the same, and the residue read looks for it by name.
Folder(p) ==
  /\ At(p, "folder") /\ VCenter /\ Rests /\ UNCHANGED ledger
  /\ \/ Sound /\ Goes(p, "cases")
     \/ Fault /\ \E made \in BOOLEAN : Knows(p, [run[p] EXCEPT !.pc = "residue", !.unread = TRUE, !.held = made])

\* What stops the probe from here on goes by the delete of the folder.
Stops(p) == Knows(p, [run[p] EXCEPT !.pc = "destroy", !.unread = TRUE])

\* A case: a role is granted on the folder, measured, and taken back whatever the measurement did.
Grants(p) ==
  /\ At(p, "cases") /\ Rests /\ UNCHANGED <<roles, ledger, numbered>>
  /\ \/ Sound /\ UNCHANGED grants /\ Goes(p, "destroy")
     \/ \E i \in run[p].ids :
          IF \E r \in On(run[p].vc) : r.id = i
          THEN /\ grants' = grants \cup {[vc |-> run[p].vc, id |-> i, on |-> p]}
               /\ (Sound /\ Goes(p, "measured")) \/ (Fault /\ Stops(p))
          ELSE Sound /\ UNCHANGED grants /\ Stops(p)
     \/ Fault /\ UNCHANGED grants /\ Stops(p)

TakesBack(p) ==
  /\ At(p, "measured") /\ Rests /\ UNCHANGED <<roles, ledger, numbered>>
  /\ \/ /\ Sound /\ grants' = {g \in grants : g.on # p}
        /\ Goes(p, "cases") \/ Stops(p)
     \/ Fault /\ UNCHANGED grants /\ Stops(p)

Left(p) == {IF g.on = p THEN [g EXCEPT !.on = "left"] ELSE g : g \in grants}

\* The folder goes, and the grants left on it with it; or it stays with them.
Destroys(p) ==
  /\ At(p, "destroy") /\ Rests /\ UNCHANGED <<roles, ledger, numbered>>
  /\ \/ Sound /\ grants' = {g \in grants : g.on # p} /\ Goes(p, "residue")
     \/ Fault /\ grants' = Left(p) /\ Knows(p, [run[p] EXCEPT !.pc = "residue", !.held = TRUE])

\* The folder is looked for and the grants of the ledger's roles are counted; what could not be read is no clean run.
Residue(p) ==
  LET found == run[p].held \/ GrantsOfOurs(run[p].led, run[p].vc) # {}
  IN /\ At(p, "residue") /\ VCenter /\ Rests /\ UNCHANGED ledger
     /\ \/ Sound /\ Goes(p, IF found THEN "exit2" ELSE IF run[p].unread THEN "exit3" ELSE "exit0")
        \/ Fault /\ \E code \in {"exit2", "exit3"} : (code = "exit2" => found) /\ Goes(p, code)

-----------------------------------------------------------------------------
\* The removal, one vCenter after another with the ledger it loaded first.
NextHost(p) ==
  /\ At(p, "host") /\ VCenter /\ Rests /\ Sound /\ UNCHANGED ledger
  /\ \/ /\ run[p].hosts = {}
        /\ Goes(p, IF run[p].held THEN "exit2" ELSE IF run[p].unread THEN "exit3" ELSE "exit0")
     \/ \E v \in run[p].hosts : Knows(p, [run[p] EXCEPT !.hosts = @ \ {v}, !.vc = v, !.pc = "refuse"])

\* Mutant: the removal is not refused for grants of the roles.
RemovesGranted(p) == TRUE

\* A removal takes a role's grants with it, so none of the ledger's roles may be granted to anyone.
Ungranted(p) == GrantsOfOurs(run[p].led, run[p].vc) = {}

\* The roles to remove are fixed here; a role of these names that is not the ledger's is kept, and reported.
Refuses(p) ==
  LET v == run[p].vc  mine == Counted(run[p].led, v, On(v))  held == run[p].held \/ On(v) # mine
  IN /\ At(p, "refuse") /\ VCenter /\ Rests /\ UNCHANGED ledger
     /\ \/ Sound /\ ~Ungranted(p) /\ Knows(p, [run[p] EXCEPT !.pc = "host", !.held = TRUE])
        \/ /\ Sound /\ Ungranted(p)
           /\ Knows(p, [run[p] EXCEPT !.listed = On(v), !.ids = {r.id : r \in mine}, !.held = held,
                                      !.pc = IF mine = {} THEN "forget" ELSE "drop"])
        \/ Fault /\ Knows(p, [run[p] EXCEPT !.pc = "host", !.unread = TRUE])

\* One role by its id, with every grant of it; an error ends the removals, an answer without effect does not.
Drops(p) ==
  /\ At(p, "drop") /\ Rests /\ UNCHANGED <<ledger, numbered>>
  /\ \E i \in run[p].ids :
       LET left == [run[p] EXCEPT !.ids = @ \ {i}, !.pc = IF run[p].ids = {i} THEN "forget" ELSE "drop"]
           stopped == [run[p] EXCEPT !.pc = "forget", !.unread = TRUE]
           there == \E r \in On(run[p].vc) : r.id = i
       IN \/ /\ there /\ ((Sound /\ Knows(p, left)) \/ (Fault /\ Knows(p, stopped)))
             /\ roles' = {r \in roles : r.vc # run[p].vc \/ r.id # i}
             /\ grants' = {g \in grants : g.vc # run[p].vc \/ g.id # i}
          \/ Sound /\ ~there /\ UNCHANGED <<roles, grants>> /\ Knows(p, stopped)
          \/ Fault /\ UNCHANGED <<roles, grants>> /\ (Knows(p, left) \/ Knows(p, stopped))

\* The role list is read back, and the ledger forgets the roles a read showed gone.
Forgets(p) ==
  LET v == run[p].vc
      mine == Ours(run[p].led, v)
      gone == {e \in mine : (\A r \in run[p].listed : EntryOf(r) # e) \/ \A r \in On(v) : r.id # e.id}
      left == {e \in mine : (\E r \in run[p].listed : EntryOf(r) = e) /\ \E r \in On(v) : r.id = e.id}
      knows == [run[p] EXCEPT !.pc = "host", !.held = @ \/ left # {}, !.led = @ \ gone]
  IN /\ At(p, "forget") /\ VCenter /\ Rests
     /\ \/ Sound /\ ledger' = (IF gone = {} THEN ledger ELSE run[p].led \ gone) /\ Knows(p, knows)
        \/ /\ Fault /\ ledger' \in {ledger, IF gone = {} THEN ledger ELSE run[p].led \ gone}
           /\ Knows(p, [knows EXCEPT !.unread = TRUE])
        \/ Fault /\ UNCHANGED ledger /\ Knows(p, [run[p] EXCEPT !.pc = "host", !.unread = TRUE])

-----------------------------------------------------------------------------
\* The adoption: listed under that name with that id, and holding what the name declares.
Claims(p) ==
  /\ At(p, "claim") /\ VCenter /\ UNCHANGED <<ledger, others, torn>>
  /\ \/ /\ Sound /\ run[p].new \in roles /\ run[p].new.fits
        /\ own' = own \cup {[vc |-> run[p].vc, id |-> run[p].new.id]}
        /\ Knows(p, [run[p] EXCEPT !.led = ledger,
                       !.pc = IF EntryOf(run[p].new) \in ledger THEN "exit0" ELSE "record"])
     \/ Sound /\ ~(run[p].new \in roles /\ run[p].new.fits) /\ UNCHANGED own /\ Goes(p, "exit5")
     \/ Fault /\ UNCHANGED own /\ Goes(p, "exit3")

\* The process ends, for any reason the script does not expect.
Dies(p) ==
  /\ p \in Busy /\ Fault /\ run' = [run EXCEPT ![p] = Idle] /\ torn' = (torn \/ At(p, "record"))
  /\ grants' = Left(p) /\ UNCHANGED <<roles, ledger, numbered, others, own>>

-----------------------------------------------------------------------------
\* Somebody else: a role of one of the names made, changed, granted, ungranted or removed.
Others ==
  /\ others < MaxOthers /\ others' = others + 1
  /\ run' = [p \in Runs |-> [run[p] EXCEPT !.alone = FALSE]]
  /\ UNCHANGED <<ledger, faults, own, torn>>
  /\ \/ \E v \in VCs, n \in Names, fits \in BOOLEAN :
          /\ (\A r \in On(v) : r.name # n) /\ numbered[v] < MaxRoles
          /\ numbered' = [numbered EXCEPT ![v] = @ + 1]
          /\ roles' = roles \cup {[vc |-> v, name |-> n, id |-> numbered'[v], fits |-> fits]} /\ UNCHANGED grants
     \/ \E r \in roles :
          /\ UNCHANGED numbered
          /\ \/ roles' = (roles \ {r}) \cup {[r EXCEPT !.fits = ~@]} /\ UNCHANGED grants
             \/ /\ roles' = roles \ {r} /\ grants' = {g \in grants : g.vc # r.vc \/ g.id # r.id}
             \/ UNCHANGED roles /\ grants' = grants \cup {[vc |-> r.vc, id |-> r.id, on |-> "elsewhere"]}
     \/ \E g \in grants : grants' = grants \ {g} /\ UNCHANGED <<roles, numbered>>

Step(p) ==
  \/ Looks(p) \/ Plans(p) \/ Presaves(p) \/ Ensures(p) \/ Records(p) \/ Folder(p) \/ Grants(p)
  \/ TakesBack(p) \/ Destroys(p) \/ Residue(p) \/ NextHost(p) \/ Refuses(p) \/ Drops(p) \/ Forgets(p) \/ Claims(p)

Next ==
  \/ \E p \in Runs : Step(p) \/ Dies(p) \/ \E m \in {"probe", "remove", "adopt"} : Starts(p, m)
  \/ Others

Spec == Init /\ [][Next]_vars

-----------------------------------------------------------------------------
\* "the probes reuse, and --remove-probe-roles removes, only these": a role a run changes or removes is one it was
\* told it made, or adopted, on that vCenter, whatever carries the name since.
ActsOnlyOnItsOwn ==
  [][\A p \in Runs : run[p].pc \in {"ensure", "drop"} /\ run'[p] # run[p] /\ others' = others =>
       \A r \in roles \ roles' : [vc |-> r.vc, id |-> r.id] \in own]_vars

\* "created and recorded in the ledger the moment it is made": wherever a run stops, a role it was told it made is in
\* the ledger while it exists, unless that write of the ledger failed.
MadeIsRecorded ==
  \A r \in roles : [vc |-> r.vc, id |-> r.id] \in own /\ ~torn =>
    \/ EntryOf(r) \in ledger
    \/ \E p \in Runs : At(p, "record") /\ EntryOf(run[p].new) = EntryOf(r)

\* "a grant of one of the ledger's roles to anyone else is refused first": a removal takes nobody's access, when
\* nobody grants a role while it runs.
RemovalTakesNoAccess ==
  [][\A p \in Runs : At(p, "drop") /\ run'[p] # run[p] /\ run[p].alone /\ others' = others =>
       {g \in grants : g.on = "elsewhere"} \subseteq grants']_vars

\* Exit 0, when nobody else acted: no grant of a ledger role is left by a probe; after a removal no role carries one of
\* the names, and the ledger names none there.
ExitZeroIsTrue ==
  \A p \in Runs : run[p].alone /\ At(p, "exit0") =>
    /\ run[p].mode = "probe" => GrantsOfOurs(ledger, run[p].vc) = {} /\ \A g \in grants : g.on # p
    /\ run[p].mode = "remove" => On(run[p].vc) = {} /\ Ours(ledger, run[p].vc) = {}

\* "removing the role would remove those grants with it, so nothing was sent": the same for every removal.
\* It does not hold: the grants are read once, before the first of the removals.
RemovalNeverTakesAccess ==
  [][\A p \in Runs : At(p, "drop") /\ run'[p] # run[p] /\ others' = others =>
       {g \in grants : g.on = "elsewhere"} \subseteq grants']_vars
=============================================================================
