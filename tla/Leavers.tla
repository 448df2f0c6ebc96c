------------------------------ MODULE Leavers ------------------------------
(***************************************************************************)
(* handbook/identity-lifecycle/leavers.py: a run reads who has left at     *)
(* Entra, reads every open leaver again, and closes the confirmed ones:    *)
(* it revokes each token, disables the account by a round trip of its      *)
(* record and reads both back.  Meanwhile people come and go, Graph        *)
(* answers from before a change for a while, accounts mint tokens,         *)
(* administrators edit roles, and any call may be refused.                 *)
(***************************************************************************)
EXTENDS LeaverRule

CONSTANTS
  Accounts, Federated,    \* the organization's accounts; those that sign in through Entra
  Tokens,
  Standings,              \* what Entra may hold of a person: [present, direct, nested, chosen]
  Gates,                  \* the gates the organization may have
  Starts,                 \* the accounts, tokens and people to begin with: [account, token, entra]
  ConfirmReads, Settle,   \* CONFIRM_READS; for how many of its pauses Graph may answer from before a change
  MaxLeavers,             \* MAX_LEAVERS
  Nobody,
  MaxOthers, MaxFaults    \* bounds: acts of other people, refused calls and crashes

Record == [enabled : BOOLEAN, role : BOOLEAN, email : BOOLEAN]   \* email: one the platform refuses on update

\* The people are read more than once, and Graph has settled before the last read.  A token has one owner.
ASSUME LeaversAssumption ==
  /\ Federated \subseteq Accounts
  /\ {ConfirmReads, Settle, MaxLeavers, MaxOthers, MaxFaults} \subseteq Nat
  /\ Nobody \notin Accounts
  /\ 0 < Settle /\ Settle < ConfirmReads
  /\ \A p \in Standings : p.chosen \in BOOLEAN
  /\ \A s \in Starts :
       /\ s.account \in [Accounts -> Record] /\ s.entra \in [Accounts -> Standings]
       /\ s.token \in [Accounts -> SUBSET Tokens]
       /\ \A a, b \in Accounts : a # b => s.token[a] \cap s.token[b] = {}

VARIABLES
  account,    \* the platform's record of each account
  token,      \* the tokens each account owns
  entra,      \* the directory as it stands
  old, lag,   \* what of an account's person Graph may still answer, and for how many pauses
  gate,
  run,        \* the run of leavers.py
  others, faults

vars == <<account, token, entra, old, lag, gate, run, others, faults>>

Modes == {"report", "execute", "user", "close-now"}
NoExit == -1
Stages == {"idle", "confirm", "pause", "next", "get", "revoke", "put", "clear", "back", "left"}

TypeOK ==
  /\ account \in [Accounts -> Record] /\ token \in [Accounts -> SUBSET Tokens]
  /\ \A a, b \in Accounts : a # b => token[a] \cap token[b] = {}
  /\ entra \in [Accounts -> Standings] /\ old \in [Accounts -> SUBSET Standings] /\ lag \in [Accounts -> 0 .. Settle]
  /\ gate \in Gates
  /\ run.pc \in Stages /\ run.mode \in Modes /\ run.round \in 0 .. ConfirmReads
  /\ run.users \in [Accounts -> Record] /\ run.before \in Record
  /\ run.mine \in [Accounts -> SUBSET Tokens] /\ run.revoking \subseteq Tokens /\ run.clean \in BOOLEAN
  /\ run.decision \in [Accounts -> Decisions] /\ run.chosen \in [Accounts -> BOOLEAN]
  /\ {run.pending, run.todo, run.stayed, run.moved, run.gone} \subseteq SUBSET Federated
  /\ run.result \in [Accounts -> {"none", "held", "not held"}] /\ {run.exit, run.rest} \subseteq {NoExit} \cup 0 .. 4
  /\ run.cur \in Federated \cup {Nobody}
  /\ run.pc \in {"get", "revoke", "put", "clear", "back", "left"} => run.cur \in Federated
  /\ others \in 0 .. MaxOthers /\ faults \in 0 .. MaxFaults

\* Between two runs.  rest: the exit if no close fails.
Blank == [enabled |-> TRUE, role |-> FALSE, email |-> FALSE]
Resting(result, exit, gone) ==
  [pc |-> "idle", mode |-> "report", round |-> 0, cur |-> Nobody, users |-> [a \in Accounts |-> Blank],
   mine |-> [a \in Accounts |-> {}], decision |-> [a \in Accounts |-> "out of scope"],
   chosen |-> [a \in Accounts |-> FALSE], pending |-> {}, todo |-> {}, before |-> Blank, revoking |-> {}, clean |-> TRUE,
   result |-> result, exit |-> exit, rest |-> NoExit, stayed |-> {}, moved |-> {}, gone |-> gone]
Unrun == [a \in Accounts |-> "none"]

Init ==
  /\ \E s \in Starts : account = s.account /\ token = s.token /\ entra = s.entra
  /\ old = [a \in Accounts |-> {}] /\ lag = [a \in Accounts |-> 0] /\ gate \in Gates
  /\ run = Resting(Unrun, NoExit, {})
  /\ others = 0 /\ faults = 0

Acted == others < MaxOthers /\ others' = others + 1 /\ UNCHANGED faults
Fails == faults < MaxFaults /\ faults' = faults + 1 /\ UNCHANGED others
Saves == UNCHANGED <<others, faults>>

-----------------------------------------------------------------------------
(* Everybody else. *)

\* The rule as the module's header states it: a sign-in passes Entra's gate and the platform's.
SignsIn(a) ==
  LET p == entra[a]
      carried == {g \in gate.imported : IF gate.claims = "ApplicationGroup" THEN g \in gate.assigned /\ g \in p.direct
                                        ELSE g \in p.nested}
  IN  /\ p.present = "enabled"
      /\ ~gate.required \/ p.chosen \/ \E g \in p.direct : g \in gate.assigned
      /\ carried # {} \/ account[a].role

\* stayed, gone: who could sign in, and who could not, when the run began, with nothing of them changed since.
Touched(a) == run' = [run EXCEPT !.stayed = @ \ {a}, !.gone = @ \ {a}]

Moves(a) ==
  /\ Acted
  /\ \E p \in Standings \ {entra[a]} : entra' = [entra EXCEPT ![a] = p]
  /\ old' = [old EXCEPT ![a] = @ \cup {entra[a]}] /\ lag' = [lag EXCEPT ![a] = Settle]
  /\ Touched(a) /\ UNCHANGED <<account, token, gate>>

Settles(a) ==
  /\ old[a] # {} /\ old' = [old EXCEPT ![a] = {}] /\ lag' = [lag EXCEPT ![a] = 0]
  /\ UNCHANGED <<account, token, entra, gate, run, others, faults>>

Mints(a) ==
  /\ Acted /\ account[a].enabled
  /\ \E t \in Tokens : /\ \A b \in Accounts : t \notin token[b]
                       /\ token' = [token EXCEPT ![a] = @ \cup {t}]
  /\ UNCHANGED <<account, entra, old, lag, gate, run>>

\* An administrator grants or takes away a direct role.
Edits(a) ==
  /\ Acted /\ account' = [account EXCEPT ![a].role = ~@] /\ Touched(a)
  /\ UNCHANGED <<token, entra, old, lag, gate>>

-----------------------------------------------------------------------------
(* Reading and judging. *)

Here == UNCHANGED <<account, token, entra, gate>>
Looks == Here /\ UNCHANGED <<old, lag>>
At(pc) == run.pc = pc

Seen(a) == {entra[a]} \cup old[a]
Views == {v \in [Federated -> UNION {Seen(a) : a \in Federated}] : \A a \in Federated : v[a] \in Seen(a)}

\* One round's judgement: the person and the nested groups are read apart from the groups' direct members.
Judged(person, groups, chosen, refused) ==
  [a \in Accounts |-> IF a \in refused THEN "undetermined"
                      ELSE Decide(a \in Federated, person[a].present, groups[a].direct, person[a].nested,
                                  chosen[a], run.users[a].role, gate)]

OpenOnes(decision) == {a \in Federated : Open(decision[a], run.users[a].enabled, run.mine[a])}

\* The lists of a run; a refused one ends it.
Begins(mode, a) ==
  /\ At("idle")
  /\ \/ Fails /\ run' = Resting(Unrun, 3, {})
     \/ /\ Saves
        /\ IF mode = "close-now"
           THEN run' = [Resting(Unrun, NoExit, {}) EXCEPT !.pc = "get", !.mode = mode, !.cur = a, !.mine[a] = token[a], !.rest = 0]
           ELSE run' = [Resting(Unrun, NoExit, {b \in Federated : ~SignsIn(b) /\ old[b] = {}}) EXCEPT
                          !.pc = "confirm", !.mode = mode, !.cur = a, !.users = account, !.mine = token,
                          !.stayed = {b \in Federated : SignsIn(b)},
                          !.moved = {b \in Federated : \E p \in old[b] : p.chosen # entra[b].chosen}]
  /\ Looks

Reports == Begins("report", Nobody)
Executes == Begins("execute", Nobody)
ExecutesOn(a) == a \in Federated /\ Begins("user", a)

\* Mutant: the plan takes any account.
ClosesAny(a) == Begins("close-now", a)

ClosesNow(a) == a \in Federated /\ Begins("close-now", a)   \* any other account is refused at the plan

\* Mutant: an account nobody could judge no longer counts.
RestHidesUnread(decision, opened) ==
  Exit(FALSE, opened # {}, FALSE, \E a \in Federated : run.users[a].role)

\* What a run says of itself if every close holds.
Rest(decision, opened) ==
  Exit(FALSE, opened # {}, \E a \in Federated : decision[a] = "undetermined",
       \E a \in Federated : run.users[a].role \/ (~run.users[a].enabled /\ decision[a] = "keep"))

\* The guard, and what is done with each open leaver.
Acts(decision) ==
  LET opened == OpenOnes(decision)
      mayClose == IF Guard(Cardinality(opened), Cardinality(Federated), MaxLeavers) THEN {}
                  ELSE CASE run.mode = "report" -> {} [] run.mode = "user" -> opened \cap {run.cur} [] OTHER -> opened
  IN  run' = [Resting(Unrun, NoExit, run.gone) EXCEPT
                !.pc = "next", !.mode = run.mode, !.todo = mayClose, !.rest = Rest(decision, opened \ mayClose),
                !.mine = [a \in Accounts |-> IF a \in mayClose THEN run.mine[a] ELSE {}],
                !.stayed = run.stayed \cap mayClose, !.moved = run.moved \cap mayClose]

After(decision, chosen) ==
  IF OpenOnes(decision) = {} THEN Acts(decision)
  ELSE run' = [run EXCEPT !.round = 1, !.decision = decision, !.chosen = chosen, !.pending = OpenOnes(decision)]

\* In a round, at most one account's read is refused.
Refused(who) == {{}} \cup {{a} : a \in who}
Pays(refused) == IF refused = {} THEN Saves ELSE Fails

\* Round 0 reads both gates and judges everybody.
FirstRead ==
  /\ At("confirm") /\ run.round = 0
  /\ \/ \E person, groups, assigned \in Views, refused \in Refused(Federated) :
          /\ Pays(refused)
          /\ LET chosen == [a \in Accounts |-> a \in Federated /\ assigned[a].chosen]
                 found == [a \in Federated |-> IF a \in refused THEN "unread" ELSE person[a].present]
             IN  After(Unfound(Judged(person, groups, chosen, refused), found, Federated), chosen)
     \/ Fails /\ Acts([a \in Accounts |-> IF a \in Federated THEN "undetermined" ELSE "out of scope"])
  /\ Looks

\* Mutant: one read that says leaver is enough.
ConfirmsOnce == At("confirm") /\ run.round > 0 /\ Saves /\ Acts(run.decision) /\ Looks

\* A later round reads the groups' members and the people afresh, on the assignments of the first read.
Confirms ==
  /\ At("confirm") /\ run.round > 0
  /\ \E person, groups \in Views, refused \in Refused(run.pending) :
       /\ Pays(refused)
       /\ LET judged == Judged(person, groups, run.chosen, refused)
              decision == [a \in Accounts |-> IF a \in run.pending /\ judged[a] # "leaver" THEN "undetermined"
                                              ELSE run.decision[a]]
          IN  IF run.round = ConfirmReads THEN Acts(decision)
              ELSE run' = [run EXCEPT !.pc = "pause", !.round = @ + 1, !.decision = decision]
  /\ Looks

Pauses ==
  /\ At("pause") /\ run' = [run EXCEPT !.pc = "confirm"] /\ Here /\ Saves
  /\ lag' = [a \in Accounts |-> IF lag[a] > 0 THEN lag[a] - 1 ELSE 0]
  /\ old' = [a \in Accounts |-> IF lag'[a] = 0 THEN {} ELSE old[a]]

-----------------------------------------------------------------------------
(* Closing. *)

Cur == run.cur
Goes(pc) == run' = [run EXCEPT !.pc = pc]
Looked == Looks /\ Saves
Disabled(r) == [r EXCEPT !.enabled = FALSE]

NextClose ==
  /\ At("next")
  /\ IF run.todo = {}
     THEN run' = Resting(run.result, IF \E a \in Accounts : run.result[a] = "not held" THEN 2 ELSE run.rest, run.gone)
     ELSE \E a \in run.todo : run' = [run EXCEPT !.pc = "get", !.cur = a, !.todo = @ \ {a}]
  /\ Looked

NotHeld == run' = [run EXCEPT !.pc = "next", !.result[Cur] = "not held"]
Refuses(pc) == At(pc) /\ Fails /\ NotHeld /\ Looks

Gets ==
  \/ Refuses("get")
  \/ At("get") /\ Looked
     /\ run' = [run EXCEPT !.pc = "revoke", !.before = account[Cur], !.revoking = run.mine[Cur], !.clean = TRUE]

\* The tokens of the run's own list; a refused one does not stop the rest.
Revokes ==
  /\ At("revoke") /\ run.revoking # {}
  /\ \E t \in run.revoking :
       \/ /\ Saves /\ token' = [token EXCEPT ![Cur] = @ \ {t}]
          /\ run' = [run EXCEPT !.revoking = @ \ {t}, !.clean = @ /\ t \in token[Cur]]
       \/ /\ Fails /\ UNCHANGED token
          /\ run' = [run EXCEPT !.revoking = @ \ {t}, !.clean = FALSE]
  /\ UNCHANGED <<account, entra, old, lag, gate>>

Revoked ==
  /\ At("revoke") /\ run.revoking = {} /\ Goes(IF run.before.enabled THEN "put" ELSE "back") /\ Looked

\* The record that was read goes back with enabled false, and with the email cleared if it was that which was
\* refused.  A write whose answer is lost is refused to the run and lands all the same.
Puts(pc, record) ==
  /\ At(pc)
  /\ \/ record.email /\ Goes("clear") /\ Saves /\ UNCHANGED account
     \/ /\ ~record.email /\ account' = [account EXCEPT ![Cur] = record]
        /\ \/ Goes("back") /\ Saves
           \/ NotHeld /\ Fails
     \/ NotHeld /\ Fails /\ UNCHANGED account
  /\ UNCHANGED <<token, entra, old, lag, gate>>

Disables == Puts("put", Disabled(run.before))
Clears == Puts("clear", [Disabled(run.before) EXCEPT !.email = FALSE])

\* The read-back: disabled, and nothing else changed; the email may have been, if it was cleared.
ReadsAccount ==
  \/ Refuses("back")
  \/ /\ At("back") /\ Looked
     /\ run' = [run EXCEPT !.pc = "left", !.clean = @ /\ ~account[Cur].enabled /\ account[Cur].role = run.before.role]

\* Mutant: revokes that were answered 204 leave no token.
TrustsRevokes ==
  At("left") /\ Looked /\ run' = [run EXCEPT !.pc = "next", !.result[Cur] = IF run.clean THEN "held" ELSE "not held"]

ReadsTokens ==
  \/ Refuses("left")
  \/ /\ At("left") /\ Looked
     /\ run' = [run EXCEPT !.pc = "next",
                  !.result[Cur] = IF run.clean /\ token[Cur] = {} THEN "held" ELSE "not held"]

\* The process ends anywhere.
Dies == ~At("idle") /\ Fails /\ run' = Resting(run.result, NoExit, {}) /\ Looks

Steps ==
  \/ FirstRead \/ Confirms \/ Pauses \/ NextClose
  \/ Gets \/ Revokes \/ Revoked \/ Disables \/ Clears \/ ReadsAccount \/ ReadsTokens

Next ==
  \/ \E a \in Federated : Moves(a) \/ Settles(a) \/ Mints(a) \/ Edits(a)
  \/ Reports \/ Executes \/ \E a \in Accounts : ExecutesOn(a) \/ ClosesNow(a)
  \/ Steps \/ Dies

Spec == Init /\ [][Next]_vars

-----------------------------------------------------------------------------

Closed(a) == ~account[a].enabled /\ token[a] = {}

\* A close that says it held has closed: the account is disabled and no token works, one minted while it ran included.
HeldIsClosed == \A a \in Accounts : run.result[a] = "held" => Closed(a)

Closing == run.pc \in {"get", "revoke", "put", "clear", "back", "left"} /\ run.mode # "close-now"

\* "is closed only when every read agrees": a person who could sign in before the run began, and of whom nothing
\* changed since, loses nothing to a directory that has not settled.  Who came back by being assigned to the app in
\* person is left out here: the assignments are read once.
ReturnedIsSpared == Closing => Cur \notin run.stayed \ run.moved

\* The same of everybody.  It does not hold: a confirming round judges on the assignments of the first read.
EveryReturnedIsSpared == Closing => Cur \notin run.stayed

\* Exit 0 or 4 of a run that read the organization: who had left before it began is shut out.
CleanExitMeansClosed ==
  At("idle") /\ run.exit \in {0, 4} => \A a \in run.gone : Closed(a)
=============================================================================
