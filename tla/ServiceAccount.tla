---------------------------- MODULE ServiceAccount ----------------------------
(***************************************************************************)
(* service_account.py: the service account one integration signs in with,  *)
(* under one name in one organization.  A create registers it, is granted  *)
(* a refresh token, stores that in a file of its own and refreshes once    *)
(* with it, as the integration will; a teardown revokes and deletes the    *)
(* account a state file says the create registered.                        *)
(*                                                                         *)
(* An organization may hold several accounts of one name; somebody else    *)
(* registers, revokes and deletes some meanwhile.  The platform may answer *)
(* a refresh with a new token, which ends the one it was asked with.       *)
(***************************************************************************)
EXTENDS Integers, FiniteSets

CONSTANTS
  Runs,
  Together,      \* runs at a time
  MaxAccounts, MaxTokens,
  MaxFaults,     \* calls that are refused or get no answer, with or without their effect; deaths
  MaxOthers      \* acts of somebody else

VARIABLES
  accounts,      \* those of that name; act: it was granted a token, and not revoked since
  live,          \* the refresh tokens that still answer
  state,         \* the account the state file records, 0 for none
  file,          \* the token in the token file, 0 for none
  run, registered, minted, faults, others,
  answered,      \* history: the accounts whose register was answered with a client id
  torn           \* history: a run died before or inside a write of the state file

platform == <<accounts, live, registered, minted, answered>>
vars == <<platform, state, file, run, faults, others, torn>>

Exits == {"exit0", "exit1", "exit2", "exit3"}
Rest == {"idle"} \cup Exits
CreateSteps == {"register", "grant", "poll", "store", "session", "refresh", "rewrite", "rewritten", "back"}
Steps == {"list", "judge", "save", "write", "revoke", "delete", "gone", "end"} \cup CreateSteps
\* The checks of a teardown with the stored token, after the revoke and after the delete.
Checks == {"tryRevoked", "tryDeleted"}

\* What one run knows.  rows: the accounts it listed; cid: the one it registered or removes; tok: the token in its
\* hands; ok, silent: what the calls so far say of the result; left: what the residue read showed; alone: nobody else
\* has acted since it started.
Idle == [pc |-> "idle", mode |-> "create", rows |-> {}, cid |-> 0, tok |-> 0, ok |-> TRUE, silent |-> FALSE,
         left |-> "unread", alone |-> FALSE]

Account == [id : 1 .. MaxAccounts, act : BOOLEAN]
Token == [id : 1 .. MaxTokens, of : 1 .. MaxAccounts]
Ids(set) == {x.id : x \in set}
There(i) == i \in Ids(accounts)
Lives(t) == t \in Ids(live)

TypeOK ==
  /\ accounts \subseteq Account /\ live \subseteq Token /\ state \in 0 .. MaxAccounts /\ file \in 0 .. MaxTokens
  /\ run \in [Runs -> [pc : Rest \cup Steps \cup Checks, mode : {"create", "teardown"}, rows : SUBSET Account,
                       cid : 0 .. MaxAccounts, tok : 0 .. MaxTokens, ok : BOOLEAN, silent : BOOLEAN,
                       left : {"unread", "there", "none"}, alone : BOOLEAN]]
  /\ registered \in 0 .. MaxAccounts /\ minted \in 0 .. MaxTokens /\ faults \in 0 .. MaxFaults
  /\ others \in 0 .. MaxOthers /\ answered \subseteq 1 .. registered /\ torn \in BOOLEAN

Init ==
  /\ accounts = {} /\ live = {} /\ state = 0 /\ file = 0 /\ run = [p \in Runs |-> Idle]
  /\ registered = 0 /\ minted = 0 /\ faults = 0 /\ others = 0 /\ answered = {} /\ torn = FALSE

-----------------------------------------------------------------------------
At(p, pc) == run[p].pc = pc
Busy == {p \in Runs : run[p].pc \notin Rest}
Fault == faults < MaxFaults /\ faults' = faults + 1
Sound == UNCHANGED faults
Goes(p, pc) == run' = [run EXCEPT ![p].pc = pc]
Knows(p, known) == run' = [run EXCEPT ![p] = known]
Platform == UNCHANGED platform
Desk == UNCHANGED <<state, file, others, torn>>

\* A create stores its token in a file that does not exist; a teardown may be given the stored token to try.
Starts(p, m) ==
  /\ run[p].pc \in Rest /\ Cardinality(Busy) < Together
  /\ file' = IF m = "create" THEN 0 ELSE file
  /\ \E tok \in {0} \cup (IF m = "create" THEN {} ELSE {file}) :
       run' = [q \in Runs |->
         IF q = p THEN [Idle EXCEPT !.pc = "list", !.mode = m, !.tok = tok, !.alone = Busy = {}]
         ELSE [run[q] EXCEPT !.alone = FALSE]]
  /\ Platform /\ UNCHANGED <<state, faults, others, torn>>

\* A list is read whole or not at all.
Lists(p) ==
  /\ At(p, "list") /\ Platform /\ Desk
  /\ \/ Sound /\ Knows(p, [run[p] EXCEPT !.rows = accounts, !.pc = "judge"])
     \/ Fault /\ Goes(p, "exit3")

\* Mutant: the state file names this organization and this account name, and that is enough.
OwnedByName(rows) == state # 0 /\ rows # {}

\* The state file records every account of that name as one this script registered.
Owned(rows) == state # 0 /\ rows # {} /\ \A a \in rows : a.id = state

Judges(p) ==
  LET rows == run[p].rows
  IN /\ At(p, "judge") /\ Platform /\ Desk /\ Sound
     /\ \/ run[p].mode = "create" /\ Goes(p, IF rows = {} THEN "register" ELSE "exit2")
        \/ run[p].mode = "teardown" /\ rows = {} /\ Goes(p, "gone")
        \/ run[p].mode = "teardown" /\ rows # {} /\ ~Owned(rows) /\ Goes(p, "exit2")
        \/ /\ run[p].mode = "teardown" /\ Owned(rows)
           /\ \E a \in rows : Knows(p, [run[p] EXCEPT !.cid = a.id, !.pc = "revoke"])

-----------------------------------------------------------------------------
\* An answer without a client id is no account to record, and what got none may have been made.
Registers(p) ==
  /\ At(p, "register") /\ Desk /\ UNCHANGED <<live, minted>>
  /\ \/ /\ registered < MaxAccounts /\ registered' = registered + 1
        /\ accounts' = accounts \cup {[id |-> registered', act |-> FALSE]}
        /\ \/ /\ Sound /\ answered' = answered \cup {registered'}
              /\ Knows(p, [run[p] EXCEPT !.pc = "save", !.cid = registered'])
           \/ Fault /\ UNCHANGED answered /\ (Goes(p, "exit1") \/ Goes(p, "exit3"))
     \/ Fault /\ UNCHANGED <<accounts, registered, answered>> /\ (Goes(p, "exit1") \/ Goes(p, "exit3"))

\* The exit code of a teardown: no account left, the revoke answered and no token that still answers.
Verdict(k) == IF k.left = "unread" \/ k.silent THEN "exit3" ELSE IF k.left = "none" /\ k.ok THEN "exit0" ELSE "exit1"

\* The state file is truncated and then written.
Saves(p) ==
  /\ At(p, "save") /\ Platform /\ Sound /\ UNCHANGED <<file, others, torn>> /\ state' = 0 /\ Goes(p, "write")

Writes(p) ==
  /\ At(p, "write") /\ Platform /\ Sound /\ UNCHANGED <<file, others, torn>> /\ state' = run[p].cid
  /\ Goes(p, IF run[p].mode = "create" THEN "grant" ELSE Verdict(run[p]))

\* The device authorization, and the provider's grant of the user code it returned.
Grants(p) ==
  /\ At(p, "grant") /\ Platform /\ Desk
  /\ \/ Sound /\ Goes(p, IF There(run[p].cid) THEN "poll" ELSE "exit1")
     \/ Fault /\ (Goes(p, "exit1") \/ Goes(p, "exit3"))

\* The token, asked for until the grant has landed: the account is active from here on.
Polls(p) ==
  LET i == run[p].cid
  IN /\ At(p, "poll") /\ Desk /\ UNCHANGED <<registered, answered>>
     /\ \/ /\ There(i) /\ minted < MaxTokens /\ minted' = minted + 1
           /\ live' = live \cup {[id |-> minted', of |-> i]}
           /\ accounts' = {a \in accounts : a.id # i} \cup {[id |-> i, act |-> TRUE]}
           /\ \/ Sound /\ Knows(p, [run[p] EXCEPT !.pc = "store", !.tok = minted'])
              \/ Fault /\ Goes(p, "exit3")
        \/ ~There(i) /\ Sound /\ UNCHANGED <<accounts, live, minted>> /\ Goes(p, "exit1")
        \/ Fault /\ UNCHANGED <<accounts, live, minted>> /\ (Goes(p, "exit1") \/ Goes(p, "exit3"))

Stores(p) ==
  /\ At(p, "store") /\ Platform /\ Sound /\ UNCHANGED <<state, others, torn>>
  /\ file' = run[p].tok /\ Goes(p, "session")

\* The bearer's own session.
ReadsSession(p) ==
  /\ At(p, "session") /\ Platform /\ Desk
  /\ \/ Sound /\ Knows(p, [run[p] EXCEPT !.ok = There(run[p].cid), !.pc = "refresh"])
     \/ Fault /\ Knows(p, [run[p] EXCEPT !.ok = FALSE, !.pc = "refresh"])
     \/ Fault /\ Knows(p, [run[p] EXCEPT !.silent = TRUE, !.pc = "refresh"])

\* The platform's answer to a refresh with a token that lives: the same token stays, or another takes its place.
Rotates(t) ==
  \/ UNCHANGED <<live, minted>>
  \/ /\ minted < MaxTokens /\ minted' = minted + 1
     /\ live' = {u \in live : u.id # t} \cup {[u EXCEPT !.id = minted'] : u \in {u \in live : u.id = t}}

\* Mutant: the token the refresh was made with stays in the file.
KeepsStored(before) == "back"

\* A rotated token replaces the stored one.
Kept(before) == IF minted' = before THEN "back" ELSE "rewrite"

\* The refresh, with the client id and, if that form is refused or gets no answer, without it.
Refreshes(p) ==
  LET k == run[p]
  IN /\ At(p, "refresh") /\ Desk /\ UNCHANGED <<accounts, registered, answered>>
     /\ \/ /\ Sound /\ Lives(k.tok) /\ Rotates(k.tok)
           /\ Knows(p, [k EXCEPT !.tok = IF minted' = minted THEN @ ELSE minted', !.pc = Kept(minted)])
        \/ Sound /\ ~Lives(k.tok) /\ UNCHANGED <<live, minted>> /\ Knows(p, [k EXCEPT !.ok = FALSE, !.pc = "back"])
        \/ /\ Fault /\ \/ Lives(k.tok) /\ Rotates(k.tok)
                       \/ UNCHANGED <<live, minted>>
           /\ \E silent \in BOOLEAN : Knows(p, [k EXCEPT !.ok = FALSE, !.silent = @ \/ silent, !.pc = "back"])

\* The token file is truncated and then written.
Rewrites(p) ==
  /\ At(p, "rewrite") /\ Platform /\ Sound /\ UNCHANGED <<state, others, torn>> /\ file' = 0 /\ Goes(p, "rewritten")

Rewritten(p) ==
  /\ At(p, "rewritten") /\ Platform /\ Sound /\ UNCHANGED <<state, others, torn>>
  /\ file' = run[p].tok /\ Goes(p, "back")

\* The account read back: one of that name, and active.
Backs(p) ==
  /\ At(p, "back") /\ Platform /\ Desk
  /\ \/ /\ Sound
        /\ Goes(p, IF run[p].silent THEN "exit3"
                   ELSE IF run[p].ok /\ Cardinality(accounts) = 1 /\ (\A a \in accounts : a.act) THEN "exit0"
                   ELSE "exit1")
     \/ Fault /\ Goes(p, "exit3")

-----------------------------------------------------------------------------
\* The revoke ends the account's tokens.
Revoked(i) ==
  /\ live' = {t \in live : t.of # i}
  /\ accounts' = {IF a.id = i THEN [a EXCEPT !.act = FALSE] ELSE a : a \in accounts}

Revokes(p) ==
  LET k == [run[p] EXCEPT !.pc = IF run[p].tok # 0 THEN "tryRevoked" ELSE "delete"]
  IN /\ At(p, "revoke") /\ Desk /\ UNCHANGED <<registered, minted, answered>>
     /\ \/ Sound /\ There(k.cid) /\ Revoked(k.cid) /\ Knows(p, k)
        \/ Sound /\ ~There(k.cid) /\ UNCHANGED <<live, accounts>> /\ Knows(p, [k EXCEPT !.ok = FALSE])
        \/ Fault /\ Revoked(k.cid) /\ Knows(p, [k EXCEPT !.silent = TRUE])
        \/ Fault /\ UNCHANGED <<live, accounts>> /\ (Knows(p, [k EXCEPT !.silent = TRUE])
                                                      \/ Knows(p, [k EXCEPT !.ok = FALSE]))

\* A refresh with the stored token, in both forms: one that is answered is a token that still works, and may rotate it.
\* No answer is noted; any other, one of the platform's trouble too, is taken for a refusal.
Tries(p) ==
  LET k == [run[p] EXCEPT !.pc = IF At(p, "tryRevoked") THEN "delete" ELSE "end"]
  IN /\ run[p].pc \in Checks /\ Desk /\ UNCHANGED <<accounts, registered, answered>>
     /\ \/ Sound /\ Lives(k.tok) /\ Rotates(k.tok) /\ Knows(p, [k EXCEPT !.ok = FALSE])
        \/ Sound /\ ~Lives(k.tok) /\ UNCHANGED <<live, minted>> /\ Knows(p, k)
        \/ /\ Fault /\ \/ Lives(k.tok) /\ Rotates(k.tok)
                       \/ UNCHANGED <<live, minted>>
           /\ Knows(p, k) \/ Knows(p, [k EXCEPT !.silent = TRUE])

\* Whether the platform ends an account's tokens with it is not known here.  The answer is not looked at.
Deletes(p) ==
  /\ At(p, "delete") /\ Desk /\ UNCHANGED <<registered, minted, answered>> /\ Goes(p, "gone")
  /\ \/ /\ Sound /\ accounts' = {a \in accounts : a.id # run[p].cid}
        /\ live' \in {live, {t \in live : t.of # run[p].cid}}
     \/ Fault /\ UNCHANGED <<accounts, live>>

\* The list is read until no account of that name is in it, or twenty times.
Gone(p) ==
  LET tried == run[p].rows # {} /\ run[p].tok # 0
  IN /\ At(p, "gone") /\ Platform /\ Desk
     /\ \/ /\ Sound
           /\ Knows(p, [run[p] EXCEPT !.left = IF accounts = {} THEN "none" ELSE "there",
                                      !.pc = IF tried THEN "tryDeleted" ELSE "end"])
        \/ Fault /\ Knows(p, [run[p] EXCEPT !.pc = IF tried THEN "tryDeleted" ELSE "end"])

\* A removal that is seen is entered in the state file, whatever the exit code.
Ends(p) ==
  /\ At(p, "end") /\ Platform /\ Desk /\ Sound
  /\ Goes(p, IF run[p].left = "none" /\ run[p].rows # {} THEN "save" ELSE Verdict(run[p]))

\* The process ends, for any reason the script does not expect.
Dies(p) ==
  /\ p \in Busy /\ Fault /\ run' = [run EXCEPT ![p] = Idle]
  /\ torn' = (torn \/ run[p].pc \in {"save", "write"})
  /\ Platform /\ UNCHANGED <<state, file, others>>

-----------------------------------------------------------------------------
\* Somebody else registers an account of that name, or revokes or deletes one.
Others ==
  /\ others < MaxOthers /\ others' = others + 1
  /\ run' = [p \in Runs |-> [run[p] EXCEPT !.alone = FALSE]]
  /\ UNCHANGED <<state, file, minted, faults, answered, torn>>
  /\ \/ /\ registered < MaxAccounts /\ registered' = registered + 1
        /\ accounts' = accounts \cup {[id |-> registered', act |-> TRUE]} /\ UNCHANGED live
     \/ \E a \in accounts :
          /\ UNCHANGED registered
          /\ \/ Revoked(a.id)
             \/ accounts' = accounts \ {a} /\ live' \in {live, {t \in live : t.of # a.id}}

Step(p) ==
  \/ Lists(p) \/ Judges(p) \/ Registers(p) \/ Saves(p) \/ Writes(p) \/ Grants(p) \/ Polls(p) \/ Stores(p)
  \/ ReadsSession(p) \/ Refreshes(p) \/ Rewrites(p) \/ Rewritten(p) \/ Backs(p)
  \/ Revokes(p) \/ Tries(p) \/ Deletes(p) \/ Gone(p) \/ Ends(p)

Next ==
  \/ \E p \in Runs : Step(p) \/ Dies(p) \/ \E m \in {"create", "teardown"} : Starts(p, m)
  \/ Others

Spec == Init /\ [][Next]_vars

-----------------------------------------------------------------------------
\* "--teardown revokes and deletes only an account that file records with the same client id": every account a teardown
\* decides to revoke or delete is one this script registered and was answered for.
ActsOnlyOnItsOwn ==
  \A p \in Runs : run[p].mode = "teardown" /\ run[p].cid # 0 => run[p].cid \in answered

\* "before the grant, so an account left part way can still be removed": wherever a run stops, an account whose
\* register was answered is the one on record, except inside a write of the state file.
MadeIsRecorded ==
  \A a \in accounts : a.id \in answered /\ ~torn =>
    state = a.id \/ \E p \in Runs : run[p].pc \in {"save", "write"}

\* "a rotated token replaces the stored one, or the next refresh would present a dead token": a create that came to
\* its end, at whatever exit, and whose refresh was answered leaves the integration a token that lives.
StoredTokenLives ==
  \A p \in Runs : run[p].pc \in Exits /\ run[p].mode = "create" /\ run[p].alone /\ run[p].tok # 0 /\ run[p].ok =>
    Lives(file)

\* Exit 0 means what the manual says, when nobody else acted during the run.
ExitZeroIsTrue ==
  \A p \in Runs : run[p].alone /\ At(p, "exit0") =>
    CASE run[p].mode = "create" ->
           /\ accounts = {[id |-> run[p].cid, act |-> TRUE]} /\ state = run[p].cid
           /\ \E t \in live : t.id = file /\ t.of = run[p].cid
      [] OTHER -> accounts = {} /\ \A t \in live : t.of \notin Ids(run[p].rows)

\* The same for every create that stored a token.
\* It does not hold: a refresh whose answer was lost may have rotated the token, and the new one is in nobody's hands.
EveryStoredTokenLives ==
  \A p \in Runs : run[p].pc \in Exits /\ run[p].mode = "create" /\ run[p].alone /\ file # 0 => Lives(file)
=============================================================================
