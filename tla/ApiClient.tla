------------------------------ MODULE ApiClient ------------------------------
(***************************************************************************)
(* api_client.py: the API client one integration signs in with.  A run     *)
(* creates it, rotates its token, retires the tokens older than the newest *)
(* or tears it down; a state file says which client and which token this   *)
(* script made, and every run after the create acts on nothing else.       *)
(*                                                                         *)
(* The administrator runs it as the manual says: the integration is        *)
(* pointed at a token after exit 0, and --retire-old is run only while it  *)
(* runs on the token the last create or rotation handed over.  Meanwhile   *)
(* somebody else works in the console, under the same client id too.       *)
(* Clients and tokens are numbered as they are made, so a token's number   *)
(* is also its creation date.                                              *)
(***************************************************************************)
EXTENDS Integers, FiniteSets

CONSTANTS
  Realms, Runs,
  Together,     \* runs at a time
  MaxClients, MaxTokens,
  MaxFaults,    \* calls that are refused, have no effect or get no answer; deaths
  MaxOthers     \* acts in the console, and expiries

VARIABLES
  client,       \* for each realm, what the fleet lists under the client id
  tokens,       \* the tokens the fleet lists under the client id
  state,        \* the state file: of the token ids it holds only the last is ever read
  run,
  handed,       \* the token of the last create or rotation, once that ended with 0
  serves,       \* the token the integration holds
  clients, minted, faults, others,   \* counters
  answered,     \* history: the clients whose create was answered
  issued,       \* history: the tokens this script issued
  torn          \* history: a run died before or inside a write of the state file

fleet == <<client, tokens, clients, minted, answered, issued>>
vars == <<fleet, state, run, handed, serves, faults, others, torn>>

NoClient == [uuid |-> 0, role |-> FALSE]
Nothing == [uuid |-> 0, realm |-> CHOOSE r \in Realms : TRUE, last |-> 0]
Modes == {"create", "rotate", "retire", "teardown"}
Exits == {"exit0", "exit1", "exit2", "exit3"}
Rest == {"idle"} \cup Exits
Steps == {"clients", "tokens", "judge", "post", "save", "write", "bind", "issue", "trade", "after",
          "delete", "deleteClient", "backClients", "backTokens"}

\* What one run knows.  cl, tk: the lists it read; st: the state file it loaded; saw: the client it decided on;
\* new: the token it issued, or the one it keeps; draft: the state file it is about to write; one: the list after
\* the issue shows one token more; alone: nobody else has acted since it started.
Idle == [pc |-> "idle", mode |-> "create", realm |-> Nothing.realm, cl |-> NoClient, tk |-> {}, st |-> Nothing,
         saw |-> 0, new |-> 0, trade |-> "none", draft |-> Nothing, one |-> FALSE, alone |-> FALSE]

Token == [id : 1 .. MaxTokens, realm : Realms, live : BOOLEAN]
ClientRow == [uuid : 0 .. MaxClients, role : BOOLEAN]
StateFile == [uuid : 0 .. MaxClients, realm : Realms, last : 0 .. MaxTokens]
Ids(set) == {t.id : t \in set}
Live(set) == {t \in set : t.live}
Newest(set) == CHOOSE i \in Ids(set) : \A j \in Ids(set) : j <= i
Listed(r) == {t \in tokens : t.realm = r}

TypeOK ==
  /\ client \in [Realms -> ClientRow] /\ tokens \subseteq Token /\ state \in StateFile
  /\ run \in [Runs -> [pc : Rest \cup Steps, mode : Modes, realm : Realms, cl : ClientRow, tk : SUBSET Token,
                       st : StateFile, saw : 0 .. MaxClients, new : 0 .. MaxTokens,
                       trade : {"none", "ok", "refused", "silent"}, draft : StateFile, one : BOOLEAN, alone : BOOLEAN]]
  /\ handed \in 0 .. MaxTokens /\ serves \in 0 .. MaxTokens
  /\ clients \in 0 .. MaxClients /\ minted \in 0 .. MaxTokens /\ faults \in 0 .. MaxFaults /\ others \in 0 .. MaxOthers
  /\ answered \subseteq 1 .. clients /\ issued \subseteq 1 .. minted /\ torn \in BOOLEAN
  \* A number is given once, and a token is sent to the broker only by the run that was given it.
  /\ \A t, u \in tokens : t.id = u.id => t = u
  /\ \A p \in Runs : run[p].pc \in {"trade", "after"} => run[p].new \in issued

Init ==
  /\ client = [r \in Realms |-> NoClient] /\ tokens = {} /\ state = Nothing
  /\ run = [p \in Runs |-> Idle] /\ handed = 0 /\ serves = 0
  /\ clients = 0 /\ minted = 0 /\ faults = 0 /\ others = 0
  /\ answered = {} /\ issued = {} /\ torn = FALSE

-----------------------------------------------------------------------------
At(p, pc) == run[p].pc = pc
Busy == {p \in Runs : run[p].pc \notin Rest}
Fault == faults < MaxFaults /\ faults' = faults + 1
Sound == UNCHANGED faults
Goes(p, pc) == run' = [run EXCEPT ![p].pc = pc]
Knows(p, known) == run' = [run EXCEPT ![p] = known]
Fleet == UNCHANGED <<fleet, others>>
Desk == UNCHANGED <<handed, serves, torn, others>>

\* A run in a realm the state file does not record is refused before it sends anything, and is left out.
Starts(p, m, r) ==
  /\ run[p].pc \in Rest /\ Cardinality(Busy) < Together
  /\ m # "create" => state = Nothing \/ state.realm = r
  /\ m = "retire" => handed # 0 /\ serves = handed
  /\ handed' = IF m \in {"create", "rotate"} THEN 0 ELSE handed
  /\ run' = [q \in Runs |->
       IF q = p THEN [Idle EXCEPT !.pc = IF m = "teardown" THEN "tokens" ELSE "clients", !.mode = m, !.realm = r,
                                  !.alone = Busy = {}]
       ELSE [run[q] EXCEPT !.alone = FALSE]]
  /\ UNCHANGED <<fleet, state, serves, faults, others, torn>>

\* A list is read whole or not at all.
ReadsClients(p) ==
  /\ At(p, "clients") /\ Fleet /\ Desk /\ UNCHANGED state
  /\ \/ /\ Sound
        /\ Knows(p, [run[p] EXCEPT !.cl = client[run[p].realm],
                                   !.pc = IF run[p].mode \in {"rotate", "retire"} THEN "tokens" ELSE "judge"])
     \/ Fault /\ Goes(p, "exit3")

ReadsTokens(p) ==
  /\ At(p, "tokens") /\ Fleet /\ Desk /\ UNCHANGED state
  /\ \/ /\ Sound
        /\ Knows(p, [run[p] EXCEPT !.tk = Listed(run[p].realm),
                                   !.pc = IF run[p].mode = "teardown" THEN "clients" ELSE "judge"])
     \/ Fault /\ Goes(p, "exit3")

\* Mutant: the client is this script's when the state file records one by that id.
OwnedById(st, row) == st.uuid # 0

\* The state file records this client: the same id, and the same uuid.
Owned(st, row) == st.uuid # 0 /\ st.uuid = row.uuid

\* No client in this realm says nothing of the others, unless the state file records this one.
Elsewhere(r) == Cardinality(Realms) > 1 /\ (state = Nothing \/ state.realm # r)

\* Mutant: the newest token is kept, whoever issued it.
RetiresBehindAny(st, tk) == Cardinality(tk) > 1

\* A retirement keeps the newest token, and only if it is the one this script issued last.
Retires(st, tk) == Cardinality(tk) > 1 /\ st.last # 0 /\ Newest(tk) = st.last

\* What the lists and the state file say a run may do; nothing has been sent yet.
Judges(p) ==
  LET k == [run[p] EXCEPT !.st = state, !.saw = run[p].cl.uuid]
  IN /\ At(p, "judge") /\ Fleet /\ Desk /\ Sound /\ UNCHANGED state
     /\ \/ /\ k.mode = "create"
           /\ Knows(p, [k EXCEPT !.pc = IF k.cl = NoClient THEN "post" ELSE "exit2"])
        \/ /\ k.mode # "create" /\ k.cl = NoClient
           /\ Knows(p, [k EXCEPT !.pc = IF Elsewhere(k.realm) THEN "exit3"
                                        ELSE IF k.mode = "teardown" THEN "backClients" ELSE "exit2"])
        \/ /\ k.mode # "create" /\ k.cl # NoClient /\ ~Owned(state, k.cl)
           /\ Knows(p, [k EXCEPT !.pc = "exit2"])
        \/ /\ k.mode = "rotate" /\ k.cl # NoClient /\ Owned(state, k.cl)
           /\ Knows(p, [k EXCEPT !.pc = "issue"])
        \/ /\ k.mode = "retire" /\ k.cl # NoClient /\ Owned(state, k.cl)
           /\ Knows(p, IF Retires(state, k.tk)
                       THEN [k EXCEPT !.pc = "delete", !.new = Newest(k.tk),
                                      !.tk = {t \in k.tk : t.id # Newest(k.tk)}]
                       ELSE [k EXCEPT !.pc = "exit2"])
        \/ /\ k.mode = "teardown" /\ k.cl # NoClient /\ Owned(state, k.cl)
           /\ Knows(p, [k EXCEPT !.pc = IF k.tk = {} THEN "deleteClient" ELSE "delete"])

-----------------------------------------------------------------------------
\* Mutant: the file is written once there is a token to record.
OnceMadeLate == "bind"

\* What follows the create: the file is written before the role and the token.
OnceMade == "save"

\* The client.  An answer without a uuid is as good as none: nothing more is sent, and nothing is recorded.
Creates(p) ==
  /\ At(p, "post") /\ Desk /\ UNCHANGED <<state, tokens, minted, issued>>
  /\ \/ /\ client[run[p].realm] = NoClient /\ clients < MaxClients /\ clients' = clients + 1
        /\ client' = [client EXCEPT ![run[p].realm] = [uuid |-> clients', role |-> FALSE]]
        /\ \/ /\ Sound /\ answered' = answered \cup {clients'}
              /\ Knows(p, [run[p] EXCEPT !.pc = OnceMade, !.saw = clients',
                                         !.draft = [uuid |-> clients', realm |-> run[p].realm, last |-> 0]])
           \/ Fault /\ UNCHANGED answered /\ Goes(p, "exit3")
     \/ /\ client[run[p].realm] # NoClient /\ Sound /\ UNCHANGED <<client, clients, answered>> /\ Goes(p, "exit1")
     \/ Fault /\ UNCHANGED <<client, clients, answered>> /\ (Goes(p, "exit1") \/ Goes(p, "exit3"))

Saves(p) ==
  /\ At(p, "save") /\ Fleet /\ Desk /\ Sound /\ state' = Nothing /\ Goes(p, "write")

\* The file is truncated and then written: in between it reads as no state at all.
Writes(p) ==
  /\ At(p, "write") /\ Fleet /\ Desk /\ Sound /\ state' = run[p].draft
  /\ \/ run[p].mode = "teardown" /\ Goes(p, "exit0")
     \/ run[p].mode # "teardown" /\ Goes(p, IF run[p].new = 0 THEN "bind" ELSE "backClients")

\* The role, bound by uuid.
Binds(p) ==
  /\ At(p, "bind") /\ Desk /\ UNCHANGED <<state, tokens, clients, minted, answered, issued>>
  /\ \/ /\ client[run[p].realm].uuid = run[p].saw /\ client' = [client EXCEPT ![run[p].realm].role = TRUE]
        /\ \/ Sound /\ Goes(p, "issue")
           \/ Fault /\ Goes(p, "exit3")
     \/ client[run[p].realm].uuid # run[p].saw /\ UNCHANGED client /\ Sound /\ Goes(p, "exit1")
     \/ Fault /\ UNCHANGED client /\ (Goes(p, "exit1") \/ Goes(p, "exit3"))

\* The token, issued to the client id.
Issues(p) ==
  /\ At(p, "issue") /\ Desk /\ UNCHANGED <<state, client, clients, answered>>
  /\ \/ /\ client[run[p].realm] # NoClient /\ minted < MaxTokens /\ minted' = minted + 1
        /\ tokens' = tokens \cup {[id |-> minted', realm |-> run[p].realm, live |-> TRUE]}
        /\ issued' = issued \cup {minted'}
        /\ \/ Sound /\ Knows(p, [run[p] EXCEPT !.pc = "trade", !.new = minted'])
           \/ Fault /\ Goes(p, "exit3")
     \/ client[run[p].realm] = NoClient /\ UNCHANGED <<tokens, minted, issued>> /\ Sound /\ Goes(p, "exit1")
     \/ Fault /\ UNCHANGED <<tokens, minted, issued>> /\ (Goes(p, "exit1") \/ Goes(p, "exit3"))

\* The new token is traded at the broker once, and whatever comes of it the lists are read.
Trades(p) ==
  /\ At(p, "trade") /\ Fleet /\ Desk /\ UNCHANGED state
  /\ \/ /\ Sound
        /\ Knows(p, [run[p] EXCEPT !.pc = "after",
                                   !.trade = IF run[p].new \in Ids(Live(tokens)) THEN "ok" ELSE "refused"])
     \/ Fault /\ \E a \in {"refused", "silent"} : Knows(p, [run[p] EXCEPT !.pc = "after", !.trade = a])

\* The tokens that were not there before the issue.
NewOnes(p) == Ids(Listed(run[p].realm)) \ Ids(run[p].tk)

\* A create records every token of the client, in the order of the list; a rotation the one that is new, if one is.
ReadsAfter(p) ==
  /\ At(p, "after") /\ Fleet /\ Desk /\ UNCHANGED state
  /\ \/ /\ run[p].mode = "create" /\ Sound
        /\ \E last \in Ids(Listed(run[p].realm)) \cup {0} :
             /\ last = 0 => Listed(run[p].realm) = {}
             /\ Knows(p, [run[p] EXCEPT !.pc = "save", !.draft.last = last])
     \/ /\ run[p].mode = "rotate" /\ Sound
        /\ \/ /\ Cardinality(NewOnes(p)) # 1 /\ Goes(p, "backClients")
           \/ /\ Cardinality(NewOnes(p)) = 1
              /\ Knows(p, [run[p] EXCEPT !.pc = "save", !.one = TRUE,
                             !.draft = [run[p].st EXCEPT !.last = CHOOSE i \in NewOnes(p) : TRUE]])
     \/ Fault /\ Goes(p, "exit3")

-----------------------------------------------------------------------------
\* One token, of those the run listed; a delete that is refused or answered in vain shows in the read-back.
Deletes(p) ==
  /\ At(p, "delete") /\ Desk /\ UNCHANGED <<state, client, clients, minted, answered, issued>>
  /\ \E t \in run[p].tk :
       /\ \/ Sound /\ tokens' = {u \in tokens : u.id # t.id}
          \/ Fault /\ UNCHANGED tokens
       /\ Knows(p, [run[p] EXCEPT !.tk = @ \ {t},
                      !.pc = IF run[p].tk # {t} THEN "delete"
                             ELSE IF run[p].mode = "teardown" THEN "deleteClient" ELSE "backClients"])

\* The client, by its id.  Whether the fleet drops a client's tokens with it is not known here.
DeletesClient(p) ==
  /\ At(p, "deleteClient") /\ Desk /\ UNCHANGED <<state, clients, minted, answered, issued>> /\ Goes(p, "backClients")
  /\ \/ /\ Sound /\ client' = [client EXCEPT ![run[p].realm] = NoClient]
        /\ tokens' \in {tokens, tokens \ Listed(run[p].realm)}
     \/ Fault /\ UNCHANGED <<client, tokens>>

\* Mutant: a list that could not be read counts as read, and as empty.
UnreadIsClean(p) == IF run[p].mode = "teardown" THEN "exit0" ELSE "exit3"

\* The exit code when the read-back was not answered: a trade that was refused comes first.
Unread(p) == IF run[p].mode = "rotate" /\ run[p].trade = "refused" THEN "exit1" ELSE "exit3"

BacksClients(p) ==
  /\ At(p, "backClients") /\ Fleet /\ Desk /\ UNCHANGED state
  /\ \/ Sound /\ Knows(p, [run[p] EXCEPT !.pc = "backTokens", !.cl = client[run[p].realm]])
     \/ Fault /\ Goes(p, Unread(p))

\* What the run was asked for, read back: left is the list of tokens.
Held(p, left) ==
  CASE run[p].mode = "create" -> run[p].cl.role /\ Live(left) # {} /\ run[p].trade = "ok"
    [] run[p].mode = "rotate" -> run[p].one /\ Cardinality(Live(left)) = Cardinality(run[p].tk) + 1
    [] run[p].mode = "retire" -> left = Live(left) /\ Ids(left) = {run[p].new}
    [] OTHER -> run[p].cl = NoClient /\ left = {}

\* A teardown that is clean, of a client that was there, writes the state file once more.
BacksTokens(p) ==
  /\ At(p, "backTokens") /\ Fleet /\ UNCHANGED <<state, serves, torn>>
  /\ \/ /\ Sound /\ run[p].trade = "silent" /\ Goes(p, "exit3") /\ UNCHANGED handed
     \/ /\ Sound /\ run[p].trade # "silent"
        /\ ~Held(p, Listed(run[p].realm)) \/ (run[p].mode = "rotate" /\ run[p].trade = "refused")
        /\ Goes(p, "exit1") /\ UNCHANGED handed
     \/ /\ Sound /\ run[p].trade \in {"none", "ok"} /\ Held(p, Listed(run[p].realm))
        /\ IF run[p].mode = "teardown" /\ run[p].saw # 0
           THEN Knows(p, [run[p] EXCEPT !.pc = "save", !.draft = run[p].st])
           ELSE Goes(p, "exit0")
        /\ handed' = IF run[p].mode \in {"create", "rotate"} THEN run[p].new ELSE handed
     \/ Fault /\ Goes(p, IF run[p].trade = "silent" THEN "exit3" ELSE Unread(p)) /\ UNCHANGED handed

\* The process ends, for any reason the script does not expect.
Dies(p) ==
  /\ p \in Busy /\ Fault /\ run' = [run EXCEPT ![p] = Idle]
  /\ torn' = (torn \/ run[p].pc \in {"save", "write"})
  /\ UNCHANGED <<fleet, state, handed, serves, others>>

-----------------------------------------------------------------------------
\* The administrator points the integration at the token that was handed over.
Points ==
  /\ handed \notin {0, serves} /\ serves' = handed
  /\ UNCHANGED <<fleet, state, run, handed, faults, others, torn>>

Other == 
  /\ others < MaxOthers /\ others' = others + 1
  /\ run' = [p \in Runs |-> [run[p] EXCEPT !.alone = FALSE]]
  /\ UNCHANGED <<state, handed, serves, faults, answered, issued, torn>>

\* Somebody else, in the console: a client under the same id, a token for it, or either of them removed.
Console(r) ==
  /\ Other
  /\ \/ /\ client[r] = NoClient /\ clients < MaxClients /\ clients' = clients + 1
        /\ client' = [client EXCEPT ![r] = [uuid |-> clients', role |-> TRUE]] /\ UNCHANGED <<tokens, minted>>
     \/ /\ client[r] # NoClient /\ client' = [client EXCEPT ![r] = NoClient]
        /\ tokens' \in {tokens, tokens \ Listed(r)} /\ UNCHANGED <<clients, minted>>
     \/ /\ client[r] # NoClient /\ minted < MaxTokens /\ minted' = minted + 1
        /\ tokens' = tokens \cup {[id |-> minted', realm |-> r, live |-> TRUE]} /\ UNCHANGED <<client, clients>>
     \/ \E t \in Listed(r) : tokens' = tokens \ {t} /\ UNCHANGED <<client, clients, minted>>

\* A token's lifetime ends; the list still shows it.
Expires(t) ==
  /\ Other /\ t \in Live(tokens) /\ tokens' = (tokens \ {t}) \cup {[t EXCEPT !.live = FALSE]}
  /\ UNCHANGED <<client, clients, minted>>

Step(p) ==
  \/ ReadsClients(p) \/ ReadsTokens(p) \/ Judges(p) \/ Creates(p) \/ Saves(p) \/ Writes(p) \/ Binds(p) \/ Issues(p)
  \/ Trades(p) \/ ReadsAfter(p) \/ Deletes(p) \/ DeletesClient(p) \/ BacksClients(p) \/ BacksTokens(p)

Next ==
  \/ \E p \in Runs : Step(p) \/ Dies(p) \/ \E m \in Modes, r \in Realms : Starts(p, m, r)
  \/ Points
  \/ \E r \in Realms : Console(r)
  \/ \E t \in tokens : Expires(t)

Spec == Init /\ [][Next]_vars

-----------------------------------------------------------------------------
Last(set) == CHOOSE u \in set : \A v \in set : v <= u

\* "a mistyped id, a client someone else made under it ... is refused before anything is sent": a rotation, a
\* retirement and a teardown decide to write only on a client whose create this script sent and saw answered.
ActsOnlyOnItsOwn ==
  \A p \in Runs : run[p].mode # "create" /\ run[p].pc \in {"issue", "delete", "deleteClient"} => run[p].saw \in answered

\* "before the role and the token, so a client left part way can still be removed": wherever a run stops, the client
\* of the last create that was answered is the one the state file records, except inside a write of that file.
MadeIsRecorded ==
  \A r \in Realms :
    client[r].uuid # 0 /\ client[r].uuid \in answered /\ client[r].uuid = Last(answered) /\ ~torn =>
      \/ state.uuid = client[r].uuid /\ state.realm = r
      \/ \E p \in Runs : run[p].pc \in {"save", "write"}

\* "deletes every token of the client older than its newest, once the integration runs on the newest": a retirement
\* never deletes the token the integration holds, as long as the last token on record is one this script issued.
RetireKeepsServed ==
  [][\A p \in Runs : At(p, "delete") /\ run'[p].tk # run[p].tk /\ run[p].mode = "retire" /\ run[p].st.last \in issued =>
       serves \notin Ids(tokens) \ Ids(tokens')]_vars

\* Exit 0 means what the manual says, when nobody else acted during the run.
ExitZeroIsTrue ==
  \A p \in Runs : run[p].alone /\ At(p, "exit0") =>
    LET r == run[p].realm  mine == Listed(r)  new == run[p].new
    IN CASE run[p].mode = "create" ->
              /\ client[r] = [uuid |-> run[p].saw, role |-> TRUE] /\ client[r].uuid = state.uuid
              /\ new \in Ids(Live(mine))
         [] run[p].mode = "rotate" -> run[p].tk \subseteq Live(mine) /\ new \in Ids(Live(mine)) /\ state.last = new
         [] run[p].mode = "retire" -> Ids(mine) = {state.last} /\ Live(mine) = mine
         [] OTHER -> client[r] = NoClient /\ mine = {} /\ (answered # {} /\ state # Nothing => state.realm = r)

\* "when its newest is not the one this script issued last": a retirement runs behind a token of this script.
\* It does not hold: a create records every token its list shows, one made in the console meanwhile included.
RetiresBehindItsOwn ==
  \A p \in Runs : At(p, "delete") /\ run[p].mode = "retire" => run[p].new \in issued

\* "so a client left part way can still be removed": every client whose create was answered stays on record.
\* It does not hold: a create in another realm, or a death inside a write, replaces the only record.
EveryMadeIsRecorded ==
  \A r \in Realms : client[r].uuid # 0 /\ client[r].uuid \in answered =>
    \/ state.uuid = client[r].uuid
    \/ \E p \in Runs : run[p].pc \in {"save", "write"}

\* "the new token proved and active beside the old ones": a rotation that proved its token and was answered
\* throughout holds.
\* It does not hold: the tokens before are counted whether they are active or not, the tokens after only if they are.
ProvedRotationHolds ==
  \A p \in Runs : At(p, "exit1") /\ run[p].mode = "rotate" /\ run[p].alone /\ run[p].trade = "ok" =>
    ~(run[p].one /\ run[p].new \in Ids(Live(tokens)))

\* "deletes the client": what a teardown deletes is the client it read.
\* It does not hold: the delete names the client by its id, and somebody may have made another one under it.
DeletesWhatItRead ==
  [][\A p \in Runs : At(p, "deleteClient") /\ run'[p].pc # run[p].pc /\ client' # client =>
       client[run[p].realm].uuid = run[p].saw]_vars
=============================================================================
