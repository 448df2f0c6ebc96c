---------------------------- MODULE LeaversProofs ----------------------------
(***************************************************************************)
(* Proofs about Leavers, for any organization, gate and directory, any     *)
(* number of confirming reads and any delay of Graph that ends before the  *)
(* last of them: what a close that held has closed, who is spared, and     *)
(* what a clean exit says.                                                 *)
(***************************************************************************)
EXTENDS Leavers, TLAPS

Outcomes == {"none", "held", "not held"}
ExitCodes == {NoExit} \cup 0 .. 4
ClosingStages == {"get", "revoke", "put", "clear", "back", "left"}

RunType ==
  [pc : Stages, mode : Modes, round : 0 .. ConfirmReads, cur : Federated \cup {Nobody},
   users : [Accounts -> Record], mine : [Accounts -> SUBSET Tokens], decision : [Accounts -> Decisions],
   chosen : [Accounts -> BOOLEAN], pending : SUBSET Federated, todo : SUBSET Federated, before : Record,
   revoking : SUBSET Tokens, clean : BOOLEAN, result : [Accounts -> Outcomes], exit : ExitCodes, rest : ExitCodes,
   stayed : SUBSET Federated, moved : SUBSET Federated, gone : SUBSET Federated]

AccountsType ==
  /\ account \in [Accounts -> Record] /\ token \in [Accounts -> SUBSET Tokens]
  /\ \A a, b \in Accounts : a # b => token[a] \cap token[b] = {}

DirectoryType ==
  /\ entra \in [Accounts -> Standings] /\ old \in [Accounts -> SUBSET Standings] /\ lag \in [Accounts -> 0 .. Settle]
  /\ gate \in Gates

TypeInv ==
  /\ AccountsType /\ DirectoryType
  /\ run \in RunType /\ (run.pc \in ClosingStages => run.cur \in Federated)
  /\ others \in 0 .. MaxOthers /\ faults \in 0 .. MaxFaults

\* Graph answers from before a change only while its delay lasts.
LagInv == \A a \in Accounts : lag[a] = 0 => old[a] = {}

\* A close that held has closed, and what the read-back of the account has seen stays so.
HeldInv == HeldIsClosed /\ (At("left") /\ run.clean => ~account[Cur].enabled)

\* While the run reads, its lists tell what an account that was disabled owns.
ListsTell ==
  \A a \in Federated : ~run.users[a].enabled => ~account[a].enabled /\ token[a] \subseteq run.mine[a]

\* Who stayed signs in, and what Graph may still answer of them from before is gone before the last read.
StayedSignIn ==
  \A a \in run.stayed :
    /\ SignsIn(a) /\ run.users[a].role = account[a].role
    /\ a \notin run.moved => \A p \in old[a] : p.chosen = entra[a].chosen
    /\ lag[a] = 0 \/ lag[a] + run.round <= Settle + (IF At("pause") THEN 2 ELSE 1)

\* Who was gone cannot sign in, and Graph says so.
GoneAreOut == \A a \in run.gone : ~SignsIn(a) /\ run.users[a].role = account[a].role /\ old[a] = {}

\* After the first read: whom it judged, and on which assignments.
FirstReadKept ==
  /\ OpenOnes(run.decision) \subseteq run.pending
  /\ \A a \in run.stayed \ run.moved : run.chosen[a] = entra[a].chosen
  /\ \A a \in run.gone : run.decision[a] \in {"leaver", "undetermined"}

ReadInv ==
  /\ run.pc \in {"confirm", "pause"} => ListsTell /\ StayedSignIn /\ GoneAreOut /\ (run.round > 0 => FirstReadKept)
  /\ At("pause") => run.round > 1

\* After the last read: nobody who stayed is to be closed, and if the run may end clean, whoever was gone is closed,
\* is to be closed, or has an outcome.
CloseInv ==
  run.pc \in {"next"} \cup ClosingStages =>
    /\ run.stayed \subseteq run.moved
    /\ run.rest \in {0, 4} =>
         \A a \in run.gone :
           a \in run.todo \/ (~At("next") /\ a = Cur) \/ run.result[a] # "none" \/ Closed(a)

LeaversInv == TypeInv /\ LagInv /\ HeldInv /\ ReadInv /\ CloseInv /\ CleanExitMeansClosed

USE DEF Record, Stages, Modes, Decisions, Outcomes, ClosingStages

-----------------------------------------------------------------------------
(* Types. *)

LEMMA TypeInvTypes == TypeInv => TypeOK
  BY DEF TypeInv, AccountsType, DirectoryType, RunType, TypeOK, ExitCodes

LEMMA Numbers ==
  /\ ConfirmReads \in Nat /\ Settle \in Nat /\ MaxLeavers \in Nat /\ MaxOthers \in Nat /\ MaxFaults \in Nat
  /\ 0 < Settle /\ Settle < ConfirmReads /\ 0 \in 0 .. ConfirmReads /\ 1 \in 0 .. ConfirmReads /\ 0 \in 0 .. MaxOthers /\ 0 \in 0 .. MaxFaults
  BY LeaversAssumption

LEMMA NextRound == \A r \in 0 .. ConfirmReads : r # ConfirmReads => r + 1 \in 0 .. ConfirmReads
<1>1. ConfirmReads \in Nat
  BY Numbers
<1> QED  BY <1>1

LEMMA ExitCodesAre == NoExit \in ExitCodes /\ 0 .. 4 \subseteq ExitCodes
  BY Zenon DEF ExitCodes

LEMMA SomeExits == NoExit \in ExitCodes /\ 0 \in ExitCodes /\ 2 \in ExitCodes /\ 3 \in ExitCodes
<1>1. 0 \in 0 .. 4 /\ 2 \in 0 .. 4 /\ 3 \in 0 .. 4
  OBVIOUS
<1> QED  BY <1>1, ExitCodesAre

\* A run at rest, whatever it found.
AtRest(r, result, exit, gone) ==
  /\ r \in RunType
  /\ r.pc = "idle" /\ r.mode = "report" /\ r.round = 0 /\ r.cur = Nobody /\ r.result = result
  /\ r.exit = exit /\ r.rest = NoExit /\ r.gone = gone /\ r.stayed = {} /\ r.moved = {} /\ r.todo = {}
  /\ r.mine = [a \in Accounts |-> {}]

LEMMA RestingIs ==
  ASSUME NEW result \in [Accounts -> Outcomes], NEW exit \in ExitCodes, NEW gone \in SUBSET Federated
  PROVE  AtRest(Resting(result, exit, gone), result, exit, gone)
<1> DEFINE r == Resting(result, exit, gone)
<1>1. /\ r.pc = "idle" /\ r.mode = "report" /\ r.round = 0 /\ r.cur = Nobody /\ r.result = result
      /\ r.exit = exit /\ r.rest = NoExit /\ r.gone = gone /\ r.stayed = {} /\ r.moved = {} /\ r.todo = {}
      /\ r.mine = [a \in Accounts |-> {}]
  BY DEF Resting
<1>2. 0 \in 0 .. ConfirmReads
  BY Numbers
<1>3. NoExit \in ExitCodes
  BY SomeExits
<1>4. Blank \in Record /\ [a \in Accounts |-> Blank] \in [Accounts -> Record]
  BY DEF Blank
<1>5. r \in RunType
  BY <1>2, <1>3, <1>4 DEF Resting, RunType
<1> QED  BY <1>1, <1>5 DEF AtRest

LEMMA UnrunIs == Unrun \in [Accounts -> Outcomes] /\ \A a \in Accounts : Unrun[a] = "none"
  BY DEF Unrun

\* What the rule decides is a decision.
LEMMA DecideType ==
  ASSUME NEW f \in BOOLEAN, NEW present, NEW direct, NEW nested, NEW chosen, NEW role, NEW g
  PROVE  Decide(f, present, direct, nested, chosen, role, g) \in Decisions
<1>1. CASE ~f
  BY <1>1 DEF Decide
<1>2. CASE f /\ present # "enabled"
  BY <1>2 DEF Decide
<1>3. CASE f /\ present = "enabled"
  <2> HIDE DEF Decisions
  <2> DEFINE passes == PassesEntra(g, direct, chosen)
             carries == Carried(g, direct, nested) # {} \/ role
             verdict == CASE ~passes -> "leaver" [] passes /\ carries -> "keep"
                          [] OTHER -> IF g.unresolved THEN "undetermined" ELSE "leaver"
  <2>1. Decide(f, present, direct, nested, chosen, role, g) = verdict
    BY <1>3 DEF Decide
  <2> HIDE DEF passes, carries
  <2>2. verdict \in {"leaver", "keep", "undetermined"}
    OBVIOUS
  <2> QED  BY <2>1, <2>2 DEF Decisions
<1> QED  BY <1>1, <1>2, <1>3

LEMMA JudgedType ==
  ASSUME NEW person, NEW groups, NEW chosen, NEW refused
  PROVE  Judged(person, groups, chosen, refused) \in [Accounts -> Decisions]
<1> SUFFICES ASSUME NEW a \in Accounts
             PROVE  Judged(person, groups, chosen, refused)[a] \in Decisions
  BY Zenon DEF Judged
<1>1. (a \in Federated) \in BOOLEAN
  OBVIOUS
<1>2. Decide(a \in Federated, person[a].present, groups[a].direct, person[a].nested, chosen[a], run.users[a].role, gate)
        \in Decisions
  BY <1>1, DecideType, Zenon
<1> QED  BY <1>2 DEF Judged

LEMMA UnfoundType ==
  ASSUME NEW decision \in [Accounts -> Decisions], NEW present, NEW federated
  PROVE  Unfound(decision, present, federated) \in [Accounts -> Decisions]
  BY DEF Unfound

LEMMA RestType ==
  ASSUME NEW decision, NEW opened
  PROVE  Rest(decision, opened) \in 0 .. 4
  BY DEF Rest, Exit

\* The two bounds are kept however a step pays.
LEMMA CountersType ==
  ASSUME others \in 0 .. MaxOthers, faults \in 0 .. MaxFaults, Acted \/ Fails \/ Saves
  PROVE  others' \in 0 .. MaxOthers /\ faults' \in 0 .. MaxFaults
  BY Numbers DEF Acted, Fails, Saves

LEMMA TypeInit == Init => TypeInv
<1> SUFFICES ASSUME Init PROVE TypeInv
  OBVIOUS
<1>1. PICK s \in Starts : account = s.account /\ token = s.token /\ entra = s.entra
  BY DEF Init
<1>2. AccountsType
  BY <1>1, LeaversAssumption DEF AccountsType
<1>3. entra \in [Accounts -> Standings]
  BY <1>1, LeaversAssumption
<1>4. 0 \in 0 .. Settle
  BY Numbers
<1>5. DirectoryType
  BY <1>3, <1>4 DEF DirectoryType, Init
<1>6. AtRest(run, Unrun, NoExit, {})
  BY SomeExits, RestingIs, UnrunIs DEF Init
<1>7. run \in RunType /\ run.pc = "idle"
  BY <1>6 DEF AtRest
<1>8. others \in 0 .. MaxOthers /\ faults \in 0 .. MaxFaults
  BY Numbers DEF Init
<1> QED  BY <1>2, <1>5, <1>7, <1>8 DEF TypeInv

\* The types across a step of somebody else.
LEMMA TouchedType ==
  ASSUME NEW a \in Federated, run \in RunType, Touched(a)
  PROVE  /\ run' \in RunType /\ run' = [run EXCEPT !.stayed = @ \ {a}, !.gone = @ \ {a}]
         /\ run'.pc = run.pc /\ run'.cur = run.cur
  BY DEF Touched, RunType

LEMMA OthersTyped ==
  ASSUME TypeInv, NEW a \in Federated, Moves(a) \/ Settles(a) \/ Mints(a) \/ Edits(a)
  PROVE  TypeInv'
<1> USE DEF TypeInv
<1>1. a \in Accounts
  BY LeaversAssumption
<1>2. CASE Moves(a)
  <2>1. DirectoryType'
    <3>1. Settle \in 0 .. Settle
      BY Numbers
    <3>2. entra[a] \in Standings
      BY <1>1 DEF DirectoryType
    <3> QED  BY <1>1, <1>2, <3>1, <3>2 DEF Moves, DirectoryType
  <2>2. run' \in RunType /\ (run'.pc \in ClosingStages => run'.cur \in Federated)
    BY <1>2, TouchedType DEF Moves
  <2>3. others' \in 0 .. MaxOthers /\ faults' \in 0 .. MaxFaults
    BY <1>2, CountersType DEF Moves
  <2> QED  BY <1>2, <2>1, <2>2, <2>3 DEF Moves, AccountsType
<1>3. CASE Settles(a)
  <2>1. 0 \in 0 .. Settle
    BY Numbers
  <2>2. DirectoryType'
    BY <1>1, <1>3, <2>1 DEF Settles, DirectoryType
  <2> QED  BY <1>3, <2>2 DEF Settles, AccountsType
<1>4. CASE Mints(a)
  <2>1. AccountsType'
    BY <1>1, <1>4 DEF Mints, AccountsType
  <2>2. others' \in 0 .. MaxOthers /\ faults' \in 0 .. MaxFaults
    BY <1>4, CountersType DEF Mints
  <2> QED  BY <1>4, <2>1, <2>2 DEF Mints, DirectoryType
<1>5. CASE Edits(a)
  <2>1. AccountsType'
    BY <1>1, <1>5 DEF Edits, AccountsType
  <2>2. run' \in RunType /\ (run'.pc \in ClosingStages => run'.cur \in Federated)
    BY <1>5, TouchedType DEF Edits
  <2>3. others' \in 0 .. MaxOthers /\ faults' \in 0 .. MaxFaults
    BY <1>5, CountersType DEF Edits
  <2> QED  BY <1>5, <2>1, <2>2, <2>3 DEF Edits, DirectoryType
<1> QED  BY <1>2, <1>3, <1>4, <1>5

\* What a run begins as: refused, a close of one account, or a read of the organization.
ClosesOne(a) ==
  /\ run' \in RunType /\ run'.pc = "get" /\ run'.mode = "close-now" /\ run'.cur = a /\ run'.rest = 0 /\ run'.gone = {}
  /\ run'.stayed = {} /\ run'.moved = {} /\ run'.todo = {}
  /\ run'.result = Unrun /\ run'.exit = NoExit

ReadsAll ==
  /\ run' \in RunType /\ run'.pc = "confirm" /\ run'.round = 0 /\ run'.users = account /\ run'.mine = token
  /\ run'.stayed = {b \in Federated : SignsIn(b)}
  /\ run'.moved = {b \in Federated : \E p \in old[b] : p.chosen # entra[b].chosen}
  /\ run'.gone = {b \in Federated : ~SignsIn(b) /\ old[b] = {}}
  /\ run'.result = Unrun /\ run'.exit = NoExit

LEMMA BeginsIs ==
  ASSUME TypeInv, NEW mode \in Modes, NEW a \in Federated \cup {Nobody}, Begins(mode, a),
         mode = "close-now" => a \in Federated
  PROVE  /\ \/ run' = Resting(Unrun, 3, {})
            \/ mode = "close-now" /\ ClosesOne(a)
            \/ ReadsAll
         /\ Looks /\ (Acted \/ Fails \/ Saves)
<1>1. CASE Fails /\ run' = Resting(Unrun, 3, {})
  BY <1>1 DEF Begins
<1> DEFINE out == {b \in Federated : ~SignsIn(b) /\ old[b] = {}}
           base == Resting(Unrun, NoExit, {})
           full == Resting(Unrun, NoExit, out)
<1>2. NoExit \in ExitCodes /\ 0 \in ExitCodes
  BY SomeExits
<1>3. CASE mode = "close-now" /\ Saves
           /\ run' = [base EXCEPT !.pc = "get", !.mode = mode, !.cur = a, !.mine[a] = token[a], !.rest = 0]
  <2>0. AtRest(base, Unrun, NoExit, {})
    BY RestingIs, UnrunIs, <1>2
  <2>1. base \in RunType /\ base.result = Unrun /\ base.exit = NoExit /\ base.gone = {} /\ base.stayed = {}
        /\ base.moved = {} /\ base.todo = {}
    BY <2>0 DEF AtRest
  <2>2. token[a] \in SUBSET Tokens /\ a \in Accounts
    BY <1>3, LeaversAssumption DEF TypeInv, AccountsType
  <2> HIDE DEF base
  <2>3. ClosesOne(a)
    BY <1>2, <1>3, <2>1, <2>2 DEF ClosesOne, RunType
  <2> QED  BY <1>3, <2>3 DEF Begins
<1>4. CASE mode # "close-now" /\ Saves
           /\ run' = [full EXCEPT !.pc = "confirm", !.mode = mode, !.cur = a, !.users = account, !.mine = token,
                          !.stayed = {b \in Federated : SignsIn(b)},
                          !.moved = {b \in Federated : \E p \in old[b] : p.chosen # entra[b].chosen}]
  <2>1. out \in SUBSET Federated
    OBVIOUS
  <2> HIDE DEF out
  <2>0. AtRest(full, Unrun, NoExit, out)
    BY RestingIs, UnrunIs, <1>2, <2>1
  <2>2. full \in RunType /\ full.result = Unrun /\ full.exit = NoExit /\ full.gone = out /\ full.round = 0
    BY <2>0 DEF AtRest
  <2> HIDE DEF full
  <2>3. account \in [Accounts -> Record] /\ token \in [Accounts -> SUBSET Tokens]
    BY DEF TypeInv, AccountsType
  <2> DEFINE in == {b \in Federated : SignsIn(b)}
             turned == {b \in Federated : \E p \in old[b] : p.chosen # entra[b].chosen}
  <2>4. in \in SUBSET Federated /\ turned \in SUBSET Federated
    OBVIOUS
  <2>5. run' = [full EXCEPT !.pc = "confirm", !.mode = mode, !.cur = a, !.users = account, !.mine = token,
                          !.stayed = in, !.moved = turned]
    BY <1>4
  <2> HIDE DEF in, turned
  <2>6. /\ run' \in RunType /\ run'.pc = "confirm" /\ run'.round = 0 /\ run'.users = account /\ run'.mine = token
        /\ run'.stayed = in /\ run'.moved = turned /\ run'.gone = out /\ run'.result = Unrun /\ run'.exit = NoExit
    BY <2>2, <2>3, <2>4, <2>5, ZenonT(40) DEF RunType
  <2>7. ReadsAll
    BY <2>6 DEF ReadsAll, in, turned, out
  <2> QED  BY <1>4, <2>7 DEF Begins
<1> QED  BY <1>1, <1>3, <1>4 DEF Begins

\* What the run does once it has judged: it closes some of the open leavers and says of itself what that leaves open.
ActsOn(decision, mayClose) ==
  /\ mayClose \subseteq OpenOnes(decision)
  /\ run' \in RunType /\ run'.pc = "next" /\ run'.result = Unrun /\ run'.exit = NoExit /\ run'.gone = run.gone
  /\ run'.todo = mayClose /\ run'.rest = Rest(decision, OpenOnes(decision) \ mayClose)
  /\ run'.stayed = run.stayed \cap mayClose /\ run'.moved = run.moved \cap mayClose

LEMMA ActsIs ==
  ASSUME run \in RunType, NEW decision, Acts(decision)
  PROVE  \E mayClose \in SUBSET Federated : ActsOn(decision, mayClose)
<1> DEFINE opened == OpenOnes(decision)
           mayClose == IF Guard(Cardinality(opened), Cardinality(Federated), MaxLeavers) THEN {}
                       ELSE CASE run.mode = "report" -> {} [] run.mode = "user" -> opened \cap {run.cur} [] OTHER -> opened
           base == Resting(Unrun, NoExit, run.gone)
           rest == Rest(decision, opened \ mayClose)
           mine == [a \in Accounts |-> IF a \in mayClose THEN run.mine[a] ELSE {}]
<1>1. run' = [base EXCEPT !.pc = "next", !.mode = run.mode, !.todo = mayClose, !.rest = rest, !.mine = mine,
                          !.stayed = run.stayed \cap mayClose, !.moved = run.moved \cap mayClose]
  BY Zenon DEF Acts
<1>2. opened \subseteq Federated
  BY DEF OpenOnes
<1>3. mayClose \subseteq opened
  <2> HIDE DEF opened
  <2>1. CASE Guard(Cardinality(opened), Cardinality(Federated), MaxLeavers)
    BY <2>1
  <2>2. CASE ~Guard(Cardinality(opened), Cardinality(Federated), MaxLeavers)
    <3>1. CASE run.mode = "report"
      BY <2>2, <3>1
    <3>2. CASE run.mode = "user"
      BY <2>2, <3>2
    <3>3. CASE run.mode \notin {"report", "user"}
      BY <2>2, <3>3
    <3> QED  BY <3>1, <3>2, <3>3
  <2> QED  BY <2>1, <2>2
<1>4. run.gone \in SUBSET Federated /\ run.mine \in [Accounts -> SUBSET Tokens] /\ run.mode \in Modes
      /\ run.stayed \in SUBSET Federated /\ run.moved \in SUBSET Federated
  BY DEF RunType
<1>5. AtRest(base, Unrun, NoExit, run.gone)
  BY <1>4, RestingIs, UnrunIs, SomeExits
<1> HIDE DEF base
<1>6. base \in RunType /\ base.result = Unrun /\ base.exit = NoExit /\ base.gone = run.gone
  BY <1>5 DEF AtRest
<1>7. rest \in ExitCodes
  BY RestType, ExitCodesAre
<1>8. mine \in [Accounts -> SUBSET Tokens]
  BY <1>4
<1> HIDE DEF mayClose, rest, mine, opened
<1>9. /\ run' \in RunType /\ run'.pc = "next" /\ run'.result = Unrun /\ run'.exit = NoExit /\ run'.gone = run.gone
      /\ run'.todo = mayClose /\ run'.rest = rest
      /\ run'.stayed = run.stayed \cap mayClose /\ run'.moved = run.moved \cap mayClose
  BY <1>1, <1>2, <1>3, <1>4, <1>6, <1>7, <1>8, ZenonT(40) DEF RunType
<1>10. ActsOn(decision, mayClose)
  BY <1>3, <1>9 DEF ActsOn, rest, opened
<1> QED  BY <1>2, <1>3, <1>10

\* The first read either finds nobody to ask about again or begins the rounds.
AsksAgain(decision, chosen) ==
  run' = [run EXCEPT !.round = 1, !.decision = decision, !.chosen = chosen, !.pending = OpenOnes(decision)]

FirstJudgement(person, groups, assigned, refused) ==
  LET chosen == [a \in Accounts |-> a \in Federated /\ assigned[a].chosen]
      found == [a \in Federated |-> IF a \in refused THEN "unread" ELSE person[a].present]
  IN  Unfound(Judged(person, groups, chosen, refused), found, Federated)

AllUnread == [a \in Accounts |-> IF a \in Federated THEN "undetermined" ELSE "out of scope"]

LEMMA FirstReadIs ==
  ASSUME run \in RunType, FirstRead
  PROVE  /\ At("confirm") /\ run.round = 0 /\ Looks /\ (Acted \/ Fails \/ Saves)
         /\ \/ \E person, groups, assigned \in Views, refused \in Refused(Federated) :
                 LET chosen == [a \in Accounts |-> a \in Federated /\ assigned[a].chosen]
                     decision == FirstJudgement(person, groups, assigned, refused)
                 IN  /\ chosen \in [Accounts -> BOOLEAN] /\ decision \in [Accounts -> Decisions]
                     /\ \/ OpenOnes(decision) = {} /\ Acts(decision)
                        \/ AsksAgain(decision, chosen)
            \/ Acts(AllUnread)
<1>1. CASE \E person, groups, assigned \in Views, refused \in Refused(Federated) :
             /\ Pays(refused)
             /\ LET chosen == [a \in Accounts |-> a \in Federated /\ assigned[a].chosen]
                IN  After(FirstJudgement(person, groups, assigned, refused), chosen)
  <2>1. PICK person, groups, assigned \in Views, refused \in Refused(Federated) :
             /\ Pays(refused)
             /\ LET chosen == [a \in Accounts |-> a \in Federated /\ assigned[a].chosen]
                IN  After(FirstJudgement(person, groups, assigned, refused), chosen)
    BY <1>1, Zenon
  <2> DEFINE chosen == [a \in Accounts |-> a \in Federated /\ assigned[a].chosen]
             decision == FirstJudgement(person, groups, assigned, refused)
  <2>2. chosen \in [Accounts -> BOOLEAN]
    OBVIOUS
  <2>3. decision \in [Accounts -> Decisions]
    BY JudgedType, UnfoundType, Zenon DEF FirstJudgement
  <2>4. After(decision, chosen)
    BY <2>1
  <2> HIDE DEF decision, chosen
  <2>5. \/ OpenOnes(decision) = {} /\ Acts(decision)
        \/ AsksAgain(decision, chosen)
    BY <2>4, Zenon DEF After, AsksAgain
  <2>6. Acted \/ Fails \/ Saves
    BY <2>1 DEF Pays
  <2> QED  BY <2>2, <2>3, <2>5, <2>6, Zenon DEF FirstRead, decision, chosen
<1>2. CASE Fails /\ Acts([a \in Accounts |-> IF a \in Federated THEN "undetermined" ELSE "out of scope"])
  BY <1>2, Zenon DEF FirstRead, AllUnread
<1> QED  BY <1>1, <1>2, Zenon DEF FirstRead, FirstJudgement

\* A later read keeps a verdict only where it agrees.
LaterJudgement(person, groups, refused) ==
  LET judged == Judged(person, groups, run.chosen, refused)
  IN  [a \in Accounts |-> IF a \in run.pending /\ judged[a] # "leaver" THEN "undetermined" ELSE run.decision[a]]

AsksLater(decision) == run' = [run EXCEPT !.pc = "pause", !.round = @ + 1, !.decision = decision]

LEMMA ConfirmsIs ==
  ASSUME run \in RunType, Confirms
  PROVE  /\ At("confirm") /\ run.round > 0 /\ Looks /\ (Acted \/ Fails \/ Saves)
         /\ \E person, groups \in Views, refused \in Refused(run.pending) :
              LET decision == LaterJudgement(person, groups, refused)
              IN  /\ decision \in [Accounts -> Decisions]
                  /\ \/ run.round = ConfirmReads /\ Acts(decision)
                     \/ run.round # ConfirmReads /\ AsksLater(decision)
<1>1. PICK person, groups \in Views, refused \in Refused(run.pending) :
        /\ Pays(refused)
        /\ LET decision == LaterJudgement(person, groups, refused)
           IN  IF run.round = ConfirmReads THEN Acts(decision) ELSE AsksLater(decision)
  BY Zenon DEF Confirms, LaterJudgement, AsksLater
<1> DEFINE decision == LaterJudgement(person, groups, refused)
<1>2. decision \in [Accounts -> Decisions]
  BY DEF LaterJudgement, RunType
<1>3. \/ run.round = ConfirmReads /\ Acts(decision)
      \/ run.round # ConfirmReads /\ AsksLater(decision)
  BY <1>1
<1>4. Acted \/ Fails \/ Saves
  BY <1>1 DEF Pays
<1>5. At("confirm") /\ run.round > 0 /\ Looks
  BY DEF Confirms
<1> HIDE DEF decision
<1> QED  BY <1>2, <1>3, <1>4, <1>5, Zenon DEF decision

\* The types across a step of the run that only looks.
LEMMA LooksTyped ==
  ASSUME TypeInv, Looks, Acted \/ Fails \/ Saves, run' \in RunType, run'.pc \in ClosingStages => run'.cur \in Federated
  PROVE  TypeInv'
<1>1. others' \in 0 .. MaxOthers /\ faults' \in 0 .. MaxFaults
  BY CountersType DEF TypeInv
<1> QED  BY <1>1 DEF TypeInv, AccountsType, DirectoryType, Looks, Here

LEMMA BeginsTyped ==
  ASSUME TypeInv, NEW mode \in Modes, NEW a \in Federated \cup {Nobody}, Begins(mode, a),
         mode = "close-now" => a \in Federated
  PROVE  TypeInv'
<1>1. CASE run' = Resting(Unrun, 3, {})
  <2>1. AtRest(run', Unrun, 3, {})
    BY <1>1, RestingIs, UnrunIs, SomeExits
  <2> QED  BY <2>1, BeginsIs, LooksTyped DEF AtRest
<1>2. CASE mode = "close-now" /\ ClosesOne(a)
  BY <1>2, BeginsIs, LooksTyped DEF ClosesOne
<1>3. CASE ReadsAll
  BY <1>3, BeginsIs, LooksTyped DEF ReadsAll
<1> QED  BY <1>1, <1>2, <1>3, BeginsIs

LEMMA ReadsTyped ==
  ASSUME TypeInv, FirstRead \/ Confirms
  PROVE  TypeInv'
<1>1. run \in RunType
  BY DEF TypeInv
<1>2. ASSUME NEW decision, Acts(decision), Looks, Acted \/ Fails \/ Saves PROVE TypeInv'
  BY <1>1, <1>2, ActsIs, LooksTyped DEF ActsOn
<1>3. CASE FirstRead
  <2>1. ASSUME NEW decision \in [Accounts -> Decisions], NEW chosen \in [Accounts -> BOOLEAN], AsksAgain(decision, chosen)
        PROVE  run' \in RunType /\ run'.pc = run.pc
    <3>1. OpenOnes(decision) \in SUBSET Federated
      BY DEF OpenOnes
    <3>2. 1 \in 0 .. ConfirmReads
      BY Numbers
    <3> QED  BY <1>1, <2>1, <3>1, <3>2 DEF AsksAgain, RunType
  <2>2. /\ At("confirm") /\ Looks /\ (Acted \/ Fails \/ Saves)
        /\ \/ \E decision \in [Accounts -> Decisions], chosen \in [Accounts -> BOOLEAN] : AsksAgain(decision, chosen)
           \/ \E decision : Acts(decision)
    BY <1>1, <1>3, FirstReadIs, Zenon
  <2> QED  BY <1>2, <2>1, <2>2, LooksTyped DEF At
<1>4. CASE Confirms
  <2>1. ASSUME NEW decision \in [Accounts -> Decisions], AsksLater(decision), run.round # ConfirmReads
        PROVE  run' \in RunType /\ run'.pc = "pause"
    <3>1. run.round + 1 \in 0 .. ConfirmReads
      BY <1>1, <2>1, NextRound DEF RunType
    <3> QED  BY <1>1, <2>1, <3>1 DEF AsksLater, RunType
  <2>2. /\ At("confirm") /\ Looks /\ (Acted \/ Fails \/ Saves)
        /\ \/ \E decision \in [Accounts -> Decisions] : AsksLater(decision) /\ run.round # ConfirmReads
           \/ \E decision : Acts(decision)
    BY <1>1, <1>4, ConfirmsIs, Zenon
  <2> QED  BY <1>2, <2>1, <2>2, LooksTyped
<1> QED  BY <1>3, <1>4


LEMMA PausesTyped ==
  ASSUME TypeInv, Pauses
  PROVE  TypeInv' /\ run' = [run EXCEPT !.pc = "confirm"] /\ run'.pc = "confirm"
<1>1. run' \in RunType /\ run'.pc = "confirm" /\ run' = [run EXCEPT !.pc = "confirm"]
  BY DEF TypeInv, Pauses, RunType
<1>2. lag' \in [Accounts -> 0 .. Settle]
  BY Numbers DEF TypeInv, DirectoryType, Pauses
<1>3. old' \in [Accounts -> SUBSET Standings]
  BY DEF TypeInv, DirectoryType, Pauses
<1>4. others' \in 0 .. MaxOthers /\ faults' \in 0 .. MaxFaults
  BY CountersType DEF TypeInv, Pauses
<1> QED  BY <1>1, <1>2, <1>3, <1>4 DEF TypeInv, AccountsType, DirectoryType, Pauses, Here

\* How a run comes to rest.
Rests ==
  \/ /\ At("next") /\ run.todo = {}
     /\ AtRest(run', run.result, IF \E a \in Accounts : run.result[a] = "not held" THEN 2 ELSE run.rest, run.gone)
  \/ AtRest(run', run.result, NoExit, {})

LEMMA RestsIs ==
  ASSUME TypeInv, (NextClose /\ run.todo = {}) \/ Dies
  PROVE  Rests /\ Looks /\ (Acted \/ Fails \/ Saves)
<1>1. run.result \in [Accounts -> Outcomes] /\ run.rest \in ExitCodes /\ run.gone \in SUBSET Federated
  BY DEF TypeInv, RunType
<1>2. CASE NextClose /\ run.todo = {}
  <2> DEFINE code == IF \E a \in Accounts : run.result[a] = "not held" THEN 2 ELSE run.rest
  <2>1. code \in ExitCodes
    BY <1>1, SomeExits
  <2>2. run' = Resting(run.result, code, run.gone) /\ At("next") /\ Looked
    BY <1>2 DEF NextClose
  <2> HIDE DEF code
  <2>3. AtRest(run', run.result, code, run.gone)
    BY <1>1, <2>1, <2>2, RestingIs
  <2> QED  BY <1>2, <2>2, <2>3 DEF Rests, Looked, code
<1>3. CASE Dies
  <2>1. AtRest(run', run.result, NoExit, {})
    BY <1>1, <1>3, SomeExits, RestingIs DEF Dies
  <2> QED  BY <1>3, <2>1 DEF Rests, Dies
<1> QED  BY <1>2, <1>3

LEMMA ClosingLooksTyped ==
  ASSUME TypeInv, NextClose \/ Gets \/ Revoked \/ ReadsAccount \/ ReadsTokens \/ Dies
  PROVE  TypeInv'
<1>1. run \in RunType /\ account \in [Accounts -> Record] /\ (run.pc \in ClosingStages => run.cur \in Federated)
      /\ Federated \subseteq Accounts
  BY LeaversAssumption DEF TypeInv, AccountsType
<1>2. CASE (NextClose /\ run.todo = {}) \/ Dies
  <2>1. run' \in RunType /\ run'.pc = "idle"
    BY <1>2, RestsIs DEF Rests, AtRest
  <2> QED  BY <1>2, <2>1, RestsIs, LooksTyped
<1>3. CASE NextClose /\ run.todo # {}
  <2>1. PICK a \in run.todo : run' = [run EXCEPT !.pc = "get", !.cur = a, !.todo = @ \ {a}]
    BY <1>3 DEF NextClose
  <2>2. run' \in RunType /\ run'.cur \in Federated
    BY <1>1, <2>1 DEF RunType
  <2> QED  BY <1>3, <2>2, LooksTyped DEF NextClose, Looked
<1>4. CASE Gets \/ ReadsAccount \/ ReadsTokens \/ Revoked
  <2>1. Looks /\ (Acted \/ Fails \/ Saves) /\ run.pc \in ClosingStages
    BY <1>4 DEF Gets, ReadsAccount, ReadsTokens, Revoked, Refuses, Looked, At
  <2>2. Cur \in Accounts /\ account[Cur] \in Record /\ run.mine[Cur] \in SUBSET Tokens /\ run.cur \in Federated
    BY <1>1, <2>1 DEF RunType, Cur
  <2>3. run' \in RunType /\ run'.cur = run.cur
    <3>1. CASE NotHeld
      BY <1>1, <2>2, <3>1 DEF NotHeld, RunType
    <3>2. CASE run' = [run EXCEPT !.pc = "revoke", !.before = account[Cur], !.revoking = run.mine[Cur], !.clean = TRUE]
      BY <1>1, <2>2, <3>2 DEF RunType
    <3>3. CASE Goes(IF run.before.enabled THEN "put" ELSE "back")
      BY <1>1, <2>2, <3>3, ZenonT(40) DEF Goes, RunType
    <3>4. CASE run' = [run EXCEPT !.pc = "left",
                         !.clean = @ /\ ~account[Cur].enabled /\ account[Cur].role = run.before.role]
      <4> DEFINE clean == run.clean /\ ~account[Cur].enabled /\ account[Cur].role = run.before.role
      <4>1. clean \in BOOLEAN
        OBVIOUS
      <4>2. run' = [run EXCEPT !.pc = "left", !.clean = clean]
        BY <3>4, Zenon
      <4> HIDE DEF clean
      <4> QED  BY <1>1, <4>1, <4>2, ZenonT(40) DEF RunType
    <3>5. CASE run' = [run EXCEPT !.pc = "next",
                  !.result[Cur] = IF run.clean /\ token[Cur] = {} THEN "held" ELSE "not held"]
      BY <1>1, <2>2, <3>5, ZenonT(40) DEF RunType
    <3> QED  BY <1>4, <3>1, <3>2, <3>3, <3>4, <3>5 DEF Gets, ReadsAccount, ReadsTokens, Revoked, Refuses
  <2> QED  BY <2>1, <2>2, <2>3, LooksTyped
<1> QED  BY <1>2, <1>3, <1>4

LEMMA WritesTyped ==
  ASSUME TypeInv, Revokes \/ Disables \/ Clears
  PROVE  TypeInv'
<1>1. run \in RunType /\ account \in [Accounts -> Record] /\ token \in [Accounts -> SUBSET Tokens]
      /\ (run.pc \in ClosingStages => run.cur \in Federated) /\ Federated \subseteq Accounts
  BY LeaversAssumption DEF TypeInv, AccountsType
<1>2. run.pc \in ClosingStages /\ (Acted \/ Fails \/ Saves) /\ UNCHANGED <<entra, old, lag, gate>>
  BY Zenon DEF Revokes, Disables, Clears, Puts, At
<1>3. Cur \in Accounts /\ run.cur \in Federated
  BY <1>1, <1>2 DEF Cur
<1>4. others' \in 0 .. MaxOthers /\ faults' \in 0 .. MaxFaults
  BY <1>2, CountersType DEF TypeInv
<1>5. DirectoryType'
  BY <1>2 DEF TypeInv, DirectoryType
<1>6. run' \in RunType /\ run'.cur = run.cur /\ AccountsType'
  <2>1. CASE Revokes
    <3>1. PICK t \in run.revoking :
            /\ token' = [token EXCEPT ![Cur] = @ \ {t}] \/ UNCHANGED token
            /\ \/ run' = [run EXCEPT !.revoking = @ \ {t}, !.clean = @ /\ t \in token[Cur]]
               \/ run' = [run EXCEPT !.revoking = @ \ {t}, !.clean = FALSE]
      BY <2>1 DEF Revokes
    <3>2. run' \in RunType /\ run'.cur = run.cur
      <4> DEFINE clean == run.clean /\ t \in token[Cur]
      <4>1. clean \in BOOLEAN /\ run.revoking \ {t} \in SUBSET Tokens
        BY <1>1 DEF RunType
      <4>2. \/ run' = [run EXCEPT !.revoking = @ \ {t}, !.clean = clean]
            \/ run' = [run EXCEPT !.revoking = @ \ {t}, !.clean = FALSE]
        BY <3>1, Zenon
      <4> HIDE DEF clean
      <4>3. CASE run' = [run EXCEPT !.revoking = @ \ {t}, !.clean = clean]
        BY <1>1, <4>1, <4>3 DEF RunType
      <4>4. CASE run' = [run EXCEPT !.revoking = @ \ {t}, !.clean = FALSE]
        BY <1>1, <4>1, <4>4 DEF RunType
      <4> QED  BY <4>2, <4>3, <4>4
    <3>3. AccountsType'
      <4>1. CASE UNCHANGED token
        BY <2>1, <4>1 DEF TypeInv, AccountsType, Revokes
      <4>2. CASE token' = [token EXCEPT ![Cur] = @ \ {t}]
        <5>1. token' \in [Accounts -> SUBSET Tokens] /\ \A a \in Accounts : token'[a] \subseteq token[a]
          BY <1>1, <1>3, <4>2
        <5>2. \A a, b \in Accounts : a # b => token'[a] \cap token'[b] = {}
          BY <5>1 DEF TypeInv, AccountsType
        <5> QED  BY <1>1, <2>1, <5>1, <5>2 DEF AccountsType, Revokes
      <4> QED  BY <3>1, <4>1, <4>2
    <3> QED  BY <3>2, <3>3
  <2>2. ASSUME NEW pc, NEW record \in Record, Puts(pc, record)
        PROVE  run' \in RunType /\ run'.cur = run.cur /\ AccountsType'
    <3>1. run' \in RunType /\ run'.cur = run.cur
      <4>1. CASE Goes("clear")
        BY <1>1, <4>1 DEF Goes, RunType
      <4>2. CASE Goes("back")
        BY <1>1, <4>2, ZenonT(40) DEF Goes, RunType
      <4>3. CASE NotHeld
        BY <1>1, <1>3, <4>3 DEF NotHeld, RunType
      <4> QED  BY <2>2, <4>1, <4>2, <4>3 DEF Puts
    <3>2. account' \in [Accounts -> Record]
      BY <1>1, <1>3, <2>2 DEF Puts
    <3> QED  BY <2>2, <3>1, <3>2 DEF TypeInv, AccountsType, Puts
  <2>3. Disabled(run.before) \in Record /\ [Disabled(run.before) EXCEPT !.email = FALSE] \in Record
    BY <1>1 DEF RunType, Disabled
  <2> QED  BY <2>1, <2>2, <2>3 DEF Disables, Clears
<1> QED  BY <1>3, <1>4, <1>5, <1>6 DEF TypeInv

LEMMA TypeNext == TypeInv /\ [Next]_vars => TypeInv'
<1> SUFFICES ASSUME TypeInv, [Next]_vars PROVE TypeInv'
  OBVIOUS
<1>1. CASE UNCHANGED vars
  BY <1>1 DEF vars, TypeInv, AccountsType, DirectoryType
<1>2. ASSUME NEW a \in Accounts, ExecutesOn(a) \/ ClosesNow(a) PROVE TypeInv'
  BY <1>2, BeginsTyped DEF ExecutesOn, ClosesNow
<1>3. CASE Reports \/ Executes
  BY <1>3, BeginsTyped DEF Reports, Executes
<1> QED
  BY <1>1, <1>2, <1>3, OthersTyped, ReadsTyped, PausesTyped, ClosingLooksTyped, WritesTyped DEF Next, Steps

\* The types of a run of leavers.py and of what it works on, for any organization.
THEOREM LeaversTypes == Spec => []TypeOK
<1>1. Spec => []TypeInv
  BY TypeInit, TypeNext, PTL DEF Spec
<1> QED  BY <1>1, TypeInvTypes, PTL

-----------------------------------------------------------------------------
(* A close that held. *)

\* The steps of a run that only look.
RunLooks ==
  \/ Reports \/ Executes \/ (\E a \in Accounts : ExecutesOn(a) \/ ClosesNow(a))
  \/ FirstRead \/ Confirms \/ NextClose \/ Gets \/ Revoked \/ ReadsAccount \/ ReadsTokens \/ Dies

LEMMA RunLooksIs == RunLooks => Looks
  BY Zenon DEF RunLooks, Reports, Executes, ExecutesOn, ClosesNow, Begins, FirstRead, Confirms, NextClose, Gets, Revoked,
               ReadsAccount, ReadsTokens, Dies, Refuses, Looked

LEMMA NextIs ==
  ASSUME [Next]_vars
  PROVE  \/ UNCHANGED vars
         \/ \E a \in Federated : Moves(a) \/ Settles(a) \/ Mints(a) \/ Edits(a)
         \/ RunLooks
         \/ Pauses \/ Revokes \/ Disables \/ Clears
  BY Zenon DEF Next, Steps, RunLooks

LEMMA InitLag == Init => LagInv
  BY DEF Init, LagInv

LEMMA NextLag == TypeInv /\ LagInv /\ [Next]_vars => LagInv'
<1> SUFFICES ASSUME TypeInv, LagInv, [Next]_vars PROVE LagInv'
  OBVIOUS
<1>1. CASE UNCHANGED <<old, lag>>
  BY <1>1 DEF LagInv
<1>2. ASSUME NEW a \in Federated, Moves(a) \/ Settles(a) PROVE LagInv'
  <2>1. lag' = [lag EXCEPT ![a] = Settle] \/ (lag' = [lag EXCEPT ![a] = 0] /\ old' = [old EXCEPT ![a] = {}])
    BY <1>2 DEF Moves, Settles
  <2>2. \A b \in Accounts : b # a => old'[b] = old[b] /\ lag'[b] = lag[b]
    BY <1>2 DEF Moves, Settles, TypeInv, DirectoryType
  <2>3. a \in Accounts /\ (lag'[a] = Settle \/ old'[a] = {})
    BY <2>1, LeaversAssumption DEF TypeInv, DirectoryType
  <2> QED  BY <2>2, <2>3, Numbers DEF LagInv
<1>3. CASE Pauses
  BY <1>3 DEF Pauses, LagInv
<1>4. CASE UNCHANGED vars \/ RunLooks \/ (\E a \in Federated : Mints(a) \/ Edits(a)) \/ Revokes \/ Disables \/ Clears
  BY <1>1, <1>4, RunLooksIs DEF vars, Looks, Mints, Edits, Revokes, Disables, Clears, Puts
<1> QED  BY <1>2, <1>3, <1>4, NextIs

\* No step gives an account its sign-in back, and an account without one gets no token.
LEMMA DisabledForGood ==
  ASSUME TypeInv, [Next]_vars, NEW a \in Accounts, ~account[a].enabled
  PROVE  ~account'[a].enabled /\ token'[a] \subseteq token[a]
<1>1. account \in [Accounts -> Record] /\ token \in [Accounts -> SUBSET Tokens] /\ run \in RunType
  BY DEF TypeInv, AccountsType
<1>2. CASE UNCHANGED <<account, token>>
  BY <1>2
<1>3. ASSUME NEW b \in Federated, Mints(b) PROVE ~account'[a].enabled /\ token'[a] \subseteq token[a]
  BY <1>1, <1>3 DEF Mints
<1>4. ASSUME NEW b \in Federated, Edits(b) PROVE ~account'[a].enabled /\ token'[a] \subseteq token[a]
  BY <1>1, <1>4 DEF Edits
<1>5. CASE Revokes
  BY <1>1, <1>5 DEF Revokes
<1>6. ASSUME NEW pc, NEW record \in Record, ~record.enabled, Puts(pc, record)
      PROVE  ~account'[a].enabled /\ token'[a] \subseteq token[a]
  BY <1>1, <1>6 DEF Puts
<1>7. Disabled(run.before) \in Record /\ ~Disabled(run.before).enabled
      /\ [Disabled(run.before) EXCEPT !.email = FALSE] \in Record
      /\ ~[Disabled(run.before) EXCEPT !.email = FALSE].enabled
  BY <1>1 DEF RunType, Disabled
<1>8. CASE Disables \/ Clears
  BY <1>6, <1>7, <1>8 DEF Disables, Clears
<1>9. CASE UNCHANGED vars \/ RunLooks \/ Pauses \/ \E b \in Federated : Moves(b) \/ Settles(b)
  BY <1>2, <1>9, RunLooksIs DEF vars, Looks, Here, Pauses, Moves, Settles
<1> QED  BY <1>3, <1>4, <1>5, <1>8, <1>9, NextIs

LEMMA ClosedForGood ==
  ASSUME TypeInv, [Next]_vars, NEW a \in Accounts, Closed(a)
  PROVE  Closed(a)'
  BY DisabledForGood DEF Closed

LEMMA InitHeld == Init => HeldInv
<1> SUFFICES ASSUME Init PROVE HeldInv
  OBVIOUS
<1>1. AtRest(run, Unrun, NoExit, {})
  BY SomeExits, RestingIs, UnrunIs DEF Init
<1> QED  BY <1>1, UnrunIs DEF AtRest, HeldInv, HeldIsClosed, At

LEMMA NextHeld == TypeInv /\ HeldInv /\ [Next]_vars => HeldInv'
<1> SUFFICES ASSUME TypeInv, HeldInv, [Next]_vars PROVE HeldInv'
  OBVIOUS
<1> USE DEF At, Cur
<1>1. run \in RunType /\ (run.pc \in ClosingStages => run.cur \in Federated) /\ Federated \subseteq Accounts
  BY LeaversAssumption DEF TypeInv
\* Enough: every account that counts as held did so before, or is closed now.
<1>2. ASSUME \A a \in Accounts : run'.result[a] = "held" => run.result[a] = "held" \/ Closed(a),
             run'.pc = "left" /\ run'.clean =>
               /\ run'.cur \in Accounts /\ ~account[run'.cur].enabled
      PROVE  HeldInv'
  <2>1. HeldIsClosed'
    BY <1>2, ClosedForGood DEF HeldInv, HeldIsClosed
  <2> QED  BY <1>2, <2>1, DisabledForGood DEF HeldInv
<1>3. ASSUME run'.result = run.result \/ run'.result = Unrun, run'.pc # "left"
      PROVE  HeldInv'
  BY <1>2, <1>3, UnrunIs
<1>4. CASE run' = run
  BY <1>1, <1>2, <1>4 DEF HeldInv
<1>5. ASSUME NEW a \in Federated, Touched(a) PROVE HeldInv'
  <2>1. run'.result = run.result /\ run'.pc = run.pc /\ run'.cur = run.cur /\ run'.clean = run.clean
    BY <1>1, <1>5 DEF Touched, RunType
  <2> QED  BY <1>1, <1>2, <2>1 DEF HeldInv
<1>6. CASE UNCHANGED vars \/ \E a \in Federated : Moves(a) \/ Settles(a) \/ Mints(a) \/ Edits(a)
  BY <1>4, <1>5, <1>6 DEF vars, Moves, Settles, Mints, Edits
<1>7. ASSUME NEW mode \in Modes, NEW a \in Federated \cup {Nobody}, mode = "close-now" => a \in Federated,
             Begins(mode, a)
      PROVE  HeldInv'
  <2>1. CASE run' = Resting(Unrun, 3, {})
    <3>1. AtRest(run', Unrun, 3, {})
      BY <2>1, RestingIs, UnrunIs, SomeExits
    <3> QED  BY <1>3, <3>1 DEF AtRest
  <2>2. CASE ClosesOne(a) \/ ReadsAll
    BY <1>3, <2>2 DEF ClosesOne, ReadsAll
  <2> QED  BY <1>7, <2>1, <2>2, BeginsIs
<1>8. CASE Reports \/ Executes \/ \E a \in Accounts : ExecutesOn(a) \/ ClosesNow(a)
  BY <1>7, <1>8 DEF Reports, Executes, ExecutesOn, ClosesNow
<1>9. ASSUME NEW decision, Acts(decision) PROVE HeldInv'
  BY <1>1, <1>3, <1>9, ActsIs DEF ActsOn
<1>10. CASE FirstRead
  <2>1. ASSUME NEW decision, NEW chosen, AsksAgain(decision, chosen) PROVE run'.result = run.result /\ run'.pc = run.pc
    BY <1>1, <2>1 DEF AsksAgain, RunType
  <2>2. /\ run.pc = "confirm"
        /\ \/ \E decision, chosen : AsksAgain(decision, chosen)
           \/ \E decision : Acts(decision)
    BY <1>1, <1>10, FirstReadIs, Zenon
  <2> QED  BY <1>3, <1>9, <2>1, <2>2
<1>11. CASE Confirms
  <2>1. ASSUME NEW decision, AsksLater(decision) PROVE run'.result = run.result /\ run'.pc = "pause"
    BY <1>1, <2>1 DEF AsksLater, RunType
  <2>2. (\E decision : AsksLater(decision)) \/ (\E decision : Acts(decision))
    BY <1>1, <1>11, ConfirmsIs, Zenon
  <2> QED  BY <1>3, <1>9, <2>1, <2>2
<1>12. CASE Pauses
  BY <1>1, <1>3, <1>12 DEF Pauses, RunType
<1>13. CASE (NextClose /\ run.todo = {}) \/ Dies
  BY <1>3, <1>13, RestsIs DEF Rests, AtRest
<1>14. CASE (NextClose /\ run.todo # {}) \/ Revoked
  BY <1>1, <1>3, <1>14, ZenonT(40) DEF NextClose, Revoked, Goes, RunType
<1>15. CASE NotHeld /\ run.pc \in ClosingStages
  <2>1. run'.result = [run.result EXCEPT ![run.cur] = "not held"] /\ run'.pc = "next"
    BY <1>1, <1>15 DEF NotHeld, RunType
  <2>2. \A a \in Accounts : run'.result[a] = "held" => run.result[a] = "held"
    BY <1>1, <2>1 DEF RunType
  <2> QED  BY <1>2, <2>1, <2>2
<1>16. CASE Gets
  <2>1. CASE NotHeld
    BY <1>15, <1>16, <2>1 DEF Gets, Refuses
  <2>2. CASE ~NotHeld
    BY <1>1, <1>3, <1>16, <2>2, ZenonT(40) DEF Gets, Refuses, RunType
  <2> QED  BY <2>1, <2>2
<1>17. CASE Revokes
  BY <1>1, <1>3, <1>17, ZenonT(40) DEF Revokes, RunType
<1>18. ASSUME NEW pc \in ClosingStages, NEW record, Puts(pc, record) PROVE HeldInv'
  <2>1. CASE NotHeld
    BY <1>15, <1>18, <2>1 DEF Puts
  <2>2. CASE Goes("clear") \/ Goes("back")
    BY <1>1, <1>3, <2>2 DEF Goes, RunType
  <2> QED  BY <1>18, <2>1, <2>2 DEF Puts
<1>19. CASE ReadsAccount
  <2>1. CASE NotHeld
    BY <1>15, <1>19, <2>1 DEF ReadsAccount, Refuses
  <2>2. CASE ~NotHeld
    <3> DEFINE clean == run.clean /\ ~account[run.cur].enabled /\ account[run.cur].role = run.before.role
    <3>1. run' = [run EXCEPT !.pc = "left", !.clean = clean] /\ run.cur \in Accounts
      BY <1>1, <1>19, <2>2, Zenon DEF ReadsAccount, Refuses
    <3>2. clean => ~account[run.cur].enabled
      OBVIOUS
    <3> HIDE DEF clean
    <3>3. run'.result = run.result /\ run'.cur = run.cur /\ run'.clean = clean
      BY <1>1, <3>1 DEF RunType
    <3> QED  BY <1>1, <1>2, <3>1, <3>2, <3>3
  <2> QED  BY <2>1, <2>2
<1>20. CASE ReadsTokens
  <2>1. CASE NotHeld
    BY <1>15, <1>20, <2>1 DEF ReadsTokens, Refuses
  <2>2. CASE ~NotHeld
    <3>1. /\ run' = [run EXCEPT !.pc = "next",
                       !.result[run.cur] = IF run.clean /\ token[run.cur] = {} THEN "held" ELSE "not held"]
          /\ run.pc = "left" /\ run.cur \in Accounts
      BY <1>1, <1>20, <2>2, Zenon DEF ReadsTokens, Refuses
    <3>2. \A a \in Accounts : a # run.cur => run'.result[a] = run.result[a]
      BY <1>1, <3>1 DEF RunType
    <3>3. run'.result[run.cur] = "held" => run.clean /\ token[run.cur] = {}
      BY <1>1, <3>1 DEF RunType
    <3>4. run'.result[run.cur] = "held" => Closed(run.cur)
      BY <3>1, <3>3 DEF HeldInv, Closed
    <3>5. run'.pc = "next"
      BY <1>1, <3>1 DEF RunType
    <3> QED  BY <1>2, <3>2, <3>4, <3>5
  <2> QED  BY <2>1, <2>2
<1> QED
  BY <1>6, <1>8, <1>10, <1>11, <1>12, <1>13, <1>14, <1>16, <1>17, <1>18, <1>19, <1>20, NextIs
     DEF RunLooks, Disables, Clears

\* A close that says it held has closed: the account is disabled and owns no token, and nothing gives either back.
THEOREM HeldAlwaysClosed == Spec => []HeldIsClosed
<1>1. Spec => [](TypeInv /\ HeldInv)
  BY TypeInit, TypeNext, InitHeld, NextHeld, PTL DEF Spec
<1>2. HeldInv => HeldIsClosed
  BY DEF HeldInv
<1> QED  BY <1>1, <1>2, PTL

-----------------------------------------------------------------------------
(* Judging. *)

\* The rule lets in exactly who signs in.
Admits(g, p, chosen, role) ==
  p.present = "enabled" /\ PassesEntra(g, p.direct, chosen) /\ (Carried(g, p.direct, p.nested) # {} \/ role)

LEMMA RuleIsSignIn ==
  ASSUME NEW a
  PROVE  SignsIn(a) <=> Admits(gate, entra[a], entra[a].chosen, account[a].role)
<1> DEFINE p == entra[a]
           carried == {g \in gate.imported : IF gate.claims = "ApplicationGroup" THEN g \in gate.assigned /\ g \in p.direct
                                             ELSE g \in p.nested}
<1>1. carried = Carried(gate, p.direct, p.nested)
  BY DEF Carried, ClaimGroups
<1>2. (~gate.required \/ p.chosen \/ \E g \in p.direct : g \in gate.assigned) <=> PassesEntra(gate, p.direct, p.chosen)
  BY DEF PassesEntra
<1>3. SignsIn(a) <=> /\ p.present = "enabled"
                     /\ ~gate.required \/ p.chosen \/ \E g \in p.direct : g \in gate.assigned
                     /\ carried # {} \/ account[a].role
  BY Zenon DEF SignsIn
<1> HIDE DEF carried, p
<1> QED  BY <1>1, <1>2, <1>3, Zenon DEF Admits, p

LEMMA DecideIs ==
  ASSUME NEW p, NEW chosen, NEW role, NEW g
  PROVE  /\ Admits(g, p, chosen, role) => Decide(TRUE, p.present, p.direct, p.nested, chosen, role, g) = "keep"
         /\ ~Admits(g, p, chosen, role) =>
              Decide(TRUE, p.present, p.direct, p.nested, chosen, role, g) \in {"leaver", "undetermined"}
<1> DEFINE passes == PassesEntra(g, p.direct, chosen)
           carries == Carried(g, p.direct, p.nested) # {} \/ role
           present == p.present
           verdict == CASE ~passes -> "leaver" [] passes /\ carries -> "keep"
                        [] OTHER -> IF g.unresolved THEN "undetermined" ELSE "leaver"
           decision == CASE ~TRUE -> "out of scope" [] TRUE /\ present # "enabled" -> "leaver"
                         [] TRUE /\ present = "enabled" -> verdict
<1>1. Decide(TRUE, present, p.direct, p.nested, chosen, role, g) = decision
  BY Zenon DEF Decide
<1>2. Admits(g, p, chosen, role) <=> present = "enabled" /\ passes /\ carries
  BY Zenon DEF Admits
<1> HIDE DEF passes, carries, present
<1>3. passes /\ carries => verdict = "keep"
  OBVIOUS
<1>4. ~(passes /\ carries) => verdict \in {"leaver", "undetermined"}
  OBVIOUS
<1> HIDE DEF verdict
<1>5. present = "enabled" => decision = verdict
  OBVIOUS
<1>6. present # "enabled" => decision = "leaver"
  OBVIOUS
<1> HIDE DEF decision
<1>7. Decide(TRUE, p.present, p.direct, p.nested, chosen, role, g) = decision
  BY <1>1 DEF present
<1> QED  BY <1>2, <1>3, <1>4, <1>5, <1>6, <1>7

\* A read that sees somebody as they are finds a leaver only in who cannot sign in, and never keeps them.
LEMMA JudgedRight ==
  ASSUME LeaversAssumption, NEW a \in Federated, NEW person, NEW groups, NEW chosen, NEW refused,
         person[a] = entra[a], groups[a] = entra[a], chosen[a] = entra[a].chosen, run.users[a].role = account[a].role
  PROVE  /\ SignsIn(a) => Judged(person, groups, chosen, refused)[a] # "leaver"
         /\ ~SignsIn(a) => Judged(person, groups, chosen, refused)[a] \in {"leaver", "undetermined"}
<1> DEFINE p == entra[a]
           role == account[a].role
           verdict == Decide(TRUE, p.present, p.direct, p.nested, p.chosen, role, gate)
<1>1. a \in Accounts /\ (a \in Federated) = TRUE
  BY LeaversAssumption
<1>2. Judged(person, groups, chosen, refused)[a] =
        IF a \in refused THEN "undetermined"
        ELSE Decide(a \in Federated, person[a].present, groups[a].direct, person[a].nested, chosen[a],
                    run.users[a].role, gate)
  BY <1>1, Zenon DEF Judged
<1>3. Judged(person, groups, chosen, refused)[a] = IF a \in refused THEN "undetermined" ELSE verdict
  BY <1>1, <1>2, Zenon
<1>4. /\ SignsIn(a) => verdict = "keep"
      /\ ~SignsIn(a) => verdict \in {"leaver", "undetermined"}
  <2>1. SignsIn(a) <=> Admits(gate, p, p.chosen, role)
    BY RuleIsSignIn
  <2> HIDE DEF p, role
  <2>2. /\ Admits(gate, p, p.chosen, role) => verdict = "keep"
        /\ ~Admits(gate, p, p.chosen, role) => verdict \in {"leaver", "undetermined"}
    BY DecideIs, Zenon
  <2> HIDE DEF verdict
  <2> QED  BY <2>1, <2>2
<1> HIDE DEF verdict
<1> QED  BY <1>3, <1>4

LEMMA UnfoundKeeps ==
  ASSUME NEW decision \in [Accounts -> Decisions], NEW present, NEW federated, NEW a \in Accounts
  PROVE  Unfound(decision, present, federated)[a] \in {decision[a], "undetermined"}
  BY DEF Unfound

\* A run may end clean only if nothing open was left and everybody was judged.
LEMMA CleanRest ==
  ASSUME NEW decision, NEW opened, Rest(decision, opened) \in {0, 4}
  PROVE  opened = {} /\ \A a \in Federated : decision[a] # "undetermined"
  BY DEF Rest, Exit

-----------------------------------------------------------------------------
(* Reading: what the run knows while people come and go. *)

LEMMA RestingReads ==
  ASSUME run'.pc \notin {"confirm", "pause"}
  PROVE  ReadInv'
  BY DEF ReadInv, At

\* What people do to others, to themselves or to their tokens leaves the reading of everybody untouched as true.
LEMMA ReadKept ==
  ASSUME ReadInv, run \in RunType,
         run'.pc = run.pc, run'.round = run.round, run'.users = run.users, run'.mine = run.mine,
         run'.decision = run.decision, run'.chosen = run.chosen, run'.pending = run.pending, run'.moved = run.moved,
         run'.stayed \subseteq run.stayed, run'.gone \subseteq run.gone, gate' = gate,
         \A b \in run'.stayed \cup run'.gone :
           /\ entra'[b] = entra[b] /\ account'[b].role = account[b].role /\ old'[b] \subseteq old[b]
           /\ lag'[b] = lag[b] \/ lag'[b] = 0,
         run.pc \in {"confirm", "pause"} => ListsTell'
  PROVE  ReadInv'
<1>1. \A b \in run'.stayed \cup run'.gone : SignsIn(b)' <=> SignsIn(b)
  BY Zenon DEF SignsIn
<1>2. StayedSignIn => StayedSignIn'
  BY <1>1 DEF StayedSignIn, At
<1>3. GoneAreOut => GoneAreOut'
  BY <1>1 DEF GoneAreOut
<1>4. OpenOnes(run.decision)' = OpenOnes(run.decision)
  BY DEF OpenOnes
<1>5. FirstReadKept => FirstReadKept'
  BY <1>4 DEF FirstReadKept, OpenOnes
<1> QED  BY <1>2, <1>3, <1>5 DEF ReadInv, At

LEMMA OthersRead ==
  ASSUME TypeInv, ReadInv, NEW a \in Federated, Moves(a) \/ Settles(a) \/ Mints(a) \/ Edits(a)
  PROVE  ReadInv'
<1>1. run \in RunType /\ Federated \subseteq Accounts /\ account \in [Accounts -> Record]
      /\ token \in [Accounts -> SUBSET Tokens] /\ entra \in [Accounts -> Standings]
      /\ old \in [Accounts -> SUBSET Standings] /\ lag \in [Accounts -> 0 .. Settle]
  BY LeaversAssumption DEF TypeInv, AccountsType, DirectoryType
<1>2. run.stayed \subseteq Federated /\ run.gone \subseteq Federated
  BY <1>1 DEF RunType
<1>3. ASSUME Touched(a)
      PROVE  /\ run'.pc = run.pc /\ run'.round = run.round /\ run'.users = run.users /\ run'.mine = run.mine
             /\ run'.decision = run.decision /\ run'.chosen = run.chosen /\ run'.pending = run.pending
             /\ run'.moved = run.moved /\ run'.stayed = run.stayed \ {a} /\ run'.gone = run.gone \ {a}
  BY <1>1, <1>3 DEF Touched, RunType
<1>4. CASE Moves(a)
  <2>1. \A b \in Accounts : b # a => entra'[b] = entra[b] /\ old'[b] = old[b] /\ lag'[b] = lag[b]
    BY <1>1, <1>4 DEF Moves
  <2>2. run.pc \in {"confirm", "pause"} => ListsTell'
    BY <1>3, <1>4 DEF ReadInv, ListsTell, Moves
  <2> QED  BY <1>1, <1>2, <1>3, <1>4, <2>1, <2>2, ReadKept DEF Moves
<1>5. CASE Settles(a)
  <2>1. \A b \in Accounts : old'[b] \subseteq old[b] /\ (lag'[b] = lag[b] \/ lag'[b] = 0)
    BY <1>1, <1>5 DEF Settles
  <2>2. run.pc \in {"confirm", "pause"} => ListsTell'
    BY <1>5 DEF ReadInv, ListsTell, Settles
  <2> QED  BY <1>1, <1>2, <1>5, <2>1, <2>2, ReadKept DEF Settles
<1>6. CASE Mints(a)
  <2>1. \A b \in Accounts : b # a => token'[b] = token[b]
    BY <1>1, <1>6 DEF Mints
  <2>2. run.pc \in {"confirm", "pause"} => ListsTell'
    BY <1>1, <1>6, <2>1 DEF ReadInv, ListsTell, Mints
  <2> QED  BY <1>1, <1>2, <1>6, <2>2, ReadKept DEF Mints
<1>7. CASE Edits(a)
  <2>1. \A b \in Accounts : account'[b].enabled = account[b].enabled /\ (b # a => account'[b] = account[b])
    BY <1>1, <1>7 DEF Edits
  <2>2. run.pc \in {"confirm", "pause"} => ListsTell'
    BY <1>1, <1>3, <1>7, <2>1 DEF ReadInv, ListsTell, Edits
  <2> QED  BY <1>1, <1>2, <1>3, <1>7, <2>1, <2>2, ReadKept DEF Edits
<1> QED  BY <1>4, <1>5, <1>6, <1>7

LEMMA PausesRead ==
  ASSUME TypeInv, ReadInv, Pauses
  PROVE  ReadInv'
<1>1. run \in RunType /\ lag \in [Accounts -> 0 .. Settle] /\ Federated \subseteq Accounts
  BY LeaversAssumption DEF TypeInv, DirectoryType
<1>2. /\ run'.pc = "confirm" /\ run'.round = run.round /\ run'.users = run.users /\ run'.mine = run.mine
      /\ run'.decision = run.decision /\ run'.chosen = run.chosen /\ run'.pending = run.pending
      /\ run'.moved = run.moved /\ run'.stayed = run.stayed /\ run'.gone = run.gone /\ run.pc = "pause"
  BY <1>1 DEF Pauses, RunType, At
<1>3. UNCHANGED <<account, token, entra, gate>>
  BY DEF Pauses, Here
<1>4. run.stayed \subseteq Accounts /\ run.gone \subseteq Accounts /\ run.round \in Nat /\ Settle \in Nat
  <2>1. run.round \in 0 .. ConfirmReads
    BY <1>1 DEF RunType
  <2>2. \A r \in 0 .. ConfirmReads : r \in Nat
    BY Numbers
  <2>3. Settle \in Nat
    BY Numbers
  <2>4. run.stayed \subseteq Federated /\ run.gone \subseteq Federated
    BY <1>1 DEF RunType
  <2> QED  BY <1>1, <2>1, <2>2, <2>3, <2>4
<1>5. \A b \in Accounts : lag'[b] = (IF lag[b] > 0 THEN lag[b] - 1 ELSE 0) /\ (old'[b] = old[b] \/ old'[b] = {})
  BY DEF Pauses
<1>6. ListsTell /\ StayedSignIn /\ GoneAreOut /\ (run.round > 0 => FirstReadKept)
  BY <1>2 DEF ReadInv
<1>7. \A b : SignsIn(b)' <=> SignsIn(b)
  BY <1>3, Zenon DEF SignsIn
<1>8. ListsTell'
  BY <1>2, <1>3, <1>6 DEF ListsTell
<1>9. GoneAreOut'
  BY <1>2, <1>3, <1>4, <1>5, <1>6, <1>7 DEF GoneAreOut
<1>10. StayedSignIn'
  <2> SUFFICES ASSUME NEW a \in run.stayed
               PROVE  /\ SignsIn(a)' /\ run'.users[a].role = account'[a].role
                      /\ a \notin run'.moved => \A p \in old'[a] : p.chosen = entra'[a].chosen
                      /\ lag'[a] = 0 \/ lag'[a] + run'.round <= Settle + 1
    BY <1>2 DEF StayedSignIn, At
  <2>1. lag[a] = 0 \/ lag[a] + run.round <= Settle + 2
    BY <1>2, <1>6 DEF StayedSignIn, At
  <2>2. lag'[a] = 0 \/ lag'[a] + run'.round <= Settle + 1
    <3>1. lag[a] \in Nat /\ lag'[a] = (IF lag[a] > 0 THEN lag[a] - 1 ELSE 0)
      BY <1>1, <1>4, <1>5
    <3> QED  BY <1>2, <1>4, <2>1, <3>1
  <2>3. SignsIn(a)' /\ run'.users[a].role = account'[a].role
    BY <1>2, <1>3, <1>6, <1>7 DEF StayedSignIn
  <2>4. a \notin run'.moved => \A p \in old'[a] : p.chosen = entra'[a].chosen
    BY <1>2, <1>3, <1>4, <1>5, <1>6 DEF StayedSignIn
  <2> QED  BY <2>2, <2>3, <2>4
<1>11. OpenOnes(run.decision)' = OpenOnes(run.decision)
  BY <1>2 DEF OpenOnes
<1>12. FirstReadKept => FirstReadKept'
  BY <1>2, <1>3, <1>11 DEF FirstReadKept
<1> QED  BY <1>2, <1>6, <1>8, <1>9, <1>10, <1>12 DEF ReadInv, At

LEMMA BeginsRead ==
  ASSUME TypeInv, ReadsAll, Looks
  PROVE  ReadInv'
<1>1. run'.pc = "confirm" /\ run'.round = 0 /\ run'.users = account /\ run'.mine = token
  BY DEF ReadsAll
<1>2. UNCHANGED <<account, token, entra, gate, old, lag>>
  BY DEF Looks, Here
<1>3. \A b : SignsIn(b)' <=> SignsIn(b)
  BY <1>2, Zenon DEF SignsIn
<1>4. ListsTell'
  BY <1>1, <1>2 DEF ListsTell
<1>5. GoneAreOut'
  BY <1>1, <1>2, <1>3 DEF GoneAreOut, ReadsAll
<1>6. StayedSignIn'
  <2> SUFFICES ASSUME NEW a \in Federated, SignsIn(a), a \in run'.stayed
               PROVE  /\ SignsIn(a)' /\ run'.users[a].role = account'[a].role
                      /\ a \notin run'.moved => \A p \in old'[a] : p.chosen = entra'[a].chosen
                      /\ lag'[a] = 0 \/ lag'[a] + run'.round <= Settle + 1
    BY <1>1 DEF StayedSignIn, At, ReadsAll
  <2>1. lag[a] \in 0 .. Settle /\ Settle \in Nat
    BY Numbers, LeaversAssumption DEF TypeInv, DirectoryType
  <2>2. lag'[a] + run'.round <= Settle + 1
    BY <1>1, <1>2, <2>1
  <2> QED  BY <1>1, <1>2, <1>3, <2>2 DEF ReadsAll
<1> QED  BY <1>1, <1>4, <1>5, <1>6 DEF ReadInv, At

\* Graph answers of an account what it holds or what it held.
LEMMA ViewIsSeen ==
  ASSUME NEW view \in Views, NEW a \in Federated
  PROVE  view[a] \in {entra[a]} \cup old[a]
  BY DEF Views, Seen

\* The first read: who was gone is not kept, and the assignments of who stayed are theirs, unless they had changed.
LEMMA FirstReadTells ==
  ASSUME TypeInv, ReadInv, At("confirm"),
         NEW person \in Views, NEW groups \in Views, NEW assigned \in Views, NEW refused
  PROVE  LET chosen == [a \in Accounts |-> a \in Federated /\ assigned[a].chosen]
             decision == FirstJudgement(person, groups, assigned, refused)
         IN  /\ \A a \in run.stayed \ run.moved : chosen[a] = entra[a].chosen
             /\ \A a \in run.gone : decision[a] \in {"leaver", "undetermined"}
<1> DEFINE chosen == [a \in Accounts |-> a \in Federated /\ assigned[a].chosen]
           found == [a \in Federated |-> IF a \in refused THEN "unread" ELSE person[a].present]
           judged == Judged(person, groups, chosen, refused)
           decision == FirstJudgement(person, groups, assigned, refused)
<1>1. run \in RunType /\ Federated \subseteq Accounts /\ entra \in [Accounts -> Standings]
  BY LeaversAssumption DEF TypeInv, DirectoryType
<1>2. run.stayed \subseteq Federated /\ run.gone \subseteq Federated
  BY <1>1 DEF RunType
<1>3. StayedSignIn /\ GoneAreOut
  BY DEF ReadInv, At
<1>4. \A a \in Federated : entra[a].chosen \in BOOLEAN
  BY <1>1, LeaversAssumption
<1>5. ASSUME NEW a \in run.stayed \ run.moved PROVE chosen[a] = entra[a].chosen
  <2>1. assigned[a] \in {entra[a]} \cup old[a] /\ a \in Federated
    BY <1>2, ViewIsSeen
  <2>2. assigned[a].chosen = entra[a].chosen
    BY <1>3, <1>5, <2>1 DEF StayedSignIn
  <2>3. chosen[a] = (a \in Federated /\ assigned[a].chosen)
    BY <1>1, <2>1
  <2> QED  BY <1>4, <2>1, <2>2, <2>3
<1>6. ASSUME NEW a \in run.gone PROVE decision[a] \in {"leaver", "undetermined"}
  <2>1. a \in Federated /\ a \in Accounts /\ old[a] = {} /\ ~SignsIn(a) /\ run.users[a].role = account[a].role
    BY <1>1, <1>2, <1>3 DEF GoneAreOut
  <2>2. person[a] = entra[a] /\ groups[a] = entra[a] /\ assigned[a] = entra[a]
    BY <2>1, ViewIsSeen
  <2>3. chosen[a] = (a \in Federated /\ assigned[a].chosen)
    BY <2>1
  <2>4. chosen[a] = entra[a].chosen
    BY <1>4, <2>1, <2>2, <2>3
  <2> HIDE DEF chosen
  <2>5. judged[a] \in {"leaver", "undetermined"}
    BY <2>1, <2>2, <2>4, LeaversAssumption, JudgedRight
  <2>6. judged \in [Accounts -> Decisions]
    BY JudgedType
  <2>7. decision = Unfound(judged, found, Federated)
    BY Zenon DEF FirstJudgement, chosen
  <2> HIDE DEF judged, found, decision
  <2>8. decision[a] \in {judged[a], "undetermined"}
    BY <2>1, <2>6, <2>7, UnfoundKeeps
  <2> QED  BY <2>5, <2>8
<1> QED  BY <1>5, <1>6

\* Nobody who stayed is found a leaver by the last read; who was gone is never kept.
LEMMA LaterReadTells ==
  ASSUME TypeInv, LagInv, ReadInv, At("confirm"), run.round > 0,
         NEW person \in Views, NEW groups \in Views, NEW refused
  PROVE  LET decision == LaterJudgement(person, groups, refused)
         IN  /\ OpenOnes(decision) \subseteq run.pending
             /\ \A a \in run.gone : decision[a] \in {"leaver", "undetermined"}
             /\ run.round = ConfirmReads => \A a \in run.stayed \ run.moved : a \notin OpenOnes(decision)
<1> DEFINE judged == Judged(person, groups, run.chosen, refused)
           decision == LaterJudgement(person, groups, refused)
<1>1. run \in RunType /\ Federated \subseteq Accounts /\ lag \in [Accounts -> 0 .. Settle]
  BY LeaversAssumption DEF TypeInv, DirectoryType
<1>2. run.stayed \subseteq Federated /\ run.gone \subseteq Federated
  BY <1>1 DEF RunType
<1>3. StayedSignIn /\ FirstReadKept
  BY DEF ReadInv, At
<1>4. \A a \in Accounts :
        decision[a] = IF a \in run.pending /\ judged[a] # "leaver" THEN "undetermined" ELSE run.decision[a]
  BY DEF LaterJudgement
<1> HIDE DEF decision, judged
<1>5. OpenOnes(decision) \subseteq OpenOnes(run.decision)
  BY <1>1, <1>4 DEF OpenOnes, Open
<1>6. OpenOnes(decision) \subseteq run.pending
  BY <1>3, <1>5 DEF FirstReadKept
<1>7. \A a \in run.gone : decision[a] \in {"leaver", "undetermined"}
  BY <1>1, <1>2, <1>3, <1>4 DEF FirstReadKept
<1>8. ASSUME run.round = ConfirmReads, NEW a \in run.stayed \ run.moved PROVE a \notin OpenOnes(decision)
  <2>1. a \in Federated /\ a \in Accounts /\ SignsIn(a) /\ run.users[a].role = account[a].role
        /\ run.chosen[a] = entra[a].chosen
    BY <1>1, <1>2, <1>3 DEF StayedSignIn, FirstReadKept
  <2>2. lag[a] = 0
    <3>1. lag[a] = 0 \/ lag[a] + run.round <= Settle + 1
      BY <1>3 DEF StayedSignIn, At
    <3>2. lag[a] \in 0 .. Settle /\ Settle \in Nat /\ ConfirmReads \in Nat /\ Settle < ConfirmReads
      BY <1>1, <2>1, Numbers
    <3> QED  BY <1>8, <3>1, <3>2
  <2>3. person[a] = entra[a] /\ groups[a] = entra[a]
    BY <2>1, <2>2, ViewIsSeen DEF LagInv
  <2>4. judged[a] # "leaver"
    BY <2>1, <2>3, LeaversAssumption, JudgedRight DEF judged
  <2>5. a \in OpenOnes(decision) => decision[a] # "undetermined" /\ a \in run.pending
    BY <1>6 DEF OpenOnes, Open
  <2> QED  BY <1>4, <2>1, <2>4, <2>5
<1> QED  BY <1>6, <1>7, <1>8 DEF decision

\* What follows a last judgement that spares who stayed and keeps nobody who was gone.
LEMMA ActsClose ==
  ASSUME TypeInv, ListsTell, Looks, NEW decision, NEW mayClose, ActsOn(decision, mayClose),
         \A a \in run.stayed \ run.moved : a \notin OpenOnes(decision),
         \A a \in run.gone : decision[a] \in {"leaver", "undetermined"}
  PROVE  CloseInv'
<1>1. run \in RunType /\ Federated \subseteq Accounts /\ token \in [Accounts -> SUBSET Tokens]
  BY LeaversAssumption DEF TypeInv, AccountsType
<1>2. run'.stayed \subseteq run'.moved
  BY DEF ActsOn
<1>3. ASSUME run'.rest \in {0, 4}, NEW a \in run'.gone PROVE a \in run'.todo \/ Closed(a)'
  <2>1. Rest(decision, OpenOnes(decision) \ mayClose) \in {0, 4}
    BY <1>3 DEF ActsOn
  <2>2. OpenOnes(decision) \ mayClose = {} /\ \A b \in Federated : decision[b] # "undetermined"
    BY <2>1, CleanRest
  <2>3. a \in run.gone /\ a \in Federated
    BY <1>1, <1>3 DEF ActsOn, RunType
  <2>4. decision[a] = "leaver"
    BY <2>2, <2>3
  <2>5. CASE a \in OpenOnes(decision)
    BY <2>2, <2>5 DEF ActsOn
  <2>6. CASE a \notin OpenOnes(decision)
    <3>1. ~run.users[a].enabled /\ run.mine[a] = {}
      BY <2>3, <2>4, <2>6 DEF OpenOnes, Open
    <3>2. Closed(a)
      BY <2>3, <3>1 DEF ListsTell, Closed
    <3> QED  BY <3>2 DEF Closed, Looks, Here
  <2> QED  BY <2>5, <2>6
<1> QED  BY <1>2, <1>3 DEF CloseInv, At, ActsOn

LEMMA FirstReadNext ==
  ASSUME TypeInv, ReadInv, FirstRead
  PROVE  ReadInv' /\ CloseInv' /\ run'.pc # "idle"
<1>1. run \in RunType
  BY DEF TypeInv
<1>2. At("confirm") /\ run.round = 0 /\ Looks
  BY <1>1, FirstReadIs, Zenon
<1>3. ListsTell /\ StayedSignIn /\ GoneAreOut
  BY <1>2 DEF ReadInv, At
<1>4. ASSUME NEW decision, Acts(decision), OpenOnes(decision) = {},
             \A a \in run.gone : decision[a] \in {"leaver", "undetermined"}
      PROVE  ReadInv' /\ CloseInv' /\ run'.pc # "idle"
  <2>1. PICK mayClose \in SUBSET Federated : ActsOn(decision, mayClose)
    BY <1>1, <1>4, ActsIs
  <2>2. CloseInv'
    BY <1>2, <1>3, <1>4, <2>1, ActsClose
  <2>3. run'.pc = "next"
    BY <2>1 DEF ActsOn
  <2> QED  BY <2>2, <2>3, RestingReads
<1>5. CASE Acts(AllUnread)
  <2>1. \A a \in Federated : AllUnread[a] = "undetermined"
    BY LeaversAssumption DEF AllUnread
  <2>2. OpenOnes(AllUnread) = {}
    BY <2>1 DEF OpenOnes, Open
  <2>3. run.gone \subseteq Federated
    BY <1>1 DEF RunType
  <2> QED  BY <1>4, <1>5, <2>1, <2>2, <2>3
<1>6. ASSUME NEW person \in Views, NEW groups \in Views, NEW assigned \in Views, NEW refused,
             LET chosen == [a \in Accounts |-> a \in Federated /\ assigned[a].chosen]
                 decision == FirstJudgement(person, groups, assigned, refused)
             IN  (OpenOnes(decision) = {} /\ Acts(decision)) \/ AsksAgain(decision, chosen)
      PROVE  ReadInv' /\ CloseInv' /\ run'.pc # "idle"
  <2> DEFINE chosen == [a \in Accounts |-> a \in Federated /\ assigned[a].chosen]
             decision == FirstJudgement(person, groups, assigned, refused)
  <2>1. (OpenOnes(decision) = {} /\ Acts(decision)) \/ AsksAgain(decision, chosen)
    BY <1>6
  <2>2. /\ \A a \in run.stayed \ run.moved : chosen[a] = entra[a].chosen
        /\ \A a \in run.gone : decision[a] \in {"leaver", "undetermined"}
    BY <1>2, FirstReadTells
  <2> HIDE DEF chosen, decision
  <2>3. CASE OpenOnes(decision) = {} /\ Acts(decision)
    BY <1>4, <2>2, <2>3
  <2>4. CASE AsksAgain(decision, chosen)
    <3>1. /\ run'.pc = "confirm" /\ run'.round = 1 /\ run'.users = run.users /\ run'.mine = run.mine
          /\ run'.decision = decision /\ run'.chosen = chosen /\ run'.pending = OpenOnes(decision)
          /\ run'.stayed = run.stayed /\ run'.moved = run.moved /\ run'.gone = run.gone
      BY <1>1, <1>2, <2>4 DEF AsksAgain, RunType, At
    <3>2. UNCHANGED <<account, token, entra, gate, old, lag>>
      BY <1>2 DEF Looks, Here
    <3>3. \A b : SignsIn(b)' <=> SignsIn(b)
      BY <3>2, Zenon DEF SignsIn
    <3>4. ListsTell' /\ GoneAreOut'
      BY <1>3, <3>1, <3>2, <3>3 DEF ListsTell, GoneAreOut
    <3>5. StayedSignIn'
      <4>1. \A b \in run.stayed : lag[b] = 0 \/ lag[b] + 1 <= Settle + 1
        <5>1. \A b \in run.stayed : lag[b] \in 0 .. Settle
          BY <1>1, LeaversAssumption DEF TypeInv, DirectoryType, RunType
        <5>2. \A l \in 0 .. Settle : l + 1 <= Settle + 1
          BY Numbers
        <5> QED  BY <5>1, <5>2
      <4> QED  BY <1>2, <1>3, <3>1, <3>2, <3>3, <4>1 DEF StayedSignIn, At
    <3>6. OpenOnes(run.decision)' = OpenOnes(decision)
      BY <3>1 DEF OpenOnes
    <3>7. FirstReadKept'
      BY <2>2, <3>1, <3>2, <3>6 DEF FirstReadKept
    <3>8. ReadInv'
      BY <3>1, <3>4, <3>5, <3>7 DEF ReadInv, At
    <3> QED  BY <3>1, <3>8 DEF CloseInv
  <2> QED  BY <2>1, <2>3, <2>4
<1> QED  BY <1>1, <1>5, <1>6, FirstReadIs, Zenon

LEMMA ConfirmsNext ==
  ASSUME TypeInv, LagInv, ReadInv, Confirms
  PROVE  ReadInv' /\ CloseInv' /\ run'.pc # "idle"
<1>1. run \in RunType
  BY DEF TypeInv
<1>2. At("confirm") /\ run.round > 0 /\ Looks
  BY <1>1, ConfirmsIs, Zenon
<1>3. ListsTell /\ StayedSignIn /\ GoneAreOut /\ FirstReadKept
  BY <1>2 DEF ReadInv, At
<1>4. PICK person \in Views, groups \in Views, refused \in Refused(run.pending) :
        LET decision == LaterJudgement(person, groups, refused)
        IN  \/ run.round = ConfirmReads /\ Acts(decision)
            \/ run.round # ConfirmReads /\ AsksLater(decision)
  BY <1>1, ConfirmsIs, Zenon
<1> DEFINE decision == LaterJudgement(person, groups, refused)
<1>5. \/ run.round = ConfirmReads /\ Acts(decision)
      \/ run.round # ConfirmReads /\ AsksLater(decision)
  BY <1>4
<1>6. /\ OpenOnes(decision) \subseteq run.pending
      /\ \A a \in run.gone : decision[a] \in {"leaver", "undetermined"}
      /\ run.round = ConfirmReads => \A a \in run.stayed \ run.moved : a \notin OpenOnes(decision)
  BY <1>2, LaterReadTells
<1> HIDE DEF decision
<1>7. CASE run.round = ConfirmReads /\ Acts(decision)
  <2>1. PICK mayClose \in SUBSET Federated : ActsOn(decision, mayClose)
    BY <1>1, <1>7, ActsIs
  <2>2. CloseInv'
    BY <1>2, <1>3, <1>6, <1>7, <2>1, ActsClose
  <2>3. run'.pc = "next"
    BY <2>1 DEF ActsOn
  <2> QED  BY <2>2, <2>3, RestingReads
<1>8. CASE AsksLater(decision)
  <2>1. /\ run'.pc = "pause" /\ run'.round = run.round + 1 /\ run'.users = run.users /\ run'.mine = run.mine
        /\ run'.decision = decision /\ run'.chosen = run.chosen /\ run'.pending = run.pending
        /\ run'.stayed = run.stayed /\ run'.moved = run.moved /\ run'.gone = run.gone
    BY <1>1, <1>8 DEF AsksLater, RunType
  <2>2. UNCHANGED <<account, token, entra, gate, old, lag>>
    BY <1>2 DEF Looks, Here
  <2>3. \A b : SignsIn(b)' <=> SignsIn(b)
    BY <2>2, Zenon DEF SignsIn
  <2>4. ListsTell' /\ GoneAreOut'
    BY <1>3, <2>1, <2>2, <2>3 DEF ListsTell, GoneAreOut
  <2>5. run.round \in 0 .. ConfirmReads
    BY <1>1 DEF RunType
  <2>6. \A r \in 0 .. ConfirmReads, l \in 0 .. Settle :
          /\ r > 0 => r + 1 > 1 /\ r + 1 > 0
          /\ l + r <= Settle + 1 => l + (r + 1) <= Settle + 2
    BY Numbers
  <2>7. StayedSignIn'
    <3>1. \A b \in run.stayed : lag[b] \in 0 .. Settle
      BY <1>1, LeaversAssumption DEF TypeInv, DirectoryType, RunType
    <3>2. \A b \in run.stayed : lag[b] = 0 \/ lag[b] + (run.round + 1) <= Settle + 2
      BY <1>2, <1>3, <2>5, <2>6, <3>1 DEF StayedSignIn, At
    <3> QED  BY <1>3, <2>1, <2>2, <2>3, <3>2 DEF StayedSignIn, At
  <2>8. OpenOnes(run.decision)' = OpenOnes(decision)
    BY <2>1 DEF OpenOnes
  <2>9. FirstReadKept'
    BY <1>3, <1>6, <2>1, <2>2, <2>8 DEF FirstReadKept
  <2>10. ReadInv'
    BY <1>2, <2>1, <2>4, <2>5, <2>6, <2>7, <2>9 DEF ReadInv, At
  <2> QED  BY <2>1, <2>10 DEF CloseInv
<1> QED  BY <1>5, <1>7, <1>8

-----------------------------------------------------------------------------
(* Closing: who is closed, and what the exit says. *)

\* A step that goes on with the same close, or with none.
LEMMA CloseGoesOn ==
  ASSUME TypeInv, [Next]_vars, CloseInv, run.pc \in {"next"} \cup ClosingStages => run'.pc \in {"next"} \cup ClosingStages,
         run.pc \in {"next"} \cup ClosingStages \/ run'.pc \notin {"next"} \cup ClosingStages,
         run'.stayed \subseteq run.stayed, run'.moved = run.moved, run'.gone \subseteq run.gone, run'.rest = run.rest,
         \A a \in run.gone :
           /\ a \in run.todo => a \in run'.todo \/ (run'.pc # "next" /\ a = run'.cur)
           /\ run.pc # "next" /\ a = run.cur =>
                (run'.pc # "next" /\ a = run'.cur) \/ run'.result[a] # "none"
           /\ run.result[a] # "none" => run'.result[a] # "none"
  PROVE  CloseInv'
<1>1. run.gone \subseteq Accounts
  BY LeaversAssumption DEF TypeInv, RunType
<1>2. \A a \in run.gone : Closed(a) => Closed(a)'
  BY <1>1, ClosedForGood
<1> QED  BY <1>2 DEF CloseInv, At, Cur

LEMMA RestingCloses ==
  ASSUME run'.pc \notin {"next"} \cup ClosingStages
  PROVE  CloseInv'
  BY DEF CloseInv

LEMMA ClosingNext ==
  ASSUME TypeInv, CloseInv, [Next]_vars, NextClose \/ Gets \/ Revokes \/ Revoked \/ Disables \/ Clears \/ ReadsAccount \/ ReadsTokens
  PROVE  CloseInv' /\ run'.pc \notin {"confirm", "pause"}
<1> USE DEF At, Cur
<1>1. run \in RunType /\ (run.pc \in ClosingStages => run.cur \in Federated) /\ Federated \subseteq Accounts
  BY LeaversAssumption DEF TypeInv
<1>2. run.gone \subseteq Accounts
  BY <1>1 DEF RunType
<1>3. CASE NextClose /\ run.todo = {}
  <2>1. run'.pc = "idle"
    BY <1>3, RestsIs DEF Rests, AtRest
  <2> QED  BY <2>1, RestingCloses
<1>4. CASE NextClose /\ run.todo # {}
  <2>1. PICK a \in run.todo : run' = [run EXCEPT !.pc = "get", !.cur = a, !.todo = @ \ {a}]
    BY <1>4 DEF NextClose
  <2>2. /\ run'.pc = "get" /\ run'.cur = a /\ run'.todo = run.todo \ {a} /\ run'.stayed = run.stayed
        /\ run'.moved = run.moved /\ run'.gone = run.gone /\ run'.rest = run.rest /\ run'.result = run.result
        /\ run.pc = "next"
    BY <1>1, <1>4, <2>1 DEF RunType, NextClose
  <2> QED  BY <2>2, CloseGoesOn
<1>5. ASSUME NEW pc \in ClosingStages, run.pc \in ClosingStages, run'.pc = pc, run'.cur = run.cur, run'.todo = run.todo,
             run'.stayed = run.stayed, run'.moved = run.moved, run'.gone = run.gone, run'.rest = run.rest,
             run'.result = run.result
      PROVE  CloseInv' /\ run'.pc \notin {"confirm", "pause"}
  BY <1>5, CloseGoesOn
<1>6. ASSUME run.pc \in ClosingStages, NEW outcome \in {"held", "not held"},
             run' = [run EXCEPT !.pc = "next", !.result[run.cur] = outcome]
      PROVE  CloseInv' /\ run'.pc \notin {"confirm", "pause"}
  <2>1. /\ run'.pc = "next" /\ run'.todo = run.todo /\ run'.stayed = run.stayed /\ run'.moved = run.moved
        /\ run'.gone = run.gone /\ run'.rest = run.rest
    BY <1>1, <1>6 DEF RunType
  <2>2. run'.result = [run.result EXCEPT ![run.cur] = outcome] /\ run.result \in [Accounts -> Outcomes]
    BY <1>1, <1>6 DEF RunType
  <2>3. \A a \in Accounts : run'.result[a] = IF a = run.cur THEN outcome ELSE run.result[a]
    BY <2>2
  <2> QED  BY <1>2, <1>6, <2>1, <2>3, CloseGoesOn
<1>7. CASE NotHeld /\ run.pc \in ClosingStages
  BY <1>6, <1>7 DEF NotHeld
<1>8. CASE Gets /\ ~NotHeld
  <2>1. /\ run' = [run EXCEPT !.pc = "revoke", !.before = account[run.cur], !.revoking = run.mine[run.cur], !.clean = TRUE]
        /\ run.pc = "get"
    BY <1>8, Zenon DEF Gets, Refuses
  <2> QED  BY <1>1, <1>5, <2>1 DEF RunType
<1>9. CASE Revokes
  <2>1. PICK t \in run.revoking :
           \/ run' = [run EXCEPT !.revoking = @ \ {t}, !.clean = @ /\ t \in token[run.cur]]
           \/ run' = [run EXCEPT !.revoking = @ \ {t}, !.clean = FALSE]
    BY <1>9 DEF Revokes
  <2>2. run.pc = "revoke"
    BY <1>9 DEF Revokes
  <2>3. CASE run' = [run EXCEPT !.revoking = @ \ {t}, !.clean = FALSE]
    BY <1>1, <1>5, <2>2, <2>3 DEF RunType
  <2>4. CASE run' = [run EXCEPT !.revoking = @ \ {t}, !.clean = @ /\ t \in token[run.cur]]
    <3> DEFINE clean == run.clean /\ t \in token[run.cur]
    <3>1. run' = [run EXCEPT !.revoking = @ \ {t}, !.clean = clean]
      BY <2>4, Zenon
    <3> HIDE DEF clean
    <3> QED  BY <1>1, <1>5, <2>2, <3>1 DEF RunType
  <2> QED  BY <2>1, <2>3, <2>4
<1>10. ASSUME NEW pc \in ClosingStages, Goes(pc), run.pc \in ClosingStages
       PROVE  CloseInv' /\ run'.pc \notin {"confirm", "pause"}
  BY <1>1, <1>5, <1>10 DEF Goes, RunType
<1>11. CASE Revoked
  BY <1>10, <1>11 DEF Revoked
<1>12. CASE Disables \/ Clears
  BY <1>7, <1>10, <1>12 DEF Disables, Clears, Puts
<1>13. CASE ReadsAccount /\ ~NotHeld
  <2> DEFINE clean == run.clean /\ ~account[run.cur].enabled /\ account[run.cur].role = run.before.role
  <2>1. run' = [run EXCEPT !.pc = "left", !.clean = clean] /\ run.pc = "back"
    BY <1>13, Zenon DEF ReadsAccount, Refuses
  <2> HIDE DEF clean
  <2> QED  BY <1>1, <1>5, <2>1 DEF RunType
<1>14. CASE ReadsTokens /\ ~NotHeld
  <2> DEFINE outcome == IF run.clean /\ token[run.cur] = {} THEN "held" ELSE "not held"
  <2>1. run' = [run EXCEPT !.pc = "next", !.result[run.cur] = outcome] /\ run.pc = "left" /\ outcome \in {"held", "not held"}
    BY <1>14, Zenon DEF ReadsTokens, Refuses
  <2> HIDE DEF outcome
  <2> QED  BY <1>6, <2>1
<1>15. CASE (Gets \/ ReadsAccount \/ ReadsTokens) /\ NotHeld
  BY <1>7, <1>15 DEF Gets, ReadsAccount, ReadsTokens, Refuses
<1> QED  BY <1>3, <1>4, <1>8, <1>9, <1>11, <1>12, <1>13, <1>14, <1>15

\* What an exit of an ended run says, carried on, and made anew by the end of a run.
LEMMA CleanExitGoesOn ==
  ASSUME TypeInv, [Next]_vars, CleanExitMeansClosed,
         run'.pc = "idle" => run.pc = "idle" /\ run'.exit = run.exit /\ run'.gone \subseteq run.gone
  PROVE  CleanExitMeansClosed'
<1>1. run.gone \subseteq Accounts
  BY LeaversAssumption DEF TypeInv, RunType
<1> QED  BY <1>1, ClosedForGood DEF CleanExitMeansClosed, At

LEMMA EndsClean ==
  ASSUME TypeInv, HeldInv, CloseInv, [Next]_vars, (NextClose /\ run.todo = {}) \/ Dies
  PROVE  CleanExitMeansClosed'
<1>1. Rests /\ Looks
  BY RestsIs
<1>2. CASE AtRest(run', run.result, NoExit, {})
  BY <1>2 DEF AtRest, CleanExitMeansClosed
<1>3. CASE /\ At("next") /\ run.todo = {}
           /\ AtRest(run', run.result, IF \E a \in Accounts : run.result[a] = "not held" THEN 2 ELSE run.rest, run.gone)
  <2> SUFFICES ASSUME run'.exit \in {0, 4}, NEW a \in run.gone PROVE Closed(a)'
    BY <1>3 DEF AtRest, CleanExitMeansClosed
  <2>1. (\A b \in Accounts : run.result[b] # "not held") /\ run.rest \in {0, 4}
    <3> DEFINE refused == \E b \in Accounts : run.result[b] = "not held"
    <3>1. run'.exit = IF refused THEN 2 ELSE run.rest
      BY <1>3, Zenon DEF AtRest
    <3> HIDE DEF refused
    <3>2. ~refused /\ run.rest \in {0, 4}
      BY <3>1
    <3> QED  BY <3>2 DEF refused
  <2>2. a \in Accounts /\ run.result \in [Accounts -> Outcomes]
    BY LeaversAssumption DEF TypeInv, RunType
  <2>3. run.result[a] # "none" \/ Closed(a)
    BY <1>3, <2>1 DEF CloseInv, At
  <2>4. Closed(a)
    BY <2>1, <2>2, <2>3 DEF HeldInv, HeldIsClosed
  <2> QED  BY <2>2, <2>4, ClosedForGood
<1> QED  BY <1>1, <1>2, <1>3 DEF Rests

LEMMA LeaversInit == Init => LeaversInv
<1> SUFFICES ASSUME Init PROVE LeaversInv
  OBVIOUS
<1>1. AtRest(run, Unrun, NoExit, {})
  BY SomeExits, RestingIs, UnrunIs DEF Init
<1>2. ReadInv /\ CloseInv /\ CleanExitMeansClosed
  BY <1>1 DEF AtRest, ReadInv, CloseInv, CleanExitMeansClosed, At
<1> QED  BY <1>2, TypeInit, InitLag, InitHeld DEF LeaversInv

LEMMA LeaversNext == LeaversInv /\ [Next]_vars => LeaversInv'
<1> SUFFICES ASSUME LeaversInv, [Next]_vars PROVE LeaversInv'
  OBVIOUS
<1>1. TypeInv /\ LagInv /\ HeldInv /\ ReadInv /\ CloseInv /\ CleanExitMeansClosed
  BY DEF LeaversInv
<1>2. TypeInv' /\ LagInv' /\ HeldInv'
  BY <1>1, TypeNext, NextLag, NextHeld
<1>3. run \in RunType
  BY <1>1 DEF TypeInv
<1>4. CASE UNCHANGED vars
  <2>1. ListsTell' = ListsTell /\ OpenOnes(run.decision)' = OpenOnes(run.decision)
    BY <1>4 DEF vars, ListsTell, OpenOnes
  <2>2. ReadInv'
    BY <1>1, <1>3, <1>4, <2>1, ReadKept DEF vars, ReadInv
  <2>3. CloseInv'
    BY <1>1, <1>4, CloseGoesOn DEF vars
  <2> QED  BY <1>1, <1>2, <1>4, <2>2, <2>3, CleanExitGoesOn DEF vars, LeaversInv
<1>5. ASSUME NEW a \in Federated, Moves(a) \/ Settles(a) \/ Mints(a) \/ Edits(a) PROVE LeaversInv'
  <2>1. \/ run' = run
        \/ Touched(a)
    BY <1>5 DEF Moves, Settles, Mints, Edits
  <2>2. /\ run'.pc = run.pc /\ run'.cur = run.cur /\ run'.todo = run.todo /\ run'.stayed \subseteq run.stayed
        /\ run'.moved = run.moved /\ run'.gone \subseteq run.gone /\ run'.rest = run.rest /\ run'.result = run.result
        /\ run'.exit = run.exit
    <3>1. CASE run' = run
      BY <3>1
    <3>2. CASE Touched(a)
      BY <1>3, <3>2 DEF Touched, RunType
    <3> QED  BY <2>1, <3>1, <3>2
  <2>3. CloseInv'
    BY <1>1, <2>2, CloseGoesOn
  <2>4. CleanExitMeansClosed'
    BY <1>1, <2>2, CleanExitGoesOn
  <2> QED  BY <1>1, <1>2, <1>5, <2>3, <2>4, OthersRead DEF LeaversInv
<1>6. ASSUME NEW mode \in Modes, NEW a \in Federated \cup {Nobody}, mode = "close-now" => a \in Federated,
             Begins(mode, a)
      PROVE  LeaversInv'
  <2>1. Looks
    BY <1>1, <1>6, BeginsIs
  <2>2. CASE run' = Resting(Unrun, 3, {})
    <3>1. AtRest(run', Unrun, 3, {})
      BY <2>2, RestingIs, UnrunIs, SomeExits
    <3>2. ReadInv' /\ CloseInv' /\ CleanExitMeansClosed'
      BY <3>1, RestingReads, RestingCloses DEF AtRest, CleanExitMeansClosed
    <3> QED  BY <1>2, <3>2 DEF LeaversInv
  <2>3. CASE ClosesOne(a)
    <3>1. ReadInv' /\ CloseInv' /\ CleanExitMeansClosed'
      BY <2>3, RestingReads DEF ClosesOne, CloseInv, CleanExitMeansClosed, At
    <3> QED  BY <1>2, <3>1 DEF LeaversInv
  <2>4. CASE ReadsAll
    <3>1. ReadInv'
      BY <1>1, <2>1, <2>4, BeginsRead
    <3>2. CloseInv' /\ CleanExitMeansClosed'
      BY <2>4, RestingCloses DEF ReadsAll, CleanExitMeansClosed, At
    <3> QED  BY <1>2, <3>1, <3>2 DEF LeaversInv
  <2> QED  BY <1>1, <1>6, <2>2, <2>3, <2>4, BeginsIs
<1>7. CASE Reports \/ Executes \/ \E a \in Accounts : ExecutesOn(a) \/ ClosesNow(a)
  BY <1>6, <1>7 DEF Reports, Executes, ExecutesOn, ClosesNow
<1>8. CASE FirstRead \/ Confirms
  BY <1>1, <1>2, <1>8, FirstReadNext, ConfirmsNext, CleanExitGoesOn DEF LeaversInv
<1>9. CASE Pauses
  <2>1. run'.pc = "confirm"
    BY <1>1, <1>9, PausesTyped
  <2> QED  BY <1>1, <1>2, <1>9, <2>1, PausesRead, RestingCloses, CleanExitGoesOn DEF LeaversInv
<1>10. CASE Dies
  <2>1. run'.pc = "idle"
    BY <1>1, <1>10, RestsIs DEF Rests, AtRest
  <2> QED  BY <1>1, <1>2, <1>10, <2>1, EndsClean, RestingReads, RestingCloses DEF LeaversInv
<1>11. CASE NextClose \/ Gets \/ Revokes \/ Revoked \/ Disables \/ Clears \/ ReadsAccount \/ ReadsTokens
  <2>1. CloseInv' /\ ReadInv'
    BY <1>1, <1>11, ClosingNext, RestingReads
  <2>2. CASE NextClose /\ run.todo = {}
    BY <1>1, <1>2, <2>1, <2>2, EndsClean DEF LeaversInv
  <2>3. CASE ~(NextClose /\ run.todo = {})
    <3>1. run'.pc # "idle"
      <4>1. ASSUME NotHeld PROVE run'.pc = "next"
        BY <1>3, <4>1 DEF NotHeld, RunType
      <4>2. ASSUME NEW pc, Goes(pc) PROVE run'.pc = pc
        BY <1>3, <4>2 DEF Goes, RunType
      <4>3. CASE NextClose \/ Gets
        BY <1>3, <2>3, <4>1, <4>3, ZenonT(40) DEF NextClose, Gets, Refuses, RunType
      <4>5. CASE Revokes
        BY <1>3, <4>5, ZenonT(40) DEF Revokes, RunType, At
      <4>6. ASSUME NEW clean, run' = [run EXCEPT !.pc = "left", !.clean = clean] PROVE run'.pc = "left"
        BY <1>3, <4>6 DEF RunType
      <4>7. ASSUME NEW outcome, run' = [run EXCEPT !.pc = "next", !.result[Cur] = outcome] PROVE run'.pc = "next"
        BY <1>3, <4>7 DEF RunType
      <4>8. CASE ReadsAccount
        BY <4>1, <4>6, <4>8, Zenon DEF ReadsAccount, Refuses
      <4>9. CASE ReadsTokens
        BY <4>1, <4>7, <4>9, Zenon DEF ReadsTokens, Refuses
      <4>4. CASE Revoked \/ Disables \/ Clears
        BY <4>1, <4>2, <4>4 DEF Revoked, Disables, Clears, Puts
      <4> QED  BY <1>11, <4>3, <4>4, <4>5, <4>8, <4>9
    <3>2. CleanExitMeansClosed'
      BY <1>1, <3>1, CleanExitGoesOn
    <3> QED  BY <1>2, <2>1, <3>2 DEF LeaversInv
  <2> QED  BY <2>2, <2>3
<1> QED
  BY <1>4, <1>5, <1>7, <1>8, <1>9, <1>10, <1>11, NextIs DEF RunLooks

LEMMA LeaversAlways == Spec => []LeaversInv
  BY LeaversInit, LeaversNext, PTL DEF Spec

\* Whoever could sign in before the run began, and of whom nothing changed since, is never closed: with any number of
\* confirming reads the directory has settled before the last one, whatever the earlier ones answered.
THEOREM ReturnedAlwaysSpared == Spec => []ReturnedIsSpared
<1>1. LeaversInv => ReturnedIsSpared
  BY DEF LeaversInv, CloseInv, ReturnedIsSpared, Closing
<1> QED  BY <1>1, LeaversAlways, PTL

\* An exit of 0 or 4 after a read of the organization: who had left before it began, and of whom nothing changed
\* since, is shut out, whatever was refused and however many deaths came before.
THEOREM CleanExitAlwaysClosed == Spec => []CleanExitMeansClosed
<1>1. LeaversInv => CleanExitMeansClosed
  BY DEF LeaversInv
<1> QED  BY <1>1, LeaversAlways, PTL
=============================================================================
