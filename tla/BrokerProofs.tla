----------------------------- MODULE BrokerProofs -----------------------------
(***************************************************************************)
(* Theorems about modules Broker and ElevationGate, for every number of    *)
(* subjects, grants, checks, faults and edits; and about the broker's      *)
(* clock: how long an elevation can outlive its window, and that the       *)
(* broker keeps ElevationContract (the broker run one command at a time).  *)
(***************************************************************************)
EXTENDS ElevationGate, BrokerRefinement, FiniteSetTheorems, WellFoundedInduction, TLAPS

\* A recorded scope grant has both roles on the ladder.
OnLadder(g) == IsScope(g) => g.role \in Ladder /\ g.baseline \in Ladder

\* A command in flight: what it still has to visit is open in its copy, what it is writing is too, and
\* only the draft of a grant whose baseline is not read yet may lack one.
Sound(k) ==
  /\ k \in Command
  /\ k.todo \subseteq OpenIds(k.copy)
  /\ k.pc \in {"write", "readback"} => k.id \in k.todo
  /\ k.pc = "baseline" => /\ k.id \in Ids /\ IsScope(k.copy[k.id]) /\ k.copy[k.id].role \in Ladder
                          /\ \A i \in Ids \ {k.id} : OnLadder(k.copy[i])
  /\ k.pc # "baseline" => \A i \in Ids : OnLadder(k.copy[i])

TypeInv == TypeOK /\ \A p \in Procs : Sound(proc[p])

-----------------------------------------------------------------------------
\* A nonempty set of naturals has a least element (by the well-foundedness of strict inclusion).
LEMMA MinExists ==
  ASSUME NEW S, S \subseteq Nat, S # {} PROVE \E i \in S : \A j \in S : i <= j
<1> DEFINE Below == {1..i : i \in S}
<1>1. Below \subseteq FiniteSubsetsOf(Nat)
  <2>1. ASSUME NEW i \in S PROVE 1..i \subseteq Nat /\ IsFiniteSet(1..i)
    BY FS_Interval
  <2> QED BY <2>1 DEF FiniteSubsetsOf
<1>2. PICK T \in Below : \A U \in Below : ~(<<U, T>> \in StrictSubsetOrdering(Nat))
  <2>1. Below # {} OBVIOUS
  <2>2. IsWellFoundedOn(StrictSubsetOrdering(Nat), FiniteSubsetsOf(Nat))
    BY FS_StrictSubsetOrderingWellFounded
  <2> QED BY <1>1, <2>1, <2>2, WFMin
<1>3. PICK i \in S : T = 1..i
  BY <1>2
<1>4. ASSUME NEW j \in S, j < i PROVE FALSE
  <2>1. 1..j \in Below OBVIOUS
  <2>2. 1..j \subseteq Nat /\ 1..i \subseteq Nat /\ 1..j \subseteq 1..i
    BY <1>4
  <2>3. i \in 1..i /\ i \notin 1..j
    BY <1>4
  <2>4. <<1..j, 1..i>> \in StrictSubsetOrdering(Nat)
    BY <2>2, <2>3 DEF StrictSubsetOrdering
  <2> QED BY <1>2, <1>3, <2>1, <2>4
<1> QED BY <1>4

\* The pass's next grant is one it still has to visit.
LEMMA TurnIsOpen ==
  ASSUME TypeInv, NEW p \in Procs, proc[p].todo # {}
  PROVE  /\ Turn(p) \in proc[p].todo /\ Turn(p) \in Ids
         /\ proc[p].copy[Turn(p)] \in Grant /\ IsScope(proc[p].copy[Turn(p)])
<1>1. proc[p].todo \subseteq Ids /\ proc[p].todo \subseteq OpenIds(proc[p].copy) /\ proc[p].copy \in Files
  BY DEF TypeInv, Sound, Command
<1>2. proc[p].todo \subseteq Nat
  BY <1>1 DEF Ids
<1>3. Turn(p) \in proc[p].todo
  BY <1>2, MinExists DEF Turn
<1> QED BY <1>1, <1>3 DEF OpenIds, Files, IsScope

\* A process with no command is sound: it has nothing to visit.
LEMMA IdleSound == Sound(Idle)
  BY DEF Sound, Idle, Command, EmptyFile, Files, OpenIds, OnLadder, IsScope

\* Settling a grant keeps it a grant and its roles.
LEMMA SettleType ==
  ASSUME NEW g \in Grant
  PROVE  /\ Settle(g) \in Grant /\ Settle(g).reverted
         /\ Settle(g).axis = g.axis /\ Settle(g).subject = g.subject
         /\ Settle(g).role = g.role /\ Settle(g).baseline = g.baseline
         /\ g.state = "REVOKED" => Settle(g).state = "REVOKED"
         /\ Settle(g).state # "ACTIVE"
  BY DEF Settle, Grant

\* Commands, with some of their fields replaced, are commands.
LEMMA CommandWith ==
  ASSUME NEW k \in Command, NEW c \in Files, NEW t \in SUBSET Ids, NEW n \in Nat, NEW i \in Nat,
         NEW a \in BOOLEAN,
         NEW pc \in {"idle", "baseline", "save", "visit", "write", "readback", "beat"}
  PROVE  /\ [k EXCEPT !.pc = pc, !.id = i, !.todo = t, !.copy = c] \in Command
         /\ [k EXCEPT !.pc = pc, !.id = i, !.todo = t, !.failed = TRUE] \in Command
         /\ [k EXCEPT !.pc = pc, !.now = n, !.id = i, !.copy = c] \in Command
         /\ [k EXCEPT !.pc = pc, !.now = n, !.copy = c, !.todo = t, !.apply = a] \in Command
  BY Zenon DEF Command

\* What Done and Failed leave of a sound command.
LEMMA DoneSound ==
  ASSUME NEW p \in Procs, Sound(proc[p]), NEW i \in proc[p].todo, proc[p].pc # "baseline"
  PROVE  Sound(Done(p, i)) /\ Sound(Failed(p, i))
<1> DEFINE k == proc[p]
           g == k.copy[i]
           h == IF IsLive(g, k.now) THEN g ELSE Settle(g)
           c == [k.copy EXCEPT ![i] = h]
<1>1. i \in Ids /\ g \in Grant /\ IsScope(g) /\ k \in Command /\ k.todo \ {i} \in SUBSET Ids
  BY DEF Sound, Command, OpenIds, Files, IsScope
<1>2. h \in Grant /\ OnLadder(h)
  BY <1>1, SettleType DEF OnLadder, IsScope, Sound
<1>3. c \in Files
  BY <1>1, <1>2 DEF Command, Files
<1>4. Done(p, i) = [k EXCEPT !.pc = "visit", !.id = 0, !.todo = k.todo \ {i}, !.copy = c]
  BY <1>1 DEF Done, Command
<1>5. Done(p, i) \in Command /\ Failed(p, i) \in Command
  <2>1. [k EXCEPT !.pc = "visit", !.id = 0, !.todo = k.todo \ {i}, !.copy = c] \in Command
    BY <1>1, <1>3, CommandWith
  <2>2. [k EXCEPT !.pc = "visit", !.id = 0, !.todo = k.todo \ {i}, !.failed = TRUE] \in Command
    BY <1>1, <1>3, CommandWith
  <2>3. Failed(p, i) = [k EXCEPT !.pc = "visit", !.id = 0, !.todo = k.todo \ {i}, !.failed = TRUE]
    BY <1>1 DEF Failed
  <2> QED BY <1>4, <2>1, <2>2, <2>3
<1>6. /\ Done(p, i).pc = "visit" /\ Done(p, i).todo = k.todo \ {i} /\ Done(p, i).copy = c
      /\ Failed(p, i).pc = "visit" /\ Failed(p, i).todo = k.todo \ {i} /\ Failed(p, i).copy = k.copy
  BY <1>1, <1>4 DEF Failed, Command
<1>7. k.todo \ {i} \subseteq OpenIds(c) /\ k.todo \ {i} \subseteq OpenIds(k.copy)
  BY <1>1 DEF Sound, Command, Files, OpenIds
<1>8. \A j \in Ids : OnLadder(c[j]) /\ OnLadder(k.copy[j])
  BY <1>1, <1>2 DEF Sound, Command, Files
<1> QED BY <1>5, <1>6, <1>7, <1>8 DEF Sound

\* One command moving on to a sound state leaves every command sound.
LEMMA OneMoves ==
  ASSUME TypeInv, NEW p \in Procs, NEW k, Sound(k), proc' = [proc EXCEPT ![p] = k]
  PROVE  proc' \in [Procs -> Command] /\ \A q \in Procs : Sound(proc'[q])
  BY DEF TypeInv, TypeOK, Sound

\* A new grant appended to a file, and its fields.
LEMMA DraftType ==
  ASSUME NEW s \in Subjects, NEW r \in Ladder, NEW acts \in SUBSET Destructive, NEW t \in Nat
  PROVE  /\ ScopeGrant(s, r, t) \in Grant /\ IsScope(ScopeGrant(s, r, t))
         /\ ActionGrant(s, acts, t) \in Grant /\ ~IsScope(ActionGrant(s, acts, t))
<1>1. r \in Held /\ NoBinding \in Held
  BY DEF Held, Roles
<1>2. ScopeGrant(s, r, t) \in Grant /\ ActionGrant(s, acts, t) \in Grant
  BY <1>1, Zenon DEF Grant, ScopeGrant, ActionGrant
<1> QED BY <1>2, BrokerAssumption DEF IsScope, ScopeGrant, ActionGrant

-----------------------------------------------------------------------------
(* Type correctness. *)

\* The part of TypeOK that is not about the commands.
Shared ==
  /\ file \in Files
  /\ \A i \in Ids : OnLadder(file[i])
  /\ issued \in 0..MaxGrants
  /\ binding \in [Subjects -> Held]
  /\ heartbeat \in [at : Int, ok : BOOLEAN]
  /\ clock \in Nat
  /\ raised \in [Subjects -> BOOLEAN]
  /\ owned \in [Subjects -> SUBSET Roles]
  /\ faults \in Nat /\ edits \in Nat

\* The part of the invariant that is about shared state, and the part about each command, by name.
LEMMA TypeInvParts ==
  TypeInv <=> Shared /\ proc \in [Procs -> Command] /\ \A p \in Procs : Sound(proc[p])
  BY DEF TypeInv, TypeOK, Shared, OnLadder

\* No grant is recorded and no command runs at the start.
LEMMA TypeInit == Init => TypeInv
<1> SUFFICES ASSUME Init PROVE TypeInv
  OBVIOUS
<1>1. \A i \in Ids : ~IsScope(file[i])
  BY DEF Init, EmptyFile, IsScope
<1>2. Shared
  BY <1>1, BrokerAssumption DEF Init, Shared, EmptyFile, Files, OnLadder, Held, Roles
<1>3. proc \in [Procs -> Command] /\ \A p \in Procs : Sound(proc[p])
  BY IdleSound DEF Init, Sound
<1> QED BY <1>2, <1>3, TypeInvParts

\* The commands that start: their private copy is the file, with a draft or a mark on it.
LEMMA StartsSound ==
  ASSUME TypeInv, NEW p \in Procs, Starts(p)
  PROVE  TypeInv'
<1>1. Shared /\ \A i \in Ids : file[i] \in Grant \cup {NoGrant}
  BY TypeInvParts DEF Shared, Files
<1>2. Idle \in Command /\ {} \in SUBSET Ids
  BY IdleSound DEF Sound
<1>3. SUFFICES /\ issued' \in 0..MaxGrants
               /\ \E k : Sound(k) /\ proc' = [proc EXCEPT ![p] = k]
               /\ UNCHANGED <<file, binding, heartbeat, clock, raised, owned, faults, edits>>
  <2>1. Shared'
    BY <1>1 DEF Shared
  <2>2. proc' \in [Procs -> Command] /\ \A q \in Procs : Sound(proc'[q])
    BY OneMoves
  <2> QED BY <2>1, <2>2 DEF TypeInv, TypeOK, Shared, OnLadder
<1>4. ASSUME NEW s \in Subjects, NEW h \in 1..MaxHours, NEW r \in Ladder, ScopeGrantStarts(p, s, r, h)
      PROVE  Sound([Idle EXCEPT !.pc = "baseline", !.now = clock, !.id = issued + 1,
                                !.copy = [file EXCEPT ![issued + 1] = ScopeGrant(s, r, clock + h)]])
  <2> DEFINE i == issued + 1
             c == [file EXCEPT ![i] = ScopeGrant(s, r, clock + h)]
             k == [Idle EXCEPT !.pc = "baseline", !.now = clock, !.id = i, !.copy = c]
  <2>1. i \in Ids /\ i \in Nat /\ clock + h \in Nat /\ clock \in Nat
    BY <1>1, <1>4, BrokerAssumption DEF Shared, Ids, ScopeGrantStarts
  <2>2. ScopeGrant(s, r, clock + h) \in Grant /\ IsScope(ScopeGrant(s, r, clock + h))
    BY <2>1, DraftType
  <2>3. c \in Files /\ c[i] = ScopeGrant(s, r, clock + h) /\ \A j \in Ids \ {i} : c[j] = file[j]
    BY <1>1, <2>1, <2>2 DEF Shared, Files
  <2>4. k \in Command
    BY <1>2, <2>1, <2>3, CommandWith
  <2>5. k.pc = "baseline" /\ k.id = i /\ k.copy = c /\ k.todo = {}
    BY DEF Idle
  <2>6. ScopeGrant(s, r, clock + h).role \in Ladder
    BY DEF ScopeGrant
  <2> QED BY <1>1, <2>1, <2>2, <2>3, <2>4, <2>5, <2>6 DEF Sound, Shared
<1>5. ASSUME NEW s \in Subjects, NEW h \in 1..MaxHours, NEW acts \in SUBSET Destructive,
             ActionGrantStarts(p, s, acts, h)
      PROVE  Sound([Idle EXCEPT !.pc = "save", !.now = clock, !.id = issued + 1,
                                !.copy = [file EXCEPT ![issued + 1] = ActionGrant(s, acts, clock + h)]])
  <2> DEFINE i == issued + 1
             c == [file EXCEPT ![i] = ActionGrant(s, acts, clock + h)]
             k == [Idle EXCEPT !.pc = "save", !.now = clock, !.id = i, !.copy = c]
  <2>1. i \in Ids /\ i \in Nat /\ clock + h \in Nat /\ clock \in Nat
    BY <1>1, <1>5, BrokerAssumption DEF Shared, Ids, ActionGrantStarts
  <2>2. ActionGrant(s, acts, clock + h) \in Grant /\ ~IsScope(ActionGrant(s, acts, clock + h))
    BY <2>1, Zenon DEF Grant, ActionGrant, IsScope, Held
  <2>3. c \in Files /\ c[i] = ActionGrant(s, acts, clock + h) /\ \A j \in Ids \ {i} : c[j] = file[j]
    BY <1>1, <2>1, <2>2 DEF Shared, Files
  <2>4. k \in Command
    BY <1>2, <2>1, <2>3, CommandWith
  <2>5. k.pc = "save" /\ k.copy = c /\ k.todo = {}
    BY DEF Idle
  <2> QED BY <1>1, <2>1, <2>2, <2>3, <2>4, <2>5 DEF Sound, Shared, OnLadder
<1>6. ASSUME NEW i \in Ids, RevokeStarts(p, i)
      PROVE  Sound([Idle EXCEPT !.pc = "save", !.now = clock, !.id = i,
                                !.copy = [file EXCEPT ![i].state = "REVOKED", ![i].revokedAt = clock]])
  <2> DEFINE g == [file[i] EXCEPT !.state = "REVOKED", !.revokedAt = clock]
             c == [file EXCEPT ![i] = g]
             k == [Idle EXCEPT !.pc = "save", !.now = clock, !.id = i, !.copy = c]
  <2>1. i \in Nat /\ clock \in Nat /\ file[i] \in Grant /\ file \in Files
    BY <1>1, <1>6 DEF Shared, Ids, RevokeStarts
  <2>2. g \in Grant
    BY <2>1, Zenon DEF Grant
  <2>3. g.axis = file[i].axis /\ g.role = file[i].role /\ g.baseline = file[i].baseline
    BY <2>1 DEF Grant
  <2>4. c \in Files /\ c[i] = g /\ \A j \in Ids \ {i} : c[j] = file[j]
    BY <2>1, <2>2 DEF Files
  <2>5. [file EXCEPT ![i].state = "REVOKED", ![i].revokedAt = clock] = c
    BY <2>1 DEF Files
  <2>6. k \in Command
    BY <1>2, <2>1, <2>4, CommandWith
  <2>7. k.pc = "save" /\ k.copy = c /\ k.todo = {}
    BY DEF Idle
  <2>8. \A j \in Ids : OnLadder(c[j])
    <3>1. file[i] # NoGrant /\ OnLadder(file[i])
      BY <1>1, <1>6 DEF Shared, RevokeStarts
    <3>2. OnLadder(g)
      BY <2>3, <3>1 DEF OnLadder, IsScope
    <3> QED BY <1>1, <2>4, <3>2 DEF Shared
  <2>9. Sound(k)
    BY <2>6, <2>7, <2>8 DEF Sound
  <2> HIDE DEF c
  <2> QED BY <2>5, <2>9
<1>7. ASSUME NEW apply \in BOOLEAN, PassStarts(p, apply)
      PROVE  Sound([Idle EXCEPT !.pc = "visit", !.now = clock, !.copy = file, !.todo = OpenIds(file),
                                !.apply = apply])
  <2> DEFINE k == [Idle EXCEPT !.pc = "visit", !.now = clock, !.copy = file, !.todo = OpenIds(file),
                               !.apply = apply]
  <2>1. file \in Files /\ clock \in Nat /\ OpenIds(file) \in SUBSET Ids
    BY <1>1 DEF Shared, OpenIds
  <2>2. k \in Command
    BY <1>2, <2>1, CommandWith
  <2>3. k.pc = "visit" /\ k.copy = file /\ k.todo = OpenIds(file)
    BY DEF Idle
  <2> QED BY <1>1, <2>2, <2>3 DEF Sound, Shared
<1>8. QED
  <2>1. issued' \in 0..MaxGrants
    <3>1. issued' = issued \/ (issued < MaxGrants /\ issued' = issued + 1)
      BY DEF Starts, ScopeGrantStarts, ActionGrantStarts, RevokeStarts, PassStarts
    <3> QED BY <1>1, <3>1, BrokerAssumption DEF Shared
  <2>2. \E k : Sound(k) /\ proc' = [proc EXCEPT ![p] = k]
    BY <1>4, <1>5, <1>6, <1>7 DEF Starts, ScopeGrantStarts, ActionGrantStarts, RevokeStarts, PassStarts
  <2>3. UNCHANGED <<file, binding, heartbeat, clock, raised, owned, faults, edits>>
    BY DEF Starts, ScopeGrantStarts, ActionGrantStarts, RevokeStarts, PassStarts
  <2> QED BY <2>1, <2>2, <2>3

\* The role a sound pass wants for a grant it has open is a role of the ladder.
LEMMA WantType ==
  ASSUME TypeInv, NEW p \in Procs, proc[p].pc \in {"visit", "write", "readback"}, NEW i \in proc[p].todo
  PROVE  /\ i \in Ids /\ proc[p].copy[i] \in Grant /\ proc[p].copy[i].subject \in Subjects
         /\ Want(proc[p].copy[i], proc[p].now) \in Ladder
<1>1. /\ proc[p] \in Command /\ proc[p].todo \subseteq OpenIds(proc[p].copy)
      /\ \A j \in Ids : OnLadder(proc[p].copy[j])
  BY DEF TypeInv, Sound
<1>2. i \in Ids /\ IsScope(proc[p].copy[i]) /\ proc[p].copy[i] \in Grant
  BY <1>1 DEF OpenIds, Command, Files, IsScope
<1>3. proc[p].copy[i].role \in Ladder /\ proc[p].copy[i].baseline \in Ladder
  BY <1>1, <1>2 DEF OnLadder
<1> QED BY <1>2, <1>3 DEF Want, Grant

\* What a running command does next, when nothing fails.
LEMMA StepSound ==
  ASSUME TypeInv, NEW p \in Procs, Step(p)
  PROVE  TypeInv'
<1> DEFINE k == proc[p]
           i == k.id
<1>1. /\ Shared /\ k \in Command /\ Sound(k) /\ Sound(Idle)
      /\ \A q \in Procs : Sound(proc[q])
  BY TypeInvParts, IdleSound
<1>2. SUFFICES /\ Shared'
               /\ \E m : Sound(m) /\ proc' = [proc EXCEPT ![p] = m]
  <2>1. proc' \in [Procs -> Command] /\ \A q \in Procs : Sound(proc'[q])
    BY OneMoves
  <2> QED BY <2>1 DEF TypeInv, TypeOK, Shared, OnLadder
<1>3. CASE ScopeGrantReads(p)
  <2> DEFINE base == binding[k.copy[i].subject]
             g == [k.copy[i] EXCEPT !.baseline = base]
             c == [k.copy EXCEPT ![i] = g]
             m == [k EXCEPT !.pc = "save", !.copy = c]
  <2>1. Shared'
    BY <1>1, <1>3 DEF ScopeGrantReads, Shared
  <2>2. /\ i \in Ids /\ IsScope(k.copy[i]) /\ k.copy[i] \in Grant /\ k.copy \in Files
        /\ k.copy[i].role \in Ladder /\ \A j \in Ids \ {i} : OnLadder(k.copy[j])
    BY <1>1, <1>3 DEF ScopeGrantReads, Sound, Command, Files, IsScope
  <2>3. CASE base \in Ladder /\ base < k.copy[i].role
    <3>1. base \in Held
      BY <2>3 DEF Held, Roles
    <3>2. g \in Grant
      BY <2>2, <3>1, Zenon DEF Grant
    <3>3. c \in Files /\ c[i] = g /\ \A j \in Ids \ {i} : c[j] = k.copy[j]
      BY <2>2, <3>2 DEF Files
    <3>4. OnLadder(g)
      BY <2>2, <2>3 DEF OnLadder, Grant
    <3>5. \A j \in Ids : OnLadder(c[j])
      BY <2>2, <3>3, <3>4
    <3>6. m \in Command
      BY <1>1, <3>3, Zenon DEF Command
    <3>7. m.pc = "save" /\ m.copy = c /\ m.todo = k.todo
      BY <1>1 DEF Command
    <3>8. k.todo \subseteq OpenIds(c)
      <4>1. g.axis = k.copy[i].axis /\ g.reverted = k.copy[i].reverted /\ g # NoGrant
        BY <2>2, <3>2, BrokerAssumption DEF Grant
      <4>2. i \in OpenIds(k.copy) => i \in OpenIds(c)
        BY <2>2, <3>3, <4>1 DEF OpenIds, IsScope
      <4> QED BY <1>1, <3>3, <4>2 DEF Sound, OpenIds
    <3>9. Sound(m)
      BY <3>5, <3>6, <3>7, <3>8 DEF Sound
    <3>10. proc' = [proc EXCEPT ![p] = m]
      <4>1. proc' = [proc EXCEPT ![p] = [k EXCEPT !.pc = "save", !.copy[i].baseline = base]]
        BY <1>3, <2>3 DEF ScopeGrantReads
      <4>2. [k EXCEPT !.pc = "save", !.copy[i].baseline = base] = m
        BY <1>1, <2>2 DEF Command
      <4> QED BY <4>1, <4>2
    <3> QED BY <2>1, <3>9, <3>10
  <2>4. CASE ~(base \in Ladder /\ base < k.copy[i].role)
    BY <1>1, <1>3, <2>1, <2>4 DEF ScopeGrantReads
  <2> QED BY <2>3, <2>4
<1>4. CASE Saves(p)
  <2>1. k.copy \in Files /\ \A j \in Ids : OnLadder(k.copy[j])
    BY <1>1, <1>4 DEF Saves, Sound, Command
  <2>2. Shared'
    BY <1>1, <1>4, <2>1 DEF Saves, Shared
  <2> QED BY <1>1, <1>4, <2>2 DEF Saves
<1>5. CASE PassVisits(p)
  <2> DEFINE t == Turn(p)
  <2>1. Shared'
    BY <1>1, <1>5 DEF PassVisits, Shared
  <2>2. t \in k.todo /\ k.pc = "visit" /\ t \in Nat
    BY <1>5, TurnIsOpen DEF PassVisits, Ids
  <2>3. Sound(Done(p, t))
    BY <1>1, <2>2, DoneSound
  <2>4. Sound([k EXCEPT !.pc = "write", !.id = t])
    <3>1. [k EXCEPT !.pc = "write", !.id = t] \in Command
      BY <1>1, <2>2, Zenon DEF Command
    <3> QED BY <1>1, <2>2, <3>1 DEF Sound, Command
  <2>5. Sound([k EXCEPT !.todo = @ \ {t}])
    <3>1. k.todo \ {t} \in SUBSET Ids
      BY <1>1 DEF Command
    <3>2. [k EXCEPT !.todo = k.todo \ {t}] \in Command
      BY <1>1, <3>1, Zenon DEF Command
    <3>3. k.todo \ {t} \subseteq OpenIds(k.copy)
      BY <1>1 DEF Sound
    <3> QED BY <1>1, <2>2, <3>2, <3>3 DEF Sound, Command
  <2>6. \/ proc' = [proc EXCEPT ![p] = Done(p, t)]
        \/ proc' = [proc EXCEPT ![p] = [k EXCEPT !.pc = "write", !.id = t]]
        \/ proc' = [proc EXCEPT ![p] = [k EXCEPT !.todo = @ \ {t}]]
    <3>1. \/ proc' = [proc EXCEPT ![p] = Done(p, t)]
          \/ proc' = [proc EXCEPT ![p].pc = "write", ![p].id = t]
          \/ proc' = [proc EXCEPT ![p].todo = @ \ {t}]
      BY <1>5 DEF PassVisits
    <3> QED BY <1>1, <3>1 DEF TypeInv, TypeOK
  <2> QED BY <2>1, <2>3, <2>4, <2>5, <2>6
<1>6. CASE PassWrites(p)
  <2>1. i \in k.todo /\ k.pc = "write"
    BY <1>1, <1>6 DEF PassWrites, Sound
  <2>2. Want(k.copy[i], k.now) \in Held
    BY <2>1, WantType DEF Held, Roles
  <2>3. Shared'
    BY <1>1, <1>6, <2>2 DEF PassWrites, Applies, Shared, IsLive
  <2>4. [k EXCEPT !.pc = "readback"] \in Command
    BY <1>1, Zenon DEF Command
  <2>5. Sound([k EXCEPT !.pc = "readback"])
    BY <1>1, <2>1, <2>4 DEF Sound, Command
  <2> QED BY <1>6, <2>3, <2>5 DEF PassWrites
<1>7. CASE PassReadsBack(p)
  <2>1. Shared'
    BY <1>1, <1>7 DEF PassReadsBack, Shared
  <2>2. i \in k.todo /\ k.pc = "readback"
    BY <1>1, <1>7 DEF PassReadsBack, Sound
  <2>3. Sound(Done(p, i)) /\ Sound(Failed(p, i))
    BY <1>1, <2>2, DoneSound
  <2> QED BY <1>7, <2>1, <2>3 DEF PassReadsBack
<1>8. CASE PassEnds(p)
  <2>1. k.copy \in Files /\ \A j \in Ids : OnLadder(k.copy[j])
    BY <1>1, <1>8 DEF PassEnds, Sound, Command
  <2>2. Shared'
    BY <1>1, <1>8, <2>1 DEF PassEnds, Shared
  <2>3. [k EXCEPT !.pc = "beat"] \in Command
    BY <1>1, Zenon DEF Command
  <2>4. Sound([k EXCEPT !.pc = "beat"])
    BY <1>1, <1>8, <2>3 DEF Sound, Command, PassEnds
  <2> QED BY <1>1, <1>8, <2>2, <2>4 DEF PassEnds
<1>9. CASE PassBeats(p)
  <2>1. k.now \in Nat
    BY <1>1 DEF Command
  <2>2. Shared'
    BY <1>1, <1>9, <2>1 DEF PassBeats, Shared
  <2> QED BY <1>1, <1>9, <2>2 DEF PassBeats
<1> QED BY <1>3, <1>4, <1>5, <1>6, <1>7, <1>8, <1>9 DEF Step

\* Failures, deaths, time and administrators.
LEMMA OtherSound ==
  ASSUME TypeInv, \/ \E p \in Procs : Fails(p)
                  \/ Tick
                  \/ \E s \in Subjects, r \in Held : AdminEdits(s, r)
  PROVE  TypeInv'
<1>1. Shared /\ Sound(Idle) /\ proc \in [Procs -> Command] /\ \A q \in Procs : Sound(proc[q])
  BY TypeInvParts, IdleSound
<1>2. ASSUME NEW p \in Procs, Fails(p) PROVE TypeInv'
  <2>1. SUFFICES /\ Shared'
                 /\ \E m : Sound(m) /\ proc' = [proc EXCEPT ![p] = m]
    <3>1. proc' \in [Procs -> Command] /\ \A q \in Procs : Sound(proc'[q])
      BY OneMoves
    <3> QED BY <3>1 DEF TypeInv, TypeOK, Shared, OnLadder
  <2>2. CASE PassReadFails(p)
    <3>1. Shared'
      BY <1>1, <2>2 DEF PassReadFails, Shared
    <3>2. Sound(Failed(p, Turn(p)))
      BY <1>1, <2>2, TurnIsOpen, DoneSound DEF PassReadFails
    <3> QED BY <2>2, <3>1, <3>2 DEF PassReadFails
  <2>3. CASE PassWriteFails(p)
    <3>1. proc[p].id \in proc[p].todo /\ proc[p].pc = "write"
      BY <1>1, <2>3 DEF PassWriteFails, Sound
    <3>2. Want(proc[p].copy[proc[p].id], proc[p].now) \in Held
      BY <3>1, WantType DEF Held, Roles
    <3>3. binding' \in [Subjects -> Held] /\ raised' \in [Subjects -> BOOLEAN]
      BY <1>1, <2>3, <3>2, ZenonT(40) DEF PassWriteFails, Applies, Shared, IsLive
    <3>4. Shared'
      BY <1>1, <2>3, <3>3 DEF PassWriteFails, Shared
    <3>5. Sound(Failed(p, proc[p].id))
      BY <1>1, <3>1, DoneSound
    <3> QED BY <2>3, <3>4, <3>5 DEF PassWriteFails
  <2>4. CASE PassReadBackFails(p)
    <3>1. Shared'
      BY <1>1, <2>4 DEF PassReadBackFails, Shared
    <3>2. proc[p].id \in proc[p].todo /\ proc[p].pc = "readback"
      BY <1>1, <2>4 DEF PassReadBackFails, Sound
    <3>3. Sound(Failed(p, proc[p].id))
      BY <1>1, <3>2, DoneSound
    <3> QED BY <2>4, <3>1, <3>3 DEF PassReadBackFails
  <2>5. CASE Dies(p)
    <3>1. Shared'
      BY <1>1, <2>5 DEF Dies, Shared
    <3> QED BY <1>1, <2>5, <3>1 DEF Dies
  <2> QED BY <1>2, <2>2, <2>3, <2>4, <2>5 DEF Fails
<1>3. CASE Tick
  <2>1. Shared' /\ proc' = proc
    BY <1>1, <1>3 DEF Tick, Shared
  <2> QED BY <1>1, <2>1 DEF TypeInv, TypeOK, Shared, OnLadder
<1>4. ASSUME NEW s \in Subjects, NEW r \in Held, AdminEdits(s, r) PROVE TypeInv'
  <2>1. {r} \ {NoBinding} \in SUBSET Roles
    BY DEF Held
  <2>2. Shared' /\ proc' = proc
    BY <1>1, <1>4, <2>1 DEF AdminEdits, Shared
  <2> QED BY <1>1, <2>2 DEF TypeInv, TypeOK, Shared, OnLadder
<1> QED BY <1>2, <1>3, <1>4

\* Every step of grant, revoke, reconcile, the clock and an administrator keeps the types.
LEMMA TypeNext == TypeInv /\ [Next]_vars => TypeInv'
<1>1. TypeInv /\ Next => TypeInv'
  BY StartsSound, StepSound, OtherSound DEF Next
<1>2. TypeInv /\ UNCHANGED vars => TypeInv'
  BY DEF TypeInv, TypeOK, vars
<1> QED BY <1>1, <1>2

\* Every reachable state is well typed, however many commands run at the same time: the file always
\* holds whole grants, and a recorded scope grant always has a baseline on the ladder (cmd_grant
\* refuses a non-member before anything is recorded).
THEOREM TypeCorrect == Spec => []TypeOK
<1>1. TypeInv => TypeOK
  BY DEF TypeInv
<1> QED BY TypeInit, TypeNext, <1>1, PTL DEF Spec

-----------------------------------------------------------------------------
(* The broker run one command at a time. *)

\* At most one command at any time.
Serialized == \A p, q \in Procs : p = q

\* What a file has to satisfy when n ids are drawn, whoever wrote it: no id from the future, one open grant per subject, no
\* reverted grant left active, and every open baseline owned and below the granted role.
Good(f, n) ==
  /\ \A i \in Ids : i > n => f[i] = NoGrant
  /\ \A i, j \in OpenIds(f) : f[i].subject = f[j].subject => i = j
  /\ \A i \in Ids : IsScope(f[i]) /\ f[i].reverted => f[i].state # "ACTIVE"
  /\ \A i \in OpenIds(f) : f[i].baseline \in owned[f[i].subject] /\ f[i].baseline < f[i].role

\* File c may replace file f: approvals stay, revocations and reverts are kept.
Forward(f, c) ==
  \A i \in Ids : f[i] # NoGrant =>
    /\ c[i] # NoGrant
    /\ c[i].axis = f[i].axis /\ c[i].subject = f[i].subject
    /\ c[i].role = f[i].role /\ c[i].baseline = f[i].baseline
    /\ f[i].state = "REVOKED" => c[i].state = "REVOKED"
    /\ f[i].reverted => c[i].reverted

\* The draft of a scope grant is the file with one open grant more, for a subject that has none.
Drafting(k, n) ==
  /\ k.id = n /\ file[k.id] = NoGrant
  /\ k.copy = [file EXCEPT ![k.id] = k.copy[k.id]]
  /\ k.id \in OpenIds(k.copy)
  /\ \A i \in OpenIds(file) : file[i].subject # k.copy[k.id].subject

Saving(k, n) == Good(k.copy, n) /\ Forward(file, k.copy) /\ OpenIds(file) \subseteq OpenIds(k.copy)

\* A pass's copy is the file with reverts marked, and nobody is raised under a grant it has marked.
Passing(k) ==
  /\ Forward(file, k.copy)
  /\ \A i \in Ids : file[i] = NoGrant => k.copy[i] = NoGrant
  /\ \A i \in Ids : IsScope(k.copy[i]) /\ k.copy[i].reverted => k.copy[i].state # "ACTIVE"
  /\ \A i \in OpenIds(file) \ OpenIds(k.copy) : ~raised[file[i].subject]

InFlight(k, n) ==
  /\ k.pc = "baseline" => Drafting(k, n)
  /\ k.pc = "save" => Saving(k, n)
  /\ k.pc \in {"visit", "write", "readback"} => Passing(k)

\* A role the broker did not raise was given by an administrator.
HeldIsOwned ==
  \A s \in Subjects : ~raised[s] /\ binding[s] # NoBinding => binding[s] \in owned[s]

SafeInv ==
  /\ TypeInv /\ Good(file, issued) /\ HeldIsOwned /\ RaisedIsRecorded
  /\ \A p \in Procs : InFlight(proc[p], issued)

\* An open grant of a pass's copy is the file's, roles and subject included.
LEMMA PassingOpen ==
  ASSUME SafeInv, NEW p \in Procs, Passing(proc[p]), NEW i \in OpenIds(proc[p].copy)
  PROVE  /\ i \in OpenIds(file) /\ i \in Ids /\ file[i] \in Grant /\ proc[p].copy[i] \in Grant
         /\ proc[p].copy[i].subject = file[i].subject /\ file[i].subject \in Subjects
         /\ proc[p].copy[i].role = file[i].role /\ file[i].role \in Ladder
         /\ proc[p].copy[i].baseline = file[i].baseline /\ file[i].baseline \in Ladder
<1>1. file \in Files /\ proc[p].copy \in Files /\ \A j \in Ids : OnLadder(file[j])
  BY TypeInvParts DEF SafeInv, Shared, Command
<1>2. i \in Ids /\ IsScope(proc[p].copy[i]) /\ ~proc[p].copy[i].reverted /\ file[i] # NoGrant
  BY DEF OpenIds, Passing, IsScope
<1>3. file[i] \in Grant /\ proc[p].copy[i] \in Grant
  BY <1>1, <1>2 DEF Files, IsScope
<1>4. /\ proc[p].copy[i].axis = file[i].axis /\ proc[p].copy[i].subject = file[i].subject
      /\ proc[p].copy[i].role = file[i].role /\ proc[p].copy[i].baseline = file[i].baseline
      /\ file[i].reverted => proc[p].copy[i].reverted
  BY <1>2 DEF Passing, Forward
<1>5. IsScope(file[i]) /\ i \in OpenIds(file)
  BY <1>2, <1>4 DEF OpenIds, IsScope
<1>6. file[i].role \in Ladder /\ file[i].baseline \in Ladder
  BY <1>1, <1>2, <1>5 DEF OnLadder
<1> QED BY <1>2, <1>3, <1>4, <1>5, <1>6 DEF Grant

\* A subject that has no binding, or holds the baseline of its open grant, is not raised.
LEMMA AtBaseline ==
  ASSUME SafeInv, NEW i \in OpenIds(file), file[i].subject \in Subjects,
         file[i].role \in Ladder, file[i].baseline \in Ladder,
         binding[file[i].subject] \in {NoBinding, file[i].baseline}
  PROVE  ~raised[file[i].subject]
<1>1. SUFFICES ASSUME raised[file[i].subject] PROVE FALSE
  BY TypeInvParts DEF SafeInv, Shared
<1>2. PICK j \in OpenIds(file) : file[j].subject = file[i].subject /\ file[j].role = binding[file[i].subject]
  BY <1>1 DEF SafeInv, RaisedIsRecorded
<1>3. j = i
  BY <1>2 DEF SafeInv, Good
<1>4. file[i].baseline < file[i].role
  BY DEF SafeInv, Good
<1> QED BY <1>2, <1>3, <1>4, BrokerAssumption DEF Ladder

\* A pass stays a pass over grants it fails on, and over grants it settles once the binding is down.
LEMMA DoneSafe ==
  ASSUME SafeInv, NEW p \in Procs, proc[p].pc \in {"visit", "write", "readback"},
         NEW i \in proc[p].todo
  PROVE  /\ InFlight(Failed(p, i), issued)
         /\ \/ IsLive(proc[p].copy[i], proc[p].now)
            \/ binding[proc[p].copy[i].subject] \in {NoBinding, proc[p].copy[i].baseline}
            => InFlight(Done(p, i), issued)
<1> DEFINE k == proc[p]
           g == k.copy[i]
           h == IF IsLive(g, k.now) THEN g ELSE Settle(g)
           c == [k.copy EXCEPT ![i] = h]
<1>1. k \in Command /\ Passing(k) /\ i \in OpenIds(k.copy)
  BY DEF SafeInv, TypeInv, Sound, InFlight
<1>2. /\ i \in OpenIds(file) /\ i \in Ids /\ g \in Grant /\ g.subject = file[i].subject
      /\ g.baseline = file[i].baseline /\ file[i].subject \in Subjects
      /\ file[i].role \in Ladder /\ file[i].baseline \in Ladder
  BY <1>1, PassingOpen
<1>3. Failed(p, i).pc = "visit" /\ Failed(p, i).copy = k.copy
  BY <1>1 DEF Failed, Command
<1>4. InFlight(Failed(p, i), issued)
  BY <1>1, <1>3 DEF InFlight, Passing
<1>5. ASSUME \/ IsLive(g, k.now)
             \/ binding[g.subject] \in {NoBinding, g.baseline}
      PROVE  InFlight(Done(p, i), issued)
  <2>1. Done(p, i) = [k EXCEPT !.pc = "visit", !.id = 0, !.todo = k.todo \ {i}, !.copy = c]
    BY <1>1, <1>2 DEF Done, Command
  <2>2. Done(p, i).pc = "visit" /\ Done(p, i).copy = c
    BY <1>1, <2>1 DEF Command
  <2>3. k.copy \in Files /\ c[i] = h /\ \A j \in Ids \ {i} : c[j] = k.copy[j]
    BY <1>1, <1>2 DEF Command, Files
  <2>4. CASE IsLive(g, k.now)
    <3>1. c = k.copy
      BY <1>1, <1>2, <2>3, <2>4 DEF Command, Files
    <3>2. Passing(Done(p, i))
      BY <1>1, <2>2, <3>1 DEF Passing
    <3> QED BY <2>2, <3>2 DEF InFlight
  <2>5. CASE ~IsLive(g, k.now)
    <3>1. h = Settle(g)
      BY <2>5
    <3>2. /\ h \in Grant /\ h.reverted /\ h.axis = g.axis /\ h.subject = g.subject /\ h.role = g.role
          /\ h.baseline = g.baseline /\ (g.state = "REVOKED" => h.state = "REVOKED")
          /\ h.state # "ACTIVE" /\ h # NoGrant
      BY <1>2, <3>1, SettleType, BrokerAssumption
    <3>3. ~raised[file[i].subject]
      BY <1>2, <1>5, <2>5, AtBaseline
    <3> HIDE DEF h
    <3>4. Forward(file, c)
      <4>1. Forward(file, k.copy)
        BY <1>1 DEF Passing
      <4> QED BY <1>2, <2>3, <3>2, <4>1 DEF Forward
    <3>5. \A j \in Ids : file[j] = NoGrant => c[j] = NoGrant
      BY <1>1, <1>2, <2>3 DEF Passing, OpenIds, IsScope
    <3>6. \A j \in Ids : IsScope(c[j]) /\ c[j].reverted => c[j].state # "ACTIVE"
      BY <1>1, <2>3, <3>2 DEF Passing
    <3>7. \A j \in OpenIds(file) \ OpenIds(c) : ~raised[file[j].subject]
      <4>1. SUFFICES ASSUME NEW j \in OpenIds(file), j \notin OpenIds(c) PROVE ~raised[file[j].subject]
        OBVIOUS
      <4>2. CASE j = i
        BY <3>3, <4>2
      <4>3. CASE j # i
        BY <1>1, <2>3, <4>1, <4>3 DEF Passing, OpenIds
      <4> QED BY <4>2, <4>3
    <3>8. Passing(Done(p, i))
      BY <2>2, <3>4, <3>5, <3>6, <3>7 DEF Passing
    <3> QED BY <2>2, <3>8 DEF InFlight
  <2> QED BY <2>4, <2>5
<1> QED BY <1>4, <1>5

\* The single command moves on, perhaps drawing an id, and touches neither file nor binding.
LEMMA SafeMove ==
  ASSUME SafeInv, TypeInv', Serialized, NEW p \in Procs, NEW k, InFlight(k, issued'),
         proc' = [proc EXCEPT ![p] = k], issued' \in {issued, issued + 1},
         UNCHANGED <<file, binding, raised, owned>>
  PROVE  SafeInv'
<1>1. InFlight(k, issued)'
  BY DEF InFlight, Drafting, Saving, Passing, Good, OpenIds
<1>2. \A q \in Procs : proc'[q] = k
  BY DEF Serialized, SafeInv, TypeInv, TypeOK
<1>3. Good(file, issued)'
  <2>1. issued \in Nat /\ Ids \subseteq Nat
    BY BrokerAssumption DEF SafeInv, TypeInv, TypeOK, Ids
  <2>2. \A i \in Ids : i > issued' => file[i] = NoGrant
    <3>1. \A i \in Ids : i > issued => file[i] = NoGrant
      BY DEF SafeInv, Good
    <3>2. issued' = issued \/ issued' = issued + 1
      OBVIOUS
    <3>3. ASSUME NEW i \in Ids, i > issued' PROVE i > issued
      BY <2>1, <3>2, <3>3
    <3> QED BY <3>1, <3>3
  <2> QED BY <2>2 DEF SafeInv, Good, OpenIds
<1>4. HeldIsOwned' /\ RaisedIsRecorded'
  BY DEF SafeInv, OpenIds, HeldIsOwned, RaisedIsRecorded
<1> QED BY <1>1, <1>2, <1>3, <1>4 DEF SafeInv

\* A process with no command has nothing in flight.
LEMMA IdleSafe == \A n : InFlight(Idle, n)
  BY DEF InFlight, Idle

\* At the start every role held was given by an administrator, and nothing is recorded or raised.
LEMMA SafeInit == Init => SafeInv
<1> SUFFICES ASSUME Init PROVE SafeInv
  OBVIOUS
<1>1. OpenIds(file) = {} /\ \A i \in Ids : file[i] = NoGrant
  BY DEF Init, EmptyFile, OpenIds, IsScope
<1>2. Good(file, issued)
  BY <1>1 DEF Good, IsScope
<1>3. HeldIsOwned /\ RaisedIsRecorded
  BY DEF Init, HeldIsOwned, RaisedIsRecorded
<1> QED BY <1>2, <1>3, TypeInit, IdleSafe DEF Init, SafeInv

\* A command that starts leaves the file alone and drafts its change in its copy.
LEMMA StartsSafe ==
  ASSUME SafeInv, TypeInv', Serialized, NEW p \in Procs, Starts(p)
  PROVE  SafeInv'
<1>1. /\ Shared /\ file \in Files /\ Good(file, issued) /\ proc \in [Procs -> Command]
      /\ Forward(file, file)
  BY TypeInvParts DEF SafeInv, Shared, Forward
<1>2. ASSUME NEW s \in Subjects, NEW h \in 1..MaxHours, NEW r \in Ladder, ScopeGrantStarts(p, s, r, h)
      PROVE  SafeInv'
  <2> DEFINE n == issued + 1
             g == ScopeGrant(s, r, clock + h)
             c == [file EXCEPT ![n] = g]
             k == [Idle EXCEPT !.pc = "baseline", !.now = clock, !.id = n, !.copy = c]
  <2>1. n \in Ids /\ n > issued /\ issued \in Nat
    BY <1>1, <1>2, BrokerAssumption DEF Shared, Ids, ScopeGrantStarts
  <2>2. file[n] = NoGrant
    BY <1>1, <2>1 DEF Good
  <2>3. c[n] = g /\ c = [file EXCEPT ![n] = c[n]]
    BY <1>1, <2>1 DEF Files
  <2>4. IsScope(g) /\ ~g.reverted /\ g.subject = s
    <3>1. clock + h \in Nat
      BY <1>1 DEF Shared
    <3> QED BY <3>1, DraftType DEF ScopeGrant
  <2>5. n \in OpenIds(c)
    BY <2>1, <2>3, <2>4 DEF OpenIds
  <2>6. \A i \in OpenIds(file) : file[i].subject # s
    BY <1>2 DEF ScopeGrantStarts, Overlaps, OpenIds
  <2>7. k.pc = "baseline" /\ k.id = n /\ k.copy = c
    BY DEF Idle
  <2>8. proc' = [proc EXCEPT ![p] = k] /\ issued' = n /\ UNCHANGED <<file, binding, raised, owned>>
    BY <1>2 DEF ScopeGrantStarts
  <2> HIDE DEF k, c, g
  <2>9. Drafting(k, n)
    BY <2>2, <2>3, <2>4, <2>5, <2>6, <2>7 DEF Drafting
  <2>10. InFlight(k, n)
    BY <2>7, <2>9 DEF InFlight
  <2> QED BY <2>8, <2>10, SafeMove
<1>3. ASSUME NEW s \in Subjects, NEW h \in 1..MaxHours, NEW acts \in SUBSET Destructive,
             ActionGrantStarts(p, s, acts, h)
      PROVE  SafeInv'
  <2> DEFINE n == issued + 1
             g == ActionGrant(s, acts, clock + h)
             c == [file EXCEPT ![n] = g]
             k == [Idle EXCEPT !.pc = "save", !.now = clock, !.id = n, !.copy = c]
  <2>1. n \in Ids /\ n > issued /\ issued \in Nat /\ Ids \subseteq Int
    BY <1>1, <1>3, BrokerAssumption DEF Shared, Ids, ActionGrantStarts
  <2>2. file[n] = NoGrant
    BY <1>1, <2>1 DEF Good
  <2>3. c[n] = g /\ \A j \in Ids \ {n} : c[j] = file[j]
    BY <1>1, <2>1 DEF Files
  <2>4. ~IsScope(g)
    BY DEF ActionGrant, IsScope
  <2>5. k.pc = "save" /\ k.copy = c
    BY DEF Idle
  <2>6. proc' = [proc EXCEPT ![p] = k] /\ issued' = n /\ UNCHANGED <<file, binding, raised, owned>>
    BY <1>3 DEF ActionGrantStarts
  <2> HIDE DEF k, c, g
  <2>7. OpenIds(c) = OpenIds(file) /\ \A i \in OpenIds(file) : c[i] = file[i]
    BY <2>2, <2>3, <2>4 DEF OpenIds, IsScope
  <2>8. Good(c, n)
    <3>1. \A i \in Ids : i > n => c[i] = NoGrant
      BY <1>1, <2>1, <2>3 DEF Good
    <3>2. \A i \in Ids : IsScope(c[i]) /\ c[i].reverted => c[i].state # "ACTIVE"
      BY <1>1, <2>3, <2>4 DEF Good
    <3> QED BY <1>1, <2>7, <3>1, <3>2 DEF Good
  <2>9. Forward(file, c)
    BY <1>1, <2>2, <2>3 DEF Forward
  <2>10. InFlight(k, n)
    BY <2>5, <2>7, <2>8, <2>9 DEF Saving, InFlight
  <2> QED BY <2>6, <2>10, SafeMove
<1>4. ASSUME NEW i \in Ids, RevokeStarts(p, i)
      PROVE  SafeInv'
  <2> DEFINE g == [file[i] EXCEPT !.state = "REVOKED", !.revokedAt = clock]
             c == [file EXCEPT ![i] = g]
             k == [Idle EXCEPT !.pc = "save", !.now = clock, !.id = i, !.copy = c]
  <2>1. file[i] \in Grant /\ clock \in Nat
    BY <1>1, <1>4 DEF Shared, Files, RevokeStarts
  <2>2. g \in Grant
    BY <2>1, Zenon DEF Grant
  <2>3. /\ g.axis = file[i].axis /\ g.subject = file[i].subject /\ g.role = file[i].role
        /\ g.baseline = file[i].baseline /\ g.state = "REVOKED" /\ g.reverted = file[i].reverted
        /\ g # NoGrant
    BY <2>1, <2>2, BrokerAssumption DEF Grant
  <2>4. c[i] = g /\ \A j \in Ids \ {i} : c[j] = file[j]
    BY <1>1 DEF Files
  <2>5. [file EXCEPT ![i].state = "REVOKED", ![i].revokedAt = clock] = c
    BY <1>1 DEF Files
  <2>6. k.pc = "save" /\ k.copy = c
    BY DEF Idle
  <2>7. proc' = [proc EXCEPT ![p] = k] /\ UNCHANGED <<file, issued, binding, raised, owned>>
    BY <1>4, <2>5 DEF RevokeStarts
  <2> HIDE DEF k, c, g
  <2>8. /\ OpenIds(c) = OpenIds(file)
        /\ \A j \in Ids : /\ c[j] = NoGrant <=> file[j] = NoGrant
                          /\ file[j] # NoGrant => /\ c[j].axis = file[j].axis
                                                  /\ c[j].subject = file[j].subject
                                                  /\ c[j].role = file[j].role
                                                  /\ c[j].baseline = file[j].baseline
                                                  /\ c[j].reverted = file[j].reverted
                                                  /\ c[j].state \in {file[j].state, "REVOKED"}
    BY <1>4, <2>3, <2>4 DEF OpenIds, IsScope, RevokeStarts
  <2>9. Good(c, issued)
    <3>1. \A j \in OpenIds(file) : j \in Ids /\ file[j] # NoGrant
      BY DEF OpenIds, IsScope
    <3> QED BY <1>1, <2>8, <3>1 DEF Good, IsScope
  <2>10. Forward(file, c)
    BY <2>8 DEF Forward
  <2>11. InFlight(k, issued)
    BY <2>6, <2>8, <2>9, <2>10 DEF InFlight, Saving
  <2> QED BY <2>7, <2>11, SafeMove
<1>5. ASSUME NEW apply \in BOOLEAN, PassStarts(p, apply)
      PROVE  SafeInv'
  <2> DEFINE k == [Idle EXCEPT !.pc = "visit", !.now = clock, !.copy = file, !.todo = OpenIds(file),
                               !.apply = apply]
  <2>1. k.pc = "visit" /\ k.copy = file
    BY DEF Idle
  <2>2. proc' = [proc EXCEPT ![p] = k] /\ UNCHANGED <<file, issued, binding, raised, owned>>
    BY <1>5 DEF PassStarts
  <2> HIDE DEF k
  <2>3. InFlight(k, issued)
    BY <1>1, <2>1 DEF InFlight, Passing, Good
  <2> QED BY <2>2, <2>3, SafeMove
<1> QED BY <1>2, <1>3, <1>4, <1>5 DEF Starts

\* The baseline read of a scope grant: the subject is not raised, so what it holds is its own.
LEMMA ReadsSafe ==
  ASSUME SafeInv, TypeInv', Serialized, NEW p \in Procs, ScopeGrantReads(p)
  PROVE  SafeInv'
<1> DEFINE k == proc[p]
           i == k.id
           s == k.copy[i].subject
           base == binding[s]
           g == [k.copy[i] EXCEPT !.baseline = base]
           c == [k.copy EXCEPT ![i] = g]
           m == [k EXCEPT !.pc = "save", !.copy = c]
<1>1. /\ Shared /\ k \in Command /\ k.copy \in Files /\ file \in Files /\ Good(file, issued)
      /\ Drafting(k, issued) /\ issued \in Nat /\ k.copy[i].role \in Ladder
  BY TypeInvParts, BrokerAssumption DEF SafeInv, Shared, Command, InFlight, ScopeGrantReads, Sound
<1>2. /\ i \in Ids /\ k.copy[i] \in Grant /\ IsScope(k.copy[i]) /\ ~k.copy[i].reverted /\ s \in Subjects
      /\ \A j \in Ids \ {i} : k.copy[j] = file[j]
  BY <1>1 DEF Drafting, OpenIds, Files, IsScope, Grant
<1>3. CASE ~(base \in Ladder /\ base < k.copy[i].role)
  BY <1>3, IdleSafe, SafeMove DEF ScopeGrantReads
<1>4. CASE base \in Ladder /\ base < k.copy[i].role
  <2>1. base \in owned[s]
    <3>1. ~raised[s]
      BY <1>1, <1>2 DEF SafeInv, RaisedIsRecorded, Drafting
    <3> QED BY <1>2, <1>4, <3>1, BrokerAssumption, SMTT(20) DEF SafeInv, HeldIsOwned, Ladder
  <2>2. base \in Held
    BY <1>4 DEF Held, Roles
  <2>3. g \in Grant
    BY <1>2, <2>2, Zenon DEF Grant
  <2>4. /\ g.axis = "scope" /\ g.subject = s /\ g.role = k.copy[i].role /\ g.baseline = base
        /\ ~g.reverted /\ g # NoGrant
    BY <1>2, <2>3, BrokerAssumption DEF Grant, IsScope
  <2>5. c[i] = g /\ \A j \in Ids \ {i} : c[j] = file[j]
    BY <1>1, <1>2 DEF Files
  <2>6. proc' = [proc EXCEPT ![p] = m]
    <3>1. proc' = [proc EXCEPT ![p] = [k EXCEPT !.pc = "save", !.copy[i].baseline = base]]
      BY <1>4 DEF ScopeGrantReads
    <3>2. [k EXCEPT !.pc = "save", !.copy[i].baseline = base] = m
      BY <1>1, <1>2 DEF Command
    <3> QED BY <3>1, <3>2
  <2>7. m.pc = "save" /\ m.copy = c
    BY <1>1 DEF Command
  <2>8. i = issued /\ file[i] = NoGrant /\ \A j \in OpenIds(file) : j # i /\ file[j].subject # s
    BY <1>1 DEF Drafting, OpenIds, IsScope
  <2> HIDE DEF m, c, g
  <2>9. OpenIds(c) = OpenIds(file) \cup {i} /\ \A j \in OpenIds(file) : c[j] = file[j]
    BY <1>2, <2>4, <2>5, <2>8 DEF OpenIds, IsScope
  <2>10. Good(c, issued)
    <3>1. \A j \in Ids : j > issued => c[j] = NoGrant
      BY <1>1, <2>5, <2>8 DEF Good, Ids
    <3>2. \A j \in Ids : IsScope(c[j]) /\ c[j].reverted => c[j].state # "ACTIVE"
      BY <1>1, <2>4, <2>5 DEF Good
    <3>3. \A j, l \in OpenIds(c) : c[j].subject = c[l].subject => j = l
      BY <1>1, <2>4, <2>5, <2>8, <2>9 DEF Good
    <3>4. \A j \in OpenIds(c) : c[j].baseline \in owned[c[j].subject] /\ c[j].baseline < c[j].role
      BY <1>1, <1>4, <2>1, <2>4, <2>5, <2>9 DEF Good
    <3> QED BY <3>1, <3>2, <3>3, <3>4 DEF Good
  <2>11. Forward(file, c)
    BY <2>5, <2>8 DEF Forward
  <2>12. InFlight(m, issued)
    BY <2>7, <2>9, <2>10, <2>11 DEF InFlight, Saving
  <2> QED BY <2>6, <2>12, SafeMove DEF ScopeGrantReads
<1> QED BY <1>3, <1>4

\* The save of grant and revoke.
LEMMA SavesSafe ==
  ASSUME SafeInv, TypeInv', Serialized, NEW p \in Procs, Saves(p)
  PROVE  SafeInv'
<1> DEFINE c == proc[p].copy
<1>1. /\ Saving(proc[p], issued) /\ file' = c /\ proc' = [proc EXCEPT ![p] = Idle]
      /\ UNCHANGED <<issued, binding, raised, owned>>
  BY DEF SafeInv, InFlight, Saves
<1>2. \A q \in Procs : proc'[q] = Idle
  BY <1>1 DEF Serialized, SafeInv, TypeInv, TypeOK
<1>3. Good(file, issued)'
  BY <1>1 DEF Saving, Good, OpenIds
<1>4. RaisedIsRecorded'
  <2>1. SUFFICES ASSUME NEW s \in Subjects, raised[s]
                 PROVE  \E i \in OpenIds(c) : c[i].subject = s /\ c[i].role = binding[s]
    BY <1>1 DEF RaisedIsRecorded, OpenIds
  <2>2. PICK i \in OpenIds(file) : file[i].subject = s /\ file[i].role = binding[s]
    BY <2>1 DEF SafeInv, RaisedIsRecorded
  <2>3. i \in OpenIds(c) /\ c[i].subject = s /\ c[i].role = binding[s]
    BY <1>1, <2>2 DEF Saving, Forward, OpenIds, IsScope
  <2> QED BY <2>3
<1>5. HeldIsOwned'
  BY <1>1 DEF SafeInv, HeldIsOwned
<1>6. InFlight(Idle, issued)'
  BY DEF InFlight, Idle
<1> QED BY <1>2, <1>3, <1>4, <1>5, <1>6 DEF SafeInv

\* The read of a visit and the read after a write.
LEMMA ReadBackSafe ==
  ASSUME SafeInv, TypeInv', Serialized, NEW p \in Procs, PassVisits(p) \/ PassReadsBack(p)
  PROVE  SafeInv'
<1> DEFINE k == proc[p]
<1>1. k \in Command /\ proc \in [Procs -> Command] /\ InFlight(k, issued) /\ Sound(k)
  BY DEF SafeInv, TypeInv, TypeOK, Sound
<1>2. CASE PassVisits(p)
  <2> DEFINE i == Turn(p)
  <2>1. i \in k.todo /\ k.pc = "visit"
    BY <1>2, TurnIsOpen DEF PassVisits, SafeInv
  <2>2. UNCHANGED <<file, issued, binding, raised, owned>>
    BY <1>2 DEF PassVisits
  <2>3. CASE /\ binding[k.copy[i].subject] \in {NoBinding, Want(k.copy[i], k.now)}
             /\ proc' = [proc EXCEPT ![p] = Done(p, i)]
    <3>1. InFlight(Done(p, i), issued)
      BY <2>1, <2>3, DoneSafe DEF Want
    <3> QED BY <2>2, <2>3, <3>1, SafeMove
  <2>4. CASE proc' = [proc EXCEPT ![p].pc = "write", ![p].id = i]
    <3>1. proc' = [proc EXCEPT ![p] = [k EXCEPT !.pc = "write", !.id = i]]
      BY <1>1, <2>4
    <3>2. InFlight([k EXCEPT !.pc = "write", !.id = i], issued)
      BY <1>1, <2>1 DEF InFlight, Passing, Command
    <3> QED BY <2>2, <3>1, <3>2, SafeMove
  <2>5. CASE proc' = [proc EXCEPT ![p].todo = @ \ {i}]
    <3>1. proc' = [proc EXCEPT ![p] = [k EXCEPT !.todo = k.todo \ {i}]]
      BY <1>1, <2>5
    <3>2. InFlight([k EXCEPT !.todo = k.todo \ {i}], issued)
      BY <1>1, <2>1 DEF InFlight, Passing, Command
    <3> QED BY <2>2, <3>1, <3>2, SafeMove
  <2> QED BY <1>2, <2>3, <2>4, <2>5 DEF PassVisits
<1>3. CASE PassReadsBack(p)
  <2> DEFINE i == k.id
  <2>1. i \in k.todo /\ k.pc = "readback"
    BY <1>1, <1>3 DEF PassReadsBack, Sound
  <2>2. UNCHANGED <<file, issued, binding, raised, owned>>
    BY <1>3 DEF PassReadsBack
  <2>3. InFlight(Failed(p, i), issued)
    BY <2>1, DoneSafe
  <2>4. binding[k.copy[i].subject] = Want(k.copy[i], k.now) => InFlight(Done(p, i), issued)
    BY <2>1, DoneSafe DEF Want
  <2>5. CASE binding[k.copy[i].subject] = Want(k.copy[i], k.now)
    BY <1>3, <2>2, <2>4, <2>5, SafeMove DEF PassReadsBack
  <2>6. CASE binding[k.copy[i].subject] # Want(k.copy[i], k.now)
    BY <1>3, <2>2, <2>3, <2>6, SafeMove DEF PassReadsBack
  <2> QED BY <2>5, <2>6
<1> QED BY <1>2, <1>3

\* A write that lands: it raises under an open grant of the file, or returns to an owned baseline; the
\* subjects of the grants the pass has marked are others.
LEMMA AppliedSafe ==
  ASSUME SafeInv, NEW p \in Procs, proc[p].pc = "write", Applies(p), UNCHANGED <<file, issued, owned>>,
         NEW k, k.copy = proc[p].copy
  PROVE  HeldIsOwned' /\ RaisedIsRecorded' /\ Passing(k)'
<1> DEFINE i == proc[p].id
           g == proc[p].copy[i]
           live == IsLive(g, proc[p].now)
           s == file[i].subject
<1>1. /\ Passing(proc[p]) /\ i \in OpenIds(proc[p].copy) /\ Good(file, issued)
      /\ binding \in [Subjects -> Held] /\ raised \in [Subjects -> BOOLEAN]
      /\ HeldIsOwned /\ RaisedIsRecorded
  BY DEF SafeInv, TypeInv, TypeOK, Sound, InFlight
<1>2. /\ i \in OpenIds(file) /\ g.subject = s /\ s \in Subjects /\ g.role = file[i].role
      /\ g.baseline = file[i].baseline
  BY <1>1, PassingOpen
<1>3. /\ binding' = [binding EXCEPT ![s] = IF live THEN file[i].role ELSE file[i].baseline]
      /\ raised' = [raised EXCEPT ![s] = live]
  BY <1>2 DEF Applies, Want
<1> HIDE DEF live
<1>4. live \in BOOLEAN
  BY DEF live, IsLive
<1>5. HeldIsOwned'
  <2>1. file[i].baseline \in owned[s]
    BY <1>1, <1>2 DEF Good
  <2> QED BY <1>1, <1>2, <1>3, <1>4, <2>1 DEF HeldIsOwned
<1>6. RaisedIsRecorded'
  <2>1. SUFFICES ASSUME NEW u \in Subjects, raised'[u]
                 PROVE  \E j \in OpenIds(file) : file[j].subject = u /\ file[j].role = binding'[u]
    BY DEF RaisedIsRecorded, OpenIds
  <2>2. CASE u = s
    BY <1>1, <1>2, <1>3, <1>4, <2>1, <2>2
  <2>3. CASE u # s
    <3>1. raised[u] /\ binding'[u] = binding[u]
      BY <1>1, <1>2, <1>3, <2>1, <2>3
    <3> QED BY <1>1, <3>1 DEF RaisedIsRecorded
  <2> QED BY <2>2, <2>3
<1>7. Passing(k)'
  <2>1. \A j \in OpenIds(file) \ OpenIds(proc[p].copy) : ~raised'[file[j].subject]
    <3>1. SUFFICES ASSUME NEW j \in OpenIds(file), j \notin OpenIds(proc[p].copy)
                   PROVE  ~raised'[file[j].subject]
      OBVIOUS
    <3>2. j # i
      BY <1>1, <3>1
    <3>3. file[j].subject # s
      BY <1>1, <1>2, <3>2 DEF Good
    <3>4. ~raised[file[j].subject]
      BY <1>1, <3>1 DEF Passing
    <3> QED BY <1>1, <1>2, <1>3, <3>3, <3>4
  <2>2. OpenIds(file)' = OpenIds(file)
    BY DEF OpenIds
  <2> QED BY <1>1, <2>1, <2>2 DEF Passing, Forward, OpenIds
<1> QED BY <1>5, <1>6, <1>7

\* The server-side apply of a pass raises only under an open grant, and lowers to an owned baseline.
LEMMA WritesSafe ==
  ASSUME SafeInv, TypeInv', Serialized, NEW p \in Procs, PassWrites(p) \/ PassWriteFails(p)
  PROVE  SafeInv'
<1> DEFINE k == proc[p]
           i == k.id
<1>1. /\ k \in Command /\ proc \in [Procs -> Command] /\ InFlight(k, issued) /\ Sound(k)
      /\ k.pc = "write" /\ Good(file, issued) /\ i \in k.todo
      /\ UNCHANGED <<file, issued, owned>>
  BY DEF SafeInv, TypeInv, TypeOK, Sound, PassWrites, PassWriteFails
<1>2. Good(file, issued)'
  BY <1>1 DEF Good, OpenIds
<1>3. CASE PassWrites(p)
  <2>1. proc' = [proc EXCEPT ![p] = [k EXCEPT !.pc = "readback"]]
    BY <1>1, <1>3 DEF PassWrites
  <2>2. ASSUME NEW m, m = [k EXCEPT !.pc = "readback"] PROVE SafeInv'
    <3>1. m.pc = "readback" /\ m.copy = k.copy
      BY <1>1, <2>2 DEF Command
    <3>2. HeldIsOwned' /\ RaisedIsRecorded' /\ Passing(m)'
      BY <1>1, <1>3, <3>1, AppliedSafe DEF PassWrites
    <3>3. InFlight(m, issued)'
      BY <3>1, <3>2 DEF InFlight
    <3>4. \A q \in Procs : proc'[q] = m
      BY <1>1, <2>1, <2>2 DEF Serialized
    <3> QED BY <1>2, <3>2, <3>3, <3>4 DEF SafeInv
  <2> QED BY <2>2
<1>4. CASE PassWriteFails(p)
  <2>1. proc' = [proc EXCEPT ![p] = Failed(p, i)]
    BY <1>4 DEF PassWriteFails
  <2>2. CASE UNCHANGED <<binding, raised>>
    BY <1>1, <2>1, <2>2, DoneSafe, SafeMove
  <2>3. CASE Applies(p)
    <3>1. ASSUME NEW m, m = Failed(p, i) PROVE SafeInv'
      <4>1. m.pc = "visit" /\ m.copy = k.copy
        BY <1>1, <3>1 DEF Command, Failed
      <4>2. HeldIsOwned' /\ RaisedIsRecorded' /\ Passing(m)'
        BY <1>1, <2>3, <4>1, AppliedSafe
      <4>3. InFlight(m, issued)'
        BY <4>1, <4>2 DEF InFlight
      <4>4. \A q \in Procs : proc'[q] = m
        BY <1>1, <2>1, <3>1 DEF Serialized
      <4> QED BY <1>2, <4>2, <4>3, <4>4 DEF SafeInv
    <3> QED BY <3>1
  <2> QED BY <1>4, <2>2, <2>3 DEF PassWriteFails
<1> QED BY <1>3, <1>4

\* The save of a pass.
LEMMA EndsSafe ==
  ASSUME SafeInv, TypeInv', Serialized, NEW p \in Procs, PassEnds(p)
  PROVE  SafeInv'
<1> DEFINE k == proc[p]
           c == k.copy
<1>1. /\ k \in Command /\ proc \in [Procs -> Command] /\ Passing(k) /\ Good(file, issued)
      /\ HeldIsOwned /\ RaisedIsRecorded /\ UNCHANGED <<issued, binding, raised, owned>>
  BY DEF SafeInv, TypeInv, TypeOK, PassEnds, InFlight
<1>2. CASE ~k.apply
  BY <1>1, <1>2, IdleSafe, SafeMove DEF PassEnds
<1>3. CASE k.apply
  <2>1. file' = c /\ proc' = [proc EXCEPT ![p] = [k EXCEPT !.pc = "beat"]]
    BY <1>1, <1>3 DEF PassEnds
  <2>2. \A i \in OpenIds(c) : /\ i \in OpenIds(file) /\ c[i].subject = file[i].subject
                              /\ c[i].role = file[i].role /\ c[i].baseline = file[i].baseline
    BY <1>1, PassingOpen
  <2>3. Good(c, issued)
    <3>1. \A i \in Ids : i > issued => c[i] = NoGrant
      BY <1>1 DEF Passing, Good
    <3>2. \A i, j \in OpenIds(c) : c[i].subject = c[j].subject => i = j
      BY <1>1, <2>2 DEF Good
    <3>3. \A i \in OpenIds(c) : c[i].baseline \in owned[c[i].subject] /\ c[i].baseline < c[i].role
      BY <1>1, <2>2 DEF Good
    <3> QED BY <1>1, <3>1, <3>2, <3>3 DEF Good, Passing
  <2>4. Good(file, issued)'
    BY <1>1, <2>1, <2>3 DEF Good, OpenIds
  <2>5. RaisedIsRecorded'
    <3>1. SUFFICES ASSUME NEW s \in Subjects, raised[s]
                   PROVE  \E i \in OpenIds(c) : c[i].subject = s /\ c[i].role = binding[s]
      BY <1>1, <2>1 DEF RaisedIsRecorded, OpenIds
    <3>2. PICK i \in OpenIds(file) : file[i].subject = s /\ file[i].role = binding[s]
      BY <1>1, <3>1 DEF RaisedIsRecorded
    <3>3. i \in OpenIds(c)
      BY <1>1, <3>1, <3>2 DEF Passing
    <3> QED BY <2>2, <3>2, <3>3
  <2>6. HeldIsOwned'
    BY <1>1 DEF HeldIsOwned
  <2>7. \A q \in Procs : proc'[q] = [k EXCEPT !.pc = "beat"]
    BY <1>1, <2>1 DEF Serialized
  <2>8. \A q \in Procs : InFlight(proc[q], issued)'
    <3>1. ASSUME NEW m, m = [k EXCEPT !.pc = "beat"] PROVE InFlight(m, issued)'
      BY <1>1, <3>1 DEF InFlight, Command
    <3> QED BY <2>7, <3>1
  <2> QED BY <2>4, <2>5, <2>6, <2>8 DEF SafeInv
<1> QED BY <1>2, <1>3

\* An administrator's edit adds owned roles and lowers or leaves alone what was raised: what holds of a file keeps holding.
LEMMA OwnedGrows ==
  ASSUME NEW f \in Files, UNCHANGED issued, \A u \in Subjects : owned[u] \subseteq owned'[u],
         Good(f, issued)
  PROVE  Good(f, issued)'
<1>1. ASSUME NEW i \in OpenIds(f)
      PROVE  f[i].baseline \in owned'[f[i].subject] /\ f[i].baseline < f[i].role
  <2>1. f[i].subject \in Subjects
    BY <1>1 DEF OpenIds, Files, IsScope, Grant
  <2> QED BY <1>1, <2>1 DEF Good
<1>2. /\ \A i \in Ids : i > issued' => f[i] = NoGrant
      /\ \A i, j \in OpenIds(f) : f[i].subject = f[j].subject => i = j
      /\ \A i \in Ids : IsScope(f[i]) /\ f[i].reverted => f[i].state # "ACTIVE"
  BY DEF Good
<1> QED BY <1>1, <1>2 DEF Good

\* A step that leaves the file alone, and raises nobody, leaves a command in flight as good as it was.
LEMMA FlightKept ==
  ASSUME NEW k \in Command, UNCHANGED <<file, issued>>, file \in Files,
         \A u \in Subjects : owned[u] \subseteq owned'[u],
         \A u \in Subjects : raised'[u] => raised[u],
         InFlight(k, issued)
  PROVE  InFlight(k, issued)'
<1>1. k.copy \in Files /\ OpenIds(file)' = OpenIds(file)
  BY DEF Command, OpenIds
<1>2. k.pc = "baseline" => Drafting(k, issued)'
  BY DEF InFlight, Drafting, OpenIds
<1>3. ASSUME k.pc = "save" PROVE Saving(k, issued)'
  <2>1. Good(k.copy, issued) /\ Forward(file, k.copy) /\ OpenIds(file) \subseteq OpenIds(k.copy)
    BY <1>3 DEF InFlight, Saving
  <2>2. Good(k.copy, issued)'
    BY <1>1, <2>1, OwnedGrows
  <2>3. Forward(file, k.copy)'
    BY <2>1 DEF Forward
  <2> QED BY <1>1, <2>1, <2>2, <2>3 DEF Saving
<1>4. ASSUME k.pc \in {"visit", "write", "readback"} PROVE Passing(k)'
  <2>1. /\ Forward(file, k.copy)
        /\ \A i \in Ids : file[i] = NoGrant => k.copy[i] = NoGrant
        /\ \A i \in Ids : IsScope(k.copy[i]) /\ k.copy[i].reverted => k.copy[i].state # "ACTIVE"
        /\ \A i \in OpenIds(file) \ OpenIds(k.copy) : ~raised[file[i].subject]
    BY <1>4 DEF InFlight, Passing
  <2>2. ASSUME NEW i \in OpenIds(file) \ OpenIds(k.copy) PROVE ~raised'[file[i].subject]
    <3>1. file[i].subject \in Subjects
      BY <2>2 DEF OpenIds, Files, IsScope, Grant
    <3> QED BY <2>1, <2>2, <3>1
  <2>3. Forward(file, k.copy)'
    BY <2>1 DEF Forward
  <2>4. \A i \in Ids : file'[i] = NoGrant => k.copy[i] = NoGrant
    BY <2>1
  <2> QED BY <1>1, <2>1, <2>2, <2>3, <2>4 DEF Passing, OpenIds
<1> QED BY <1>2, <1>3, <1>4 DEF InFlight

\* What leaves the grants, the roles and the commands alone.
LEMMA SafeQuiet ==
  ASSUME SafeInv, TypeInv', UNCHANGED <<file, issued, binding, proc, raised, owned>>
  PROVE  SafeInv'
<1>1. Good(file, issued)'
  BY DEF SafeInv, Good, OpenIds
<1>2. HeldIsOwned' /\ RaisedIsRecorded'
  BY DEF SafeInv, HeldIsOwned, RaisedIsRecorded, OpenIds
<1>3. ASSUME NEW p \in Procs PROVE InFlight(proc[p], issued)'
  <2>1. InFlight(proc[p], issued) /\ proc'[p] = proc[p]
    BY DEF SafeInv
  <2>2. Drafting(proc[p], issued) => Drafting(proc[p], issued)'
    BY DEF Drafting, OpenIds
  <2>3. Saving(proc[p], issued) => Saving(proc[p], issued)'
    BY DEF Saving, Good, Forward, OpenIds
  <2>4. Passing(proc[p]) => Passing(proc[p])'
    BY DEF Passing, Forward, OpenIds
  <2> QED BY <2>1, <2>2, <2>3, <2>4 DEF InFlight
<1> QED BY <1>1, <1>2, <1>3 DEF SafeInv

\* What touches neither the file nor a binding, and an administrator's edit.
LEMMA OtherSafe ==
  ASSUME SafeInv, TypeInv', Serialized,
         \/ \E p \in Procs : PassBeats(p) \/ PassReadFails(p) \/ PassReadBackFails(p) \/ Dies(p)
         \/ Tick
         \/ \E s \in Subjects, r \in Held : AdminEdits(s, r)
  PROVE  SafeInv'
<1>1. ASSUME NEW p \in Procs, PassBeats(p) \/ Dies(p) PROVE SafeInv'
  BY <1>1, IdleSafe, SafeMove DEF PassBeats, Dies
<1>2. ASSUME NEW p \in Procs, PassReadFails(p) PROVE SafeInv'
  <2>1. Turn(p) \in proc[p].todo
    BY <1>2, TurnIsOpen DEF PassReadFails, SafeInv
  <2>2. InFlight(Failed(p, Turn(p)), issued)
    BY <1>2, <2>1, DoneSafe DEF PassReadFails
  <2> QED BY <1>2, <2>2, SafeMove DEF PassReadFails
<1>3. ASSUME NEW p \in Procs, PassReadBackFails(p) PROVE SafeInv'
  <2>1. proc[p].id \in proc[p].todo
    BY <1>3 DEF PassReadBackFails, SafeInv, TypeInv, Sound
  <2>2. InFlight(Failed(p, proc[p].id), issued)
    BY <1>3, <2>1, DoneSafe DEF PassReadBackFails
  <2> QED BY <1>3, <2>2, SafeMove DEF PassReadBackFails
<1>4. CASE Tick
  BY <1>4, SafeQuiet DEF Tick
<1>5. ASSUME NEW s \in Subjects, NEW r \in Held, AdminEdits(s, r) PROVE SafeInv'
  <2>1. /\ binding \in [Subjects -> Held] /\ raised \in [Subjects -> BOOLEAN]
        /\ owned \in [Subjects -> SUBSET Roles] /\ file \in Files /\ Good(file, issued)
    BY DEF SafeInv, TypeInv, TypeOK
  <2>2. /\ UNCHANGED <<file, issued, proc>>
        /\ \A u \in Subjects : owned[u] \subseteq owned'[u]
        /\ \A u \in Subjects : raised'[u] => raised[u] /\ binding'[u] = binding[u]
    BY <1>5, <2>1 DEF AdminEdits
  <2>3. HeldIsOwned'
    BY <1>5, <2>1 DEF AdminEdits, SafeInv, HeldIsOwned
  <2>4. RaisedIsRecorded'
    <3>1. OpenIds(file)' = OpenIds(file)
      BY <2>2 DEF OpenIds
    <3>2. SUFFICES ASSUME NEW u \in Subjects, raised'[u]
                   PROVE  \E i \in OpenIds(file) : file[i].subject = u /\ file[i].role = binding'[u]
      BY <2>2, <3>1 DEF RaisedIsRecorded
    <3>3. raised[u] /\ binding'[u] = binding[u]
      BY <2>2, <3>2
    <3> QED BY <3>3 DEF SafeInv, RaisedIsRecorded
  <2>5. ASSUME NEW f, f \in Files, Good(f, issued) PROVE Good(f, issued)'
    BY <2>2, <2>5, OwnedGrows
  <2>6. ASSUME NEW p \in Procs PROVE InFlight(proc[p], issued)'
    <3>1. proc[p] \in Command /\ InFlight(proc[p], issued)
      BY DEF SafeInv, TypeInv, TypeOK
    <3>2. UNCHANGED <<file, issued>>
      BY <2>2
    <3>3. ASSUME NEW k, k \in Command, InFlight(k, issued) PROVE InFlight(k, issued)'
      BY <2>1, <2>2, <3>3, FlightKept
    <3>4. proc'[p] = proc[p]
      BY <2>2
    <3> QED BY <3>1, <3>3, <3>4
  <2> QED BY <2>1, <2>2, <2>3, <2>4, <2>5, <2>6 DEF SafeInv, Good, OpenIds
<1> QED BY <1>1, <1>2, <1>3, <1>4, <1>5

\* Run one command at a time, the broker keeps the invariant.
LEMMA SafeNext == Serialized /\ SafeInv /\ TypeInv' /\ [Next]_vars => SafeInv'
<1> SUFFICES ASSUME Serialized, SafeInv, TypeInv', [Next]_vars PROVE SafeInv'
  OBVIOUS
<1>1. ASSUME NEW p \in Procs, Starts(p) PROVE SafeInv'
  BY <1>1, StartsSafe
<1>2. ASSUME NEW p \in Procs, Step(p) PROVE SafeInv'
  BY <1>2, ReadsSafe, SavesSafe, ReadBackSafe, WritesSafe, EndsSafe, OtherSafe DEF Step
<1>3. ASSUME NEW p \in Procs, Fails(p) PROVE SafeInv'
  BY <1>3, WritesSafe, OtherSafe DEF Fails
<1>4. CASE Tick \/ \E s \in Subjects, r \in Held : AdminEdits(s, r)
  BY <1>4, OtherSafe
<1>5. CASE UNCHANGED vars
  BY <1>5, SafeQuiet DEF vars
<1> QED BY <1>1, <1>2, <1>3, <1>4, <1>5 DEF Next

\* With one command at a time the safety invariant holds throughout.
LEMMA SafeAlways == Serialized => (Spec => []SafeInv)
<1> SUFFICES ASSUME Serialized PROVE Spec => []SafeInv
  OBVIOUS
<1>1. Init => SafeInv
  BY TypeInit, SafeInit
<1>2. SafeInv /\ [Next]_vars => SafeInv'
  <2>1. SafeInv => TypeInv
    BY DEF SafeInv
  <2> QED BY <2>1, TypeNext, SafeNext
<1> QED BY <1>1, <1>2, PTL DEF Spec

\* Whoever the broker raised is covered, at every moment, by an open grant of that role in the file: with one command at a
\* time, failures and deaths included, an elevation never outlives the record that will end it.
THEOREM RaisedAlwaysRecorded == Serialized => (Spec => []RaisedIsRecorded)
<1>1. SafeInv => RaisedIsRecorded
  BY DEF SafeInv
<1> QED BY SafeAlways, <1>1, PTL

\* No open grant's baseline is a role the broker itself raised the subject to: with one command at a time the overlap refusal
\* of cmd_grant is enough.
THEOREM BaselineAlwaysOwned == Serialized => (Spec => []BaselineWasOwned)
<1>1. SafeInv => BaselineWasOwned
  BY DEF SafeInv, Good, BaselineWasOwned
<1> QED BY SafeAlways, <1>1, PTL

\* What the file says of grant i only moves forward.
Kept(i) ==
  file[i] # NoGrant =>
    /\ file'[i] # NoGrant
    /\ file[i].state = "REVOKED" => file'[i].state = "REVOKED"
    /\ file[i].reverted => file'[i].reverted

\* Whoever writes the file writes a copy that keeps what it says.
LEMMA StepKeeps == ASSUME SafeInv, [Next]_vars, ~UNCHANGED vars PROVE \A i \in Ids : Kept(i)
<1>1. CASE UNCHANGED file
  BY <1>1 DEF Kept
<1>2. ASSUME NEW p \in Procs, Saves(p) PROVE \A i \in Ids : Kept(i)
  BY <1>2 DEF SafeInv, InFlight, Saves, Saving, Forward, Kept
<1>3. ASSUME NEW p \in Procs, PassEnds(p), ~UNCHANGED file PROVE \A i \in Ids : Kept(i)
  BY <1>3 DEF SafeInv, InFlight, PassEnds, Passing, Forward, Kept
<1>4. ASSUME NEW p \in Procs, Starts(p) \/ Fails(p) PROVE UNCHANGED file
  BY <1>4 DEF Starts, Fails, ScopeGrantStarts, ActionGrantStarts, RevokeStarts, PassStarts,
              PassReadFails, PassWriteFails, PassReadBackFails, Dies
<1>5. ASSUME NEW p \in Procs, Step(p) PROVE UNCHANGED file \/ Saves(p) \/ PassEnds(p)
  BY <1>5 DEF Step, ScopeGrantReads, PassVisits, PassWrites, PassReadsBack, PassBeats
<1>6. Tick \/ (\E s \in Subjects, r \in Held : AdminEdits(s, r)) => UNCHANGED file
  BY DEF Tick, AdminEdits
<1> QED BY <1>1, <1>2, <1>3, <1>4, <1>5, <1>6 DEF Next

\* With one command at a time save_grants, which replaces the whole file, loses no approval, no revocation and no revert.
THEOREM RecordAlwaysForward == Serialized => (Spec => RecordMovesForward)
<1>1. ASSUME SafeInv, [Next]_vars PROVE [\A i \in Ids : Kept(i)]_vars
  BY <1>1, StepKeeps
<1>2. ([\A i \in Ids : Kept(i)]_vars) =>
        [\A i \in Ids : file[i] # NoGrant =>
           /\ file'[i] # NoGrant
           /\ file[i].state = "REVOKED" => file'[i].state = "REVOKED"
           /\ file[i].reverted => file'[i].reverted]_vars
  BY DEF Kept
<1> QED BY <1>1, <1>2, SafeAlways, PTL DEF Spec, RecordMovesForward

-----------------------------------------------------------------------------
(* A check beside the commands. *)

\* A grant or revoke that is about to save has drawn or found its grant.
Drawn(k) == k.pc = "save" => k.id \in Ids /\ k.copy[k.id] # NoGrant

Asked ==
  [pc : {"idle", "owner", "grants"}, now : Nat, caller : Subjects \cup {NoOwner},
   action : Destructive \cup Harmless \cup {""}, before : SUBSET Ids, verdict : {"none", "ALLOW", "DENY"}]

\* A grant whose revocation was printed is revoked in the file, and a check knows of no others.
CheckInv ==
  /\ SafeInv /\ \A p \in Procs : Drawn(proc[p])
  /\ check \in [Checks -> Asked]
  /\ \A c \in Checks : check[c].before \subseteq revoked /\ (check[c].pc # "idle" => check[c].verdict = "none")
  /\ \A i \in revoked : i \in Ids /\ file[i] # NoGrant /\ file[i].state = "REVOKED"

\* Nothing in the broker's invariant counts the failures or the edits.
LEMMA SafeBeside ==
  ASSUME SafeInv, UNCHANGED <<file, issued, binding, heartbeat, clock, proc, raised, owned>>,
         faults' \in Nat, edits' \in Nat
  PROVE  SafeInv'
<1>1. TypeInv'
  BY DEF SafeInv, TypeInv, TypeOK
<1> QED BY <1>1 DEF SafeInv, Good, HeldIsOwned, RaisedIsRecorded, InFlight, Drafting, Saving, Passing, OpenIds

\* A command comes to its save with a grant.
LEMMA DrawnNext ==
  ASSUME SafeInv, TypeInv', \A p \in Procs : Drawn(proc[p]), [Next]_vars
  PROVE  \A p \in Procs : Drawn(proc'[p])
<1> USE DEF Drawn
<1>0. /\ proc \in [Procs -> Command] /\ file \in Files /\ issued \in 0 .. MaxGrants /\ MaxGrants \in Nat
      /\ proc' \in [Procs -> Command]
      /\ \A p \in Procs : Sound(proc[p])
  BY BrokerAssumption DEF SafeInv, TypeInv, TypeOK
<1>1. ASSUME NEW p \in Procs, NEW s \in Subjects, NEW r \in Ladder, NEW h \in 1 .. MaxHours, ScopeGrantStarts(p, s, r, h)
      PROVE  \A q \in Procs : Drawn(proc'[q])
  BY <1>0, <1>1 DEF ScopeGrantStarts, Idle
<1>2. ASSUME NEW p \in Procs, NEW s \in Subjects, NEW acts \in (SUBSET Destructive) \ {{}}, NEW h \in 1 .. MaxHours,
             ActionGrantStarts(p, s, acts, h)
      PROVE  \A q \in Procs : Drawn(proc'[q])
  <2>1. issued + 1 \in Ids
    BY <1>0, <1>2 DEF ActionGrantStarts, Ids
  <2>2. ActionGrant(s, acts, clock + h) \in Grant
    <3>1. MaxHours \in Nat /\ clock \in Nat
      BY BrokerAssumption DEF SafeInv, TypeInv, TypeOK
    <3>2. clock + h \in Nat
      BY <3>1
    <3> QED BY <3>2 DEF ActionGrant, Grant, Held
  <2>3. ActionGrant(s, acts, clock + h) # NoGrant
    BY <2>2, BrokerAssumption
  <2>4. /\ proc'[p].id = issued + 1 /\ proc'[p].copy = [file EXCEPT ![issued + 1] = ActionGrant(s, acts, clock + h)]
        /\ \A q \in Procs \ {p} : proc'[q] = proc[q]
    BY <1>0, <1>2 DEF ActionGrantStarts, Idle
  <2>5. proc'[p].copy[issued + 1] = ActionGrant(s, acts, clock + h)
    BY <1>0, <2>1, <2>4 DEF Files
  <2> QED BY <2>1, <2>3, <2>4, <2>5
<1>3. ASSUME NEW p \in Procs, NEW i \in Ids, RevokeStarts(p, i) PROVE \A q \in Procs : Drawn(proc'[q])
  <2>1. /\ proc'[p].id = i /\ proc'[p].copy = [file EXCEPT ![i].state = "REVOKED", ![i].revokedAt = clock]
        /\ \A q \in Procs \ {p} : proc'[q] = proc[q]
    BY <1>0, <1>3 DEF RevokeStarts, Idle
  <2>2. file[i] \in Grant /\ clock \in Nat
    BY <1>0, <1>3 DEF RevokeStarts, Files, SafeInv, TypeInv, TypeOK
  <2>3. proc'[p].copy[i] = [file[i] EXCEPT !.state = "REVOKED", !.revokedAt = clock]
    BY <1>0, <2>1, <2>2 DEF Files
  <2>4. proc'[p].copy[i] \in Grant
    BY <2>2, <2>3 DEF Grant
  <2> QED BY <2>1, <2>4, BrokerAssumption
<1>4. ASSUME NEW p \in Procs, ScopeGrantReads(p) PROVE \A q \in Procs : Drawn(proc'[q])
  <2> DEFINE i == proc[p].id
             base == binding[proc[p].copy[i].subject]
  <2>1. CASE base \in Ladder /\ base < proc[p].copy[i].role
    <3>1. /\ proc[p].pc = "baseline" /\ proc' = [proc EXCEPT ![p] = [@ EXCEPT !.pc = "save", !.copy[i].baseline = base]]
      BY <1>4, <2>1 DEF ScopeGrantReads
    <3>2. i \in Ids /\ IsScope(proc[p].copy[i]) /\ proc[p].copy \in Files
      BY <1>0, <3>1 DEF Sound, Command
    <3>3. proc[p].copy[i] \in Grant
      BY <3>2 DEF Files, IsScope
    <3>4. /\ proc'[p] = [proc[p] EXCEPT !.pc = "save", !.copy[i].baseline = base]
          /\ \A q \in Procs \ {p} : proc'[q] = proc[q]
      BY <1>0, <3>1
    <3>5. proc'[p].id = i /\ proc'[p].copy = [proc[p].copy EXCEPT ![i].baseline = base]
      BY <1>0, <3>4 DEF Command
    <3>6. proc'[p].copy[i] = [proc[p].copy[i] EXCEPT !.baseline = base]
      BY <3>2, <3>5 DEF Files
    <3>7. proc'[p].copy[i] \in Grant
      BY <2>1, <3>3, <3>6 DEF Grant, Held, Roles
    <3>8. Drawn(proc'[p])
      BY <3>2, <3>5, <3>7, BrokerAssumption
    <3> QED BY <3>4, <3>8
  <2>2. CASE ~(base \in Ladder /\ base < proc[p].copy[i].role)
    <3>1. proc' = [proc EXCEPT ![p] = Idle]
      BY <1>4, <2>2 DEF ScopeGrantReads
    <3> QED BY <1>0, <3>1 DEF Idle
  <2> QED BY <2>1, <2>2
<1>5. ASSUME NEW p \in Procs, Saves(p) \/ PassBeats(p) \/ PassEnds(p) \/ Dies(p) PROVE \A q \in Procs : Drawn(proc'[q])
  <2>1. /\ proc'[p] = Idle \/ proc'[p] = [proc[p] EXCEPT !.pc = "beat"]
        /\ \A q \in Procs \ {p} : proc'[q] = proc[q]
    BY <1>0, <1>5 DEF Saves, PassBeats, PassEnds, Dies
  <2>2. proc'[p].pc \in {"idle", "beat"}
    BY <1>0, <2>1 DEF Idle, Command
  <2> QED BY <2>1, <2>2
<1>6. ASSUME NEW p \in Procs, NEW apply \in BOOLEAN, PassStarts(p, apply) PROVE \A q \in Procs : Drawn(proc'[q])
  BY <1>0, <1>6 DEF PassStarts, Idle
<1>7. ASSUME NEW p \in Procs,
             PassVisits(p) \/ PassWrites(p) \/ PassReadsBack(p) \/ PassReadFails(p) \/ PassWriteFails(p) \/ PassReadBackFails(p)
      PROVE  \A q \in Procs : Drawn(proc'[q])
  <2>1. \A i : Done(p, i).pc = "visit" /\ Failed(p, i).pc = "visit"
    BY <1>0 DEF Done, Failed, Command
  <2>2. /\ \A q \in Procs \ {p} : proc'[q] = proc[q]
        /\ proc'[p].pc \in {"visit", "write", "readback"}
    BY <1>0, <1>7, <2>1 DEF PassVisits, PassWrites, PassReadsBack, PassReadFails, PassWriteFails, PassReadBackFails, Command
  <2> QED BY <2>2
<1>8. CASE Tick \/ UNCHANGED vars \/ \E s \in Subjects, r \in Held : AdminEdits(s, r)
  BY <1>8 DEF Tick, vars, AdminEdits
<1> QED BY <1>1, <1>2, <1>3, <1>4, <1>5, <1>6, <1>7, <1>8 DEF Next, Starts, Step, Fails

\* A command keeps it: what a revocation prints, its save has written.
LEMMA CommandsKeep ==
  ASSUME Serialized, CheckInv, Commands
  PROVE  CheckInv'
<1>1. SafeInv' /\ TypeInv'
  BY TypeNext, SafeNext DEF CheckInv, SafeInv, Commands
<1>2. \A p \in Procs : Drawn(proc'[p])
  BY <1>1, DrawnNext DEF CheckInv, Commands
<1>3. ASSUME NEW i \in revoked' PROVE i \in Ids /\ file'[i] # NoGrant /\ file'[i].state = "REVOKED"
  <2>1. CASE i \in revoked
    <3>1. i \in Ids /\ file[i] # NoGrant /\ file[i].state = "REVOKED"
      BY <2>1 DEF CheckInv
    <3>2. CASE UNCHANGED vars
      BY <3>1, <3>2 DEF vars
    <3>3. CASE ~UNCHANGED vars
      BY <3>1, <3>3, StepKeeps DEF CheckInv, Commands, Kept
    <3> QED BY <3>2, <3>3
  <2>2. CASE i \notin revoked
    <3>1. PICK p \in Procs : Revokes(p) /\ i = proc[p].id
      BY <2>2 DEF Commands
    <3>2. Drawn(proc[p])
      BY DEF CheckInv
    <3> QED BY <3>1, <3>2 DEF Revokes, Saves, Drawn
  <2> QED BY <2>1, <2>2
<1>4. revoked \subseteq revoked' /\ check' = check
  BY DEF Commands
<1> QED BY <1>1, <1>2, <1>3, <1>4 DEF CheckInv

\* So does a step of a check, and a transfer.
LEMMA ChecksKeep ==
  ASSUME CheckInv, GateNext, ~Commands
  PROVE  CheckInv'
<1>0. /\ check \in [Checks -> Asked] /\ \A c \in Checks : check[c].before \subseteq revoked
      /\ \A c \in Checks : check[c].pc # "idle" => check[c].verdict = "none"
      /\ revoked \subseteq Ids /\ clock \in Nat /\ faults \in Nat /\ edits \in Nat
  BY DEF CheckInv, SafeInv, TypeInv, TypeOK
<1>1. Asking \in Asked /\ Says("ALLOW") \in Asked /\ Says("DENY") \in Asked
  BY DEF Asking, Says, Asked
<1>2. /\ Asking.before = {} /\ Says("ALLOW").before = {} /\ Says("DENY").before = {}
      /\ Asking.pc = "idle" /\ Says("ALLOW").pc = "idle" /\ Says("DENY").pc = "idle"
  BY DEF Asking, Says
<1>3. UNCHANGED <<file, issued, binding, heartbeat, clock, proc, raised, owned, revoked>>
  BY DEF GateNext, CheckStarts, CheckReadsOwner, CheckDecides, CheckFails, Transfers, vars
<1>4. faults' \in Nat /\ edits' \in Nat
  <2>1. faults' \in {faults, faults + 1} /\ edits' \in {edits, edits + 1}
    BY DEF GateNext, CheckStarts, CheckReadsOwner, CheckDecides, CheckFails, Transfers, vars
  <2> QED BY <1>0, <2>1
<1>5. /\ check' \in [Checks -> Asked]
      /\ \A c \in Checks : check'[c].before \subseteq revoked /\ (check'[c].pc # "idle" => check'[c].verdict = "none")
  <2>1. ASSUME NEW c \in Checks, NEW s \in Subjects, NEW a \in Destructive \cup Harmless, CheckStarts(c, s, a)
        PROVE  <1>5
    <3> DEFINE k == [Asking EXCEPT !.pc = "owner", !.now = clock, !.caller = s, !.action = a, !.before = revoked]
    <3>1. k \in Asked /\ k.before = revoked /\ k.verdict = "none"
      BY <1>0 DEF Asking, Asked
    <3> QED BY <1>0, <2>1, <3>1 DEF CheckStarts
  <2>2. ASSUME NEW c \in Checks, CheckReadsOwner(c) PROVE <1>5
    <3>1. LET k == [check[c] EXCEPT !.pc = "grants"]
          IN k \in Asked /\ k.before = check[c].before /\ k.verdict = check[c].verdict
      BY <1>0 DEF Asked
    <3> QED BY <1>0, <1>1, <1>2, <2>2, <3>1 DEF CheckReadsOwner
  <2>3. ASSUME NEW c \in Checks, CheckDecides(c) \/ CheckFails(c) PROVE <1>5
    BY <1>0, <1>1, <1>2, <2>3 DEF CheckDecides, CheckFails
  <2>4. ASSUME NEW s \in Subjects \cup {NoOwner}, Transfers(s) PROVE <1>5
    BY <1>0, <2>4 DEF Transfers
  <2> QED BY <2>1, <2>2, <2>3, <2>4 DEF GateNext
<1>6. SafeInv'
  BY <1>3, <1>4, SafeBeside DEF CheckInv
<1> QED BY <1>3, <1>5, <1>6 DEF CheckInv

\* A destructive action is never allowed by a grant whose revocation was printed before the caller asked, with one command
\* at a time and any number of checks: cmd_check loads the file after that, and no save has lost the revocation.
THEOREM RevokedAlwaysDenied == Serialized => (GateSpec => RevokedIsDenied)
<1> DEFINE Denied ==
      \A c \in Checks : Allows(c) =>
        Covering(check[c].caller, check[c].action, check[c].now) \ check[c].before # {}
<1> SUFFICES ASSUME Serialized PROVE GateSpec => RevokedIsDenied
  OBVIOUS
<1>1. GateInit => CheckInv
  <2> SUFFICES ASSUME GateInit PROVE CheckInv
    OBVIOUS
  <2>1. SafeInv
    BY TypeInit, SafeInit DEF GateInit
  <2>2. \A p \in Procs : Drawn(proc[p])
    BY DEF GateInit, Init, Idle, Drawn
  <2>3. Asking \in Asked /\ Asking.before = {} /\ Asking.pc = "idle"
    BY DEF Asking, Asked
  <2> QED BY <2>1, <2>2, <2>3 DEF GateInit, CheckInv
<1>2. CheckInv /\ [GateNext]_<<vars, gateVars>> => CheckInv'
  <2> SUFFICES ASSUME CheckInv, [GateNext]_<<vars, gateVars>> PROVE CheckInv'
    OBVIOUS
  <2>1. CASE UNCHANGED <<vars, gateVars>>
    <3>1. UNCHANGED <<file, issued, binding, heartbeat, clock, proc, raised, owned, faults, edits, check, revoked>>
      BY <2>1 DEF vars, gateVars
    <3>2. SafeInv'
      BY <3>1, SafeBeside DEF CheckInv, SafeInv, TypeInv, TypeOK
    <3> QED BY <3>1, <3>2 DEF CheckInv
  <2>2. CASE Commands
    BY <2>2, CommandsKeep
  <2>3. CASE GateNext /\ ~Commands
    BY <2>3, ChecksKeep
  <2> QED BY <2>1, <2>2, <2>3
<1>3. CheckInv /\ [GateNext]_<<vars, gateVars>> => [Denied]_<<vars, gateVars>>
  <2> SUFFICES ASSUME CheckInv, GateNext, NEW c \in Checks, Allows(c)
               PROVE  Covering(check[c].caller, check[c].action, check[c].now) \ check[c].before # {}
    OBVIOUS
  <2>1. Covering(check[c].caller, check[c].action, check[c].now) # {}
    <3>1. /\ check \in [Checks -> Asked] /\ check[c].pc = "grants" /\ check[c].verdict = "none"
          /\ check'[c].verdict = "ALLOW"
      BY DEF CheckInv, Allows
    <3>2. Says("DENY").verdict = "DENY" /\ Asking.verdict = "none" /\ Asking.pc = "idle"
      BY DEF Says, Asking
    <3>3. CASE Commands \/ \E s \in Subjects \cup {NoOwner} : Transfers(s)
      BY <3>1, <3>3 DEF Commands, Transfers
    <3>4. ASSUME NEW d \in Checks, d # c,
                 \/ \E s \in Subjects, a \in Destructive \cup Harmless : CheckStarts(d, s, a)
                 \/ CheckReadsOwner(d) \/ CheckDecides(d) \/ CheckFails(d)
          PROVE  FALSE
      <4>1. check'[c] = check[c]
        BY <3>1, <3>4 DEF CheckStarts, CheckReadsOwner, CheckDecides, CheckFails
      <4> QED BY <3>1, <4>1
    <3>5. ASSUME NEW s \in Subjects, NEW a \in Destructive \cup Harmless, CheckStarts(c, s, a) PROVE FALSE
      BY <3>1, <3>5 DEF CheckStarts
    <3>6. CASE CheckReadsOwner(c) \/ CheckFails(c)
      <4>1. CASE CheckReadsOwner(c)
        BY <3>1, <4>1 DEF CheckReadsOwner
      <4>2. CASE CheckFails(c)
        BY <3>1, <3>2, <4>2 DEF CheckFails
      <4> QED BY <3>6, <4>1, <4>2
    <3>7. CASE CheckDecides(c)
      BY <3>1, <3>2, <3>7 DEF CheckDecides
    <3> QED BY <3>3, <3>4, <3>5, <3>6, <3>7 DEF GateNext
  <2>2. \A i \in check[c].before : i \notin Covering(check[c].caller, check[c].action, check[c].now)
    BY DEF CheckInv, Covering, IsLive
  <2> QED BY <2>1, <2>2
<1> QED BY <1>1, <1>2, <1>3, PTL DEF GateSpec, RevokedIsDenied
-----------------------------------------------------------------------------
\* g's window was open at t, and g was not revoked before t.
OpenSince(g, t) == t < g.expires /\ (g.state = "REVOKED" => t <= g.revokedAt)

\* The copy of grant and of revoke differs from the file in the one grant the command is about.
Draft(k) ==
  /\ file[k.id] = NoGrant
  /\ IsScope(k.copy[k.id]) => /\ k.copy[k.id].state = "ACTIVE" /\ ~k.copy[k.id].reverted
                              /\ k.now < k.copy[k.id].expires
Revocation(k) ==
  /\ file[k.id] # NoGrant
  /\ k.copy[k.id] = [file[k.id] EXCEPT !.state = "REVOKED", !.revokedAt = k.now]
Edited(k) ==
  /\ k.id \in Ids /\ k.copy = [file EXCEPT ![k.id] = k.copy[k.id]]
  /\ heartbeat.at <= k.now
  /\ Draft(k) \/ Revocation(k)

\* A pass has settled closed grants only; what it has not settled is the file's, and what it is done with
\* without a failure is live.
Swept(k) ==
  /\ \A i \in OpenIds(k.copy) : k.copy[i] = file[i]
  /\ \A i \in OpenIds(file) \ OpenIds(k.copy) : ~IsLive(file[i], k.now)
  /\ k.apply /\ ~k.failed => \A i \in OpenIds(k.copy) \ k.todo : IsLive(k.copy[i], k.now)

Timed(k) ==
  /\ k.now <= clock
  /\ k.pc \in {"baseline", "save"} => Edited(k)
  /\ k.pc \in {"visit", "write", "readback"} => Swept(k)
  /\ k.pc = "beat" /\ ~k.failed => \A i \in OpenIds(file) : IsLive(file[i], k.now)

\* An open grant is active or revoked, and after a pass without a failure every open grant was open when
\* that pass began.
TimeInv ==
  /\ \A i \in OpenIds(file) : file[i].state \in {"ACTIVE", "REVOKED"}
  /\ heartbeat.at <= clock
  /\ heartbeat.ok => \A i \in OpenIds(file) : OpenSince(file[i], heartbeat.at)
  /\ \A p \in Procs : Timed(proc[p])

-----------------------------------------------------------------------------
(* The clock. *)

\* A process with no command is in time.
LEMMA IdleTimed == clock \in Nat => Timed(Idle)
  BY DEF Timed, Idle

\* The single command moves on and leaves the file, the heartbeat and the clock alone.
LEMMA TimedMove ==
  ASSUME TimeInv, Serialized, NEW p \in Procs, NEW k, Timed(k), proc \in [Procs -> Command],
         proc' = [proc EXCEPT ![p] = k], UNCHANGED <<file, heartbeat, clock>>
  PROVE  TimeInv'
<1>1. \A q \in Procs : proc'[q] = k
  BY DEF Serialized
<1>2. Timed(k)'
  BY DEF Timed, Edited, Draft, Revocation, Swept, OpenIds
<1>3. OpenIds(file)' = OpenIds(file)
  BY DEF OpenIds
<1> QED BY <1>1, <1>2, <1>3 DEF TimeInv

\* At the start nothing is recorded and there is no heartbeat.
LEMMA TimeInit == Init => TimeInv
<1> SUFFICES ASSUME Init PROVE TimeInv
  OBVIOUS
<1>1. OpenIds(file) = {}
  BY DEF Init, EmptyFile, OpenIds, IsScope
<1>2. clock = 0 /\ Timed(Idle) /\ \A p \in Procs : proc[p] = Idle
  BY IdleTimed DEF Init
<1> QED BY <1>1, <1>2 DEF Init, TimeInv

\* A command starts now, and now is no earlier than the last heartbeat.
LEMMA StartsTimed ==
  ASSUME SafeInv, TimeInv, Serialized, NEW p \in Procs, Starts(p)
  PROVE  TimeInv'
<1>1. /\ Shared /\ file \in Files /\ clock \in Nat /\ proc \in [Procs -> Command]
      /\ heartbeat.at <= clock /\ Good(file, issued)
  BY TypeInvParts DEF SafeInv, Shared, TimeInv
<1>2. UNCHANGED <<file, heartbeat, clock>>
  BY DEF Starts, ScopeGrantStarts, ActionGrantStarts, RevokeStarts, PassStarts
<1>3. ASSUME NEW s \in Subjects, NEW h \in 1..MaxHours, NEW r \in Ladder, ScopeGrantStarts(p, s, r, h)
      PROVE  TimeInv'
  <2> DEFINE n == issued + 1
             g == ScopeGrant(s, r, clock + h)
             c == [file EXCEPT ![n] = g]
             k == [Idle EXCEPT !.pc = "baseline", !.now = clock, !.id = n, !.copy = c]
  <2>1. n \in Ids /\ n > issued
    BY <1>1, <1>3, BrokerAssumption DEF Shared, Ids, ScopeGrantStarts
  <2>2. file[n] = NoGrant
    BY <1>1, <2>1 DEF Good
  <2>3. c[n] = g /\ c = [file EXCEPT ![n] = c[n]]
    BY <1>1, <2>1 DEF Files
  <2>4. g.state = "ACTIVE" /\ ~g.reverted /\ clock < g.expires
    BY <1>1 DEF ScopeGrant
  <2>5. k.pc = "baseline" /\ k.id = n /\ k.copy = c /\ k.now = clock
    BY DEF Idle
  <2>6. proc' = [proc EXCEPT ![p] = k]
    BY <1>3 DEF ScopeGrantStarts
  <2> HIDE DEF k, c, g
  <2>7. Timed(k)
    BY <1>1, <2>1, <2>2, <2>3, <2>4, <2>5 DEF Timed, Edited, Draft
  <2> QED BY <1>1, <1>2, <2>6, <2>7, TimedMove
<1>4. ASSUME NEW s \in Subjects, NEW h \in 1..MaxHours, NEW acts \in SUBSET Destructive,
             ActionGrantStarts(p, s, acts, h)
      PROVE  TimeInv'
  <2> DEFINE n == issued + 1
             g == ActionGrant(s, acts, clock + h)
             c == [file EXCEPT ![n] = g]
             k == [Idle EXCEPT !.pc = "save", !.now = clock, !.id = n, !.copy = c]
  <2>1. n \in Ids /\ n > issued
    BY <1>1, <1>4, BrokerAssumption DEF Shared, Ids, ActionGrantStarts
  <2>2. file[n] = NoGrant
    BY <1>1, <2>1 DEF Good
  <2>3. c[n] = g /\ c = [file EXCEPT ![n] = c[n]]
    BY <1>1, <2>1 DEF Files
  <2>4. ~IsScope(g)
    BY DEF ActionGrant, IsScope
  <2>5. k.pc = "save" /\ k.id = n /\ k.copy = c /\ k.now = clock
    BY DEF Idle
  <2>6. proc' = [proc EXCEPT ![p] = k]
    BY <1>4 DEF ActionGrantStarts
  <2> HIDE DEF k, c, g
  <2>7. Timed(k)
    BY <1>1, <2>1, <2>2, <2>3, <2>4, <2>5 DEF Timed, Edited, Draft
  <2> QED BY <1>1, <1>2, <2>6, <2>7, TimedMove
<1>5. ASSUME NEW i \in Ids, RevokeStarts(p, i)
      PROVE  TimeInv'
  <2> DEFINE g == [file[i] EXCEPT !.state = "REVOKED", !.revokedAt = clock]
             c == [file EXCEPT ![i] = g]
             k == [Idle EXCEPT !.pc = "save", !.now = clock, !.id = i, !.copy = c]
  <2>1. file[i] # NoGrant /\ c[i] = g /\ c = [file EXCEPT ![i] = c[i]]
    BY <1>1, <1>5 DEF RevokeStarts, Files
  <2>2. [file EXCEPT ![i].state = "REVOKED", ![i].revokedAt = clock] = c
    BY <1>1 DEF Files
  <2>3. k.pc = "save" /\ k.id = i /\ k.copy = c /\ k.now = clock
    BY DEF Idle
  <2>4. proc' = [proc EXCEPT ![p] = k]
    BY <1>5, <2>2 DEF RevokeStarts
  <2> HIDE DEF k, c
  <2>5. Timed(k)
    BY <1>1, <2>1, <2>3 DEF Timed, Edited, Revocation
  <2> QED BY <1>1, <1>2, <2>4, <2>5, TimedMove
<1>6. ASSUME NEW apply \in BOOLEAN, PassStarts(p, apply)
      PROVE  TimeInv'
  <2> DEFINE k == [Idle EXCEPT !.pc = "visit", !.now = clock, !.copy = file, !.todo = OpenIds(file),
                               !.apply = apply]
  <2>1. k.pc = "visit" /\ k.copy = file /\ k.now = clock /\ k.todo = OpenIds(file)
    BY DEF Idle
  <2>2. proc' = [proc EXCEPT ![p] = k]
    BY <1>6 DEF PassStarts
  <2> HIDE DEF k
  <2>3. Timed(k)
    BY <1>1, <2>1 DEF Timed, Swept
  <2> QED BY <1>1, <1>2, <2>2, <2>3, TimedMove
<1> QED BY <1>3, <1>4, <1>5, <1>6 DEF Starts

\* A pass is done with a grant, or fails on it: what it settles had closed by the pass's time.
LEMMA DoneTimed ==
  ASSUME SafeInv, TimeInv, NEW p \in Procs, proc[p].pc \in {"visit", "write", "readback"},
         NEW i \in proc[p].todo
  PROVE  Timed(Done(p, i)) /\ Timed(Failed(p, i))
<1> DEFINE k == proc[p]
           g == k.copy[i]
           h == IF IsLive(g, k.now) THEN g ELSE Settle(g)
           c == [k.copy EXCEPT ![i] = h]
<1>1. /\ k \in Command /\ k.copy \in Files /\ i \in OpenIds(k.copy) /\ i \in Ids /\ g \in Grant
      /\ Swept(k) /\ k.now <= clock
  BY DEF SafeInv, TypeInv, Sound, TimeInv, Timed, Command, OpenIds, IsScope, Files
<1>2. /\ Failed(p, i).pc = "visit" /\ Failed(p, i).copy = k.copy /\ Failed(p, i).now = k.now
      /\ Failed(p, i).failed
  BY <1>1 DEF Failed, Command
<1>3. Timed(Failed(p, i))
  BY <1>1, <1>2 DEF Timed, Swept
<1>4. Done(p, i) = [k EXCEPT !.pc = "visit", !.id = 0, !.todo = k.todo \ {i}, !.copy = c]
  BY <1>1 DEF Done, Command
<1>5. /\ Done(p, i).pc = "visit" /\ Done(p, i).copy = c /\ Done(p, i).now = k.now
      /\ Done(p, i).todo = k.todo \ {i} /\ Done(p, i).apply = k.apply /\ Done(p, i).failed = k.failed
  BY <1>1, <1>4 DEF Command
<1>6. c[i] = h /\ \A j \in Ids \ {i} : c[j] = k.copy[j]
  BY <1>1 DEF Files
<1>7. CASE IsLive(g, k.now)
  <2>1. \A j \in Ids : c[j] = k.copy[j]
    BY <1>6, <1>7
  <2>2. OpenIds(c) = OpenIds(k.copy) /\ OpenIds(c) \subseteq Ids
    BY <2>1 DEF OpenIds
  <2>3. Swept(Done(p, i))
    BY <1>1, <1>5, <1>7, <2>1, <2>2 DEF Swept
  <2> QED BY <1>1, <1>3, <1>5, <2>3 DEF Timed
<1>8. CASE ~IsLive(g, k.now)
  <2>1. h.reverted
    BY <1>1, <1>8, SettleType
  <2>2. OpenIds(c) = OpenIds(k.copy) \ {i} /\ OpenIds(c) \subseteq Ids
    BY <1>6, <2>1 DEF OpenIds
  <2>3. ~IsLive(file[i], k.now)
    BY <1>1, <1>8 DEF Swept
  <2> HIDE DEF h, c
  <2>4. Swept(Done(p, i))
    BY <1>1, <1>5, <1>6, <2>2, <2>3 DEF Swept
  <2> QED BY <1>1, <1>3, <1>5, <2>4 DEF Timed
<1> QED BY <1>7, <1>8

\* What a pass does between its start and its save keeps its account of the file.
LEMMA PassTimed ==
  ASSUME SafeInv, TimeInv, Serialized, NEW p \in Procs,
         \/ PassVisits(p) \/ PassWrites(p) \/ PassReadsBack(p)
         \/ PassReadFails(p) \/ PassWriteFails(p) \/ PassReadBackFails(p)
  PROVE  TimeInv'
<1> DEFINE k == proc[p]
<1>1. /\ proc \in [Procs -> Command] /\ k \in Command /\ Sound(k) /\ Timed(k)
      /\ UNCHANGED <<file, heartbeat, clock>>
  BY DEF SafeInv, TypeInv, TypeOK, TimeInv, PassVisits, PassWrites, PassReadsBack, PassReadFails,
         PassWriteFails, PassReadBackFails
<1>2. k.todo # {} => Turn(p) \in k.todo
  BY TurnIsOpen DEF SafeInv
<1>3. k.pc \in {"write", "readback"} => k.id \in k.todo
  BY <1>1 DEF Sound
<1>4. CASE PassVisits(p)
  <2> DEFINE t == Turn(p)
  <2>1. k.pc = "visit" /\ t \in k.todo
    BY <1>2, <1>4 DEF PassVisits
  <2>2. Timed(Done(p, t))
    BY <2>1, DoneTimed
  <2>3. Timed([k EXCEPT !.pc = "write", !.id = t])
    BY <1>1, <2>1 DEF Timed, Swept, Command
  <2>4. ~k.apply => Timed([k EXCEPT !.todo = @ \ {t}])
    BY <1>1, <2>1 DEF Timed, Swept, Command
  <2>5. \/ proc' = [proc EXCEPT ![p] = Done(p, t)]
        \/ proc' = [proc EXCEPT ![p] = [k EXCEPT !.pc = "write", !.id = t]]
        \/ ~k.apply /\ proc' = [proc EXCEPT ![p] = [k EXCEPT !.todo = @ \ {t}]]
    <3>1. \/ proc' = [proc EXCEPT ![p] = Done(p, t)]
          \/ proc' = [proc EXCEPT ![p].pc = "write", ![p].id = t]
          \/ ~k.apply /\ proc' = [proc EXCEPT ![p].todo = @ \ {t}]
      BY <1>4 DEF PassVisits
    <3> QED BY <1>1, <3>1
  <2> QED BY <1>1, <2>2, <2>3, <2>4, <2>5, TimedMove
<1>5. CASE PassWrites(p)
  <2>1. proc' = [proc EXCEPT ![p] = [k EXCEPT !.pc = "readback"]]
    BY <1>1, <1>5 DEF PassWrites
  <2>2. Timed([k EXCEPT !.pc = "readback"])
    BY <1>1, <1>5 DEF Timed, Swept, Command, PassWrites
  <2> QED BY <1>1, <2>1, <2>2, TimedMove
<1>6. CASE PassReadsBack(p)
  <2>1. Timed(Done(p, k.id)) /\ Timed(Failed(p, k.id))
    BY <1>3, <1>6, DoneTimed DEF PassReadsBack
  <2>2. \/ proc' = [proc EXCEPT ![p] = Done(p, k.id)]
        \/ proc' = [proc EXCEPT ![p] = Failed(p, k.id)]
    BY <1>6 DEF PassReadsBack
  <2> QED BY <1>1, <2>1, <2>2, TimedMove
<1>7. CASE PassReadFails(p)
  <2>1. Timed(Failed(p, Turn(p)))
    BY <1>2, <1>7, DoneTimed DEF PassReadFails
  <2> QED BY <1>1, <1>7, <2>1, TimedMove DEF PassReadFails
<1>8. CASE PassWriteFails(p) \/ PassReadBackFails(p)
  <2>1. Timed(Failed(p, k.id)) /\ proc' = [proc EXCEPT ![p] = Failed(p, k.id)]
    BY <1>3, <1>8, DoneTimed DEF PassWriteFails, PassReadBackFails
  <2> QED BY <1>1, <2>1, TimedMove
<1> QED BY <1>4, <1>5, <1>6, <1>7, <1>8

\* The baseline read changes the draft's baseline only.
LEMMA ReadsTimed ==
  ASSUME SafeInv, TimeInv, Serialized, NEW p \in Procs, ScopeGrantReads(p)
  PROVE  TimeInv'
<1> DEFINE k == proc[p]
           i == k.id
           base == binding[k.copy[i].subject]
           g == [k.copy[i] EXCEPT !.baseline = base]
           c == [k.copy EXCEPT ![i] = g]
           m == [k EXCEPT !.pc = "save", !.copy = c]
<1>1. /\ k \in Command /\ k.copy \in Files /\ file \in Files /\ Timed(k) /\ Edited(k) /\ clock \in Nat
      /\ proc \in [Procs -> Command] /\ UNCHANGED <<file, heartbeat, clock>> /\ file[i] = NoGrant
  BY DEF SafeInv, TypeInv, TypeOK, TimeInv, ScopeGrantReads, Command, Timed, InFlight, Drafting
<1>2. i \in Ids /\ k.copy[i] \in Grant /\ IsScope(k.copy[i])
  BY <1>1 DEF SafeInv, InFlight, Drafting, OpenIds, ScopeGrantReads, Files, IsScope
<1>3. /\ g.axis = k.copy[i].axis /\ g.state = k.copy[i].state /\ g.reverted = k.copy[i].reverted
      /\ g.expires = k.copy[i].expires
  BY <1>2 DEF Grant
<1>4. c[i] = g /\ c = [file EXCEPT ![i] = c[i]]
  <2>1. k.copy = [file EXCEPT ![i] = k.copy[i]]
    BY <1>1 DEF Edited
  <2> QED BY <1>1, <1>2, <2>1 DEF Files
<1>5. m.pc = "save" /\ m.id = i /\ m.copy = c /\ m.now = k.now
  BY <1>1 DEF Command
<1>6. proc' = [proc EXCEPT ![p] = Idle] \/ proc' = [proc EXCEPT ![p] = m]
  <2>1. [k EXCEPT !.pc = "save", !.copy[i].baseline = base] = m
    BY <1>1, <1>2 DEF Command
  <2> QED BY <2>1 DEF ScopeGrantReads
<1>7. Timed(m)
  <2> HIDE DEF m, c, g
  <2>1. Draft(k)
    BY <1>1 DEF Edited, Revocation
  <2>2. Draft(m)
    BY <1>2, <1>3, <1>4, <1>5, <2>1 DEF Draft
  <2> QED BY <1>1, <1>2, <1>4, <1>5, <2>2 DEF Timed, Edited
<1> QED BY <1>1, <1>6, <1>7, IdleTimed, TimedMove

\* The save of grant and of revoke: what it adds closes after, or was revoked at, a time no earlier than
\* the heartbeat's.
LEMMA SavesTimed ==
  ASSUME SafeInv, TimeInv, Serialized, NEW p \in Procs, Saves(p)
  PROVE  TimeInv'
<1> DEFINE k == proc[p]
           c == k.copy
           i == k.id
<1>1. /\ k \in Command /\ c \in Files /\ file \in Files /\ Edited(k) /\ clock \in Nat /\ k.now \in Nat
      /\ heartbeat.at \in Int /\ k.now <= clock /\ proc \in [Procs -> Command]
      /\ proc' = [proc EXCEPT ![p] = Idle] /\ file' = c /\ UNCHANGED <<heartbeat, clock>>
  BY DEF SafeInv, TypeInv, TypeOK, TimeInv, Timed, Saves, Command
<1>2. i \in Ids /\ \A j \in Ids \ {i} : c[j] = file[j]
  BY <1>1 DEF Edited, Files
<1>3. ASSUME i \in OpenIds(c)
      PROVE  c[i].state \in {"ACTIVE", "REVOKED"} /\ (heartbeat.ok => OpenSince(c[i], heartbeat.at))
  <2>1. CASE Draft(k)
    <3>1. c[i].state = "ACTIVE" /\ k.now < c[i].expires /\ c[i].expires \in Nat
      BY <1>1, <1>2, <1>3, <2>1 DEF Draft, OpenIds, Files, IsScope, Grant
    <3>2. heartbeat.at < c[i].expires
      BY <1>1, <3>1 DEF Edited
    <3> QED BY <3>1, <3>2 DEF OpenSince
  <2>2. CASE Revocation(k)
    <3>1. file[i] \in Grant /\ c[i] = [file[i] EXCEPT !.state = "REVOKED", !.revokedAt = k.now]
      BY <1>1, <1>2, <2>2 DEF Revocation, Files
    <3>2. /\ c[i].state = "REVOKED" /\ c[i].revokedAt = k.now /\ c[i].expires = file[i].expires
          /\ c[i].axis = file[i].axis /\ c[i].reverted = file[i].reverted
      BY <3>1 DEF Grant
    <3>3. i \in OpenIds(file)
      BY <1>2, <1>3, <3>1, <3>2, BrokerAssumption DEF OpenIds, IsScope
    <3>4. heartbeat.ok => OpenSince(file[i], heartbeat.at)
      BY <3>3 DEF TimeInv
    <3> QED BY <1>1, <3>2, <3>4 DEF OpenSince, Edited
  <2> QED BY <1>1, <2>1, <2>2 DEF Edited
<1>4. \A j \in OpenIds(c) \ {i} : j \in OpenIds(file) /\ c[j] = file[j]
  BY <1>2 DEF OpenIds
<1>5. /\ \A j \in OpenIds(c) : c[j].state \in {"ACTIVE", "REVOKED"}
      /\ heartbeat.ok => \A j \in OpenIds(c) : OpenSince(c[j], heartbeat.at)
  BY <1>3, <1>4 DEF TimeInv
<1>6. \A q \in Procs : Timed(proc[q])'
  <2>1. \A q \in Procs : proc'[q] = Idle
    BY <1>1 DEF Serialized
  <2>2. Timed(Idle)'
    BY <1>1 DEF Timed, Idle
  <2> QED BY <2>1, <2>2
<1> QED BY <1>1, <1>5, <1>6 DEF TimeInv, OpenIds

\* The save of a pass: what it leaves open was open before, and live if nothing failed.
LEMMA EndsTimed ==
  ASSUME SafeInv, TimeInv, Serialized, NEW p \in Procs, PassEnds(p)
  PROVE  TimeInv'
<1> DEFINE k == proc[p]
           c == k.copy
<1>1. /\ k \in Command /\ Passing(k) /\ Swept(k) /\ k.now <= clock /\ k.todo = {} /\ clock \in Nat
      /\ proc \in [Procs -> Command] /\ UNCHANGED <<heartbeat, clock>>
  BY DEF SafeInv, TypeInv, TypeOK, TimeInv, Timed, PassEnds, InFlight
<1>2. CASE ~k.apply
  BY <1>1, <1>2, IdleTimed, TimedMove DEF PassEnds
<1>3. CASE k.apply
  <2>1. file' = c /\ proc' = [proc EXCEPT ![p] = [k EXCEPT !.pc = "beat"]]
    BY <1>1, <1>3 DEF PassEnds
  <2>2. \A i \in OpenIds(c) : i \in OpenIds(file) /\ c[i] = file[i]
    BY <1>1, PassingOpen DEF Swept
  <2>3. ~k.failed => \A i \in OpenIds(c) : IsLive(c[i], k.now)
    BY <1>1, <1>3 DEF Swept
  <2>4. \A q \in Procs : Timed(proc[q])'
    <3>1. ASSUME NEW m, m = [k EXCEPT !.pc = "beat"] PROVE Timed(m)'
      <4>1. m.pc = "beat" /\ m.now = k.now /\ m.failed = k.failed
        BY <1>1, <3>1 DEF Command
      <4> QED BY <1>1, <2>1, <2>3, <4>1 DEF Timed, OpenIds
    <3>2. \A q \in Procs : proc'[q] = [k EXCEPT !.pc = "beat"]
      BY <1>1, <2>1 DEF Serialized
    <3> QED BY <3>1, <3>2
  <2> QED BY <1>1, <2>1, <2>2, <2>4 DEF TimeInv, OpenIds
<1> QED BY <1>2, <1>3

\* The heartbeat says OK only when every grant the pass left open is live at the time it carries.
LEMMA BeatsTimed ==
  ASSUME SafeInv, TimeInv, Serialized, NEW p \in Procs, PassBeats(p)
  PROVE  TimeInv'
<1>1. /\ clock \in Nat /\ proc[p] \in Command /\ Timed(proc[p]) /\ proc \in [Procs -> Command]
      /\ heartbeat' = [at |-> proc[p].now, ok |-> ~proc[p].failed]
      /\ proc' = [proc EXCEPT ![p] = Idle] /\ UNCHANGED <<file, clock>> /\ proc[p].pc = "beat"
  BY DEF SafeInv, TypeInv, TypeOK, TimeInv, PassBeats
<1>2. heartbeat'.at <= clock
  BY <1>1 DEF Timed
<1>3. heartbeat'.ok => \A i \in OpenIds(file) : OpenSince(file[i], heartbeat'.at)
  BY <1>1 DEF Timed, IsLive, OpenSince
<1>4. \A q \in Procs : proc'[q] = Idle
  BY <1>1 DEF Serialized
<1>5. Timed(Idle)'
  BY <1>1 DEF Timed, Idle
<1> QED BY <1>1, <1>2, <1>3, <1>4, <1>5 DEF TimeInv, OpenIds

\* Run one command at a time, the broker keeps its account of time.
LEMMA TimeNext == Serialized /\ SafeInv /\ TimeInv /\ [Next]_vars => TimeInv'
<1> SUFFICES ASSUME Serialized, SafeInv, TimeInv, [Next]_vars PROVE TimeInv'
  OBVIOUS
<1>1. ASSUME NEW p \in Procs, Starts(p) PROVE TimeInv'
  BY <1>1, StartsTimed
<1>2. ASSUME NEW p \in Procs, Step(p) PROVE TimeInv'
  BY <1>2, ReadsTimed, SavesTimed, PassTimed, EndsTimed, BeatsTimed DEF Step
<1>3. clock \in Nat /\ heartbeat.at \in Int /\ \A p \in Procs : proc[p].now \in Nat
  BY DEF SafeInv, TypeInv, TypeOK, Command
<1>4. ASSUME NEW p \in Procs, Dies(p) PROVE TimeInv'
  <2>1. Timed(Idle) /\ proc \in [Procs -> Command]
    BY <1>3, IdleTimed DEF SafeInv, TypeInv, TypeOK
  <2> QED BY <1>4, <2>1, TimedMove DEF Dies
<1>5. ASSUME NEW p \in Procs, Fails(p) PROVE TimeInv'
  BY <1>4, <1>5, PassTimed DEF Fails
<1>6. CASE Tick
  <2>1. clock' = clock + 1 /\ UNCHANGED <<file, heartbeat, proc>>
    BY <1>6 DEF Tick
  <2>2. ASSUME NEW p \in Procs PROVE Timed(proc[p])'
    <3>1. Timed(proc[p])
      BY DEF TimeInv
    <3> QED BY <1>3, <2>1, <3>1 DEF Timed, Edited, Draft, Revocation, Swept, OpenIds
  <2> QED BY <1>3, <2>1, <2>2 DEF TimeInv, OpenIds
<1>7. ASSUME UNCHANGED <<file, heartbeat, clock, proc>> PROVE TimeInv'
  <2>1. ASSUME NEW p \in Procs PROVE Timed(proc[p])'
    <3>1. Timed(proc[p])
      BY DEF TimeInv
    <3> QED BY <1>7, <3>1 DEF Timed, Edited, Draft, Revocation, Swept, OpenIds
  <2> QED BY <1>7, <2>1 DEF TimeInv, OpenIds
<1>8. ASSUME NEW s \in Subjects, NEW r \in Held, AdminEdits(s, r) PROVE TimeInv'
  BY <1>7, <1>8 DEF AdminEdits
<1>9. CASE UNCHANGED vars
  BY <1>7, <1>9 DEF vars
<1> QED BY <1>1, <1>2, <1>5, <1>6, <1>8, <1>9 DEF Next

\* With one command at a time both invariants hold throughout.
LEMMA TimeAlways == Serialized => (Spec => [](SafeInv /\ TimeInv))
<1> SUFFICES ASSUME Serialized PROVE Spec => [](SafeInv /\ TimeInv)
  OBVIOUS
<1>1. Init => TimeInv
  BY TimeInit
<1>2. SafeInv /\ TimeInv /\ [Next]_vars => TimeInv'
  BY TimeNext
<1> QED BY <1>1, <1>2, SafeAlways, PTL DEF Spec

\* While the heartbeat command says FRESH, whoever the broker raised holds the role under a grant that
\* closed no longer than --max-age-minutes ago: with one command at a time, failures and deaths included,
\* the alert of the heartbeat covers everybody who is elevated past the window.
THEOREM ElevationAlwaysBounded == Serialized => (Spec => []ElevationBounded)
<1>1. SafeInv /\ TimeInv => ElevationBounded
  <2> SUFFICES ASSUME SafeInv, TimeInv, Fresh, NEW s \in Subjects, raised[s]
               PROVE  \E i \in OpenIds(file) :
                        file[i].subject = s /\ file[i].role = binding[s] /\ ~Overdue(file[i])
    BY DEF ElevationBounded
  <2>1. PICK i \in OpenIds(file) : file[i].subject = s /\ file[i].role = binding[s]
    BY DEF SafeInv, RaisedIsRecorded
  <2>2. OpenSince(file[i], heartbeat.at) /\ clock - heartbeat.at <= MaxAge
    BY <2>1 DEF TimeInv, Fresh
  <2>3. file[i].expires \in Nat /\ file[i].revokedAt \in Nat
    BY <2>1 DEF SafeInv, TypeInv, TypeOK, OpenIds, Files, IsScope, Grant
  <2>4. clock \in Nat /\ heartbeat.at \in Int /\ MaxAge \in Nat
    BY BrokerAssumption DEF SafeInv, TypeInv, TypeOK
  <2>5. ~Overdue(file[i])
    BY <2>2, <2>3, <2>4 DEF OpenSince, Overdue
  <2> QED BY <2>1, <2>5
<1> QED BY <1>1, TimeAlways, PTL

-----------------------------------------------------------------------------
(* The contract. *)

\* The register a file comes to: entry is the register of the file.
Register(f) ==
  [s \in Subjects |-> IF {i \in OpenIds(f) : f[i].subject = s} = {} THEN NoGrant
                      ELSE EntryOf(f[CHOOSE i \in {j \in OpenIds(f) : f[j].subject = s} : TRUE])]
OneOpen(f) == \A i, j \in OpenIds(f) : f[i].subject = f[j].subject => i = j

\* The open grant of a subject is its entry, and a subject without one has none.
LEMMA RegisterIs ==
  ASSUME NEW f, OneOpen(f)
  PROVE  /\ \A i \in OpenIds(f) : f[i].subject \in Subjects => Register(f)[f[i].subject] = EntryOf(f[i])
         /\ \A s \in Subjects : (\A i \in OpenIds(f) : f[i].subject # s) => Register(f)[s] = NoGrant
<1>1. ASSUME NEW i \in OpenIds(f), f[i].subject \in Subjects
      PROVE  Register(f)[f[i].subject] = EntryOf(f[i])
  <2> DEFINE S == {j \in OpenIds(f) : f[j].subject = f[i].subject}
  <2>1. S = {i}
    BY <1>1 DEF OneOpen
  <2>2. (CHOOSE j \in S : TRUE) = i
    BY <2>1
  <2> QED BY <1>1, <2>1, <2>2 DEF Register
<1>2. ASSUME NEW s \in Subjects, \A i \in OpenIds(f) : f[i].subject # s
      PROVE  Register(f)[s] = NoGrant
  <2>1. {i \in OpenIds(f) : f[i].subject = s} = {}
    BY <1>2
  <2> QED BY <1>2, <2>1 DEF Register
<1> QED BY <1>1, <1>2

\* Two registers are the same when they agree for every subject.
LEMMA RegisterSame ==
  ASSUME NEW f, NEW g, \A s \in Subjects : Register(f)[s] = Register(g)[s]
  PROVE  Register(f) = Register(g)
  BY DEF Register

\* entry, now and after a step, is the register of the file then, a function on the subjects.
LEMMA EntryIsRegister ==
  /\ entry = Register(file) /\ entry = [s \in Subjects |-> entry[s]]
  /\ entry' = Register(file') /\ entry' = [s \in Subjects |-> entry'[s]]
<1>1. entry = Register(file) /\ entry' = Register(file')
  BY DEF entry, OpenFor, Register
<1>2. \A f : Register(f) = [s \in Subjects |-> Register(f)[s]]
  BY DEF Register
<1> QED BY <1>1, <1>2

\* The fields of an entry.
LEMMA EntryFields ==
  ASSUME NEW g
  PROVE  /\ EntryOf(g).role = g.role /\ EntryOf(g).baseline = g.baseline
         /\ EntryOf(g).expires = g.expires /\ EntryOf(g).revoked = (g.state = "REVOKED")
<1>1. EntryOf(g).revoked = (g.state = "REVOKED")
  BY Zenon DEF EntryOf
<1> QED BY <1>1 DEF EntryOf

\* An open grant of the file in a state the broker can be in.
LEMMA OpenIs ==
  ASSUME SafeInv, TimeInv, NEW i \in OpenIds(file)
  PROVE  /\ i \in Ids /\ file[i] \in Grant /\ IsScope(file[i]) /\ file[i].subject \in Subjects
         /\ file[i].role \in Ladder /\ file[i].baseline \in Ladder
         /\ entry[file[i].subject] = EntryOf(file[i]) /\ EntryOf(file[i]) \in Contract!Entries
         /\ entry[file[i].subject] # NoGrant
<1>1. /\ file \in Files /\ \A j \in Ids : OnLadder(file[j])
      /\ Good(file, issued)
  BY TypeInvParts DEF SafeInv, Shared
<1>2. i \in Ids /\ file[i] \in Grant /\ IsScope(file[i])
  BY <1>1 DEF OpenIds, Files, IsScope
<1>3. /\ file[i].subject \in Subjects /\ file[i].expires \in Nat /\ file[i].baseline < file[i].role
      /\ file[i].role \in Ladder /\ file[i].baseline \in Ladder
  BY <1>1, <1>2 DEF Grant, Good, OnLadder
<1>4. OneOpen(file)
  BY <1>1 DEF Good, OneOpen
<1>5. entry[file[i].subject] = EntryOf(file[i])
  BY <1>3, <1>4, RegisterIs, EntryIsRegister
<1>6. EntryOf(file[i]) \in Contract!Entries
  <2>1. EntryOf(file[i]) \in [role : Ladder, baseline : Ladder, expires : Nat, revoked : BOOLEAN]
    BY <1>3 DEF EntryOf
  <2>2. EntryOf(file[i]).baseline < EntryOf(file[i]).role
    BY <1>3 DEF EntryOf
  <2> QED BY <2>1, <2>2 DEF Contract!Entries, Contract!Ladder, Ladder
<1> QED BY <1>2, <1>3, <1>5, <1>6, EntryAssumption

\* The register starts empty.
LEMMA ContractInit == Init => Contract!Init
<1> SUFFICES ASSUME Init PROVE Contract!Init
  OBVIOUS
<1>1. OpenIds(file) = {}
  BY DEF Init, EmptyFile, OpenIds, IsScope
<1>2. entry = [s \in Subjects |-> NoGrant]
  BY <1>1 DEF entry, OpenFor
<1>3. binding \in [Subjects -> Contract!Held]
  BY DEF Init, Contract!Held, Contract!Ladder, Held, Roles, Ladder
<1> QED BY <1>2, <1>3 DEF Init, Contract!Init

\* A step that leaves the file, the bindings and the clock alone is a stutter of the contract.
LEMMA ContractStutters ==
  ASSUME UNCHANGED <<file, binding, raised, clock>>
  PROVE  UNCHANGED Contract!vars
  BY DEF Contract!vars, entry, OpenFor, OpenIds

\* The server-side apply of a pass raises under an entry that is not revoked, or lowers under a closed one.
LEMMA ContractApplies ==
  ASSUME SafeInv, TimeInv, NEW p \in Procs, proc[p].pc = "write", Applies(p), UNCHANGED <<file, clock>>
  PROVE  Contract!Next
<1> DEFINE k == proc[p]
           i == k.id
           g == file[i]
           s == g.subject
<1>1. /\ i \in OpenIds(k.copy) /\ Passing(k) /\ Swept(k) /\ k.now <= clock
      /\ clock \in Nat /\ k.now \in Nat
  BY DEF SafeInv, TypeInv, TypeOK, Sound, InFlight, TimeInv, Timed, Command
<1>2. i \in OpenIds(file) /\ k.copy[i] = g
  BY <1>1, PassingOpen DEF Swept
<1>3. /\ s \in Subjects /\ entry[s] = EntryOf(g) /\ entry[s] # NoGrant /\ g.expires \in Nat
      /\ g.state \in {"ACTIVE", "REVOKED"}
  BY <1>2, OpenIs DEF TimeInv, Grant
<1>4. entry' = entry /\ clock' = clock
  BY DEF entry, OpenFor, OpenIds
<1>5. CASE IsLive(g, k.now)
  <2>1. binding' = [binding EXCEPT ![s] = g.role] /\ raised' = [raised EXCEPT ![s] = TRUE]
    BY <1>2, <1>5 DEF Applies, Want
  <2>2. ~entry[s].revoked /\ entry[s].role = g.role
    BY <1>3, <1>5, EntryFields DEF IsLive
  <2>3. Contract!Raise(s)
    BY <1>3, <1>4, <2>1, <2>2 DEF Contract!Raise
  <2> QED BY <1>3, <2>3 DEF Contract!Next
<1>6. CASE ~IsLive(g, k.now)
  <2>1. binding' = [binding EXCEPT ![s] = g.baseline] /\ raised' = [raised EXCEPT ![s] = FALSE]
    <3>1. IsLive(g, k.now) = FALSE
      BY <1>6 DEF IsLive
    <3> QED BY <1>2, <3>1 DEF Applies, Want
  <2>2. entry[s].baseline = g.baseline /\ Contract!Closed(entry[s])
    <3>1. entry[s].revoked = (g.state = "REVOKED") /\ entry[s].expires = g.expires
      BY <1>3, EntryFields
    <3>2. g.state = "REVOKED" \/ clock >= g.expires
      BY <1>1, <1>3, <1>6 DEF IsLive
    <3>3. entry[s].revoked \/ clock >= entry[s].expires
      BY <3>1, <3>2, Zenon
    <3> QED BY <1>3, <3>3, EntryFields DEF Contract!Closed
  <2>3. Contract!Lower(s)
    BY <1>3, <1>4, <2>1, <2>2 DEF Contract!Lower
  <2> QED BY <1>3, <2>3 DEF Contract!Next
<1> QED BY <1>5, <1>6

\* Two files in which a subject has the same open grant have the same entry for it.
LEMMA RegisterAgrees ==
  ASSUME NEW f, NEW g, OneOpen(f), OneOpen(g), NEW s \in Subjects,
         \A i \in OpenIds(f) : f[i].subject = s => i \in OpenIds(g) /\ g[i] = f[i],
         \A i \in OpenIds(g) : g[i].subject = s => i \in OpenIds(f) /\ f[i] = g[i]
  PROVE  Register(f)[s] = Register(g)[s]
<1>1. CASE \E i \in OpenIds(f) : f[i].subject = s
  <2>1. PICK i \in OpenIds(f) : f[i].subject = s
    BY <1>1
  <2>2. i \in OpenIds(g) /\ g[i] = f[i]
    BY <2>1
  <2>3. Register(f)[s] = EntryOf(f[i]) /\ Register(g)[s] = EntryOf(g[i])
    BY <2>1, <2>2, RegisterIs
  <2> QED BY <2>2, <2>3
<1>2. CASE \A i \in OpenIds(f) : f[i].subject # s
  <2>1. \A i \in OpenIds(g) : g[i].subject # s
    BY <1>2
  <2> QED BY <1>2, <2>1, RegisterIs
<1> QED BY <1>1, <1>2

\* The save of an approval is Approve, that of a revocation Revoke; an action grant, and a revocation of a
\* grant that is reverted, leave the register as it was.
LEMMA ContractSaves ==
  ASSUME SafeInv, TimeInv, NEW p \in Procs, Saves(p)
  PROVE  Contract!Next \/ UNCHANGED Contract!vars
<1> DEFINE k == proc[p]
           c == k.copy
           i == k.id
           s == c[i].subject
<1>1. /\ k \in Command /\ c \in Files /\ file \in Files /\ Edited(k) /\ Sound(k)
      /\ file' = c /\ UNCHANGED <<binding, raised, clock>> /\ k.pc = "save"
  BY DEF SafeInv, TypeInv, TypeOK, TimeInv, Timed, Saves, Command
<1>2. i \in Ids /\ \A j \in Ids \ {i} : c[j] = file[j]
  BY <1>1 DEF Edited, Files
<1>3. /\ Good(c, issued) /\ OpenIds(file) \subseteq OpenIds(c) /\ Forward(file, c)
      /\ OneOpen(c) /\ OneOpen(file)
  BY <1>1 DEF SafeInv, InFlight, Saving, Good, OneOpen
<1>4. \A j \in OpenIds(c) \ {i} : j \in OpenIds(file) /\ c[j] = file[j]
  BY <1>2 DEF OpenIds
<1>5. \A j \in OpenIds(file) \ {i} : j \in OpenIds(c) /\ c[j] = file[j]
  BY <1>2 DEF OpenIds
<1>6. /\ entry = Register(file) /\ entry' = Register(c)
      /\ entry = [u \in Subjects |-> entry[u]] /\ entry' = [u \in Subjects |-> entry'[u]]
  BY <1>1, EntryIsRegister
<1>7. CASE i \notin OpenIds(c)
  <2>1. i \notin OpenIds(file)
    BY <1>3, <1>7
  <2>2. \A u \in Subjects : Register(c)[u] = Register(file)[u]
    BY <1>3, <1>4, <1>5, <1>7, <2>1, RegisterAgrees
  <2> QED BY <1>1, <1>6, <2>2, RegisterSame DEF Contract!vars
<1>8. CASE i \in OpenIds(c)
  <2>1. /\ c[i] \in Grant /\ IsScope(c[i]) /\ s \in Subjects /\ c[i].role \in Ladder
        /\ c[i].baseline \in Ladder /\ c[i].baseline < c[i].role /\ c[i].expires \in Nat
    BY <1>1, <1>2, <1>3, <1>8 DEF OpenIds, Files, IsScope, Grant, Sound, OnLadder, Good
  <2>2. \A u \in Subjects \ {s} : Register(c)[u] = Register(file)[u]
    <3>1. SUFFICES ASSUME NEW u \in Subjects, u # s PROVE Register(c)[u] = Register(file)[u]
      OBVIOUS
    <3>2. \A j \in OpenIds(c) : c[j].subject = u => j \in OpenIds(file) /\ file[j] = c[j]
      BY <1>4, <3>1
    <3>3. \A j \in OpenIds(file) : file[j].subject = u => j \in OpenIds(c) /\ c[j] = file[j]
      <4>1. i \in OpenIds(file) => file[i].subject = s
        BY <1>2, <1>3 DEF Forward, OpenIds, IsScope
      <4> QED BY <1>5, <3>1, <4>1
    <3> QED BY <1>3, <3>2, <3>3, RegisterAgrees
  <2>3. Register(c)[s] = EntryOf(c[i])
    BY <1>3, <1>8, <2>1, RegisterIs
  <2>4. entry' = [entry EXCEPT ![s] = entry'[s]]
    <3>1. \A u \in Subjects \ {s} : entry'[u] = entry[u]
      BY <1>6, <2>2
    <3> QED BY <1>6, <2>1, <3>1
  <2>5. CASE Draft(k)
    <3>1. i \notin OpenIds(file)
      BY <2>5 DEF Draft, OpenIds, IsScope
    <3>2. \A j \in OpenIds(file) : file[j].subject # s
      BY <1>3, <1>5, <1>8, <3>1 DEF OneOpen
    <3>3. entry[s] = NoGrant
      BY <1>3, <1>6, <2>1, <3>2, RegisterIs
    <3>4. EntryOf(c[i]) \in Contract!Entries
      <4>1. EntryOf(c[i]) \in [role : Ladder, baseline : Ladder, expires : Nat, revoked : BOOLEAN]
        BY <2>1 DEF EntryOf
      <4> QED BY <2>1, <4>1, EntryFields DEF Contract!Entries, Contract!Ladder, Ladder
    <3>5. ~EntryOf(c[i]).revoked
      <4>1. c[i].state # "REVOKED"
        BY <2>1, <2>5 DEF Draft
      <4> QED BY <4>1, EntryFields
    <3>6. Contract!Approve(s)
      BY <1>1, <1>6, <2>3, <2>4, <3>3, <3>4, <3>5 DEF Contract!Approve
    <3> QED BY <2>1, <3>6 DEF Contract!Next
  <2>6. CASE Revocation(k)
    <3> DEFINE g == file[i]
    <3>1. g \in Grant /\ c[i] = [g EXCEPT !.state = "REVOKED", !.revokedAt = k.now]
      BY <1>1, <1>2, <2>6 DEF Revocation, Files
    <3>2. /\ c[i].role = g.role /\ c[i].baseline = g.baseline /\ c[i].expires = g.expires
          /\ c[i].state = "REVOKED" /\ c[i].subject = g.subject
          /\ c[i].axis = g.axis /\ c[i].reverted = g.reverted
      BY <3>1 DEF Grant
    <3>3. i \in OpenIds(file)
      BY <1>2, <1>8, <3>1, <3>2, BrokerAssumption DEF OpenIds, IsScope
    <3>4. entry[s] = EntryOf(g) /\ entry[s] # NoGrant
      BY <3>2, <3>3, OpenIs
    <3>5. EntryOf(c[i]) = [EntryOf(g) EXCEPT !.revoked = TRUE]
      <4> DEFINE Fields == [role : Ladder, baseline : Ladder, expires : Nat, revoked : BOOLEAN]
      <4>1. EntryOf(g) \in Fields /\ EntryOf(c[i]) \in Fields
        BY <2>1, <3>2 DEF EntryOf
      <4>2. EntryOf(c[i]).revoked
        BY <3>2, EntryFields
      <4>3. ASSUME NEW e \in Fields, NEW d \in Fields, d.role = e.role, d.baseline = e.baseline,
                   d.expires = e.expires, d.revoked
            PROVE  d = [e EXCEPT !.revoked = TRUE]
        BY <4>3
      <4>4. /\ EntryOf(c[i]).role = EntryOf(g).role /\ EntryOf(c[i]).baseline = EntryOf(g).baseline
            /\ EntryOf(c[i]).expires = EntryOf(g).expires
        BY <3>2 DEF EntryOf
      <4> HIDE DEF Fields
      <4> QED BY <4>1, <4>2, <4>3, <4>4
    <3>6. entry' = [entry EXCEPT ![s].revoked = TRUE]
      BY <1>6, <2>3, <2>4, <3>4, <3>5
    <3>7. Contract!Revoke(s)
      BY <1>1, <3>4, <3>6 DEF Contract!Revoke
    <3> QED BY <2>1, <3>7 DEF Contract!Next
  <2> QED BY <1>1, <2>5, <2>6 DEF Edited
<1> QED BY <1>7, <1>8

\* The save of a pass ends the entries it has settled, all closed and none of them raised any more.
LEMMA ContractEnds ==
  ASSUME SafeInv, TimeInv, NEW p \in Procs, PassEnds(p), proc[p].apply
  PROVE  Contract!Next
<1> DEFINE k == proc[p]
           c == k.copy
           gone == OpenIds(file) \ OpenIds(c)
           S == {file[i].subject : i \in gone}
<1>1. /\ k \in Command /\ Passing(k) /\ Swept(k) /\ k.now <= clock /\ clock \in Nat /\ k.now \in Nat
      /\ file' = c /\ UNCHANGED <<binding, raised, clock>> /\ OneOpen(file)
  BY DEF SafeInv, TypeInv, TypeOK, TimeInv, Timed, PassEnds, InFlight, Command, Good, OneOpen
<1>2. \A i \in OpenIds(c) : i \in OpenIds(file) /\ c[i] = file[i]
  BY <1>1, PassingOpen DEF Swept
<1>3. OneOpen(c)
  BY <1>1, <1>2 DEF OneOpen
<1>4. S \subseteq Subjects
  BY OpenIs
<1>5. ASSUME NEW s \in S PROVE entry[s] # NoGrant /\ Contract!Closed(entry[s]) /\ ~raised[s]
  <2>1. PICK i \in gone : file[i].subject = s
    BY <1>5
  <2>2. /\ entry[s] = EntryOf(file[i]) /\ entry[s] # NoGrant /\ file[i].expires \in Nat
        /\ file[i].state \in {"ACTIVE", "REVOKED"}
    BY <2>1, OpenIs DEF TimeInv, Grant
  <2>3. ~IsLive(file[i], k.now) /\ ~raised[s]
    BY <1>1, <2>1 DEF Swept, Passing
  <2>4. Contract!Closed(entry[s])
    <3>1. entry[s].revoked = (file[i].state = "REVOKED") /\ entry[s].expires = file[i].expires
      BY <2>2, EntryFields
    <3>2. file[i].state = "REVOKED" \/ clock >= file[i].expires
      BY <1>1, <2>2, <2>3 DEF IsLive
    <3>3. entry[s].revoked \/ clock >= entry[s].expires
      BY <3>1, <3>2, Zenon
    <3> QED BY <3>3 DEF Contract!Closed
  <2> QED BY <2>2, <2>3, <2>4
<1>6. entry = Register(file) /\ entry' = Register(c) /\ entry' = [s \in Subjects |-> entry'[s]]
  BY <1>1, EntryIsRegister
<1>7. ASSUME NEW s \in S PROVE entry'[s] = NoGrant
  <2>1. \A i \in OpenIds(c) : c[i].subject # s
    BY <1>1, <1>2 DEF OneOpen
  <2> QED BY <1>3, <1>4, <1>6, <2>1, RegisterIs
<1>8. ASSUME NEW s \in Subjects \ S PROVE entry'[s] = entry[s]
  <2>1. \A i \in OpenIds(file) : file[i].subject = s => i \in OpenIds(c) /\ c[i] = file[i]
    BY <1>2, <1>8
  <2> QED BY <1>1, <1>2, <1>3, <1>6, <2>1, RegisterAgrees
<1>9. entry' = [s \in Subjects |-> IF s \in S THEN NoGrant ELSE entry[s]]
  BY <1>4, <1>6, <1>7, <1>8
<1>10. Contract!End(S)
  BY <1>1, <1>5, <1>9 DEF Contract!End
<1> QED BY <1>4, <1>10 DEF Contract!Next

\* Every step of the broker is a step of the contract or a stutter.
LEMMA ContractNext ==
  SafeInv /\ TimeInv /\ [Next]_vars => [Contract!Next]_(Contract!vars)
<1> SUFFICES ASSUME SafeInv, TimeInv, [Next]_vars PROVE Contract!Next \/ UNCHANGED Contract!vars
  OBVIOUS
<1>1. ASSUME NEW p \in Procs, Starts(p) \/ Step(p) \/ Fails(p)
      PROVE  Contract!Next \/ UNCHANGED Contract!vars
  <2>1. CASE Saves(p)
    BY <2>1, ContractSaves
  <2>2. CASE PassEnds(p)
    <3>1. CASE proc[p].apply
      BY <2>2, <3>1, ContractEnds
    <3>2. CASE ~proc[p].apply
      BY <2>2, <3>2, ContractStutters DEF PassEnds
    <3> QED BY <3>1, <3>2
  <2>3. CASE PassWrites(p)
    BY <2>3, ContractApplies DEF PassWrites
  <2>4. CASE PassWriteFails(p)
    BY <2>4, ContractApplies, ContractStutters DEF PassWriteFails
  <2>5. CASE ~Saves(p) /\ ~PassEnds(p) /\ ~PassWrites(p) /\ ~PassWriteFails(p)
    <3>1. UNCHANGED <<file, binding, raised, clock>>
      BY <1>1, <2>5 DEF Starts, Step, Fails, ScopeGrantStarts, ActionGrantStarts, RevokeStarts, PassStarts,
                        ScopeGrantReads, PassVisits, PassReadsBack, PassBeats, PassReadFails,
                        PassReadBackFails, Dies
    <3> QED BY <3>1, ContractStutters
  <2> QED BY <2>1, <2>2, <2>3, <2>4, <2>5
<1>2. CASE Tick
  <2>1. clock' = clock + 1 /\ UNCHANGED <<file, binding, raised>>
    BY <1>2 DEF Tick
  <2>2. entry' = entry
    BY <2>1 DEF entry, OpenFor, OpenIds
  <2> QED BY <2>1, <2>2 DEF Contract!Next, Contract!Tick
<1>3. ASSUME NEW s \in Subjects, NEW r \in Held, AdminEdits(s, r)
      PROVE  Contract!Next \/ UNCHANGED Contract!vars
  <2>1. /\ binding' = [binding EXCEPT ![s] = r] /\ raised' = [raised EXCEPT ![s] = FALSE]
        /\ UNCHANGED <<file, clock>>
    BY <1>3 DEF AdminEdits
  <2>2. entry' = entry
    BY <2>1 DEF entry, OpenFor, OpenIds
  <2>3. r \in Contract!Held
    BY DEF Held, Roles, Ladder, Contract!Held, Contract!Ladder
  <2>4. Contract!Outside(s, r)
    BY <2>1, <2>2 DEF Contract!Outside
  <2> QED BY <2>3, <2>4 DEF Contract!Next
<1>4. CASE UNCHANGED vars
  BY <1>4, ContractStutters DEF vars
<1> QED BY <1>1, <1>2, <1>3, <1>4 DEF Next

\* The broker run one command at a time implements ElevationContract: whatever its commands write, mark,
\* fail at and save, nobody is raised but under an entry of the register, an entry ends only closed and
\* with nothing raised under it, and a revoked entry never raises again.
THEOREM BrokerKeepsContract == Serialized => (Spec => KeepsContract)
<1>1. Init => Contract!Init
  BY ContractInit
<1>2. SafeInv /\ TimeInv /\ [Next]_vars => [Contract!Next]_(Contract!vars)
  BY ContractNext
<1> QED BY <1>1, <1>2, TimeAlways, PTL DEF Spec, KeepsContract, Contract!Spec
=============================================================================
