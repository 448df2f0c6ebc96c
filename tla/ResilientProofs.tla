--------------------------- MODULE ResilientProofs ---------------------------
(***************************************************************************)
(* Proofs about the three guarantees of resilient.py: for any number of    *)
(* processes and identities and any times, for any collection, page size   *)
(* and server, and for any number of write proofs.                         *)
(***************************************************************************)
EXTENDS Resilient, FiniteSets, Sequences, FiniteSetTheorems, SequenceTheorems, TLAPS

-----------------------------------------------------------------------------
(* The token: a bearer is reckoned to outlive itself by the mint's time-out at most. *)

Given == [of : Identities, number : 1 .. MaxMints, exp : Nat]
NoToken == Client!NoToken

\* A bearer and the expiry the client reckoned for it.
Reckoned(bearer, expires) == bearer # NoToken => expires <= bearer.exp + MintDelay
ReckonedFile(entries) == \A i \in Identities : Reckoned(entries[i].bearer, entries[i].expires)

\* A process, at time t and when m tokens have been given.
ClientOK(c, t, m) ==
  /\ c.began <= m
  /\ c.pc = "bearer" /\ c.try = 2 => c.held = NoToken
  /\ c.pc = "mint" => /\ c.minting \in Given /\ c.minting.number > c.began
                      /\ t + Life <= c.minting.exp + MintDelay
  /\ c.pc \in {"read", "replace", "unauthorized"} \/ (c.pc = "send" /\ c.try = 2) =>
       c.held.number > c.began
  /\ c.pc \in {"read", "replace", "send", "unauthorized"} => c.held # NoToken
  /\ Reckoned(c.held, c.expires) /\ ReckonedFile(c.read)

TokenInv == Client!TypeOK /\ ReckonedFile(file) /\ \A p \in Procs : ClientOK(client[p], now, minted)

-----------------------------------------------------------------------------
(* The pages: on a collection that stands still, what was read is at most what was passed, and in order if it is all. *)

Stride == IF server.strides = "asked" THEN Size ELSE server.cap
PagesRead == IF pc = "read" THEN page ELSE page + 1
Passed == IF PagesRead * Stride < Len(collection) THEN PagesRead * Stride ELSE Len(collection)

Straight ==
  changes = 0 =>
    /\ Len(items) <= Passed
    /\ Len(items) = Passed => items = SubSeq(collection, 1, Passed)
    /\ server.declares /\ pc # "read" => total = Len(collection) + server.beyond

Server == [cap : 1 .. Size, strides : {"asked", "capped"}, beyond : 0 .. 1, declares : BOOLEAN]
WalkInv == Walk!TypeOK /\ server \in Server /\ changes \in Nat /\ Straight

-----------------------------------------------------------------------------
(* The writes. *)

\* A run, by where it is: how often it has sent, and when it has a group for its own.
Counted(r) ==
  /\ r.pc \in {"idle", "look", "ensure", "send"} => r.sent = 0 /\ r.made = 0
  /\ r.pc \in {"confirm", "check", "again", "resend"} => r.sent <= 1
  /\ r.pc \in {"check", "again", "resend", "reconfirm", "expect", "delete", "gone"} => r.made # 0

\* A run that has nothing to report has sent once and leaves nothing.
Honest(d, r, there) ==
  ~r.failed =>
    /\ r.pc \in {"expect", "finally", "delete", "gone", "goneByName", "done"} => r.sent = 1
    /\ r.pc = "finally" => r.made # 0
    /\ r.pc = "done" => \A g \in there : g.by # d

\* A run nobody else interferes with finds its group again.
Alone(d) == \A e \in Demos \ {d} : demo[e].sent = 0 /\ demo[e].made = 0
Settled(r, there) == r.sent <= 1 /\ r.pc # "resend" /\ (r.pc = "again" => there # {})

\* A run that had the name to itself, and no trouble, has removed its group once it has deleted it.
Quiet(d) == \A e \in Demos \ {d} : demo[e].sent = 0
Removed(d, r, there) == ~r.troubled /\ r.pc \in {"gone", "goneByName", "done"} => \A g \in there : g.by # d

RunOK(d) ==
  /\ Counted(demo[d]) /\ Honest(d, demo[d], groups)
  /\ Alone(d) => Settled(demo[d], groups)
  /\ Quiet(d) => Removed(d, demo[d], groups)

\* What is there or may still come was sent, and what may still come has troubled its run.
OwnerInv ==
  /\ \A g \in groups \cup late : demo[g.by].sent >= 1
  /\ \A g \in late : demo[g.by].failed /\ demo[g.by].troubled
  /\ \A d \in Demos : demo[d].made # 0 => demo[demo[d].made].sent >= 1

WriteInv == Write!TypeOK /\ OwnerInv /\ \A d \in Demos : RunOK(d)

ResilientInv == TokenInv /\ WalkInv /\ WriteInv

-----------------------------------------------------------------------------
(* Proofs about the token. *)

Stages == {"closed", "ready", "bearer", "mint", "read", "replace", "send", "unauthorized"}
Token == Client!Token
Entry == Client!Entry
ClientType ==
  [pc : Stages, held : Token, expires : Nat, minting : Token, read : [Identities -> Entry],
   began : 0 .. MaxMints, try : {1, 2}]

LEMMA TokenNumbers ==
  /\ Life \in Nat /\ Buffer \in Nat /\ MintDelay \in Nat /\ MaxClock \in Nat /\ MaxMints \in Nat
  /\ MaxTokenFaults \in Nat /\ MintDelay <= Buffer
  /\ 0 \in 0 .. MaxClock /\ 0 \in 0 .. MaxMints /\ 0 \in 0 .. MaxTokenFaults
  /\ IdentityOf \in [Procs -> Identities] /\ Nobody \notin Identities
  BY ResilientAssumption DEF Client!TokenAssumption

LEMMA TokenIs ==
  /\ Given \subseteq Token /\ NoToken \in Token /\ NoToken \notin Given /\ \A t \in Token : t = NoToken \/ t \in Given
  /\ \A t \in Token : t # NoToken => t.number \in 1 .. MaxMints /\ t.exp \in Nat
<1>1. \A t \in Given : t.of \in Identities
  BY DEF Given
<1>2. NoToken.of = Nobody
  BY DEF NoToken, Client!NoToken
<1>3. Token = {NoToken} \cup Given
  BY DEF Token, Client!Token, NoToken, Given
<1>4. \A t \in Given : t.number \in 1 .. MaxMints /\ t.exp \in Nat
  BY DEF Given
<1> HIDE DEF NoToken, Token, Given
<1> QED  BY <1>1, <1>2, <1>3, <1>4, TokenNumbers

LEMMA NoEntryIs ==
  /\ Client!NoEntry \in Entry /\ Client!NoEntry.bearer = NoToken /\ Client!NoEntry.expires = 0
  /\ \A e \in Entry : e.bearer \in Token /\ e.expires \in Nat
  BY TokenIs DEF Client!NoEntry, Entry, Client!Entry, Token, NoToken

EmptyFile == [i \in Identities |-> Client!NoEntry]

LEMMA EmptyFileIs == EmptyFile \in [Identities -> Entry] /\ ReckonedFile(EmptyFile)
  BY NoEntryIs DEF EmptyFile, ReckonedFile, Reckoned

LEMMA ClosedIs ==
  /\ Client!Closed \in ClientType /\ Client!Closed.pc = "closed" /\ Client!Closed.held = NoToken
  /\ Client!Closed.read = EmptyFile /\ Client!Closed.began = 0 /\ Client!Closed.try = 1
<1>1. Client!Closed.pc = "closed" /\ Client!Closed.held = NoToken /\ Client!Closed.read = EmptyFile
      /\ Client!Closed.began = 0 /\ Client!Closed.try = 1
  BY DEF Client!Closed, EmptyFile, NoToken
<1>2. Client!NoToken \in Token /\ [i \in Identities |-> Client!NoEntry] \in [Identities -> Entry]
  BY TokenIs, EmptyFileIs DEF NoToken, EmptyFile
<1> HIDE DEF Token, Entry
<1>3. 0 \in 0 .. MaxMints
  BY TokenNumbers
<1>4. Client!Closed \in ClientType
  BY <1>2, <1>3 DEF Client!Closed, ClientType, Stages
<1> QED  BY <1>1, <1>4

\* The types as one set of process records.
TokenTypes ==
  /\ now \in 0 .. MaxClock /\ minted \in 0 .. MaxMints /\ revoked \subseteq 1 .. minted
  /\ file \in [Identities -> Entry] /\ client \in [Procs -> ClientType] /\ tokenFaults \in 0 .. MaxTokenFaults

LEMMA TokenTypesAre ==
  TokenInv <=> /\ TokenTypes /\ ReckonedFile(file) /\ \A p \in Procs : ClientOK(client[p], now, minted)
<1>1. Client!TypeOK <=> TokenTypes /\ \A p \in Procs : client[p].pc = "send" => client[p].held # NoToken
  BY DEF Client!TypeOK, TokenTypes, ClientType, Stages, Token, Entry, NoToken
<1> QED  BY <1>1 DEF TokenInv, ClientOK

LEMMA TokenTypesNext ==
  ASSUME TokenTypes', ReckonedFile(file)', (\A p \in Procs : ClientOK(client[p], now, minted))'
  PROVE  TokenInv'
<1>1. Client!TypeOK'
  BY DEF Client!TypeOK, TokenTypes, ClientType, Stages, Token, Entry, NoToken, ClientOK
<1> QED  BY <1>1 DEF TokenInv

LEMMA TokenInit == Client!Init => TokenInv
<1> SUFFICES ASSUME Client!Init PROVE TokenInv
  OBVIOUS
<1>1. TokenTypes
  BY ClosedIs, EmptyFileIs, TokenNumbers DEF Client!Init, TokenTypes, EmptyFile
<1>2. ReckonedFile(file)
  BY EmptyFileIs DEF Client!Init, EmptyFile
<1>3. ClientOK(Client!Closed, 0, 0)
  BY ClosedIs, EmptyFileIs DEF ClientOK, Reckoned
<1> QED  BY <1>1, <1>2, <1>3, TokenTypesAre DEF Client!Init

LEMMA ClientStaysOK ==
  ASSUME NEW c \in ClientType, NEW t \in Nat, NEW m \in Nat, NEW n \in Nat, m <= n, ClientOK(c, t, m)
  PROVE  ClientOK(c, t, n)
<1>1. \A b \in 0 .. MaxMints : b <= m => b <= n
  BY TokenNumbers
<1> QED  BY <1>1 DEF ClientOK, ClientType

\* One process moves, in no time.
LEMMA OneMoves ==
  ASSUME TokenInv, NEW p \in Procs, now' = now, minted' \in 0 .. MaxMints, minted <= minted', revoked' \subseteq 1 .. minted',
         file' \in [Identities -> Entry], ReckonedFile(file'), tokenFaults' \in 0 .. MaxTokenFaults,
         client' \in [Procs -> ClientType], \A q \in Procs \ {p} : client'[q] = client[q],
         ClientOK(client'[p], now', minted')
  PROVE  TokenInv'
<1>1. TokenTypes'
  BY TokenTypesAre DEF TokenTypes
<1>2. ASSUME NEW q \in Procs PROVE ClientOK(client'[q], now', minted')
  <2>1. CASE q = p
    BY <2>1
  <2>2. CASE q # p
    <3>1. client'[q] = client[q] /\ client[q] \in ClientType /\ ClientOK(client[q], now, minted)
      BY <2>2, TokenTypesAre DEF TokenTypes
    <3>2. now \in Nat /\ minted \in Nat /\ minted' \in Nat
      BY TokenTypesAre, TokenNumbers DEF TokenTypes
    <3> QED  BY <3>1, <3>2, ClientStaysOK
  <2> QED  BY <2>1, <2>2
<1>3. ReckonedFile(file)'
  BY DEF ReckonedFile
<1>4. (\A q \in Procs : ClientOK(client[q], now, minted))'
  BY <1>2
<1> QED  BY <1>1, <1>3, <1>4, TokenTypesNext

\* Time passes, and no mint is answered too late.
LEMMA TimePasses ==
  ASSUME TokenInv, Client!Tick
  PROVE  TokenInv'
<1> USE DEF Client!Tick
<1>1. TokenTypes'
  BY TokenTypesAre, TokenNumbers DEF TokenTypes
<1>2. ASSUME NEW p \in Procs PROVE ClientOK(client'[p], now', minted')
  <2>1. client'[p] = client[p] /\ client[p] \in ClientType /\ ClientOK(client[p], now, minted)
        /\ now' = now + 1 /\ minted' = minted
    BY TokenTypesAre DEF TokenTypes
  <2>2. client[p].pc = "mint" => now' + Life <= client[p].minting.exp + MintDelay
    <3>1. ASSUME client[p].pc = "mint"
          PROVE  /\ client[p].minting.exp \in Nat /\ now \in Nat
                 /\ now + Life < client[p].minting.exp + MintDelay
      BY <2>1, <3>1, TokenTypesAre, TokenNumbers DEF ClientOK, Given, TokenTypes, Client!At
    <3> QED  BY <2>1, <3>1, TokenNumbers
  <2> QED  BY <2>1, <2>2 DEF ClientOK
<1>3. ReckonedFile(file)'
  BY TokenTypesAre DEF ReckonedFile
<1>4. (\A p \in Procs : ClientOK(client[p], now, minted))'
  BY <1>2
<1> QED  BY <1>1, <1>3, <1>4, TokenTypesNext

LEMMA TokenFaults ==
  ASSUME tokenFaults \in 0 .. MaxTokenFaults, Client!Fault \/ UNCHANGED tokenFaults
  PROVE  tokenFaults' \in 0 .. MaxTokenFaults
  BY TokenNumbers DEF Client!Fault

LEMMA TokenRevoked ==
  ASSUME TokenInv, NEW n, Client!Revokes(n)
  PROVE  TokenInv'
<1> USE DEF Client!Revokes
<1>1. TokenTypes'
  BY TokenTypesAre, TokenFaults DEF TokenTypes
<1>2. ReckonedFile(file)' /\ (\A p \in Procs : ClientOK(client[p], now, minted))'
  BY TokenTypesAre DEF ReckonedFile
<1> QED  BY <1>1, <1>2, TokenTypesNext

\* Opening, closing and asking.
LEMMA ProcessTurns ==
  ASSUME TokenInv, NEW p \in Procs, Client!Opens(p) \/ Client!Closes(p) \/ Client!Requests(p)
  PROVE  TokenInv'
<1>1. TokenTypes /\ ReckonedFile(file) /\ ClientOK(client[p], now, minted)
  BY TokenTypesAre
<1>2. tokenFaults' \in 0 .. MaxTokenFaults /\ now' = now /\ minted' = minted /\ revoked' = revoked /\ file' = file
  BY <1>1, TokenFaults DEF TokenTypes, Client!Opens, Client!Closes, Client!Requests
<1>3. minted \in 0 .. MaxMints /\ minted <= minted /\ minted \in Nat
  BY <1>1, TokenNumbers DEF TokenTypes
<1> HIDE DEF ClientType, Stages, Token, Entry
<1>4. client \in [Procs -> ClientType] /\ client[p] \in ClientType /\ IdentityOf[p] \in Identities
  BY <1>1, TokenNumbers DEF TokenTypes
<1>5. ASSUME NEW c \in ClientType, client' = [client EXCEPT ![p] = c], ClientOK(c, now, minted) PROVE TokenInv'
  <2>1. client' \in [Procs -> ClientType] /\ client'[p] = c /\ \A q \in Procs \ {p} : client'[q] = client[q]
    BY <1>4, <1>5
  <2> QED  BY <1>1, <1>2, <1>3, <1>5, <2>1, OneMoves DEF TokenTypes
<1>6. ClientOK(Client!Closed, now, minted)
  BY <1>3, ClosedIs, EmptyFileIs DEF ClientOK, Reckoned
<1>7. CASE Client!Opens(p)
  <2> DEFINE e == file[IdentityOf[p]]
             opened == [Client!Closed EXCEPT !.pc = "ready", !.held = e.bearer, !.expires = e.expires]
             bare == [Client!Closed EXCEPT !.pc = "ready"]
  <2>1. e.bearer \in Token /\ e.expires \in Nat /\ Reckoned(e.bearer, e.expires)
    BY <1>1, <1>4, NoEntryIs DEF TokenTypes, ReckonedFile
  <2>2. client' = [client EXCEPT ![p] = opened] \/ client' = [client EXCEPT ![p] = bare]
    BY <1>7 DEF Client!Opens, Client!Key
  <2> HIDE DEF e
  <2>3. opened \in ClientType /\ ClientOK(opened, now, minted)
    BY <1>6, <2>1, ClosedIs DEF ClientType, Stages, ClientOK
  <2>4. bare \in ClientType /\ ClientOK(bare, now, minted)
    BY <1>6, ClosedIs DEF ClientType, Stages, ClientOK
  <2> HIDE DEF opened, bare
  <2> QED  BY <1>5, <2>2, <2>3, <2>4
<1>8. CASE Client!Closes(p)
  BY <1>5, <1>6, <1>8, ClosedIs DEF Client!Closes
<1>9. CASE Client!Requests(p)
  <2> DEFINE c == [client[p] EXCEPT !.pc = "bearer", !.began = minted, !.try = 1]
  <2>1. client' = [client EXCEPT ![p] = c]
    BY <1>4, <1>9 DEF Client!Requests
  <2>2. c \in ClientType
    BY <1>3, <1>4 DEF ClientType, Stages
  <2>3. c.pc = "bearer" /\ c.try = 1 /\ c.began = minted /\ c.held = client[p].held /\ c.expires = client[p].expires
        /\ c.read = client[p].read
    BY <1>4 DEF ClientType
  <2> HIDE DEF c
  <2>4. ClientOK(c, now, minted)
    BY <1>1, <1>3, <2>3 DEF ClientOK
  <2> QED  BY <1>5, <2>1, <2>2, <2>4
<1> QED  BY <1>7, <1>8, <1>9

\* One process moves and nothing else does.
LEMMA ProcessBecomes ==
  ASSUME TokenInv, NEW p \in Procs, NEW c \in ClientType, client' = [client EXCEPT ![p] = c], ClientOK(c, now, minted),
         now' = now, minted' = minted, revoked' = revoked, file' = file, tokenFaults' \in 0 .. MaxTokenFaults
  PROVE  TokenInv'
<1>1. TokenTypes /\ ReckonedFile(file)
  BY TokenTypesAre
<1>2. minted \in 0 .. MaxMints /\ minted <= minted
  BY <1>1, TokenNumbers DEF TokenTypes
<1> HIDE DEF ClientType, Stages, Token, Entry
<1>3. client' \in [Procs -> ClientType] /\ client'[p] = c /\ \A q \in Procs \ {p} : client'[q] = client[q]
  BY <1>1 DEF TokenTypes
<1> QED  BY <1>1, <1>2, <1>3, OneMoves DEF TokenTypes

\* A bearer is used, a mint fails, a call is answered.
LEMMA ProcessReturns ==
  ASSUME TokenInv, NEW p \in Procs, Client!UsesBearer(p) \/ Client!MintFails(p) \/ Client!Answered(p)
  PROVE  TokenInv'
<1>1. TokenTypes /\ ClientOK(client[p], now, minted)
  BY TokenTypesAre
<1>2. tokenFaults' \in 0 .. MaxTokenFaults /\ now' = now /\ minted' = minted /\ revoked' = revoked /\ file' = file
  BY <1>1, TokenFaults DEF TokenTypes, Client!UsesBearer, Client!MintFails, Client!Answered
<1>3. minted \in Nat /\ 0 <= minted
  BY <1>1, TokenNumbers DEF TokenTypes
<1>4. client \in [Procs -> ClientType] /\ client[p] \in ClientType
  BY <1>1 DEF TokenTypes
<1> HIDE DEF Token, Entry
<1>5. CASE Client!UsesBearer(p)
  <2> DEFINE c == [client[p] EXCEPT !.pc = "send"]
  <2>1. client' = [client EXCEPT ![p] = c]
    BY <1>4, <1>5 DEF Client!UsesBearer
  <2>2. c \in ClientType
    BY <1>4 DEF ClientType, Stages
  <2>3. /\ c.pc = "send" /\ c.try = client[p].try /\ c.began = client[p].began /\ c.held = client[p].held
        /\ c.expires = client[p].expires /\ c.read = client[p].read
    BY <1>4 DEF ClientType
  <2>4. client[p].pc = "bearer" /\ client[p].held # NoToken
    BY <1>5 DEF Client!UsesBearer, Client!At, Client!Stale, NoToken
  <2> HIDE DEF c
  <2>5. ClientOK(c, now, minted)
    BY <1>1, <2>3, <2>4 DEF ClientOK
  <2> QED  BY <1>2, <2>1, <2>2, <2>5, ProcessBecomes
<1>6. CASE Client!MintFails(p) \/ Client!Answered(p)
  <2> DEFINE c == [client[p] EXCEPT !.pc = "ready", !.began = 0, !.try = 1]
  <2>1. client' = [client EXCEPT ![p] = c]
    BY <1>4, <1>6 DEF Client!MintFails, Client!Answered
  <2>2. c \in ClientType
    BY <1>4, TokenNumbers DEF ClientType, Stages
  <2>3. /\ c.pc = "ready" /\ c.began = 0 /\ c.held = client[p].held
        /\ c.expires = client[p].expires /\ c.read = client[p].read
    BY <1>4 DEF ClientType
  <2> HIDE DEF c
  <2>4. ClientOK(c, now, minted)
    BY <1>1, <1>3, <2>3 DEF ClientOK
  <2> QED  BY <1>2, <2>1, <2>2, <2>4, ProcessBecomes
<1> QED  BY <1>5, <1>6

\* The platform gives a token whose number is above every number given before.
LEMMA ProcessMints ==
  ASSUME TokenInv, NEW p \in Procs, Client!Mints(p)
  PROVE  TokenInv'
<1>1. TokenTypes /\ ReckonedFile(file) /\ ClientOK(client[p], now, minted)
  BY TokenTypesAre
<1>2. /\ now \in Nat /\ minted \in Nat /\ minted + 1 \in 0 .. MaxMints /\ minted + 1 \in 1 .. MaxMints
      /\ minted <= minted + 1 /\ 1 .. minted \subseteq 1 .. minted + 1 /\ now + Life \in Nat
  BY <1>1, TokenNumbers DEF TokenTypes, Client!Mints
<1>3. /\ now' = now /\ minted' = minted + 1 /\ revoked' = revoked /\ file' = file /\ tokenFaults' = tokenFaults
      /\ client[p].pc = "bearer"
  BY DEF Client!Mints, Client!At
<1>4. client \in [Procs -> ClientType] /\ client[p] \in ClientType /\ IdentityOf[p] \in Identities
  BY <1>1, TokenNumbers DEF TokenTypes
<1> DEFINE given == [of |-> IdentityOf[p], number |-> minted + 1, exp |-> now + Life]
           c == [client[p] EXCEPT !.pc = "mint", !.minting = given]
<1>5. given \in Given /\ given.number = minted + 1 /\ given.exp = now + Life
  BY <1>2, <1>4 DEF Given
<1>6. client' = [client EXCEPT ![p] = c]
  BY <1>4 DEF Client!Mints
<1> HIDE DEF given, Token, Entry
<1>7. c \in ClientType
  BY <1>4, <1>5, TokenIs DEF ClientType, Stages
<1>8. /\ c.pc = "mint" /\ c.minting = given /\ c.held = client[p].held /\ c.expires = client[p].expires
      /\ c.read = client[p].read /\ c.began = client[p].began /\ c.began \in Nat
  BY <1>4, TokenNumbers DEF ClientType
<1> HIDE DEF c, ClientType
<1>9. now + Life <= (now + Life) + MintDelay
  BY <1>2, TokenNumbers
<1>10. c.began <= minted => c.began < minted + 1 /\ c.began <= minted + 1
  BY <1>2, <1>8
<1>11. ClientOK(c, now, minted + 1)
  BY <1>1, <1>5, <1>8, <1>9, <1>10 DEF ClientOK
<1>12. client' \in [Procs -> ClientType] /\ client'[p] = c /\ \A q \in Procs \ {p} : client'[q] = client[q]
  BY <1>4, <1>6, <1>7
<1>13. revoked' \subseteq 1 .. minted' /\ file' \in [Identities -> Entry] /\ ReckonedFile(file')
       /\ tokenFaults' \in 0 .. MaxTokenFaults /\ minted' \in 0 .. MaxMints /\ minted <= minted'
  BY <1>1, <1>2, <1>3 DEF TokenTypes
<1> QED  BY <1>3, <1>7, <1>11, <1>12, <1>13, OneMoves

\* The answer of the mint is in: what the client reckons is late by the mint's time-out at most.
LEMMA ProcessHas ==
  ASSUME TokenInv, NEW p \in Procs, Client!Minted(p)
  PROVE  TokenInv'
<1>1. TokenTypes /\ ClientOK(client[p], now, minted)
  BY TokenTypesAre
<1>2. now \in Nat /\ now + Life \in Nat
  BY <1>1, TokenNumbers DEF TokenTypes
<1>3. /\ now' = now /\ minted' = minted /\ revoked' = revoked /\ file' = file /\ tokenFaults' = tokenFaults
      /\ client[p].pc = "mint"
  BY DEF Client!Minted, Client!At
<1>4. client \in [Procs -> ClientType] /\ client[p] \in ClientType /\ tokenFaults \in 0 .. MaxTokenFaults
  BY <1>1 DEF TokenTypes
<1> DEFINE c == [client[p] EXCEPT !.pc = "read", !.held = client[p].minting, !.expires = now + Life,
                                  !.minting = NoToken]
<1>5. client' = [client EXCEPT ![p] = c]
  BY <1>4 DEF Client!Minted, NoToken
<1>6. client[p].minting \in Given /\ client[p].minting.number > client[p].began
      /\ now + Life <= client[p].minting.exp + MintDelay
  BY <1>1, <1>3 DEF ClientOK
<1> HIDE DEF Token, Entry, NoToken
<1>7. c \in ClientType
  BY <1>2, <1>4, <1>6, TokenIs DEF ClientType, Stages
<1>8. /\ c.pc = "read" /\ c.held = client[p].minting /\ c.expires = now + Life
      /\ c.read = client[p].read /\ c.began = client[p].began
  BY <1>4 DEF ClientType
<1> HIDE DEF c, ClientType
<1>9. client[p].minting # NoToken
  BY <1>6, TokenIs
<1>10. ClientOK(c, now, minted)
  BY <1>1, <1>6, <1>8, <1>9 DEF ClientOK, Reckoned
<1> QED  BY <1>3, <1>4, <1>5, <1>7, <1>10, ProcessBecomes

\* The file as it is, or as if it were not there.
LEMMA ProcessReads ==
  ASSUME TokenInv, NEW p \in Procs, Client!PersistReads(p)
  PROVE  TokenInv'
<1>1. TokenTypes /\ ReckonedFile(file) /\ ClientOK(client[p], now, minted)
  BY TokenTypesAre
<1>2. tokenFaults' \in 0 .. MaxTokenFaults
  BY <1>1, TokenFaults DEF TokenTypes, Client!PersistReads
<1>3. now' = now /\ minted' = minted /\ revoked' = revoked /\ file' = file /\ client[p].pc = "read"
  BY DEF Client!PersistReads, Client!At
<1>4. client \in [Procs -> ClientType] /\ client[p] \in ClientType /\ file \in [Identities -> Entry]
  BY <1>1 DEF TokenTypes
<1> DEFINE c(f) == [client[p] EXCEPT !.pc = "replace", !.read = f]
<1>5. client' = [client EXCEPT ![p] = c(file)] \/ client' = [client EXCEPT ![p] = c(EmptyFile)]
  BY <1>4 DEF Client!PersistReads, EmptyFile
<1> HIDE DEF Token, Entry
<1>6. ASSUME NEW f \in [Identities -> Entry], ReckonedFile(f)
      PROVE  c(f) \in ClientType /\ ClientOK(c(f), now, minted)
  <2>1. c(f) \in ClientType
    BY <1>4 DEF ClientType, Stages
  <2>2. /\ c(f).pc = "replace" /\ c(f).held = client[p].held /\ c(f).expires = client[p].expires
        /\ c(f).read = f /\ c(f).began = client[p].began
    BY <1>4 DEF ClientType
  <2> HIDE DEF c
  <2>3. ClientOK(c(f), now, minted)
    BY <1>1, <1>3, <1>6, <2>2 DEF ClientOK
  <2> QED  BY <2>1, <2>3
<1> HIDE DEF c, ClientType
<1> QED  BY <1>1, <1>2, <1>3, <1>4, <1>5, <1>6, EmptyFileIs, ProcessBecomes

\* The file is replaced by what was read of it and the bearer that was minted.
LEMMA ProcessReplaces ==
  ASSUME TokenInv, NEW p \in Procs, Client!PersistReplaces(p)
  PROVE  TokenInv'
<1>1. TokenTypes /\ ClientOK(client[p], now, minted)
  BY TokenTypesAre
<1>2. /\ now' = now /\ minted' = minted /\ revoked' = revoked /\ tokenFaults' = tokenFaults
      /\ client[p].pc = "replace"
  BY DEF Client!PersistReplaces, Client!At
<1>3. client \in [Procs -> ClientType] /\ client[p] \in ClientType /\ IdentityOf[p] \in Identities
  BY <1>1, TokenNumbers DEF TokenTypes
<1> DEFINE c == [client[p] EXCEPT !.pc = "send", !.read = EmptyFile]
           e == [bearer |-> client[p].held, expires |-> client[p].expires]
<1>4. client' = [client EXCEPT ![p] = c] /\ file' = [client[p].read EXCEPT ![IdentityOf[p]] = e]
  BY <1>3 DEF Client!PersistReplaces, EmptyFile, Client!Key
<1>5. client[p].held \in Client!Token /\ client[p].expires \in Nat /\ client[p].read \in [Identities -> Entry]
      /\ Reckoned(client[p].held, client[p].expires) /\ ReckonedFile(client[p].read)
      /\ client[p].held # NoToken /\ client[p].held.number > client[p].began
  BY <1>1, <1>2, <1>3 DEF ClientType, ClientOK, Token
<1>6. e \in Entry /\ e.bearer = client[p].held /\ e.expires = client[p].expires
  BY <1>5 DEF Entry, Client!Entry
<1> HIDE DEF Token, Entry, e
<1>7. file' \in [Identities -> Entry] /\ ReckonedFile(file')
  BY <1>3, <1>4, <1>5, <1>6 DEF ReckonedFile
<1>8. c \in ClientType
  BY <1>3, EmptyFileIs DEF ClientType, Stages
<1>9. /\ c.pc = "send" /\ c.held = client[p].held /\ c.expires = client[p].expires
      /\ c.read = EmptyFile /\ c.began = client[p].began
  BY <1>3 DEF ClientType
<1> HIDE DEF c, ClientType
<1>10. ClientOK(c, now, minted)
  BY <1>1, <1>5, <1>9, EmptyFileIs DEF ClientOK
<1>11. client' \in [Procs -> ClientType] /\ client'[p] = c /\ \A q \in Procs \ {p} : client'[q] = client[q]
  BY <1>3, <1>4, <1>8
<1>12. minted' \in 0 .. MaxMints /\ minted <= minted' /\ revoked' \subseteq 1 .. minted'
       /\ tokenFaults' \in 0 .. MaxTokenFaults
  BY <1>1, <1>2, TokenNumbers DEF TokenTypes
<1> QED  BY <1>2, <1>7, <1>8, <1>10, <1>11, <1>12, OneMoves

\* A refusal drops the bearer, or is the caller's.
LEMMA ProcessRefused ==
  ASSUME TokenInv, NEW p \in Procs, Client!Refused(p)
  PROVE  TokenInv'
<1>1. TokenTypes /\ ClientOK(client[p], now, minted)
  BY TokenTypesAre
<1>2. tokenFaults' \in 0 .. MaxTokenFaults
  BY <1>1, TokenFaults DEF TokenTypes, Client!Refused
<1>3. /\ now' = now /\ minted' = minted /\ revoked' = revoked /\ file' = file /\ client[p].pc = "send"
  BY DEF Client!Refused, Client!At
<1>4. client \in [Procs -> ClientType] /\ client[p] \in ClientType
  BY <1>1 DEF TokenTypes
<1> DEFINE dropped == [client[p] EXCEPT !.pc = "bearer", !.held = NoToken, !.expires = 0, !.try = 2]
           given == [client[p] EXCEPT !.pc = "unauthorized"]
<1>5. \/ client' = [client EXCEPT ![p] = dropped]
      \/ client' = [client EXCEPT ![p] = given] /\ client[p].try = 2
  BY <1>4 DEF Client!Refused, NoToken
<1> HIDE DEF Token, Entry, NoToken
<1>6. dropped \in ClientType /\ given \in ClientType
  BY <1>4, TokenIs DEF ClientType, Stages
<1>7. /\ dropped.pc = "bearer" /\ dropped.held = NoToken /\ dropped.read = client[p].read
      /\ dropped.began = client[p].began
      /\ given.pc = "unauthorized" /\ given.held = client[p].held /\ given.expires = client[p].expires
      /\ given.read = client[p].read /\ given.began = client[p].began
  BY <1>4 DEF ClientType
<1> HIDE DEF dropped, given, ClientType
<1>8. ClientOK(dropped, now, minted)
  BY <1>1, <1>7 DEF ClientOK, Reckoned
<1>9. client[p].try = 2 => ClientOK(given, now, minted)
  BY <1>1, <1>3, <1>7 DEF ClientOK
<1> QED  BY <1>2, <1>3, <1>5, <1>6, <1>8, <1>9, ProcessBecomes

\* Every step of the client keeps the invariant.
LEMMA TokenNext ==
  ASSUME TokenInv, Client!Next
  PROVE  TokenInv'
<1>1. CASE Client!Tick
  BY <1>1, TimePasses
<1>2. CASE \E n \in 1 .. MaxMints : Client!Revokes(n)
  BY <1>2, TokenRevoked
<1>3. ASSUME NEW p \in Procs,
             \/ Client!Opens(p) \/ Client!Closes(p) \/ Client!Requests(p) \/ Client!UsesBearer(p) \/ Client!Mints(p)
             \/ Client!MintFails(p) \/ Client!Minted(p) \/ Client!PersistReads(p) \/ Client!PersistReplaces(p)
             \/ Client!Answered(p) \/ Client!Refused(p)
      PROVE  TokenInv'
  BY <1>3, ProcessTurns, ProcessReturns, ProcessMints, ProcessHas, ProcessReads, ProcessReplaces, ProcessRefused
<1> QED  BY <1>1, <1>2, <1>3 DEF Client!Next

LEMMA TokenRests ==
  ASSUME TokenInv, UNCHANGED token
  PROVE  TokenInv'
  BY DEF token, TokenInv, Client!TypeOK, ReckonedFile

LEMMA TokenRefusedWasFresh == TokenInv => Client!RefusedWasFresh
  BY DEF TokenInv, ClientOK, Client!RefusedWasFresh, Client!At

\* A bearer that is sent again was not about to run out, by the client's reckoning, and so by the platform's.
LEMMA TokenReused ==
  ASSUME TokenInv, Client!Next \/ UNCHANGED token, NEW p \in Procs, client[p].pc = "bearer", client'[p].pc = "send"
  PROVE  now < client[p].held.exp
<1>1. TokenTypes /\ ClientOK(client[p], now, minted)
  BY TokenTypesAre
<1> HIDE DEF Token, Entry
<1>2. client \in [Procs -> ClientType] /\ client[p] \in ClientType /\ client[p].held \in Token
      /\ client[p].expires \in Nat /\ now \in Nat
  BY <1>1, TokenNumbers DEF TokenTypes, ClientType
<1>3. PICK q \in Procs :
        \/ Client!Opens(q) \/ Client!Closes(q) \/ Client!Requests(q) \/ Client!UsesBearer(q) \/ Client!Mints(q)
        \/ Client!MintFails(q) \/ Client!Minted(q) \/ Client!PersistReads(q) \/ Client!PersistReplaces(q)
        \/ Client!Answered(q) \/ Client!Refused(q)
  BY <1>2 DEF Client!Next, Client!Tick, Client!Revokes, token
<1> HIDE DEF Stages, ClientType
<1>4. q = p
  BY <1>2, <1>3 DEF Client!Opens, Client!Closes, Client!Requests, Client!UsesBearer, Client!Mints, Client!MintFails,
       Client!Minted, Client!PersistReads, Client!PersistReplaces, Client!Answered, Client!Refused
<1>5. Client!UsesBearer(p)
  BY <1>2, <1>3, <1>4, ClosedIs DEF Client!Opens, Client!Closes, Client!Requests, Client!Mints, Client!MintFails,
       Client!Minted, Client!PersistReads, Client!PersistReplaces, Client!Answered, Client!Refused, Client!At, ClientType
<1>6. client[p].held # NoToken /\ ~(now + Buffer >= client[p].expires)
  BY <1>5 DEF Client!UsesBearer, Client!Stale, NoToken
<1>7. client[p].held.exp \in Nat /\ client[p].expires <= client[p].held.exp + MintDelay
  BY <1>1, <1>2, <1>6, TokenIs DEF ClientOK, Reckoned
<1> QED  BY <1>2, <1>6, <1>7, TokenNumbers

-----------------------------------------------------------------------------
(* Proofs about the pages. *)

\* The names an instance gives to finiteness and cardinality.
LEMMA SameSets == \A S : (Walk!IsFiniteSet(S) <=> IsFiniteSet(S)) /\ Walk!Cardinality(S) = Cardinality(S)
  BY DEF Walk!IsFiniteSet, Walk!Cardinality, IsFiniteSet, Cardinality

LEMMA PageNumbers ==
  /\ IsFiniteSet(Objects) /\ Size \in Nat /\ Size >= 1 /\ MaxPages \in Nat /\ 0 \in 0 .. MaxPages
  /\ Cardinality(Objects) \in Nat
<1>1. IsFiniteSet(Objects) /\ Size \in Nat \ {0} /\ MaxPages \in Nat \ {0}
  BY ResilientAssumption, SameSets DEF Walk!PageAssumption
<1> QED  BY <1>1, FS_CardinalityType

\* An ordering is a sequence of objects that has each once, and so has no more of them than there are.
LEMMA OrderingIs ==
  ASSUME NEW s
  PROVE  s \in Walk!Orderings <=> s \in Seq(Objects) /\ \A i, j \in 1 .. Len(s) : s[i] = s[j] => i = j
<1>1. ASSUME s \in Walk!Orderings
      PROVE  s \in Seq(Objects) /\ \A i, j \in 1 .. Len(s) : s[i] = s[j] => i = j
  <2>1. PICK n \in 0 .. Cardinality(Objects) : s \in [1 .. n -> Objects] /\ Walk!IsInjective(s)
    <3>1. Walk!Cardinality(Objects) = Cardinality(Objects)
      BY SameSets
    <3> QED  BY <1>1, <3>1, Zenon DEF Walk!Orderings, Walk!SeqOf
  <2>2. n \in Nat
    BY <2>1, PageNumbers
  <2>3. s \in Seq(Objects)
    BY <2>1, <2>2, SeqDef
  <2>4. DOMAIN s = 1 .. Len(s)
    BY <2>3, LenProperties
  <2> QED  BY <2>1, <2>3, <2>4 DEF Walk!IsInjective
<1>2. ASSUME s \in Seq(Objects), \A i, j \in 1 .. Len(s) : s[i] = s[j] => i = j
      PROVE  s \in Walk!Orderings
  <2>1. Len(s) \in Nat /\ s \in [1 .. Len(s) -> Objects] /\ DOMAIN s = 1 .. Len(s)
    BY <1>2, LenProperties
  <2>2. s \in Injection(1 .. Len(s), Objects) /\ Walk!IsInjective(s)
    BY <1>2, <2>1 DEF Injection, IsInjective, Walk!IsInjective
  <2>3. Cardinality(1 .. Len(s)) <= Cardinality(Objects)
    BY <2>2, PageNumbers, FS_Injection
  <2>4. Cardinality(1 .. Len(s)) = Len(s)
    <3>1. Cardinality(1 .. Len(s)) = IF 1 > Len(s) THEN 0 ELSE Len(s) - 1 + 1
      BY <2>1, FS_Interval
    <3> QED  BY <2>1, <3>1
  <2>5. Len(s) \in 0 .. Cardinality(Objects)
    BY <2>1, <2>3, <2>4, PageNumbers
  <2>6. Walk!Cardinality(Objects) = Cardinality(Objects)
    BY SameSets
  <2> QED  BY <2>1, <2>2, <2>5, <2>6, Zenon DEF Walk!Orderings, Walk!SeqOf
<1> QED  BY <1>1, <1>2

\* What is between two places of a sequence.
LEMMA PartIs ==
  ASSUME NEW s \in Seq(Objects), NEW m \in 1 .. Len(s) + 1, NEW n \in 0 .. Len(s)
  PROVE  /\ SubSeq(s, m, n) \in Seq(Objects)
         /\ Len(SubSeq(s, m, n)) = IF m <= n THEN n - m + 1 ELSE 0
         /\ \A i \in 1 .. n - m + 1 : SubSeq(s, m, n)[i] = s[m + i - 1]
<1>1. Len(s) \in Nat /\ s \in [1 .. Len(s) -> Objects]
  BY LenProperties
<1>2. m \in Int /\ n \in Int /\ \A i \in m .. n : s[i] \in Objects
  BY <1>1
<1> QED  BY <1>2, SubSeqProperties

\* An object that was not there is put in, one that was is taken out: each is still there once.
LEMMA OrderingGrows ==
  ASSUME NEW s \in Walk!Orderings, NEW o \in Objects, \A k \in 1 .. Len(s) : s[k] # o, NEW i \in 1 .. Len(s) + 1
  PROVE  Walk!InsertAt(s, i, o) \in Walk!Orderings
<1> DEFINE before == SubSeq(s, 1, i - 1)
           after == SubSeq(s, i, Len(s))
           there == before \o <<o>>
           grown == there \o after
<1>1. s \in Seq(Objects) /\ Len(s) \in Nat /\ \A a, b \in 1 .. Len(s) : s[a] = s[b] => a = b
  BY OrderingIs, LenProperties
<1>2. /\ before \in Seq(Objects) /\ Len(before) = i - 1 /\ \A k \in 1 .. i - 1 : before[k] = s[k]
      /\ after \in Seq(Objects) /\ Len(after) = Len(s) - i + 1
      /\ \A k \in 1 .. Len(s) - i + 1 : after[k] = s[i + k - 1]
  <2>1. 1 \in 1 .. Len(s) + 1 /\ i - 1 \in 0 .. Len(s) /\ Len(s) \in 0 .. Len(s)
    BY <1>1
  <2> QED  BY <1>1, <2>1, PartIs
<1> HIDE DEF before, after
<1>3. <<o>> \in Seq(Objects) /\ Len(<<o>>) = 1 /\ <<o>>[1] = o
  OBVIOUS
<1>4. /\ there \in Seq(Objects) /\ Len(there) = i
      /\ \A k \in 1 .. i : there[k] = IF k < i THEN s[k] ELSE o
  <2>1. /\ there \in Seq(Objects) /\ Len(there) = Len(before) + Len(<<o>>)
        /\ \A k \in 1 .. Len(before) + Len(<<o>>) :
             there[k] = IF k <= Len(before) THEN before[k] ELSE <<o>>[k - Len(before)]
    BY <1>2, <1>3, ConcatProperties
  <2> HIDE DEF there
  <2>2. Len(there) = i
    BY <1>1, <1>2, <1>3, <2>1
  <2>3. ASSUME NEW k \in 1 .. i PROVE there[k] = IF k < i THEN s[k] ELSE o
    <3>1. there[k] = IF k <= i - 1 THEN before[k] ELSE <<o>>[k - (i - 1)]
      <4>1. k \in 1 .. Len(before) + Len(<<o>>) /\ Len(before) = i - 1
        BY <1>1, <1>2, <1>3
      <4> QED  BY <2>1, <4>1
    <3>2. k < i => k \in 1 .. i - 1 /\ k <= i - 1
      BY <1>1
    <3>3. ~(k < i) => ~(k <= i - 1) /\ k - (i - 1) = 1
      BY <1>1
    <3> QED  BY <1>2, <1>3, <3>1, <3>2, <3>3
  <2> QED  BY <2>1, <2>2, <2>3
<1> HIDE DEF there
<1>5. /\ grown \in Seq(Objects) /\ Len(grown) = Len(s) + 1
      /\ \A k \in 1 .. Len(s) + 1 : grown[k] = IF k < i THEN s[k] ELSE IF k = i THEN o ELSE s[k - 1]
  <2>1. /\ grown \in Seq(Objects) /\ Len(grown) = Len(there) + Len(after)
        /\ \A k \in 1 .. Len(there) + Len(after) :
             grown[k] = IF k <= Len(there) THEN there[k] ELSE after[k - Len(there)]
    BY <1>2, <1>4, ConcatProperties, ZenonT(40)
  <2> HIDE DEF grown
  <2>2. Len(grown) = Len(s) + 1
    BY <1>1, <1>2, <1>4, <2>1
  <2>3. ASSUME NEW k \in 1 .. Len(s) + 1
        PROVE  grown[k] = IF k < i THEN s[k] ELSE IF k = i THEN o ELSE s[k - 1]
    <3>1. grown[k] = IF k <= i THEN there[k] ELSE after[k - i]
      BY <1>1, <1>2, <1>4, <2>1
    <3>2. ~(k <= i) => k - i \in 1 .. Len(s) - i + 1 /\ i + (k - i) - 1 = k - 1
      BY <1>1
    <3>3. k <= i => k \in 1 .. i
      BY <1>1
    <3>4. ~(k <= i) => grown[k] = s[k - 1] /\ ~(k < i) /\ k # i
      BY <1>2, <3>1, <3>2, SMTT(20)
    <3> QED  BY <1>4, <3>1, <3>3, <3>4
  <2> QED  BY <2>1, <2>2, <2>3
<1>6. Walk!InsertAt(s, i, o) = grown
  BY DEF Walk!InsertAt, grown, there, before, after
<1> HIDE DEF grown
<1>7. ASSUME NEW a \in 1 .. Len(grown), NEW b \in 1 .. Len(grown), grown[a] = grown[b] PROVE a = b
  <2> DEFINE from(k) == IF k < i THEN k ELSE k - 1
  <2>1. ASSUME NEW k \in 1 .. Len(s) + 1 PROVE k # i => from(k) \in 1 .. Len(s) /\ grown[k] = s[from(k)]
    BY <1>1, <1>5
  <2>2. a = i \/ b = i => a = b
    BY <1>5, <1>7, <2>1
  <2>3. a # i /\ b # i => from(a) = from(b)
    BY <1>1, <1>5, <1>7, <2>1
  <2> QED  BY <1>1, <1>5, <2>2, <2>3
<1> QED  BY <1>5, <1>6, <1>7, OrderingIs

LEMMA OrderingShrinks ==
  ASSUME NEW s \in Walk!Orderings, NEW i \in 1 .. Len(s)
  PROVE  Walk!RemoveAt(s, i) \in Walk!Orderings
<1> DEFINE before == SubSeq(s, 1, i - 1)
           after == SubSeq(s, i + 1, Len(s))
           less == before \o after
<1>1. s \in Seq(Objects) /\ Len(s) \in Nat /\ \A a, b \in 1 .. Len(s) : s[a] = s[b] => a = b
  BY OrderingIs, LenProperties
<1>2. /\ before \in Seq(Objects) /\ Len(before) = i - 1 /\ \A k \in 1 .. i - 1 : before[k] = s[k]
      /\ after \in Seq(Objects) /\ Len(after) = Len(s) - i
      /\ \A k \in 1 .. Len(s) - i : after[k] = s[i + k]
  <2>1. 1 \in 1 .. Len(s) + 1 /\ i - 1 \in 0 .. Len(s) /\ i + 1 \in 1 .. Len(s) + 1 /\ Len(s) \in 0 .. Len(s)
    BY <1>1
  <2>2. \A k \in 1 .. Len(s) - i : k \in 1 .. Len(s) - (i + 1) + 1 /\ i + 1 + k - 1 = i + k
    BY <1>1
  <2> QED  BY <1>1, <2>1, <2>2, PartIs
<1> HIDE DEF before, after
<1>3. /\ less \in Seq(Objects) /\ Len(less) = Len(s) - 1
      /\ \A k \in 1 .. Len(s) - 1 : less[k] = IF k < i THEN s[k] ELSE s[k + 1]
  <2>1. /\ less \in Seq(Objects) /\ Len(less) = Len(before) + Len(after)
        /\ \A k \in 1 .. Len(before) + Len(after) :
             less[k] = IF k <= Len(before) THEN before[k] ELSE after[k - Len(before)]
    BY <1>2, ConcatProperties
  <2> HIDE DEF less
  <2>2. Len(less) = Len(s) - 1
    BY <1>1, <1>2, <2>1
  <2>3. ASSUME NEW k \in 1 .. Len(s) - 1 PROVE less[k] = IF k < i THEN s[k] ELSE s[k + 1]
    <3>1. less[k] = IF k <= i - 1 THEN before[k] ELSE after[k - (i - 1)]
      BY <1>1, <1>2, <2>1
    <3>2. k < i => k <= i - 1 /\ k \in 1 .. i - 1
      BY <1>1
    <3>3. ~(k < i) => ~(k <= i - 1) /\ k - (i - 1) \in 1 .. Len(s) - i /\ i + (k - (i - 1)) = k + 1
      BY <1>1
    <3>4. ~(k < i) => less[k] = s[k + 1]
      BY <1>2, <3>1, <3>3
    <3> QED  BY <1>2, <3>1, <3>2, <3>4
  <2> QED  BY <2>1, <2>2, <2>3
<1>4. Walk!RemoveAt(s, i) = less
  BY DEF Walk!RemoveAt, less, before, after
<1> HIDE DEF less
<1>5. ASSUME NEW a \in 1 .. Len(less), NEW b \in 1 .. Len(less), less[a] = less[b] PROVE a = b
  <2> DEFINE from(k) == IF k < i THEN k ELSE k + 1
  <2>1. ASSUME NEW k \in 1 .. Len(s) - 1 PROVE from(k) \in 1 .. Len(s) /\ less[k] = s[from(k)]
    BY <1>1, <1>3
  <2>2. from(a) = from(b)
    <3>1. from(a) \in 1 .. Len(s) /\ from(b) \in 1 .. Len(s) /\ s[from(a)] = s[from(b)]
      BY <1>3, <1>5, <2>1
    <3> HIDE DEF from
    <3> QED  BY <1>1, <3>1
  <2> QED  BY <1>1, <1>3, <2>2
<1> QED  BY <1>3, <1>4, <1>5, OrderingIs

LEMMA PageTimes ==
  ASSUME NEW a \in Nat, NEW b \in Nat
  PROVE  a * b \in Nat /\ (a + 1) * b = a * b + b
  OBVIOUS

\* The walk's types, and where it is.
LEMMA WalkTypes ==
  ASSUME WalkInv
  PROVE  /\ collection \in Seq(Objects) /\ Len(collection) \in Nat /\ items \in Seq(Objects) /\ Len(items) \in Nat
         /\ page \in Nat /\ Stride \in Nat /\ page * Stride \in Nat /\ (page + 1) * Stride = page * Stride + Stride
         /\ server.cap \in Nat /\ 1 <= server.cap /\ server.cap <= Stride
         /\ server.beyond \in Nat /\ server.declares \in BOOLEAN /\ changes \in Nat
<1>1. collection \in Seq(Objects) /\ items \in Seq(Objects) /\ page \in 0 .. MaxPages /\ server \in Server
      /\ changes \in Nat
  BY OrderingIs DEF WalkInv, Walk!TypeOK
<1>2. /\ server.cap \in Nat /\ 1 <= server.cap /\ server.cap <= Size /\ server.beyond \in Nat
      /\ server.declares \in BOOLEAN
  BY <1>1, PageNumbers DEF Server
<1>3. Stride \in Nat /\ server.cap <= Stride
  BY <1>2, PageNumbers DEF Stride
<1>4. page \in Nat /\ Len(collection) \in Nat /\ Len(items) \in Nat
  BY <1>1, PageNumbers, LenProperties
<1>5. page * Stride \in Nat /\ (page + 1) * Stride = page * Stride + Stride
  BY <1>3, <1>4, PageTimes
<1> QED  BY <1>1, <1>2, <1>3, <1>4, <1>5

\* The page that is read now: none is left, or it begins where the pages before it ended.
LEMMA ChunkIs ==
  ASSUME WalkInv
  PROVE  /\ page * Stride >= Len(collection) => Walk!PageAt(page) = <<>>
         /\ page * Stride < Len(collection) =>
              \E last \in page * Stride + 1 .. Len(collection) :
                /\ last = IF page * Stride + server.cap < Len(collection) THEN page * Stride + server.cap
                                                                          ELSE Len(collection)
                /\ Walk!PageAt(page) = SubSeq(collection, page * Stride + 1, last)
<1> DEFINE first == page * Stride
           last == IF first + server.cap < Len(collection) THEN first + server.cap ELSE Len(collection)
<1>1. /\ first \in Nat /\ Len(collection) \in Nat /\ server.cap \in Nat /\ 1 <= server.cap
      /\ collection \in Seq(Objects)
  BY WalkTypes
<1>2. Walk!PageAt(page) = SubSeq(collection, first + 1, last)
  BY DEF Walk!PageAt, Stride
<1> HIDE DEF first
<1>3. first >= Len(collection) => Walk!PageAt(page) = <<>>
  <2>1. first >= Len(collection) => last \in Int /\ first + 1 \in Int /\ last < first + 1
    BY <1>1
  <2> HIDE DEF last
  <2> QED  BY <1>2, <2>1, SubSeqEmpty
<1>4. first < Len(collection) => last \in first + 1 .. Len(collection)
  BY <1>1
<1> QED  BY <1>2, <1>3, <1>4 DEF first

LEMMA WalkInit == Walk!Init => WalkInv
<1> SUFFICES ASSUME Walk!Init PROVE WalkInv
  OBVIOUS
<1>1. Walk!TypeOK /\ server \in Server /\ changes \in Nat
  BY PageNumbers, EmptySeq DEF Walk!Init, Walk!TypeOK, Server
<1>2. collection \in Seq(Objects) /\ Len(collection) \in Nat /\ Stride \in Nat
  BY <1>1, OrderingIs, LenProperties, PageNumbers DEF Walk!TypeOK, Server, Stride
<1>3. items = <<>> /\ Len(items) = 0 /\ page = 0 /\ pc = "read"
  BY DEF Walk!Init
<1>4. Passed = 0
  <2>1. PagesRead = 0 /\ 0 * Stride = 0
    BY <1>2, <1>3 DEF PagesRead
  <2> QED  BY <1>2, <2>1 DEF Passed
<1>5. SubSeq(collection, 1, 0) = <<>>
  BY SubSeqEmpty
<1>6. Straight
  BY <1>3, <1>4, <1>5 DEF Straight
<1> QED  BY <1>1, <1>6 DEF WalkInv

\* The collection changes.
LEMMA CollectionChanges ==
  ASSUME WalkInv, NEW i, NEW o \in Objects, Walk!Grows(o, i) \/ Walk!Shrinks(i)
  PROVE  WalkInv'
<1>1. changes \in Nat /\ changes' = changes + 1 /\ collection \in Walk!Orderings
  BY DEF WalkInv, Walk!TypeOK, Walk!Grows, Walk!Shrinks
<1>2. collection' \in Walk!Orderings
  <2>1. DOMAIN collection = 1 .. Len(collection)
    BY <1>1, OrderingIs, LenProperties
  <2>2. CASE Walk!Grows(o, i)
    <3>1. i \in 1 .. Len(collection) + 1 /\ o \notin Walk!Range(collection)
          /\ collection' = Walk!InsertAt(collection, i, o)
      BY <2>2 DEF Walk!Grows
    <3>2. \A k \in 1 .. Len(collection) : collection[k] # o
      BY <2>1, <3>1 DEF Walk!Range
    <3> QED  BY <1>1, <3>1, <3>2, OrderingGrows
  <2>3. CASE Walk!Shrinks(i)
    BY <1>1, <2>3, OrderingShrinks DEF Walk!Shrinks
  <2> QED  BY <2>2, <2>3
<1>3. Walk!TypeOK' /\ (server \in Server)'
  BY <1>2 DEF WalkInv, Walk!TypeOK, Walk!Grows, Walk!Shrinks
<1>4. Straight' /\ (changes \in Nat)'
  BY <1>1 DEF Straight
<1> QED  BY <1>3, <1>4 DEF WalkInv

\* One more page is read.
LEMMA PageIsRead ==
  ASSUME WalkInv, Walk!Reads
  PROVE  WalkInv'
<1> DEFINE first == page * Stride
           all == Len(collection)
<1>1. /\ collection \in Seq(Objects) /\ all \in Nat /\ items \in Seq(Objects) /\ Len(items) \in Nat
      /\ page \in Nat /\ Stride \in Nat /\ first \in Nat /\ (page + 1) * Stride = first + Stride
      /\ server.cap \in Nat /\ 1 <= server.cap /\ server.cap <= Stride
      /\ server.beyond \in Nat /\ server.declares \in BOOLEAN /\ changes \in Nat
  BY WalkTypes
<1>2. /\ pc = "read" /\ pc' = "judge" /\ page' = page /\ collection' = collection /\ server' = server
      /\ changes' = changes /\ chunk' = Walk!PageAt(page) /\ items' = items \o chunk'
      /\ total' = IF server.declares THEN all + server.beyond ELSE Walk!NoTotal
  BY DEF Walk!Reads
<1>3. Passed = IF first < all THEN first ELSE all
  BY <1>2 DEF Passed, PagesRead
<1>4. Passed' = IF first + Stride < all THEN first + Stride ELSE all
  BY <1>1, <1>2 DEF Passed, PagesRead, Stride
<1>5. /\ first >= all => chunk' = <<>>
      /\ first < all =>
           \E last \in first + 1 .. all :
             /\ last = IF first + server.cap < all THEN first + server.cap ELSE all
             /\ chunk' = SubSeq(collection, first + 1, last)
  BY <1>2, ChunkIs
<1> HIDE DEF first
<1>6. chunk' \in Seq(Objects) /\ Len(chunk') \in Nat
  <2>1. CASE first >= all
    BY <1>1, <1>5, <2>1, EmptySeq
  <2>2. CASE first < all
    <3>1. PICK last \in first + 1 .. all : chunk' = SubSeq(collection, first + 1, last)
      BY <1>5, <2>2
    <3>2. first + 1 \in 1 .. all + 1 /\ last \in 0 .. all
      BY <1>1, <2>2, <3>1
    <3> QED  BY <1>1, <3>1, <3>2, PartIs, LenProperties
  <2> QED  BY <1>1, <2>1, <2>2
<1>7. items' \in Seq(Objects) /\ Len(items') = Len(items) + Len(chunk')
  BY <1>1, <1>2, <1>6, ConcatProperties
<1>8. Walk!TypeOK' /\ (server \in Server)' /\ (changes \in Nat)'
  <2>1. total' \in Nat \cup {Walk!NoTotal} /\ Len(items') >= Len(chunk')
    BY <1>1, <1>2, <1>6, <1>7
  <2> QED  BY <1>2, <1>6, <1>7, <2>1 DEF WalkInv, Walk!TypeOK
<1>9. ASSUME changes = 0
      PROVE  Len(items') <= Passed' /\ (Len(items') = Passed' => items' = SubSeq(collection, 1, Passed'))
  <2>1. Len(items) <= Passed /\ (Len(items) = Passed => items = SubSeq(collection, 1, Passed))
    BY <1>9 DEF WalkInv, Straight
  <2>2. CASE first >= all
    <3>1. Passed = all /\ Passed' = all /\ items' = items
      BY <1>1, <1>2, <1>3, <1>4, <1>5, <2>2, ConcatEmptySeq
    <3> QED  BY <2>1, <3>1
  <2>3. CASE first < all
    <3>1. PICK last \in first + 1 .. all :
            /\ last = IF first + server.cap < all THEN first + server.cap ELSE all
            /\ chunk' = SubSeq(collection, first + 1, last)
      BY <1>5, <2>3
    <3> HIDE DEF all
    <3>2. Len(chunk') = last - first
      <4>1. first \in Nat /\ all \in Nat /\ last \in first + 1 .. all
        BY <1>1, <3>1
      <4>2. first + 1 \in 1 .. all + 1 /\ last \in 0 .. all
        BY <2>3, <4>1
      <4>3. first + 1 <= last /\ last - (first + 1) + 1 = last - first
        BY <4>1
      <4> QED  BY <1>1, <3>1, <4>2, <4>3, PartIs DEF all
    <3>3. Passed = first /\ last <= Passed' /\ last \in Nat
      <4>1. Passed = first
        BY <1>3, <2>3
      <4>2. last \in Nat
        BY <1>1, <3>1
      <4>3. last <= first + server.cap /\ last <= all
        BY <1>1, <3>1
      <4>4. last <= Passed'
        BY <1>1, <1>4, <4>2, <4>3
      <4> QED  BY <4>1, <4>2, <4>4
    <3>4. Len(items') <= Passed'
      BY <1>1, <1>4, <1>7, <2>1, <3>2, <3>3
    <3>5. Len(items') = Passed' => Len(items) = first /\ last = Passed'
      BY <1>1, <1>4, <1>7, <2>1, <3>2, <3>3
    <3>6. SubSeq(collection, 1, first) \o SubSeq(collection, first + 1, last) = SubSeq(collection, 1, last)
      <4>1. 1 \in 1 .. all + 1 /\ first \in 1 - 1 .. all /\ last \in first .. all
        BY <1>1, <2>3, <3>1
      <4> QED  BY <1>1, <4>1, ConcatAdjacentSubSeq
    <3> QED  BY <1>2, <2>1, <3>1, <3>3, <3>4, <3>5, <3>6
  <2> QED  BY <1>1, <2>2, <2>3
<1>10. Straight'
  BY <1>2, <1>9 DEF Straight
<1> QED  BY <1>8, <1>10 DEF WalkInv

\* The walk goes on to the next page or ends.
LEMMA WalkGoesOn ==
  ASSUME WalkInv, Walk!GoesOn \/ Walk!Returns \/ Walk!Refuses
  PROVE  WalkInv'
<1>1. /\ pc = "judge" /\ collection' = collection /\ server' = server /\ changes' = changes /\ items' = items
      /\ chunk' = chunk /\ total' = total
  BY DEF Walk!GoesOn, Walk!Returns, Walk!Refuses
<1>2. PagesRead' = PagesRead /\ pc' # "judge"
  BY <1>1 DEF Walk!GoesOn, Walk!Returns, Walk!Refuses, PagesRead
<1>3. page' \in 0 .. MaxPages
  BY PageNumbers DEF WalkInv, Walk!TypeOK, Walk!GoesOn, Walk!Returns, Walk!Refuses
<1>4. pc' \in {"read", "returned", "refused"} /\ (pc' = "returned" /\ total # Walk!NoTotal => Len(items) = total)
  BY DEF Walk!GoesOn, Walk!Returns, Walk!Refuses
<1>5. Walk!TypeOK' /\ (server \in Server)' /\ (changes \in Nat)'
  BY <1>1, <1>3, <1>4 DEF WalkInv, Walk!TypeOK
<1>6. Passed' = Passed
  BY <1>1, <1>2 DEF Passed, Stride
<1>7. Straight'
  BY <1>1, <1>6 DEF WalkInv, Straight
<1> QED  BY <1>5, <1>7 DEF WalkInv

LEMMA WalkRests ==
  ASSUME WalkInv, UNCHANGED paging
  PROVE  WalkInv'
<1>1. Straight' /\ Walk!TypeOK' /\ (server \in Server)' /\ (changes \in Nat)'
  BY DEF paging, WalkInv, Walk!TypeOK, Straight, Passed, PagesRead, Stride
<1> QED  BY <1>1 DEF WalkInv

LEMMA WalkNext ==
  ASSUME WalkInv, Walk!Next
  PROVE  WalkInv'
<1>1. ASSUME NEW i, Walk!Shrinks(i) PROVE WalkInv'
  <2>1. Objects # {}
    <3>1. collection \in Seq(Objects) /\ i \in 1 .. Len(collection)
      BY <1>1, WalkTypes DEF Walk!Shrinks
    <3> QED  BY <3>1, ElementOfSeq
  <2> QED  BY <1>1, <2>1, CollectionChanges
<1>2. ASSUME NEW i, NEW o \in Objects, Walk!Grows(o, i) PROVE WalkInv'
  BY <1>2, CollectionChanges
<1>3. CASE Walk!Reads
  BY <1>3, PageIsRead
<1>4. CASE Walk!GoesOn \/ Walk!Returns \/ Walk!Refuses
  BY <1>4, WalkGoesOn
<1>5. CASE Walk!Ends
  BY <1>5, WalkRests DEF Walk!Ends, Walk!vars, paging
<1> QED  BY <1>1, <1>2, <1>3, <1>4, <1>5, Zenon DEF Walk!Next

LEMMA WalkWholeWhenStill == WalkInv => Walk!WholeWhenStill
<1> SUFFICES ASSUME WalkInv, pc = "returned", changes = 0, server.declares PROVE items = collection
  BY DEF Walk!WholeWhenStill
<1>1. collection \in Seq(Objects) /\ Len(collection) \in Nat /\ Len(items) \in Nat /\ server.beyond \in Nat
  BY WalkTypes
<1>2. total = Len(collection) + server.beyond /\ Len(items) <= Passed
      /\ (Len(items) = Passed => items = SubSeq(collection, 1, Passed))
  BY DEF WalkInv, Straight
<1>3. Len(items) = total
  BY <1>1, <1>2 DEF WalkInv, Walk!TypeOK, Walk!NoTotal
<1>4. Passed <= Len(collection) /\ (Passed = Len(collection) \/ Passed < Len(collection))
  <2>1. Stride \in Nat /\ page \in Nat /\ (page + 1) * Stride = page * Stride + Stride /\ page * Stride \in Nat
    BY WalkTypes
  <2> QED  BY <1>1, <2>1 DEF Passed, PagesRead
<1>5. Passed \in Int
  <2>1. Stride \in Nat /\ page \in Nat /\ (page + 1) * Stride = page * Stride + Stride /\ page * Stride \in Nat
    BY WalkTypes
  <2> QED  BY <1>1, <2>1 DEF Passed, PagesRead
<1>6. Passed = Len(collection) /\ Len(items) = Passed
  BY <1>1, <1>2, <1>3, <1>4, <1>5
<1> QED  BY <1>1, <1>2, <1>6, SubSeqFull

-----------------------------------------------------------------------------
(* Proofs about the writes. *)

WriteStages ==
  {"idle", "look", "ensure", "send", "confirm", "check", "again", "resend", "reconfirm", "expect",
   "finally", "delete", "gone", "goneByName", "done", "dead"}
Run == [pc : WriteStages, sent : 0 .. 2, made : Demos \cup {0}, failed : BOOLEAN, troubled : BOOLEAN]
WriteTypes ==
  /\ groups \subseteq Write!Group /\ late \subseteq Write!Group /\ demo \in [Demos -> Run] /\ faults \in 0 .. MaxFaults

LEMMA WriteNumbers ==
  /\ Demos \subseteq Nat \ {0} /\ 0 \notin Demos /\ MaxFaults \in Nat /\ 0 \in 0 .. MaxFaults
  /\ 0 \in 0 .. 2 /\ 1 \in 0 .. 2
  /\ \A n \in 0 .. 2 : n \in Nat /\ (n <= 1 => n + 1 \in 0 .. 2) /\ (n = 0 => n + 1 = 1) /\ n <= n + 1 /\ n + 1 >= 1
  BY ResilientAssumption DEF Write!EnsureAssumption

LEMMA WriteTypesAre ==
  WriteInv <=> WriteTypes /\ OwnerInv /\ \A d \in Demos : RunOK(d)
  BY DEF WriteInv, Write!TypeOK, WriteTypes, Run, WriteStages, Write!Trying, Write!Leaving, Write!Ended, Write!NoGroup,
     RunOK, Counted

LEMMA WriteTypesNext ==
  ASSUME WriteTypes', OwnerInv', (\A d \in Demos : RunOK(d))'
  PROVE  WriteInv'
<1>1. Write!TypeOK'
  BY DEF Write!TypeOK, WriteTypes, Run, WriteStages, Write!Trying, Write!Leaving, Write!Ended, Write!NoGroup,
     RunOK, Counted
<1> QED  BY <1>1 DEF WriteInv

LEMMA GroupIs == \A g \in Write!Group : g.by \in Demos /\ g.ok \in BOOLEAN
  BY DEF Write!Group

LEMMA WriteInit == Write!Init => WriteInv
<1> SUFFICES ASSUME Write!Init PROVE WriteInv
  OBVIOUS
<1>1. groups = {} /\ late = {} /\ demo = [d \in Demos |-> Write!Fresh] /\ faults = 0
  BY DEF Write!Init
<1>2. Write!Fresh \in Run /\ Write!Fresh.pc = "idle" /\ Write!Fresh.sent = 0 /\ Write!Fresh.made = 0
  BY WriteNumbers DEF Write!Fresh, Write!NoGroup, Run, WriteStages
<1> HIDE DEF Run
<1>3. WriteTypes
  BY <1>1, <1>2, WriteNumbers DEF WriteTypes
<1>4. OwnerInv
  BY <1>1, <1>2 DEF OwnerInv
<1>5. \A d \in Demos : RunOK(d)
  BY <1>1, <1>2 DEF RunOK, Counted, Honest, Settled, Removed
<1> QED  BY <1>3, <1>4, <1>5, WriteTypesAre

\* One run moves: what the others have is theirs, and no group goes but by a run that takes one for its own.
LEMMA RunMoves ==
  ASSUME WriteInv, NEW p \in Demos, NEW r \in Run, demo' = [demo EXCEPT ![p] = r],
         groups' \subseteq Write!Group, late' \subseteq Write!Group, faults' \in 0 .. MaxFaults,
         demo[p].sent <= r.sent, demo[p].made # 0 => r.made # 0, demo[p].failed => r.failed,
         demo[p].troubled => r.troubled,
         \A g \in groups' \ groups : g.by = p /\ r.sent >= 1,
         \A g \in late' \ late : g.by = p /\ r.sent >= 1 /\ r.failed /\ r.troubled,
         r.made = 0 => groups \subseteq groups',
         r.made # 0 => r.made = demo[p].made \/ demo[r.made].sent >= 1,
         Counted(r), Honest(p, r, groups'), Alone(p) => Settled(r, groups'), Quiet(p) => Removed(p, r, groups')
  PROVE  WriteInv'
<1>1. WriteTypes /\ OwnerInv /\ \A d \in Demos : RunOK(d)
  BY WriteTypesAre
<1> HIDE DEF Run
<1>2. demo' \in [Demos -> Run] /\ demo'[p] = r /\ \A e \in Demos \ {p} : demo'[e] = demo[e]
  BY <1>1 DEF WriteTypes
<1>3. \A e \in Demos : demo[e].sent \in Nat /\ demo'[e].sent \in Nat /\ demo[e].sent <= demo'[e].sent
      /\ (demo[e].made # 0 => demo'[e].made # 0) /\ (demo[e].failed => demo'[e].failed)
      /\ (demo[e].troubled => demo'[e].troubled) /\ demo[e].made \in Demos \cup {0} /\ demo'[e].made \in Demos \cup {0}
  <2>1. \A e \in Demos : demo[e] \in Run /\ demo'[e] \in Run
    BY <1>1, <1>2 DEF WriteTypes
  <2>2. \A s \in Run : s.sent \in Nat /\ s.made \in Demos \cup {0}
    BY WriteNumbers DEF Run
  <2> QED  BY <1>2, <2>1, <2>2
<1>4. WriteTypes'
  BY <1>2 DEF WriteTypes
<1>5. OwnerInv'
  <2>1. ASSUME NEW g \in groups' \cup late' PROVE demo'[g.by].sent >= 1
    <3>1. CASE g \in groups \cup late
      <4>1. g.by \in Demos /\ demo[g.by].sent >= 1
        BY <1>1, <3>1, GroupIs DEF WriteTypes, OwnerInv
      <4> QED  BY <1>3, <4>1
    <3>2. CASE g \notin groups \cup late
      BY <1>2, <2>1, <3>2
    <3> QED  BY <3>1, <3>2
  <2>2. ASSUME NEW g \in late' PROVE demo'[g.by].failed /\ demo'[g.by].troubled
    <3>1. CASE g \in late
      <4>1. g.by \in Demos /\ demo[g.by].failed /\ demo[g.by].troubled
        BY <1>1, <3>1, GroupIs DEF WriteTypes, OwnerInv
      <4> QED  BY <1>3, <4>1
    <3>2. CASE g \notin late
      BY <1>2, <2>2, <3>2
    <3> QED  BY <3>1, <3>2
  <2>3. ASSUME NEW d \in Demos, demo'[d].made # 0 PROVE demo'[demo'[d].made].sent >= 1
    <3>1. demo'[d].made \in Demos /\ demo[demo'[d].made].sent >= 1
      BY <1>1, <1>2, <1>3, <2>3 DEF OwnerInv
    <3> QED  BY <1>3, <3>1
  <2> QED  BY <2>1, <2>2, <2>3 DEF OwnerInv
<1>6. ASSUME NEW d \in Demos PROVE RunOK(d)'
  <2>1. CASE d = p
    <3>1. (Alone(d)' => Alone(d)) /\ (Quiet(d)' => Quiet(d))
      BY <1>2, <2>1 DEF Alone, Quiet
    <3> QED  BY <1>2, <2>1, <3>1 DEF RunOK
  <2>2. CASE d # p
    <3>1. demo'[d] = demo[d] /\ RunOK(d) /\ \A g \in groups' : g.by = d => g \in groups
      BY <1>1, <1>2, <2>2
    <3>2. Counted(demo'[d]) /\ Honest(d, demo'[d], groups')
      BY <3>1 DEF RunOK, Honest
    <3>3. Quiet(d)' => Quiet(d)
      BY <1>3 DEF Quiet
    <3>4. Alone(d)' => Alone(d) /\ groups \subseteq groups'
      <4>1. ASSUME Alone(d)' PROVE r.made = 0 /\ \A e \in Demos \ {d} : demo'[e].sent = 0 /\ demo'[e].made = 0
        BY <1>2, <2>2, <4>1 DEF Alone
      <4> QED  BY <1>3, <4>1 DEF Alone
    <3>5. (Alone(d)' => Settled(demo'[d], groups')) /\ (Quiet(d)' => Removed(d, demo'[d], groups'))
      BY <3>1, <3>3, <3>4 DEF RunOK, Settled, Removed
    <3> QED  BY <3>2, <3>5 DEF RunOK
  <2> QED  BY <2>1, <2>2
<1>7. (\A d \in Demos : RunOK(d))'
  BY <1>6
<1> QED  BY <1>4, <1>5, <1>7, WriteTypesNext

LEMMA LateLands ==
  ASSUME WriteInv, Write!LandsLate
  PROVE  WriteInv'
<1>1. WriteTypes /\ OwnerInv /\ \A d \in Demos : RunOK(d)
  BY WriteTypesAre
<1>2. PICK g \in late : groups' = groups \cup {g} /\ late' = late \ {g} /\ demo' = demo /\ faults' = faults
  BY DEF Write!LandsLate
<1>3. WriteTypes' /\ OwnerInv'
  BY <1>1, <1>2 DEF WriteTypes, OwnerInv
<1>4. ASSUME NEW d \in Demos PROVE RunOK(d)'
  <2>1. (demo[d].failed /\ demo[d].troubled) \/ g.by # d
    BY <1>1, <1>2 DEF OwnerInv
  <2>2. demo'[d] = demo[d] /\ (Alone(d)' => Alone(d)) /\ (Quiet(d)' => Quiet(d)) /\ RunOK(d)
    BY <1>1, <1>2 DEF Alone, Quiet
  <2>3. Honest(d, demo'[d], groups')
    BY <1>2, <2>1, <2>2 DEF RunOK, Honest
  <2>4. (Alone(d)' => Settled(demo'[d], groups')) /\ (Quiet(d)' => Removed(d, demo'[d], groups'))
    BY <1>2, <2>1, <2>2 DEF RunOK, Settled, Removed
  <2> QED  BY <2>2, <2>3, <2>4 DEF RunOK
<1>5. (\A d \in Demos : RunOK(d))'
  BY <1>4
<1> QED  BY <1>3, <1>5, WriteTypesNext

\* One run moves and changes nothing on the platform.
LEMMA RunReads ==
  ASSUME WriteInv, NEW p \in Demos, NEW r \in Run, demo' = [demo EXCEPT ![p] = r],
         groups' = groups, late' = late, faults' \in 0 .. MaxFaults,
         r.sent = demo[p].sent, r.made = demo[p].made \/ (r.made # 0 /\ demo[r.made].sent >= 1),
         demo[p].failed => r.failed, demo[p].troubled => r.troubled,
         Counted(r), Honest(p, r, groups), Alone(p) => Settled(r, groups), Quiet(p) => Removed(p, r, groups)
  PROVE  WriteInv'
<1>1. groups' \subseteq Write!Group /\ late' \subseteq Write!Group
  BY WriteTypesAre DEF WriteTypes
<1>2. demo[p].sent <= r.sent
  <2>1. r.sent \in Nat
    BY WriteNumbers DEF Run
  <2> QED  BY <2>1
<1>3. demo[p].made # 0 => r.made # 0
  OBVIOUS
<1> HIDE DEF Run
<1> QED  BY <1>1, <1>2, <1>3, RunMoves

\* Where a run is.
LEMMA RunIs ==
  ASSUME WriteInv, NEW p \in Demos
  PROVE  /\ demo \in [Demos -> Run] /\ demo[p] \in Run /\ demo[p].sent \in 0 .. 2 /\ demo[p].made \in Demos \cup {0}
         /\ demo[p].failed \in BOOLEAN /\ demo[p].troubled \in BOOLEAN /\ RunOK(p) /\ OwnerInv
         /\ groups \subseteq Write!Group /\ late \subseteq Write!Group /\ faults \in 0 .. MaxFaults
         /\ \A g \in groups : g.by \in Demos /\ g.by # 0 /\ demo[g.by].sent >= 1
<1>1. demo \in [Demos -> Run] /\ RunOK(p) /\ OwnerInv /\ groups \subseteq Write!Group /\ late \subseteq Write!Group
      /\ faults \in 0 .. MaxFaults
  BY WriteTypesAre DEF WriteTypes
<1>2. \A g \in groups : g.by \in Demos /\ g.by # 0 /\ demo[g.by].sent >= 1
  BY <1>1, GroupIs, WriteNumbers DEF OwnerInv
<1> QED  BY <1>1, <1>2 DEF Run

LEMMA WriteFaults ==
  ASSUME faults \in 0 .. MaxFaults, Write!Fault \/ UNCHANGED faults
  PROVE  faults' \in 0 .. MaxFaults
  BY WriteNumbers DEF Write!Fault

\* The run as each kind of step leaves it.
Turned(p, r, to) ==
  /\ r \in Run /\ demo' = [demo EXCEPT ![p] = r] /\ r.pc = to /\ r.sent = demo[p].sent
  /\ demo[p].failed => r.failed
  /\ demo[p].troubled => r.troubled

LEMMA GoesIs ==
  ASSUME demo \in [Demos -> Run], NEW p \in Demos, NEW to \in WriteStages, Write!Goes(p, to)
  PROVE  \E r : /\ Turned(p, r, to) /\ r.made = demo[p].made /\ r.failed = demo[p].failed
                /\ r.troubled = demo[p].troubled
<1> DEFINE r == [demo[p] EXCEPT !.pc = to]
<1>1. r \in Run /\ r.pc = to /\ r.sent = demo[p].sent /\ r.made = demo[p].made /\ r.failed = demo[p].failed
      /\ r.troubled = demo[p].troubled
  BY DEF Run
<1>2. demo' = [demo EXCEPT ![p] = r]
  BY DEF Write!Goes
<1> HIDE DEF r
<1> QED  BY <1>1, <1>2 DEF Turned

LEMMA GoesWithIs ==
  ASSUME demo \in [Demos -> Run], NEW p \in Demos, NEW to \in WriteStages, NEW fails \in BOOLEAN,
         demo' = [demo EXCEPT ![p].pc = to, ![p].failed = @ \/ fails]
  PROVE  \E r : /\ Turned(p, r, to) /\ r.made = demo[p].made /\ r.failed = (demo[p].failed \/ fails)
                /\ r.troubled = demo[p].troubled
<1> DEFINE b == demo[p].failed \/ fails
           r == [demo[p] EXCEPT !.pc = to, !.failed = b]
<1>1. b \in BOOLEAN /\ (demo[p].failed => b)
  OBVIOUS
<1>2. demo' = [demo EXCEPT ![p] = r]
  BY Zenon
<1>3. b = (demo[p].failed \/ fails)
  OBVIOUS
<1> HIDE DEF b
<1>4. r \in Run /\ r.pc = to /\ r.sent = demo[p].sent /\ r.made = demo[p].made /\ r.failed = b
      /\ r.troubled = demo[p].troubled
  BY <1>1 DEF Run
<1> HIDE DEF r
<1>5. Turned(p, r, to)
  BY <1>1, <1>2, <1>4 DEF Turned
<1> QED  BY <1>3, <1>4, <1>5, Zenon

LEMMA ReportsIs ==
  ASSUME demo \in [Demos -> Run], NEW p \in Demos, NEW to \in WriteStages, Write!GoesWith(p, to, TRUE)
  PROVE  \E r : Turned(p, r, to) /\ r.made = demo[p].made /\ r.failed /\ r.troubled = demo[p].troubled
<1>1. \E r : /\ Turned(p, r, to) /\ r.made = demo[p].made /\ r.failed = (demo[p].failed \/ TRUE)
             /\ r.troubled = demo[p].troubled
  BY GoesWithIs, Zenon DEF Write!GoesWith
<1> QED  BY <1>1, Zenon

LEMMA TakesIs ==
  ASSUME demo \in [Demos -> Run], NEW p \in Demos, NEW to \in WriteStages, NEW m \in Demos,
         demo' = [demo EXCEPT ![p].pc = to, ![p].made = m]
  PROVE  \E r : Turned(p, r, to) /\ r.made = m /\ r.failed = demo[p].failed /\ r.troubled = demo[p].troubled
<1> DEFINE r == [demo[p] EXCEPT !.pc = to, !.made = m]
<1>1. r \in Run /\ r.pc = to /\ r.sent = demo[p].sent /\ r.made = m /\ r.failed = demo[p].failed
      /\ r.troubled = demo[p].troubled
  BY DEF Run
<1>2. demo' = [demo EXCEPT ![p] = r]
  OBVIOUS
<1> HIDE DEF r
<1> QED  BY <1>1, <1>2 DEF Turned

LEMMA FailsIs ==
  ASSUME demo \in [Demos -> Run], NEW p \in Demos, NEW to \in WriteStages,
         demo' = [demo EXCEPT ![p].pc = to, ![p].failed = TRUE, ![p].troubled = TRUE]
  PROVE  \E r : Turned(p, r, to) /\ r.made = demo[p].made /\ r.failed /\ r.troubled
<1> DEFINE r == [demo[p] EXCEPT !.pc = to, !.failed = TRUE, !.troubled = TRUE]
<1>1. r \in Run /\ r.pc = to /\ r.sent = demo[p].sent /\ r.made = demo[p].made /\ r.failed = TRUE
      /\ r.troubled = TRUE
  BY DEF Run
<1>2. demo' = [demo EXCEPT ![p] = r]
  OBVIOUS
<1> HIDE DEF r
<1> QED  BY <1>1, <1>2 DEF Turned

\* Looking for the group before anything is sent.
LEMMA WriteBegins ==
  ASSUME WriteInv, NEW p \in Demos, Write!Starts(p) \/ Write!Looks(p)
  PROVE  WriteInv'
<1>1. /\ demo \in [Demos -> Run] /\ RunOK(p) /\ demo[p].failed \in BOOLEAN /\ faults \in 0 .. MaxFaults
      /\ \A g \in groups : g.by \in Demos /\ demo[g.by].sent >= 1
  BY RunIs
<1>2. groups' = groups /\ late' = late /\ faults' \in 0 .. MaxFaults /\ demo[p].pc \in {"idle", "look"}
  BY <1>1 DEF Write!Starts, Write!Looks, Write!Reads, Write!At
<1>3. demo[p].sent = 0 /\ demo[p].made = 0 /\ demo[p].sent <= 1
  BY <1>1, <1>2 DEF RunOK, Counted
<1>4. \E r, to : /\ Turned(p, r, to) /\ r.made = demo[p].made /\ r.troubled = demo[p].troubled
                 /\ to \in {"look", "ensure"} \/ (to = "done" /\ r.failed)
  <2>1. "look" \in WriteStages /\ "ensure" \in WriteStages /\ "done" \in WriteStages
    BY DEF WriteStages
  <2>2. Write!Goes(p, "look") \/ Write!Goes(p, "ensure") \/ Write!GoesWith(p, "done", TRUE)
    BY DEF Write!Starts, Write!Looks
  <2>3. CASE Write!Goes(p, "look")
    BY <1>1, <2>1, <2>3, GoesIs
  <2>4. CASE Write!Goes(p, "ensure")
    BY <1>1, <2>1, <2>4, GoesIs
  <2>5. CASE Write!GoesWith(p, "done", TRUE)
    <3>1. \E r : Turned(p, r, "done") /\ r.made = demo[p].made /\ r.failed /\ r.troubled = demo[p].troubled
      BY <1>1, <2>1, <2>5, ReportsIs, Zenon
    <3> QED  BY <3>1
  <2> QED  BY <2>2, <2>3, <2>4, <2>5
<1>5. PICK r, to : /\ Turned(p, r, to) /\ r.made = demo[p].made /\ r.troubled = demo[p].troubled
                   /\ to \in {"look", "ensure"} \/ (to = "done" /\ r.failed)
  BY <1>4, Zenon
<1> HIDE DEF Run
<1>6. \A g \in groups : g.by # p
  BY <1>1, <1>3
<1>7. Counted(r) /\ Honest(p, r, groups) /\ Settled(r, groups) /\ Removed(p, r, groups)
  BY <1>3, <1>5, <1>6 DEF Turned, Counted, Honest, Settled, Removed
<1> QED  BY <1>2, <1>5, <1>7, RunReads DEF Turned

LEMMA StagesAre ==
  /\ "look" \in WriteStages /\ "ensure" \in WriteStages /\ "send" \in WriteStages /\ "confirm" \in WriteStages
  /\ "check" \in WriteStages /\ "again" \in WriteStages /\ "resend" \in WriteStages /\ "reconfirm" \in WriteStages
  /\ "expect" \in WriteStages /\ "finally" \in WriteStages /\ "delete" \in WriteStages /\ "gone" \in WriteStages
  /\ "goneByName" \in WriteStages /\ "done" \in WriteStages /\ "dead" \in WriteStages
  BY DEF WriteStages

\* The first ensure.
LEMMA WriteEnsures ==
  ASSUME WriteInv, NEW p \in Demos, Write!Ensures(p)
  PROVE  WriteInv'
<1>1. /\ demo \in [Demos -> Run] /\ RunOK(p) /\ faults \in 0 .. MaxFaults /\ demo[p].pc = "ensure"
      /\ \A g \in groups : g.by \in Demos /\ g.by # 0 /\ demo[g.by].sent >= 1
  BY RunIs DEF Write!Ensures, Write!At
<1>2. groups' = groups /\ late' = late /\ faults' \in 0 .. MaxFaults
  BY <1>1 DEF Write!Ensures, Write!Reads
<1>3. demo[p].sent = 0 /\ demo[p].made = 0
  BY <1>1 DEF RunOK, Counted
<1>4. CASE Write!Goes(p, "send")
  <2>1. PICK r : /\ Turned(p, r, "send") /\ r.made = demo[p].made /\ r.failed = demo[p].failed
                 /\ r.troubled = demo[p].troubled
    BY <1>1, <1>4, GoesIs, StagesAre
  <2>2. Counted(r) /\ Honest(p, r, groups) /\ Settled(r, groups) /\ Removed(p, r, groups)
    BY <1>3, <2>1 DEF Turned, Counted, Honest, Settled, Removed
  <2> QED  BY <1>2, <2>1, <2>2, RunReads DEF Turned
<1>5. CASE \E g \in groups : demo' = [demo EXCEPT ![p].pc = "check", ![p].made = g.by]
  <2>1. PICK g \in groups : demo' = [demo EXCEPT ![p].pc = "check", ![p].made = g.by]
    BY <1>5
  <2>2. g.by \in Demos /\ g.by # 0 /\ demo[g.by].sent >= 1
    BY <1>1
  <2>3. PICK r : Turned(p, r, "check") /\ r.made = g.by /\ r.failed = demo[p].failed /\ r.troubled = demo[p].troubled
    BY <1>1, <2>1, <2>2, TakesIs, StagesAre
  <2>4. Counted(r) /\ Honest(p, r, groups) /\ Settled(r, groups) /\ Removed(p, r, groups)
    BY <1>3, <2>2, <2>3 DEF Turned, Counted, Honest, Settled, Removed
  <2> QED  BY <1>2, <2>2, <2>3, <2>4, RunReads DEF Turned
<1> QED  BY <1>4, <1>5 DEF Write!Ensures

\* The second ensure, and the check before it.
LEMMA WriteEnsuresAgain ==
  ASSUME WriteInv, NEW p \in Demos, Write!EnsuresAgain(p)
  PROVE  WriteInv'
<1>1. demo \in [Demos -> Run] /\ RunOK(p) /\ faults \in 0 .. MaxFaults /\ demo[p].pc = "again"
      /\ demo[p].sent \in 0 .. 2 /\ demo[p].failed \in BOOLEAN /\ groups \subseteq Write!Group
  BY RunIs DEF Write!EnsuresAgain, Write!At
<1>2. groups' = groups /\ late' = late /\ faults' \in 0 .. MaxFaults
  BY <1>1 DEF Write!EnsuresAgain, Write!Reads
<1>3. demo[p].sent <= 1 /\ demo[p].made # 0 /\ (Alone(p) => groups # {})
  BY <1>1 DEF RunOK, Counted, Settled
<1>4. CASE groups = {} /\ Write!Goes(p, "resend")
  <2>1. PICK r : /\ Turned(p, r, "resend") /\ r.made = demo[p].made /\ r.failed = demo[p].failed
                 /\ r.troubled = demo[p].troubled
    BY <1>1, <1>4, GoesIs, StagesAre
  <2>2. Counted(r) /\ Honest(p, r, groups) /\ ~Alone(p) /\ Removed(p, r, groups)
    BY <1>3, <1>4, <2>1 DEF Turned, Counted, Honest, Removed
  <2> QED  BY <1>2, <2>1, <2>2, RunReads DEF Turned
<1>5. CASE \E g \in groups : Write!GoesWith(p, "expect", ~g.ok \/ demo[p].sent # 1)
  <2>1. PICK g \in groups : Write!GoesWith(p, "expect", ~g.ok \/ demo[p].sent # 1)
    BY <1>5
  <2> DEFINE fails == ~g.ok \/ demo[p].sent # 1
  <2>2. fails \in BOOLEAN /\ (demo[p].sent # 1 => fails)
    OBVIOUS
  <2>3. demo' = [demo EXCEPT ![p].pc = "expect", ![p].failed = @ \/ fails]
    BY <2>1, Zenon DEF Write!GoesWith
  <2> HIDE DEF fails
  <2>4. \E r : /\ Turned(p, r, "expect") /\ r.made = demo[p].made /\ r.failed = (demo[p].failed \/ fails)
               /\ r.troubled = demo[p].troubled
    <3>1. demo \in [Demos -> Run] /\ p \in Demos /\ "expect" \in WriteStages
      BY <1>1, StagesAre
    <3> QED  BY <2>2, <2>3, <3>1, GoesWithIs, Zenon
  <2>5. PICK r : /\ Turned(p, r, "expect") /\ r.made = demo[p].made /\ r.failed = (demo[p].failed \/ fails)
                 /\ r.troubled = demo[p].troubled
    BY <2>4, Zenon
  <2>6. ~r.failed => demo[p].sent = 1
    BY <2>2, <2>5, Zenon
  <2>7. Counted(r) /\ Honest(p, r, groups) /\ (Alone(p) => Settled(r, groups)) /\ Removed(p, r, groups)
    BY <1>3, <2>5, <2>6 DEF Turned, Counted, Honest, Settled, Removed
  <2> QED  BY <1>2, <2>5, <2>7, RunReads DEF Turned
<1> QED  BY <1>4, <1>5 DEF Write!EnsuresAgain

\* The re-read after a write.
LEMMA WriteConfirms ==
  ASSUME WriteInv, NEW p \in Demos, Write!Confirms(p)
  PROVE  WriteInv'
<1>1. /\ demo \in [Demos -> Run] /\ RunOK(p) /\ faults \in 0 .. MaxFaults /\ demo[p].pc \in {"confirm", "reconfirm"}
      /\ \A g \in groups : g.by \in Demos /\ g.by # 0 /\ demo[g.by].sent >= 1
  BY RunIs DEF Write!Confirms, Write!At
<1>2. groups' = groups /\ late' = late /\ faults' \in 0 .. MaxFaults
  BY <1>1 DEF Write!Confirms, Write!Reads
<1>3. /\ demo[p].pc = "confirm" => demo[p].sent <= 1
      /\ demo[p].pc = "reconfirm" => demo[p].made # 0
      /\ Alone(p) => demo[p].sent <= 1
  BY <1>1 DEF RunOK, Counted, Settled
<1>4. CASE Write!GoesWith(p, "finally", TRUE)
  <2>1. \E r : Turned(p, r, "finally") /\ r.made = demo[p].made /\ r.failed /\ r.troubled = demo[p].troubled
    BY <1>1, <1>4, ReportsIs, StagesAre, Zenon
  <2>2. PICK r : Turned(p, r, "finally") /\ r.made = demo[p].made /\ r.failed /\ r.troubled = demo[p].troubled
    BY <2>1
  <2>3. Counted(r) /\ Honest(p, r, groups) /\ (Alone(p) => Settled(r, groups)) /\ Removed(p, r, groups)
    BY <1>3, <2>2 DEF Turned, Counted, Honest, Settled, Removed
  <2> QED  BY <1>2, <2>2, <2>3, RunReads DEF Turned
<1>5. CASE \E g \in groups : demo[p].pc = "confirm" /\ demo' = [demo EXCEPT ![p].pc = "check", ![p].made = g.by]
  <2>1. PICK g \in groups : demo[p].pc = "confirm" /\ demo' = [demo EXCEPT ![p].pc = "check", ![p].made = g.by]
    BY <1>5
  <2>2. g.by \in Demos /\ g.by # 0 /\ demo[g.by].sent >= 1
    BY <1>1
  <2>3. PICK r : Turned(p, r, "check") /\ r.made = g.by /\ r.failed = demo[p].failed /\ r.troubled = demo[p].troubled
    BY <1>1, <2>1, <2>2, TakesIs, StagesAre
  <2>4. Counted(r) /\ Honest(p, r, groups) /\ (Alone(p) => Settled(r, groups)) /\ Removed(p, r, groups)
    BY <1>3, <2>1, <2>2, <2>3 DEF Turned, Counted, Honest, Settled, Removed
  <2> QED  BY <1>2, <2>2, <2>3, <2>4, RunReads DEF Turned
<1>6. CASE demo[p].pc = "reconfirm" /\ Write!GoesWith(p, "expect", TRUE)
  <2>1. \E r : Turned(p, r, "expect") /\ r.made = demo[p].made /\ r.failed /\ r.troubled = demo[p].troubled
    BY <1>1, <1>6, ReportsIs, StagesAre, Zenon
  <2>2. PICK r : Turned(p, r, "expect") /\ r.made = demo[p].made /\ r.failed /\ r.troubled = demo[p].troubled
    BY <2>1
  <2>3. Counted(r) /\ Honest(p, r, groups) /\ (Alone(p) => Settled(r, groups)) /\ Removed(p, r, groups)
    BY <1>3, <1>6, <2>2 DEF Turned, Counted, Honest, Settled, Removed
  <2> QED  BY <1>2, <2>2, <2>3, RunReads DEF Turned
<1> QED  BY <1>4, <1>5, <1>6, Zenon DEF Write!Confirms, Write!At

LEMMA WriteChecks ==
  ASSUME WriteInv, NEW p \in Demos, Write!ChecksById(p)
  PROVE  WriteInv'
<1>1. demo \in [Demos -> Run] /\ RunOK(p) /\ faults \in 0 .. MaxFaults /\ demo[p].pc = "check"
  BY RunIs DEF Write!ChecksById, Write!At
<1>2. groups' = groups /\ late' = late /\ faults' \in 0 .. MaxFaults
  BY <1>1 DEF Write!ChecksById, Write!Reads
<1>3. demo[p].sent <= 1 /\ demo[p].made # 0
  BY <1>1 DEF RunOK, Counted
<1>4. CASE groups # {} /\ Write!Goes(p, "again")
  <2>1. PICK r : /\ Turned(p, r, "again") /\ r.made = demo[p].made /\ r.failed = demo[p].failed
                 /\ r.troubled = demo[p].troubled
    BY <1>1, <1>4, GoesIs, StagesAre
  <2>2. Counted(r) /\ Honest(p, r, groups) /\ Settled(r, groups) /\ Removed(p, r, groups)
    BY <1>3, <1>4, <2>1 DEF Turned, Counted, Honest, Settled, Removed
  <2> QED  BY <1>2, <2>1, <2>2, RunReads DEF Turned
<1>5. CASE Write!GoesWith(p, "finally", TRUE)
  <2>1. \E r : Turned(p, r, "finally") /\ r.made = demo[p].made /\ r.failed /\ r.troubled = demo[p].troubled
    BY <1>1, <1>5, ReportsIs, StagesAre, Zenon
  <2>2. PICK r : Turned(p, r, "finally") /\ r.made = demo[p].made /\ r.failed /\ r.troubled = demo[p].troubled
    BY <2>1
  <2>3. Counted(r) /\ Honest(p, r, groups) /\ Settled(r, groups) /\ Removed(p, r, groups)
    BY <1>3, <2>2 DEF Turned, Counted, Honest, Settled, Removed
  <2> QED  BY <1>2, <2>2, <2>3, RunReads DEF Turned
<1>6. (groups # {} /\ Write!Goes(p, "again")) \/ Write!GoesWith(p, "finally", TRUE)
  BY Zenon DEF Write!ChecksById, Write!ById
<1> QED  BY <1>4, <1>5, <1>6

LEMMA WriteExpects ==
  ASSUME WriteInv, NEW p \in Demos, Write!Expects(p)
  PROVE  WriteInv'
<1>1. demo \in [Demos -> Run] /\ RunOK(p) /\ faults \in 0 .. MaxFaults /\ demo[p].pc = "expect"
      /\ demo[p].failed \in BOOLEAN
  BY RunIs DEF Write!Expects, Write!At
<1>2. groups' = groups /\ late' = late /\ faults' \in 0 .. MaxFaults
  BY <1>1 DEF Write!Expects, Write!Reads
<1>3. (~demo[p].failed => demo[p].sent = 1) /\ demo[p].made # 0 /\ (Alone(p) => demo[p].sent <= 1)
  BY <1>1 DEF RunOK, Counted, Honest, Settled
<1>4. \E fails \in BOOLEAN : demo' = [demo EXCEPT ![p].pc = "finally", ![p].failed = @ \/ fails]
  <2>1. TRUE \in BOOLEAN /\ FALSE \in BOOLEAN
    OBVIOUS
  <2> QED  BY <2>1, Zenon DEF Write!Expects, Write!GoesWith
<1>5. \E r : Turned(p, r, "finally") /\ r.made = demo[p].made /\ r.troubled = demo[p].troubled
  <2>1. demo \in [Demos -> Run] /\ p \in Demos /\ "finally" \in WriteStages
    BY <1>1, StagesAre
  <2>2. PICK fails \in BOOLEAN : demo' = [demo EXCEPT ![p].pc = "finally", ![p].failed = @ \/ fails]
    BY <1>4
  <2>3. \E r : /\ Turned(p, r, "finally") /\ r.made = demo[p].made /\ r.failed = (demo[p].failed \/ fails)
               /\ r.troubled = demo[p].troubled
    BY <2>1, <2>2, GoesWithIs, Zenon
  <2> QED  BY <2>3, Zenon
<1>6. PICK r : Turned(p, r, "finally") /\ r.made = demo[p].made /\ r.troubled = demo[p].troubled
  BY <1>5
<1>7. Counted(r) /\ Honest(p, r, groups) /\ (Alone(p) => Settled(r, groups)) /\ Removed(p, r, groups)
  BY <1>3, <1>6 DEF Turned, Counted, Honest, Settled, Removed
<1> QED  BY <1>2, <1>6, <1>7, RunReads DEF Turned

\* The finally clause.
LEMMA WriteLeaves ==
  ASSUME WriteInv, NEW p \in Demos, Write!Leaves(p)
  PROVE  WriteInv'
<1>1. /\ demo \in [Demos -> Run] /\ RunOK(p) /\ faults \in 0 .. MaxFaults /\ demo[p].pc = "finally"
      /\ \A g \in groups : g.by \in Demos /\ g.by # 0 /\ demo[g.by].sent >= 1
  BY RunIs DEF Write!Leaves, Write!At
<1>2. groups' = groups /\ late' = late /\ faults' \in 0 .. MaxFaults
  BY <1>1 DEF Write!Leaves, Write!Reads
<1>3. (~demo[p].failed => demo[p].sent = 1 /\ demo[p].made # 0) /\ (Alone(p) => demo[p].sent <= 1)
  BY <1>1 DEF RunOK, Honest, Settled
<1>4. CASE demo[p].made # 0 /\ Write!Goes(p, "delete")
  <2>1. PICK r : /\ Turned(p, r, "delete") /\ r.made = demo[p].made /\ r.failed = demo[p].failed
                 /\ r.troubled = demo[p].troubled
    BY <1>1, <1>4, GoesIs, StagesAre
  <2>2. Counted(r) /\ Honest(p, r, groups) /\ (Alone(p) => Settled(r, groups)) /\ Removed(p, r, groups)
    BY <1>3, <1>4, <2>1 DEF Turned, Counted, Honest, Settled, Removed
  <2> QED  BY <1>2, <2>1, <2>2, RunReads DEF Turned
<1>5. CASE demo[p].made = 0 /\ (demo[p].sent = 0 \/ groups = {}) /\ Write!Goes(p, "done")
  <2>1. PICK r : /\ Turned(p, r, "done") /\ r.made = demo[p].made /\ r.failed = demo[p].failed
                 /\ r.troubled = demo[p].troubled
    BY <1>1, <1>5, GoesIs, StagesAre
  <2>2. \A g \in groups : g.by # p
    BY <1>1, <1>5
  <2>3. Counted(r) /\ Honest(p, r, groups) /\ (Alone(p) => Settled(r, groups)) /\ Removed(p, r, groups)
    BY <1>3, <1>5, <2>1, <2>2 DEF Turned, Counted, Honest, Settled, Removed
  <2> QED  BY <1>2, <2>1, <2>3, RunReads DEF Turned
<1>6. CASE demo[p].made = 0 /\ \E g \in groups : demo' = [demo EXCEPT ![p].pc = "delete", ![p].made = g.by]
  <2>1. PICK g \in groups : demo' = [demo EXCEPT ![p].pc = "delete", ![p].made = g.by]
    BY <1>6
  <2>2. g.by \in Demos /\ g.by # 0 /\ demo[g.by].sent >= 1
    BY <1>1
  <2>3. PICK r : Turned(p, r, "delete") /\ r.made = g.by /\ r.failed = demo[p].failed /\ r.troubled = demo[p].troubled
    BY <1>1, <2>1, <2>2, TakesIs, StagesAre
  <2>4. Counted(r) /\ Honest(p, r, groups) /\ (Alone(p) => Settled(r, groups)) /\ Removed(p, r, groups)
    BY <1>3, <1>6, <2>2, <2>3 DEF Turned, Counted, Honest, Settled, Removed
  <2> QED  BY <1>2, <2>2, <2>3, <2>4, RunReads DEF Turned
<1> QED  BY <1>4, <1>5, <1>6, Zenon DEF Write!Leaves, Write!NoGroup

\* confirm_gone, by identifier and by name.
LEMMA WriteConfirmsGone ==
  ASSUME WriteInv, NEW p \in Demos, Write!ConfirmsGone(p)
  PROVE  WriteInv'
<1>1. /\ demo \in [Demos -> Run] /\ RunOK(p) /\ faults \in 0 .. MaxFaults /\ demo[p].pc \in {"gone", "goneByName"}
      /\ demo[p].failed \in BOOLEAN
  BY RunIs DEF Write!ConfirmsGone, Write!At
<1>2. groups' = groups /\ late' = late /\ faults' \in 0 .. MaxFaults
  BY <1>1 DEF Write!ConfirmsGone, Write!Reads
<1>3. /\ ~demo[p].failed => demo[p].sent = 1
      /\ Alone(p) => demo[p].sent <= 1
      /\ Quiet(p) /\ ~demo[p].troubled => \A g \in groups : g.by # p
  BY <1>1 DEF RunOK, Honest, Settled, Removed
<1>4. CASE Write!Goes(p, "goneByName")
  <2>1. PICK r : /\ Turned(p, r, "goneByName") /\ r.made = demo[p].made /\ r.failed = demo[p].failed
                 /\ r.troubled = demo[p].troubled
    BY <1>1, <1>4, GoesIs, StagesAre
  <2>2. Counted(r) /\ Honest(p, r, groups) /\ (Alone(p) => Settled(r, groups)) /\ (Quiet(p) => Removed(p, r, groups))
    BY <1>3, <2>1 DEF Turned, Counted, Honest, Settled, Removed
  <2> QED  BY <1>2, <2>1, <2>2, RunReads DEF Turned
<1>5. CASE Write!GoesWith(p, "done", TRUE)
  <2>1. \E r : Turned(p, r, "done") /\ r.made = demo[p].made /\ r.failed /\ r.troubled = demo[p].troubled
    BY <1>1, <1>5, ReportsIs, StagesAre, Zenon
  <2>2. PICK r : Turned(p, r, "done") /\ r.made = demo[p].made /\ r.failed /\ r.troubled = demo[p].troubled
    BY <2>1
  <2>3. Counted(r) /\ Honest(p, r, groups) /\ (Alone(p) => Settled(r, groups)) /\ (Quiet(p) => Removed(p, r, groups))
    BY <1>3, <2>2 DEF Turned, Counted, Honest, Settled, Removed
  <2> QED  BY <1>2, <2>2, <2>3, RunReads DEF Turned
<1>6. CASE Write!GoesWith(p, "done", groups # {})
  <2> DEFINE fails == groups # {}
  <2>1. fails \in BOOLEAN /\ (~fails => groups = {})
    OBVIOUS
  <2>2. demo' = [demo EXCEPT ![p].pc = "done", ![p].failed = @ \/ fails]
    BY <1>6, Zenon DEF Write!GoesWith
  <2> HIDE DEF fails
  <2>3. demo \in [Demos -> Run] /\ "done" \in WriteStages
    BY <1>1, StagesAre
  <2>4. \E r : /\ Turned(p, r, "done") /\ r.made = demo[p].made /\ r.failed = (demo[p].failed \/ fails)
               /\ r.troubled = demo[p].troubled
    BY <2>1, <2>2, <2>3, GoesWithIs, Zenon
  <2>5. PICK r : /\ Turned(p, r, "done") /\ r.made = demo[p].made /\ r.failed = (demo[p].failed \/ fails)
                 /\ r.troubled = demo[p].troubled
    BY <2>4, Zenon
  <2>6. ~r.failed => groups = {}
    BY <2>1, <2>5, Zenon
  <2>7. Counted(r) /\ Honest(p, r, groups) /\ (Alone(p) => Settled(r, groups)) /\ (Quiet(p) => Removed(p, r, groups))
    BY <1>3, <2>5, <2>6 DEF Turned, Counted, Honest, Settled, Removed
  <2> QED  BY <1>2, <2>5, <2>7, RunReads DEF Turned
<1> QED  BY <1>4, <1>5, <1>6, Zenon DEF Write!ConfirmsGone

\* A read fails, or the run dies.
LEMMA WriteStops ==
  ASSUME WriteInv, NEW p \in Demos, Write!ReadFails(p) \/ Write!Dies(p)
  PROVE  WriteInv'
<1>1. demo \in [Demos -> Run] /\ RunOK(p) /\ faults \in 0 .. MaxFaults
  BY RunIs
<1>2. groups' = groups /\ late' = late /\ faults' \in 0 .. MaxFaults
  BY <1>1, WriteFaults DEF Write!ReadFails, Write!Dies
<1>3. Alone(p) => demo[p].sent <= 1
  BY <1>1 DEF RunOK, Settled
<1>4. CASE Write!Dies(p)
  <2>1. PICK r : /\ Turned(p, r, "dead") /\ r.made = demo[p].made /\ r.failed = demo[p].failed
                 /\ r.troubled = demo[p].troubled
    BY <1>1, <1>4, GoesIs, StagesAre DEF Write!Dies
  <2>2. Counted(r) /\ Honest(p, r, groups) /\ (Alone(p) => Settled(r, groups)) /\ Removed(p, r, groups)
    BY <1>3, <2>1 DEF Turned, Counted, Honest, Settled, Removed
  <2> QED  BY <1>2, <2>1, <2>2, RunReads DEF Turned
<1>5. CASE Write!ReadFails(p)
  <2> DEFINE to == IF demo[p].pc \in Write!Trying THEN "finally" ELSE "done"
  <2>1. to \in {"finally", "done"} /\ to \in WriteStages
    BY StagesAre
  <2>2. demo' = [demo EXCEPT ![p].pc = to, ![p].failed = TRUE, ![p].troubled = TRUE]
    BY <1>5 DEF Write!ReadFails
  <2> HIDE DEF to
  <2>3. PICK r : Turned(p, r, to) /\ r.made = demo[p].made /\ r.failed /\ r.troubled
    BY <1>1, <2>1, <2>2, FailsIs
  <2>4. Counted(r) /\ Honest(p, r, groups) /\ (Alone(p) => Settled(r, groups)) /\ Removed(p, r, groups)
    BY <1>3, <2>1, <2>3 DEF Turned, Counted, Honest, Settled, Removed
  <2> QED  BY <1>2, <2>3, <2>4, RunReads DEF Turned
<1> QED  BY <1>4, <1>5

\* A write is sent, and answered or not.
LEMMA WriteSends ==
  ASSUME WriteInv, NEW p \in Demos, Write!Sends(p) \/ Write!SendFails(p)
  PROVE  WriteInv'
<1>1. /\ demo \in [Demos -> Run] /\ demo[p] \in Run /\ RunOK(p) /\ faults \in 0 .. MaxFaults
      /\ demo[p].sent \in 0 .. 2 /\ groups \subseteq Write!Group /\ late \subseteq Write!Group
  BY RunIs
<1>2. demo[p].pc \in {"send", "resend"} /\ faults' \in 0 .. MaxFaults
  BY <1>1, WriteFaults DEF Write!Sends, Write!SendFails, Write!At
<1>3. /\ demo[p].pc = "send" => demo[p].sent = 0 /\ demo[p].made = 0
      /\ demo[p].sent <= 1
      /\ demo[p].pc = "resend" => demo[p].made # 0
      /\ Alone(p) => demo[p].pc = "send"
  <2>1. /\ demo[p].pc = "send" => demo[p].sent = 0 /\ demo[p].made = 0
        /\ demo[p].pc = "resend" => demo[p].sent <= 1 /\ demo[p].made # 0
        /\ Alone(p) => demo[p].pc # "resend"
    BY <1>1, <1>2 DEF RunOK, Counted, Settled
  <2>2. demo[p].sent = 0 => demo[p].sent <= 1
    OBVIOUS
  <2> QED  BY <1>2, <2>1, <2>2
<1>4. /\ demo[p].sent + 1 \in 0 .. 2 /\ demo[p].sent <= demo[p].sent + 1 /\ demo[p].sent + 1 >= 1
      /\ (demo[p].sent = 0 => demo[p].sent + 1 = 1 /\ demo[p].sent + 1 <= 1)
  BY <1>1, <1>3, WriteNumbers
<1>5. \A ok \in BOOLEAN : [by |-> p, ok |-> ok] \in Write!Group /\ [by |-> p, ok |-> ok].by = p
  BY DEF Write!Group
<1>6. /\ groups' \subseteq Write!Group /\ \A g \in groups' \ groups : g.by = p
      /\ groups \subseteq groups'
      /\ late' \subseteq Write!Group /\ \A g \in late' \ late : g.by = p
      /\ Write!Sends(p) => late' = late
  <2>1. \/ groups' = groups \/ \E ok \in BOOLEAN : groups' = groups \cup {[by |-> p, ok |-> ok]}
    BY DEF Write!Sends, Write!SendFails
  <2>2. late' = late \/ (~Write!Sends(p) /\ late' = late \cup {[by |-> p, ok |-> TRUE]})
    BY DEF Write!Sends, Write!SendFails
  <2> QED  BY <1>1, <1>5, <2>1, <2>2
<1>7. CASE Write!Sends(p)
  <2> DEFINE to == IF demo[p].pc = "send" THEN "confirm" ELSE "reconfirm"
             r == [demo[p] EXCEPT !.pc = to, !.sent = demo[p].sent + 1]
  <2>1. demo' = [demo EXCEPT ![p] = r]
    BY <1>1, <1>7 DEF Write!Sends
  <2>2. to \in WriteStages /\ to \in {"confirm", "reconfirm"} /\ (to = "confirm" => demo[p].pc = "send")
        /\ (to = "reconfirm" => demo[p].pc = "resend")
    BY <1>2, StagesAre
  <2> HIDE DEF to
  <2>3. /\ r \in Run /\ r.pc = to /\ r.sent = demo[p].sent + 1 /\ r.made = demo[p].made
        /\ r.failed = demo[p].failed /\ r.troubled = demo[p].troubled
    BY <1>1, <1>4, <2>2 DEF Run
  <2> HIDE DEF r, Run
  <2>4. Counted(r) /\ Honest(p, r, groups') /\ (Alone(p) => Settled(r, groups')) /\ Removed(p, r, groups')
    BY <1>3, <1>4, <2>2, <2>3 DEF Counted, Honest, Settled, Removed
  <2> QED  BY <1>2, <1>4, <1>6, <1>7, <2>1, <2>3, <2>4, RunMoves
<1>8. CASE Write!SendFails(p)
  <2> DEFINE r == [demo[p] EXCEPT !.pc = "finally", !.sent = demo[p].sent + 1, !.failed = TRUE, !.troubled = TRUE]
  <2>1. demo' = [demo EXCEPT ![p] = r]
    BY <1>1, <1>8 DEF Write!SendFails
  <2>2. /\ r \in Run /\ r.pc = "finally" /\ r.sent = demo[p].sent + 1 /\ r.made = demo[p].made
        /\ r.failed = TRUE /\ r.troubled = TRUE
    BY <1>1, <1>4, StagesAre DEF Run
  <2> HIDE DEF r, Run
  <2>3. Counted(r) /\ Honest(p, r, groups') /\ (Alone(p) => Settled(r, groups')) /\ Removed(p, r, groups')
    BY <1>3, <1>4, <2>2 DEF Counted, Honest, Settled, Removed
  <2> QED  BY <1>2, <1>4, <1>6, <2>1, <2>2, <2>3, RunMoves
<1> QED  BY <1>7, <1>8

\* The delete, answered or not.  What a run that had the name to itself has for its own is what it sent.
LEMMA WriteDeletes ==
  ASSUME WriteInv, NEW p \in Demos, Write!Deletes(p) \/ Write!DeleteFails(p)
  PROVE  WriteInv'
<1>1. /\ demo \in [Demos -> Run] /\ RunOK(p) /\ faults \in 0 .. MaxFaults /\ demo[p].pc = "delete"
      /\ demo[p].made \in Demos \cup {0} /\ demo[p].sent \in 0 .. 2 /\ demo[p].failed \in BOOLEAN
      /\ groups \subseteq Write!Group /\ late \subseteq Write!Group /\ OwnerInv
  BY RunIs DEF Write!Deletes, Write!DeleteFails, Write!At
<1>2. late' = late /\ faults' \in 0 .. MaxFaults
  BY <1>1, WriteFaults DEF Write!Deletes, Write!DeleteFails
<1>3. demo[p].made # 0 /\ (~demo[p].failed => demo[p].sent = 1) /\ (Alone(p) => demo[p].sent <= 1)
  BY <1>1 DEF RunOK, Counted, Honest, Settled
<1>4. Quiet(p) => demo[p].made = p
  <2>1. demo[p].made \in Demos /\ demo[demo[p].made].sent >= 1
    BY <1>1, <1>3 DEF OwnerInv
  <2>2. demo[demo[p].made].sent # 0
    BY <2>1
  <2> QED  BY <2>1, <2>2 DEF Quiet
<1>5. demo[p].sent <= demo[p].sent
  BY <1>1
<1> DEFINE its == Write!ById(demo[p].made)
<1>6. its \subseteq groups /\ \A g \in groups : g \in its <=> g.by = demo[p].made
  BY DEF Write!ById
<1> HIDE DEF its
\* It is enough to say what becomes of the run and of the groups.
<1>7. ASSUME NEW r \in Run, demo' = [demo EXCEPT ![p] = r], r.sent = demo[p].sent, r.made = demo[p].made,
             demo[p].failed => r.failed, demo[p].troubled => r.troubled,
             groups' \in {groups, groups \ its}, r.pc \in {"gone", "done"}, r.pc = "done" => r.failed,
             Quiet(p) /\ ~r.troubled => \A g \in groups' : g.by # p
      PROVE  WriteInv'
  <2>1. groups' \subseteq groups
    BY <1>6, <1>7
  <2> HIDE DEF Run
  <2>2. Counted(r) /\ Honest(p, r, groups') /\ (Alone(p) => Settled(r, groups'))
        /\ (Quiet(p) => Removed(p, r, groups'))
    BY <1>3, <1>7 DEF Counted, Honest, Settled, Removed
  <2> QED  BY <1>1, <1>2, <1>3, <1>5, <1>7, <2>1, <2>2, RunMoves
<1>8. CASE its # {} /\ groups' = groups \ its /\ Write!Goes(p, "gone")
  <2>1. PICK r : /\ Turned(p, r, "gone") /\ r.made = demo[p].made /\ r.failed = demo[p].failed
                 /\ r.troubled = demo[p].troubled
    BY <1>1, <1>8, GoesIs, StagesAre
  <2>2. Quiet(p) => \A g \in groups' : g.by # p
    BY <1>4, <1>6, <1>8
  <2> QED  BY <1>7, <1>8, <2>1, <2>2 DEF Turned
<1>9. CASE groups' = groups /\ demo' = [demo EXCEPT ![p].pc = "gone", ![p].troubled = TRUE]
  <2> DEFINE r == [demo[p] EXCEPT !.pc = "gone", !.troubled = TRUE]
  <2>1. demo[p] \in Run /\ demo' = [demo EXCEPT ![p] = r]
    BY <1>1, <1>9
  <2>2. /\ r \in Run /\ r.pc = "gone" /\ r.sent = demo[p].sent /\ r.made = demo[p].made /\ r.failed = demo[p].failed
        /\ r.troubled = TRUE
    BY <2>1, StagesAre DEF Run
  <2> HIDE DEF r, Run
  <2> QED  BY <1>7, <1>9, <2>1, <2>2
<1>10. CASE its = {} /\ groups' = groups /\ Write!GoesWith(p, "done", TRUE)
  <2>1. \E r : Turned(p, r, "done") /\ r.made = demo[p].made /\ r.failed /\ r.troubled = demo[p].troubled
    BY <1>1, <1>10, ReportsIs, StagesAre, Zenon
  <2>2. PICK r : Turned(p, r, "done") /\ r.made = demo[p].made /\ r.failed /\ r.troubled = demo[p].troubled
    BY <2>1
  <2>3. Quiet(p) => \A g \in groups' : g.by # p
    BY <1>4, <1>6, <1>10
  <2> QED  BY <1>7, <1>10, <2>2, <2>3 DEF Turned
<1>11. CASE groups' \in {groups, groups \ its}
            /\ demo' = [demo EXCEPT ![p].pc = "done", ![p].failed = TRUE, ![p].troubled = TRUE]
  <2>1. PICK r : Turned(p, r, "done") /\ r.made = demo[p].made /\ r.failed /\ r.troubled
    BY <1>1, <1>11, FailsIs, StagesAre
  <2> QED  BY <1>7, <1>11, <2>1 DEF Turned
<1> QED  BY <1>8, <1>9, <1>10, <1>11, Zenon DEF Write!Deletes, Write!DeleteFails, its

LEMMA WriteRests ==
  ASSUME WriteInv, UNCHANGED effect
  PROVE  WriteInv'
<1>1. groups' = groups /\ late' = late /\ demo' = demo /\ faults' = faults
  BY DEF effect
<1>2. WriteTypes' /\ OwnerInv'
  BY <1>1, WriteTypesAre DEF WriteTypes, OwnerInv
<1>3. (\A d \in Demos : RunOK(d))'
  BY <1>1, WriteTypesAre DEF RunOK, Alone, Quiet
<1> QED  BY <1>2, <1>3, WriteTypesNext

LEMMA WriteNext ==
  ASSUME WriteInv, Write!Next
  PROVE  WriteInv'
<1>1. CASE Write!LandsLate
  BY <1>1, LateLands
<1>2. ASSUME NEW d \in Demos,
             \/ Write!Starts(d) \/ Write!Looks(d) \/ Write!Ensures(d) \/ Write!EnsuresAgain(d) \/ Write!Sends(d)
             \/ Write!SendFails(d) \/ Write!Confirms(d) \/ Write!ChecksById(d) \/ Write!Expects(d) \/ Write!Leaves(d)
             \/ Write!Deletes(d) \/ Write!DeleteFails(d) \/ Write!ConfirmsGone(d) \/ Write!ReadFails(d) \/ Write!Dies(d)
      PROVE  WriteInv'
  BY <1>2, WriteBegins, WriteEnsures, WriteEnsuresAgain, WriteSends, WriteConfirms, WriteChecks, WriteExpects,
     WriteLeaves, WriteDeletes, WriteConfirmsGone, WriteStops
<1> QED  BY <1>1, <1>2 DEF Write!Next

LEMMA WriteCleanExit == WriteInv => Write!CleanExit /\ Write!SentOnce /\ Write!RefusedIsRemoved
<1> SUFFICES ASSUME WriteInv PROVE Write!CleanExit /\ Write!SentOnce /\ Write!RefusedIsRemoved
  OBVIOUS
<1>1. OwnerInv /\ \A d \in Demos : RunOK(d)
  BY WriteTypesAre
<1>2. Write!CleanExit
  BY <1>1 DEF RunOK, Honest, OwnerInv, Write!CleanExit, Write!At, Write!Remains
<1>3. Write!SentOnce
  BY <1>1 DEF RunOK, Settled, Alone, Write!SentOnce, Write!NoGroup
<1>4. Write!RefusedIsRemoved
  BY <1>1 DEF RunOK, Removed, Quiet, OwnerInv, Write!RefusedIsRemoved, Write!At, Write!Remains
<1> QED  BY <1>2, <1>3, <1>4

-----------------------------------------------------------------------------
(* The three together: a step of one leaves the other two alone. *)

LEMMA ResilientInit == Init => ResilientInv
  BY TokenInit, WalkInit, WriteInit DEF Init, ResilientInv

LEMMA ResilientNext ==
  ASSUME ResilientInv, [Next]_<<guarantee, token, paging, effect>>
  PROVE  ResilientInv'
<1>1. TokenInv /\ WalkInv /\ WriteInv
  BY DEF ResilientInv
<1>2. /\ Client!Next \/ UNCHANGED token
      /\ Walk!Next \/ UNCHANGED paging
      /\ Write!Next \/ UNCHANGED effect
  BY DEF Next
<1>3. TokenInv'
  BY <1>1, <1>2, TokenNext, TokenRests
<1>4. WalkInv'
  BY <1>1, <1>2, WalkNext, WalkRests
<1>5. WriteInv'
  BY <1>1, <1>2, WriteNext, WriteRests
<1> QED  BY <1>3, <1>4, <1>5 DEF ResilientInv

\* What the theorems below rest on holds in every state.
THEOREM ResilientAlways == Spec => []ResilientInv
<1>1. Init => ResilientInv
  BY ResilientInit
<1>2. ResilientInv /\ [Next]_<<guarantee, token, paging, effect>> => ResilientInv'
  BY ResilientNext
<1> QED  BY <1>1, <1>2, PTL DEF Spec

\* The variables of the three guarantees keep their types: the constructor, the paged read and the write proof of
\* resilient.py and demo.py, for any processes, collection, server and runs.
THEOREM ResilientTypes == Spec => []TypeOK
<1>1. ResilientInv => TypeOK
  BY DEF ResilientInv, TokenInv, WalkInv, WriteInv, TypeOK
<1> QED  BY <1>1, ResilientAlways, PTL

\* Client.call of resilient.py: a 401 that reaches the caller was the answer to a token minted for that very call, for
\* any number of processes that share the cache file, and whatever is revoked, lost or refused.
THEOREM RefusedAlwaysFresh == Spec => []RefusedWasFresh
<1>1. ResilientInv => RefusedWasFresh
  BY TokenRefusedWasFresh DEF ResilientInv, RefusedWasFresh
<1> QED  BY <1>1, ResilientAlways, PTL

\* Client.bearer of resilient.py: a bearer that is used again has not expired, though its expiry was reckoned when the
\* mint answered and perhaps by another process, as long as the mint's time-out is within REFRESH_BUFFER_S.
THEOREM ReusedAlwaysHasLife == Spec => ReusedHasLife
<1>1. ResilientInv /\ [Next]_<<guarantee, token, paging, effect>> =>
        [\A p \in Procs : Client!At(p, "bearer") /\ client'[p].pc = "send" => now < client[p].held.exp]_(Client!vars)
  <2> SUFFICES ASSUME ResilientInv, [Next]_<<guarantee, token, paging, effect>>,
                      NEW p \in Procs, Client!At(p, "bearer"), client'[p].pc = "send"
               PROVE  now < client[p].held.exp
    OBVIOUS
  <2>1. TokenInv /\ (Client!Next \/ UNCHANGED token) /\ client[p].pc = "bearer"
    BY DEF ResilientInv, Next, Client!At
  <2> QED  BY <2>1, TokenReused
<1> QED  BY <1>1, ResilientAlways, PTL DEF Spec, ReusedHasLife, Client!ReusedHasLife

\* paginate and unwrap of resilient.py: on a collection that stood still, a walk that returns has each object once and
\* in order, for any collection, page size, cap and way to count the pages, whether it declares its total right or one too many.
THEOREM AlwaysWholeWhenStill == Spec => []WholeWhenStill
<1>1. ResilientInv => WholeWhenStill
  BY WalkWholeWhenStill DEF ResilientInv, WholeWhenStill
<1> QED  BY <1>1, ResilientAlways, PTL

\* ensure, confirm and confirm_gone of resilient.py as write_proof of demo.py calls them: exit 0 means written once and
\* nothing left, a create is sent twice only when another run took the group, and a run that had the name to itself and
\* whose requests were answered leaves nothing, for any number of runs and any number of faults.
THEOREM AlwaysCleanExit == Spec => []CleanExit
<1>1. ResilientInv => CleanExit
  BY WriteCleanExit DEF ResilientInv, CleanExit
<1> QED  BY <1>1, ResilientAlways, PTL
=============================================================================
