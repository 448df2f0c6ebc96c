----------------------------- MODULE TokenClient -----------------------------
(***************************************************************************)
(* The first guarantee of handbook/resilient-api-call: Client of           *)
(* resilient.py, in several processes that share one cache file, each with *)
(* its identity.  A token is minted, kept in memory and in the file with   *)
(* the expiry the client reckons, used until a buffer before that, and     *)
(* minted anew when a call is answered 401.                                *)
(***************************************************************************)
EXTENDS Integers, FiniteSets

CONSTANTS
  Procs, Identities, IdentityOf,   \* processes, and the identity each works for
  Nobody,
  Life,        \* what the platform gives a token, and tells the client
  Buffer,      \* REFRESH_BUFFER_S
  MintDelay,   \* the time-out of the mint: its answer is not older than this
  Together,    \* how many processes may be open at the same time
  MaxClock, MaxMints, MaxFaults

TokenAssumption ==
  /\ IdentityOf \in [Procs -> Identities] /\ IsFiniteSet(Procs) /\ Nobody \notin Identities
  /\ {Life, Buffer, MintDelay, Together, MaxClock, MaxMints, MaxFaults} \subseteq Nat
  /\ MintDelay <= Buffer

VARIABLES
  now,
  minted,    \* the platform: how many tokens it has given; a token carries its number
  revoked,   \* the platform: the numbers of the tokens it has withdrawn
  file,      \* the cache file: per key a bearer and when the client thinks it expires
  client,    \* the processes
  faults

vars == <<now, minted, revoked, file, client, faults>>

NoToken == [of |-> Nobody, number |-> 0, exp |-> 0]
Token == {NoToken} \cup [of : Identities, number : 1 .. MaxMints, exp : Nat]
NoEntry == [bearer |-> NoToken, expires |-> 0]
Entry == [bearer : Token, expires : Nat]

\* held, expires: the bearer in memory; minting: the answer of the mint under way; read: what
\* _persist read of the file; began: the tokens given when the request began; try: the first call or
\* the one after a 401.
Closed == [pc |-> "closed", held |-> NoToken, expires |-> 0, minting |-> NoToken,
           read |-> [i \in Identities |-> NoEntry], began |-> 0, try |-> 1]

TypeOK ==
  /\ now \in 0 .. MaxClock /\ minted \in 0 .. MaxMints /\ revoked \subseteq 1 .. minted
  /\ file \in [Identities -> Entry]
  /\ client \in [Procs ->
       [pc : {"closed", "ready", "bearer", "mint", "read", "replace", "send", "unauthorized"},
        held : Token, expires : Nat, minting : Token, read : [Identities -> Entry],
        began : 0 .. MaxMints, try : {1, 2}]]
  /\ \A p \in Procs : client[p].pc = "send" => client[p].held # NoToken
  /\ faults \in 0 .. MaxFaults

Init ==
  /\ now = 0 /\ minted = 0 /\ revoked = {} /\ file = [i \in Identities |-> NoEntry]
  /\ client = [p \in Procs |-> Closed] /\ faults = 0

-----------------------------------------------------------------------------
At(p, pc) == client[p].pc = pc
Fault == faults < MaxFaults /\ faults' = faults + 1

\* The key of the cache is the identity.
Key(p) == IdentityOf[p]

\* Time passes, but the mint is answered in time.
Tick ==
  /\ now < MaxClock
  /\ \A p \in Procs : At(p, "mint") => now + Life < client[p].minting.exp + MintDelay
  /\ now' = now + 1
  /\ UNCHANGED <<minted, revoked, file, client, faults>>

Revokes(n) ==
  /\ n \in 1 .. minted \ revoked /\ Fault
  /\ revoked' = revoked \cup {n}
  /\ UNCHANGED <<now, minted, file, client>>

\* The constructor loads the entry; a file that cannot be read is as good as none.
Opens(p) ==
  /\ At(p, "closed") /\ Cardinality({q \in Procs : ~At(q, "closed")}) < Together
  /\ \/ /\ client' = [client EXCEPT ![p] = [Closed EXCEPT !.pc = "ready", !.held = file[Key(p)].bearer,
                                                          !.expires = file[Key(p)].expires]]
        /\ UNCHANGED faults
     \/ client' = [client EXCEPT ![p] = [Closed EXCEPT !.pc = "ready"]] /\ Fault
  /\ UNCHANGED <<now, minted, revoked, file>>

\* The process ends, by itself or not.
Closes(p) ==
  /\ ~At(p, "closed")
  /\ client' = [client EXCEPT ![p] = Closed]
  /\ UNCHANGED <<now, minted, revoked, file, faults>>

Requests(p) ==
  /\ At(p, "ready")
  /\ client' = [client EXCEPT ![p].pc = "bearer", ![p].began = minted, ![p].try = 1]
  /\ UNCHANGED <<now, minted, revoked, file, faults>>

\* Mutant: a bearer is used until the moment it expires.
StaleAtExpiry(p) == client[p].held = NoToken \/ now >= client[p].expires

\* No bearer, or one that is about to run out.
Stale(p) == client[p].held = NoToken \/ now + Buffer >= client[p].expires

UsesBearer(p) ==
  /\ At(p, "bearer") /\ ~Stale(p)
  /\ client' = [client EXCEPT ![p].pc = "send"]
  /\ UNCHANGED <<now, minted, revoked, file, faults>>

\* The platform gives a token; its answer is on the way.
Mints(p) ==
  /\ At(p, "bearer") /\ Stale(p) /\ minted < MaxMints
  /\ minted' = minted + 1
  /\ client' = [client EXCEPT ![p].pc = "mint",
                  ![p].minting = [of |-> IdentityOf[p], number |-> minted + 1, exp |-> now + Life]]
  /\ UNCHANGED <<now, revoked, file, faults>>

\* What the mint raises is the caller's.
MintFails(p) ==
  /\ At(p, "bearer") /\ Stale(p) /\ Fault
  /\ client' = [client EXCEPT ![p].pc = "ready", ![p].began = 0, ![p].try = 1]
  /\ UNCHANGED <<now, minted, revoked, file>>

\* The expiry is reckoned from the moment the answer is in.
Minted(p) ==
  /\ At(p, "mint")
  /\ client' = [client EXCEPT ![p].pc = "read", ![p].held = client[p].minting, ![p].expires = now + Life,
                              ![p].minting = NoToken]
  /\ UNCHANGED <<now, minted, revoked, file, faults>>

\* _persist reads the file that is there; one that cannot be read is taken for empty.
PersistReads(p) ==
  /\ At(p, "read")
  /\ \/ client' = [client EXCEPT ![p].pc = "replace", ![p].read = file] /\ UNCHANGED faults
     \/ client' = [client EXCEPT ![p].pc = "replace", ![p].read = [i \in Identities |-> NoEntry]] /\ Fault
  /\ UNCHANGED <<now, minted, revoked, file>>

PersistReplaces(p) ==
  /\ At(p, "replace")
  /\ file' = [client[p].read EXCEPT ![Key(p)] = [bearer |-> client[p].held, expires |-> client[p].expires]]
  /\ client' = [client EXCEPT ![p].pc = "send", ![p].read = [i \in Identities |-> NoEntry]]
  /\ UNCHANGED <<now, minted, revoked, faults>>

Live(t) == now < t.exp /\ t.number \notin revoked

\* An answer other than 401.
Answered(p) ==
  /\ At(p, "send") /\ Live(client[p].held)
  /\ client' = [client EXCEPT ![p].pc = "ready", ![p].began = 0, ![p].try = 1]
  /\ UNCHANGED <<now, minted, revoked, file, faults>>

\* Mutant: the call is tried again with the bearer that was refused.
RefusedKeeps(p) ==
  /\ At(p, "send") /\ ((~Live(client[p].held) /\ UNCHANGED faults) \/ Fault)
  /\ client' = [client EXCEPT ![p].pc = IF client[p].try = 1 THEN "send" ELSE "unauthorized", ![p].try = 2]
  /\ UNCHANGED <<now, minted, revoked, file>>

\* Mutant: the second call does not ask for a bearer again.
RefusedSends(p) ==
  /\ At(p, "send") /\ ((~Live(client[p].held) /\ UNCHANGED faults) \/ Fault)
  /\ client' = [client EXCEPT ![p].pc = IF client[p].try = 1 THEN "send" ELSE "unauthorized", ![p].try = 2,
                              ![p].held = NoToken, ![p].expires = 0]
  /\ UNCHANGED <<now, minted, revoked, file>>

\* 401, for a token that is not good, or (a fault) for one that is: invalidate and try once more, and
\* the second answer is the caller's.
Refused(p) ==
  /\ At(p, "send") /\ ((~Live(client[p].held) /\ UNCHANGED faults) \/ Fault)
  /\ \/ /\ client[p].try = 1
        /\ client' = [client EXCEPT ![p].pc = "bearer", ![p].held = NoToken, ![p].expires = 0, ![p].try = 2]
     \/ client[p].try = 2 /\ client' = [client EXCEPT ![p].pc = "unauthorized"]
  /\ UNCHANGED <<now, minted, revoked, file>>

-----------------------------------------------------------------------------
Next ==
  \/ Tick \/ \E n \in 1 .. MaxMints : Revokes(n)
  \/ \E p \in Procs :
       \/ Opens(p) \/ Closes(p) \/ Requests(p) \/ UsesBearer(p) \/ Mints(p) \/ MintFails(p)
       \/ Minted(p) \/ PersistReads(p) \/ PersistReplaces(p) \/ Answered(p) \/ Refused(p)

Spec == Init /\ [][Next]_vars

-----------------------------------------------------------------------------
\* Survive the token: a 401 that reaches the caller was the answer to a token minted for that very
\* call, never to one that was kept in memory or in the file, whoever put it there.
RefusedWasFresh == \A p \in Procs : At(p, "unauthorized") => client[p].held.number > client[p].began

\* "refreshed on a UTC buffer before it runs out": a bearer that is used again has not expired, though
\* the expiry was reckoned late and perhaps by another process.
ReusedHasLife ==
  [][\A p \in Procs : At(p, "bearer") /\ client'[p].pc = "send" => now < client[p].held.exp]_vars

\* "never rewritten blindly": what the file holds for an identity stays until that identity replaces it.
\* It does not hold: the write after a failed read starts from the empty dictionary, and the other entries go.
EntriesStay == [][\A i \in Identities : file[i] # NoEntry => file'[i] # NoEntry]_vars
=============================================================================
