---------------------------- MODULE MCOwnership ----------------------------
(***************************************************************************)
(* Five scripts that make or write things in a live platform: four keep a  *)
(* file that says which of them are theirs, and the fifth writes settings  *)
(* people sign in under.  They share no state, so each behaviour exercises *)
(* one of them and the others rest.                                        *)
(***************************************************************************)
EXTENDS Integers, FiniteSets

CONSTANTS
  Runs, Together, MaxOthers, MaxFaults,
  Realms, MaxClients, MaxTokens,
  VCs, Names, MaxRoles,
  MaxAccounts,
  Keys, MaxIds

ASSUME OwnershipAssumption ==
  /\ {Together, MaxOthers, MaxFaults, MaxClients, MaxTokens, MaxRoles, MaxAccounts, MaxIds} \subseteq Nat
  /\ IsFiniteSet(Runs) /\ Runs \cap {"left", "elsewhere"} = {}
  /\ Realms # {} /\ VCs # {} /\ Names # {} /\ "none" \notin Keys

VARIABLES
  script,
  client, tokens, state, rotation, handed, serves, clients, minted, apiFaults, apiOthers, answered, issued, apiTorn,
  roles, grants, ledger, probe, numbered, roleFaults, roleOthers, own, roleTorn,
  accounts, live, accState, file, acc, registered, accMinted, accFaults, accOthers, accAnswered, accTorn,
  org, dir, bin, old, assigned, orgState, fed, made, fedFaults, fedOthers, fedOwn, fedTorn, blind,
  oidc, saml, group, users, active, writer, setFaults, setOthers

\* What an organization holds at first: nothing; a live federation, keyed on what stays with a person or not; one to
\* somebody else; one switched off beside another that is live; SAML alone.
Oidc(on, iss, key) == [on |-> on, iss |-> iss, app |-> "a", key |-> key]
NoOidc == [on |-> FALSE, iss |-> "none", app |-> "none", key |-> "none"]
Saml(claim) == [on |-> TRUE, iss |-> "us", claim |-> claim, certs |-> {"signs"}]
NoSaml == [on |-> FALSE, iss |-> "none", claim |-> "none", certs |-> {}]
Over(p) == [over |-> p, role |-> p # "none"]
Holds(o, f, p) == [oidc |-> o, saml |-> f, group |-> Over(p)]
Organizations ==
  {Holds(NoOidc, NoSaml, "none"), Holds(Oidc(TRUE, "us", "sub"), NoSaml, "oidc"),
   Holds(Oidc(FALSE, "other", "upn"), NoSaml, "none"), Holds(Oidc(FALSE, "us", "none"), Saml("planned"), "saml")}

Api == INSTANCE ApiClient WITH run <- rotation, faults <- apiFaults, others <- apiOthers, torn <- apiTorn
Probe == INSTANCE ProbeRoles WITH run <- probe, faults <- roleFaults, others <- roleOthers, torn <- roleTorn
Account == INSTANCE ServiceAccount WITH state <- accState, run <- acc, minted <- accMinted, faults <- accFaults,
             others <- accOthers, answered <- accAnswered, torn <- accTorn
Fed == INSTANCE Federation WITH state <- orgState, run <- fed, faults <- fedFaults, others <- fedOthers, own <- fedOwn,
         torn <- fedTorn
Settings == INSTANCE FederationSettings WITH run <- writer, faults <- setFaults, others <- setOthers

api == <<client, tokens, state, rotation, handed, serves, clients, minted, apiFaults, apiOthers, answered, issued,
         apiTorn>>
role == <<roles, grants, ledger, probe, numbered, roleFaults, roleOthers, own, roleTorn>>
account == <<accounts, live, accState, file, acc, registered, accMinted, accFaults, accOthers, accAnswered, accTorn>>
throwaway == <<org, dir, bin, old, assigned, orgState, fed, made, fedFaults, fedOthers, fedOwn, fedTorn, blind>>
settings == <<oidc, saml, group, users, active, writer, setFaults, setOthers>>

Scripts == {"api_client", "authz", "service_account", "federation", "settings"}
Init ==
  /\ script \in Scripts /\ Api!Init /\ Probe!Init /\ Account!Init /\ Fed!Init /\ Settings!Init
  /\ script # "settings" => oidc = NoOidc /\ saml = NoSaml

Next ==
  /\ UNCHANGED script
  /\ \/ script = "api_client" /\ Api!Next /\ UNCHANGED <<role, account, throwaway, settings>>
     \/ script = "authz" /\ Probe!Next /\ UNCHANGED <<api, account, throwaway, settings>>
     \/ script = "service_account" /\ Account!Next /\ UNCHANGED <<api, role, throwaway, settings>>
     \/ script = "federation" /\ Fed!Next /\ UNCHANGED <<api, role, account, settings>>
     \/ script = "settings" /\ Settings!Next /\ UNCHANGED <<api, role, account, throwaway>>

Spec == Init /\ [][Next]_<<script, api, role, account, throwaway, settings>>

\* The types, and below the promises each module states and explains, of the script of the behaviour.
TypeOK ==
  /\ script = "api_client" => Api!TypeOK
  /\ script = "authz" => Probe!TypeOK
  /\ script = "service_account" => Account!TypeOK
  /\ script = "federation" => Fed!TypeOK
  /\ script = "settings" => Settings!TypeOK

\* A script writes only on what it made: the client its create was answered for, the roles it was told it made or
\* adopted, the account it registered, the objects of a throwaway organization; and only its own metadata.
ActsOnlyOnItsOwn ==
  /\ [](script = "api_client" => Api!ActsOnlyOnItsOwn)
  /\ [](script = "service_account" => Account!ActsOnlyOnItsOwn)
  /\ Probe!ActsOnlyOnItsOwn /\ Fed!ActsOnlyOnItsOwn /\ Settings!WritesOwnMetadata

\* Wherever a run stops, what it was told it made is on record, unless that write itself failed.
MadeIsRecorded ==
  /\ script = "api_client" => Api!MadeIsRecorded
  /\ script = "authz" => Probe!MadeIsRecorded
  /\ script = "service_account" => Account!MadeIsRecorded
  /\ script = "federation" => Fed!MadeIsRecorded

\* What somebody relies on is spared: the token an integration holds, a role somebody was granted, the key the users of
\* an organization were made under.
InUseIsSpared ==
  /\ [](script = "service_account" => Account!StoredTokenLives)
  /\ Api!RetireKeepsServed /\ Probe!RemovalTakesNoAccess /\ Fed!KeyIsKept /\ Settings!UsersStayMatched

\* Exit 0 means what the manual says, when nobody else acted.
ExitZeroIsTrue ==
  /\ script = "api_client" => Api!ExitZeroIsTrue
  /\ script = "authz" => Probe!ExitZeroIsTrue
  /\ script = "service_account" => Account!ExitZeroIsTrue
  /\ script = "federation" => Fed!ExitZeroIsTrue
  /\ script = "settings" => Settings!ExitZeroIsTrue

=============================================================================
