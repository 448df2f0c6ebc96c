# A TLA+ model of the handbook's tools

The repository is the companion to a handbook on running a VMware Cloud Foundation private cloud: some sixty folders,
most of them a Python script that signs in, reads an estate and prints what it found. A few scripts do more. They keep
state of their own between runs, change state on a platform that other people change too, and promise something about
the result although requests fail, answers are lost and processes die. Those are modelled here, each in a module
translated from its source; the promises of their documentation are stated as properties and model-checked with TLC,
and the safety properties that matter most are proved with TLAPS for every value of the constants.

Contents: [the system](#the-system), [the modules](#the-modules), [the runs](#the-runs),
[promises that do not hold](#promises-that-do-not-hold), [fairness](#fairness), [what is proved](#what-is-proved),
[what is not modelled](#what-is-not-modelled), [the plan](#the-plan).

## The system

### The parts that are modelled

**The elevation broker** (`handbook/temporary-elevation/broker.py`). The platform has no temporary role, so the broker
keeps *grants*: who, which axis (a role in a project, or an action on one's own deployments), until when, and for a role
the *baseline* to return to. Its state is a JSON grants file, a heartbeat file, and the role bindings on the platform,
which administrators edit as well. Five commands, each a process of its own that loads the whole file when it starts
and replaces the whole file when it ends: `grant`, `revoke`, `check` (allow or deny one action), `reconcile` (make the
bindings what the grants say) and `heartbeat` (has a pass been through lately, without a failure?).
*Hard:* two commands at once each have a private copy of the file; a pass talks to the platform for seconds between its
load and its save, and can die after some of its writes; a write that landed may be reported as failed; the caller's
check fixes its time before two sign-ins and two reads.
*Correct when:* nobody is elevated without a record that will end it; a baseline is never a role the broker gave; a
closed window is reverted in the end; the heartbeat never hides an overdue elevation; a revocation stays and is obeyed.

**The pre-delete gate** (`handbook/event-model/gate.py`). A workflow the platform calls on a blocking event for each
machine of a deployment. On a delete it removes the machine's record from a registry, with retries inside a deadline,
and raises to refuse the delete. The gate keeps nothing: the state is the request the platform holds, the registry, and
the runs under way.
*Hard:* events come twice and late; a run outlives the request it ran for; the registry removes a record and loses the
answer; time-outs, pauses and retries share one deadline; creates arrive on the same topic.
*Correct when:* a machine that is gone has no record (fail closed); only deletes unregister; the runtime is bounded; a
delete asked for again gets done (idempotence).

**Binding the gate** (`handbook/event-model/deploy_gate.py`). Imports the workflow into the Orchestrator, waits until the
Automation host has enumerated it, creates the blocking subscription there; `--remove` takes the three objects away.
*Hard:* creates report acceptance, not effect; the host's view of the workflows is stale in both directions; a run may
stop anywhere and the next one starts from what it left.
*Correct when:* exit 0 means what the exit codes say, and nothing is bound that would be stored and silent.

**The resilient client** (`handbook/resilient-api-call/resilient.py`, `demo.py`). Three guarantees: *survive the token*
(bearers cached in memory and in a file that processes share, minted anew on a 401), *trust the response* (read a whole
paged collection) and *run twice safely* (`ensure`, `confirm`, `confirm_gone`, exercised by `demo.py --write`).
*Hard:* the file is read, changed and replaced by several processes; expiry is reckoned late and by somebody else; the
collection changes between two pages, on a server with a page cap of its own; a create takes effect wrongly, not at
all, or after its answer was given up.

**Content of the Orchestrator** (`handbook/orchestrator-dependencies/deploy.py`, `handbook/orchestrator-drift/reconcile.py`).
The first creates a configuration element, an environment, an action and a workflow in the order their bindings force
(the appliance issues the identifiers that the later ones carry), and takes them down in the reverse order. The second
keeps a committed copy of a workflow, reports how the live one has drifted, and puts the copy back.
*Hard:* the appliance stores a reference to an object that is gone, or was made again under another identifier; a write
or a delete that was accepted may have changed nothing; an execution may start between the read that looks for one and the write; a teardown reads absence and error alike.
*Correct when:* exit 0 of a readback means bound, whatever the deploys before it did, and of the others gone or in sync; no
definition changes under an execution the run saw; deploying again heals whatever a failure left.

**Leavers** (`handbook/identity-lifecycle/leavers.py`). Finds the accounts whose person has left at Entra, reads each of
them again, with pauses, and closes the confirmed ones: tokens revoked one by one, the account disabled by a round trip
of its record, both read back.
*Hard:* the directory answers from before a change for a while; people come back; the account mints a token between two
steps of its closing; a read that fails leaves somebody unjudged.
*Correct when:* who came back is spared, a close that says it held has closed, and a clean exit means that who had left
is shut out.

**What scripts make for themselves** (`handbook/integrations-identity/api_client.py` and `service_account.py`,
`handbook/vcenter-authorization/authz.py`, `handbook/tenant-federation/org_federation.py`). An API client whose tokens
are issued, rotated and retired; a service account activated through a device grant; two probe roles on each vCenter; a
throwaway organization federated with an application of its own. Each script writes down what it made, in a state file
or a ledger, and by that record decides what it may touch and take away.
*Hard:* the record is written after the thing is made; people make things of the same names; the list of what there is
lags behind; an answer that carries an identifier or a rotated token is lost.
*Correct when:* only its own is touched; whatever it was told it made is on record; the token an integration holds, a
role somebody was granted and the key users were made under survive; exit 0 is true.

**The sign-in settings of an organization in use** (`org_federation.py --configure`, `--groups-only`, `--update`). The
settings are read, judged against the users the organization holds, read again and sent back whole.
*Hard:* who is matched under which key depends on what was stored when each user was made; somebody signs in, or edits,
between the reads and the write.
*Correct when:* no user is left unmatched by a write, and the metadata written is that of the organization's application.

**The federation watch** (`handbook/federation-operations/watch.py`). Run on a schedule, once for each Entra tenant: will
every federated organization keep signing in? It judges the refresh of the provider's signing keys by the age of the last
success, the secret or certificate sign-in goes by from what Graph lists of it, and leaves the organizations of other
tenants to their schedules. It keeps no state; everything it judges moves while it is read and between two runs.
*Hard:* a refresh is looked at once an hour, so its age swings by an hour on schedule; of a secret three characters are
seen; the two sides are read one after the other; ends are rounded to a tenth of a day; what one schedule leaves out
another must read.
*Correct when:* exit 0 and exit 2 say what is so; no credential in use ends unforetold and no key is missed longer than
its interval and an hour without a word; the schedules together leave nobody out, and a run that judged nothing is no pass.

**The census of sessions** (`handbook/integrations-identity/vcenter_exchange.py --sessions` and `--compare`). Which jobs
still sign in to vCenter as a person? A session list shows one moment, so records of many runs are compared and held to
a coverage: hours of day, a span, and the largest gap between two reads.
*Hard:* a job is signed in between two reads; a gap is counted between the beginnings of runs and rounded to minutes; a
list that could not be read looks like an empty one.
*Correct when:* exit 0 of a comparison means there is no such job, for any job that signs in long enough and often enough.

**Operations content** (`handbook/ops-estate/converge.py`, `teardown.py`, `cycle.py`). Declared super metrics, asserted
by name (adopt, create or update; ids are read, never declared) and deleted by name; `cycle.py` runs both step by step
on names nobody has, checks the instance in between and tears down whatever happens.
*Hard:* one list at the start decides every write; people work in the console meanwhile; writes may have no or another
effect; a step fails after it has created something.

**What follows the workload** (`frameworks/wtpc/reconcile_infra_groups.py`, `reconcile_policy.py` with
`lib/_priority.py`, `deploy_alerts.py`). Three controllers of the tuned private cloud, run routinely. The first makes the
members of a posture's hardware groups the hosts its machines run on, and holds one they have left for a dwell window by
a file of time stamps. The second ranks the postures' policies strict-first in the one priority order that every team of
the instance shares, and binds them to their groups. The third makes the alerts and switches each on in the posture's
policy and off in the default one.
*Hard:* the stamps are saved at the end of a run that may fail before; the order is read, reckoned and replaced whole
while other teams rank theirs; a switch is answered and not recorded, and an alert may inherit from the policy it is
switched off in.
*Correct when:* exit 0 means what is declared is so; a host in use a window ago, another team's rank and an alert that
fires are spared; run again, each gets there.

**The write-back of tags** (`frameworks/cartography/writeback_tags.py`, `lib/_models.py`, `lib/_tagdefs.py`). Attaches
approved values of a category to machines, and takes off exactly those again.
*Hard:* what to write is decided for all machines from one read, of a catalog that may be incomplete, while people tag
by hand; a change is a detach and then an attach.
*Correct when:* exit 0 means attached or gone, and a value that somebody else set stays.

### How they interact

The tools share no code at run time and call each other in one place: `cycle.py` starts `converge.py` and `teardown.py`
as subprocesses (`OpsCycle` extends `OpsEstate`). `cmd_check` shares the grants file with the other commands of the
broker (`ElevationGate` extends `Broker`). `deploy_gate.py` ships `gate.py` as the body of the workflow; what it has to
establish about it is a field of the workflow in `GateBinding` (`script = "gate"`), and what the script then does is
`PreDeleteGate`. `reconcile.py` of the drift folder keeps in order what `deploy.py` of the dependencies folder creates, on
one appliance (`Orchestrator` has both). What `org_federation.py` sets up (`FederationSettings`) is what `watch.py` judges
later; they share the platform only. The
hardware groups' policy is written by two of the wtpc controllers by one rule (`Wanted` of `InfraGroups`, `Assigns` of
`PolicyRanking`), and each module has the other's write among the acts of others. Everything else meets on the platform: bindings, subscriptions, groups, super
metrics, clients, roles, settings; there a script meets other people, and in some modules a second run of itself.

### The rest of the repository

Every other folder is listed in `PROJECT.json` under `components` with the reason it is not modelled. In short:

| Kind | Folders |
|---|---|
| read and report, no state | most of `handbook/`: platform-map, identity-model, network-plane, namespace-storage, vm-service, … |
| pure computation on files | strategy, configuration-maximums, orchestrator-packaging, collect-once |
| throwaway proofs: create, read back, remove | access-control, alerting-doctrine, capacity-plane, construct-model, day1-provisioning, day2-governance, day2-pathways, identifier-planes, infrastructure-policies, isolation-design, log-lifecycle, three-doors |
| change state they mean to keep | log-alerts, metadata-projection, availability, project-vending, the rest of frameworks/wtpc |

The last two rows hold the candidates for further modules; see [the plan](#the-plan).

## The modules

| Module | Models | State | Actions and the code they stand for |
|---|---|---|---|
| `Broker` | `grant`, `revoke`, `reconcile` of broker.py | grants file, heartbeat, bindings, clock, the running commands with their private copies; history: `raised`, `owned` | `ScopeGrantStarts`/`ScopeGrantReads`/`Saves` (load and overlap check, baseline read, save), `ActionGrantStarts`, `RevokeStarts`, and the pass `PassStarts`, `PassVisits`, `PassWrites`, `PassReadsBack`, `PassEnds`, `PassBeats` with a failing twin for each request; `Dies`, `Tick`, `AdminEdits` |
| `ElevationContract` | what the scope axis promises, without files, passes or processes | register, bindings, clock | `Approve`, `Revoke`, `Raise`, `Lower`, `End` |
| `BrokerRefinement` | the mapping: the register holds the grant the file carries as not yet reverted | | `KeepsContract` is the abstract specification |
| `ElevationGate` | `check`, beside everything in `Broker` | the deployment's owner, the checks, the printed revocations | `CheckStarts` (fixes the time), `CheckReadsOwner`, `CheckDecides` (loads the file), `Transfers` |
| `PreDeleteGate` | gate.py, with the platform and the registry around it | deployment, held request, cleared machines, registry, runs | `Plans`, `CallIsDone`, `CallFails`, `CallIsRefused`, `Sleeps`, `GivesUp`; `Delivers`, `DeliversLate`, `DeliversUnreadable`, `Completes` |
| `GateBinding` | deploy_gate.py | workflow, category, the host's knowledge, subscription, the run | one action per request of `apply` and `remove`; `Enumerates`, `OthersUse`, `Breaks` |
| `TokenClient` | `Client` of resilient.py | cache file, each process's bearer and reckoned expiry, the platform's tokens | `Opens`, `UsesBearer`, `Mints`/`Minted`, `PersistReads`/`PersistReplaces`, `Answered`, `Refused` |
| `PagedRead` | `paginate` and `unwrap` | the server's collection and habits, the walk | `Reads`, `GoesOn`, `Returns`, `Refuses`; `Grows`, `Shrinks` |
| `EnsuredWrite` | `ensure`, `confirm`, `confirm_gone` as `write_proof` of demo.py calls them | the groups of the name, late creates, the runs | `Ensures`, `Sends`, `Confirms`, `EnsuresAgain`, `Expects`, `Leaves`, `Deletes`, `ConfirmsGone` and their failures |
| `OpsEstate` | converge.py and teardown.py | the instance by id, the declaration, the run with its plan, late writes | `Lists` (the plan is fixed there), `Creates`, `Updates`, `Deletes`, `ReadsBack`, `ReadsAgain`, `Refused`, `Dies`; `OthersAct`, `Edits`, `Lands` |
| `OpsCycle` | cycle.py over `OpsEstate` | the step the cycle is at and what it remembers | `RunsStep`, `StepDone`, `StepFails`, `ReadsIds`, `EditsDrift`, `DeletesOther`, `FinalEnds`, `Residue` |
| `LeaverRule` | the decision of leavers.py, its two guards and its exit codes, as operators | | |
| `Leavers` | a run of leavers.py, `--user` and `--close-now` | accounts and tokens, the directory as it stands and as it may still answer, the gate, the run | `Begins`, `ClosesNow`, `FirstRead`, `Confirms` and `Pauses`, `Acts`, and the close `Gets`, `Revokes`, `Puts`, `ReadsAccount`, `ReadsTokens`; `Moves`, `Settles`, `SignsIn`, `Mints`, `Edits` |
| `Orchestrator` | deploy.py and reconcile.py | the objects, the identifiers issued and carried, the text of the workflow, its execution, the committed copy, the run | deploy and teardown layer by layer `Finds`, `Writes`, `Links`, `ReadsBack`, `FindsToDelete`, `Deletes`; the drift `ReadsRunning`, `ChecksReferences`, `ChecksExecutions`, `Sends`, `ReadsSent`; `OthersAct`, `Executes` |
| `ApiClient` | api_client.py: create, rotate, retire, teardown | clients and tokens by realm, the state file, the token the integration uses, the runs | `ReadsClients`, `ReadsTokens`, `Judges`, `Creates`, `Saves`/`Writes`, `Binds`, `Issues`, `Trades`, `ReadsAfter`, `Deletes`, `DeletesClient`, `BacksClients`, `BacksTokens`; `Console`, `Expires`, `Points` |
| `ServiceAccount` | service_account.py: create, teardown | accounts and their live tokens, state file, token file, the runs | `Registers`, `Saves`/`Writes`, `Grants`, `Polls`, `Stores`, `Refreshes`, `Rewrites`/`Rewritten`, `Backs`; `Revokes`, `Tries`, `Deletes`, `Gone` |
| `ProbeRoles` | authz.py: the probe, `--remove-probe-roles`, `--adopt-probe-role` | roles and grants of each vCenter, the ledger, the runs | `Looks`, `Plans`, `Presaves`, `Ensures`, `Records`, `Folder`, `Grants`, `TakesBack`, `Destroys`, `Residue`; `Refuses`, `Drops`, `Forgets`; `Claims` |
| `Federation` | org_federation.py: the throwaway organization, built and taken down | the organization, Entra's directory, its recycle bin and what its lists still show, the state file | `FindsOrg`, `MakesOrg`, `TakesOrg`, `Finds`, `Makes`, `Saves`/`Writes`, `Assigns`, `WritesSettings`, `Imports`; `Looks`, `DropsOrg`, `Drops`, `Purges`, `Residue` |
| `FederationSettings` | `--configure`, `--groups-only`, `--update` of an organization in use | OIDC and SAML settings, the group, the users by what they were made under, Entra's certificate, the run | `Reads`, `ReadsEntra`, `ReadsAgain`, `Puts`, `ReadsBack`, `Imports`, `ReadsGroups`; `SignsIn`, `Administers` |
| `KeyRefresh` | watch.py: `key_refresh`, at any moment | the organization's OIDC settings, the age of its last success, how long a published key is not held | `Verdict` is what a read says; `HourlyRun`, `Rolls`, `Writes`, `Tick` are the platform, Entra and an administrator |
| `Rollover` | watch.py: `secret_end`, `saml_cert_end`, `saml_cert_held`, one organization | the app's credentials with end and hint, what the organization stores, the run | `Starts` (reads the organization's side), `ReadsApp` (reads Graph and judges), `ReadFails`; `Lists`, `Removes`, `Activates`, `Stores` |
| `Schedules` | watch.py: `coverage`, `watch_org`, `run_errors`, `exit_code`, once for each tenant | the organizations, how each schedule is kept, the run and the last exits | `Starts`, `ReadsOrg`, `Judges`, `Stops`; `Changes` |
| `SessionCensus` | vcenter_exchange.py: `--sessions`, `--compare` | the clock, a job's sessions, the run, what the records come to | `Starts`, `ReadsList`, `Unread`, `Compares` |
| `InfraGroups` | reconcile_infra_groups.py | where the machines are, the Hosts group, the stamps by age, the run; history: `lastSeen`, `unsaved` | `Reads`, `Plans` (hysteresis and the plan), `Puts`, `Confirms`, `Saves`; `Ticks`, `Moves` |
| `PolicyRanking` | reconcile_policy.py, _priority.py, the check of governance.py | the policies, the order, the bindings, the run with the order it read | `Reads`, `Creates`, `Binds`, `ReadsGroups`, `Ranks`, `Puts` (`WithinOwnSlots`, `AboveForeign`), `Verifies`; `OthersAct` |
| `AlertScope` | deploy_alerts.py, _alerts.py | the definitions, the switches of both policies, the run | `Lists`, `Converges`, `ReadsBack`, `Turns`, `ReadsExport`, `Sends`; `OthersAct` |
| `TagWriteback` | writeback_tags.py, _models.py, _tagdefs.py | the category, the values attached, the approved ones, the run with the values it read | `Defines`, `Reads`, `TakesOff`, `Attaches`, `Verifies`, `Ends`, `RemovesCategory`; `Decision`; `OthersAct` |
| `Resilient` | the three guarantees of resilient.py, one in each behaviour (`TokenClient`, `PagedRead`, `EnsuredWrite`) | | |
| `BrokerProofs` | theorems about `Broker` and `ElevationGate`, and about the broker's clock and its contract | | |
| `LeaversProofs`, `ResilientProofs`, `WatchProofs`, `ContentProofs`, `CycleProofs`, `OwnershipProofs` | theorems about `Leavers`, `Resilient`, `MCWatch`, `MCContent`, `OpsCycle`, `MCOwnership` | | |
| `DeploysProofs` | theorems about `MCDeploys` and `PreDeleteGate` | | |
| `MCBroker`, `MCElevationGate`, `MCLeavers` | symmetry sets, functions and starting points for TLC | | |
| `MCResilient` | the identities of three processes, for `Resilient` | | |
| `MCDeploys` | what is put on an Orchestrator, the gate's binding or the manifest's content (`GateBinding`, `Orchestrator`) | | |
| `MCWatch` | what a schedule watches, one of the four in each behaviour (`KeyRefresh`, `Rollover`, `Schedules`, `SessionCensus`) | | |
| `MCContent` | what converges on a shared instance, one of the five in each behaviour (`OpsEstate` and the four modules above) | | |
| `MCOwnership` | the five scripts that keep a record, one in each behaviour, and their promises under one name each | | |

`PROJECT.json` maps every definition to the lines it stands for.

How things are abstracted, throughout:

* A request is one action when its answer and its effect cannot come apart for anybody; otherwise the effect, the answer
  and the moment they are read are separate. A write may be answered and take no or another effect, be refused, or take
  effect although its answer was lost, before or after the run has given up.
* A subject of the broker stands for one (project, kind, principal), a role for its position in `ROLE_LADDER` (`Custom`
  is a role outside it, `NoBinding` no membership), a grant id for the order in which the commands drew their uuid.
* Contents (formulas, descriptions, workflow inputs) are members of a small set: a property only asks whether two are
  equal.
* In `OpsEstate` the declared names are taken in any order, where the code follows the declaration: more behaviours,
  never fewer.
* `alone`, `checked`, `lost`, `troubled`, `raised`, `owned`, `asked`, `steady`, `revoked` (of `ElevationGate`), `own`,
  `answered`, `issued`, `torn`, `blind`, `vain` and `named` are history: no action's guard reads them. `torn` remembers
  that a write of a record failed or was cut short, `own` and `answered` what a script was told it made, `vain` that a
  write or a delete of deploy.py was accepted and changed nothing, `named` that the action reported its environment by
  name.
* A model of one platform object per name (`Orchestrator`, `Federation`) has the names the script uses and no others;
  what matters is which identifier stands under a name.
* Definitions under a comment `Mutant:` are used by no specification. Each is a plausible slip in the definition after
  it, kept to show that a property notices.

## The runs

`tlc -config <cfg> <module>`; all of them finish within five minutes on two workers.

| Run | Module, cfg | What it checks |
|---|---|---|
| `broker` | `MCBroker`, `Broker.cfg` | one subject, commands one at a time: `BaselineWasOwned`, `RecordMovesForward`, `ClosedIsReverted`, and `KeepsContract` (the refinement) |
| `broker_two` | `MCBroker`, `BrokerTwo.cfg` | two subjects in one file: `RaisedIsRecorded`, `ElevationBounded` |
| `broker_revocation` | `MCBroker`, `BrokerRevocation.cfg` | two commands at once; **violated**: `RevocationKept` |
| `gate_revoked` | `MCElevationGate`, `ElevationGate.cfg` | a check beside the commands: `RevokedIsDenied` |
| `pre_delete` | `PreDeleteGate`, `PreDeleteGate.cfg` | two machines, two runs: `RemovedIsUnregistered`, `UnaskedIsKept`, `OverrunBounded`, `DeleteEnds` |
| `resilient` | `MCResilient`, `Resilient.cfg` | the token (`RefusedWasFresh`, `ReusedHasLife`: two identities, three processes, one file), the pages (`WholeWhenStill`: every cap, stride and total), the writes (`CleanExit`: two write proofs) |
| `content` | `MCContent`, `Content.cfg` | super metrics, hardware groups, policies, alerts, tags: `ConvergedAsDeclared`, `TornDownIsGone`, `SparesTheRest` (of super metrics `AdoptsOrCreatesOne`), `GetsThere` |
| `cycle` | `OpsCycle`, `OpsCycle.cfg` | the demonstration, and that it ends: `OneFailureLeavesNothing` |
| `leavers` | `MCLeavers`, `Leavers.cfg` | two people and a local account: `HeldIsClosed`, `ReturnedIsSpared`, `CleanExitMeansClosed` |
| `deploys` | `MCDeploys`, `Deploys.cfg` | the gate's applies and a removal, or deploys, a teardown and the drift tool: `ExitZeroIsTrue`, `RunningIsSpared`, `BoundInTheEnd` |
| `ownership` | `MCOwnership`, `Ownership.cfg` | the five scripts: `MadeIsRecorded`, `ActsOnlyOnItsOwn`, `InUseIsSpared`, `ExitZeroIsTrue` |
| `watch` | `MCWatch`, `Watch.cfg` | keys, credentials, schedules, sessions: `ExitIsTrue`, `EndIsForetold` |

All but `broker_two`, `gate_revoked`, `broker_revocation` and `cycle`, whose modules another run covers, check a type
invariant that says more than types: a recorded scope grant has both roles on the ladder, a gate's run calls the
registry for a delete only, a dry run never gets to the writes, the probe's ledger names one role of a name on a
vCenter, a token is sent to the broker only by the run that was given it, an organization of a schedule's own counts as read.

### Bounds, and why they are enough

* `broker`: three roles, so that a raised role can be raised again, the only way a wrong baseline can arise; two
  grants, so that the second can meet the first open, closing or settled; two faults, so that a failed write can be
  followed by a death; one clock tick with windows of one tick, so that a window closes by time as well as by
  revocation; one edit by an administrator at any moment.
* `broker_two`: two subjects share one pass, one save and one heartbeat; `MaxClock = 3` with `MaxAge = 1` and
  `MaxHours = 1` is the least clock at which a window that closed by time is overdue (`1 + 1 < 3`) while a heartbeat may
  still be fresh. An administrator's edits are left to `broker`. The two subjects are symmetric (nothing in the
  specification orders them) and the run checks safety only.
* `gate_revoked`: an empty ladder leaves action grants only, which is all `check` reads; an action that is destructive
  and one that is not; two grants, so that one can be revoked while another covers the same action.
* `pre_delete`: two machines and two runs let one machine's run outlive the request another's refusal ended; a deadline
  of 3, calls of 2 and a backoff of 1 make the last call start with less than a whole time-out left; `Operations = 3` is
  the connect, the TLS handshake and the read of an https call, each under the socket time-out; two faults allow a lost answer and then a refusal.
* `deploys`, the gate: two registries and two scopes, so that a second apply wants something else than the first left; two polls;
  one removal among any number of applies; two faults and one act of somebody else's in the category.
* `resilient`: three processes, two of them of one identity, two of the three at a time: the same entry is read and
  replaced by two, and a whole file by processes that care for different entries. A life of 3, a buffer and a mint delay
  of 1, so that a token can be fresh, inside the buffer or expired; two mints; one fault (a withdrawn token, a failed
  read or mint, a 401 for a good token). Up to four objects in every order, a page size of 2 capped to 1 or 2, pages
  counted by the size or by the cap, a total that is right or overstated by one, two changes during the walk, and four
  pages before it is given up, which a four-object collection at a cap of one reaches. Two write proofs, at once or in
  turn, and three faults: a create that is lost, an effect that is wrong and a check that fails can all happen in one
  behaviour.
* `content`, super metrics: one declared and one other name, two contents, five ids, one act of somebody else and two faults; a second
  name adds no interaction (names share only the list, which is one action, and the exit code), and `cycle` has two.
* `content`, groups: two hosts, a window of two hours, one move or edit at any moment and one fault. Policies: two
  postures, the stricter one bootstrapped while the other may be ranked before it, and one of another team. The posture's
  groups are there or come later. Alerts: two
  on one symptom, two sends where the code has six (a switch is lost at most twice), two faults. Tags: two machines, two
  values, any approval. One act of others and one fault, where nothing else is said. The scripts share no state.
* `cycle`: two declared names (one drifts, the other is deleted by hand), four ids, one fault and one act of somebody
  else; deadlock is checked, so the cycle always comes to an exit.

* `leavers`: `ConfirmReads = 3` as in the code, and `Settle = 2`: Graph answers from before a change for two of the
  pauses and not for the third, which is the assumption under which the confirming reads mean something; one leaver
  allowed before the guard (`MaxLeavers = 1`), two federated people so that the guard counts, one act of somebody else
  and one refused call or crash. Runs follow each other without end.
* `deploys`, the content: three identifiers of each kind, so that an object can be made again twice, and one that names
  nothing, which is what a create that was accepted in vain answers with (`MaxId = 4`); one teardown and one act of
  somebody else among any number of deploys, readbacks and reconciles; two faults (a refused or unanswered call, or one
  that is accepted and changes nothing), so that one can leave a half and the next one meet it.
* `ownership`: one run at a time (a second run at once is in the table below), one act of somebody else at any moment
  and one fault: a refused call, a lost answer or a death. Two realms, and two clients for three tokens (one more than a
  rotation needs, for the one made at the console); two vCenters and one role name (the code has
  six on each vCenter, told apart by their names; they share the ledger, and a name on two vCenters shows that an entry
  is taken with its vCenter); two accounts; two keys and four
  objects (an organization and its two objects, and one that takes a place of theirs). The settings start from four
  organizations: empty, live, switched off with somebody else's, and SAML beside OIDC that is off.

* `watch`, keys: time is kept as ages, so there is no last hour; three minutes of three ticks make an hour, a look comes
  up to two ticks late and so may be short of an interval of one or two hours, and one refresh fails.
* `watch`, credentials: two of them, so that one can take the other's place or share its hint; ends at 5 and 8 and one
  that does not read, a watch every 3 ticks, a warning from one tenth of a day (3 ticks), three acts of administrators:
  the next credential is listed, stored, the old one removed.
* `watch`, schedules: two tenants and three organizations, so that one tenant has two; a third tenant and a provider that
  is not Entra exist to move to; every way to keep each schedule; one change, one failed read.
* `watch`, sessions: two vCenters, a job of each kind signing in at each moment of a cycle for 4 or 5 ticks, where the
  longest that can be missed is 4: the largest gap allowed is a minute (3 ticks), one tick more rounds to it, and a run
  reads its last vCenter one tick after it began. One list is not read; the span is the cycle.

Every bound is a constant named `Max…` (or `Together`) and is a guard of the action it limits (`Horizon` and `LastStart` are bounds on the clock). Deadlock is off in the
runs where the system really stops: all demos have ended, or all tokens are minted and the clock is at its bound.

### What the violation shows

`RevocationKept` (`broker_revocation`). `reconcile` loads the grants, works through them and then saves what it loaded
with its own marks. The run shows a pass that loads an ACTIVE grant and raises its binding; a `revoke` saves REVOKED and
prints "the next reconcile reverts its binding"; the save of the pass overwrites it, and the grant is ACTIVE again until
its window ends. (A pass that loaded the file before the grant was saved erases it altogether; `RevocationKept` asks of a
grant that is still in the file.) Commands run one at a time never do this (`RecordMovesForward`, proved).

## Promises that do not hold

Some sentences of the repository's documentation say more than the code keeps. Each is a property of its module, with
the comment "It does not hold" and the reason. One has a run of its own (above). The others are reproduced by checking
the one property with the cfg and the change of bounds in the table, under the specification without fairness (`Spec`,
`GateSpec` or `CycleSpec`; a property of a module below `Resilient`, `MCDeploys`, `MCContent`, `MCOwnership` or `MCWatch` by its instance, `Api!…`, and with its
script fixed); the last column is the number of states of the shortest behaviour that breaks it.

| Property | Module, cfg, change | The code | What it disagrees with | States |
|---|---|---|---|---|
| `BaselineWasOwned` for two commands at once | `Broker`: `Procs = {p1, p2}`, no faults, no edits | broker.py:228 reads the baseline after the file was judged | broker.py:10-11, the baseline is what the subject held before | 10 |
| `ElevationBounded` for two commands at once | `BrokerTwo`: `Procs = {p1, p2}`, one subject, no faults | broker.py:162 replaces the file whole | broker.py:24-25, every failure but a stopped reconciler is safe | 10 |
| `NoAccessCreated` | `Broker`: no faults | broker.py:332 applies what it decided on an earlier read | broker.py:314-315, reverting must not create access | 8 |
| `AllowedWhileLive` | `ElevationGate` | broker.py:287 judges at a time read before two sign-ins | broker.py:17-18, allowed while a grant is live | 7 |
| `StopsAtDeadline` | `PreDeleteGate` | gate.py:89, a time-out bounds each blocking operation | gate.py:15 and test_gate.py:87, refused at the deadline, never later | 11 |
| `AppliedAsSent` | `Deploys`: `Rests = {t1, t2}` | deploy_gate.py:251 and 270-272 compare some of the fields: of the workflow not every one, of the subscription neither name, description nor priority | deploy_gate.py:22 and 24, every write is read back, 1 when one disagrees; deploy_gate.py:273, every field as sent | 11 |
| `NothingIsBound` | `Deploys` | deploy_gate.py:290-295 goes on when the subscription stays | deploy_gate.py:295-296, nothing is bound to it | 16 |
| `EmptyOnly` | `Deploys` | deploy_gate.py:299 takes an error for an empty category | deploy_gate.py:9, the category goes when it is empty | 14 |
| `EntriesStay` | `Resilient` | resilient.py:107 replaces the file with what a failed read gave | resilient.py:85, never rewritten blindly | 13 |
| `WholeWhenChanging` | `Resilient` | resilient.py:188 stops on a count | resilient.py:10, a whole collection | 6 |
| `DeletesItsOwn` | `Resilient` | demo.py:218 deletes what `ensure` found | demo.py:18-19, it deletes the one it created | 11 |
| `DeletionIsVerified` | `Content` | teardown.py:55 reads an error as an empty list | teardown.py:5-6, the deletion is verified | 7 |
| `NoUndeclaredWrites` | `Content`: `MaxOthers = 2` | converge.py:116 writes to an id it listed earlier | converge.py:11, what is not declared is left alone | 6 |
| `AlwaysHeldForDwell` | `Content`: `MaxMoves = 2` | reconcile_infra_groups.py:454 saves the stamps last, a run that fails before loses them | reconcile_infra_groups.py:146, hold a departed resource for a dwell window | 16 |
| `OneRunRanks` | `Content` | _priority.py:22 puts a policy that is not ranked yet behind the last of ours, the stricter one too | reconcile_policy.py:16, ranked strict-first inside the positions they hold | 9 |
| `ForeignAlwaysStaysPut` | `Content` | reconcile_policy.py:202 replaces the order by what it reckoned from an earlier read | _priority.py:5, every foreign policy exactly where it is | 8 |
| `NoAlertIsEverLost` | `Content` | deploy_alerts.py:138 reads each policy once it holds, and not again | deploy_alerts.py:121-122, enable first, or the policy would lose it | 19 |
| `HoldsWhenRemoving` | `Content` | _tagdefs.py:165 deletes the category with the values that were held | writeback_tags.py:302, a human's different value is held, never removed | 8 |
| `NoPartialState` | `Content` | writeback_tags.py:282 has taken the old value off before the attach that did not land | writeback_tags.py:293, no partial state was written that vCenter would show | 10 |
| `LeavesNothingBehind` | `OpsCycle` | cycle.py:187 lists once, a late create lands after it | cycle.py:2, leaves nothing behind | 16 |
| `HeldMeansNoOp` | `OpsCycle` | cycle.py:202 looks at the second run's exit code only | cycle.py:9, the second run changes nothing | 51 |
| `AdoptsOnlyItsOwn` | `OpsCycle` | cycle.py:113 looks at the names once, before the dry run | cycle.py:25-26, never on an object it did not make | 9 |
| `EveryReturnedIsSpared` | `Leavers` | leavers.py:1421 reads the members afresh and takes the assignments of the first read | leavers.py:1423, read each account's state again | 10 |
| `TornDownIsGone` (`Orchestrator`) | `Deploys` | deploy.py:544 and 551 take a read that is answered with an error for absence, and deploy.py:538-541 a delete that is accepted for one that was done | deploy.py:25, deletes exactly the objects the manifest names | 13 |
| `ReadBackIsBound` | `Deploys` | deploy.py:499 is content with the name of the environment, which may have been made again | deploy.py:16-17, confirms the environment it reports is the one layer 4 made here | 26 |
| `EveryRunningIsSpared` | `Deploys` | reconcile.py:238 reads the executions, line 255 sends the definition | reconcile.py:11, references and in-flight executions checked first | 30 |
| `RetiresBehindItsOwn` | `Ownership` | api_client.py:950 records every token the list shows after a create | api_client.py:22, refused when the newest is not the one this script issued last | 21 |
| `EveryMadeIsRecorded` (`ApiClient`) | `Ownership` | api_client.py:827 writes one file for a client id, whatever the realm | api_client.py:926, so a client left part way can still be removed | 6 |
| `ProvedRotationHolds` | `Ownership` | api_client.py:1023 counts active tokens, and holds them against all that were there before | api_client.py:98, done: the new token proved and active beside the old ones | 21 |
| `DeletesWhatItRead` | `Ownership`: `MaxOthers = 2` | api_client.py:1155 deletes by the name, which somebody may have given to another client | api_client.py:858, refuses a client this script did not make | 15 |
| `RetireKeepsServed` for two runs at once | `Ownership`: two runs, `Together = 2` | api_client.py:827, the later of two rotations replaces the file | api_client.py:1078, it may not be the one the integration uses | 26 |
| `MadeIsRecorded` of `ProbeRoles` for two runs at once | the same | authz.py:1189 replaces the ledger by what the run loaded | authz.py:1201, one role made, written at once | 9 |
| `RemovalNeverTakesAccess` | `Ownership` | authz.py:1370 deletes roles after one read of the grants | authz.py:1367, removing the role would remove those grants with it | 13 |
| `EveryStoredTokenLives` | `Ownership` | service_account.py:711, the answer with the rotated token is lost | service_account.py:712, a rotated token replaces the stored one | 13 |
| `MadeIsRecorded` of `ServiceAccount` for two runs at once | as above, two runs | service_account.py:659 truncates the other's state file | service_account.py:661, so an account left part way can still be removed | 13 |
| `MemberIsImported` | `Ownership` | org_federation.py:1452 takes a group of that name as imported | org_federation.py:12, the group with the member-level role | 22 |
| `RefusedSentNothing` | `Ownership` | org_federation.py:1381 makes the organization before it reads the other names | org_federation.py:127, refused by what it read, with nothing sent | 6 |
| `EveryMadeIsGone` | `Ownership` | org_federation.py:1399 looks an object up in a list that lags, and makes another | org_federation.py:65, reads each object back to confirm nothing is left | 29 |
| `UsersAlwaysStayMatched` | `Ownership` | org_federation.py:2701 reads the users before the settings are sent | org_federation.py:2348, never switched in place under the users it keys | 6 |
| `OffAlwaysStaysOff` | `Ownership` | org_federation.py:2821 sends the switch as it was read | org_federation.py:2821, a federation switched off stays off unless --enable | 6 |
| `AdviceIsSafe` | `Watch` | watch.py:343 holds the last success against the interval in force now, which watch.py:351 just advised to lower | watch.py:162, past the interval plus an hour refreshes are not succeeding | 27 |
| `EndedFails` | `Watch` | watch.py:410 asks for a number of days below 0, which watch.py:317 has rounded to a tenth | watch.py:47, expired fails | 11 |
| `HeldIsListed` | `Watch` | watch.py:1262 knows the secret by three characters | watch.py:47-48, a held secret that matches none of the app's fails | 4 |
| `FailureIsSaid` | `Watch` | watch.py:1710 is not guarded as line 1706 is: an error there ends in watch.py:1577 | watch.py:124-128, 3 when nothing failed and a record could not be written | 5 |
| `IntervalIsEnough` | `Watch` | vcenter_exchange.py:1313 rounds the gap, and line 1138 stamps a run before it reads | vcenter_exchange.py:50, read at intervals shorter than the shortest session | 17 |

The first two hold for commands that run one at a time: both are
proved for them. All but `OneRunRanks` and `HoldsWhenRemoving` (which need only that somebody ranked or
tagged something before) need a second actor inside a window of seconds, an answer that is lost at a particular moment, or
a write that is accepted and takes another effect, and none is reached by the tools' own tests.

One behaviour a reader may expect in this list is by design: the reconcile writes the recorded baseline (broker.py:305)
also over a role an administrator set by hand during the window. No sentence promises otherwise and no property forbids
it; `owned` remembers every role an administrator gave, and a baseline is one of those.

## Fairness

* `Broker!FairSpec`: time passes (`WF Tick`), a command that runs takes its next step (`WF Step(p)`), and the scheduled
  reconcile gets a turn and starts in spite of other commands (`SF PassStarts(p, TRUE)`: strong, because a command that
  keeps starting disables it again and again): "Run it on a schedule", says the tool's README. Failures are
  finite (`MaxFaults`), so some pass succeeds; no fairness makes a request succeed.
* `PreDeleteGate!DeleteFairSpec`: somebody asks for the delete again after a refusal (`WF Asks("delete")`); the platform
  carries on with a request all machines of which are cleared (`WF Completes`); a run goes on (`WF RunStep(x)`); the
  event of a machine the request waits for reaches a run in the end (`SF`, because runs busy with late or repeated
  events disable it for a while). Late, repeated and unreadable events have no fairness: they may never come.
* `MCDeploys!FairSpec` is the fairness of both its modules, each while its script is the one that runs.
* `GateBinding!FairSpec`: the Automation host enumerates (`WF Enumerates`), a run that is in an apply or a removal goes
  on (`WF`), and apply is started again (`WF Starts("apply")`), as an operator would after an exit that is not 0.
* `MCContent!FairSpec` is the fairness of its modules, of the script that runs. The three controllers and the write-back
  are run routinely ("a routine reconcile", says reconcile_policy.py; strong where another way to run takes its turns),
  a run goes on, and in `InfraGroups` time passes. An empty group of machines, which is refused for ever, and somebody
  else's category are excepted in `GetsThere`.
* `OpsEstate!FairSpec`: a script that runs goes on (`WF ToolStep`), converge is run again (`SF Starts("converge")`,
  converge.py says "run it again"; strong, because the teardown takes its turns as well), and an accepted write lands
  (`WF Lands`).

* `Orchestrator!FairSpec`: a run goes on (`WF Step`), and the pipeline deploys again (`SF Starts("deploy")`, strong
  because the teardown and the drift tool take turns on the same appliance). `BoundInTheEnd` follows although a deploy
  may fail twice and somebody may delete an object once.

The other modules check safety only, the watch among them: `EndIsForetold` takes its schedule as kept (`Tick` waits for a
run that is due), which is what a scheduler gives, and says what is known by then. Where a run ends by a bound (all demos ended, all tokens minted), nothing is
claimed about what would follow.

## What is proved

`tlapm` on each module whose name ends in `Proofs`. Nothing is taken for granted but the named `ASSUME` of the modules,
which TLC evaluates on every run of them, and the hypothesis stated in a theorem.

| Theorem | For every number of | Assumes |
|---|---|---|
| **`BrokerProofs`** | | |
| `TypeCorrect`: `Spec => []TypeOK` | processes, subjects, roles, grants, faults | |
| `RaisedAlwaysRecorded`: an elevated subject has an open grant of exactly that role | subjects, roles, grants, faults | `Serialized` |
| `BaselineAlwaysOwned`: the baseline of an open grant is a role an administrator gave | the same | `Serialized` |
| `RecordAlwaysForward`: saving the file loses no approval, revocation or revert | the same | `Serialized` |
| `RevokedAlwaysDenied` (of `ElevationGate`): no check allows by a grant whose revocation was printed before it began | the same, and checks | `Serialized` |
| `ElevationAlwaysBounded`: under a fresh heartbeat nobody is elevated by a grant that is overdue | the same, and hours and the heartbeat's age | `Serialized` |
| `BrokerKeepsContract`: `Spec => KeepsContract`, the refinement of `ElevationContract` | the same | `Serialized` |
| **`LeaversProofs`** | | |
| `LeaversTypes`: `Spec => []TypeOK` | accounts, tokens, confirming reads, runs, faults, acts of others | |
| `HeldAlwaysClosed`: a close that says it held has closed | the same | |
| `ReturnedAlwaysSpared`: who could sign in before the run began, and of whom nothing changed since, is not closed | the same | `Settle < ConfirmReads` (in `LeaversAssumption`) |
| `CleanExitAlwaysClosed`: after a clean exit everybody who had left is shut out | the same | the same |
| **`ResilientProofs`** | | |
| `ResilientTypes`: `Spec => []TypeOK` | processes, identities, tokens; objects, page sizes, pages; write proofs; faults | |
| `RefusedAlwaysFresh`: a 401 that reaches the caller was given to a token minted for that call | processes, identities, tokens, times, faults | |
| `ReusedAlwaysHasLife`: a bearer used again has not expired | the same | `MintDelay <= Buffer` (in `TokenAssumption`) |
| `AlwaysWholeWhenStill`: a walk returns the whole of a collection that stands still | objects, page sizes, caps, pages | a declared total is right or one too many (in `Init` of `PagedRead`) |
| `AlwaysCleanExit`: exit 0 of a write proof means written once, and nothing left | write proofs, faults | |
| **`DeploysProofs`** | | |
| `DeploysTypes`: `Spec => []TypeOK` | registries, scopes, polls, identifiers, runs, faults, acts of others | |
| `ExitZeroAlwaysTrue`: exit 0 of the gate's binding, the deploy, its readback and the drift tool says what is so | the same | nothing beyond the property's own provisos (nobody else, of a deploy and a teardown no accepted write or delete without effect) |
| `RunningAlwaysSpared`: the definition of an execution the run saw is not replaced | the same | |
| `DeleteTypes` (of `PreDeleteGate`): `DeleteSpec => []DeleteTypeOK` | machines, runs, deadlines, retries, faults | |
| `FailsClosed`: a machine that is gone has no record | the same | |
| `ActsOnlyOnDeletes`: a record disappears for a delete only | the same | |
| `OverrunAlwaysBounded`: a run is past its deadline by at most the later operations of its last call | the same | |
| **`WatchProofs`** | | |
| `WatchTypes`: `Spec => []TypeOK` | intervals, ticks; credentials, days; tenants, organizations; vCenters, sessions, spans | |
| `ExitAlwaysTrue`: what a run's exit says is so | the same | |
| `EndAlwaysForetold`: no credential ends, and no key is missed for long, without a word | the same | a scheduler that keeps its schedule (in `Tick`) |
| **`ContentProofs`** | | |
| `ContentTyped`: `Spec => []TypeOK` | names, contents, identifiers, page sizes; hosts, windows; postures, policies of others; definitions, sends; machines, values; runs, faults, acts of others | |
| `ContentConverges`: exit 0 of a converge that was left alone says that what is declared is so | the same | |
| `ContentTearsDown`: exit 0 of a teardown that was left alone and answered leaves nothing declared | the same | |
| `ContentSpares`: what a script did not come for stays (`AdoptsOrCreatesOne`, `Holds`, `LeavesForeign`, `KeepsFiring`, `Spares`) | the same | |
| **`CycleProofs`** | | |
| `CycleLeavesNothing`: `CycleSpec => []OneFailureLeavesNothing` | names, contents, other objects, identifiers | nothing beyond the property's own hypotheses (one failure, nobody else, no write lost, a page that holds all) |
| **`OwnershipProofs`** | | |
| `OwnershipTypes`: `Spec => []TypeOK` | runs at a time; realms, clients, tokens; vCenters, role names, roles, grants; accounts; objects of a directory; keys; runs, faults, acts of others | |
| `ExitZeroAlwaysTrue`: exit 0 of a run that was left alone says what is so | the same | |
| `AlwaysOnItsOwn`: no step removes or replaces what no run has made | the same | |
| `MadeAlwaysRecorded`: what a run was told it made is on record, wherever it stops | the same | `Together <= 1` |
| `InUseAlwaysSpared`: what somebody relies on is not taken away | the same | `Together <= 1`, for `RetireKeepsServed` only |

`Serialized` (at most one command at a time) is necessary: without it `BaselineWasOwned`, `RecordMovesForward` and
`ElevationBounded` have counterexamples (the table above and `broker_revocation`). It is what a single schedule with a
lock around the script gives, and what the code does not enforce.

`Together <= 1` (at most one run of a script at a time) is the same premise for the scripts that keep a state file: two
runs of `api_client.py` share one, and the later save replaces what the earlier one recorded. Exit codes
and `ActsOnlyOnItsOwn` need no such premise: a run beside another one is not left alone.

**The assumptions the proofs needed.** `LeaversAssumption` has `0 < Settle < ConfirmReads`: a directory whose old
answer lasts as long as the confirming reads go on defeats them, and for `Settle = 0` the model's change would leave an
old answer behind with no delay to end it. `RefreshAssumption` asks for a greatest interval, up to which ages are told
apart: the setting is a number with a bound. `CensusAssumption` asks that the first day of the model's
clock is within its last start, without which the clock's own bound is not invariant. `EstateAssumption` asks that
something is declared. `OwnershipAssumption` says that the bounds are naturals, that a behaviour has finitely many runs,
that a realm, a vCenter and a role name exist, and keeps the names that stand for "nothing" and "somebody else" apart
from the others. None restricts the code.

**What the proofs corrected.** `RemovalTakesNoAccess` looked at the step in which a run deletes a role, and the model lets an
administrator act in that same step; the property left that out, and with one act of others in the run TLC could not tell.
The property now asks that nobody else acted in the step. And a start of `Federation` and `FederationSettings` ended no
other run's being alone, as it does in the other three: it does now.

**The broker's argument.** `TypeOK` is not inductive: `Saves` and the pass write a command's private copy into the file,
so the copies have to be well typed too, with the fields each point of a command uses (`Sound`). `TypeInv` is `TypeOK`
and `Sound` of every command. For the safety theorems the invariant `SafeInv` has these parts:

* `TypeInv`;
* `Good(file, issued)`: no id from the future, one open grant for a subject, no reverted grant left active, and every
  open baseline a role an administrator gave, below the granted one;
* `HeldIsOwned`: a role the broker did not raise was given by an administrator, so that a baseline read from the
  platform is one, because the overlap check leaves no open (hence no raised) grant for the subject;
* `RaisedIsRecorded`;
* `InFlight` for each command: the private copy may replace the file. A draft is the file and one open grant more, for
  a subject that has none (`Drafting`); a copy about to be saved is good and keeps all the file says (`Saving`); a
  pass's copy is the file with reverts marked, and nobody is raised under a grant it has marked (`Passing`).

`InFlight` compares the copy with the file it came from, and is where `Serialized` is used: nobody else has replaced the
file since. Failed writes are the cases to watch: a write that landed and is reported as failed leaves a subject raised,
and the grant must not have been marked in the copy.

`CheckInv` puts the checks beside it: what a revocation printed is revoked in the file (`StepKeeps`, the lemma behind
`RecordAlwaysForward`, carries that through every save), and a check remembers no more than what was printed.

**The broker's clock and its contract.** `SafeInv` says nothing of time. `TimeInv` adds that after a pass without a
failure every open grant of the file was open, and not revoked, when that pass began (`OpenSince` the heartbeat), which
a later approval or revocation cannot spoil; and, of a pass under way, that it settles closed grants only and is done
with none that is closed and not settled (`Swept`). So under a fresh heartbeat an open grant is at most `MaxAge` past
its window. The refinement follows from the two: the register of the contract is what the file carries as not yet
reverted, `Saves` of a grant is `Approve`, of a revocation `Revoke`, the write of a pass is `Raise` or `Lower` with the
guard that `SafeInv` gives (and stutters when nothing changes), and the save at the end of the pass ends the settled
grants one by one, which the contract allows together.

**The gate's argument.** A run may outlive the request it was started for: the request is refused because of another
machine, and a second request is held while the first run still tries. `DeleteInv` therefore says of every run what it may
act on (`RunsFit`: a run that counts for the held request carries that request's event, and a run with a delete runs for
one that was asked for), of the request which machines it has cleared (`RequestFits`: a request is held for a deployment
it makes sense for, and a machine cleared for a delete has no record), and adds the two properties themselves.
`OverrunBounded` is inductive beside the types: a call starts with something left, its time-out is at most that, and all
of its operations but the first may go over (`CallOverrun`).

**Leavers.** `LeaversInv` follows what a run knows. Until the last confirming read: who stayed since the run began signs
in, and any old answer that would say otherwise ends before the last read (`StayedSignIn`: delay and rounds add up to at
most `Settle + 1`); who was gone is out, and Graph says so (`GoneAreOut`); and the lists tell all that a disabled
account owns (`ListsTell`). After it
(`CloseInv`): nobody who stayed is to be closed, and if the exit may be clean, each who was gone is closed, waits to be,
or has an outcome. `HeldInv` carries what the read-back of the account saw to the read-back of the tokens.

**The resilient client.** `ResilientInv` has one part for each guarantee. `TokenInv`: a reckoned expiry is at most the
true one plus the mint's time-out, in the file, in every copy read of it and in every process; a token's number orders
what happened, and a second try holds one above those given when the call began. `WalkInv` (`Straight`): on a
collection that has not changed, what was read is never more than the pages passed, and is that prefix in order when it
is as long, so that a count can be reached by the whole collection only. `WriteInv`: how often a run has sent follows from
where it is (`Counted`), a run with nothing to report has sent once and leaves nothing (`Honest`), and a run that had the
name to itself finds its group again and removes it (`Settled`, `Removed`); what may still come late has troubled its run.

**The Orchestrator.** `GateInv`: at each step of an apply what it imported reads back, the host knows it and the
subscription is as wanted; at each step of a removal what it took away stays away, and the category goes unless somebody
else has content in it. `ContentInv`: while nobody else acts and every accepted write took effect (`~vain`), what a
deploy has bound so far carries the identifiers that stand (`DeployInv`), and what a teardown has been through is gone
(`TeardownInv`, `~vain` and `~blind`); a readback and the drift tool read what is live, whatever the writes before them
did (`ReadbackInv`, `DriftInv`); whoever acts, an apply that saw an execution never gets to its put (`SawInv`).

**The watch.** One invariant for each component. `KeysInv` (`OnSchedule`): without a failure or an edit, the last success
was a whole number of hours ago, less the delay of its look, and no more hours than the interval and one. `CredsInv`:
the side read first is what the organization has as long as all has stayed so (`ReadInv`), and whoever left things alone
before the last run has been warned of an end within the warning (`ToldInv`), which is a period away at least.
`SchedulesInv`: the tally of a run says of every organization read that it was clean unless something bad was said
(`TallyInv`), and the last exits say the same of all until a change (`ExitInv`); that every organization is read by
some schedule, or by all, is in `Mine`. `SessionsInv`: a job that a whole census did not show was away at some moment of
its reads (`CensusInv`), so every session that began between two of them was shorter than the gap and a run's length
together (`RecordsInv`); the rounding of the gap and the oddness of a minute enter in the comparison only.

**What converges on a shared instance.** One invariant for each script, joined in `ScriptInv`; the promises are about a run
that was left alone, so each says how far such a run has come, and the promise falls out where it exits.

* `EstateInv` (super metrics): a name yet to come is as the list said, one that is behind stands as declared unless a
  call failed (`ConvergedSoFar`). A write that lands late counts as an act of somebody else, and that it can do no more
  than its plan is in the shape of the invariant (`EstateShape`: no delete without an identifier, no create without a
  content).
* `GroupsInv` (hardware groups): a stamp is no older than the last sight of the host, unless that sight was not saved
  (`StampsInv`); hence a host that is put out was last seen a window ago.
* `RanksInv` (policies): from the read to the PUT of a run that was left alone the order it read is the order there is
  (`RankedSoFar`). That the PUT leaves the others alone rests on lemmas about orders of any length: a set of numbers has
  an ascending order, which names each of them once (`AscendingIs`), ours fill their own positions one to one (`PlacedIs`), one that is new goes
  behind the last of them (`LastSlotIs`, `Inserted`), so that the result names everybody once and keeps every position of
  another team until the first of ours, and all of them if none of ours is new (`WithinIs`).
* `AlertsInv` (alerts): definitions and switches behind the deploy are as generated, and it reaches the phase that turns
  the default policy off only when every alert is on in the posture's (`AlertsSoFar`).
* `TagsInv` (tags): machines yet to come are as they were read, those behind carry what they should (`AppliedSoFar`), or
  no longer do (`RemovedSoFar`); a machine between two calls is the one exception.

**The cycle.** `CycleInv` says, while at most one failure has happened and nothing came from outside, what each step leaves
for the next: the names of a run still to come are as it listed them (`RunShape`); without a failure a converge gets every
name there, and the one object the cycle deletes is there to be deleted (`ConvergeGoesRight`); a teardown has removed
what it is through with, unless the one failure fell in it, and then it does not exit 0 (`TeardownGoesRight`), so that
the final teardown runs, and runs without a failure (`CycleGoesRight`). A failure before anything was created
leaves nothing to take down. That one page shows everything is `PageIsWhole`, by cardinality.

**What a script made.** One invariant for each script (`ApiInv`, `ProbeInv`, `AccountInv`, `FedInv`, `SettingsInv`),
joined in `OwnershipInv`. They have the same layers:

* *types*, and which fields a run uses at which point (`Turn`, `Moded`, `Suits`, `FedModed`, `Argued`);
* *whose things a run may touch*: the state file, the ledger and every copy of them name only what a run was told it
  made or adopted (`Known`, `Entries`, `Reach`), and a number is given once (`Fleet`, `FedWorld`), so that nothing others make, rename
  or put in its place is taken for the script's own;
* *what a run left alone has achieved so far* (`ApiFit`, `ProbeFit`, `CreateFit` and `TeardownFit`, `FedFit`,
  `SettingsFit`): what it read still holds, and what it is through with is done; the promise of exit 0 is the last line of
  each. A probe or a removal of roles keeps its copy of the ledger equal to the file, and before it deletes, nobody but
  itself is granted one of the roles; a rotation's list is the tokens there, with its own added; the settings that are
  sent are those of an organization whose trust and users are as they were read;
* *what is on record* (`ApiRecord`, `ProbeRecord`, `AccountRecord`, `FedRecord`): what was told made and is still there is
  in the file, or in the hands of the run that is about to write it. Here the premise of one run at a time enters.

`ApiSole` adds, for one run at a time, that the token a rotation handed over is the newest the script was given
(`Newest`) and the one the integration uses, which is why a retirement behind it spares that token. "The newest" and "the last
answered" exist because numbers have a greatest, which the invariant carries along (`HaveGreatest`): each number given is
greater than those before. `OrgFit` is the part of `FedInv` behind `KeyIsKept`: the key a build is going to write is the
one the organization has, if it has any.

The proofs are laid out as one lemma per action, with the common parts (a command that ends, a command that moves on, a
run that changes and nothing else) as lemmas of their own. In the modules that put several components side by side, a
lemma for each component says that its steps keep its part and the theorem joins them.

**Only model-checked.** Liveness (`ClosedIsReverted`, `DeleteEnds`, `BoundInTheEnd`, `GetsThere`) and with it everything
about fairness and `ENABLED`, which the prover does not reach. Every safety property of a passing run is a theorem. Statements that need induction over data (what a recursive definition computes for every input)
are beyond the installed provers; the modules have none.

## What is not modelled

Inside the modelled files:

* `save_grants` writes a temporary file of a fixed name and renames it; `Saves` is one atomic replacement. Two commands
  that save at the same moment share the temporary file; see the plan.
* `cmd_heartbeat` changes no state; what it reads off the heartbeat is the operator `Fresh`, which `ElevationBounded`
  uses.
* A heartbeat or cache file torn by a death in the middle of a write. The cache is replaced by rename; the heartbeat's
  write is one action.
* `teardown.py --dry-run`, which lists and ends; and the export and audit modes of the scripts, which read and print.
* Printing, parsing of arguments, signing requests, TLS, and the text of every message.
* The mint of a tenant's token in `demo.py`, where the refresh token rotates: only the client's own mints are modelled.

* leavers.py: finding accounts by name, several organizations in one run, `--max-leavers` and the acknowledgement flags
  (they narrow who is closed); the lists of users and of tokens are one read each.
* deploy.py and reconcile.py: planning and validating a manifest, packaging, several objects of a kind. A write either
  takes effect as sent or changes nothing. That a category
  refuses its deletion while it holds content is an assumption on the appliance.
* api_client.py: the refusals by time-to-live policy and by signing in as the client itself, `--old-token-file`, the
  page walk inside a list. service_account.py: which role an account holds (one that is active holds its role), replay.
* authz.py: the measuring of privileges, tags and Supervisor grants, renaming a role at a vCenter, groups a grant
  reserves; a malformed ledger refuses to load and ends the run.
* org_federation.py: SAML metadata of a provider that is not Entra (switched off, the code refuses it as little as none);
  consent, secrets, certificates and signing keys, members of the group, `--prove`, role and type
  checks, several groups in one run; a state file cut short counts as none, which an administrator removes.
* watch.py: the checks of one read that relate to nothing else (`pkce`, `app_gate`, `group_names`, `break_glass`,
  `own_token`, the attested report), which enter `Schedules` as the state an organization's side has; a run restricted by
  `ORGS`, `--why`, and the scrub of the record. inventory.py reads.
* vcenter_exchange.py: the exchange of a token on each vCenter and exit 2; which agents count as interactive, keyed
  fingerprints, the terminal-only reports. Other sessions than the job's and the reader's are taken to be there.
* reconcile_infra_groups.py: the Clusters group, which goes the same way behind the Hosts group (its failure is a fault of
  `Saves`); a posture without a policy, `--posture-governs-hardware`, dry runs, the analysis. The ages stand for clock
  readings of one clock.
* reconcile_policy.py: several target postures, postures without a committed source, the record written at the end; dry
  runs. What the instance does with a ranked policy the sent order does not name (kept last, or no longer ranked) is
  left open. deploy_alerts.py: the wait of ten seconds, a policy export that lags.
* writeback_tags.py: several categories, machines that are not on this vCenter, the coverage count, the probe of the tag
  authority; the proposals that are approved are data. That a category of cardinality SINGLE refuses a second value, and
  is deleted with what is attached, is an assumption on vCenter.
* Replays of recorded answers, which send nothing.

All other folders: `PROJECT.json` says for each why. The reading scripts have no state to be wrong about; their output
is a function of the answers. The throwaway proofs create, read back and remove one object with the pattern
`EnsuredWrite` checks. `strategy/generator` renders pages from records in one pass without state, and is by far the
largest part of the source: it would add lines to the model and no behaviour.

## The plan

The order is by what can go wrong and by how little a test would reach it.

1. **Inside the save** (`AtomicSave`): the fixed temporary name, write, rename, and a death in between, shown to
   implement the atomic replacement for one process and not for two.
2. **Smaller ones**: the switch of log alerts (left on after the last attempt, its monitors read by nobody), the passes
   of the `frameworks/wtpc/destroy.py` (a chain of metrics longer than the five passes stays), `reconcile_checks` of availability,
   the projection of metadata.

A further module shares a run with an existing one where the questions are alike, so that the whole suite stays within
twenty minutes.
