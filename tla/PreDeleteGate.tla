---------------------------- MODULE PreDeleteGate ----------------------------
(***************************************************************************)
(* The pre-delete gate of handbook/event-model/gate.py, and around it the  *)
(* platform that calls it and the registry it calls.                       *)
(*                                                                         *)
(* The platform holds a request on one deployment while the gate runs once *)
(* per resource; a run that raises refuses the request with every resource *)
(* in place, and the request goes through when a run has returned for each *)
(* resource.  Events may be delivered again, and a run goes on after its   *)
(* request was refused.  The registry may fail, and may do what it was     *)
(* asked and lose the answer.                                              *)
(***************************************************************************)
EXTENDS Integers

CONSTANTS
  Resources,     \* the machines of the deployment
  Runs,          \* workflow runs that can be going at the same time
  NoResource,
  Deadline,      \* deadlineSeconds
  PerCall,       \* PER_CALL_SECONDS
  Backoff,       \* BACKOFF_SECONDS
  Operations,    \* blocking socket operations of one request; the timeout is on each
  MaxFailures    \* bound on unreadable events and failing answers

ASSUME GateAssumption ==
  /\ Deadline \in Nat /\ PerCall \in Nat /\ Backoff \in Nat /\ MaxFailures \in Nat
  /\ Operations \in Nat \ {0}
  /\ NoResource \notin Resources

VARIABLES
  deployment,  \* the platform: what has become of the resources
  request,     \* the platform: the request being held
  cleared,     \* the resources whose run has returned for this request
  registry,    \* the resources the registry has a record of
  run,         \* the workflow runs
  asked,       \* history: somebody has asked for the delete
  failures

deleteVars == <<deployment, request, cleared, registry, run, asked, failures>>

Asleep == [pc |-> "idle", event |-> "none", resource |-> NoResource, current |-> FALSE,
           left |-> 0, attempts |-> 0]

\* A run that begins on event e for resource r; current: its answer counts for the held request.
Begun(e, r, current) ==
  [pc |-> "plan", event |-> e, resource |-> r, current |-> current, left |-> 0, attempts |-> 0]

DeleteTypeOK ==
  /\ deployment \in {"absent", "present", "removed"}
  /\ request \in {"none", "create", "delete"}
  /\ cleared \subseteq Resources
  /\ registry \subseteq Resources
  /\ run \in [Runs -> [pc : {"idle", "plan", "call", "sleep"},
                       event : {"none", "create", "delete", "unreadable"},
                       resource : Resources \cup {NoResource}, current : BOOLEAN,
                       left : Int, attempts : Nat]]
  /\ \A x \in Runs : /\ run[x].pc # "idle" => run[x].resource \in Resources
                     /\ run[x].pc \in {"call", "sleep"} => run[x].event = "delete"
  /\ asked \in BOOLEAN
  /\ failures \in Nat

DeleteInit ==
  /\ deployment = "absent" /\ request = "none" /\ cleared = {} /\ registry = {}
  /\ run = [x \in Runs |-> Asleep]
  /\ asked = FALSE /\ failures = 0

-----------------------------------------------------------------------------
(* The platform. *)

Asks(kind) ==
  /\ request = "none"
  /\ \/ kind = "create" /\ deployment = "absent"
     \/ kind = "delete" /\ deployment = "present"
  /\ request' = kind
  /\ asked' = (asked \/ kind = "delete")
  /\ UNCHANGED <<deployment, cleared, registry, run, failures>>

\* The event of the held request for resource r, the first time or again.
Delivers(x, r) ==
  /\ request # "none" /\ run[x].pc = "idle"
  /\ run' = [run EXCEPT ![x] = Begun(request, r, TRUE)]
  /\ UNCHANGED <<deployment, request, cleared, registry, asked, failures>>

\* The event of a delete that is over, done or refused, is delivered once more.
DeliversLate(x, r) ==
  /\ asked /\ run[x].pc = "idle"
  /\ run' = [run EXCEPT ![x] = Begun("delete", r, FALSE)]
  /\ UNCHANGED <<deployment, request, cleared, registry, asked, failures>>

\* An event without its type, or a delete without its id.
DeliversUnreadable(x, r) ==
  /\ request # "none" /\ run[x].pc = "idle" /\ failures < MaxFailures
  /\ run' = [run EXCEPT ![x] = Begun("unreadable", r, TRUE)]
  /\ failures' = failures + 1
  /\ UNCHANGED <<deployment, request, cleared, registry, asked>>

\* Every resource has its go-ahead.  What a create registers is recorded when it completes.
Completes ==
  /\ request # "none" /\ cleared = Resources
  /\ deployment' = IF request = "create" THEN "present" ELSE "removed"
  /\ registry' = IF request = "create" THEN Resources ELSE registry
  /\ request' = "none" /\ cleared' = {}
  /\ run' = [x \in Runs |-> [run[x] EXCEPT !.current = FALSE]]
  /\ UNCHANGED <<asked, failures>>

-----------------------------------------------------------------------------
(* One run of the gate. *)

Returns(x) ==
  /\ cleared' = IF run[x].current THEN cleared \cup {run[x].resource} ELSE cleared
  /\ run' = [run EXCEPT ![x] = Asleep]
  /\ UNCHANGED request

Raises(x) ==
  IF run[x].current
  THEN /\ request' = "none" /\ cleared' = {}
       /\ run' = [y \in Runs |-> IF y = x THEN Asleep ELSE [run[y] EXCEPT !.current = FALSE]]
  ELSE /\ run' = [run EXCEPT ![x] = Asleep]
       /\ UNCHANGED <<request, cleared>>

\* Mutant: every event is taken for a delete.
PlansAll(x) ==
  /\ run[x].pc = "plan"
  /\ run' = [run EXCEPT ![x].pc = "call", ![x].left = Deadline]
  /\ UNCHANGED <<request, cleared, deployment, registry, asked, failures>>

\* plan, and unregister up to its loop.
Plans(x) ==
  /\ run[x].pc = "plan"
  /\ \/ run[x].event = "create" /\ Returns(x)
     \/ run[x].event = "delete" /\ Deadline > 0
        /\ run' = [run EXCEPT ![x].pc = "call", ![x].left = Deadline]
        /\ UNCHANGED <<request, cleared>>
     \/ run[x].event = "unreadable" /\ Raises(x)
     \/ run[x].event = "delete" /\ Deadline = 0 /\ Raises(x)
  /\ UNCHANGED <<deployment, registry, asked, failures>>

Lesser(a, b) == IF a < b THEN a ELSE b

\* Mutant: what is left of the deadline does not bound the call.
TimeoutWhole(x) == PerCall
Timeout(x) == Lesser(run[x].left, PerCall)

\* How long one request can take.
Costs(x) == 0 .. Operations * Timeout(x)

\* Mutant: a missing record is an answer like any other 4xx.
CallIsDoneOnce(x) ==
  /\ run[x].pc = "call" /\ run[x].left > 0
  /\ registry' = registry \ {run[x].resource}
  /\ IF run[x].resource \in registry THEN Returns(x) ELSE Raises(x)
  /\ UNCHANGED <<deployment, asked, failures>>

\* The record is removed and the answer is 2xx, or there is none and the answer is 404 or 410.
CallIsDone(x) ==
  /\ run[x].pc = "call" /\ run[x].left > 0
  /\ registry' = registry \ {run[x].resource}
  /\ Returns(x)
  /\ UNCHANGED <<deployment, asked, failures>>

\* Mutant: the registry's trouble is not the delete's.
CallFailsOpen(x) ==
  /\ run[x].pc = "call" /\ run[x].left > 0 /\ failures < MaxFailures
  /\ Returns(x)
  /\ failures' = failures + 1
  /\ UNCHANGED <<deployment, registry, asked>>

\* 408, 429, 5xx or no answer at all; the record may be gone all the same.
CallFails(x) ==
  /\ run[x].pc = "call" /\ run[x].left > 0 /\ failures < MaxFailures
  /\ registry' \in {registry, registry \ {run[x].resource}}
  /\ \E cost \in Costs(x) :
       run' = [run EXCEPT ![x].pc = "sleep", ![x].left = @ - cost, ![x].attempts = @ + 1]
  /\ failures' = failures + 1
  /\ UNCHANGED <<deployment, request, cleared, asked>>

\* Any other 4xx: a refusal that retrying will not change.
CallIsRefused(x) ==
  /\ run[x].pc = "call" /\ run[x].left > 0 /\ failures < MaxFailures
  /\ Raises(x)
  /\ failures' = failures + 1
  /\ UNCHANGED <<deployment, registry, asked>>

Sleeps(x) ==
  /\ run[x].pc = "sleep"
  /\ run' = [run EXCEPT ![x].pc = "call",
                        ![x].left = IF @ > 0 THEN @ - Lesser(Backoff * run[x].attempts, @) ELSE @]
  /\ UNCHANGED <<deployment, request, cleared, registry, asked, failures>>

GivesUp(x) ==
  /\ run[x].pc = "call" /\ run[x].left <= 0
  /\ Raises(x)
  /\ UNCHANGED <<deployment, registry, asked, failures>>

-----------------------------------------------------------------------------
RunStep(x) == Plans(x) \/ CallIsDone(x) \/ CallFails(x) \/ CallIsRefused(x) \/ Sleeps(x) \/ GivesUp(x)

DeleteNext ==
  \/ \E kind \in {"create", "delete"} : Asks(kind)
  \/ \E x \in Runs :
       \/ RunStep(x)
       \/ \E r \in Resources : Delivers(x, r) \/ DeliversLate(x, r) \/ DeliversUnreadable(x, r)
  \/ Completes

DeleteSpec == DeleteInit /\ [][DeleteNext]_deleteVars

\* The platform still waits for resource r and nothing runs for it.
Awaits(r) == r \notin cleared /\ \A x \in Runs : ~(run[x].current /\ run[x].resource = r)

\* Somebody asks for the delete again after a refusal, the platform delivers the event of every
\* resource it waits for, and a run goes on; the registry's failures are finite (MaxFailures).
DeleteFairSpec ==
  /\ DeleteSpec
  /\ WF_deleteVars(Asks("delete")) /\ WF_deleteVars(Completes)
  /\ \A x \in Runs : WF_deleteVars(RunStep(x))
  /\ \A r \in Resources : SF_deleteVars(Awaits(r) /\ \E x \in Runs : Delivers(x, r))

-----------------------------------------------------------------------------
\* Fail closed: a machine that is gone has no record left, whatever failed, was delivered twice or ran
\* on from an earlier, refused request.
RemovedIsUnregistered == deployment = "removed" => registry = {}

\* Act only on deletes: as long as nobody asked for a delete, a deployment keeps all its records.
UnaskedIsKept == deployment = "present" /\ ~asked => registry = Resources

\* Bound your own runtime: a run is past its deadline by at most what the later blocking operations of
\* its last call can take.
OverrunBounded == \A x \in Runs : run[x].left >= -((Operations - 1) * PerCall)

\* "unregister() stops at deadlineSeconds and raises": no run is ever past its deadline.
\* It does not hold: the time-out of a request bounds each of its blocking operations, not their sum.
StopsAtDeadline == \A x \in Runs : run[x].left >= 0

\* Stay idempotent: a delete that is asked for is done in the end, though the answer that removed a
\* record was lost or another resource of the same request was refused.
DeleteEnds == asked ~> deployment = "removed"
=============================================================================
