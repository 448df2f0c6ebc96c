-------------------------- MODULE BrokerRefinement --------------------------
(***************************************************************************)
(* The broker run one command at a time implements ElevationContract: the  *)
(* register holds, for each subject, the scope grant the file carries as   *)
(* not yet reverted.                                                       *)
(***************************************************************************)
EXTENDS Broker

EntryOf(g) ==
  [role |-> g.role, baseline |-> g.baseline, expires |-> g.expires, revoked |-> g.state = "REVOKED"]

OpenFor(s) == {i \in OpenIds(file) : file[i].subject = s}

entry ==
  [s \in Subjects |-> IF OpenFor(s) = {} THEN NoGrant
                      ELSE EntryOf(file[CHOOSE i \in OpenFor(s) : TRUE])]

Contract == INSTANCE ElevationContract WITH NoEntry <- NoGrant

ASSUME EntryAssumption == NoGrant \notin Contract!Entries

\* The broker keeps the contract: whatever it does to the file and to a binding, the register and the
\* binding move together (cmd_grant's refusals, cmd_reconcile's order of write, mark and save).
KeepsContract == Contract!Spec
=============================================================================
