------------------------------ MODULE MCPayments ------------------------------
EXTENDS Payments, TLC

CONSTANTS o1, a1, a2, h1, h2, w1, w2, v1, v2

(* Two attempts of one order, the second for a repeated or a retried       *)
(* submission.                                                             *)
MCAttempts == {a1, a2}
MCOrderOf == [a \in MCAttempts |-> o1]
MCReferences == {a1, a2, o1}

NoEvents == [e \in Events |-> 0]
(* The provider gives every attempt its own reference ... *)
Own(statuses, events) ==
  [events |-> events @@ NoEvents,
   provider |-> [reference |-> [a \in MCAttempts |-> a], names |-> {"transaction", "both"},
                 statuses |-> statuses]]

(* ... or all attempts of an order the same one. *)
Same(statuses, names, events) ==
  [events |-> events @@ NoEvents,
   provider |-> [reference |-> [a \in MCAttempts |-> o1], names |-> {names},
                 statuses |-> statuses]]

MCScenarios ==
  {\* the provider fails until a command is given up, around two crashes or none
   Own({"accepted", "completed"}, [submit |-> 1, error |-> 3, webhook |-> 1]),
   Own({"accepted", "completed"}, [submit |-> 1, error |-> 3, crash |-> 2]),
   \* its webhooks come in any order, before or after a sync, or unsigned
   Own({"completed", "failed"}, [submit |-> 1, webhook |-> 2, retry |-> 1, crash |-> 1]),
   Own(ProviderStatus, [submit |-> 1, webhook |-> 2, sync |-> 1]),
   Own({"completed", "returned"}, [submit |-> 1, webhook |-> 1, sync |-> 1, crash |-> 1]),
   Own({"accepted", "completed"}, [submit |-> 1, unsigned |-> 1, retry |-> 1, crash |-> 1]),
   Same({"accepted", "completed"}, "reference", [submit |-> 2, unsigned |-> 1, retry |-> 1]),
   \* the ledger fails until a posting is given up
   Own({"completed"}, [submit |-> 1, refuse |-> 3, replay |-> 1, crash |-> 1]),
   \* the order is paid again, under another reference or the same
   Own({"accepted", "failed", "cancelled"},
       [submit |-> 2, cancel |-> 1, error |-> 1, webhook |-> 1]),
   Same({"accepted", "completed"}, "reference", [submit |-> 2, webhook |-> 1, refuse |-> 1]),
   Same({"completed"}, "both", [submit |-> 2, webhook |-> 1, crash |-> 1])}

(* Workers, writers, webhook events and the two attempts are               *)
(* interchangeable.                                                        *)
Symmetry ==
  Permutations(Workers) \union Permutations(Writers) \union Permutations(Attempts)
    \union Permutations(Hooks)
=============================================================================
