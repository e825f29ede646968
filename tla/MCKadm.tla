-------------------------------- MODULE MCKadm --------------------------------
(* Instances of KadmTopics for TLC. *)
EXTENDS KadmTopics

CONSTANTS t1, t2

\* A numeric key, the policy, and a key the broker accepts and never reports.
Levels == [l \in {"broker", "default"} |->
              [k \in Key |-> IF k = "policy" THEN "delete" ELSE "1"]]
Valid == [k \in Key |-> IF k = "policy" THEN {"delete", "compact"} ELSE {"1", "2"}]
Ask(parts, rf, retention, policy, lag, adoption, retain) ==
    [parts |-> parts, rf |-> rf, adoption |-> adoption, policy |-> retain,
     cfg |-> [k \in Key |-> CASE k = "retention" -> retention
                              [] k = "policy" -> policy
                              [] k = "lag" -> lag]]
Large == Ask(2, 0, "2", Unset, "1", "AdoptEmpty", "Delete")
Small == Ask(1, 0, Unset, "compact", "2", "Adopt", "Delete")
Replicated == Ask(0, 2, "1", Unset, Unset, "Adopt", "Retain")
AllSpecs == {Large, Small, Replicated}
==============================================================================
