--------------------------- MODULE MCRegistration ---------------------------
(* Instances of Registration for TLC.                                      *)
EXTENDS Registration, TLC

CONSTANTS q1, q2, q3, s1, s2

(* Every queue and service has a name of its own.                          *)
OwnQueueName == [q \in Queues |-> q]
OwnServiceName == [s \in Services |-> s]

(* Two queues and all services go by one name.                             *)
SharedQueueName == [q \in Queues |-> IF q = q3 THEN "other" ELSE "tasks"]
SharedServiceName == [s \in Services |-> "api"]

(* Objects of one kind and one name are interchangeable.                   *)
Interchangeable == Permutations({q1, q2}) \cup Permutations({s1, s2})
=============================================================================
