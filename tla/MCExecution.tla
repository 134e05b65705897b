---------------------------- MODULE MCExecution ----------------------------
(* Instances of Execution for TLC.                                         *)
EXTENDS Execution

(* Distinct fields tell one position from another.                         *)
TwoFields == [p \in Parts |-> <<"first", "second">>]

(* Version 2 changes the format of results and forgets the old one;        *)
(* version 3 reads both.                                                   *)
WritesNew == [v \in Versions |-> IF v = 1 THEN "old" ELSE "new"]
ReadsOwn ==
    [v \in Versions |-> CASE v = 1 -> {"old"}
                          [] v = 2 -> {"new"}
                          [] OTHER -> {"old", "new"}]

(* Every declaration has either form, the same in all versions.            *)
SameForms == {[v \in Versions |-> f] : f \in [Parts -> Forms]}

(* Version 2 declares the workflow as positional.                          *)
ChangedForm ==
    {[v \in Versions |->
        [p \in Parts |-> IF p = Workflow /\ v > 1 THEN "positional"
                                                  ELSE "struct"]]}
=============================================================================
