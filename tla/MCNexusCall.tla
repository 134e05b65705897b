---------------------------- MODULE MCNexusCall ----------------------------
(* Instances of NexusCall.  Two services declare "shared-op", as           *)
(* nexus_test.go does, and a third Service object has the first one's name.*)
EXTENDS NexusCall

CONSTANTS a, b, a2, noClient

MCServices == {a, b, a2}
MCServiceName == [s \in MCServices |-> IF s = b THEN "B" ELSE "A"]

Op(s, name, kind, implementation) ==
    [service |-> s, name |-> name, kind |-> kind,
     implementation |-> implementation]

SharedA == Op(a, "shared-op", "sync", "handlerA")
SharedB == Op(b, "shared-op", "sync", "handlerB")
Process == Op(a, "process", "async", "processWorkflow")
Transform == Op(a, "transform", "handler", "transformWorkflow")

MCOperation == <<SharedA, Process, Transform>>

(* The second version repairs the first call and breaks another; the third *)
(* is right, with a client of the object of the same name.                 *)
MCClientOf == <<<<b, a, a>>, <<a, noClient, a>>, <<a2, a, a>>>>

BundleA == [kind |-> "service", owner |-> a,
            ops |-> {SharedA, Process, Transform}]
BundleB == [kind |-> "service", owner |-> b, ops |-> {SharedB}]
Workflow(f) == [kind |-> "workflow", name |-> f]

MCRegisterables ==
    <<BundleB, Workflow("processWorkflow"), Workflow("transformWorkflow"),
      BundleA>>

(* The list offers each called operation once.                             *)
ASSUME ServedAssumption == Served

(* The worker of nexus_example.go: the operations, without the workflows   *)
(* behind them.  CompletesOnceFixed is violated with it.                   *)
MCOperationsOnly == <<BundleB, BundleA>>
=============================================================================
