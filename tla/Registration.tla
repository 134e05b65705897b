---------------------------- MODULE Registration ----------------------------
(***************************************************************************)
(* Declaring what a task queue and a Nexus service must offer, attaching   *)
(* implementations, and tempts.NewWorker, the function that accepts or     *)
(* refuses a list of implementations for a queue (queue.go, worker.go and  *)
(* the declaration and validate parts of activity.go, workflow.go and      *)
(* nexus.go).                                                              *)
(*                                                                         *)
(* Queue and Service are Go objects reached by pointer, but the code       *)
(* compares them by NAME: two objects may carry one name.  An              *)
(* implementation is the handle of a declaration with a function attached; *)
(* WithImplementation fixes the function's parameter type to the handle's, *)
(* so a handle stands for its implementation too.                          *)
(*                                                                         *)
(* Declarations fill Go maps that NewWorker reads without a lock, so a     *)
(* program declares and calls NewWorker in one thread: the model keeps     *)
(* declarations out of a call in progress and lets them come before,       *)
(* between and after calls.                                                *)
(***************************************************************************)
EXTENDS Naturals, Sequences, FiniteSets, Functions

CONSTANTS
    Queues,             \* the *Queue objects of the program
    QueueName,          \* the name of each
    Services,           \* the *Service objects
    ServiceName,        \* the name of each
    Names,              \* names of activities, workflows and operations
    Types,              \* parameter types (structs: others panic at once)
    Unconvertible,      \* operation names that the Nexus SDK refuses
    Undeclared,         \* "no entry" in a queue's map
    NoQueue,            \* no call, no queue argument
    MaxHandles,         \* bound: handles the program makes
    MaxBundles,         \* bound: bundles the program makes
    MaxRegisterables    \* bound: length of a list given to NewWorker

ASSUME NamingAssumption ==
    /\ QueueName = [q \in Queues |-> QueueName[q]]
    /\ ServiceName = [s \in Services |-> ServiceName[s]]
    /\ Undeclared \notin Types
    /\ NoQueue \notin Queues

ASSUME BoundAssumption ==
    MaxHandles \in Nat /\ MaxBundles \in Nat /\ MaxRegisterables \in Nat

QueueKinds == {"activity", "workflow"}

ServiceNames == {ServiceName[s] : s \in Services}

(***************************************************************************)
(* What can be put in the list of registerables: ActivityWithImpl and      *)
(* WorkflowWithImpl, the three operation implementations, and the          *)
(* ServiceWithImpl bundles that Service.WithImplementations returns.       *)
(***************************************************************************)
QueueHandle == [kind : QueueKinds, owner : Queues, name : Names, type : Types]
OperationHandle ==
    [kind : {"operation"}, owner : Services, name : Names, type : Types]
Bundle == [kind : {"service"}, owner : Services, ops : SUBSET OperationHandle]
Registerable == QueueHandle \cup OperationHandle \cup Bundle

OperationNames(bundle) == {op.name : op \in bundle.ops}

VARIABLES
    declared,     \* Queue.activities and Queue.workflows, with their types
    operations,   \* Service.operations
    handles,      \* declarations the program holds
    bundles,      \* ServiceWithImpl values the program holds
    pc,           \* where NewWorker is
    queue, regs,  \* its arguments
    i,            \* next registerable to validate
    validated,    \* activitiesValidated and workflowsValidated
    nexusOps,     \* individual operations, by service name
    nexusServicesHandled,   \* service names seen as bundles
    services,     \* bundles built by this call
    outcome       \* "ok" or "error" once the call returns

declarations == <<declared, operations, handles, bundles>>
validationState == <<validated, nexusOps, nexusServicesHandled>>
call == <<queue, regs, i, validationState, services>>
vars == <<declarations, pc, call, outcome>>

TypeOK ==
    /\ declared \in [QueueKinds -> [Queues -> [Names -> Types \cup {Undeclared}]]]
    /\ operations \in [Services -> SUBSET Names]
    /\ handles \subseteq QueueHandle \cup OperationHandle
    /\ bundles \subseteq Bundle
    /\ pc \in {"idle", "validate", "bundle", "returned"}
    /\ queue \in Queues \cup {NoQueue}
    /\ regs \in Seq(Registerable)
    /\ i \in 1..(Len(regs) + 1)
    /\ validated \in [QueueKinds -> SUBSET Names]
    /\ nexusOps \in [ServiceNames -> Seq(OperationHandle)]
    /\ nexusServicesHandled \subseteq ServiceNames
    /\ services \in Seq(Bundle)
    /\ outcome \in {"none", "ok", "error"}

-----------------------------------------------------------------------------
NothingValidated == [k \in QueueKinds |-> {}]
NoOperations == [n \in ServiceNames |-> <<>>]

Init ==
    /\ declared = [k \in QueueKinds |->
                      [q \in Queues |-> [n \in Names |-> Undeclared]]]
    /\ operations = [s \in Services |-> {}]
    /\ handles = {}
    /\ bundles = {}
    /\ pc = "idle"
    /\ queue = NoQueue
    /\ regs = <<>>
    /\ i = 1
    /\ validated = NothingValidated
    /\ nexusOps = NoOperations
    /\ nexusServicesHandled = {}
    /\ services = <<>>
    /\ outcome = "none"

-----------------------------------------------------------------------------
(***************************************************************************)
(* Declarations.                                                           *)
(***************************************************************************)

(* registerActivity and registerWorkflow store the new type over an old    *)
(* entry of that name; the handle of the old declaration stays usable.     *)
Declare(k, q, n, t) ==
    LET h == [kind |-> k, owner |-> q, name |-> n, type |-> t]
    IN  /\ pc = "idle"
        /\ Cardinality(handles \cup {h}) <= MaxHandles
        /\ declared' = [declared EXCEPT ![k][q][n] = t]
        /\ handles' = handles \cup {h}
        /\ UNCHANGED <<operations, bundles, pc, call, outcome>>

(* Their positional forms differ in how arguments travel only.             *)
NewActivity(q, n, t) == Declare("activity", q, n, t)
NewWorkflow(q, n, t) == Declare("workflow", q, n, t)

(* Variant: declaring an operation twice overwrites, as it does on a queue.*)
DeclareOperationAgain(s, n, t) ==
    LET h == [kind |-> "operation", owner |-> s, name |-> n, type |-> t]
    IN  /\ pc = "idle"
        /\ Cardinality(handles \cup {h}) <= MaxHandles
        /\ operations' = [operations EXCEPT ![s] = @ \cup {n}]
        /\ handles' = handles \cup {h}
        /\ UNCHANGED <<declared, bundles, pc, call, outcome>>

(* NewSyncOperation, NewAsyncOperation and NewAsyncHandlerOperation.  A    *)
(* name that the service already has panics: the step does not exist.      *)
DeclareOperation(s, n, t) ==
    LET h == [kind |-> "operation", owner |-> s, name |-> n, type |-> t]
    IN  /\ pc = "idle"
        /\ n \notin operations[s]
        /\ Cardinality(handles \cup {h}) <= MaxHandles
        /\ operations' = [operations EXCEPT ![s] = @ \cup {n}]
        /\ handles' = handles \cup {h}
        /\ UNCHANGED <<declared, bundles, pc, call, outcome>>

(* Variant: no look at the declared operations that are missing.           *)
ImplementationsDeclared(s, ops) ==
    /\ \A j \in DOMAIN ops :
          /\ ServiceName[ops[j].owner] = ServiceName[s]
          /\ ops[j].name \notin Unconvertible
    /\ \A j, l \in DOMAIN ops : ops[j].name = ops[l].name => j = l
    /\ {ops[j].name : j \in DOMAIN ops} \subseteq operations[s]

(* Variant: a name that comes twice is not looked for.                     *)
ImplementationsNamed(s, ops) ==
    /\ \A j \in DOMAIN ops :
          /\ ServiceName[ops[j].owner] = ServiceName[s]
          /\ ops[j].name \notin Unconvertible
    /\ {ops[j].name : j \in DOMAIN ops} = operations[s]

(* What Service.WithImplementations asks of the list ops: every operation  *)
(* carries the service's name, no name comes twice, the Nexus SDK takes    *)
(* each one, and the names are those declared on this Service object.      *)
ImplementationsComplete(s, ops) ==
    /\ \A j \in DOMAIN ops :
          /\ ServiceName[ops[j].owner] = ServiceName[s]
          /\ ops[j].name \notin Unconvertible
    /\ \A j, l \in DOMAIN ops : ops[j].name = ops[l].name => j = l
    /\ {ops[j].name : j \in DOMAIN ops} = operations[s]

Bundled(s, ops) == [kind |-> "service", owner |-> s, ops |-> Range(ops)]

(* The program calls WithImplementations itself; an error leaves it with   *)
(* nothing.  Distinct names make a list longer than MaxHandles useless.    *)
WithImplementations(s, ops) ==
    /\ pc = "idle"
    /\ ImplementationsComplete(s, ops)
    /\ bundles' = bundles \cup {Bundled(s, ops)}
    /\ Cardinality(bundles') <= MaxBundles
    /\ UNCHANGED <<declared, operations, handles, pc, call, outcome>>

-----------------------------------------------------------------------------
(***************************************************************************)
(* NewWorker(queue, registerables), one step per registerable.             *)
(***************************************************************************)
(* Variant: the loop over the registerables starts one too early.          *)
NewWorkerFromZero(q, rs) ==
    /\ pc = "idle"
    /\ pc' = "validate"
    /\ queue' = q
    /\ regs' = rs
    /\ i' = 0
    /\ UNCHANGED <<declarations, validationState, services, outcome>>

NewWorker(q, rs) ==
    /\ pc = "idle"
    /\ pc' = "validate"
    /\ queue' = q
    /\ regs' = rs
    /\ i' = 1
    /\ UNCHANGED <<declarations, validationState, services, outcome>>

(* Variant: the queue of the implementation is not looked at.              *)
QueueHandleOfAnyQueue(r) == r.name \notin validated[r.kind]

(* ActivityWithImpl.validate and WorkflowWithImpl.validate: the queue is   *)
(* compared by name.                                                       *)
QueueHandleValid(r) ==
    /\ QueueName[r.owner] = QueueName[queue]
    /\ r.name \notin validated[r.kind]

(* validate of the three operation implementations.                        *)
OperationValid(r) == ServiceName[r.owner] \notin nexusServicesHandled

(* Variant: only bundles are compared with bundles, so individual          *)
(* operations of the same service may come first.                          *)
BundleNotRepeated(r) == ServiceName[r.owner] \notin nexusServicesHandled

(* ServiceWithImpl.validate: its completeness is not looked at again.      *)
BundleValid(r) ==
    /\ ServiceName[r.owner] \notin nexusServicesHandled
    /\ nexusOps[ServiceName[r.owner]] = <<>>

RegisterableValid(r) ==
    \/ r.kind \in QueueKinds /\ QueueHandleValid(r)
    \/ r.kind = "operation" /\ OperationValid(r)
    \/ r.kind = "service" /\ BundleValid(r)

Return(result) ==
    /\ pc' = "returned"
    /\ outcome' = result

Validating(kinds) ==
    /\ pc = "validate"
    /\ i <= Len(regs)
    /\ regs[i].kind \in kinds
    /\ RegisterableValid(regs[i])
    /\ i' = i + 1
    /\ UNCHANGED <<declarations, pc, queue, regs, services, outcome>>

ValidateQueueHandle ==
    /\ Validating(QueueKinds)
    /\ validated' = [validated EXCEPT ![regs[i].kind] = @ \cup {regs[i].name}]
    /\ UNCHANGED <<nexusOps, nexusServicesHandled>>

(* Variant: the map entry is set where it should be appended to.           *)
ValidateOperationOverwriting ==
    /\ Validating({"operation"})
    /\ nexusOps' = [nexusOps EXCEPT ![ServiceName[regs[i].owner]] =
                       <<regs[i]>>]
    /\ UNCHANGED <<validated, nexusServicesHandled>>

ValidateOperation ==
    /\ Validating({"operation"})
    /\ nexusOps' = [nexusOps EXCEPT ![ServiceName[regs[i].owner]] =
                       Append(@, regs[i])]
    /\ UNCHANGED <<validated, nexusServicesHandled>>

ValidateBundle ==
    /\ Validating({"service"})
    /\ nexusServicesHandled' =
          nexusServicesHandled \cup {ServiceName[regs[i].owner]}
    /\ UNCHANGED <<validated, nexusOps>>

RejectRegisterable ==
    /\ pc = "validate"
    /\ i <= Len(regs)
    /\ ~RegisterableValid(regs[i])
    /\ Return("error")
    /\ UNCHANGED <<declarations, call>>

DeclaredNames(k, q) == {n \in Names : declared[k][q][n] # Undeclared}

(* Variant: only missing implementations are looked for.                   *)
QueueCovered ==
    \A k \in QueueKinds : DeclaredNames(k, queue) \subseteq validated[k]

(* The four loops that compare the queue's two maps with the validated     *)
(* names: none missing, none extra.                                        *)
QueueComplete == \A k \in QueueKinds : validated[k] = DeclaredNames(k, queue)

CheckQueue ==
    /\ pc = "validate"
    /\ i = Len(regs) + 1
    /\ \/ QueueComplete /\ pc' = "bundle" /\ UNCHANGED outcome
       \/ ~QueueComplete /\ Return("error")
    /\ UNCHANGED <<declarations, call>>

BuiltNames == {ServiceName[services[j].owner] : j \in DOMAIN services}

(* One round of the loop over v.nexusOps, in any order: Go does not fix    *)
(* one for maps.  The first operation's Service object speaks for the      *)
(* name; an error ends the call.                                           *)
BundleService(n) ==
    LET s == nexusOps[n][1].owner
    IN  /\ pc = "bundle"
        /\ nexusOps[n] # <<>>
        /\ n \notin BuiltNames
        /\ \/ /\ ImplementationsComplete(s, nexusOps[n])
              /\ services' = Append(services, Bundled(s, nexusOps[n]))
              /\ UNCHANGED <<pc, outcome>>
           \/ /\ ~ImplementationsComplete(s, nexusOps[n])
              /\ Return("error")
              /\ UNCHANGED services
        /\ UNCHANGED <<declarations, queue, regs, i, validationState>>

ReturnWorker ==
    /\ pc = "bundle"
    /\ \A n \in ServiceNames : nexusOps[n] # <<>> => n \in BuiltNames
    /\ Return("ok")
    /\ UNCHANGED <<declarations, call>>

(* The caller has the answer and the call's locals are gone.               *)
Leave ==
    /\ pc = "returned"
    /\ pc' = "idle"
    /\ queue' = NoQueue
    /\ regs' = <<>>
    /\ i' = 1
    /\ validated' = NothingValidated
    /\ nexusOps' = NoOperations
    /\ nexusServicesHandled' = {}
    /\ services' = <<>>
    /\ outcome' = "none"
    /\ UNCHANGED declarations

(* The registerables of the Worker that NewWorker returns.                 *)
AllRegisterables == regs \o services

-----------------------------------------------------------------------------
OperationHandles == {h \in handles : h.kind = "operation"}

ListsOver(S, bound) == UNION {[1..m -> S] : m \in 0..bound}

Prepare ==
    \/ \E q \in Queues, n \in Names, t \in Types :
          NewActivity(q, n, t) \/ NewWorkflow(q, n, t)
    \/ \E s \in Services, n \in Names, t \in Types : DeclareOperation(s, n, t)
    \/ \E s \in Services :
          \E ops \in ListsOver(OperationHandles, Cardinality(operations[s])) :
             WithImplementations(s, ops)

Work ==
    \/ ValidateQueueHandle
    \/ ValidateOperation
    \/ ValidateBundle
    \/ RejectRegisterable
    \/ CheckQueue
    \/ \E n \in ServiceNames : BundleService(n)
    \/ ReturnWorker

Next ==
    \/ Prepare
    \/ \E q \in Queues :
          \E rs \in ListsOver(handles \cup bundles, MaxRegisterables) :
             NewWorker(q, rs)
    \/ Work
    \/ Leave

(* NewWorker is plain sequential code: once called it keeps running.       *)
Spec == Init /\ [][Next]_vars /\ WF_vars(Work)

-----------------------------------------------------------------------------
Accepted == pc = "returned" /\ outcome = "ok"

Positions(kind) == {j \in DOMAIN regs : regs[j].kind = kind}

(* A worker is accepted only with exactly one implementation for each      *)
(* activity and workflow that its queue declares at that moment, made on a *)
(* queue of that name, and no other (worker.go:52-77).                     *)
AcceptedIsExact ==
    Accepted =>
        \A kind \in QueueKinds :
            /\ \A j \in Positions(kind) :
                  QueueName[regs[j].owner] = QueueName[queue]
            /\ \A j, l \in Positions(kind) :
                  regs[j].name = regs[l].name => j = l
            /\ {regs[j].name : j \in Positions(kind)} =
                  DeclaredNames(kind, queue)

(* Two registerables that fill one slot of the SDK's registry: the SDK     *)
(* panics on the second.  Individual operations register nothing.          *)
SameSlot(a, b) ==
    /\ a.kind = b.kind
    /\ \/ a.kind \in QueueKinds /\ a.name = b.name
       \/ a.kind = "service" /\ ServiceName[a.owner] = ServiceName[b.owner]

(* Registering an accepted worker, built bundles included, on an SDK       *)
(* worker of its own cannot panic halfway through the list                 *)
(* (worker.go:79-105).                                                     *)
NoSlotCollision ==
    Accepted =>
        \A j, l \in DOMAIN AllRegisterables :
            SameSlot(AllRegisterables[j], AllRegisterables[l]) => j = l

(* The operations whose register does nothing are not lost: each one is in *)
(* a bundle that goes by its service's name, and a bundle built by this    *)
(* call offers the operations its Service object declares, no other        *)
(* (worker.go:79-97).                                                      *)
EveryOperationIsServed ==
    Accepted =>
        /\ \A j \in Positions("operation") :
              \E b \in Range(services) :
                  /\ ServiceName[b.owner] = ServiceName[regs[j].owner]
                  /\ regs[j] \in b.ops
        /\ \A b \in Range(services) : OperationNames(b) = operations[b.owner]

NameOfOwner(h) ==
    IF h.kind \in QueueKinds THEN QueueName[h.owner] ELSE ServiceName[h.owner]

(* The program never gives one name two types: two declarations that a     *)
(* caller could not tell apart agree.  One Service object cannot break     *)
(* this, declaring an operation twice panics.                              *)
DeclaredConsistently ==
    \A g, h \in handles :
        (/\ g.kind = h.kind
         /\ g.name = h.name
         /\ NameOfOwner(g) = NameOfOwner(h)
         /\ g.kind = "operation" => g.owner # h.owner) => g.type = h.type

(* The implementations an accepted worker runs: for its queue, and for the *)
(* services it serves.                                                     *)
Serving ==
    {regs[j] : j \in Positions("activity") \cup Positions("workflow")}
    \cup UNION {AllRegisterables[j].ops :
                   j \in {l \in DOMAIN AllRegisterables :
                             AllRegisterables[l].kind = "service"}}

(* A request names an activity or a workflow, or an operation and its      *)
(* service: it finds at most one implementation in an accepted worker, also*)
(* where objects share a name and come as bundles and one by one           *)
(* (worker.go:79-98, nexus.go:292-320).                                    *)
OneImplementationPerName ==
    Accepted =>
        \A a, b \in Serving :
            (/\ a.kind = b.kind
             /\ a.name = b.name
             /\ NameOfOwner(a) = NameOfOwner(b)) => a = b

(* Whatever handle a caller holds, the implementation that an accepted     *)
(* worker runs under its name takes the parameter type the handle sends,   *)
(* as long as the program does not declare a name twice with two types     *)
(* (queue.go:27-33, nexus.go:54, activity.go:25, nexus.go:323).            *)
CallsMatchImplementations ==
    (Accepted /\ DeclaredConsistently) =>
        \A h \in handles, impl \in Serving :
            (/\ h.kind = impl.kind
             /\ h.name = impl.name
             /\ \/ h.kind \in QueueKinds /\ NameOfOwner(h) = QueueName[queue]
                \/ h.kind = "operation" /\ NameOfOwner(h) = NameOfOwner(impl))
                => h.type = impl.type

-----------------------------------------------------------------------------
(***************************************************************************)
(* What the repository's texts say and the code does not keep, as a run of *)
(* its own finds.                                                          *)
(***************************************************************************)

(* An accepted implementation has the parameter type its queue declares.   *)
(* The code compares names only: declaring a name again replaces the type  *)
(* and leaves the first handle usable (queue.go:27-33, worker.go:58-77).   *)
AcceptedTypesAreDeclared ==
    Accepted =>
        \A kind \in QueueKinds : \A j \in Positions(kind) :
            regs[j].type = declared[kind][queue][regs[j].name]

-----------------------------------------------------------------------------
Contract == INSTANCE WorkerContract
              WITH phase <- IF pc \in {"validate", "bundle"}
                            THEN "called" ELSE pc

(* NewWorker implements its contract: every call is answered, with "ok"    *)
(* exactly for an acceptable list, whatever the order of the list and of   *)
(* the map iterations.  Needs one Service object per service name.         *)
ImplementsContract == Contract!Spec
=============================================================================
