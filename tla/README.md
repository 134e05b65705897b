# A TLA+ model of tempts

`tempts` wraps the Temporal Go SDK so that task queues, workflows, activities,
schedules, signals, queries and Nexus operations are used with the right types
and on the right queues. This directory models its control logic in TLA+,
checks the models with TLC and proves the main results with TLAPS.

All paths below are relative to the repository's root.

## 1. The system

| Part | Source | State | Operations | What makes it correct |
|---|---|---|---|---|
| Queue declarations | `queue.go`, `activity.go`, `workflow.go` | `Queue.activities`, `Queue.workflows`: name to mock function with the declared type | `NewQueue`, `NewActivity`, `NewWorkflow`, positional forms, `WithImplementation` | a handle, its queue's entry and the implementation agree |
| Worker validation | `worker.go` and every `validate` | `validationState`, local to one call | `NewWorker` | accepted exactly when nothing is missing, extra or double |
| Nexus services | `nexus.go` | `Service.operations` | `New*Operation`, `WithImplementations`, `NewClient`, `Execute` | a served service is complete; a call goes to its own service |
| Worker lifecycle | `worker.go` | SDK registry, interrupt channel, `context.AfterFunc` | `Register`, `Run` | registered before it polls; returns when cancelled |
| Schedules | `workflow.go:293-365` | none here; the cluster's schedule, the caller's `Action` object | `SetSchedule` | the schedule ends as defined, whatever overlaps |
| Typed calls, wire format | `workflow.go`, `activity.go` | `positional` | `Execute`, `ExecuteChild`, `Run`, `ExecuteInTest`, wrappers | caller and implementation use one wire form |
| Decode errors | `workflow.go:17-28` | the open workflow | `panicOnDecodeError` | the workflow survives until a fixed worker runs |
| Signals | `signal.go` | the workflow's signal channel | `Signal`, `SignalWithStart`, `Receive`, `TryReceive`, `AddToSelector` | a signal in time is read, first come first; a start has its signal from the beginning |
| Queries | `query_update.go` | none | `SetHandler`, `Query` | typed |
| Replay tools | `replaytest.go` | the bundle of histories | `GetWorkflowHistoriesBundle`, `Filter...`, `ReplayWorkflow` | the bundle says what ran |
| Client | `client.go` | SDK client and namespace | `Dial`, `NewLazyClient`, `NewFromSDK` | the namespace is the client's |
| Example programs | `example/main.go`, `example/nexus_example.go` | `err`, shared by two goroutines; the backing workflows' ids | `main`, callers and handlers | the program ends; a retried start starts nothing twice |

How they interact: declarations are package-level values that fill the maps of
a `Queue` or `Service` through pointers; `WithImplementation` copies names and
the queue (a workflow copies the `Queue` struct, an activity its pointer);
`NewWorker` reads the maps and calls back `validate` of each registerable,
which writes into the shared `validationState`; `Worker.Register` calls back
`register`. Everything else is one call of the SDK client or of the SDK's
workflow API, with the name and queue of the declaration.

What is hard here:

* **Identity by name.** Objects are reached by pointer and compared by name
  (`activity.go:25`, `workflow.go:48`, `nexus.go:323`, `worker.go:82`), and the
  needed names come from the object. Two objects of one name are legal.
* **Time of check.** A bundle is checked when it is made, a worker when
  `NewWorker` runs; declarations can come later. A name declared again replaces
  the entry and not the handle (`queue.go:27-33`).
* **Order.** The list is the caller's, `v.nexusOps` is iterated in Go's random
  order, and bundled and individual operations exclude each other in two
  different methods.
* **Concurrency on the cluster.** `SetSchedule` is three remote calls with no
  transaction (`workflow.go:330-360`), run by every replica at startup.
* **Failure.** A remote call can time out with its effect still to come; a
  process that fails at startup is started again. A workflow task that panics
  is tried again, possibly by a replica of another version.
* **Threads.** `Worker.Run` has a goroutine of `context.AfterFunc` beside it;
  the example's `main` and the goroutine that runs its worker assign one
  variable without a lock (`example/main.go:89`).
* **A cluster that goes on.** Histories are read one request at a time while
  executions start, advance, close and are deleted (`replaytest.go:20-56`); a
  signal can come while the task runs that should read it.
* **At least once.** The start of a Nexus operation is sent again when its
  answer is late (`nexus.go:150`), a task when its worker is gone.
* **Versions.** An execution outlives a deployment: what one version wrote,
  another must decode, argument by argument and result by result.

## 2. Modules

| Module | Models | State |
|---|---|---|
| `Registration` | declarations, `WithImplementations`, `NewWorker` | written |
| `WorkerContract` | what `NewWorker` promises, in one step | written |
| `RegistrationProofs` | theorems about `Registration` | written |
| `WorkerContractProofs` | `Registration` implements `WorkerContract` | written |
| `MCRegistration` | instances for TLC | written |
| `Schedule` | `SetSchedule`, its callers, the cluster, an operator | written |
| `MCSchedule` | instances for TLC | written |
| `ScheduleProofs` | theorems about `Schedule` | written |
| `Wire` | arguments on the wire: the two forms, encoding and decoding; operators only | written |
| `Execution` | one workflow execution across versions: wire forms, results, decode errors, task retries, deployments | written |
| `ExecutionProofs` | theorems about `Execution` | written |
| `MCExecution` | instances for TLC | written |
| `WorkerRun` | `Worker.Register` and `Worker.Run` with cancellation; a component, no system of its own | written |
| `WorkerRunProofs` | theorems about `WorkerRun`, and lemmas for who extends it | written |
| `NexusCall` | a caller workflow whose code is upgraded, operations with retried starts, on a supervised worker; extends `WorkerRun` | written |
| `NexusCallProofs` | theorems about `NexusCall` | written |
| `MCNexusCall` | instance for TLC | written |
| `Program` | `example/main.go`: main, its goroutine, signals and a query against executions; extends `WorkerRun` | written |
| `ProgramProofs` | theorems about `Program` | written |
| `MCProgram` | instance for TLC | written |
| `Replay` | bundles taken from a cluster that goes on, filter, replay | written |
| `ReplayProofs` | theorems about `Replay` | written |
| `MCReplay` | instance for TLC | written |
| `Execution`, extended | field order between versions | planned |

`WorkerContract` is an abstract specification that `Registration` implements.
`Served` in `NexusCall` is what an accepted list means to the calls: it is what
`EveryOperationIsServed` (there is a bundle with the operation) and
`OneImplementationPerName` (nothing else goes by its names) say of
`Registration`, as an assumption about the list that the worker is run with.

### Registration

`declared` is `Queue.activities` and `Queue.workflows` with the parameter type
in place of the mock function; `operations` is `Service.operations`. `handles`
are the typed values the program holds, and stand for their implementations
too, since `WithImplementation` fixes the function's type to the handle's.
`bundles` are the `*ServiceWithImpl` values it holds. The rest are the
arguments and locals of one `NewWorker` call:

| TLA+ | Go |
|---|---|
| `i`, `Validating` | the loop over `registerables` |
| `validated` | `activitiesValidated`, `workflowsValidated` |
| `nexusOps` | `v.nexusOps`, in order of appending |
| `nexusServicesHandled` | the same |
| `CheckQueue` | the four completeness loops |
| `BundleService(n)` | one round of `for _, ops := range v.nexusOps`, any `n` first |
| `services` | the same |
| `ReturnWorker`, `RejectRegisterable` | the two ways to return |

A panic for a second declaration of an operation, or for a parameter type that
is no struct, is a step that does not exist: the program stops. Declarations
write Go maps without a lock, so a program that declares during a call is
already broken; the model lets declarations come before, between and after
calls. Return types are checked like parameter types and are left out.
`Unconvertible` stands for the names that make the Nexus SDK return an error in
`toNexusOperation` or `Register` (the empty name).

### WorkerContract

Three actions: a call comes, it is answered, the caller leaves. The answer is
"ok" exactly if `Acceptable(queue, regs)`, a predicate over sets of positions
of the list, so that no order can matter. `Registration!ImplementsContract`
is its specification under the mapping "validate or bundle" to "called",
fairness included.

### Schedule

Each caller of `SetSchedule` goes start, fill, calling, done or failed.
`heap` holds the `ScheduleWorkflowAction` objects that `setSchedule` writes
to, `PointerOf` says which one a caller was given. `rpc[c]` is the request under
way and its reply. The cluster serves a request in one step; the caller reads
the reply in another; the SDK's `Update` is the pair `load`, `update` with
`DoUpdate` in between. `GiveUp` is a timeout or another error: the write may be
lost, or put into `late` and come at any time. `Intervene` is an operator who
writes a note, toggles the pause or deletes the schedule. The SDK, the network
and the cluster are external, modelled from how `setSchedule` uses them: the
writes of `Update` carry no conflict token, as the code passes none.

### Execution

One execution of one workflow, from the typed `Execute` to its end, on
replicas that are upgraded one at a time. The workflow starts all its
activities (`AppendFuture`), waits for them in order and returns the first
error wrapped with `%w`, as the repository's tests do
(`example/json_decode_error_test.go:84-90`).

| TLA+ | Go |
|---|---|
| `form[v][p]` | `positional` of the workflow (part 0) and of each activity, as version `v` declares them |
| `Encode` (`Wire`) | the two branches of `Execute`, `ExecuteChild`, `Activity.Execute` |
| `Decode` (`Wire`), `Received` | the SDK's decoding into the parameters of the registered function, and the positional wrapper's loop |
| `Decoded` | `Activity.Run`: `Get` into the return type |
| `PanicOnDecodeError` | `panicOnDecodeError`, on what the implementation returned |
| `TaskOutcome` | the wrapper: reached only when the SDK could decode the input |
| `ScheduleActivities`, `Wait` | a task that leaves the workflow blocked on a future |
| `FailTask` | the SDK's answer to a panic: the task is tried again, nothing is kept |
| `CompleteExecution`, `FailExecution`, `TryAgain` | the SDK returns the function's result; the cluster takes it unless the history has grown |
| `RunActivity` | an attempt that reached the implementation |
| `Deploy` | a replica stops and starts with a later version |

`Writes` and `Reads` say which format of a result each version's activities
produce and which its code can decode; formats are what a change of the return
type, or a broken `UnmarshalJSON`, changes. A struct is the sequence of its
fields; it has one field or more, fields are scalars (so a whole struct does
not decode into one field), and all versions have the same fields in the same
order. An activity's task keeps the payloads it was scheduled with; if the
replica that takes it cannot decode them, the attempt fails and is followed by
another, which changes nothing here. Results arrive while a task runs, so the
task works on `view`, the history it was given, and `news` says that the
history has grown. The default `BlockWorkflow` panic policy is assumed.

### WorkerRun

Three parties: the goroutine in `Run` (`run` is where it is), the goroutine
that `context.AfterFunc` starts (`afterFunc`), and whoever cancels.

| TLA+ | Go |
|---|---|
| `CallRun` | `worker.New`; a context of its own for each call |
| `Register` | one round of the loop in `Worker.Register`; `registered` counts |
| `Arm` | `context.AfterFunc`, which starts the function at once if the context is done |
| `CloseInterrupt` | `close(interruptCh)` |
| `Start`, `StartFails`, `Interrupted`, `Fatal` | the four ways through `wrk.Run(interruptCh)` |
| `Stop` | the deferred `stop()`: without effect on a function that has started |
| `Cancel` | the context is cancelled, anywhere between call and return |

`ProcessGone` is for the modules that extend this one: a process takes its
worker with it. `WorkerSpec` is the component alone.

### NexusCall

One execution of a caller workflow, replayed from its start by each task with
the code that is deployed then. `style` chooses between the two callers of
`example/nexus_example.go`: wait for each call (`Run`), or start all and wait
then (`Execute`, `Get`). `ClientOf[version][k]` is the client that a version
passes to call `k`: one of the right service, of another, of another `Service`
object of the right name, or nil.

| TLA+ | Go |
|---|---|
| `ValidateServiceMatch` | `validateServiceMatch`; names, not objects |
| `ExecuteOperations` | `Execute` of every call that the task reaches and that is not in the history |
| `MismatchPanics` | the `panic` in `Execute`: the task fails, nothing of it is kept |
| `Finish` | `Run`'s second half and `Get`: all results, or the first error |
| `Implementations` | what `register` of a bundle gave to the SDK, looked up by name |
| `HandleSync`, `HandleAsync`, `HandleUnknown` | the three `toNexusOperation`s, and an operation that nobody registered |
| `WorkflowID`, `StartBacking` | `processGetOptions`, `transformHandler`; the cluster starts one workflow per id |
| `CompleteBacking` | a backing workflow needs a worker that has it registered |

The cluster sends a start to a polling worker and waits; `TimeOut` gives an
attempt up, with its goroutine gone or still running, and `SendStart` sends the
next. An answer counts only for the attempt that is waited for. The worker is
`WorkerRun`, stopped or failing up to `MaxStops` times and run again.

`CompletesOnceFixed` needs a worker with the workflows behind its operations.
`AsyncOperationWithImpl.register` does nothing and `NewWorker` asks for no such
workflow, so the worker of `example/nexus_example.go` (`nexusOperations` alone)
is accepted, answers "started", and the caller waits for ever: give
`Registerables` the value `MCOperationsOnly` in `MCNexusCall.cfg` and TLC finds
it.

### Program

`at` and `moment` are where main is: in a call, or between its assignment to
`err` and the comparison. Nothing orders the two threads' uses of `err`, a data
race, so `Check` and `GoCheck` may compare what the thread has just assigned or
what the variable holds by then: a build may do either. Every call may fail,
with or without its effect on the cluster; main then panics, which takes the
worker along (`Ends`), and a supervisor starts the program again, up to
`MaxRestarts` times, with the executions still there.

An execution has five workflow tasks, with a timer, an activity, a timer and a
child workflow between them; the third reads the signal. A task sees the signals
that came before it began (`view`), a task whose worker is gone is handed out
again and sees more, and the last one closes the execution only if nothing came
meanwhile. `workflow` is the declaration: its form, struct or positional, and
whether it reads with `TryReceive`, as the example does, or `Receive`, which
blocks. A selector's `Receive` is the second.

What `Execute` and `SignalWithStart` start is a queue and a list of payloads,
and each has its own code for both (`workflow.go:243-259`, `signal.go:98-112`):
`ExecuteRequest` encodes with `Encode`, `SignalWithStartRequest` has a branch of
its own, and the worker decodes either with `Decode`. A wrong queue is what
`ProgramEnds` would show, since nobody would run the execution. A wrong wire
form would not keep the program from ending (the execution fails, `Get` returns
an error, main panics), so `StartsArrive` is about it.

### Replay

One call of `GetWorkflowHistoriesBundle`, made in any state of the cluster: two
lists and one request for each history, each a step, with the cluster's steps in
between. A history is its events: the wire form of the input, a scheduled task,
a started one, then the commands of the code, then the end. Execution ids stand
for the pair of workflow id and run id. `Pages` are those of the right executions
that a list may return, as many as fit and in any order: the code asks for no
order. An execution of another workflow is open all the time and
must not be listed. `Clients` are all pairs of an SDK client's namespace and the
namespace written next to it that `client.go` can make.

`Reproduces` is the SDK's replayer: the input must decode into the function's
parameters, the commands must be the code's, a closed history must be complete.
`TypedReplayWorkflow` wraps for a positional declaration; `Filter` runs any
version's typed replay on each history alone.

## 3. Runs

| Run | Instance | Shows |
|---|---|---|
| `registration` | 1 queue, 2 services, 3 names of which one is refused by the Nexus SDK, 3 handles, 2 bundles, lists of up to 3 | types, no double slot, every operation served, the contract with liveness; no deadlock |
| `registration_same_names` | 3 queues (2 of one name), 2 services of one name, 1 name, 2 types | exactness, no double slot, every operation served, one implementation for each name that a caller can use, callers and implementations agree on types |
| `registration_redeclared` | 1 queue, 2 names, 2 types | **violated**: `AcceptedTypesAreDeclared` |
| `schedule` | 3 callers: 2 versions of a program and one with a wrong `Action`; a schedule of an earlier deployment or none; 2 timeouts, 2 interventions | one definition at a time, success replaces what was there, everybody ends with nil; no deadlock |
| `schedule_startup` | 2 replicas, no schedule | **violated**: `StartupSucceeds` |
| `schedule_shared_action` | 2 schedules, one `Action` object | **violated**: `ArgumentsMatchWorkflow` |
| `schedule_note` | 2 replicas, an earlier schedule | **violated**: `SuccessMatchesDefinition` |
| `execution` | 2 replicas, 3 versions (1 writes and reads the old format, 2 the new one only, 3 reads both), 2 activities, arguments of 2 fields, every choice of wire forms | arguments arrive, undecodable results never fail the execution, it completes on all results only, and it ends once version 3 is everywhere |
| `execution_input` | the same, version 2 declares the workflow positional | **violated**: `DecodeErrorsNeverFail` |
| `nexus` | 3 calls (one of each kind of operation), 3 `Service` objects with 2 names, an operation name that both services have, 3 versions of the caller (2 with wrong or nil clients), 2 stops or failures, 2 attempts | every answer is the operation's own, a wrong client blocks and never fails, retries start no second workflow, the worker polls with everything registered and returns when cancelled, the execution ends once the clients are right |
| `program` | 2 lives of the process, up to 4 executions, both forms of the declaration with arguments of 2 fields, both ways to read | main holds an execution that exists whenever it uses one; signals in time are read, first come first; an execution that SignalWithStart began reads that signal; arguments arrive from both callers in both forms; the program ends if its worker has no error; a worker's error wakes a waiting main |
| `replay` | 3 executions of the workflow and one of another, pages of 2, 3 versions (other code, other wire form), 2 namespaces | entries are true beginnings of what they name, none twice, none that was settled is missing, own histories replay, filtering keeps exactly what replays |

The violated properties quote the repository's own texts; PROJECT.json's
"findings" give the lines.

**Bounds.** Three handles and lists of three are the least that hold a bundle,
an individual operation of the same service and one of another; two entries
suffice for each duplicate, missing or extra case; two services are needed for
the order of the map iteration. Two types are the least that can disagree.
Objects of one kind and one name are interchangeable, and
`registration_same_names` uses that symmetry, for invariants only. In
`schedule`, two writers and one late write are enough for every overlap of two
calls; two timeouts give a retry that is itself given up; two interventions
let the operator write between a read and a write twice, or delete and pause.
`MaxHandles`, `MaxBundles`, `MaxRegisterables`, `MaxTimeouts` and
`MaxInterventions` are the only bounds, all of them guards. `execution` needs
none: versions only grow and an execution ends. Two replicas are the least on
which versions mix; three versions hold one that breaks and one that repairs;
two activities give a decode error in front of, behind and beside an
application error, with results that arrive during a task; two distinct fields
tell positions apart.

`MaxStops` and `MaxTries` bound `nexus`: two stops or failures let one run be
cancelled and fail by itself, in either order, and the next run meet what it
left; or two runs be disturbed and a third not. A second attempt runs beside a
first that may still be alive. `MaxRestarts` bounds `program`: two lives are the least in which an
execution meets a signal of a process that no longer exists, and in which
SignalWithStart finds what an earlier life started. `MaxRuns` and `PageSize`
bound `replay`: three executions exceed a page of two, and two are listed
closed and open at once while the third moves from one list to the other.

**Deadlock** is checked in all `registration` runs, where an idle program can
always call `NewWorker`, and means that validation got stuck. In `schedule` it
is checked too and says little, since the caller with a wrong `Action` restarts
for ever; `EventuallyDone` is what rules out a caller that is stuck. The other
cfgs turn it off because their systems stop properly: every caller done, the
execution closed and the last version everywhere, the caller's execution
completed and the worker not stopped any more, the process exited, the bundle
returned and all executions deleted. What must not get stuck in them is a
liveness property each time, `replay` apart, which has none.

**Fairness.** `WF_vars(Work)` in `Registration`: `NewWorker` is sequential code
with loops over finite lists, so once called it goes on. In `Schedule`, weak
fairness of each caller's steps for the same reason, of `Serve` because a
request that is not given up is answered, and of `Restart` because a program
that fails at startup, as `example/main.go` does by panicking, is started again
by its supervisor; without the last, `EventuallyDone` is not claimed. Timeouts,
late writes and the operator have no fairness. In `Execution`, the cluster
hands a due task to some replica, a replica that has one answers, and each
scheduled activity is in the end run by some replica; no fairness favours a
replica or a version, and none makes anybody deploy. `EndsOnceFixed` therefore
says "if from some time on every replica runs a version that reads all
formats", which is the comment's "until a fixed worker is deployed"
(`workflow.go:22-23`). In `NexusCall`, the cluster sends starts to a worker that
polls, takes answers, and hands out the tasks of the caller and of the backing
workflows; both goroutines of `Run` go on; a supervisor runs the worker again,
as the process around `Worker.Run` does. Timeouts, stops and deployments have no
fairness. In `Program`, both threads and the worker go on, and each execution is
served for itself; a call that fails, a worker's error, a lost task and a restart
have none, so `ProgramEnds` asks for a worker without an error. `Replay` states
no fairness.

## 4. Proofs

Every invariant that a run checks is also a theorem of its specification, for
all values of the constants, and so is the safety half of the refinement. Each
proof has the same three parts: a strengthened invariant holds at first, every
step keeps it, and it gives the property. TLC has checked each strengthened
invariant on the instances of the runs before it was proved.

### Registration and its contract

`RegistrationProofs` proves, for every set of queues, services, names and types
and all bounds:

| Theorem | Says |
|---|---|
| `TypeCorrect` | `Spec => []TypeOK` |
| `SeenIsRecorded` | `Spec => []IInv` |
| `AcceptedIsExactAlways` | `Spec => []AcceptedIsExact` |
| `NoSlotCollisionAlways` | `Spec => []NoSlotCollision` |
| `EveryOperationIsServedAlways` | `Spec => []EveryOperationIsServed` |
| `OneImplementationPerNameAlways` | `Spec => []OneImplementationPerName` |
| `AcceptedIsServedAlways` | an accepted list serves each operation it was given (`ServedBy`) |
| `CallsMatchImplementationsAlways` | `Spec => []CallsMatchImplementations` |

The properties speak of the list of an accepted call, and the code's checks
speak of its maps, so none is inductive. `IInv` says that the maps are what the
part of the list already looked at makes them: `validated` holds the names of
its activities and workflows, and each name once; each of its operations is in
`nexusOps` under its service's name, and nothing else is there;
`nexusServicesHandled` holds the services of its bundles; past `CheckQueue` the
whole list was looked at and the queue is complete; each element of `services`
was made from the `nexusOps` entry of its name. From it the first three
properties follow without another induction. The last three need to know where
implementations come from: `HeldInv` says that the program holds the handle of
each one in the list and in its bundles, that a service has one handle for each
name because declaring an operation twice panics, and that the operations of a
bundle have distinct names and go by its service's; `ServicesComplete` says the
same of the bundles that `NewWorker` builds. The assumptions are
`NamingAssumption` (names are functions, the two markers are no types or queues)
and `BoundAssumption`.

`WorkerContractProofs` proves that whatever `NewWorker` does is allowed by its
contract, under `OneObjectPerServiceName` (without it, the first operation of a
name in the list decides which Service object is asked):

| Theorem | Says |
|---|---|
| `AnswersAsContracted` | `Spec => Contract!Init /\ [][Contract!Next]_(Contract!vars)` |

A step of the call stutters until it answers, and each of the four ways to
answer has a lemma: a registerable that is rejected, a queue that is incomplete
and a service that cannot be bundled make the list unacceptable, and a call that
comes to its end makes it acceptable. `IInv` is not enough for this, since it
speaks of the set of operations in `nexusOps`: the contract counts positions of
the list. `OperationsKept` says that the entries of `nexusOps` correspond one to
one with those positions.

### Schedule

`ScheduleProofs` proves, for any callers, schedules, definitions, timeouts and
operator:

| Theorem | Says | Under |
|---|---|---|
| `ScheduleTypeCorrect` | `Spec => []TypeOK` | |
| `DefinitionsKept` | `Spec => []IInv` | `OwnActions` |
| `ScheduleIsOneDefinitionAlways` | `Spec => []ScheduleIsOneDefinition` | `OwnActions` |
| `SuccessReplacesOlderAlways` | `Spec => []SuccessReplacesOlder` | `OwnActions` |

`OwnActions` says that no two calls are given one `Action` object; the run
`schedule_shared_action` shows why it is needed. What the cluster holds is
written from what is in flight, which is made from what was read and from the
`Action` in memory, so `IInv` says all four at once: a caller that fills its
`Action` has set the first `filled` fields; a caller with a call under way has a
complete one, its write follows its own definition, and what it read follows
some definition of that id; so does every late write, and so does the cluster.
`DoUpdate` keeps this whatever was read, because it replaces action, spec and
policies together. `SuccessReplacesOlder` needs the time order of one call as
well: unless the operator interferes, a reply of "done" and an answer of nil
mean that the schedule is there (`SuccessInv`), and once it is there by a
present caller every later write, timely or late, is by one too, pause included
(`ReplacedInv`). `DefinitionAssumption` gives the types of definitions and of
schedules that earlier deployments left.

### Execution

`ExecutionProofs` proves, for any replicas, versions, activities, formats and
arguments:

| Theorem | Says | Under |
|---|---|---|
| `ControlAlways` | `Spec => []IInv` | |
| `TypeCorrect` | `Spec => []TypeOK` | |
| `CompletesOnAllResultsAlways` | `Spec => []CompletesOnAllResults` | |
| `ArgumentsArriveAlways` | `Spec => []ArgumentsArrive` | `FormsAgree` |
| `DecodeErrorsNeverFailAlways` | `Spec => []DecodeErrorsNeverFail` | `FormsAgree` |

`IInv` ties the view of a task to the history, finished activities to results
and pending ones to arguments. `ArgumentsArrive` rests on one lemma about the
wire forms, that decoding what was encoded in the same form gives the argument
back, and on an invariant that whatever is in the history was encoded in the
form that all versions share (`FormsAgree`; `execution_input` shows why it is
needed). `DecodeErrorsNeverFail` follows from both: a task whose input arrives
can answer with an error only if that is an activity's own.
`VersionAssumption` and `ArgumentAssumption` are the assumptions.

### WorkerRun and NexusCall

`WorkerRunProofs` proves, for any list of registerables:

| Theorem | Says |
|---|---|
| `PollsFullyRegisteredAlways` | `WorkerSpec => []PollsFullyRegistered` |

`WorkerInv` adds to the types that past the loop everything is registered, that
the SDK worker polls only inside `wrk.Run`, that there is no result before the
end, that an answer of nil comes from a cancelled context, and that so do the
second goroutine and the closed channel. Its lemmas (`WorkerInvAtFirst`,
`WorkerInvKept`, `WorkerInvAfterProcess`) are what a module that extends
`WorkerRun` cites. `RegisterablesAssumption` says that the list is a finite
sequence.

`NexusCallProofs` proves, for any services, calls, versions, clients and bounds:

| Theorem | Says | Under |
|---|---|---|
| `PollsFullyRegisteredInCalls` | `Spec => []PollsFullyRegistered` | |
| `NexusTypeCorrect` | `Spec => []TypeOK` | |
| `HandledByItsServiceAlways` | `Spec => []HandledByItsService` | `Served` |
| `MismatchNeverFailsAlways` | `Spec => []MismatchNeverFails` | `Served` |
| `OneWorkflowPerCallAlways` | `Spec => []OneWorkflowPerCall` | `Served` |

The invariant follows a call through its parts: the history names the right
service (`validateServiceMatch` has seen to it), so the goroutine that a start
creates has found exactly the operation (`FoundIsTheOperation`; a worker that
takes tasks has the whole list registered, which is where `WorkerInv` is
needed), so its answer is the operation's or "started", and so is what the
history records. A workflow behind an operation has the id of its call, which
every attempt repeats; the cluster refuses the second. `Served` is the assumption
about the list, which `MCNexusCall` has TLC evaluate for its own;
`AcceptedIsServedAlways` says of `Registration` that an accepted list has it (save
that no implementation goes by one of the model's three marks). `CallTypeInv` is an induction of its own, on any list: a
start that was given up has tries left, so that the next one stays in bounds.
`CallAssumption` gives the types of operations and clients, and that no service
goes by the name of a call that is not made yet.

### Program

`ProgramProofs` proves, for any arguments and ways to read, any number of
restarts and executions:

| Theorem | Says |
|---|---|
| `ProgramTypeCorrect` | `Spec => []TypeOK` |
| `MainHoldsAnExecutionAlways` | `Spec => []MainHoldsAnExecution` |
| `SignalInTimeIsReadAlways` | `Spec => []SignalInTimeIsRead` |
| `InitialSignalIsReadAlways` | `Spec => []InitialSignalIsRead` |
| `StartsArriveAlways` | `Spec => []StartsArrive` |

That main holds an execution is not local to main: it goes on when `err` is nil,
and the goroutine assigns `err` too. It could take main's error back only with
the nil of a cancelled run, and the context is cancelled only past the last
call; `WorkerInv` supplies the first half, main's position the second. The other
properties rest on the order of a task: a signal that is marked as in time was
appended before the reading task began, so the view that task takes contains it,
the first signal of an execution never changes, and an execution that
`SignalWithStart` began has one that is in time. `StartsArrive` rests on
`StartsInv`: an execution's request is the one that its caller made for its ID,
which nothing changes, and none has failed. That either request decodes to the
argument (`StartDecodes`) is proved for each of the two pieces of code.
`ProgramAssumption` says that arguments are structs of one field or more.

### Replay

`ReplayProofs` proves, for any executions, page size, versions, code and
namespaces:

| Theorem | Says |
|---|---|
| `ReplayInvAlways` | `Spec => []ReplayInv` |
| `ReplayTypeCorrect` | `Spec => []TypeOK` |
| `BundleTellsTheTruthAlways` | `Spec => []BundleTellsTheTruth` |
| `NoRunTwiceAlways` | `Spec => []NoRunTwice` |
| `SettledRunsAreBundledAlways` | `Spec => []SettledRunsAreBundled` |
| `OwnHistoriesReplayAlways` | `Spec => []OwnHistoriesReplay` |
| `FilterKeepsTheMostAlways` | `Spec => []FilterKeepsTheMost` |

What the call holds was read at different times, so the invariant compares it
with the past of the cluster: a history only grows and is what some version's
code makes next, what was closed when the call began is closed or deleted now,
what the call keeps of a history is a beginning of it, and a list has every
execution of its kind that stayed as it was, unless more were than a page holds. An execution cannot be
listed twice because the list of the closed comes first and closing is final.
`FilterKeepsTheMost` is a fact about `Filter` and `Reproduces` on whatever bundle
there is. `ReplayAssumption` gives the types of code and clients.

### What stays model-checked

The liveness properties `EventuallyDone`, `EndsOnceFixed`, `CancelStopsWorker`,
`CompletesOnceFixed`, `ProgramEnds` and `FailureNoticedWhileWaiting`, and with
them the second half of `ImplementsContract`, that every call is answered: the
installed backends treat neither fairness nor `ENABLED`. The properties of the
runs that expect a violation are false, so they have no theorems.

## 5. Not modelled

* The Temporal cluster and SDK beyond what the calls above need; the Go type
  checker, which settles most of the promised type safety.
* `RegisterMockFallbacks` and `ExecuteInTest`: they run in the SDK's test
  environment, on one thread. `Client.Close`: nothing here uses a client after
  it.
* In `Execution`: workflows that handle a decode error themselves, timers,
  cancellation, timeouts of the execution, and what an activity's retry policy
  does with its errors (an error stands for one that is not retried). Versions
  keep the order of a struct's fields.
* In `NexusCall`: operations that answer with an error of their own, their
  cancellation and timeouts, and the caller's own worker, which is always there.
* In `Program`: a Get that ends because the connection does, signals whose
  payload does not decode (the SDK drops them), several signals on one selector,
  and the tasks of the child workflow. `SetSchedule` is one call there; it has a
  module of its own.
* In `Replay`: payloads other than the input, and errors of the two encodings,
  which the code returns as they come.

A failure of the example's worker that coincides with an assignment of main's
may be lost: main writes nil over the error before the goroutine compares `err`,
the worker is gone, and main waits in `Get` for ever. Whether a build does this
is not said by the language (the program has a data race), so the model allows
both and `FailureNoticedWhileWaiting` is stated for a main that is waiting
already.
