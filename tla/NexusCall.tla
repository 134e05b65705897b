----------------------------- MODULE NexusCall -----------------------------
(***************************************************************************)
(* Calls of Nexus operations (nexus.go): one execution of a caller         *)
(* workflow, whose code is upgraded, calls operations that a worker serves *)
(* which is stopped and run again.  tempts matches the client with the     *)
(* operation inside the workflow and panics on a mismatch, which fails the *)
(* workflow TASK; the operation's implementation gives a workflow ID for   *)
(* what it starts.  The cluster, which delivers starts at least once, and  *)
(* the Nexus SDK, which finds the implementation, are external.  So is the *)
(* caller's own worker, which is always there.                             *)
(***************************************************************************)
EXTENDS WorkerRun, FiniteSets

CONSTANTS
    Services,       \* Service objects, reached by pointer
    ServiceName,    \* their names
    NumCalls,       \* operations that the caller's code calls, in order
    Operation,      \* the operation of each call, with its implementation:
                    \* a handler, or the workflow that it starts
    NumVersions,    \* versions of the caller's code
    ClientOf,       \* whose NewClient made the client of a call, by version
    NilClient,      \* no client
    MaxStops,       \* bound: how often the worker is stopped or fails
    MaxTries        \* bound: how often the start of one call is sent

Calls == 1..NumCalls
Versions == 1..NumVersions
Kinds == {"sync", "async", "handler"}

ASSUME CallAssumption ==
    /\ NumCalls \in Nat
    /\ NumVersions \in Nat \ {0}
    /\ \A k \in Calls : /\ Operation[k].service \in Services
                        /\ Operation[k].kind \in Kinds
    /\ ClientOf \in [Versions -> [Calls -> Services \cup {NilClient}]]
    /\ NilClient \notin Services
    /\ \A s \in Services : ServiceName[s] # "none"
    /\ MaxStops \in Nat /\ MaxTries \in Nat \ {0}

VARIABLES
    stops,          \* how often the worker was stopped or failed
    version,        \* the caller's code that is deployed
    style,          \* the code waits for each call (Run), or starts all first
    status,         \* of the caller's execution
    panicked,       \* its last workflow task panicked
    calls,          \* the operations in its history
    tries,          \* how often the cluster has sent each start
    waiting,        \* the cluster waits for the answer to the last one
    answer,         \* that answer, on its way
    handling,       \* starts that the worker's goroutines work on
    backing         \* workflows that operations have started

callerVars == <<version, style, status, panicked, calls>>
startVars == <<tries, waiting, answer, handling, backing>>
vars == <<workerVars, stops, callerVars, startVars>>

NoCall == [state |-> "none", service |-> "none", result |-> "none"]

Init ==
    /\ NoWorker
    /\ stops = 0
    /\ version \in Versions
    /\ style \in {"run", "execute"}
    /\ status = "running"
    /\ panicked = FALSE
    /\ calls = [k \in Calls |-> NoCall]
    /\ tries = [k \in Calls |-> 0]
    /\ waiting = [k \in Calls |-> FALSE]
    /\ answer = [k \in Calls |-> "none"]
    /\ handling = {}
    /\ backing = {}

-----------------------------------------------------------------------------
(***************************************************************************)
(* The caller's workflow task: the code of the deployed version runs over  *)
(* the history from its start.                                             *)
(***************************************************************************)

(* Variant: any client will do.                                            *)
ClientGiven(op, client) == client # NilClient

(* Variant: the Service objects are compared instead of their names.       *)
SameServiceObject(op, client) == client = op.service

(* validateServiceMatch: a client of a service of the operation's service's*)
(* name.                                                                   *)
ValidateServiceMatch(op, client) ==
    client # NilClient /\ ServiceName[client] = ServiceName[op.service]

(* The calls that the code makes when it is run on the present history.    *)
Reached ==
    IF style = "execute" THEN Calls
    ELSE {k \in Calls : \A j \in 1..(k - 1) : calls[j].state = "completed"}

Due == {k \in Reached : calls[k].state = "none"}

(* No call of those panics.                                                *)
AllMatch ==
    \A k \in Reached :
        ValidateServiceMatch(Operation[k], ClientOf[version][k])

(* Variant: the request is made without the client's service.              *)
ExecuteUnnamed ==
    /\ status = "running"
    /\ AllMatch
    /\ Due # {}
    /\ calls' = [k \in Calls |-> IF k \in Due
                                 THEN [NoCall EXCEPT !.state = "scheduled"]
                                 ELSE calls[k]]
    /\ panicked' = FALSE
    /\ UNCHANGED <<workerVars, stops, version, style, status, startVars>>

(* Execute, and the first half of Run: the operation goes by the names of  *)
(* the client's service and of the handle.                                 *)
ExecuteOperations ==
    /\ status = "running"
    /\ AllMatch
    /\ Due # {}
    /\ calls' = [k \in Calls |->
                   IF k \in Due
                   THEN [state |-> "scheduled",
                         service |-> ServiceName[ClientOf[version][k]],
                         result |-> "none"]
                   ELSE calls[k]]
    /\ panicked' = FALSE
    /\ UNCHANGED <<workerVars, stops, version, style, status, startVars>>

(* Variant: the mismatch is returned as an error.                          *)
MismatchIsReturned ==
    /\ status = "running"
    /\ ~AllMatch
    /\ status' = "failed"
    /\ UNCHANGED <<workerVars, stops, version, style, panicked, calls,
                   startVars>>

(* A mismatch panics: the task fails, nothing it did is kept, and it is    *)
(* tried again.                                                            *)
MismatchPanics ==
    /\ status = "running"
    /\ ~AllMatch
    /\ panicked' = TRUE
    /\ UNCHANGED <<workerVars, stops, version, style, status, calls, startVars>>

(* The second half of Run, or Get: the first error ends the execution.     *)
Finish ==
    /\ status = "running"
    /\ AllMatch
    /\ \/ /\ \A k \in Calls : calls[k].state = "completed"
          /\ status' = "completed"
       \/ /\ \E k \in Calls :
                /\ calls[k].state = "failed"
                /\ \A j \in 1..(k - 1) : calls[j].state = "completed"
          /\ status' = "failed"
    /\ panicked' = FALSE
    /\ UNCHANGED <<workerVars, stops, version, style, calls, startVars>>

CallerTask == ExecuteOperations \/ MismatchPanics \/ Finish

(* A later version of the caller's code is deployed.                       *)
Deploy ==
    /\ version < NumVersions
    /\ version' = version + 1
    /\ UNCHANGED <<workerVars, stops, style, status, panicked, calls,
                   startVars>>

-----------------------------------------------------------------------------
(***************************************************************************)
(* The operation's side.                                                   *)
(***************************************************************************)

Registered(kind) ==
    {Registerables[j] : j \in {l \in 1..registered :
                                  Registerables[l].kind = kind}}

(* What the Nexus SDK finds among the registered services.                 *)
Implementations(service, name) ==
    {op \in UNION {s.ops : s \in {t \in Registered("service") :
                                    ServiceName[t.owner] = service}} :
        op.name = name}

(* The cluster hands a start to the worker.                                *)
SendStart(k) ==
    /\ polling
    /\ calls[k].state = "scheduled"
    /\ ~waiting[k]
    /\ tries' = [tries EXCEPT ![k] = @ + 1]
    /\ waiting' = [waiting EXCEPT ![k] = TRUE]
    /\ handling' = handling \cup
          {[call |-> k, attempt |-> tries'[k],
            found |-> Implementations(calls[k].service, Operation[k].name)]}
    /\ UNCHANGED <<workerVars, stops, callerVars, answer, backing>>

(* The answer does not come in time: it is lost, or the worker's goroutine *)
(* with it, or that goroutine still runs.                                  *)
TimeOut(k) ==
    /\ waiting[k]
    /\ tries[k] < MaxTries
    /\ waiting' = [waiting EXCEPT ![k] = FALSE]
    /\ answer' = [answer EXCEPT ![k] = "none"]
    /\ \/ UNCHANGED handling
       \/ \E h \in handling : h.call = k /\ handling' = handling \ {h}
    /\ UNCHANGED <<workerVars, stops, callerVars, tries, backing>>

(* Variant: the ID is made of something that a retry does not repeat.      *)
FreshWorkflowID(op, call, attempt) == <<op.name, attempt>>

(* getOptions and the handler of an asynchronous operation name what they  *)
(* start after the request, whose ID every attempt of one call carries.    *)
WorkflowID(op, call, attempt) == <<op.name, call>>

(* A workflow is started once under one ID.                                *)
StartBacking(op, call, attempt) ==
    LET id == WorkflowID(op, call, attempt)
    IN  backing' = IF \E w \in backing : w.id = id THEN backing
                   ELSE backing \cup {[id |-> id, call |-> call,
                                       workflow |-> op.implementation,
                                       open |-> TRUE]}

(* The goroutine's answer counts if it is still waited for.                *)
Reply(h, reply) ==
    /\ answer' = IF waiting[h.call] /\ tries[h.call] = h.attempt
                 THEN [answer EXCEPT ![h.call] = reply] ELSE answer
    /\ handling' = handling \ {h}
    /\ UNCHANGED <<workerVars, stops, callerVars, tries, waiting>>

(* The implementation that was found runs.                                 *)
HandleSync(h) ==
    \E op \in h.found :
        /\ op.kind = "sync"
        /\ Reply(h, op.implementation)
        /\ UNCHANGED backing

HandleAsync(h) ==
    \E op \in h.found :
        /\ op.kind \in {"async", "handler"}
        /\ StartBacking(op, h.call, h.attempt)
        /\ Reply(h, "started")

HandleUnknown(h) ==
    /\ h.found = {}
    /\ Reply(h, "unknown")
    /\ UNCHANGED backing

Handle(h) == HandleSync(h) \/ HandleAsync(h) \/ HandleUnknown(h)

Outcome(k) ==
    CASE answer[k] = "started" -> [calls[k] EXCEPT !.state = "started"]
      [] answer[k] = "unknown" -> [calls[k] EXCEPT !.state = "failed"]
      [] OTHER -> [calls[k] EXCEPT !.state = "completed",
                                   !.result = answer[k]]

(* The cluster takes an answer, unless the call has ended meanwhile.       *)
TakeAnswer(k) ==
    /\ answer[k] # "none"
    /\ calls' = [calls EXCEPT ![k] = IF @.state = "scheduled"
                                     THEN Outcome(k) ELSE @]
    /\ waiting' = [waiting EXCEPT ![k] = FALSE]
    /\ answer' = [answer EXCEPT ![k] = "none"]
    /\ UNCHANGED <<workerVars, stops, version, style, status, panicked,
                   tries, handling, backing>>

(* A workflow behind an operation runs if the worker knows it by its name, *)
(* and its end is called back, even before the start was answered.         *)
CompleteBacking(w) ==
    /\ w.open
    /\ polling
    /\ \E r \in Registered("workflow") : r.name = w.workflow
    /\ backing' = (backing \ {w}) \cup {[w EXCEPT !.open = FALSE]}
    /\ calls' = [calls EXCEPT ![w.call] =
                   IF @.state \in {"scheduled", "started"}
                   THEN [@ EXCEPT !.state = "completed", !.result = w.workflow]
                   ELSE @]
    /\ UNCHANGED <<workerVars, stops, version, style, status, panicked,
                   tries, waiting, answer, handling>>

-----------------------------------------------------------------------------
(* The worker's supervisor runs it again; stops and failures are bounded.  *)
Supervise == CallRun /\ UNCHANGED <<stops, callerVars, startVars>>

Work == RunStep /\ UNCHANGED <<stops, callerVars, startVars>>

WorkAside == CloseInterrupt /\ UNCHANGED <<stops, callerVars, startVars>>

Disturb ==
    /\ stops < MaxStops
    /\ stops' = stops + 1
    /\ Cancel \/ WorkerFails
    /\ UNCHANGED <<callerVars, startVars>>

Next ==
    \/ CallerTask
    \/ Deploy
    \/ \E k \in Calls : SendStart(k) \/ TimeOut(k) \/ TakeAnswer(k)
    \/ \E h \in handling : Handle(h)
    \/ \E w \in backing : CompleteBacking(w)
    \/ Supervise
    \/ Work
    \/ WorkAside
    \/ Disturb

(* The caller's worker answers its tasks, the cluster sends starts, takes  *)
(* answers and tries workflows that are open, the worker's goroutines run  *)
(* on, and its supervisor runs it again.  Nothing makes anybody deploy.    *)
Fairness ==
    /\ WF_vars(CallerTask)
    /\ \A k \in Calls : /\ WF_vars(SendStart(k))
                        /\ WF_vars(TakeAnswer(k))
    /\ WF_vars(\E h \in handling : Handle(h))
    /\ WF_vars(\E w \in backing : CompleteBacking(w))
    /\ WF_vars(Supervise)
    /\ WF_vars(Work)
    /\ WF_vars(WorkAside)

Spec == Init /\ [][Next]_vars /\ Fairness

-----------------------------------------------------------------------------
TypeOK ==
    /\ WorkerTypeOK
    /\ stops \in 0..MaxStops
    /\ version \in Versions
    /\ style \in {"run", "execute"}
    /\ status \in {"running", "completed", "failed"}
    /\ panicked \in BOOLEAN
    /\ \A k \in Calls :
          /\ calls[k].state \in
                {"none", "scheduled", "started", "completed", "failed"}
          /\ calls[k].state = "none" <=> calls[k].service = "none"
          /\ tries[k] \in 0..MaxTries
          /\ waiting[k] \in BOOLEAN
          /\ answer[k] # "none" => waiting[k]
          /\ calls[k].state = "none" => tries[k] = 0
    /\ \A h \in handling : h.call \in Calls /\ h.attempt \in 1..tries[h.call]
    /\ \A w \in backing : w.call \in Calls /\ tries[w.call] > 0

(* What NewWorker's answer "ok" stands for here, and Registration shows:   *)
(* the list offers each called operation under its service's name, and no  *)
(* other of that name.                                                     *)
Offers(j, k) ==
    /\ Registerables[j].kind = "service"
    /\ ServiceName[Registerables[j].owner] = ServiceName[Operation[k].service]

Served ==
    \A k \in Calls :
        /\ Operation[k].implementation \notin {"none", "started", "unknown"}
        /\ \E j \in 1..Len(Registerables) :
              Offers(j, k) /\ Operation[k] \in Registerables[j].ops
        /\ \A j \in 1..Len(Registerables) :
              Offers(j, k) => \A op \in Registerables[j].ops :
                                 op.name = Operation[k].name => op = Operation[k]

(* Whatever client the code of some version uses, a call that completes    *)
(* has the result of the very operation it was made on: an operation of    *)
(* the same name on another service is never reached (nexus.go:377-389,    *)
(* 410-421).                                                               *)
HandledByItsService ==
    \A k \in Calls :
        calls[k].state = "completed" =>
            calls[k].result = Operation[k].implementation

(* A call through the wrong client, or none, is never made and never fails *)
(* the execution: it waits for code that is right (nexus.go:416-419).      *)
MismatchNeverFails ==
    /\ status # "failed"
    /\ \A k \in Calls :
          calls[k].state # "none" =>
              calls[k].service = ServiceName[Operation[k].service]

(* Starts that are sent again after their answer was lost, and attempts    *)
(* that go on after they were given up, start no second workflow           *)
(* (nexus.go:150-155, example/nexus_example.go:69-74).                     *)
OneWorkflowPerCall ==
    \A v, w \in backing : v.call = w.call => v = w

(* The deployed code uses, for every call, a client of a service that has  *)
(* the name of the operation's.                                            *)
Fixed ==
    \A k \in Calls :
        LET client == ClientOf[version][k]
        IN  /\ client # NilClient
            /\ ServiceName[client] = ServiceName[Operation[k].service]

(* Once the caller's code is right, its execution completes: every         *)
(* operation of an accepted worker is answered, whatever was lost and      *)
(* however often the worker was stopped (nexus.go:150-155, 416-420).  It   *)
(* takes a worker that has the workflows behind its operations.            *)
CompletesOnceFixed == (<>[]Fixed) => <>(status = "completed")
=============================================================================
