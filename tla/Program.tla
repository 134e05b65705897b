------------------------------ MODULE Program ------------------------------
(***************************************************************************)
(* The program of example/main.go: main calls the cluster step by step, a  *)
(* goroutine runs the worker (WorkerRun), and both assign one variable,    *)
(* err.  The workflow it starts reads one signal (signal.go): signals      *)
(* reach an execution with Signal or SignalWithStart while replicas of its *)
(* code come and go with the process, which is started again when it       *)
(* panics.  The cluster is external.                                       *)
(***************************************************************************)
EXTENDS WorkerRun, Wire, FiniteSets

CONSTANTS
    Queue,          \* the queue the workflow is declared on
    OtherQueue,     \* what a caller's options may name
    Argument,       \* of the workflow, by the ID that main starts it with
    Readers,        \* how the workflow may read its signal
    MaxRestarts     \* bound: how often the process is started again

Ids == {"", "fixed"}

ASSUME ProgramAssumption ==
    /\ Queue # OtherQueue
    /\ \A id \in Ids : IsStruct(Argument[id])
    /\ Readers \subseteq {"try", "receive"}
    /\ MaxRestarts \in Nat

VARIABLES
    process,        \* "up", "panicked" or "exited"
    restarts,
    at, moment,     \* main: its call, and whether err is still to be checked
    outcome,        \* what main's last call returned
    err,            \* the variable that main and the goroutine share
    goroutine,      \* the goroutine that runs the worker
    handle,         \* the execution that main's last handle stands for
    workflow,       \* its declaration's form, and if it reads its signal
                    \* with TryReceive or waits
    executions      \* of the workflow, on the cluster

mainVars == <<at, moment, outcome, handle>>
vars == <<workerVars, process, restarts, mainVars, err, goroutine, workflow,
          executions>>

Script == <<"dial", "execute", "query", "signal", "get",
            "signalWithStart", "get", "setSchedule">>

(* The process that calls, for a signal's name.                            *)
Self == restarts + 1
NoSignal == 0

Starting ==
    /\ at = 1 /\ moment = "call" /\ outcome = "nil" /\ handle = 0
    /\ err = "nil" /\ goroutine = "none"

Init ==
    /\ NoWorker
    /\ Starting
    /\ process = "up"
    /\ restarts = 0
    /\ workflow \in [form : Forms, reads : Readers]
    /\ executions = <<>>

-----------------------------------------------------------------------------
(***************************************************************************)
(* Executions on the cluster.                                              *)
(***************************************************************************)

(* What Execute starts, whatever queue the caller's options name.          *)
ExecuteRequest ==
    [queue |-> Queue, input |-> Encode(workflow.form, Argument[""])]

(* Variant: the caller's options are passed on as they are.                *)
RequestAsGiven ==
    [queue |-> OtherQueue, input |-> Encode(workflow.form, Argument["fixed"])]

(* Variant: the copy of Execute's code lacks the positional branch.        *)
RequestWhole == [queue |-> Queue, input |-> Whole(Argument["fixed"])]

(* What SignalWithStart starts, by a copy of Execute's code.               *)
SignalWithStartRequest ==
    [queue |-> Queue,
     input |-> IF workflow.form = "struct"
               THEN Whole(Argument["fixed"])
               ELSE FieldByField(Argument["fixed"])]

(* ID "" is one that the cluster makes up.                                 *)
NewExecution(id, request, signals) ==
    [id |-> id, by |-> Self, request |-> request, signals |-> signals,
     status |-> "running", done |-> 0, phase |-> "due", view |-> 0,
     suffix |-> NoSignal]

(* A signal comes before the task that reads has begun.                    *)
InTime(x) == x.done < 2 \/ (x.done = 2 /\ x.phase # "running")

(* Signals are kept in the order they come; one is what a blocked Receive  *)
(* waits for.                                                              *)
Signalled(x) ==
    [x EXCEPT !.signals = Append(@, [by |-> Self, inTime |-> InTime(x)]),
              !.phase = IF @ = "receiving" THEN "due" ELSE @]

Initial == [by |-> Self, inTime |-> TRUE]

Running(id) ==
    {e \in DOMAIN executions :
        executions[e].id = id /\ executions[e].status = "running"}

-----------------------------------------------------------------------------
(***************************************************************************)
(* main.                                                                   *)
(***************************************************************************)
Calling(name) ==
    /\ process = "up"
    /\ at \in DOMAIN Script /\ Script[at] = name
    /\ moment = "call"

(* Variant: the call's error goes to a variable that nobody looks at.      *)
AssignShadowed(value) ==
    /\ outcome' = "nil"
    /\ moment' = "check"
    /\ UNCHANGED <<workerVars, process, restarts, at, goroutine, workflow,
                   err>>

(* A call ends, in whatever way, by assigning err.                         *)
Assign(value) ==
    /\ outcome' = value
    /\ err' = value
    /\ moment' = "check"
    /\ UNCHANGED <<workerVars, process, restarts, at, goroutine, workflow>>

(* Any call can fail with nothing done.                                    *)
CallFails ==
    /\ \E j \in DOMAIN Script \ {5, 7} : Calling(Script[j])
    /\ Assign("error")
    /\ UNCHANGED <<handle, executions>>

(* Dial and NewWorker; SetSchedule has a module of its own.                *)
CallSucceeds ==
    /\ Calling("dial") \/ Calling("setSchedule")
    /\ Assign("nil")
    /\ UNCHANGED <<handle, executions>>

(* An answer that is lost is an error, although the cluster has acted.     *)
Acted(newHandle) ==
    /\ \E value \in {"nil", "error"} : Assign(value)
    /\ handle' = newHandle

Execute ==
    /\ Calling("execute")
    /\ executions' =
          Append(executions, NewExecution("", ExecuteRequest, <<>>))
    /\ Acted(Len(executions'))

(* Query waits for a worker, and for the task that sets the handler.       *)
Query ==
    /\ Calling("query")
    /\ polling
    /\ executions[handle].done > 0
    /\ Assign("nil")
    /\ UNCHANGED <<handle, executions>>

(* Signal: an execution that has ended is an error.                        *)
Signal ==
    /\ Calling("signal")
    /\ executions[handle].status = "running"
    /\ executions' = [executions EXCEPT ![handle] = Signalled(@)]
    /\ Acted(handle)

(* Variant: a start, and a signal once there is something to signal.       *)
StartThenSignal ==
    /\ Calling("signalWithStart")
    /\ \/ \E e \in Running("fixed") :
             /\ executions' = [executions EXCEPT ![e] = Signalled(@)]
             /\ Acted(e)
       \/ /\ Running("fixed") = {}
          /\ executions' = Append(executions,
                NewExecution("fixed", SignalWithStartRequest, <<>>))
          /\ UNCHANGED <<workerVars, process, restarts, mainVars, err,
                         goroutine, workflow>>

(* SignalWithStart: one request that signals what runs under the ID, or    *)
(* starts an execution that has the signal from the start.                 *)
SignalWithStart ==
    /\ Calling("signalWithStart")
    /\ \/ \E e \in Running("fixed") :
             /\ executions' = [executions EXCEPT ![e] = Signalled(@)]
             /\ Acted(e)
       \/ /\ Running("fixed") = {}
          /\ executions' = Append(executions,
                NewExecution("fixed", SignalWithStartRequest, <<Initial>>))
          /\ Acted(Len(executions'))

(* Get waits for the end of the execution, without a limit of its own.     *)
Get ==
    /\ Calling("get")
    /\ executions[handle].status # "running"
    /\ Assign(IF executions[handle].status = "completed"
              THEN "nil" ELSE "error")
    /\ UNCHANGED <<handle, executions>>

Call ==
    \/ CallFails \/ CallSucceeds
    \/ Execute \/ Query \/ Signal \/ Get \/ SignalWithStart

(* The tasks of a process that is gone are handed out again.               *)
Abandoned ==
    [e \in DOMAIN executions |->
        [executions[e] EXCEPT !.phase = IF @ = "running" THEN "due" ELSE @]]

Ends(how) ==
    /\ process' = how
    /\ ProcessGone
    /\ executions' = Abandoned
    /\ at' = 1 /\ moment' = "call" /\ outcome' = "nil" /\ handle' = 0
    /\ err' = "nil" /\ goroutine' = "none"
    /\ UNCHANGED <<restarts, workflow>>

(* if err != nil { panic(err) }.  No lock orders the threads: a build may  *)
(* compare what the thread has just assigned, or what err holds by now.    *)
(* The goroutine is started after the first call.                          *)
Check ==
    /\ process = "up"
    /\ moment = "check"
    /\ \/ "error" \in {outcome, err} /\ Ends("panicked")
       \/ /\ "nil" \in {outcome, err}
          /\ at' = at + 1
          /\ moment' = "call"
          /\ goroutine' = IF at = 1 THEN "running" ELSE goroutine
          /\ UNCHANGED <<workerVars, process, restarts, outcome, handle, err,
                         workflow, executions>>

(* The sleep is over: the deferred cancel, and the end of the process,     *)
(* which does not wait for the goroutine.                                  *)
DeferredCancel ==
    /\ process = "up"
    /\ at = Len(Script) + 1
    /\ Cancel
    /\ UNCHANGED <<process, restarts, mainVars, err, goroutine, workflow,
                   executions>>

Exit ==
    /\ process = "up"
    /\ at = Len(Script) + 1
    /\ cancelled \/ run \in {"idle", "returned"}
    /\ Ends("exited")

Restart ==
    /\ process = "panicked"
    /\ restarts < MaxRestarts
    /\ restarts' = restarts + 1
    /\ process' = "up"
    /\ UNCHANGED <<workerVars, mainVars, err, goroutine, workflow, executions>>

-----------------------------------------------------------------------------
(***************************************************************************)
(* The goroutine.                                                          *)
(***************************************************************************)
GoRun ==
    /\ process = "up" /\ goroutine = "running"
    /\ run = "idle" /\ CallRun
    /\ UNCHANGED <<process, restarts, mainVars, err, goroutine, workflow,
                   executions>>

Work ==
    /\ RunStep \/ CloseInterrupt
    /\ UNCHANGED <<process, restarts, mainVars, err, goroutine, workflow,
                   executions>>

WorkerError ==
    /\ WorkerFails
    /\ UNCHANGED <<process, restarts, mainVars, err, goroutine, workflow,
                   executions>>

(* err = wrk.Run(...)                                                      *)
GoAssign ==
    /\ goroutine = "running"
    /\ run = "returned"
    /\ err' = result
    /\ goroutine' = "check"
    /\ UNCHANGED <<workerVars, process, restarts, mainVars, workflow,
                   executions>>

(* Variant: only main looks at err.                                        *)
GoEnd ==
    /\ goroutine = "check"
    /\ goroutine' = "done"
    /\ UNCHANGED <<workerVars, process, restarts, mainVars, err, workflow,
                   executions>>

(* if err != nil { panic(err) }, with the same freedom.                    *)
GoCheck ==
    /\ goroutine = "check"
    /\ \/ "error" \in {result, err} /\ Ends("panicked")
       \/ /\ "nil" \in {result, err}
          /\ goroutine' = "done"
          /\ UNCHANGED <<workerVars, process, restarts, mainVars, err, workflow,
                         executions>>

-----------------------------------------------------------------------------
(***************************************************************************)
(* The workflow: five tasks, with a timer, an activity, a timer and a      *)
(* child between them.  The third task reads a signal.                     *)
(***************************************************************************)
Waits == <<"timer", "activity", "timer", "child">>

Update(e, x) ==
    /\ executions' = [executions EXCEPT ![e] = x]
    /\ UNCHANGED <<workerVars, process, restarts, mainVars, err, goroutine,
                   workflow>>

(* The task sees the signals that have come by now.                        *)
PollTask(e) ==
    LET x == executions[e]
    IN  /\ polling
        /\ x.request.queue = Queue
        /\ x.phase = "due"
        /\ Update(e, [x EXCEPT !.phase = "running", !.view = Len(x.signals)])

(* Variant: the latest signal is taken.                                    *)
LatestSignal(x) == IF x.view > 0 THEN x.signals[Len(x.signals)].by ELSE NoSignal

(* Variant: what has come by now is looked at, seen by the task or not.    *)
SignalByNow(x) ==
    IF Len(x.signals) > 0 THEN x.signals[1].by ELSE NoSignal

(* TryReceive, and Receive or a selector's Receive once there is one: the  *)
(* first signal of those the task sees.                                    *)
FirstSignal(x) == IF x.view > 0 THEN x.signals[1].by ELSE NoSignal

Block(x) ==
    [x EXCEPT !.phase = IF Len(x.signals) > x.view THEN "due" ELSE "receiving"]

Proceed(x) == [x EXCEPT !.done = @ + 1, !.phase = "waiting"]

(* Receive waits for a signal, TryReceive does without.                    *)
Read(x) ==
    IF workflow.reads = "receive" /\ x.view = 0
    THEN Block(x)
    ELSE Proceed([x EXCEPT !.suffix = FirstSignal(x)])

(* The last task closes the execution unless the history has grown.        *)
Close(x, status) ==
    IF Len(x.signals) > x.view
    THEN [x EXCEPT !.phase = "due"]
    ELSE [x EXCEPT !.status = status, !.phase = "closed"]

(* What the SDK and the wrapper make of the input.                         *)
Received(x) == Decode(workflow.form, x.request.input, Len(Argument[x.id]))

(* One run of the code, up to where it waits next; an input that does not  *)
(* decode is an error of the workflow.                                     *)
AfterTask(x) ==
    IF Received(x) = Undecodable THEN Close(x, "failed")
    ELSE CASE x.done = 2          -> Read(x)
           [] x.done = Len(Waits) -> Close(x, "completed")
           [] OTHER               -> Proceed(x)

RespondTask(e) ==
    /\ executions[e].phase = "running"
    /\ Update(e, AfterTask(executions[e]))

(* A task whose worker has stopped may come to nothing.                    *)
LoseTask(e) ==
    /\ executions[e].phase = "running"
    /\ ~polling
    /\ Update(e, [executions[e] EXCEPT !.phase = "due"])

(* A timer fires; an activity or a child ends, which takes a worker.       *)
WaitEnds(e) ==
    LET x == executions[e]
    IN  /\ x.phase = "waiting"
        /\ Waits[x.done] = "timer" \/ polling
        /\ Update(e, [x EXCEPT !.phase = "due"])

-----------------------------------------------------------------------------
ExecutionStep(e) == PollTask(e) \/ RespondTask(e) \/ WaitEnds(e)

Next ==
    \/ Call
    \/ Check
    \/ DeferredCancel
    \/ Exit
    \/ Restart
    \/ GoRun
    \/ Work
    \/ WorkerError
    \/ GoAssign
    \/ GoCheck
    \/ \E e \in DOMAIN executions : ExecutionStep(e) \/ LoseTask(e)

(* Both threads run on, the cluster hands out tasks and answers, and no    *)
(* execution has a claim to be served before another.                      *)
Fairness ==
    /\ WF_vars(Call)
    /\ WF_vars(Check)
    /\ WF_vars(DeferredCancel)
    /\ WF_vars(Exit)
    /\ WF_vars(GoRun)
    /\ WF_vars(Work)
    /\ WF_vars(GoAssign)
    /\ WF_vars(GoCheck)
    /\ \A e \in 1..(2 * (MaxRestarts + 1)) :
          WF_vars(e \in DOMAIN executions /\ ExecutionStep(e))

Spec == Init /\ [][Next]_vars /\ Fairness

-----------------------------------------------------------------------------
Phases == {"due", "running", "waiting", "receiving", "closed"}

TypeOK ==
    /\ WorkerTypeOK
    /\ process \in {"up", "panicked", "exited"}
    /\ restarts \in 0..MaxRestarts
    /\ at \in 1..(Len(Script) + 1)
    /\ moment \in {"call", "check"}
    /\ err \in {"nil", "error"} /\ outcome \in {"nil", "error"}
    /\ goroutine \in {"none", "running", "check", "done"}
    /\ handle \in 0..Len(executions)
    /\ workflow \in [form : Forms, reads : Readers]
    /\ process # "up" => Starting /\ NoWorker
    /\ \A e \in DOMAIN executions :
          LET x == executions[e]
          IN  /\ x.phase \in Phases
              /\ x.phase = "closed" <=> x.status # "running"
              /\ x.done \in 0..Len(Waits)
              /\ x.view \in 0..Len(x.signals)
              /\ x.suffix # NoSignal => x.view > 0

(* main goes on only from a call that succeeded, so the handle it queries, *)
(* signals and waits for stands for an execution: the goroutine assigns    *)
(* the same err, but can take an error back only with the nil that Run     *)
(* answers after main's own cancel (main.go:82-149).                       *)
MainHoldsAnExecution == at > 2 => handle \in DOMAIN executions

(* An execution that reads at all reads the first signal there was; a      *)
(* signal that came before the reading task is not passed over, whatever   *)
(* became of the processes that ran the tasks before (signal.go:41-77).    *)
SignalInTimeIsRead ==
    \A e \in DOMAIN executions :
        LET x == executions[e]
        IN  x.done > 2 =>
              /\ x.suffix # NoSignal => x.suffix = x.signals[1].by
              /\ (\E s \in DOMAIN x.signals : x.signals[s].inTime)
                    => x.suffix # NoSignal

(* The execution that a SignalWithStart starts has the signal of that very *)
(* call in front of all others, even if the caller dies right after, and   *)
(* reads it (signal.go:82-122).                                            *)
InitialSignalIsRead ==
    \A e \in DOMAIN executions :
        LET x == executions[e]
        IN  x.id = "fixed" =>
              /\ x.signals # <<>> /\ x.signals[1].by = x.by
              /\ x.done > 2 => x.suffix = x.by

(* Execute and SignalWithStart each have their own code for the wire form: *)
(* whichever of them started an execution, in this life of the process or  *)
(* an earlier one, the workflow gets the argument that was given for it,   *)
(* so that no execution fails for its input (workflow.go:243-259,          *)
(* signal.go:100-121).                                                     *)
StartsArrive ==
    \A e \in DOMAIN executions :
        LET x == executions[e]
        IN  Received(x) = Argument[x.id] /\ x.status # "failed"

(* If the worker runs without an error, the program ends, well or by a     *)
(* panic: every execution it waits for is on a queue that its worker       *)
(* polls, and has its signal if it waits for one (workflow.go:243,         *)
(* signal.go:98, 114-122, main.go:94-149).                                 *)
ProgramEnds ==
    [](result # "error") => <>[](process # "up")

(* A worker's error that finds main waiting for a result, with no task     *)
(* under way, ends the program instead of leaving main to wait for ever    *)
(* (main.go:88-93).                                                        *)
FailureNoticedWhileWaiting ==
    (/\ goroutine = "running" /\ run = "returned" /\ result = "error"
     /\ Calling("get")
     /\ executions[handle].status = "running"
     /\ \A e \in DOMAIN executions : executions[e].phase # "running")
        ~> (process # "up")
=============================================================================
