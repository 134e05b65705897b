----------------------------- MODULE Execution -----------------------------
(***************************************************************************)
(* One workflow execution, from the typed Execute that starts it to its    *)
(* end, on worker replicas that are upgraded one by one.  The workflow     *)
(* starts its activities together (AppendFuture), waits for their results  *)
(* in order and returns the first error it gets.                           *)
(*                                                                         *)
(* tempts decides how arguments travel, as one struct or as one payload    *)
(* per field, and what becomes of a result that the deployed code cannot   *)
(* decode: the wrapper of WithImplementation panics, which fails the       *)
(* workflow TASK, and the task is tried again until a replica that can     *)
(* decode takes it (workflow.go, activity.go).  The cluster, and the SDK's *)
(* decoding and replaying, are external.                                   *)
(***************************************************************************)
EXTENDS Wire, FiniteSets

CONSTANTS
    Replicas,       \* worker processes of the queue
    NumVersions,    \* the program's versions are 1..NumVersions
    Starter,        \* version of the program that starts the workflow
    NumCalls,       \* activities the workflow runs
    Argument,       \* 0: the workflow's argument; c: that of activity c
    Formats,        \* formats that a result's payload can have
    Writes,         \* the format each version's activities write
    Reads,          \* the formats each version can decode
    FormChoices     \* the forms that may have been declared

Versions == 1..NumVersions
Calls == 1..NumCalls
Workflow == 0
Parts == {Workflow} \cup Calls

ASSUME VersionAssumption ==
    /\ NumVersions \in Nat \ {0} /\ Starter \in Versions
    /\ NumCalls \in Nat
    /\ Writes \in [Versions -> Formats]
    /\ Reads \in [Versions -> SUBSET Formats]
    /\ FormChoices \subseteq [Versions -> [Parts -> Forms]]
    /\ "none" \notin Formats /\ "error" \notin Formats

ASSUME ArgumentAssumption == \A p \in Parts : IsStruct(Argument[p])

VARIABLES
    form,           \* which declarations are positional, in each version
    version,        \* what each replica runs
    status,         \* of the execution
    input,          \* payloads the execution was started with
    scheduled,      \* payloads of each activity, <<>> before
    results,        \* format of each result, "error" or "none"
    workflowTask,   \* "idle", "pending" or "running"
    worker,         \* who runs the workflow task
    view,           \* the results in the history that the task was given
    news,           \* the history has grown since
    activityTask    \* activity -> "idle", "pending" or "done"

history == <<input, scheduled, results>>
task == <<workflowTask, worker, view, news>>
vars == <<form, version, status, history, task, activityTask>>

NoResult == [c \in Calls |-> "none"]

Init ==
    /\ form \in FormChoices
    /\ version = [r \in Replicas |-> Starter]
    /\ status = "unstarted"
    /\ input = <<>>
    /\ scheduled = [c \in Calls |-> <<>>]
    /\ results = NoResult
    /\ workflowTask = "idle"
    /\ worker \in Replicas
    /\ view = NoResult
    /\ news = FALSE
    /\ activityTask = [c \in Calls |-> "idle"]

-----------------------------------------------------------------------------
(* What the function registered in version v gets.                         *)
Received(v, part, payloads) ==
    Decode(form[v][part], payloads, Len(Argument[part]))

-----------------------------------------------------------------------------
(***************************************************************************)
(* The workflow's code as version v runs it on the results in its history. *)
(***************************************************************************)

(* Variant: Activity.Run drops the error of Get.                           *)
DecodedOrFailed(v, c, seen) == seen[c] # "none"

(* Activity.Run gives a value.                                             *)
Decoded(v, c, seen) == seen[c] \in Reads[v]

(* The futures are waited for in order: the first without a value decides. *)
Reached(v, c, seen) == \A d \in 1..(c - 1) : Decoded(v, d, seen)

ReturnsValue(v, seen) == \A c \in Calls : Decoded(v, c, seen)

(* An error of the activity itself.                                        *)
ReturnsApplicationError(v, seen) ==
    \E c \in Calls : Reached(v, c, seen) /\ seen[c] = "error"

(* An error that wraps ErrUnableToDecode.                                  *)
ReturnsDecodeError(v, seen) ==
    \E c \in Calls : Reached(v, c, seen) /\ seen[c] \in Formats \ Reads[v]

FunctionReturns(v, seen) ==
    CASE ReturnsValue(v, seen)            -> "value"
      [] ReturnsApplicationError(v, seen) -> "application error"
      [] ReturnsDecodeError(v, seen)      -> "decode error"
      [] OTHER                            -> "wait"

(* Variant: any error panics.                                              *)
PanicOnAnyError(returned) ==
    IF returned \in {"decode error", "application error"} THEN "panic"
                                                          ELSE returned

(* Variant: the wrapper passes every error on.                             *)
NoPanic(returned) == returned

PanicOnDecodeError(returned) ==
    IF returned = "decode error" THEN "panic" ELSE returned

(* The wrapped function is reached only when its argument was decoded.     *)
TaskOutcome(v, seen) ==
    IF Received(v, Workflow, input) = Undecodable
    THEN "input error" ELSE PanicOnDecodeError(FunctionReturns(v, seen))

-----------------------------------------------------------------------------
(* A caller starts the execution.                                          *)
Execute ==
    /\ status = "unstarted"
    /\ status' = "running"
    /\ input' = Encode(form[Starter][Workflow], Argument[Workflow])
    /\ workflowTask' = "pending"
    /\ UNCHANGED <<form, version, scheduled, results, worker, view, news,
                   activityTask>>

(* A replica takes the workflow task, with the history so far.             *)
PollWorkflowTask(r) ==
    /\ workflowTask = "pending"
    /\ workflowTask' = "running"
    /\ worker' = r
    /\ view' = results
    /\ news' = FALSE
    /\ UNCHANGED <<form, version, status, history, activityTask>>

(* After a task: the next one is due if something happened meanwhile.      *)
TaskDone ==
    /\ workflowTask' = IF news THEN "pending" ELSE "idle"
    /\ UNCHANGED <<worker, view, news>>

Close(result) ==
    /\ status' = result
    /\ workflowTask' = "idle"
    /\ activityTask' = [c \in Calls |-> "idle"]
    /\ UNCHANGED <<scheduled, worker, view, news>>

Running(outcomes) ==
    /\ workflowTask = "running"
    /\ TaskOutcome(version[worker], view) \in outcomes
    /\ UNCHANGED <<form, version, input, results>>

(* Variant: the activities are scheduled without their arguments.          *)
ScheduleNoArguments ==
    /\ Running({"wait"})
    /\ \A c \in Calls : scheduled[c] = <<>>
    /\ activityTask' = [c \in Calls |-> "pending"]
    /\ TaskDone
    /\ UNCHANGED <<status, scheduled>>

(* The first run of the code schedules every activity before it waits.     *)
ScheduleActivities ==
    /\ Running({"wait"})
    /\ \A c \in Calls : scheduled[c] = <<>>
    /\ scheduled' =
          [c \in Calls |-> Encode(form[version[worker]][c], Argument[c])]
    /\ activityTask' = [c \in Calls |-> "pending"]
    /\ TaskDone
    /\ UNCHANGED status

(* A later one waits on.                                                   *)
Wait ==
    /\ Running({"wait"})
    /\ \A c \in Calls : scheduled[c] # <<>>
    /\ TaskDone
    /\ UNCHANGED <<status, scheduled, activityTask>>

(* A panic fails the task: nothing it did is kept, and it is tried again.  *)
FailTask ==
    /\ Running({"panic"})
    /\ workflowTask' = "pending"
    /\ UNCHANGED <<status, scheduled, worker, view, news, activityTask>>

(* A result, or an error that is not a panic, ends the execution, unless   *)
(* the history has grown: the cluster then wants the task done again.      *)
CompleteExecution == Running({"value"}) /\ ~news /\ Close("completed")

FailExecution ==
    /\ Running({"application error", "decode error", "input error"})
    /\ ~news
    /\ Close("failed")

TryAgain ==
    /\ Running({"value", "application error", "decode error", "input error"})
    /\ news
    /\ TaskDone
    /\ UNCHANGED <<status, scheduled, activityTask>>

RespondWorkflowTask ==
    \/ ScheduleActivities
    \/ Wait
    \/ FailTask
    \/ CompleteExecution
    \/ FailExecution
    \/ TryAgain

(* An attempt of an activity whose argument was decoded ends with a result *)
(* or an error that is not to be retried.  An attempt that fails on its    *)
(* argument, or is lost, is followed by another: it changes nothing.       *)
RunActivity(r, c) ==
    /\ activityTask[c] = "pending"
    /\ Received(version[r], c, scheduled[c]) # Undecodable
    /\ activityTask' = [activityTask EXCEPT ![c] = "done"]
    /\ \E result \in {"error", Writes[version[r]]} :
          results' = [results EXCEPT ![c] = result]
    /\ IF workflowTask = "running"
       THEN news' = TRUE /\ UNCHANGED workflowTask
       ELSE workflowTask' = "pending" /\ UNCHANGED news
    /\ UNCHANGED <<form, version, status, input, scheduled, worker, view>>

(* A replica is stopped and started with a later version.  The workflow    *)
(* task it had is timed out by the cluster.                                *)
Deploy(r) ==
    /\ \E v \in Versions : /\ v > version[r]
                           /\ version' = [version EXCEPT ![r] = v]
    /\ workflowTask' = IF workflowTask = "running" /\ worker = r
                       THEN "pending" ELSE workflowTask
    /\ UNCHANGED <<form, status, history, worker, view, news, activityTask>>

-----------------------------------------------------------------------------
Next ==
    \/ Execute
    \/ \E r \in Replicas : PollWorkflowTask(r)
    \/ RespondWorkflowTask
    \/ \E r \in Replicas, c \in Calls : RunActivity(r, c)
    \/ \E r \in Replicas : Deploy(r)

(* The cluster hands out tasks that are due, and replicas answer; no       *)
(* replica in particular, and no version, has a claim to a task.  Nothing  *)
(* makes anybody deploy.                                                   *)
Fairness ==
    /\ WF_vars(Execute)
    /\ WF_vars(\E r \in Replicas : PollWorkflowTask(r))
    /\ WF_vars(RespondWorkflowTask)
    /\ \A c \in Calls : WF_vars(\E r \in Replicas : RunActivity(r, c))

Spec == Init /\ [][Next]_vars /\ Fairness

-----------------------------------------------------------------------------
(* No declaration changes between struct and positional.                   *)
FormsAgree ==
    \A f \in FormChoices, v, w \in Versions, p \in Parts :
        f[v][p] = f[w][p]

IsResult(s) == s \in [Calls -> Formats \cup {"none", "error"}]

(* Variables keep their types, a task in progress has seen a part of the   *)
(* history, and an activity's result stands for a finished activity.       *)
TypeOK ==
    /\ form \in FormChoices
    /\ version \in [Replicas -> Versions]
    /\ status \in {"unstarted", "running", "completed", "failed"}
    /\ workflowTask \in {"idle", "pending", "running"}
    /\ worker \in Replicas
    /\ news \in BOOLEAN
    /\ IsResult(results) /\ IsResult(view)
    /\ \A c \in Calls :
          /\ view[c] \in {"none", results[c]}
          /\ activityTask[c] \in {"idle", "pending", "done"}
          /\ activityTask[c] = "done" => results[c] # "none"
          /\ activityTask[c] = "pending" => scheduled[c] # <<>>

(* Whichever replica takes a task, of whatever version, the implementation *)
(* gets the argument that the caller gave, as long as the declaration      *)
(* keeps its form from version to version (workflow.go:186-203, 247-259;   *)
(* activity.go:134-156, 163-180).                                          *)
ArgumentsArrive ==
    /\ status # "unstarted" =>
          \A r \in Replicas :
              Received(version[r], Workflow, input) = Argument[Workflow]
    /\ \A c \in Calls :
          scheduled[c] # <<>> =>
              \A r \in Replicas :
                  Received(version[r], c, scheduled[c]) = Argument[c]

(* An execution fails only because one of its activities did: results that *)
(* some deployed version cannot decode never fail it                       *)
(* (workflow.go:24-28, 165-167, 211-217).                                  *)
DecodeErrorsNeverFail ==
    status = "failed" => \E c \in Calls : results[c] = "error"

(* An execution completes only with every result known and none an error:  *)
(* attempts that panicked and were tried again on other versions have left *)
(* nothing behind (workflow.go:24-28).                                     *)
CompletesOnAllResults ==
    status = "completed" => \A c \in Calls : results[c] \in Formats

(* A version that copes with everything written.                           *)
Fixed(v) == Reads[v] = Formats

(* Once only fixed versions run, the execution ends: what decode errors    *)
(* blocked goes on, and an activity's error does not block                 *)
(* (workflow.go:17-28, 165-167).                                           *)
EndsOnceFixed ==
    (<>[](\A r \in Replicas : Fixed(version[r])))
        => <>(status \in {"completed", "failed"})
=============================================================================
