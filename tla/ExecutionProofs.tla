-------------------------- MODULE ExecutionProofs --------------------------
(***************************************************************************)
(* Theorems about Execution: whatever the versions read and write, however *)
(* replicas are upgraded, and for any number of activities.                *)
(***************************************************************************)
EXTENDS Execution, TLAPS

(* What a task in progress was shown, and what is over when it is over.    *)
Control ==
    /\ workflowTask # "idle" => status = "running"
    /\ \A c \in Calls :
          /\ activityTask[c] # "idle" => status = "running"
          /\ view[c] # "none" => view[c] = results[c]
          /\ activityTask[c] = "pending" =>
                results[c] = "none" /\ scheduled[c] # <<>>
          /\ activityTask[c] = "done" => results[c] # "none"
          /\ scheduled[c] = <<>> => results[c] = "none"

Types ==
    /\ form \in FormChoices
    /\ version \in [Replicas -> Versions]
    /\ status \in {"unstarted", "running", "completed", "failed"}
    /\ workflowTask \in {"idle", "pending", "running"}
    /\ worker \in Replicas
    /\ news \in BOOLEAN
    /\ results \in [Calls -> Formats \cup {"none", "error"}]
    /\ view \in [Calls -> Formats \cup {"none", "error"}]
    /\ activityTask \in [Calls -> {"idle", "pending", "done"}]

(* Payloads were made by the caller, and by some version of the workflow.  *)
Sent ==
    /\ status # "unstarted" =>
          input = Encode(form[Starter][Workflow], Argument[Workflow])
    /\ \A c \in Calls :
          \/ scheduled[c] = <<>>
          \/ \E v \in Versions : scheduled[c] = Encode(form[v][c], Argument[c])

IInv == Types /\ Control

-----------------------------------------------------------------------------
(* Encoded arguments are no empty list: a struct has a field.              *)
LEMMA EncodedNotEmpty ==
    ASSUME NEW p \in Parts, NEW f \in Forms
    PROVE  Encode(f, Argument[p]) # <<>>
  <1>1. 1 \in DOMAIN Encode(f, Argument[p])
    <2>1. CASE f = "struct"
      BY <2>1 DEF Encode, Whole
    <2>2. CASE f # "struct"
      <3>1. DOMAIN Argument[p] = 1..Len(Argument[p])
        BY ArgumentAssumption DEF ArgumentAssumption, IsStruct
      <3>2. Len(Argument[p]) \in Nat \ {0}
        BY ArgumentAssumption DEF ArgumentAssumption, IsStruct
      <3>3. \A n \in Nat \ {0} : 1 \in 1..n
        OBVIOUS
      <3>. QED
        BY <2>2, <3>1, <3>2, <3>3 DEF Encode, FieldByField
    <2>. QED
      BY <2>1, <2>2
  <1>2. 1 \notin DOMAIN <<>>
    OBVIOUS
  <1>. QED
    BY <1>1, <1>2

(* What was encoded in a form is decoded in that form.                     *)
LEMMA RoundTrip ==
    ASSUME NEW p \in Parts, NEW f \in Forms
    PROVE  Decode(f, Encode(f, Argument[p]), Len(Argument[p])) = Argument[p]
  <1>1. CASE f = "struct"
    BY <1>1 DEF Encode, Whole, Decode
  <1>2. CASE f = "positional"
    <2>. DEFINE n == Len(Argument[p])
                e == Encode(f, Argument[p])
    <2>1. e = [j \in 1..n |-> [whole |-> FALSE, fields |-> <<Argument[p][j]>>]]
      BY <1>2, ArgumentAssumption
         DEF ArgumentAssumption, IsStruct, Encode, FieldByField
    <2>2. \A j \in 1..n : j \in DOMAIN e /\ ~e[j].whole
      BY <2>1
    <2>3. \A j \in 1..n : e[j].fields[1] = Argument[p][j]
      BY <2>1
    <2>4. [j \in 1..n |-> e[j].fields[1]] = [j \in 1..n |-> Argument[p][j]]
      BY <2>3
    <2>5. Argument[p] = [j \in 1..n |-> Argument[p][j]]
      BY ArgumentAssumption DEF ArgumentAssumption, IsStruct
    <2>. QED
      BY <1>2, <2>2, <2>4, <2>5 DEF Decode
  <1>. QED
    BY <1>1, <1>2 DEF Forms

-----------------------------------------------------------------------------
(***************************************************************************)
(* What the workflow's code can make of its history.                       *)
(***************************************************************************)

LEMMA ValueSeen ==
    ASSUME NEW v, NEW seen, TaskOutcome(v, seen) = "value"
    PROVE  \A c \in Calls : seen[c] \in Reads[v]
  BY DEF TaskOutcome, PanicOnDecodeError, FunctionReturns, ReturnsValue, Decoded

LEMMA ApplicationErrorSeen ==
    ASSUME NEW v, NEW seen, TaskOutcome(v, seen) = "application error"
    PROVE  \E c \in Calls : seen[c] = "error"
  BY DEF TaskOutcome, PanicOnDecodeError, FunctionReturns,
         ReturnsApplicationError

(* A decode error is never the outcome: the wrapper has panicked.          *)
LEMMA NoDecodeError ==
    ASSUME NEW v, NEW seen
    PROVE  TaskOutcome(v, seen) # "decode error"
  BY DEF TaskOutcome, PanicOnDecodeError

-----------------------------------------------------------------------------
(***************************************************************************)
(* Types and control.                                                      *)
(***************************************************************************)

LEMMA InitIInv == Init => IInv
  <1>. SUFFICES ASSUME Init PROVE Types /\ Control
    BY DEF IInv
  <1>1. NoResult \in [Calls -> Formats \cup {"none", "error"}]
    BY DEF NoResult
  <1>2. version \in [Replicas -> Versions]
    BY VersionAssumption DEF VersionAssumption, Init
  <1>3. Types
    BY <1>1, <1>2 DEF Init, Types
  <1>4. Control
    BY DEF Init, Control, NoResult
  <1>. QED
    BY <1>3, <1>4

LEMMA FormOfPart ==
    ASSUME Types, NEW v \in Versions, NEW p \in Parts
    PROVE  form[v][p] \in Forms
  BY VersionAssumption DEF VersionAssumption, Types

LEMMA ResponseTypes ==
    ASSUME Types, RespondWorkflowTask
    PROVE  Types'
  <1>1. CASE ScheduleActivities
    BY <1>1 DEF ScheduleActivities, Running, TaskDone, Types
  <1>2. CASE Wait
    BY <1>2 DEF Wait, Running, TaskDone, Types
  <1>3. CASE FailTask
    BY <1>3 DEF FailTask, Running, Types
  <1>4. CASE CompleteExecution
    BY <1>4 DEF CompleteExecution, Close, Running, Types
  <1>5. CASE FailExecution
    BY <1>5 DEF FailExecution, Close, Running, Types
  <1>6. CASE TryAgain
    BY <1>6 DEF TryAgain, Running, TaskDone, Types
  <1>. QED
    BY <1>1, <1>2, <1>3, <1>4, <1>5, <1>6 DEF RespondWorkflowTask

LEMMA RunActivityTypes ==
    ASSUME Types, NEW r \in Replicas, NEW c \in Calls, RunActivity(r, c)
    PROVE  Types'
  <1>1. Writes[version[r]] \in Formats
    BY VersionAssumption DEF VersionAssumption, Types
  <1>2. results' \in [Calls -> Formats \cup {"none", "error"}]
    BY <1>1 DEF RunActivity, Types
  <1>3. activityTask' \in [Calls -> {"idle", "pending", "done"}]
    BY DEF RunActivity, Types
  <1>4. /\ workflowTask' \in {"idle", "pending", "running"}
        /\ news' \in BOOLEAN
    BY DEF RunActivity, Types
  <1>. QED
    BY <1>2, <1>3, <1>4 DEF RunActivity, Types

LEMMA TypesStep ==
    ASSUME Types, [Next]_vars
    PROVE  Types'
  <1>1. CASE Execute
    BY <1>1 DEF Execute, Types
  <1>2. ASSUME NEW r \in Replicas, PollWorkflowTask(r)
        PROVE  Types'
    BY <1>2 DEF PollWorkflowTask, history, Types
  <1>3. CASE RespondWorkflowTask
    BY <1>3, ResponseTypes
  <1>4. ASSUME NEW r \in Replicas, NEW c \in Calls, RunActivity(r, c)
        PROVE  Types'
    BY <1>4, RunActivityTypes
  <1>5. ASSUME NEW r \in Replicas, Deploy(r)
        PROVE  Types'
    BY <1>5 DEF Deploy, history, Types
  <1>6. CASE UNCHANGED vars
    BY <1>6 DEF vars, history, task, Types
  <1>. QED
    BY <1>1, <1>2, <1>3, <1>4, <1>5, <1>6 DEF Next

(* Closing, waiting and failing a task leave the results alone, and        *)
(* nothing is pending or done unless the execution goes on.                *)
LEMMA ResponseControl ==
    ASSUME IInv, RespondWorkflowTask
    PROVE  Control'
  <1>. USE DEF IInv
  <1>1. CASE ScheduleActivities
    <2>1. \A c \in Calls : scheduled'[c] # <<>>
      <3>1. version[worker] \in Versions
        BY DEF Types
      <3>2. \A c \in Calls : form[version[worker]][c] \in Forms
        BY <3>1, FormOfPart DEF Parts
      <3>3. \A c \in Calls : Encode(form[version[worker]][c], Argument[c]) # <<>>
        BY <3>2, EncodedNotEmpty DEF Parts
      <3>. QED
        BY <1>1, <3>3 DEF ScheduleActivities
    <2>2. \A c \in Calls : scheduled[c] = <<>> /\ results[c] = "none"
      BY <1>1 DEF ScheduleActivities, Control
    <2>3. /\ status = "running" /\ status' = status
          /\ activityTask' = [c \in Calls |-> "pending"]
          /\ UNCHANGED <<view, results>>
      BY <1>1 DEF ScheduleActivities, Running, TaskDone, Control
    <2>. QED
      BY <2>1, <2>2, <2>3 DEF Control
  <1>2. CASE Wait
    BY <1>2 DEF Wait, Running, TaskDone, Control
  <1>3. CASE FailTask
    BY <1>3 DEF FailTask, Running, Control
  <1>4. CASE CompleteExecution
    BY <1>4 DEF CompleteExecution, Close, Running, Control
  <1>5. CASE FailExecution
    BY <1>5 DEF FailExecution, Close, Running, Control
  <1>6. CASE TryAgain
    BY <1>6 DEF TryAgain, Running, TaskDone, Control
  <1>. QED
    BY <1>1, <1>2, <1>3, <1>4, <1>5, <1>6 DEF RespondWorkflowTask

LEMMA RunActivityControl ==
    ASSUME IInv, NEW r \in Replicas, NEW c \in Calls, RunActivity(r, c)
    PROVE  Control'
  <1>1. /\ activityTask[c] = "pending"
        /\ status = "running"
        /\ results[c] = "none" /\ view[c] = "none" /\ scheduled[c] # <<>>
    BY DEF RunActivity, IInv, Control
  <1>2. /\ results'[c] # "none"
        /\ \A d \in Calls \ {c} : results'[d] = results[d]
    <2>1. Writes[version[r]] \in Formats /\ "none" \notin Formats
      BY VersionAssumption DEF VersionAssumption, IInv, Types
    <2>. QED
      BY <2>1 DEF RunActivity, IInv, Types
  <1>3. /\ activityTask'[c] = "done"
        /\ \A d \in Calls \ {c} : activityTask'[d] = activityTask[d]
    BY DEF RunActivity, IInv, Types
  <1>4. UNCHANGED <<status, scheduled, view>>
    BY DEF RunActivity
  <1>. QED
    BY <1>1, <1>2, <1>3, <1>4 DEF IInv, Control

LEMMA ControlStep ==
    ASSUME IInv, [Next]_vars
    PROVE  Control'
  <1>1. CASE Execute
    BY <1>1 DEF Execute, IInv, Control
  <1>2. ASSUME NEW r \in Replicas, PollWorkflowTask(r)
        PROVE  Control'
    BY <1>2 DEF PollWorkflowTask, history, IInv, Control
  <1>3. CASE RespondWorkflowTask
    BY <1>3, ResponseControl
  <1>4. ASSUME NEW r \in Replicas, NEW c \in Calls, RunActivity(r, c)
        PROVE  Control'
    BY <1>4, RunActivityControl
  <1>5. ASSUME NEW r \in Replicas, Deploy(r)
        PROVE  Control'
    BY <1>5 DEF Deploy, history, IInv, Control
  <1>6. CASE UNCHANGED vars
    BY <1>6 DEF vars, history, task, IInv, Control
  <1>. QED
    BY <1>1, <1>2, <1>3, <1>4, <1>5, <1>6 DEF Next

(* The inductive invariant: types, and what is outstanding in each phase.  *)
THEOREM ControlAlways == Spec => []IInv
  <1>1. IInv /\ [Next]_vars => IInv'
    BY TypesStep, ControlStep DEF IInv
  <1>. QED
    BY InitIInv, <1>1, PTL DEF Spec

(* The type invariant, with the part of the history a task was given.      *)
THEOREM TypeCorrect == Spec => []TypeOK
  <1>1. IInv => TypeOK
    BY DEF IInv, Types, Control, TypeOK, IsResult
  <1>. QED
    BY <1>1, ControlAlways, PTL

-----------------------------------------------------------------------------
(***************************************************************************)
(* A completed execution has every result (workflow.go:24-28): whatever    *)
(* attempts panicked on other versions.                                    *)
(***************************************************************************)
THEOREM CompletesOnAllResultsAlways == Spec => []CompletesOnAllResults
  <1>1. Init => CompletesOnAllResults
    BY DEF Init, CompletesOnAllResults
  <1>2. IInv /\ CompletesOnAllResults /\ [Next]_vars => CompletesOnAllResults'
    <2>. SUFFICES ASSUME IInv, CompletesOnAllResults, [Next]_vars,
                         status' = "completed", NEW c \in Calls
                  PROVE  results'[c] \in Formats
      BY DEF CompletesOnAllResults
    <2>1. CASE CompleteExecution
      <3>1. view[c] \in Reads[version[worker]]
        BY <2>1, ValueSeen DEF CompleteExecution, Running
      <3>2. view[c] \in Formats /\ "none" \notin Formats
        BY <3>1, VersionAssumption DEF VersionAssumption, IInv, Types
      <3>. QED
        BY <2>1, <3>2 DEF CompleteExecution, Running, IInv, Control
    <2>2. CASE status = "completed"
      <3>1. \A d \in Calls : activityTask[d] = "idle"
        BY <2>2 DEF IInv, Control, Types
      <3>2. workflowTask = "idle"
        BY <2>2 DEF IInv, Control
      <3>3. UNCHANGED results
        BY <2>2, <3>1, <3>2 DEF Next, Execute, PollWorkflowTask,
              RespondWorkflowTask, ScheduleActivities, Wait, FailTask,
              CompleteExecution, FailExecution, TryAgain, Running, RunActivity,
              Deploy, vars, history
      <3>. QED
        BY <2>2, <3>3 DEF CompletesOnAllResults
    <2>3. CASE status # "completed" /\ ~CompleteExecution
      BY <2>3 DEF Next, Execute, PollWorkflowTask, RespondWorkflowTask,
            ScheduleActivities, Wait, FailTask, FailExecution, TryAgain, Close,
            RunActivity, Deploy, vars
    <2>. QED
      BY <2>1, <2>2, <2>3
  <1>. QED
    BY <1>1, <1>2, ControlAlways, PTL DEF Spec

-----------------------------------------------------------------------------
(***************************************************************************)
(* Arguments, when no declaration changes its form.                        *)
(***************************************************************************)

LEMMA SentStep ==
    ASSUME IInv, Sent, [Next]_vars
    PROVE  Sent'
  <1>1. CASE Execute
    <2>1. /\ input' = Encode(form'[Starter][Workflow], Argument[Workflow])
          /\ UNCHANGED <<form, scheduled>>
      BY <1>1 DEF Execute
    <2>. QED
      BY <2>1 DEF Sent
  <1>2. CASE ScheduleActivities
    <2>1. /\ UNCHANGED <<form, input, status>>
          /\ \A c \in Calls :
                scheduled'[c] = Encode(form[version[worker]][c], Argument[c])
      BY <1>2 DEF ScheduleActivities, Running
    <2>2. version[worker] \in Versions
      BY DEF IInv, Types
    <2>. QED
      BY <2>1, <2>2 DEF Sent
  <1>3. CASE ~Execute /\ ~ScheduleActivities
    <2>1. UNCHANGED <<form, input, scheduled>>
      BY <1>3 DEF Next, PollWorkflowTask, RespondWorkflowTask, Wait, FailTask,
            CompleteExecution, FailExecution, TryAgain, Close, Running,
            RunActivity, Deploy, vars, history
    <2>2. status' # "unstarted" => status # "unstarted"
      <3>1. RespondWorkflowTask => status = "running"
        BY DEF RespondWorkflowTask, ScheduleActivities, Wait, FailTask,
              CompleteExecution, FailExecution, TryAgain, Running, IInv, Control
      <3>2. ~RespondWorkflowTask => UNCHANGED status
        BY <1>3 DEF Next, PollWorkflowTask, RunActivity, Deploy, vars
      <3>. QED
        BY <3>1, <3>2
    <2>. QED
      BY <2>1, <2>2 DEF Sent
  <1>. QED
    BY <1>1, <1>2, <1>3

LEMMA InitSent == Init => Sent
  BY DEF Init, Sent

LEMMA SentAlways == Spec => []Sent
  BY InitSent, SentStep, ControlAlways, PTL DEF Spec

(* Forms agree, so what is received is what was encoded.                   *)
LEMMA SentArrives ==
    ASSUME FormsAgree, Types, Sent
    PROVE  ArgumentsArrive
  <1>1. \A p \in Parts, v, w \in Versions : form[v][p] = form[w][p]
    BY DEF FormsAgree, Types
  <1>2. ASSUME NEW p \in Parts, NEW v \in Versions, NEW w \in Versions
        PROVE  Received(v, p, Encode(form[w][p], Argument[p])) = Argument[p]
    <2>1. form[w][p] \in Forms /\ form[v][p] = form[w][p]
      BY <1>1, FormOfPart
    <2>. QED
      BY <2>1, RoundTrip DEF Received
  <1>3. \A r \in Replicas : version[r] \in Versions
    BY DEF Types
  <1>4. Starter \in Versions /\ Workflow \in Parts /\ Calls \subseteq Parts
    BY VersionAssumption DEF VersionAssumption, Parts
  <1>5. ASSUME status # "unstarted", NEW r \in Replicas
        PROVE  Received(version[r], Workflow, input) = Argument[Workflow]
    BY <1>2, <1>3, <1>4, <1>5 DEF Sent
  <1>6. ASSUME NEW c \in Calls, scheduled[c] # <<>>, NEW r \in Replicas
        PROVE  Received(version[r], c, scheduled[c]) = Argument[c]
    <2>1. PICK v \in Versions : scheduled[c] = Encode(form[v][c], Argument[c])
      BY <1>6 DEF Sent
    <2>. QED
      BY <1>2, <1>3, <1>4, <2>1
  <1>. QED
    BY <1>5, <1>6 DEF ArgumentsArrive

(* Any replica that takes a task gives its implementation the argument the *)
(* caller gave (workflow.go:186-203, 247-259; activity.go:134-156,         *)
(* 163-180), if no declaration changes between struct and positional.      *)
THEOREM ArgumentsArriveAlways ==
    ASSUME FormsAgree
    PROVE  Spec => []ArgumentsArrive
  <1>1. Types /\ Sent => ArgumentsArrive
    BY SentArrives
  <1>2. IInv => Types
    BY DEF IInv
  <1>. QED
    BY <1>1, <1>2, ControlAlways, SentAlways, PTL

(* Results that some version cannot decode never fail an execution: one    *)
(* that failed has an activity that failed (workflow.go:24-28, 165-167,    *)
(* 211-217).                                                               *)
THEOREM DecodeErrorsNeverFailAlways ==
    ASSUME FormsAgree
    PROVE  Spec => []DecodeErrorsNeverFail
  <1>1. Init => DecodeErrorsNeverFail
    BY DEF Init, DecodeErrorsNeverFail
  <1>2. IInv /\ Sent /\ DecodeErrorsNeverFail /\ [Next]_vars
            => DecodeErrorsNeverFail'
    <2>. SUFFICES ASSUME IInv, Sent, DecodeErrorsNeverFail, [Next]_vars,
                         status' = "failed"
                  PROVE  \E c \in Calls : results'[c] = "error"
      BY DEF DecodeErrorsNeverFail
    <2>1. CASE FailExecution
      <3>. DEFINE v == version[worker]
      <3>1. /\ status = "running" /\ UNCHANGED results
            /\ TaskOutcome(v, view) \in
                  {"application error", "decode error", "input error"}
        BY <2>1 DEF FailExecution, Running, IInv, Control
      <3>2. Received(v, Workflow, input) = Argument[Workflow]
        <4>1. ArgumentsArrive
          BY SentArrives DEF IInv
        <4>2. worker \in Replicas
          BY DEF IInv, Types
        <4>. QED
          BY <3>1, <4>1, <4>2 DEF ArgumentsArrive
      <3>3. TaskOutcome(v, view) # "input error"
        <4>1. Argument[Workflow] # Undecodable
          BY ArgumentAssumption DEF ArgumentAssumption, IsStruct, Parts
        <4>. QED
          BY <3>2, <4>1 DEF TaskOutcome, PanicOnDecodeError, FunctionReturns
      <3>4. TaskOutcome(v, view) = "application error"
        BY <3>1, <3>3, NoDecodeError
      <3>5. PICK c \in Calls : view[c] = "error"
        BY <3>4, ApplicationErrorSeen
      <3>6. results[c] = "error"
        BY <3>5 DEF IInv, Control
      <3>. QED
        BY <3>1, <3>6
    <2>2. CASE status = "failed"
      <3>1. \A d \in Calls : activityTask[d] = "idle"
        BY <2>2 DEF IInv, Control
      <3>2. workflowTask = "idle"
        BY <2>2 DEF IInv, Control
      <3>3. UNCHANGED results
        BY <2>2, <3>1, <3>2 DEF Next, Execute, PollWorkflowTask,
              RespondWorkflowTask, ScheduleActivities, Wait, FailTask,
              CompleteExecution, FailExecution, TryAgain, Running, RunActivity,
              Deploy, vars, history
      <3>. QED
        BY <2>2, <3>3 DEF DecodeErrorsNeverFail
    <2>3. CASE status # "failed" /\ ~FailExecution
      BY <2>3 DEF Next, Execute, PollWorkflowTask, RespondWorkflowTask,
            ScheduleActivities, Wait, FailTask, CompleteExecution, TryAgain,
            Close, RunActivity, Deploy, vars
    <2>. QED
      BY <2>1, <2>2, <2>3
  <1>. QED
    BY <1>1, <1>2, ControlAlways, SentAlways, PTL DEF Spec
=============================================================================
