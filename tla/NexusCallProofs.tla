-------------------------- MODULE NexusCallProofs --------------------------
(***************************************************************************)
(* Theorems about NexusCall: for any services, calls, versions of the      *)
(* caller and clients they use, and any number of stops and retries, on a  *)
(* worker that offers each operation once (Served).                        *)
(***************************************************************************)
EXTENDS NexusCall, WorkerRunProofs

States == {"none", "scheduled", "started", "completed", "failed"}
Names == {"none"} \cup {ServiceName[Operation[k].service] : k \in Calls}
Results == {"none"} \cup {Operation[k].implementation : k \in Calls}
Answers == Results \cup {"started", "unknown"}

(* The history holds calls of the right service, with the right results,   *)
(* and none that failed.                                                   *)
CallsRight ==
    /\ status # "failed"
    /\ calls \in [Calls -> [state : States, service : Names, result : Results]]
    /\ \A k \in Calls :
          /\ calls[k].state # "failed"
          /\ calls[k].state # "none" =>
                calls[k].service = ServiceName[Operation[k].service]
          /\ calls[k].state = "completed" =>
                calls[k].result = Operation[k].implementation

(* An answer on its way is one that the operation gives.                   *)
AnswersRight ==
    /\ answer \in [Calls -> Answers]
    /\ \A k \in Calls :
          answer[k] \in {"none", "started", Operation[k].implementation}

(* A goroutine works with the implementation of the operation called.      *)
HandlingRight ==
    \A h \in handling : h.call \in Calls /\ h.found = {Operation[h.call]}

(* A workflow behind an operation has its call's name, and no other has.   *)
IsBackingOf(w, k) ==
    w \in [id : {<<Operation[k].name, k>>}, call : {k},
           workflow : {Operation[k].implementation}, open : BOOLEAN]

BackingRight ==
    /\ \A w \in backing : w.call \in Calls /\ IsBackingOf(w, w.call)
    /\ OneWorkflowPerCall

CallInv == CallsRight /\ AnswersRight /\ HandlingRight /\ BackingRight

-----------------------------------------------------------------------------
LEMMA InitCallInv == Init => CallInv
  BY DEF Init, CallInv, CallsRight, AnswersRight, HandlingRight, BackingRight,
         OneWorkflowPerCall, NoCall, States, Names, Results, Answers

(* The worker's invariant is kept: whatever else happens leaves it alone.  *)
LEMMA WorkerUndisturbed == WorkerInv /\ [Next]_vars => WorkerInv'
  <1>1. [Next]_vars => [WorkerNext]_workerVars
    BY DEF Next, vars, CallerTask, ExecuteOperations, MismatchPanics, Finish,
           Deploy, SendStart, TimeOut, TakeAnswer, Handle, HandleSync,
           HandleAsync, HandleUnknown, Reply, CompleteBacking, Supervise, Work,
           WorkAside, Disturb, WorkerNext
  <1>. QED
    BY <1>1, WorkerInvKept

(* With everything registered, the SDK finds the operation that was called.*)
LEMMA FoundIsTheOperation ==
    ASSUME Served, registered = Len(Registerables),
           NEW k \in Calls
    PROVE  Implementations(ServiceName[Operation[k].service],
                           Operation[k].name) = {Operation[k]}
  <1>. DEFINE S == ServiceName[Operation[k].service]
              N == Operation[k].name
  <1>1. ASSUME NEW op \in Implementations(S, N)
        PROVE  op = Operation[k]
    <2>1. PICK s \in Registered("service") : ServiceName[s.owner] = S /\ op \in s.ops
      BY <1>1 DEF Implementations
    <2>2. PICK j \in 1..Len(Registerables) :
                  s = Registerables[j] /\ Registerables[j].kind = "service"
      BY <2>1 DEF Registered
    <2>3. op.name = N
      BY <1>1 DEF Implementations
    <2>. QED
      BY <2>1, <2>2, <2>3 DEF Served, Offers
  <1>2. Operation[k] \in Implementations(S, N)
    <2>1. PICK j \in 1..Len(Registerables) :
                  Offers(j, k) /\ Operation[k] \in Registerables[j].ops
      BY DEF Served
    <2>2. Registerables[j] \in Registered("service")
      BY <2>1 DEF Offers, Registered
    <2>. QED
      BY <2>1, <2>2 DEF Offers, Implementations
  <1>. QED
    BY <1>1, <1>2

-----------------------------------------------------------------------------
(* The steps of the caller and of its deployments.                         *)
LEMMA CallerKeepsCalls ==
    ASSUME CallInv, CallerTask \/ Deploy
    PROVE  CallsRight'
  <1>1. CASE ExecuteOperations
    <2>. DEFINE Made(k) == [state |-> "scheduled",
                            service |-> ServiceName[ClientOf[version][k]],
                            result |-> "none"]
    <2>1. /\ calls' = [k \in Calls |-> IF k \in Due THEN Made(k) ELSE calls[k]]
          /\ AllMatch
          /\ status' = status
      BY <1>1 DEF ExecuteOperations
    <2>2. ASSUME NEW k \in Calls, k \in Due
          PROVE  ServiceName[ClientOf[version][k]]
                    = ServiceName[Operation[k].service]
      BY <2>1, <2>2 DEF Due, AllMatch, ValidateServiceMatch
    <2>3. ASSUME NEW k \in Calls
          PROVE  /\ calls'[k] \in [state : States, service : Names,
                                   result : Results]
                 /\ calls'[k].state # "failed"
                 /\ calls'[k].state # "none" =>
                       calls'[k].service = ServiceName[Operation[k].service]
                 /\ calls'[k].state = "completed" =>
                       calls'[k].result = Operation[k].implementation
      <3>1. CASE k \in Due
        <4>1. calls'[k] = [state |-> "scheduled",
                           service |-> ServiceName[Operation[k].service],
                           result |-> "none"]
          BY <2>1, <2>2, <3>1
        <4>. QED
          BY <4>1 DEF States, Names, Results
      <3>2. CASE k \notin Due
        <4>1. calls'[k] = calls[k]
          BY <2>1, <3>2
        <4>. QED
          BY <4>1 DEF CallInv, CallsRight
      <3>. QED
        BY <3>1, <3>2
    <2>. QED
      BY <2>1, <2>3 DEF CallInv, CallsRight
  <1>2. CASE MismatchPanics \/ Deploy
    BY <1>2 DEF MismatchPanics, Deploy, CallInv, CallsRight
  <1>3. CASE Finish
    BY <1>3 DEF Finish, CallInv, CallsRight
  <1>. QED
    BY <1>1, <1>2, <1>3 DEF CallerTask

LEMMA CallerKeepsCallInv ==
    ASSUME CallInv, CallerTask \/ Deploy
    PROVE  CallInv'
  <1>1. UNCHANGED startVars
    BY DEF CallerTask, ExecuteOperations, MismatchPanics, Finish, Deploy
  <1>2. CallsRight'
    BY CallerKeepsCalls
  <1>. QED
    BY <1>1, <1>2 DEF startVars, CallInv, AnswersRight, HandlingRight,
                      BackingRight, OneWorkflowPerCall, IsBackingOf

(* A start goes to a worker that takes tasks, and has everything then.     *)
LEMMA SendKeepsCallInv ==
    ASSUME Served, WorkerInv, CallInv, NEW k \in Calls, SendStart(k)
    PROVE  CallInv'
  <1>1. registered = Len(Registerables)
    BY DEF SendStart, WorkerInv
  <1>2. Implementations(calls[k].service, Operation[k].name) = {Operation[k]}
    <2>1. calls[k].service = ServiceName[Operation[k].service]
      BY DEF SendStart, CallInv, CallsRight
    <2>. QED
      BY <1>1, <2>1, FoundIsTheOperation
  <1>3. HandlingRight'
    BY <1>2 DEF SendStart, CallInv, HandlingRight
  <1>. QED
    BY <1>3 DEF SendStart, callerVars, CallInv, CallsRight, AnswersRight,
                BackingRight, OneWorkflowPerCall, IsBackingOf

LEMMA TimeOutKeepsCallInv ==
    ASSUME CallInv, NEW k \in Calls, TimeOut(k)
    PROVE  CallInv'
  <1>1. AnswersRight'
    BY DEF TimeOut, CallInv, AnswersRight, Answers, Results
  <1>2. HandlingRight'
    BY DEF TimeOut, CallInv, HandlingRight
  <1>. QED
    BY <1>1, <1>2 DEF TimeOut, callerVars, CallInv, CallsRight, BackingRight,
                      OneWorkflowPerCall, IsBackingOf

-----------------------------------------------------------------------------
(* An implementation runs.                                                 *)
LEMMA ReplyKeeps ==
    ASSUME CallInv, NEW h \in handling, NEW reply, Reply(h, reply),
           reply \in {"started", Operation[h.call].implementation}
    PROVE  CallsRight' /\ AnswersRight' /\ HandlingRight'
  <1>1. h.call \in Calls
    BY DEF CallInv, HandlingRight
  <1>2. AnswersRight'
    BY <1>1 DEF Reply, CallInv, AnswersRight, Answers, Results
  <1>3. HandlingRight'
    BY DEF Reply, CallInv, HandlingRight
  <1>. QED
    BY <1>2, <1>3 DEF Reply, callerVars, CallInv, CallsRight

LEMMA StartBackingKeeps ==
    ASSUME CallInv, NEW k \in Calls, NEW attempt,
           StartBacking(Operation[k], k, attempt)
    PROVE  BackingRight'
  <1>. DEFINE id == <<Operation[k].name, k>>
              new == [id |-> id, call |-> k,
                      workflow |-> Operation[k].implementation, open |-> TRUE]
  <1>1. backing' = IF \E w \in backing : w.id = id THEN backing
                   ELSE backing \cup {new}
    BY DEF StartBacking, WorkflowID
  <1>2. CASE \E w \in backing : w.id = id
    BY <1>1, <1>2 DEF CallInv, BackingRight, OneWorkflowPerCall, IsBackingOf
  <1>3. CASE ~\E w \in backing : w.id = id
    <2>1. \A w \in backing : w.call # k
      BY <1>3 DEF CallInv, BackingRight, IsBackingOf
    <2>2. new.call = k /\ IsBackingOf(new, k)
      BY DEF IsBackingOf
    <2>. HIDE DEF new
    <2>3. backing' = backing \cup {new}
      BY <1>1, <1>3
    <2>. QED
      BY <2>1, <2>2, <2>3
         DEF CallInv, BackingRight, OneWorkflowPerCall, IsBackingOf
  <1>. QED
    BY <1>2, <1>3

LEMMA HandleKeepsCallInv ==
    ASSUME CallInv, NEW h \in handling, Handle(h)
    PROVE  CallInv'
  <1>1. h.call \in Calls /\ h.found = {Operation[h.call]}
    BY DEF CallInv, HandlingRight
  <1>2. CASE HandleSync(h)
    <2>1. Reply(h, Operation[h.call].implementation) /\ UNCHANGED backing
      BY <1>1, <1>2 DEF HandleSync
    <2>2. CallsRight' /\ AnswersRight' /\ HandlingRight'
      BY <2>1, ReplyKeeps
    <2>. QED
      BY <2>1, <2>2 DEF CallInv, BackingRight, OneWorkflowPerCall, IsBackingOf
  <1>3. CASE HandleAsync(h)
    <2>1. /\ StartBacking(Operation[h.call], h.call, h.attempt)
          /\ Reply(h, "started")
      BY <1>1, <1>3 DEF HandleAsync
    <2>2. CallsRight' /\ AnswersRight' /\ HandlingRight'
      BY <2>1, ReplyKeeps
    <2>3. BackingRight'
      BY <1>1, <2>1, StartBackingKeeps
    <2>. QED
      BY <2>2, <2>3 DEF CallInv
  <1>4. ~HandleUnknown(h)
    BY <1>1 DEF HandleUnknown
  <1>. QED
    BY <1>2, <1>3, <1>4 DEF Handle

-----------------------------------------------------------------------------
(* What an answer makes of a call, and what the end of a workflow does.    *)
LEMMA TakeAnswerKeepsCallInv ==
    ASSUME Served, CallInv, NEW k \in Calls, TakeAnswer(k)
    PROVE  CallInv'
  <1>. DEFINE ended == IF calls[k].state = "scheduled"
                       THEN Outcome(k) ELSE calls[k]
  <1>1. answer[k] \in {"started", Operation[k].implementation}
    BY DEF TakeAnswer, CallInv, AnswersRight
  <1>2. answer[k] # "unknown"
    BY <1>1 DEF Served
  <1>3. /\ ended \in [state : States, service : Names, result : Results]
        /\ ended.state # "failed"
        /\ ended.state # "none" =>
              ended.service = ServiceName[Operation[k].service]
        /\ ended.state = "completed" =>
              ended.result = Operation[k].implementation
    <2>1. CASE calls[k].state = "scheduled"
      <3>1. ended = IF answer[k] = "started"
                    THEN [calls[k] EXCEPT !.state = "started"]
                    ELSE [calls[k] EXCEPT !.state = "completed",
                                          !.result = answer[k]]
        BY <1>2, <2>1 DEF Outcome
      <3>. QED
        BY <1>1, <2>1, <3>1 DEF CallInv, CallsRight, States, Results
    <2>2. CASE calls[k].state # "scheduled"
      BY <2>2 DEF TakeAnswer, CallInv, CallsRight
    <2>. QED
      BY <2>1, <2>2
  <1>4. calls' = [calls EXCEPT ![k] = ended]
    BY DEF TakeAnswer
  <1>. HIDE DEF ended
  <1>5. CallsRight'
    BY <1>3, <1>4 DEF TakeAnswer, CallInv, CallsRight
  <1>6. AnswersRight'
    BY DEF TakeAnswer, CallInv, AnswersRight, Answers, Results
  <1>. QED
    BY <1>5, <1>6 DEF TakeAnswer, CallInv, HandlingRight, BackingRight,
                      OneWorkflowPerCall, IsBackingOf

LEMMA CompleteBackingKeepsCallInv ==
    ASSUME CallInv, NEW w \in backing, CompleteBacking(w)
    PROVE  CallInv'
  <1>. DEFINE k == w.call
              closed == [w EXCEPT !.open = FALSE]
              done == [calls[k] EXCEPT !.state = "completed",
                                       !.result = w.workflow]
              ended == IF calls[k].state \in {"scheduled", "started"}
                       THEN done ELSE calls[k]
  <1>1. k \in Calls /\ IsBackingOf(w, k)
    BY DEF CallInv, BackingRight
  <1>2. closed.call = k /\ IsBackingOf(closed, k)
    BY <1>1 DEF IsBackingOf
  <1>3. /\ ended \in [state : States, service : Names, result : Results]
        /\ ended.state # "failed"
        /\ ended.state # "none" =>
              ended.service = ServiceName[Operation[k].service]
        /\ ended.state = "completed" =>
              ended.result = Operation[k].implementation
    BY <1>1 DEF CallInv, CallsRight, IsBackingOf, States, Results
  <1>4. /\ calls' = [calls EXCEPT ![k] = ended]
        /\ backing' = (backing \ {w}) \cup {closed}
        /\ status' = status
    BY DEF CompleteBacking
  <1>. HIDE DEF ended, closed, k
  <1>5. CallsRight'
    BY <1>1, <1>3, <1>4 DEF CallInv, CallsRight
  <1>6. BackingRight'
    BY <1>1, <1>2, <1>4
       DEF CallInv, BackingRight, OneWorkflowPerCall, IsBackingOf
  <1>. QED
    BY <1>5, <1>6 DEF CompleteBacking, CallInv, AnswersRight, HandlingRight

-----------------------------------------------------------------------------
LEMMA CallInvKept ==
    ASSUME Served, WorkerInv, CallInv, [Next]_vars
    PROVE  CallInv'
  <1>1. CASE CallerTask \/ Deploy
    BY <1>1, CallerKeepsCallInv
  <1>2. ASSUME NEW k \in Calls, SendStart(k) \/ TimeOut(k) \/ TakeAnswer(k)
        PROVE  CallInv'
    BY <1>2, SendKeepsCallInv, TimeOutKeepsCallInv, TakeAnswerKeepsCallInv
  <1>3. ASSUME NEW h \in handling, Handle(h)
        PROVE  CallInv'
    BY <1>3, HandleKeepsCallInv
  <1>4. ASSUME NEW w \in backing, CompleteBacking(w)
        PROVE  CallInv'
    BY <1>4, CompleteBackingKeepsCallInv
  <1>5. CASE UNCHANGED <<callerVars, startVars>>
    BY <1>5 DEF callerVars, startVars, CallInv, CallsRight, AnswersRight,
                HandlingRight, BackingRight, OneWorkflowPerCall, IsBackingOf
  <1>6. CASE Supervise \/ Work \/ WorkAside \/ Disturb \/ UNCHANGED vars
    BY <1>5, <1>6 DEF Supervise, Work, WorkAside, Disturb, vars
  <1>. QED
    BY <1>1, <1>2, <1>3, <1>4, <1>6 DEF Next

LEMMA InvariantsAlways ==
    ASSUME Served
    PROVE  Spec => [](WorkerInv /\ CallInv)
  <1>1. Init => WorkerInv /\ CallInv
    BY WorkerInvAtFirst, InitCallInv DEF Init
  <1>2. WorkerInv /\ CallInv /\ [Next]_vars => (WorkerInv /\ CallInv)'
    BY WorkerUndisturbed, CallInvKept
  <1>. QED
    BY <1>1, <1>2, PTL DEF Spec

(* The supervised worker of NexusCall polls with everything registered     *)
(* only, whatever calls, failures and cancellations it meets               *)
(* (worker.go:101-119).                                                    *)
THEOREM PollsFullyRegisteredInCalls == Spec => []PollsFullyRegistered
  <1>1. Init => WorkerInv
    BY WorkerInvAtFirst DEF Init
  <1>2. WorkerInv /\ [Next]_vars => WorkerInv'
    BY WorkerUndisturbed
  <1>3. WorkerInv => PollsFullyRegistered
    BY WorkerInvGives
  <1>. QED
    BY <1>1, <1>2, <1>3, PTL DEF Spec

(* On a worker that offers each called operation once, a call that         *)
(* completes has that operation's result, whatever clients the versions of *)
(* the caller use (nexus.go:377-421).                                      *)
THEOREM HandledByItsServiceAlways ==
    ASSUME Served
    PROVE  Spec => []HandledByItsService
  <1>1. CallInv => HandledByItsService
    BY DEF CallInv, CallsRight, HandledByItsService
  <1>. QED
    BY <1>1, InvariantsAlways, PTL

(* On such a worker, no client, wrong or right, fails the caller's         *)
(* execution, and no call goes to another service (nexus.go:414-417).      *)
THEOREM MismatchNeverFailsAlways ==
    ASSUME Served
    PROVE  Spec => []MismatchNeverFails
  <1>1. CallInv => MismatchNeverFails
    BY DEF CallInv, CallsRight, MismatchNeverFails
  <1>. QED
    BY <1>1, InvariantsAlways, PTL

(* On such a worker, however often starts are sent again and whatever late *)
(* attempts do, an operation starts one workflow (nexus.go:149-155,        *)
(* example/nexus_example.go:69-87).                                        *)
THEOREM OneWorkflowPerCallAlways ==
    ASSUME Served
    PROVE  Spec => []OneWorkflowPerCall
  <1>1. CallInv => OneWorkflowPerCall
    BY DEF CallInv, BackingRight
  <1>. QED
    BY <1>1, InvariantsAlways, PTL

-----------------------------------------------------------------------------
(***************************************************************************)
(* Types, on any worker: also one that offers an operation twice or not at *)
(* all.                                                                    *)
(***************************************************************************)
CallFields == {"state", "service", "result"}

CallerTypes ==
    /\ stops \in 0..MaxStops
    /\ version \in Versions
    /\ style \in {"run", "execute"}
    /\ status \in {"running", "completed", "failed"}
    /\ panicked \in BOOLEAN

StartTypes ==
    /\ DOMAIN calls = Calls
    /\ tries \in [Calls -> 0..MaxTries]
    /\ waiting \in [Calls -> BOOLEAN]
    /\ DOMAIN answer = Calls

(* A start that is not under way can be sent once more: it was given up    *)
(* because there are tries left.                                           *)
CallTyped(k) ==
    /\ DOMAIN calls[k] = CallFields
    /\ calls[k].state \in States
    /\ calls[k].state = "none" <=> calls[k].service = "none"
    /\ answer[k] # "none" => waiting[k] = TRUE
    /\ calls[k].state = "none" => tries[k] = 0
    /\ (calls[k].state = "scheduled" /\ waiting[k] = FALSE)
          => tries[k] < MaxTries

HandlingTyped ==
    \A h \in handling : h.call \in Calls /\ h.attempt \in 1..tries[h.call]

BackingTyped ==
    \A w \in backing : /\ DOMAIN w = {"id", "call", "workflow", "open"}
                       /\ w.call \in Calls
                       /\ tries[w.call] > 0

CallTypeInv ==
    /\ CallerTypes
    /\ StartTypes
    /\ \A k \in Calls : CallTyped(k)
    /\ HandlingTyped
    /\ BackingTyped

LEMMA BoundsAreNumbers ==
    NumVersions \in Nat \ {0} /\ MaxStops \in Nat /\ MaxTries \in Nat \ {0}
  BY CallAssumption, Zenon DEF CallAssumption

LEMMA CallTypeInvAtFirst == Init => CallTypeInv
  <1>. SUFFICES ASSUME Init
                PROVE  CallTypeInv
    OBVIOUS
  <1>1. CallerTypes
    <2>1. 0 \in 0..MaxStops /\ FALSE \in BOOLEAN
      BY BoundsAreNumbers
    <2>. QED
      BY <2>1, Zenon DEF Init, CallerTypes
  <1>2. StartTypes
    BY BoundsAreNumbers DEF Init, StartTypes
  <1>3. ASSUME NEW k \in Calls
        PROVE  CallTyped(k)
    BY BoundsAreNumbers DEF Init, NoCall, CallTyped, CallFields, States
  <1>. QED
    BY <1>1, <1>2, <1>3 DEF Init, CallTypeInv, HandlingTyped, BackingTyped

(* A step that touches one call, and no starts or workflows of others.     *)
LEMMA OtherCallsTyped ==
    ASSUME CallTypeInv, NEW k \in Calls, CallerTypes', StartTypes',
           \A j \in Calls \ {k} : /\ calls'[j] = calls[j]
                                  /\ tries'[j] = tries[j]
                                  /\ waiting'[j] = waiting[j]
                                  /\ answer'[j] = answer[j],
           CallTyped(k)', HandlingTyped', BackingTyped'
    PROVE  CallTypeInv'
  <1>1. ASSUME NEW j \in Calls, j # k
        PROVE  CallTyped(j)'
    BY <1>1 DEF CallTypeInv, CallTyped
  <1>. QED
    BY <1>1 DEF CallTypeInv

LEMMA CallerTaskTyped ==
    ASSUME CallTypeInv, CallerTask \/ Deploy
    PROVE  CallTypeInv'
  <1>1. UNCHANGED startVars
    BY DEF CallerTask, ExecuteOperations, MismatchPanics, Finish, Deploy
  <1>2. tries' = tries /\ waiting' = waiting /\ answer' = answer
        /\ handling' = handling /\ backing' = backing
    BY <1>1 DEF startVars
  <1>3. HandlingTyped' /\ BackingTyped'
    BY <1>2 DEF CallTypeInv, HandlingTyped, BackingTyped
  <1>4. CallerTypes'
    <2>1. CASE CallerTask
      BY <2>1 DEF CallerTask, ExecuteOperations, MismatchPanics, Finish,
                  CallTypeInv, CallerTypes
    <2>2. CASE Deploy
      BY <2>2, BoundsAreNumbers DEF Deploy, CallTypeInv, CallerTypes, Versions
    <2>. QED
      BY <2>1, <2>2
  <1>5. CASE ExecuteOperations
    <2>. DEFINE Made(k) == [state |-> "scheduled",
                            service |-> ServiceName[ClientOf[version][k]],
                            result |-> "none"]
    <2>1. /\ calls' = [k \in Calls |-> IF k \in Due THEN Made(k) ELSE calls[k]]
          /\ AllMatch
      BY <1>5 DEF ExecuteOperations
    <2>2. ASSUME NEW k \in Calls, k \in Due
          PROVE  ServiceName[ClientOf[version][k]] # "none"
                 /\ tries[k] = 0
      <3>1. k \in Reached /\ calls[k].state = "none"
        BY <2>2 DEF Due
      <3>2. ClientOf[version][k] # NilClient
        BY <2>1, <3>1 DEF AllMatch, ValidateServiceMatch
      <3>3. ClientOf[version][k] \in Services
        BY <3>2, CallAssumption DEF CallAssumption, CallTypeInv, CallerTypes
      <3>. QED
        BY <3>1, <3>3, CallAssumption DEF CallAssumption, CallTypeInv, CallTyped
    <2>3. ASSUME NEW k \in Calls
          PROVE  CallTyped(k)'
      <3>1. CASE k \in Due
        <4>1. calls'[k] = Made(k)
          BY <2>1, <3>1
        <4>2. Made(k).state = "scheduled" /\ Made(k).service # "none"
              /\ DOMAIN Made(k) = CallFields
          BY <2>2, <3>1 DEF CallFields
        <4>3. (answer[k] # "none" => waiting[k] = TRUE) /\ tries[k] < MaxTries
          BY <2>2, <3>1, BoundsAreNumbers DEF CallTypeInv, CallTyped
        <4>. QED
          BY <1>2, <4>1, <4>2, <4>3 DEF CallTyped, States
      <3>2. CASE k \notin Due
        <4>1. calls'[k] = calls[k]
          BY <2>1, <3>2
        <4>. QED
          BY <1>2, <4>1 DEF CallTypeInv, CallTyped
      <3>. QED
        BY <3>1, <3>2
    <2>4. StartTypes'
      BY <1>2, <2>1 DEF CallTypeInv, StartTypes
    <2>. QED
      BY <1>3, <1>4, <2>3, <2>4 DEF CallTypeInv
  <1>6. CASE MismatchPanics \/ Finish \/ Deploy
    <2>1. calls' = calls
      BY <1>6 DEF MismatchPanics, Finish, Deploy
    <2>2. StartTypes' /\ \A k \in Calls : CallTyped(k)'
      BY <1>2, <2>1 DEF CallTypeInv, StartTypes, CallTyped
    <2>. QED
      BY <1>3, <1>4, <2>2 DEF CallTypeInv
  <1>. QED
    BY <1>5, <1>6 DEF CallerTask

LEMMA SendStartTyped ==
    ASSUME CallTypeInv, NEW k \in Calls, SendStart(k)
    PROVE  CallTypeInv'
  <1>. DEFINE n == tries[k] + 1
              sent == [call |-> k, attempt |-> n,
                       found |-> Implementations(calls[k].service,
                                                 Operation[k].name)]
  <1>1. /\ calls[k].state = "scheduled"
        /\ waiting[k] = FALSE
        /\ tries' = [tries EXCEPT ![k] = n]
        /\ waiting' = [waiting EXCEPT ![k] = TRUE]
        /\ UNCHANGED <<stops, callerVars, answer, backing>>
    BY DEF SendStart, CallTypeInv, StartTypes
  <1>2. tries[k] < MaxTries /\ tries[k] \in Nat /\ n \in 1..MaxTries
    BY <1>1, BoundsAreNumbers DEF CallTypeInv, StartTypes, CallTyped
  <1>3. tries'[k] = n /\ waiting'[k] = TRUE /\ calls' = calls
        /\ answer' = answer /\ backing' = backing
        /\ \A j \in Calls \ {k} :
              tries'[j] = tries[j] /\ waiting'[j] = waiting[j]
    BY <1>1 DEF CallTypeInv, StartTypes, callerVars
  <1>4. handling' = handling \cup {sent}
    BY <1>3 DEF SendStart
  <1>5. sent.call = k /\ sent.attempt = n
    OBVIOUS
  <1>. HIDE DEF sent, n
  <1>6. CallerTypes' /\ StartTypes'
    BY <1>1, <1>2, <1>3 DEF callerVars, CallTypeInv, CallerTypes, StartTypes
  <1>7. CallTyped(k)'
    BY <1>1, <1>3 DEF CallTypeInv, CallTyped
  <1>8. \A j \in Calls : tries[j] <= tries'[j] /\ tries[j] \in Nat
                         /\ tries'[j] \in Nat
    <2>1. tries[k] <= n /\ n \in Nat
      BY <1>2 DEF n
    <2>. QED
      BY <1>3, <2>1 DEF CallTypeInv, StartTypes
  <1>9. HandlingTyped'
    <2>1. ASSUME NEW h \in handling
          PROVE  h.call \in Calls /\ h.attempt \in 1..tries'[h.call]
      BY <1>8 DEF CallTypeInv, HandlingTyped
    <2>2. sent.call \in Calls /\ sent.attempt \in 1..tries'[sent.call]
      BY <1>2, <1>3, <1>5
    <2>. QED
      BY <1>4, <2>1, <2>2 DEF HandlingTyped
  <1>10. BackingTyped'
    BY <1>3, <1>8 DEF CallTypeInv, BackingTyped
  <1>. QED
    BY <1>3, <1>6, <1>7, <1>9, <1>10, OtherCallsTyped

LEMMA TimeOutTyped ==
    ASSUME CallTypeInv, NEW k \in Calls, TimeOut(k)
    PROVE  CallTypeInv'
  <1>1. /\ tries[k] < MaxTries
        /\ waiting' = [waiting EXCEPT ![k] = FALSE]
        /\ answer' = [answer EXCEPT ![k] = "none"]
        /\ handling' \subseteq handling
        /\ UNCHANGED <<stops, callerVars, tries, backing>>
    BY DEF TimeOut
  <1>2. CallerTypes' /\ StartTypes'
    BY <1>1 DEF callerVars, CallTypeInv, CallerTypes, StartTypes
  <1>3. CallTyped(k)'
    BY <1>1 DEF callerVars, CallTypeInv, StartTypes, CallTyped
  <1>4. HandlingTyped' /\ BackingTyped'
    BY <1>1 DEF CallTypeInv, HandlingTyped, BackingTyped
  <1>. QED
    BY <1>1, <1>2, <1>3, <1>4, OtherCallsTyped
       DEF callerVars, CallTypeInv, StartTypes

LEMMA HandleTyped ==
    ASSUME CallTypeInv, NEW h \in handling, Handle(h)
    PROVE  CallTypeInv'
  <1>1. PICK k \in Calls : k = h.call /\ tries[k] > 0
    BY DEF CallTypeInv, HandlingTyped, StartTypes
  <1>2. PICK reply : Reply(h, reply)
    BY DEF Handle, HandleSync, HandleAsync, HandleUnknown
  <1>3. /\ answer' = IF waiting[k] /\ tries[k] = h.attempt
                     THEN [answer EXCEPT ![k] = reply] ELSE answer
        /\ handling' = handling \ {h}
        /\ UNCHANGED <<workerVars, stops, callerVars, tries, waiting>>
    BY <1>1, <1>2 DEF Reply
  <1>4. BackingTyped'
    <2>1. CASE UNCHANGED backing
      BY <1>3, <2>1 DEF CallTypeInv, BackingTyped
    <2>2. ASSUME NEW op, StartBacking(op, k, h.attempt)
          PROVE  BackingTyped'
      <3>. DEFINE new == [id |-> WorkflowID(op, k, h.attempt), call |-> k,
                          workflow |-> op.implementation, open |-> TRUE]
      <3>1. backing' \subseteq backing \cup {new}
        BY <2>2 DEF StartBacking
      <3>2. new.call = k /\ DOMAIN new = {"id", "call", "workflow", "open"}
        OBVIOUS
      <3>. HIDE DEF new
      <3>. QED
        BY <1>1, <1>3, <3>1, <3>2 DEF CallTypeInv, BackingTyped
    <2>. QED
      BY <1>1, <2>1, <2>2 DEF Handle, HandleSync, HandleAsync, HandleUnknown
  <1>5. CallerTypes' /\ StartTypes'
    BY <1>3 DEF callerVars, CallTypeInv, CallerTypes, StartTypes
  <1>6. /\ calls' = calls /\ tries' = tries /\ waiting' = waiting
        /\ \A j \in Calls \ {k} : answer'[j] = answer[j]
        /\ answer'[k] = answer[k] \/ waiting[k] = TRUE
    BY <1>1, <1>3 DEF callerVars, CallTypeInv, StartTypes
  <1>7. CallTyped(k)'
    BY <1>1, <1>6 DEF CallTypeInv, CallTyped
  <1>8. HandlingTyped'
    BY <1>3 DEF CallTypeInv, HandlingTyped
  <1>. QED
    BY <1>1, <1>4, <1>5, <1>6, <1>7, <1>8, OtherCallsTyped

LEMMA TakeAnswerTyped ==
    ASSUME CallTypeInv, NEW k \in Calls, TakeAnswer(k)
    PROVE  CallTypeInv'
  <1>. DEFINE ended == IF calls[k].state = "scheduled"
                       THEN Outcome(k) ELSE calls[k]
  <1>1. /\ answer[k] # "none"
        /\ calls' = [calls EXCEPT ![k] = ended]
        /\ waiting' = [waiting EXCEPT ![k] = FALSE]
        /\ answer' = [answer EXCEPT ![k] = "none"]
        /\ UNCHANGED <<stops, version, style, status, panicked,
                       tries, handling, backing>>
    BY DEF TakeAnswer
  <1>2. /\ DOMAIN ended = CallFields
        /\ ended.state \in States
        /\ ended.service = calls[k].service
        /\ ended.state # "scheduled"
        /\ ended.state = "none" <=> calls[k].state = "none"
    <2>. DEFINE c == calls[k]
                a == answer[k]
    <2>1. DOMAIN c = CallFields /\ c.state \in States
      BY DEF CallTypeInv, CallTyped
    <2>2. \/ ended = c /\ c.state # "scheduled"
          \/ c.state = "scheduled" /\ ended = [c EXCEPT !.state = "started"]
          \/ c.state = "scheduled" /\ ended = [c EXCEPT !.state = "failed"]
          \/ c.state = "scheduled"
             /\ ended = [c EXCEPT !.state = "completed", !.result = a]
      BY DEF Outcome
    <2>. HIDE DEF c, a, ended
    <2>. QED
      BY <2>1, <2>2 DEF CallFields, States, c
  <1>. HIDE DEF ended
  <1>3. CallerTypes' /\ StartTypes'
    BY <1>1 DEF CallTypeInv, CallerTypes, StartTypes
  <1>4. calls'[k] = ended /\ answer'[k] = "none" /\ tries' = tries
        /\ \A j \in Calls \ {k} : /\ calls'[j] = calls[j]
                                  /\ waiting'[j] = waiting[j]
                                  /\ answer'[j] = answer[j]
    BY <1>1 DEF CallTypeInv, StartTypes
  <1>5. CallTyped(k)'
    BY <1>2, <1>4 DEF CallTypeInv, CallTyped
  <1>6. HandlingTyped' /\ BackingTyped'
    BY <1>1 DEF CallTypeInv, HandlingTyped, BackingTyped
  <1>. QED
    BY <1>3, <1>4, <1>5, <1>6, OtherCallsTyped

LEMMA CompleteBackingTyped ==
    ASSUME CallTypeInv, NEW w \in backing, CompleteBacking(w)
    PROVE  CallTypeInv'
  <1>. DEFINE k == w.call
              c == calls[k]
              given == w.workflow
              done == [c EXCEPT !.state = "completed", !.result = given]
              ended == IF c.state \in {"scheduled", "started"}
                       THEN done ELSE c
              closed == [w EXCEPT !.open = FALSE]
  <1>1. /\ calls' = [calls EXCEPT ![k] = ended]
        /\ backing' = (backing \ {w}) \cup {closed}
        /\ UNCHANGED <<stops, version, style, status, panicked,
                       tries, waiting, answer, handling>>
    BY DEF CompleteBacking
  <1>2. k \in Calls /\ tries[k] > 0
        /\ DOMAIN w = {"id", "call", "workflow", "open"}
    BY DEF CallTypeInv, BackingTyped
  <1>3. closed.call = k /\ DOMAIN closed = {"id", "call", "workflow", "open"}
    BY <1>2
  <1>. HIDE DEF closed
  <1>4. /\ DOMAIN ended = CallFields
        /\ ended.state \in States
        /\ ended.service = c.service
        /\ ended.state = "none" <=> c.state = "none"
        /\ ended.state = "scheduled" => c.state = "scheduled"
    <2>1. DOMAIN c = CallFields /\ c.state \in States
      BY <1>2 DEF CallTypeInv, CallTyped
    <2>. HIDE DEF c, given
    <2>. QED
      BY <2>1 DEF CallFields, States
  <1>5. calls'[k] = ended
        /\ \A j \in Calls \ {k} : calls'[j] = calls[j]
    BY <1>1, <1>2 DEF CallTypeInv, StartTypes
  <1>6. tries' = tries /\ waiting' = waiting /\ answer' = answer
    BY <1>1
  <1>. HIDE DEF ended
  <1>7. CallerTypes' /\ StartTypes'
    BY <1>1 DEF CallTypeInv, CallerTypes, StartTypes
  <1>8. CallTyped(k)'
    <2>1. CallTyped(k) /\ c = calls[k]
      BY <1>2 DEF CallTypeInv
    <2>. HIDE DEF c, k
    <2>. QED
      BY <1>4, <1>5, <1>6, <2>1 DEF CallTyped
  <1>9. HandlingTyped' /\ BackingTyped'
    <2>1. \A v \in backing' : /\ DOMAIN v = {"id", "call", "workflow", "open"}
                              /\ v.call \in Calls
                              /\ tries[v.call] > 0
      BY <1>1, <1>2, <1>3 DEF CallTypeInv, BackingTyped
    <2>. QED
      BY <1>1, <2>1 DEF CallTypeInv, HandlingTyped, BackingTyped
  <1>. HIDE DEF k, c
  <1>. QED
    BY <1>2, <1>5, <1>6, <1>7, <1>8, <1>9, OtherCallsTyped

LEMMA CallTypeInvKept == CallTypeInv /\ [Next]_vars => CallTypeInv'
  <1>. SUFFICES ASSUME CallTypeInv, [Next]_vars
                PROVE  CallTypeInv'
    OBVIOUS
  <1>1. CASE CallerTask \/ Deploy
    BY <1>1, CallerTaskTyped
  <1>2. ASSUME NEW k \in Calls, SendStart(k) \/ TimeOut(k) \/ TakeAnswer(k)
        PROVE  CallTypeInv'
    BY <1>2, SendStartTyped, TimeOutTyped, TakeAnswerTyped
  <1>3. ASSUME NEW h \in handling, Handle(h)
        PROVE  CallTypeInv'
    BY <1>3, HandleTyped
  <1>4. ASSUME NEW w \in backing, CompleteBacking(w)
        PROVE  CallTypeInv'
    BY <1>4, CompleteBackingTyped
  <1>5. CASE Supervise \/ Work \/ WorkAside \/ Disturb \/ UNCHANGED vars
    <2>1. UNCHANGED <<callerVars, startVars>> /\ stops' \in 0..MaxStops
      BY <1>5, BoundsAreNumbers
         DEF Supervise, Work, WorkAside, Disturb, vars, CallTypeInv, CallerTypes
    <2>. QED
      BY <2>1 DEF callerVars, startVars, CallTypeInv, CallerTypes, StartTypes,
                  CallTyped, HandlingTyped, BackingTyped
  <1>. QED
    BY <1>1, <1>2, <1>3, <1>4, <1>5 DEF Next

(* The variables keep to what the code and the cluster can put in them on  *)
(* any worker: no start is sent more often than the bound, an answer is    *)
(* there for a start that is waited for only, and what the worker handles  *)
(* or has started was sent (nexus.go:377-421, worker.go:101-119).          *)
THEOREM NexusTypeCorrect == Spec => []TypeOK
  <1>1. Spec => []CallTypeInv
    BY CallTypeInvAtFirst, CallTypeInvKept, PTL DEF Spec
  <1>2. Spec => []WorkerInv
    <2>1. Init => WorkerInv
      BY WorkerInvAtFirst DEF Init
    <2>. QED
      BY <2>1, WorkerUndisturbed, PTL DEF Spec
  <1>3. CallTypeInv /\ WorkerInv => TypeOK
    <2>. SUFFICES ASSUME CallTypeInv, WorkerInv
                  PROVE  TypeOK
      OBVIOUS
    <2>1. WorkerTypeOK
      BY WorkerInvGives
    <2>2. \A k \in Calls :
             /\ calls[k].state \in States
             /\ calls[k].state = "none" <=> calls[k].service = "none"
             /\ tries[k] \in 0..MaxTries
             /\ waiting[k] \in BOOLEAN
             /\ answer[k] # "none" => waiting[k]
             /\ calls[k].state = "none" => tries[k] = 0
      BY DEF CallTypeInv, StartTypes, CallTyped
    <2>. QED
      BY <2>1, <2>2, Zenon
         DEF CallTypeInv, CallerTypes, HandlingTyped, BackingTyped, TypeOK,
             States
  <1>. QED
    BY <1>1, <1>2, <1>3, PTL
=============================================================================
