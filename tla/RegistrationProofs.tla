------------------------- MODULE RegistrationProofs -------------------------
(***************************************************************************)
(* What NewWorker accepts, for every set of queues, services, names and    *)
(* types and for lists of any length.                                      *)
(***************************************************************************)
EXTENDS Registration, SequenceTheorems, TLAPS

-----------------------------------------------------------------------------
(***************************************************************************)
(* The inductive invariant: the maps of validationState say what the       *)
(* registerables before position i are, and nothing else.                  *)
(***************************************************************************)

(* Queue handles seen so far: their names are those in validated, each     *)
(* once, and their queues go by the name of the worker's queue.            *)
QueueHandlesSeen ==
    \A kind \in QueueKinds :
        LET seen == {j \in 1..(i - 1) : regs[j].kind = kind}
        IN  /\ validated[kind] = {regs[j].name : j \in seen}
            /\ \A j \in seen : QueueName[regs[j].owner] = QueueName[queue]
            /\ \A j, l \in seen : regs[j].name = regs[l].name => j = l

(* Bundles seen so far: one for each name in nexusServicesHandled.         *)
BundlesSeen ==
    LET seen == {j \in 1..(i - 1) : regs[j].kind = "service"}
    IN  /\ nexusServicesHandled = {ServiceName[regs[j].owner] : j \in seen}
        /\ \A j, l \in seen :
              ServiceName[regs[j].owner] = ServiceName[regs[l].owner] => j = l

(* Operations seen so far: those kept under their service's name, which no *)
(* bundle has.                                                             *)
OperationsSeen ==
    /\ \A n \in ServiceNames :
          Range(nexusOps[n]) =
              {regs[j] : j \in {l \in 1..(i - 1) :
                                  /\ regs[l].kind = "operation"
                                  /\ ServiceName[regs[l].owner] = n}}
    /\ \A n \in nexusServicesHandled : nexusOps[n] = <<>>

(* Bundles built so far: one for each of some names with operations.       *)
ServicesBuilt ==
    /\ \A j \in DOMAIN services :
          LET n == ServiceName[services[j].owner]
          IN  /\ nexusOps[n] # <<>>
              /\ services[j].ops = Range(nexusOps[n])
              /\ OperationNames(services[j]) = operations[services[j].owner]
    /\ \A j, l \in DOMAIN services :
          ServiceName[services[j].owner] = ServiceName[services[l].owner]
              => j = l

(* Between calls the locals are as new, and later phases have passed the   *)
(* earlier ones.                                                           *)
Phases ==
    /\ pc = "idle" => /\ regs = <<>>
                      /\ i = 1
                      /\ validated = NothingValidated
                      /\ nexusOps = NoOperations
                      /\ nexusServicesHandled = {}
    /\ pc \in {"idle", "validate"} => services = <<>>
    /\ pc = "bundle" \/ Accepted => i = Len(regs) + 1 /\ QueueComplete
    /\ Accepted => \A n \in ServiceNames : nexusOps[n] # <<>> => n \in BuiltNames

IInv ==
    /\ QueueHandlesSeen
    /\ BundlesSeen
    /\ OperationsSeen
    /\ ServicesBuilt
    /\ Phases

-----------------------------------------------------------------------------
(***************************************************************************)
(* Types.                                                                  *)
(***************************************************************************)

(* A list that Next enumerates is a sequence.                              *)
LEMMA ListsOverAreSeqs ==
    ASSUME NEW S, NEW bound \in Nat, NEW f \in ListsOver(S, bound)
    PROVE  f \in Seq(S)
  BY DEF ListsOver

LEMMA BundledType ==
    ASSUME NEW s \in Services, NEW ops \in Seq(OperationHandle)
    PROVE  Bundled(s, ops) \in Bundle
  BY DEF Bundled, Bundle, Range

LEMMA OwnerServiceName ==
    ASSUME NEW r \in OperationHandle \cup Bundle
    PROVE  ServiceName[r.owner] \in ServiceNames
  BY DEF OperationHandle, Bundle, ServiceNames

(* A registerable's kind says which record it is.                          *)
LEMMA RegisterableOfKind ==
    ASSUME NEW r \in Registerable
    PROVE  /\ r.kind \in QueueKinds => r \in QueueHandle
           /\ r.kind = "operation" => r \in OperationHandle
           /\ r.kind = "service" => r \in Bundle
  BY DEF Registerable, QueueHandle, OperationHandle, Bundle, QueueKinds

LEMMA PrepareTypeOK ==
    ASSUME TypeOK, Prepare
    PROVE  TypeOK'
  <1>1. ASSUME NEW k \in QueueKinds, NEW q \in Queues, NEW n \in Names,
               NEW t \in Types, Declare(k, q, n, t)
        PROVE  TypeOK'
    <2>1. [kind |-> k, owner |-> q, name |-> n, type |-> t] \in QueueHandle
      BY <1>1 DEF QueueHandle
    <2>2. declared' \in
              [QueueKinds -> [Queues -> [Names -> Types \cup {Undeclared}]]]
      BY <1>1 DEF Declare, TypeOK
    <2>. QED
      BY <1>1, <2>1, <2>2 DEF Declare, TypeOK, call, validationState
  <1>2. ASSUME NEW s \in Services, NEW n \in Names, NEW t \in Types,
               DeclareOperation(s, n, t)
        PROVE  TypeOK'
    <2>1. [kind |-> "operation", owner |-> s, name |-> n, type |-> t]
              \in OperationHandle
      BY <1>2 DEF OperationHandle
    <2>2. operations' \in [Services -> SUBSET Names]
      BY <1>2 DEF DeclareOperation, TypeOK
    <2>. QED
      BY <1>2, <2>1, <2>2 DEF DeclareOperation, TypeOK, call, validationState
  <1>3. ASSUME NEW s \in Services,
               NEW ops \in ListsOver(OperationHandles, Cardinality(operations[s])),
               WithImplementations(s, ops)
        PROVE  TypeOK'
    <2>1. PICK m : ops \in [1..m -> OperationHandles]
      BY DEF ListsOver
    <2>2. OperationHandles \subseteq OperationHandle
      BY DEF TypeOK, OperationHandles, QueueHandle, OperationHandle, QueueKinds
    <2>3. Bundled(s, ops) \in Bundle
      BY <2>1, <2>2 DEF Bundled, Bundle, Range
    <2>. QED
      BY <1>3, <2>3 DEF WithImplementations, TypeOK, call, validationState
  <1>. QED
    BY <1>1, <1>2, <1>3 DEF Prepare, NewActivity, NewWorkflow, QueueKinds

LEMMA NewWorkerTypeOK ==
    ASSUME TypeOK, NEW q \in Queues,
           NEW rs \in ListsOver(handles \cup bundles, MaxRegisterables),
           NewWorker(q, rs)
    PROVE  TypeOK'
  <1>1. rs \in Seq(handles \cup bundles)
    BY BoundAssumption, ListsOverAreSeqs
  <1>2. handles \cup bundles \subseteq Registerable
    BY DEF TypeOK, Registerable
  <1>3. rs \in Seq(Registerable)
    BY <1>1, <1>2, SeqMonotonic
  <1>. QED
    BY <1>3 DEF NewWorker, TypeOK, declarations, validationState

LEMMA WorkTypeOK ==
    ASSUME TypeOK, Work
    PROVE  TypeOK'
  <1>1. ASSUME i <= Len(regs)
        PROVE  /\ regs[i] \in Registerable
               /\ i + 1 \in 1..(Len(regs) + 1)
    BY <1>1 DEF TypeOK
  <1>2. CASE ValidateQueueHandle
    <2>1. regs[i] \in QueueHandle
      BY <1>1, <1>2, RegisterableOfKind DEF ValidateQueueHandle, Validating
    <2>2. validated' \in [QueueKinds -> SUBSET Names]
      BY <1>2, <2>1 DEF ValidateQueueHandle, QueueHandle, TypeOK
    <2>. QED
      BY <1>1, <1>2, <2>2
         DEF ValidateQueueHandle, Validating, TypeOK, declarations
  <1>3. CASE ValidateOperation
    <2>1. regs[i] \in OperationHandle
      BY <1>1, <1>3, RegisterableOfKind DEF ValidateOperation, Validating
    <2>2. ServiceName[regs[i].owner] \in ServiceNames
      BY <2>1, OwnerServiceName
    <2>3. Append(nexusOps[ServiceName[regs[i].owner]], regs[i])
              \in Seq(OperationHandle)
      BY <2>1, <2>2 DEF TypeOK
    <2>4. nexusOps' \in [ServiceNames -> Seq(OperationHandle)]
      BY <1>3, <2>2, <2>3 DEF ValidateOperation, TypeOK
    <2>. QED
      BY <1>1, <1>3, <2>4
         DEF ValidateOperation, Validating, TypeOK, declarations
  <1>4. CASE ValidateBundle
    <2>1. regs[i] \in Bundle
      BY <1>1, <1>4, RegisterableOfKind DEF ValidateBundle, Validating
    <2>2. ServiceName[regs[i].owner] \in ServiceNames
      BY <2>1, OwnerServiceName
    <2>. QED
      BY <1>1, <1>4, <2>2
         DEF ValidateBundle, Validating, TypeOK, declarations
  <1>5. CASE RejectRegisterable
    BY <1>5 DEF RejectRegisterable, Return, TypeOK, declarations, call,
                validationState
  <1>6. CASE CheckQueue
    BY <1>6 DEF CheckQueue, Return, TypeOK, declarations, call,
                validationState
  <1>7. ASSUME NEW n \in ServiceNames, BundleService(n)
        PROVE  TypeOK'
    <2>1. nexusOps[n] \in Seq(OperationHandle) /\ nexusOps[n] # <<>>
      BY <1>7 DEF BundleService, TypeOK
    <2>2. nexusOps[n][1].owner \in Services
      <3>1. nexusOps[n][1] \in OperationHandle
        BY <2>1, EmptySeq, ElementOfSeq
      <3>. QED
        BY <3>1 DEF OperationHandle
    <2>3. Bundled(nexusOps[n][1].owner, nexusOps[n]) \in Bundle
      BY <2>1, <2>2, BundledType
    <2>4. services' \in Seq(Bundle)
      <3>1. services \in Seq(Bundle)
        BY DEF TypeOK
      <3>2. \/ services' = services
            \/ services' = Append(services,
                                  Bundled(nexusOps[n][1].owner, nexusOps[n]))
        BY <1>7 DEF BundleService
      <3>. QED
        BY <2>3, <3>1, <3>2, AppendProperties
    <2>. QED
      BY <1>7, <2>4 DEF BundleService, Return, TypeOK, declarations,
                        validationState
  <1>8. CASE ReturnWorker
    BY <1>8 DEF ReturnWorker, Return, TypeOK, declarations, call,
                validationState
  <1>. QED
    BY <1>2, <1>3, <1>4, <1>5, <1>6, <1>7, <1>8 DEF Work

(* Every reachable state is well typed.                                    *)
THEOREM TypeCorrect == Spec => []TypeOK
  <1>1. Init => TypeOK
    BY DEF Init, TypeOK, NothingValidated, NoOperations
  <1>2. TypeOK /\ [Next]_vars => TypeOK'
    <2>. SUFFICES ASSUME TypeOK, [Next]_vars
                  PROVE  TypeOK'
      OBVIOUS
    <2>1. CASE Prepare
      BY <2>1, PrepareTypeOK
    <2>2. ASSUME NEW q \in Queues,
                 NEW rs \in ListsOver(handles \cup bundles, MaxRegisterables),
                 NewWorker(q, rs)
          PROVE  TypeOK'
      BY <2>2, NewWorkerTypeOK
    <2>3. CASE Work
      BY <2>3, WorkTypeOK
    <2>4. CASE Leave
      BY <2>4 DEF Leave, TypeOK, declarations, NothingValidated, NoOperations
    <2>5. CASE UNCHANGED vars
      BY <2>5 DEF vars, TypeOK, declarations, call, validationState
    <2>. QED
      BY <2>1, <2>2, <2>3, <2>4, <2>5 DEF Next
  <1>. QED
    BY <1>1, <1>2, PTL DEF Spec

-----------------------------------------------------------------------------
(***************************************************************************)
(* The inductive invariant is preserved.                                   *)
(***************************************************************************)

LEMMA RangeOfAppend ==
    ASSUME NEW S, NEW s \in Seq(S), NEW e \in S
    PROVE  Range(Append(s, e)) = Range(s) \cup {e}
  <1>1. /\ Append(s, e) \in Seq(S)
        /\ Len(Append(s, e)) = Len(s) + 1
        /\ \A j \in 1..Len(s) : Append(s, e)[j] = s[j]
        /\ Append(s, e)[Len(s) + 1] = e
    BY AppendProperties
  <1>2. Len(s) \in Nat
    BY LenProperties
  <1>3. 1..(Len(s) + 1) = (1..Len(s)) \cup {Len(s) + 1}
    BY <1>2
  <1>4. Range(Append(s, e)) = {Append(s, e)[j] : j \in 1..(Len(s) + 1)}
    BY <1>1, RangeEquality
  <1>5. Range(s) = {s[j] : j \in 1..Len(s)}
    BY RangeEquality
  <1>. QED
    BY <1>1, <1>3, <1>4, <1>5

LEMMA EmptyRange ==
    ASSUME NEW S, NEW s \in Seq(S)
    PROVE  (Range(s) = {}) <=> (s = <<>>)
  <1>1. Range(s) = {s[j] : j \in 1..Len(s)}
    BY RangeEquality
  <1>2. Len(s) \in Nat /\ (s = <<>> <=> Len(s) = 0)
    BY EmptySeq, LenProperties
  <1>3. (Len(s) # 0) <=> (1 \in 1..Len(s))
    BY <1>2
  <1>. QED
    BY <1>1, <1>2, <1>3

LEMMA InitIInv == Init => IInv
  BY DEF Init, IInv, QueueHandlesSeen, BundlesSeen, OperationsSeen,
         ServicesBuilt, Phases, Accepted, NothingValidated, NoOperations, Range

(* Declarations leave an idle program idle.                                *)
LEMMA PrepareIInv ==
    ASSUME TypeOK, IInv, Prepare
    PROVE  IInv'
  <1>1. pc = "idle" /\ UNCHANGED <<pc, call, outcome>>
    BY DEF Prepare, NewActivity, NewWorkflow, Declare, DeclareOperation,
           WithImplementations
  <1>2. services = <<>>
    BY <1>1 DEF IInv, Phases
  <1>3. UNCHANGED <<regs, queue, i, validated, nexusOps, nexusServicesHandled,
                    services>>
    BY <1>1 DEF call, validationState
  <1>4. QueueHandlesSeen'
    BY <1>3 DEF IInv, QueueHandlesSeen
  <1>5. BundlesSeen'
    BY <1>3 DEF IInv, BundlesSeen
  <1>6. OperationsSeen'
    BY <1>3 DEF IInv, OperationsSeen
  <1>7. ServicesBuilt'
    BY <1>2, <1>3 DEF ServicesBuilt
  <1>8. Phases'
    BY <1>1, <1>3 DEF IInv, Phases, Accepted
  <1>. QED
    BY <1>4, <1>5, <1>6, <1>7, <1>8 DEF IInv

LEMMA NewWorkerIInv ==
    ASSUME TypeOK, IInv, NEW q, NEW rs, NewWorker(q, rs)
    PROVE  IInv'
  <1>1. /\ i' = 1
        /\ validated' = NothingValidated
        /\ nexusOps' = NoOperations
        /\ nexusServicesHandled' = {}
        /\ services' = <<>>
        /\ pc' = "validate"
    BY DEF NewWorker, IInv, Phases, validationState
  <1>. QED
    BY <1>1 DEF IInv, QueueHandlesSeen, BundlesSeen, OperationsSeen,
                ServicesBuilt, Phases, Accepted, NothingValidated,
                NoOperations, Range

LEMMA LeaveIInv ==
    ASSUME Leave
    PROVE  IInv'
  BY DEF Leave, IInv, QueueHandlesSeen, BundlesSeen, OperationsSeen,
         ServicesBuilt, Phases, Accepted, NothingValidated, NoOperations, Range

(* One more registerable has been seen.                                    *)
LEMMA ValidatingSeen ==
    ASSUME TypeOK, NEW kinds, Validating(kinds)
    PROVE  /\ 1..(i' - 1) = (1..(i - 1)) \cup {i}
           /\ i \notin 1..(i - 1)
           /\ i \in 1..Len(regs)
           /\ regs[i] \in Registerable
           /\ regs' = regs /\ queue' = queue
  BY DEF Validating, TypeOK

(* A registerable that is no operation adds nothing to nexusOps.           *)
LEMMA OperationsStay ==
    ASSUME OperationsSeen,
           1..(i' - 1) = (1..(i - 1)) \cup {i},
           regs[i].kind # "operation",
           UNCHANGED <<regs, nexusOps>>,
           \A n \in nexusServicesHandled' : nexusOps'[n] = <<>>
    PROVE  OperationsSeen'
  <1>. SUFFICES ASSUME NEW n \in ServiceNames
                PROVE  Range(nexusOps'[n]) =
                         {regs'[j] : j \in {l \in 1..(i' - 1) :
                                              /\ regs'[l].kind = "operation"
                                              /\ ServiceName[regs'[l].owner] = n}}
    BY DEF OperationsSeen
  <1>1. {l \in 1..(i' - 1) : /\ regs'[l].kind = "operation"
                             /\ ServiceName[regs'[l].owner] = n}
         = {l \in 1..(i - 1) : /\ regs[l].kind = "operation"
                               /\ ServiceName[regs[l].owner] = n}
    OBVIOUS
  <1>. QED
    BY <1>1 DEF OperationsSeen

LEMMA ValidateQueueHandleIInv ==
    ASSUME TypeOK, IInv, ValidateQueueHandle
    PROVE  IInv'
  <1>. DEFINE r == regs[i]
  <1>1. /\ 1..(i' - 1) = (1..(i - 1)) \cup {i}
        /\ i \notin 1..(i - 1)
        /\ regs' = regs /\ queue' = queue
    BY ValidatingSeen DEF ValidateQueueHandle
  <1>2. /\ pc = "validate" /\ pc' = pc
        /\ r.kind \in QueueKinds
        /\ QueueHandleValid(r)
        /\ validated' = [validated EXCEPT ![r.kind] = @ \cup {r.name}]
        /\ UNCHANGED <<nexusOps, nexusServicesHandled, services, operations>>
    BY DEF ValidateQueueHandle, Validating, RegisterableValid, declarations,
           QueueKinds
  <1>3. QueueHandlesSeen'
    <2>. SUFFICES ASSUME NEW kind \in QueueKinds
                  PROVE
           LET seen == {j \in 1..(i' - 1) : regs[j].kind = kind}
           IN  /\ validated'[kind] = {regs[j].name : j \in seen}
               /\ \A j \in seen : QueueName[regs[j].owner] = QueueName[queue]
               /\ \A j, l \in seen : regs[j].name = regs[l].name => j = l
      BY <1>1 DEF QueueHandlesSeen
    <2>. DEFINE before == {j \in 1..(i - 1) : regs[j].kind = kind}
                seen == {j \in 1..(i' - 1) : regs[j].kind = kind}
    <2>1. /\ validated[kind] = {regs[j].name : j \in before}
          /\ \A j \in before : QueueName[regs[j].owner] = QueueName[queue]
          /\ \A j, l \in before : regs[j].name = regs[l].name => j = l
      BY DEF IInv, QueueHandlesSeen
    <2>2. CASE kind = r.kind
      <3>1. seen = before \cup {i}
        BY <1>1, <2>2
      <3>2. validated'[kind] = validated[kind] \cup {r.name}
        BY <1>2, <2>2 DEF TypeOK
      <3>3. r.name \notin validated[kind] /\ QueueName[r.owner] = QueueName[queue]
        BY <1>2, <2>2 DEF QueueHandleValid
      <3>4. \A j \in before : regs[j].name # r.name
        BY <2>1, <3>3
      <3>. QED
        BY <2>1, <3>1, <3>2, <3>3, <3>4
    <2>3. CASE kind # r.kind
      <3>1. seen = before
        BY <1>1, <2>3
      <3>2. validated'[kind] = validated[kind]
        BY <1>2, <2>3 DEF TypeOK
      <3>. QED
        BY <2>1, <3>1, <3>2
    <2>. QED
      BY <2>2, <2>3
  <1>4. BundlesSeen'
    <2>1. r.kind # "service"
      BY <1>2 DEF QueueKinds
    <2>2. {j \in 1..(i' - 1) : regs[j].kind = "service"}
              = {j \in 1..(i - 1) : regs[j].kind = "service"}
      BY <1>1, <2>1
    <2>. QED
      BY <1>1, <1>2, <2>2 DEF IInv, BundlesSeen
  <1>5. OperationsSeen'
    <2>1. r.kind # "operation"
      BY <1>2 DEF QueueKinds
    <2>2. OperationsSeen /\ \A n \in nexusServicesHandled : nexusOps[n] = <<>>
      BY DEF IInv, OperationsSeen
    <2>. QED
      BY <1>1, <1>2, <2>1, <2>2, OperationsStay
  <1>6. ServicesBuilt' /\ Phases'
    BY <1>2 DEF IInv, Phases, ServicesBuilt, Accepted
  <1>. QED
    BY <1>3, <1>4, <1>5, <1>6 DEF IInv

LEMMA ValidateOperationIInv ==
    ASSUME TypeOK, IInv, ValidateOperation
    PROVE  IInv'
  <1>. DEFINE r == regs[i]
              name == ServiceName[r.owner]
              Before(n) == {l \in 1..(i - 1) :
                              /\ regs[l].kind = "operation"
                              /\ ServiceName[regs[l].owner] = n}
              Seen(n) == {l \in 1..(i' - 1) :
                              /\ regs[l].kind = "operation"
                              /\ ServiceName[regs[l].owner] = n}
  <1>1. /\ 1..(i' - 1) = (1..(i - 1)) \cup {i}
        /\ i \notin 1..(i - 1)
        /\ r \in Registerable
        /\ regs' = regs /\ queue' = queue
    BY ValidatingSeen DEF ValidateOperation
  <1>2. /\ pc = "validate" /\ pc' = pc
        /\ r.kind = "operation"
        /\ OperationValid(r)
        /\ nexusOps' = [nexusOps EXCEPT ![name] = Append(@, r)]
        /\ UNCHANGED <<validated, nexusServicesHandled, services, operations>>
    BY DEF ValidateOperation, Validating, RegisterableValid, declarations,
           QueueKinds
  <1>3. r \in OperationHandle /\ name \in ServiceNames
    BY <1>1, <1>2, RegisterableOfKind, OwnerServiceName
  <1>4. QueueHandlesSeen'
    <2>1. \A kind \in QueueKinds : {j \in 1..(i' - 1) : regs[j].kind = kind}
                                   = {j \in 1..(i - 1) : regs[j].kind = kind}
      BY <1>1, <1>2 DEF QueueKinds
    <2>. QED
      BY <1>1, <1>2, <2>1 DEF IInv, QueueHandlesSeen
  <1>5. BundlesSeen'
    <2>1. {j \in 1..(i' - 1) : regs[j].kind = "service"}
              = {j \in 1..(i - 1) : regs[j].kind = "service"}
      BY <1>1, <1>2
    <2>. QED
      BY <1>1, <1>2, <2>1 DEF IInv, BundlesSeen
  <1>6. OperationsSeen'
    <2>1. ASSUME NEW n \in ServiceNames
          PROVE  Range(nexusOps'[n]) = {regs[j] : j \in Seen(n)}
      <3>1. Range(nexusOps[n]) = {regs[j] : j \in Before(n)}
        BY DEF IInv, OperationsSeen
      <3>2. CASE n = name
        <4>1. Seen(n) = Before(n) \cup {i}
          BY <1>1, <1>2, <3>2
        <4>2. nexusOps'[n] = Append(nexusOps[n], r)
          BY <1>2, <3>2 DEF TypeOK
        <4>3. Range(nexusOps'[n]) = Range(nexusOps[n]) \cup {r}
          BY <1>3, <4>2, RangeOfAppend DEF TypeOK
        <4>. QED
          BY <3>1, <4>1, <4>3
      <3>3. CASE n # name
        <4>1. Seen(n) = Before(n)
          BY <1>1, <1>2, <3>3
        <4>2. nexusOps'[n] = nexusOps[n]
          BY <1>2, <3>3 DEF TypeOK
        <4>. QED
          BY <3>1, <4>1, <4>2
      <3>. QED
        BY <3>2, <3>3
    <2>2. ASSUME NEW n \in nexusServicesHandled
          PROVE  nexusOps'[n] = <<>>
      <3>1. n # name
        BY <1>2 DEF OperationValid
      <3>2. nexusOps'[n] = nexusOps[n]
        BY <1>2, <3>1 DEF TypeOK
      <3>. QED
        BY <3>2 DEF IInv, OperationsSeen
    <2>. QED
      BY <1>1, <1>2, <2>1, <2>2 DEF OperationsSeen
  <1>7. services = <<>>
    BY <1>2 DEF IInv, Phases
  <1>8. ServicesBuilt' /\ Phases'
    BY <1>2, <1>7 DEF ServicesBuilt, Phases, Accepted
  <1>. QED
    BY <1>4, <1>5, <1>6, <1>8 DEF IInv

LEMMA ValidateBundleIInv ==
    ASSUME TypeOK, IInv, ValidateBundle
    PROVE  IInv'
  <1>. DEFINE r == regs[i]
              name == ServiceName[r.owner]
              before == {j \in 1..(i - 1) : regs[j].kind = "service"}
              seen == {j \in 1..(i' - 1) : regs[j].kind = "service"}
  <1>1. /\ 1..(i' - 1) = (1..(i - 1)) \cup {i}
        /\ i \notin 1..(i - 1)
        /\ regs' = regs /\ queue' = queue
    BY ValidatingSeen DEF ValidateBundle
  <1>2. /\ pc = "validate" /\ pc' = pc
        /\ r.kind = "service"
        /\ BundleValid(r)
        /\ nexusServicesHandled' = nexusServicesHandled \cup {name}
        /\ UNCHANGED <<validated, nexusOps, services, operations>>
    BY DEF ValidateBundle, Validating, RegisterableValid, declarations,
           QueueKinds
  <1>3. QueueHandlesSeen'
    <2>1. \A kind \in QueueKinds : {j \in 1..(i' - 1) : regs[j].kind = kind}
                                   = {j \in 1..(i - 1) : regs[j].kind = kind}
      BY <1>1, <1>2 DEF QueueKinds
    <2>. QED
      BY <1>1, <1>2, <2>1 DEF IInv, QueueHandlesSeen
  <1>4. BundlesSeen'
    <2>1. seen = before \cup {i}
      BY <1>1, <1>2
    <2>2. /\ nexusServicesHandled = {ServiceName[regs[j].owner] : j \in before}
          /\ \A j, l \in before :
                ServiceName[regs[j].owner] = ServiceName[regs[l].owner] => j = l
      BY DEF IInv, BundlesSeen
    <2>3. \A j \in before : ServiceName[regs[j].owner] # name
      BY <1>2, <2>2 DEF BundleValid
    <2>. QED
      BY <1>1, <1>2, <2>1, <2>2, <2>3 DEF BundlesSeen
  <1>5. OperationsSeen'
    <2>1. nexusOps[name] = <<>>
      BY <1>2 DEF BundleValid
    <2>2. OperationsSeen /\ \A n \in nexusServicesHandled : nexusOps[n] = <<>>
      BY DEF IInv, OperationsSeen
    <2>. QED
      BY <1>1, <1>2, <2>1, <2>2, OperationsStay
  <1>6. ServicesBuilt' /\ Phases'
    BY <1>2 DEF IInv, Phases, ServicesBuilt, Accepted
  <1>. QED
    BY <1>3, <1>4, <1>5, <1>6 DEF IInv

(* What has been seen depends on the call's locals and on operations only. *)
LEMMA SameCallSeen ==
    ASSUME UNCHANGED <<declarations, call>>
    PROVE  /\ QueueHandlesSeen => QueueHandlesSeen'
           /\ BundlesSeen => BundlesSeen'
           /\ OperationsSeen => OperationsSeen'
           /\ ServicesBuilt => ServicesBuilt'
  <1>1. QueueHandlesSeen => QueueHandlesSeen'
    BY DEF QueueHandlesSeen, call, validationState
  <1>2. BundlesSeen => BundlesSeen'
    BY DEF BundlesSeen, call, validationState
  <1>3. OperationsSeen => OperationsSeen'
    BY DEF OperationsSeen, call, validationState
  <1>4. ServicesBuilt => ServicesBuilt'
    BY DEF ServicesBuilt, OperationNames, declarations, call, validationState
  <1>. QED
    BY <1>1, <1>2, <1>3, <1>4

(* Steps that move only pc and the outcome.                                *)
LEMMA AnswerIInv ==
    ASSUME TypeOK, IInv, RejectRegisterable \/ CheckQueue \/ ReturnWorker
    PROVE  IInv'
  <1>1. UNCHANGED <<declarations, call>>
    BY DEF RejectRegisterable, CheckQueue, ReturnWorker
  <1>2. /\ QueueHandlesSeen' /\ BundlesSeen' /\ OperationsSeen'
        /\ ServicesBuilt'
    BY <1>1, SameCallSeen DEF IInv
  <1>3. QueueComplete' <=> QueueComplete
    BY <1>1 DEF QueueComplete, DeclaredNames, declarations, call,
                validationState
  <1>4. BuiltNames' = BuiltNames
    BY <1>1 DEF BuiltNames, call
  <1>5. Phases'
    BY <1>1, <1>3, <1>4
       DEF IInv, Phases, Accepted, RejectRegisterable, CheckQueue,
           ReturnWorker, Return, call, validationState
  <1>. QED
    BY <1>2, <1>5 DEF IInv

LEMMA BundleServiceIInv ==
    ASSUME TypeOK, IInv, NEW n \in ServiceNames, BundleService(n)
    PROVE  IInv'
  <1>. DEFINE s == nexusOps[n][1].owner
              b == Bundled(s, nexusOps[n])
  <1>1. /\ pc = "bundle"
        /\ nexusOps[n] # <<>>
        /\ n \notin BuiltNames
        /\ UNCHANGED <<declarations, queue, regs, i, validationState>>
    BY DEF BundleService
  <1>2. QueueHandlesSeen' /\ BundlesSeen' /\ OperationsSeen'
    BY <1>1 DEF IInv, QueueHandlesSeen, BundlesSeen, OperationsSeen,
                declarations, validationState
  <1>3. QueueComplete' <=> QueueComplete
    BY <1>1 DEF QueueComplete, DeclaredNames, declarations, validationState
  <1>4. CASE /\ ImplementationsComplete(s, nexusOps[n])
             /\ services' = Append(services, b)
             /\ UNCHANGED <<pc, outcome>>
    <2>1. nexusOps[n] \in Seq(OperationHandle)
      BY DEF TypeOK
    <2>2. nexusOps[n][1] \in Range(nexusOps[n])
      BY <1>1, <2>1, EmptySeq, RangeEquality
    <2>3. s \in Services /\ ServiceName[s] = n
      <3>1. nexusOps[n][1] \in OperationHandle
        BY <2>1, <2>2, RangeOfSeq
      <3>2. ServiceName[s] = n
        BY <2>2 DEF IInv, OperationsSeen
      <3>. QED
        BY <3>1, <3>2 DEF OperationHandle
    <2>4. b \in Bundle
      BY <2>1, <2>3, BundledType
    <2>5. /\ b.owner = s
          /\ b.ops = Range(nexusOps[n])
      BY DEF Bundled
    <2>6. OperationNames(b) = operations[s]
      <3>1. OperationNames(b) = {nexusOps[n][j].name : j \in DOMAIN nexusOps[n]}
        BY <2>5 DEF OperationNames, Range
      <3>. QED
        BY <1>4, <3>1 DEF ImplementationsComplete
    <2>7. /\ Len(services) \in Nat
          /\ DOMAIN services = 1..Len(services)
          /\ DOMAIN services' = 1..(Len(services) + 1)
          /\ \A j \in 1..Len(services) : services'[j] = services[j]
          /\ services'[Len(services) + 1] = b
      BY <1>4, <2>4, AppendProperties, LenProperties DEF TypeOK
    <2>8. \A j \in DOMAIN services : ServiceName[services[j].owner] # n
      BY <1>1 DEF BuiltNames
    <2>9. ServicesBuilt'
      <3>1. ASSUME NEW j \in DOMAIN services'
            PROVE  LET m == ServiceName[services'[j].owner]
                   IN  /\ nexusOps[m] # <<>>
                       /\ services'[j].ops = Range(nexusOps[m])
                       /\ OperationNames(services'[j])
                              = operations[services'[j].owner]
        <4>1. CASE j \in DOMAIN services
          <5>1. services'[j] = services[j]
            BY <2>7, <4>1
          <5>. QED
            BY <4>1, <5>1 DEF IInv, ServicesBuilt
        <4>2. CASE j = Len(services) + 1
          <5>1. services'[j] = b
            BY <2>7, <4>2
          <5>. QED
            BY <1>1, <2>3, <2>5, <2>6, <5>1
        <4>. QED
          BY <2>7, <4>1, <4>2
      <3>2. ASSUME NEW j \in DOMAIN services', NEW l \in DOMAIN services',
                   ServiceName[services'[j].owner]
                      = ServiceName[services'[l].owner]
            PROVE  j = l
        BY <2>3, <2>5, <2>7, <2>8, <3>2 DEF IInv, ServicesBuilt
      <3>. QED
        BY <1>1, <3>1, <3>2
           DEF ServicesBuilt, OperationNames, declarations, validationState
    <2>10. Phases'
      BY <1>1, <1>3, <1>4 DEF IInv, Phases, Accepted
    <2>. QED
      BY <1>2, <2>9, <2>10 DEF IInv
  <1>5. CASE Return("error") /\ UNCHANGED services
    <2>1. ServicesBuilt'
      BY <1>1, <1>5
         DEF IInv, ServicesBuilt, OperationNames, declarations, validationState
    <2>2. Phases'
      BY <1>5 DEF Phases, Return, Accepted
    <2>. QED
      BY <1>2, <2>1, <2>2 DEF IInv
  <1>. QED
    BY <1>4, <1>5 DEF BundleService

(* The maps of a call always say what has been seen of its list.           *)
THEOREM SeenIsRecorded == Spec => []IInv
  <1>1. TypeOK /\ IInv /\ [Next]_vars => IInv'
    <2>. SUFFICES ASSUME TypeOK, IInv, [Next]_vars
                  PROVE  IInv'
      OBVIOUS
    <2>1. CASE Prepare
      BY <2>1, PrepareIInv
    <2>2. ASSUME NEW q, NEW rs, NewWorker(q, rs)
          PROVE  IInv'
      BY <2>2, NewWorkerIInv
    <2>3. CASE Work
      BY <2>3, ValidateQueueHandleIInv, ValidateOperationIInv,
         ValidateBundleIInv, AnswerIInv, BundleServiceIInv DEF Work
    <2>4. CASE Leave
      BY <2>4, LeaveIInv
    <2>5. CASE UNCHANGED vars
      <3>1. QueueComplete' <=> QueueComplete
        BY <2>5 DEF vars, QueueComplete, DeclaredNames, declarations, call,
                    validationState
      <3>2. Phases'
        BY <2>5, <3>1 DEF vars, IInv, Phases, Accepted, BuiltNames, call,
                          validationState
      <3>. QED
        BY <2>5, <3>2, SameCallSeen DEF vars, IInv
    <2>. QED
      BY <2>1, <2>2, <2>3, <2>4, <2>5 DEF Next
  <1>. QED
    BY <1>1, InitIInv, TypeCorrect, PTL DEF Spec

-----------------------------------------------------------------------------
(***************************************************************************)
(* What follows for an accepted worker.                                    *)
(***************************************************************************)

(* The last registerable has been seen when a call is accepted.            *)
LEMMA AllSeen ==
    ASSUME TypeOK, IInv, Accepted
    PROVE  DOMAIN regs = 1..(i - 1)
  BY LenProperties DEF TypeOK, IInv, Phases

(* NewWorker accepts exactly one implementation of each activity and       *)
(* workflow its queue declares, and no other.                              *)
THEOREM AcceptedIsExactAlways == Spec => []AcceptedIsExact
  <1>1. TypeOK /\ IInv => AcceptedIsExact
    <2>. SUFFICES ASSUME TypeOK, IInv, Accepted, NEW kind \in QueueKinds
                  PROVE
           /\ \A j \in Positions(kind) : QueueName[regs[j].owner] = QueueName[queue]
           /\ \A j, l \in Positions(kind) : regs[j].name = regs[l].name => j = l
           /\ {regs[j].name : j \in Positions(kind)} = DeclaredNames(kind, queue)
      BY DEF AcceptedIsExact
    <2>1. Positions(kind) = {j \in 1..(i - 1) : regs[j].kind = kind}
      BY AllSeen DEF Positions
    <2>2. validated[kind] = DeclaredNames(kind, queue)
      BY DEF IInv, Phases, QueueComplete
    <2>. QED
      BY <2>1, <2>2 DEF IInv, QueueHandlesSeen
  <1>. QED
    BY <1>1, TypeCorrect, SeenIsRecorded, PTL

(* Registering an accepted worker fills no slot of the SDK's registry      *)
(* twice.                                                                  *)
THEOREM NoSlotCollisionAlways == Spec => []NoSlotCollision
  <1>1. TypeOK /\ IInv => NoSlotCollision
    <2>. SUFFICES ASSUME TypeOK, IInv, Accepted,
                         NEW j \in DOMAIN AllRegisterables,
                         NEW l \in DOMAIN AllRegisterables,
                         SameSlot(AllRegisterables[j], AllRegisterables[l])
                  PROVE  j = l
      BY DEF NoSlotCollision
    <2>. DEFINE m == Len(regs)
                a == AllRegisterables[j]
                c == AllRegisterables[l]
    <2>1. /\ regs \in Seq(Registerable) /\ services \in Seq(Registerable)
          /\ m \in Nat /\ Len(services) \in Nat
          /\ services \in Seq(Bundle)
      BY SeqMonotonic, LenProperties DEF TypeOK, Registerable
    <2>2. /\ DOMAIN AllRegisterables = 1..(m + Len(services))
          /\ \A p \in 1..(m + Len(services)) :
                AllRegisterables[p] = IF p <= m THEN regs[p] ELSE services[p - m]
      BY <2>1, ConcatProperties, LenProperties DEF AllRegisterables
    <2>3. DOMAIN regs = 1..(i - 1) /\ DOMAIN regs = 1..m
      BY <2>1, AllSeen, LenProperties
    <2>4. DOMAIN services = 1..Len(services)
      BY <2>1, LenProperties
    <2>5. \A p \in 1..Len(services) : services[p].kind = "service"
      <3>1. \A p \in 1..Len(services) : services[p] \in Bundle
        BY <2>1, ElementOfSeq
      <3>. QED
        BY <3>1 DEF Bundle
    <2>6. CASE j <= m /\ l <= m
      <3>1. j \in 1..m /\ l \in 1..m /\ a = regs[j] /\ c = regs[l]
        BY <2>1, <2>2, <2>6
      <3>2. j \in 1..(i - 1) /\ l \in 1..(i - 1)
        BY <2>3, <3>1
      <3>3. CASE a.kind \in QueueKinds
        BY <3>1, <3>2, <3>3 DEF SameSlot, QueueKinds, IInv, QueueHandlesSeen
      <3>4. CASE a.kind = "service"
        BY <3>1, <3>2, <3>4 DEF SameSlot, QueueKinds, IInv, BundlesSeen
      <3>. QED
        BY <3>3, <3>4 DEF SameSlot
    <2>7. CASE j > m /\ l > m
      <3>1. /\ j - m \in DOMAIN services /\ l - m \in DOMAIN services
            /\ a = services[j - m] /\ c = services[l - m]
        BY <2>1, <2>2, <2>4, <2>7
      <3>2. ServiceName[a.owner] = ServiceName[c.owner]
        BY <2>4, <2>5, <3>1 DEF SameSlot, QueueKinds
      <3>3. j - m = l - m
        BY <3>1, <3>2 DEF IInv, ServicesBuilt
      <3>. QED
        BY <2>1, <2>2, <3>3
    <2>8. ASSUME NEW p \in 1..m, NEW b \in DOMAIN services,
                 regs[p].kind = "service"
          PROVE  ServiceName[regs[p].owner] # ServiceName[services[b].owner]
      <3>1. ServiceName[regs[p].owner] \in nexusServicesHandled
        BY <2>3, <2>8 DEF IInv, BundlesSeen
      <3>2. nexusOps[ServiceName[regs[p].owner]] = <<>>
        BY <3>1 DEF IInv, OperationsSeen
      <3>3. nexusOps[ServiceName[services[b].owner]] # <<>>
        BY DEF IInv, ServicesBuilt
      <3>. QED
        BY <3>2, <3>3
    <2>9. CASE j <= m /\ l > m
      <3>1. /\ j \in 1..m /\ l - m \in DOMAIN services
            /\ a = regs[j] /\ c = services[l - m]
        BY <2>1, <2>2, <2>4, <2>9
      <3>. QED
        BY <2>4, <2>5, <2>8, <3>1 DEF SameSlot, QueueKinds
    <2>10. CASE j > m /\ l <= m
      <3>1. /\ l \in 1..m /\ j - m \in DOMAIN services
            /\ c = regs[l] /\ a = services[j - m]
        BY <2>1, <2>2, <2>4, <2>10
      <3>. QED
        BY <2>4, <2>5, <2>8, <3>1 DEF SameSlot, QueueKinds
    <2>. QED
      BY <2>1, <2>2, <2>6, <2>7, <2>9, <2>10
  <1>. QED
    BY <1>1, TypeCorrect, SeenIsRecorded, PTL

(* An accepted worker serves each operation it was given, in a bundle that *)
(* offers what the bundle's Service object declares.                       *)
THEOREM EveryOperationIsServedAlways == Spec => []EveryOperationIsServed
  <1>1. TypeOK /\ IInv => EveryOperationIsServed
    <2>. SUFFICES ASSUME TypeOK, IInv, Accepted
                  PROVE
           /\ \A j \in Positions("operation") :
                 \E b \in Range(services) :
                     /\ ServiceName[b.owner] = ServiceName[regs[j].owner]
                     /\ regs[j] \in b.ops
           /\ \A b \in Range(services) : OperationNames(b) = operations[b.owner]
      BY DEF EveryOperationIsServed
    <2>1. ASSUME NEW j \in Positions("operation")
          PROVE  \E b \in Range(services) :
                     /\ ServiceName[b.owner] = ServiceName[regs[j].owner]
                     /\ regs[j] \in b.ops
      <3>. DEFINE n == ServiceName[regs[j].owner]
      <3>1. j \in 1..(i - 1) /\ regs[j].kind = "operation"
        BY AllSeen DEF Positions
      <3>2. n \in ServiceNames
        <4>1. regs[j] \in Registerable
          BY DEF TypeOK, Positions
        <4>. QED
          BY <3>1, <4>1, RegisterableOfKind, OwnerServiceName
      <3>3. regs[j] \in Range(nexusOps[n])
        BY <3>1, <3>2 DEF IInv, OperationsSeen
      <3>4. nexusOps[n] # <<>>
        BY <3>2, <3>3, EmptyRange DEF TypeOK
      <3>5. PICK b \in DOMAIN services : ServiceName[services[b].owner] = n
        BY <3>2, <3>4 DEF IInv, Phases, BuiltNames
      <3>6. services[b].ops = Range(nexusOps[n])
        BY <3>5 DEF IInv, ServicesBuilt
      <3>. QED
        BY <3>3, <3>5, <3>6 DEF Range
    <2>2. \A b \in Range(services) : OperationNames(b) = operations[b.owner]
      BY DEF Range, IInv, ServicesBuilt
    <2>. QED
      BY <2>1, <2>2
  <1>. QED
    BY <1>1, TypeCorrect, SeenIsRecorded, PTL

-----------------------------------------------------------------------------
(***************************************************************************)
(* The bundles that the loop over nexusOps has built are complete.         *)
(***************************************************************************)
ServicesComplete ==
    \A j \in DOMAIN services :
        LET s == services[j].owner
        IN  ImplementationsComplete(s, nexusOps[ServiceName[s]])

(* The Service object that speaks for a name goes by it.                   *)
LEMMA FirstOfKept ==
    ASSUME TypeOK, IInv, NEW n \in ServiceNames, nexusOps[n] # <<>>
    PROVE  LET s == nexusOps[n][1].owner
           IN  s \in Services /\ ServiceName[s] = n
  <1>1. nexusOps[n] \in Seq(OperationHandle)
    BY DEF TypeOK
  <1>2. nexusOps[n][1] \in Range(nexusOps[n])
    BY <1>1, EmptySeq, RangeEquality
  <1>3. nexusOps[n][1] \in OperationHandle
    BY <1>1, <1>2, RangeOfSeq
  <1>4. ServiceName[nexusOps[n][1].owner] = n
    BY <1>2 DEF IInv, OperationsSeen
  <1>. QED
    BY <1>3, <1>4 DEF OperationHandle

LEMMA ServicesCompleteAfter ==
    ASSUME TypeOK, IInv, ServicesComplete, [Next]_vars
    PROVE  ServicesComplete'
  <1>1. ASSUME services' = <<>>
        PROVE  ServicesComplete'
    BY <1>1 DEF ServicesComplete
  <1>2. ASSUME UNCHANGED <<operations, nexusOps, services>>
        PROVE  ServicesComplete'
    BY <1>2 DEF ServicesComplete, ImplementationsComplete
  <1>3. CASE Prepare
    BY <1>1, <1>3 DEF Prepare, NewActivity, NewWorkflow, Declare,
       DeclareOperation, WithImplementations, call, IInv, Phases
  <1>4. ASSUME NEW q, NEW rs, NewWorker(q, rs)
        PROVE  ServicesComplete'
    BY <1>1, <1>4 DEF NewWorker, IInv, Phases
  <1>5. CASE ValidateQueueHandle \/ ValidateOperation \/ ValidateBundle
    BY <1>1, <1>5 DEF ValidateQueueHandle, ValidateOperation, ValidateBundle,
       Validating, IInv, Phases
  <1>6. CASE RejectRegisterable \/ CheckQueue \/ ReturnWorker
    BY <1>2, <1>6 DEF RejectRegisterable, CheckQueue, ReturnWorker, call,
       validationState, declarations
  <1>7. ASSUME NEW n \in ServiceNames, BundleService(n)
        PROVE  ServicesComplete'
    <2>. DEFINE s == nexusOps[n][1].owner
                b == Bundled(s, nexusOps[n])
    <2>1. UNCHANGED <<operations, nexusOps>>
      BY <1>7 DEF BundleService, declarations, validationState
    <2>2. CASE UNCHANGED services
      BY <1>2, <2>1, <2>2
    <2>3. CASE /\ ImplementationsComplete(s, nexusOps[n])
               /\ services' = Append(services, b)
      <3>1. nexusOps[n] \in Seq(OperationHandle) /\ nexusOps[n] # <<>>
        BY <1>7 DEF TypeOK, BundleService
      <3>2. s \in Services /\ ServiceName[s] = n
        BY <3>1, FirstOfKept
      <3>3. b \in Bundle /\ b.owner = s
        BY <3>1, <3>2, BundledType DEF Bundled
      <3>. HIDE DEF s, b
      <3>4. /\ Len(services) \in Nat
            /\ DOMAIN services = 1..Len(services)
            /\ DOMAIN services' = 1..(Len(services) + 1)
            /\ \A j \in 1..Len(services) : services'[j] = services[j]
            /\ services'[Len(services) + 1] = b
        BY <2>3, <3>3, AppendProperties, LenProperties DEF TypeOK
      <3>5. ASSUME NEW j \in DOMAIN services'
            PROVE  ImplementationsComplete(services'[j].owner,
                                           nexusOps[ServiceName[services'[j].owner]])
        <4>1. CASE j \in DOMAIN services
          BY <3>4, <4>1 DEF ServicesComplete
        <4>2. CASE j = Len(services) + 1
          BY <2>3, <3>2, <3>3, <3>4, <4>2
        <4>. QED
          BY <3>4, <4>1, <4>2
      <3>. QED
        BY <2>1, <3>5 DEF ServicesComplete, ImplementationsComplete
    <2>. QED
      BY <1>7, <2>2, <2>3 DEF BundleService
  <1>8. CASE Leave
    BY <1>1, <1>8 DEF Leave
  <1>9. CASE UNCHANGED vars
    BY <1>2, <1>9 DEF vars, call, validationState, declarations
  <1>. QED
    BY <1>3, <1>4, <1>5, <1>6, <1>7, <1>8, <1>9 DEF Next, Work

LEMMA ServicesCompleteAlways == Spec => []ServicesComplete
  <1>1. Init => ServicesComplete
    BY DEF Init, ServicesComplete
  <1>2. TypeOK /\ IInv /\ ServicesComplete /\ [Next]_vars => ServicesComplete'
    BY ServicesCompleteAfter
  <1>. QED
    BY <1>1, <1>2, TypeCorrect, SeenIsRecorded, PTL DEF Spec

-----------------------------------------------------------------------------
(***************************************************************************)
(* Where implementations come from: the program holds the handle of each   *)
(* one, and declaring an operation twice panics.                           *)
(***************************************************************************)

OperationsDeclared ==
    \A h \in handles : h.kind = "operation" => h.name \in operations[h.owner]

OneHandlePerOperation ==
    \A g, h \in handles :
        (/\ g.kind = "operation" /\ h.kind = "operation"
         /\ g.owner = h.owner
         /\ g.name = h.name) => g = h

(* The operations of a bundle go by its service's name, each under a name  *)
(* of its own.                                                             *)
SoundBundle(b) ==
    /\ \A o \in b.ops : ServiceName[o.owner] = ServiceName[b.owner]
    /\ \A o, p \in b.ops : o.name = p.name => o = p

BundlesHeld == \A b \in bundles : b.ops \subseteq handles /\ SoundBundle(b)

ListHeld == \A j \in DOMAIN regs : regs[j] \in handles \cup bundles

HeldInv ==
    OperationsDeclared /\ OneHandlePerOperation /\ BundlesHeld /\ ListHeld

LEMMA CompleteIsSound ==
    ASSUME NEW s, NEW ops, ImplementationsComplete(s, ops),
           NEW b, b.owner = s, b.ops = Range(ops)
    PROVE  SoundBundle(b)
  BY DEF ImplementationsComplete, SoundBundle, Range

LEMMA PrepareHeld ==
    ASSUME TypeOK, HeldInv, Prepare
    PROVE  HeldInv'
  <1>1. UNCHANGED regs
    BY DEF Prepare, NewActivity, NewWorkflow, Declare, DeclareOperation,
           WithImplementations, call
  <1>2. ASSUME NEW k \in QueueKinds, NEW q \in Queues, NEW n \in Names,
               NEW t \in Types, Declare(k, q, n, t)
        PROVE  HeldInv'
    <2>. DEFINE h == [kind |-> k, owner |-> q, name |-> n, type |-> t]
    <2>1. /\ handles' = handles \cup {h}
          /\ h.kind # "operation"
          /\ UNCHANGED <<operations, bundles>>
      BY <1>2 DEF Declare, QueueKinds
    <2>. HIDE DEF h
    <2>. QED
      BY <1>1, <2>1 DEF HeldInv, OperationsDeclared, OneHandlePerOperation,
         BundlesHeld, ListHeld
  <1>3. ASSUME NEW s \in Services, NEW n \in Names, NEW t \in Types,
               DeclareOperation(s, n, t)
        PROVE  HeldInv'
    <2>. DEFINE h == [kind |-> "operation", owner |-> s, name |-> n, type |-> t]
    <2>1. /\ handles' = handles \cup {h}
          /\ h.owner = s /\ h.name = n
          /\ n \notin operations[s]
          /\ UNCHANGED bundles
      BY <1>3 DEF DeclareOperation
    <2>2. /\ operations'[s] = operations[s] \cup {n}
          /\ \A r \in Services : operations[r] \subseteq operations'[r]
      BY <1>3 DEF DeclareOperation, TypeOK
    <2>3. \A g \in handles : g.kind = "operation" => g.owner \in Services
      BY DEF TypeOK, QueueHandle, OperationHandle, QueueKinds
    <2>. HIDE DEF h
    <2>4. OperationsDeclared'
      BY <2>1, <2>2, <2>3 DEF HeldInv, OperationsDeclared
    <2>5. OneHandlePerOperation'
      BY <2>1 DEF HeldInv, OperationsDeclared, OneHandlePerOperation
    <2>. QED
      BY <1>1, <2>1, <2>4, <2>5 DEF HeldInv, BundlesHeld, ListHeld
  <1>4. ASSUME NEW s \in Services,
               NEW ops \in ListsOver(OperationHandles, Cardinality(operations[s])),
               WithImplementations(s, ops)
        PROVE  HeldInv'
    <2>1. /\ Bundled(s, ops).owner = s
          /\ Bundled(s, ops).ops = Range(ops)
          /\ Bundled(s, ops).ops \subseteq handles
      BY DEF ListsOver, OperationHandles, Bundled, Range
    <2>2. SoundBundle(Bundled(s, ops))
      BY <1>4, <2>1, CompleteIsSound DEF WithImplementations
    <2>3. /\ bundles' = bundles \cup {Bundled(s, ops)}
          /\ UNCHANGED <<operations, handles>>
      BY <1>4 DEF WithImplementations
    <2>. QED
      BY <1>1, <2>1, <2>2, <2>3 DEF HeldInv, OperationsDeclared,
         OneHandlePerOperation, BundlesHeld, SoundBundle, ListHeld
  <1>. QED
    BY <1>2, <1>3, <1>4 DEF Prepare, NewActivity, NewWorkflow, QueueKinds

LEMMA HeldInvAlways == Spec => []HeldInv
  <1>1. Init => HeldInv
    BY DEF Init, HeldInv, OperationsDeclared, OneHandlePerOperation,
           BundlesHeld, ListHeld
  <1>2. TypeOK /\ HeldInv /\ [Next]_vars => HeldInv'
    <2>. SUFFICES ASSUME TypeOK, HeldInv, [Next]_vars
                  PROVE  HeldInv'
      OBVIOUS
    <2>1. ASSUME UNCHANGED declarations, ListHeld'
          PROVE  HeldInv'
      BY <2>1 DEF declarations, HeldInv, OperationsDeclared,
                  OneHandlePerOperation, BundlesHeld
    <2>2. ASSUME UNCHANGED <<declarations, regs>>
          PROVE  HeldInv'
      BY <2>1, <2>2 DEF declarations, HeldInv, ListHeld
    <2>3. ASSUME NEW q \in Queues,
                 NEW rs \in ListsOver(handles \cup bundles, MaxRegisterables),
                 NewWorker(q, rs)
          PROVE  HeldInv'
      <3>1. UNCHANGED declarations /\ regs' = rs
        BY <2>3 DEF NewWorker
      <3>2. \A j \in DOMAIN rs : rs[j] \in handles \cup bundles
        BY DEF ListsOver
      <3>. QED
        BY <2>1, <3>1, <3>2 DEF ListHeld, declarations
    <2>4. CASE Work
      BY <2>2, <2>4 DEF Work, ValidateQueueHandle, ValidateOperation,
         ValidateBundle, Validating, RejectRegisterable, CheckQueue,
         BundleService, ReturnWorker, call
    <2>5. CASE Leave
      BY <2>1, <2>5 DEF Leave, ListHeld
    <2>6. CASE UNCHANGED vars
      BY <2>2, <2>6 DEF vars, call
    <2>. QED
      BY <2>3, <2>4, <2>5, <2>6, PrepareHeld DEF Next
  <1>. QED
    BY <1>1, <1>2, TypeCorrect, PTL DEF Spec

(* Every bundle of an accepted worker is of operations the program holds.  *)
LEMMA BundleIsHeld ==
    ASSUME TypeOK, IInv, HeldInv, ServicesComplete, Accepted,
           NEW j \in DOMAIN AllRegisterables,
           AllRegisterables[j].kind = "service"
    PROVE  /\ AllRegisterables[j].ops \subseteq handles \cap OperationHandle
           /\ SoundBundle(AllRegisterables[j])
  <1>. DEFINE m == Len(regs)
              b == AllRegisterables[j]
              n == ServiceName[b.owner]
  <1>1. /\ regs \in Seq(Registerable) /\ services \in Seq(Registerable)
        /\ services \in Seq(Bundle)
        /\ m \in Nat /\ Len(services) \in Nat
        /\ DOMAIN regs = 1..m /\ DOMAIN services = 1..Len(services)
    BY SeqMonotonic, LenProperties DEF TypeOK, Registerable
  <1>2. /\ j \in 1..(m + Len(services))
        /\ b = IF j <= m THEN regs[j] ELSE services[j - m]
    BY <1>1, ConcatProperties, LenProperties DEF AllRegisterables
  <1>3. CASE j <= m
    <2>1. j \in DOMAIN regs /\ b = regs[j]
      BY <1>1, <1>2, <1>3
    <2>2. b \in bundles
      <3>1. \A h \in handles : h.kind # "service"
        BY DEF TypeOK, QueueHandle, OperationHandle, QueueKinds
      <3>. QED
        BY <2>1, <3>1 DEF HeldInv, ListHeld
    <2>. QED
      BY <2>2 DEF HeldInv, BundlesHeld, TypeOK, Bundle
  <1>4. CASE j > m
    <2>1. j - m \in DOMAIN services /\ b = services[j - m]
      BY <1>1, <1>2, <1>4
    <2>2. b.ops = Range(nexusOps[n])
      BY <2>1 DEF IInv, ServicesBuilt
    <2>3. SoundBundle(b)
      BY <2>1, <2>2, CompleteIsSound DEF ServicesComplete
    <2>4. b \in Bundle
      BY <1>1, <2>1, ElementOfSeq
    <2>5. n \in ServiceNames
      BY <2>4, OwnerServiceName
    <2>6. b.ops = {regs[l] : l \in {p \in 1..(i - 1) :
                                      /\ regs[p].kind = "operation"
                                      /\ ServiceName[regs[p].owner] = n}}
      BY <2>2, <2>5 DEF IInv, OperationsSeen
    <2>7. \A l \in DOMAIN regs : regs[l].kind = "operation" => regs[l] \in handles
      <3>1. \A c \in bundles : c.kind # "operation"
        BY DEF TypeOK, Bundle
      <3>. QED
        BY <3>1 DEF HeldInv, ListHeld
    <2>8. b.ops \subseteq handles
      BY <2>6, <2>7, AllSeen
    <2>. QED
      BY <2>3, <2>4, <2>8 DEF Bundle
  <1>. QED
    BY <1>1, <1>2, <1>3, <1>4

(* Implementations of activities and workflows are in the list, those of   *)
(* operations in a bundle.                                                 *)
LEMMA ServingIsHeld ==
    ASSUME TypeOK, IInv, HeldInv, ServicesComplete, AcceptedIsExact, Accepted,
           NEW impl \in Serving
    PROVE  /\ impl \in handles
           /\ \/ /\ impl.kind \in QueueKinds
                 /\ \E j \in Positions(impl.kind) : impl = regs[j]
                 /\ QueueName[impl.owner] = QueueName[queue]
              \/ /\ impl.kind = "operation"
                 /\ \E j \in DOMAIN AllRegisterables :
                       /\ AllRegisterables[j].kind = "service"
                       /\ impl \in AllRegisterables[j].ops
  <1>1. CASE \E j \in Positions("activity") \cup Positions("workflow") :
                impl = regs[j]
    <2>1. PICK kind \in QueueKinds : \E j \in Positions(kind) : impl = regs[j]
      BY <1>1 DEF QueueKinds
    <2>2. impl.kind = kind /\ QueueName[impl.owner] = QueueName[queue]
      BY <2>1 DEF Positions, AcceptedIsExact
    <2>3. impl \in handles
      <3>1. \A b \in bundles : b.kind \notin QueueKinds
        BY DEF TypeOK, Bundle, QueueKinds
      <3>. QED
        BY <2>1, <2>2, <3>1 DEF Positions, HeldInv, ListHeld
    <2>. QED
      BY <2>1, <2>2, <2>3
  <1>2. ASSUME NEW j \in DOMAIN AllRegisterables,
               AllRegisterables[j].kind = "service",
               impl \in AllRegisterables[j].ops
        PROVE  impl \in handles /\ impl.kind = "operation"
    BY <1>2, BundleIsHeld DEF OperationHandle
  <1>. QED
    BY <1>1, <1>2 DEF Serving

(* A caller's request gives a kind, a name and the name of a queue or a    *)
(* service: an accepted worker has at most one implementation for it       *)
(* (worker.go:79-98, nexus.go:292-320).                                    *)
THEOREM OneImplementationPerNameAlways == Spec => []OneImplementationPerName
  <1>1. TypeOK /\ IInv /\ HeldInv /\ ServicesComplete /\ AcceptedIsExact
          /\ NoSlotCollision => OneImplementationPerName
    <2>. SUFFICES ASSUME TypeOK, IInv, HeldInv, ServicesComplete,
                         AcceptedIsExact, NoSlotCollision, Accepted,
                         NEW a \in Serving, NEW b \in Serving,
                         a.kind = b.kind, a.name = b.name,
                         NameOfOwner(a) = NameOfOwner(b)
                  PROVE  a = b
      BY DEF OneImplementationPerName
    <2>1. CASE a.kind \in QueueKinds
      <3>1. a.kind # "operation"
        BY <2>1 DEF QueueKinds
      <3>2. PICK j \in Positions(a.kind) : a = regs[j]
        BY <3>1, ServingIsHeld
      <3>3. PICK l \in Positions(b.kind) : b = regs[l]
        BY <3>1, ServingIsHeld
      <3>. QED
        BY <2>1, <3>2, <3>3 DEF AcceptedIsExact
    <2>2. CASE a.kind = "operation"
      <3>1. a.kind \notin QueueKinds
        BY <2>2 DEF QueueKinds
      <3>2. PICK j \in DOMAIN AllRegisterables :
                    /\ AllRegisterables[j].kind = "service"
                    /\ a \in AllRegisterables[j].ops
        BY <3>1, ServingIsHeld
      <3>3. PICK l \in DOMAIN AllRegisterables :
                    /\ AllRegisterables[l].kind = "service"
                    /\ b \in AllRegisterables[l].ops
        BY <3>1, ServingIsHeld
      <3>4. SoundBundle(AllRegisterables[j]) /\ SoundBundle(AllRegisterables[l])
        BY <3>2, <3>3, BundleIsHeld
      <3>5. SameSlot(AllRegisterables[j], AllRegisterables[l])
        BY <3>1, <3>2, <3>3, <3>4 DEF SoundBundle, SameSlot, NameOfOwner
      <3>6. j = l
        BY <3>5 DEF NoSlotCollision
      <3>. QED
        BY <3>2, <3>3, <3>4, <3>6 DEF SoundBundle
    <2>3. a.kind \in QueueKinds \/ a.kind = "operation"
      BY ServingIsHeld
    <2>. QED
      BY <2>1, <2>2, <2>3
  <1>. QED
    BY <1>1, TypeCorrect, SeenIsRecorded, HeldInvAlways,
       ServicesCompleteAlways, AcceptedIsExactAlways, NoSlotCollisionAlways, PTL

(* What NexusCall assumes of its worker's list under the name of Served:   *)
(* the operation is in a bundle that goes by its service's name, and such  *)
(* a bundle offers nothing else under the operation's name.                *)
ServedBy(list, h) ==
    LET offering == {j \in DOMAIN list :
                        /\ list[j].kind = "service"
                        /\ ServiceName[list[j].owner] = ServiceName[h.owner]}
    IN  /\ \E j \in offering : h \in list[j].ops
        /\ \A j \in offering : \A op \in list[j].ops :
              op.name = h.name => op = h

(* The list of an accepted worker serves each operation it was given, one  *)
(* by one or in a bundle (worker.go:79-98, nexus.go:292-320).              *)
THEOREM AcceptedIsServedAlways ==
    Spec => [](Accepted => \A h \in Serving : h.kind = "operation"
                                                => ServedBy(AllRegisterables, h))
  <1>1. TypeOK /\ IInv /\ HeldInv /\ ServicesComplete /\ AcceptedIsExact
          /\ OneImplementationPerName
          => (Accepted => \A h \in Serving : h.kind = "operation"
                                               => ServedBy(AllRegisterables, h))
    <2>. SUFFICES ASSUME TypeOK, IInv, HeldInv, ServicesComplete,
                         AcceptedIsExact, OneImplementationPerName, Accepted,
                         NEW h \in Serving, h.kind = "operation"
                  PROVE  ServedBy(AllRegisterables, h)
      OBVIOUS
    <2>1. PICK j \in DOMAIN AllRegisterables :
                  /\ AllRegisterables[j].kind = "service"
                  /\ h \in AllRegisterables[j].ops
      BY ServingIsHeld DEF QueueKinds
    <2>2. ServiceName[AllRegisterables[j].owner] = ServiceName[h.owner]
      BY <2>1, BundleIsHeld DEF SoundBundle
    <2>3. ASSUME NEW l \in DOMAIN AllRegisterables,
                 AllRegisterables[l].kind = "service",
                 ServiceName[AllRegisterables[l].owner] = ServiceName[h.owner],
                 NEW op \in AllRegisterables[l].ops, op.name = h.name
          PROVE  op = h
      <3>1. op \in Serving
        BY <2>3 DEF Serving
      <3>2. op.kind = "operation"
        BY <2>3, BundleIsHeld DEF OperationHandle
      <3>3. ServiceName[op.owner] = ServiceName[h.owner]
        BY <2>3, BundleIsHeld DEF SoundBundle
      <3>. QED
        BY <2>3, <3>1, <3>2, <3>3
           DEF OneImplementationPerName, NameOfOwner, QueueKinds
    <2>. QED
      BY <2>1, <2>2, <2>3 DEF ServedBy
  <1>. QED
    BY <1>1, TypeCorrect, SeenIsRecorded, HeldInvAlways,
       ServicesCompleteAlways, AcceptedIsExactAlways,
       OneImplementationPerNameAlways, PTL

(* Unless a name is declared with two types, the implementation that an    *)
(* accepted worker runs under the name a caller's handle gives takes what  *)
(* that handle sends (queue.go:27-33, nexus.go:54, activity.go:25,         *)
(* nexus.go:323).                                                          *)
THEOREM CallsMatchImplementationsAlways == Spec => []CallsMatchImplementations
  <1>1. TypeOK /\ IInv /\ HeldInv /\ ServicesComplete /\ AcceptedIsExact
          => CallsMatchImplementations
    <2>. SUFFICES ASSUME TypeOK, IInv, HeldInv, ServicesComplete,
                         AcceptedIsExact,
                         Accepted, DeclaredConsistently,
                         NEW h \in handles, NEW impl \in Serving,
                         h.kind = impl.kind, h.name = impl.name,
                         \/ h.kind \in QueueKinds
                            /\ NameOfOwner(h) = QueueName[queue]
                         \/ h.kind = "operation"
                            /\ NameOfOwner(h) = NameOfOwner(impl)
                  PROVE  h.type = impl.type
      BY DEF CallsMatchImplementations
    <2>1. /\ impl \in handles
          /\ impl.kind \in QueueKinds
                => QueueName[impl.owner] = QueueName[queue]
      BY ServingIsHeld DEF QueueKinds
    <2>2. NameOfOwner(h) = NameOfOwner(impl)
      BY <2>1 DEF NameOfOwner
    <2>3. CASE h.kind = "operation" /\ h.owner = impl.owner
      BY <2>1, <2>3 DEF HeldInv, OneHandlePerOperation
    <2>4. CASE h.kind = "operation" => h.owner # impl.owner
      BY <2>1, <2>2, <2>4 DEF DeclaredConsistently
    <2>. QED
      BY <2>3, <2>4
  <1>. QED
    BY <1>1, TypeCorrect, SeenIsRecorded, HeldInvAlways,
       ServicesCompleteAlways, AcceptedIsExactAlways, PTL
=============================================================================
