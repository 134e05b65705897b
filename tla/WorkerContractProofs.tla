------------------------ MODULE WorkerContractProofs ------------------------
(***************************************************************************)
(* NewWorker answers as its contract says: "ok" exactly for an acceptable  *)
(* list, in whatever order the list and Go's maps come.                    *)
(***************************************************************************)
EXTENDS RegistrationProofs

(* A service name stands for one Service object.  Without this the answer  *)
(* can depend on which operation of a name comes first in the list.        *)
OneObjectPerServiceName ==
    \A s, t \in Services : ServiceName[s] = ServiceName[t] => s = t

-----------------------------------------------------------------------------
(***************************************************************************)
(* The inductive invariant beside IInv: nexusOps holds each operation seen *)
(* once for each of its POSITIONS in the list, which IInv, that speaks of  *)
(* sets, does not say.                                                     *)
(***************************************************************************)

(* Positions of the operations of a service name that have been seen.      *)
OperationsOf(n) ==
    {j \in 1..(i - 1) : /\ regs[j].kind = "operation"
                        /\ ServiceName[regs[j].owner] = n}

(* f tells each entry of ops from which of the positions P it was taken,   *)
(* and each position was taken.                                            *)
Tells(f, ops, P) ==
    /\ \A a \in DOMAIN ops : f[a] \in P /\ ops[a] = regs[f[a]]
    /\ \A a, b \in DOMAIN ops : f[a] = f[b] => a = b
    /\ \A j \in P : \E a \in DOMAIN ops : f[a] = j

OperationsKept ==
    \A n \in ServiceNames :
        \E f \in [DOMAIN nexusOps[n] -> OperationsOf(n)] :
            Tells(f, nexusOps[n], OperationsOf(n))

(* No operation seen and none kept.                                        *)
LEMMA NothingKept ==
    /\ i = 1 /\ nexusOps = NoOperations => OperationsKept
    /\ i' = 1 /\ nexusOps' = NoOperations => OperationsKept'
  <1>1. DOMAIN <<>> = {} /\ <<>> \in [{} -> {}]
    OBVIOUS
  <1>2. 1..(1 - 1) = {}
    OBVIOUS
  <1>3. ASSUME i = 1, nexusOps = NoOperations, NEW n \in ServiceNames
        PROVE  \E f \in [DOMAIN nexusOps[n] -> OperationsOf(n)] :
                   Tells(f, nexusOps[n], OperationsOf(n))
    <2>1. nexusOps[n] = <<>> /\ OperationsOf(n) = {}
      BY <1>2, <1>3 DEF NoOperations, OperationsOf
    <2>. QED
      BY <1>1, <2>1 DEF Tells
  <1>4. ASSUME i' = 1, nexusOps' = NoOperations, NEW n \in ServiceNames
        PROVE  \E f \in [DOMAIN nexusOps'[n] -> OperationsOf(n)'] :
                   Tells(f, nexusOps[n], OperationsOf(n))'
    <2>1. nexusOps'[n] = <<>> /\ OperationsOf(n)' = {}
      BY <1>2, <1>4 DEF NoOperations, OperationsOf
    <2>. QED
      BY <1>1, <2>1 DEF Tells
  <1>. QED
    BY <1>3, <1>4 DEF OperationsKept

(* The same entries, told from the same positions.                         *)
LEMMA SameKept ==
    ASSUME OperationsKept, UNCHANGED <<regs, nexusOps>>,
           \A n \in ServiceNames : OperationsOf(n)' = OperationsOf(n)
    PROVE  OperationsKept'
  <1>. SUFFICES ASSUME NEW n \in ServiceNames
                PROVE  \E f \in [DOMAIN nexusOps'[n] -> OperationsOf(n)'] :
                           Tells(f, nexusOps[n], OperationsOf(n))'
    BY DEF OperationsKept
  <1>1. PICK f \in [DOMAIN nexusOps[n] -> OperationsOf(n)] :
               Tells(f, nexusOps[n], OperationsOf(n))
    BY DEF OperationsKept
  <1>2. OperationsOf(n)' = OperationsOf(n) /\ nexusOps'[n] = nexusOps[n]
    OBVIOUS
  <1>3. f \in [DOMAIN nexusOps'[n] -> OperationsOf(n)']
    BY <1>2, Zenon
  <1>4. Tells(f, nexusOps[n], OperationsOf(n))'
    BY <1>1, <1>2 DEF Tells
  <1>. QED
    BY <1>3, <1>4

LEMMA ValidateOperationKept ==
    ASSUME TypeOK, OperationsKept, ValidateOperation
    PROVE  OperationsKept'
  <1>. DEFINE r == regs[i]
              name == ServiceName[r.owner]
  <1>1. /\ 1..(i' - 1) = (1..(i - 1)) \cup {i}
        /\ i \notin 1..(i - 1)
        /\ r \in Registerable
        /\ regs' = regs
    BY ValidatingSeen DEF ValidateOperation
  <1>2. r.kind = "operation" /\ nexusOps' = [nexusOps EXCEPT ![name] = Append(@, r)]
    BY DEF ValidateOperation, Validating
  <1>3. r \in OperationHandle /\ name \in ServiceNames
    BY <1>1, <1>2, RegisterableOfKind, OwnerServiceName
  <1>4. ASSUME NEW n \in ServiceNames
        PROVE  \E f \in [DOMAIN nexusOps'[n] -> OperationsOf(n)'] :
                   Tells(f, nexusOps[n], OperationsOf(n))'
    <2>. DEFINE ops == nexusOps[n]
                P == OperationsOf(n)
    <2>1. PICK f \in [DOMAIN ops -> P] : Tells(f, ops, P)
      BY DEF OperationsKept
    <2>2. CASE n # name
      <3>1. OperationsOf(n)' = P /\ nexusOps'[n] = ops
        BY <1>1, <1>2, <2>2 DEF OperationsOf, TypeOK
      <3>2. f \in [DOMAIN nexusOps'[n] -> OperationsOf(n)']
        BY <3>1, Zenon
      <3>3. Tells(f, nexusOps[n], OperationsOf(n))'
        BY <1>1, <2>1, <3>1 DEF Tells
      <3>. QED
        BY <3>2, <3>3
    <2>3. CASE n = name
      <3>. DEFINE m == Len(ops)
      <3>. PICK g : g = [a \in 1..(m + 1) |-> IF a = m + 1 THEN i ELSE f[a]]
        OBVIOUS
      <3>1. OperationsOf(n)' = P \cup {i} /\ i \notin P
        BY <1>1, <1>2, <2>3 DEF OperationsOf
      <3>2. nexusOps'[n] = Append(ops, r)
        BY <1>2, <1>3, <2>3 DEF TypeOK
      <3>3. ops \in Seq(OperationHandle) /\ m \in Nat /\ DOMAIN ops = 1..m
        BY LenProperties DEF TypeOK
      <3>4. /\ DOMAIN Append(ops, r) = 1..(m + 1)
            /\ \A a \in 1..m : Append(ops, r)[a] = ops[a]
            /\ Append(ops, r)[m + 1] = r
        BY <1>3, <3>3, AppendProperties, LenProperties
      <3>5. /\ \A a \in 1..m : f[a] \in P /\ ops[a] = regs[f[a]]
            /\ \A a, b \in 1..m : f[a] = f[b] => a = b
            /\ \A j \in P : \E a \in 1..m : f[a] = j
        BY <2>1, <3>3 DEF Tells
      <3>6. /\ 1..(m + 1) = (1..m) \cup {m + 1}
            /\ m + 1 \notin 1..m
        BY <3>3
      <3>7. /\ \A a \in 1..m : g[a] = f[a]
            /\ g[m + 1] = i
            /\ DOMAIN g = 1..(m + 1)
        BY <3>6
      <3>8. g \in [1..(m + 1) -> P \cup {i}]
        BY <3>5, <3>6
      <3>. HIDE DEF m, ops, P
      <3>9. g \in [DOMAIN nexusOps'[n] -> OperationsOf(n)']
        BY <3>1, <3>2, <3>4, <3>8
      <3>10. Tells(g, nexusOps[n], OperationsOf(n))'
        <4>1. \A a \in 1..(m + 1) : /\ g[a] \in P \cup {i}
                                    /\ Append(ops, r)[a] = regs[g[a]]
          BY <3>4, <3>5, <3>6, <3>7
        <4>2. \A a, b \in 1..(m + 1) : g[a] = g[b] => a = b
          BY <3>1, <3>5, <3>6, <3>7
        <4>3. \A j \in P \cup {i} : \E a \in 1..(m + 1) : g[a] = j
          BY <3>5, <3>6, <3>7
        <4>4. /\ DOMAIN nexusOps'[n] = 1..(m + 1)
              /\ \A a \in 1..(m + 1) : nexusOps'[n][a] = regs'[g[a]]
          BY <1>1, <3>2, <3>4, <4>1
        <4>. QED
          BY <3>1, <4>1, <4>2, <4>3, <4>4, Zenon DEF Tells
      <3>. QED
        BY <3>9, <3>10
    <2>. QED
      BY <2>2, <2>3
  <1>. QED
    BY <1>4 DEF OperationsKept

LEMMA OperationsKeptAfter ==
    ASSUME TypeOK, IInv, OperationsKept, [Next]_vars
    PROVE  OperationsKept'
  <1>1. ASSUME UNCHANGED <<regs, i, nexusOps>>
        PROVE  OperationsKept'
    BY <1>1, SameKept DEF OperationsOf
  <1>2. CASE Prepare
    BY <1>1, <1>2 DEF Prepare, NewActivity, NewWorkflow, Declare,
       DeclareOperation, WithImplementations, call, validationState
  <1>3. ASSUME NEW q, NEW rs, NewWorker(q, rs)
        PROVE  OperationsKept'
    BY <1>3, NothingKept DEF NewWorker, IInv, Phases, validationState
  <1>4. CASE ValidateQueueHandle \/ ValidateBundle
    <2>1. PICK kinds \in {QueueKinds, {"service"}} : Validating(kinds)
      BY <1>4 DEF ValidateQueueHandle, ValidateBundle
    <2>2. /\ 1..(i' - 1) = (1..(i - 1)) \cup {i}
          /\ regs' = regs /\ nexusOps' = nexusOps
      BY <1>4, <2>1, ValidatingSeen DEF ValidateQueueHandle, ValidateBundle
    <2>3. regs[i].kind # "operation"
      BY <2>1 DEF Validating, QueueKinds
    <2>. QED
      BY <2>2, <2>3, SameKept DEF OperationsOf
  <1>5. CASE RejectRegisterable \/ CheckQueue \/ ReturnWorker
    BY <1>1, <1>5 DEF RejectRegisterable, CheckQueue, ReturnWorker, call,
       validationState
  <1>6. ASSUME NEW n \in ServiceNames, BundleService(n)
        PROVE  OperationsKept'
    BY <1>1, <1>6 DEF BundleService, validationState
  <1>7. CASE Leave
    BY <1>7, NothingKept DEF Leave
  <1>8. CASE UNCHANGED vars
    BY <1>1, <1>8 DEF vars, call, validationState
  <1>. QED
    BY <1>2, <1>3, <1>4, <1>5, <1>6, <1>7, <1>8, ValidateOperationKept
       DEF Next, Work

LEMMA OperationsKeptAlways == Spec => []OperationsKept
  <1>1. Init => OperationsKept
    BY NothingKept DEF Init
  <1>2. TypeOK /\ IInv /\ OperationsKept /\ [Next]_vars => OperationsKept'
    BY OperationsKeptAfter
  <1>. QED
    BY <1>1, <1>2, TypeCorrect, SeenIsRecorded, PTL DEF Spec

-----------------------------------------------------------------------------
(***************************************************************************)
(* Each answer agrees with the contract.                                   *)
(***************************************************************************)

(* What the contract says, in this module's names.                         *)
LEMMA AcceptableMeans ==
    Contract!Acceptable(queue, regs) <=>
        /\ \A kind \in QueueKinds :
              /\ \A j \in Positions(kind) :
                    QueueName[regs[j].owner] = QueueName[queue]
              /\ \A j, l \in Positions(kind) :
                    regs[j].name = regs[l].name => j = l
              /\ {regs[j].name : j \in Positions(kind)} =
                    DeclaredNames(kind, queue)
        /\ \A n \in ServiceNames : Contract!ServiceServed(regs, n)
  <1>1. \A kind : Contract!At(regs, kind) = Positions(kind)
    BY DEF Contract!At, Positions
  <1>2. DOMAIN ServiceName = Services
    BY NamingAssumption
  <1>3. (\A s \in DOMAIN ServiceName :
            Contract!ServiceServed(regs, ServiceName[s]))
        <=> \A n \in ServiceNames : Contract!ServiceServed(regs, n)
    BY <1>2 DEF ServiceNames
  <1>. QED
    BY <1>1, <1>3 DEF Contract!Acceptable, Contract!QueueServed,
       Contract!NoDuplicate, Contract!NamesAt, DeclaredNames, QueueKinds

(* The positions of a service's bundles and operations.                    *)
LEMMA ForServiceMeans ==
    ASSUME NEW n, NEW kind
    PROVE  Contract!ForService(regs, kind, n) =
               {j \in Positions(kind) : ServiceName[regs[j].owner] = n}
  BY DEF Contract!ForService, Contract!At, Positions

LEMMA RejectedIsUnacceptable ==
    ASSUME TypeOK, IInv, RejectRegisterable
    PROVE  ~Contract!Acceptable(queue, regs)
  <1>. DEFINE r == regs[i]
              n == ServiceName[r.owner]
  <1>1. /\ i \in DOMAIN regs
        /\ 1..(i - 1) \subseteq DOMAIN regs
        /\ i \notin 1..(i - 1)
        /\ r \in Registerable
        /\ ~RegisterableValid(r)
    BY DEF RejectRegisterable, TypeOK
  <1>2. CASE r.kind \in QueueKinds
    <2>1. \/ QueueName[r.owner] # QueueName[queue]
          \/ r.name \in validated[r.kind]
      BY <1>1, <1>2 DEF RegisterableValid, QueueHandleValid
    <2>2. i \in Positions(r.kind)
      BY <1>1 DEF Positions
    <2>3. CASE r.name \in validated[r.kind]
      <3>1. PICK j \in 1..(i - 1) : regs[j].kind = r.kind /\ regs[j].name = r.name
        BY <1>2, <2>3 DEF IInv, QueueHandlesSeen
      <3>2. j \in Positions(r.kind) /\ j # i
        BY <1>1, <3>1 DEF Positions
      <3>. QED
        BY <1>2, <2>2, <3>1, <3>2, AcceptableMeans
    <2>. QED
      BY <1>2, <2>1, <2>2, <2>3, AcceptableMeans
  <1>3. CASE r.kind = "operation"
    <2>1. n \in nexusServicesHandled /\ n \in ServiceNames
      BY <1>1, <1>3, RegisterableOfKind, OwnerServiceName
         DEF RegisterableValid, OperationValid
    <2>2. PICK j \in 1..(i - 1) :
                  regs[j].kind = "service" /\ ServiceName[regs[j].owner] = n
      BY <2>1 DEF IInv, BundlesSeen
    <2>3. /\ j \in Contract!ForService(regs, "service", n)
          /\ i \in Contract!ForService(regs, "operation", n)
      BY <1>1, <1>3, <2>2, ForServiceMeans DEF Positions
    <2>. QED
      BY <2>1, <2>3, AcceptableMeans DEF Contract!ServiceServed
  <1>4. CASE r.kind = "service"
    <2>1. n \in ServiceNames /\ (n \in nexusServicesHandled \/ nexusOps[n] # <<>>)
      BY <1>1, <1>4, RegisterableOfKind, OwnerServiceName
         DEF RegisterableValid, BundleValid
    <2>2. i \in Contract!ForService(regs, "service", n)
      BY <1>1, <1>4, ForServiceMeans DEF Positions
    <2>3. CASE n \in nexusServicesHandled
      <3>1. PICK j \in 1..(i - 1) :
                    regs[j].kind = "service" /\ ServiceName[regs[j].owner] = n
        BY <2>3 DEF IInv, BundlesSeen
      <3>2. j \in Contract!ForService(regs, "service", n) /\ j # i
        BY <1>1, <3>1, ForServiceMeans DEF Positions
      <3>. QED
        BY <2>1, <2>2, <3>2, AcceptableMeans DEF Contract!ServiceServed
    <2>4. CASE nexusOps[n] # <<>>
      <3>. HIDE DEF n
      <3>1. Range(nexusOps[n]) # {}
        BY <2>1, <2>4, EmptyRange DEF TypeOK
      <3>2. PICK j \in 1..(i - 1) :
                    regs[j].kind = "operation" /\ ServiceName[regs[j].owner] = n
        BY <2>1, <3>1 DEF IInv, OperationsSeen
      <3>3. j \in Contract!ForService(regs, "operation", n)
        BY <1>1, <3>2, ForServiceMeans DEF Positions
      <3>. QED
        BY <2>1, <2>2, <3>3, AcceptableMeans DEF Contract!ServiceServed
    <2>. QED
      BY <2>1, <2>3, <2>4
  <1>. QED
    BY <1>1, <1>2, <1>3, <1>4
       DEF Registerable, QueueHandle, OperationHandle, Bundle

(* When the whole list has been seen, the positions seen are all there are.*)
LEMMA AllPositionsSeen ==
    ASSUME TypeOK, i = Len(regs) + 1
    PROVE  /\ \A kind : Positions(kind) = {j \in 1..(i - 1) : regs[j].kind = kind}
           /\ \A n : Contract!ForService(regs, "operation", n) = OperationsOf(n)
  <1>1. DOMAIN regs = 1..(i - 1)
    BY LenProperties DEF TypeOK
  <1>. QED
    BY <1>1, ForServiceMeans DEF Positions, OperationsOf

LEMMA IncompleteIsUnacceptable ==
    ASSUME TypeOK, IInv, i = Len(regs) + 1, ~QueueComplete
    PROVE  ~Contract!Acceptable(queue, regs)
  BY AllPositionsSeen, AcceptableMeans
     DEF QueueComplete, IInv, QueueHandlesSeen

(* What a bundle's check of nexusOps[n] says of the list.                  *)
LEMMA CompleteIsServed ==
    ASSUME TypeOK, IInv, OperationsKept, OneObjectPerServiceName,
           i = Len(regs) + 1,
           NEW s \in Services, NEW n, n = ServiceName[s],
           nexusOps[n] # <<>>
    PROVE  ImplementationsComplete(s, nexusOps[n])
               <=> Contract!ServiceServed(regs, n)
  <1>. DEFINE ops == nexusOps[n]
              P == OperationsOf(n)
  <1>1. n \in ServiceNames
    BY DEF ServiceNames
  <1>2. PICK f \in [DOMAIN ops -> P] : Tells(f, ops, P)
    BY <1>1 DEF OperationsKept
  <1>3. Contract!ForService(regs, "operation", n) = P
    BY AllPositionsSeen
  <1>4. \A j \in P : j \in DOMAIN regs /\ regs[j] \in OperationHandle
    <2>1. DOMAIN regs = 1..(i - 1)
      BY LenProperties DEF TypeOK
    <2>. QED
      BY <2>1, RegisterableOfKind DEF OperationsOf, TypeOK
  <1>5. \A j \in P : regs[j].owner = s
    BY <1>4 DEF OperationsOf, OneObjectPerServiceName, OperationHandle
  <1>6. \A a \in DOMAIN ops : /\ f[a] \in P
                              /\ ops[a] = regs[f[a]]
                              /\ ServiceName[ops[a].owner] = n
    BY <1>2, <1>5 DEF Tells
  <1>7. \A j \in P : \E a \in DOMAIN ops : f[a] = j
    BY <1>2 DEF Tells
  <1>8. \A a, b \in DOMAIN ops : f[a] = f[b] => a = b
    BY <1>2 DEF Tells
  <1>9. P # {}
    <2>1. Range(ops) # {}
      BY <1>1, EmptyRange DEF TypeOK
    <2>. QED
      BY <1>6, <2>1 DEF Range
  <1>10. Contract!ForService(regs, "service", n) = {}
    <2>1. ASSUME NEW j \in Contract!ForService(regs, "service", n)
          PROVE  FALSE
      <3>1. j \in 1..(i - 1) /\ regs[j].kind = "service"
            /\ ServiceName[regs[j].owner] = n
        BY AllPositionsSeen, ForServiceMeans
      <3>2. n \in nexusServicesHandled
        BY <3>1 DEF IInv, BundlesSeen
      <3>. QED
        BY <3>2 DEF IInv, OperationsSeen
    <2>. QED
      BY <2>1
  <1>. HIDE DEF ops, P
  <1>11. {ops[a].name : a \in DOMAIN ops} = Contract!NamesAt(regs, P)
    BY <1>6, <1>7 DEF Contract!NamesAt
  <1>12. (\A a \in DOMAIN ops : ops[a].name \notin Unconvertible)
             <=> Contract!NamesAt(regs, P) \cap Unconvertible = {}
    BY <1>11
  <1>13. (\A a, b \in DOMAIN ops : ops[a].name = ops[b].name => a = b)
             <=> Contract!NoDuplicate(regs, P)
    BY <1>6, <1>7, <1>8 DEF Contract!NoDuplicate
  <1>14. (Contract!NamesAt(regs, P) = operations[s])
             <=> \A j \in P : Contract!NamesAt(regs, P) = operations[regs[j].owner]
    BY <1>5, <1>9
  <1>15. ImplementationsComplete(s, ops)
             <=> /\ \A a \in DOMAIN ops : ops[a].name \notin Unconvertible
                 /\ \A a, b \in DOMAIN ops : ops[a].name = ops[b].name => a = b
                 /\ {ops[a].name : a \in DOMAIN ops} = operations[s]
    BY <1>6 DEF ImplementationsComplete
  <1>16. Contract!ServiceServed(regs, n)
             <=> /\ Contract!NoDuplicate(regs, P)
                 /\ Contract!NamesAt(regs, P) \cap Unconvertible = {}
                 /\ \A j \in P : Contract!NamesAt(regs, P)
                                    = operations[regs[j].owner]
    BY <1>3, <1>10 DEF Contract!ServiceServed
  <1>. QED
    BY <1>11, <1>12, <1>13, <1>14, <1>15, <1>16 DEF ops

LEMMA UnbundledIsUnacceptable ==
    ASSUME TypeOK, IInv, OperationsKept, OneObjectPerServiceName,
           NEW n \in ServiceNames, BundleService(n), pc' = "returned"
    PROVE  ~Contract!Acceptable(queue, regs)
  <1>. DEFINE s == nexusOps[n][1].owner
  <1>1. /\ pc = "bundle"
        /\ nexusOps[n] # <<>>
        /\ ~ImplementationsComplete(s, nexusOps[n])
    BY DEF BundleService
  <1>2. s \in Services /\ ServiceName[s] = n
    BY <1>1, FirstOfKept
  <1>3. i = Len(regs) + 1
    BY <1>1 DEF IInv, Phases
  <1>. QED
    BY <1>1, <1>2, <1>3, CompleteIsServed, AcceptableMeans

LEMMA ReturnedIsAcceptable ==
    ASSUME TypeOK, IInv, OperationsKept, ServicesComplete,
           OneObjectPerServiceName, ReturnWorker
    PROVE  Contract!Acceptable(queue, regs)
  <1>1. /\ pc = "bundle"
        /\ \A n \in ServiceNames : nexusOps[n] # <<>> => n \in BuiltNames
    BY DEF ReturnWorker
  <1>2. i = Len(regs) + 1 /\ QueueComplete
    BY <1>1 DEF IInv, Phases
  <1>3. ASSUME NEW n \in ServiceNames
        PROVE  Contract!ServiceServed(regs, n)
    <2>1. CASE nexusOps[n] # <<>>
      <3>1. PICK j \in DOMAIN services : ServiceName[services[j].owner] = n
        BY <1>1, <2>1 DEF BuiltNames
      <3>2. services[j].owner \in Services
        <4>1. services \in Seq(Bundle) /\ j \in 1..Len(services)
          BY LenProperties DEF TypeOK
        <4>2. services[j] \in Bundle
          BY <4>1, ElementOfSeq
        <4>. QED
          BY <4>2 DEF Bundle
      <3>3. ImplementationsComplete(services[j].owner, nexusOps[n])
        BY <3>1 DEF ServicesComplete
      <3>. QED
        BY <1>2, <2>1, <3>1, <3>2, <3>3, CompleteIsServed
    <2>2. CASE nexusOps[n] = <<>>
      <3>1. Contract!ForService(regs, "operation", n) = {}
        <4>1. Range(nexusOps[n]) = {}
          BY <2>2, EmptyRange DEF TypeOK
        <4>2. Range(nexusOps[n]) = {regs[j] : j \in OperationsOf(n)}
          BY DEF IInv, OperationsSeen, OperationsOf
        <4>3. OperationsOf(n) = {}
          BY <4>1, <4>2
        <4>. QED
          BY <1>2, <4>3, AllPositionsSeen
      <3>2. \A j, l \in Contract!ForService(regs, "service", n) : j = l
        BY <1>2, AllPositionsSeen, ForServiceMeans DEF IInv, BundlesSeen
      <3>. QED
        BY <3>1, <3>2 DEF Contract!ServiceServed, Contract!NoDuplicate,
           Contract!NamesAt
    <2>. QED
      BY <2>1, <2>2
  <1>4. ASSUME NEW kind \in QueueKinds
        PROVE  /\ \A j \in Positions(kind) :
                     QueueName[regs[j].owner] = QueueName[queue]
               /\ \A j, l \in Positions(kind) :
                     regs[j].name = regs[l].name => j = l
               /\ {regs[j].name : j \in Positions(kind)} =
                     DeclaredNames(kind, queue)
    BY <1>2, AllPositionsSeen DEF IInv, QueueHandlesSeen, QueueComplete
  <1>. QED
    BY <1>3, <1>4, AcceptableMeans

-----------------------------------------------------------------------------
(***************************************************************************)
(* The refinement: declarations and calls map to themselves, the steps of  *)
(* a call to a stutter until one answers.                                  *)
(***************************************************************************)

LEMMA StepRefines ==
    ASSUME TypeOK, IInv, OperationsKept, ServicesComplete,
           OneObjectPerServiceName, [Next]_vars
    PROVE  [Contract!Next]_(Contract!vars)
  <1>1. CASE Prepare
    <2>1. pc = "idle" /\ UNCHANGED <<pc, queue, regs, outcome>>
      BY <1>1 DEF Prepare, NewActivity, NewWorkflow, Declare,
         DeclareOperation, WithImplementations, call
    <2>. QED
      BY <2>1 DEF Contract!Next, Contract!Prepare, Contract!request
  <1>2. ASSUME NEW q, NEW rs, NewWorker(q, rs)
        PROVE  Contract!Call
    BY <1>2 DEF NewWorker, Contract!Call, declarations
  <1>3. CASE ValidateQueueHandle \/ ValidateOperation \/ ValidateBundle
    BY <1>3 DEF ValidateQueueHandle, ValidateOperation, ValidateBundle,
       Validating, declarations, Contract!vars, Contract!request
  <1>4. CASE RejectRegisterable
    BY <1>4, RejectedIsUnacceptable
       DEF RejectRegisterable, Return, declarations, call,
           Contract!Next, Contract!Answer, Contract!request
  <1>5. CASE CheckQueue
    <2>1. /\ pc = "validate"
          /\ i = Len(regs) + 1
          /\ UNCHANGED <<declared, operations, queue, regs>>
      BY <1>5 DEF CheckQueue, declarations, call
    <2>2. CASE QueueComplete /\ pc' = "bundle" /\ UNCHANGED outcome
      BY <2>1, <2>2 DEF Contract!vars, Contract!request
    <2>3. CASE ~QueueComplete /\ Return("error")
      BY <2>1, <2>3, IncompleteIsUnacceptable
         DEF Return, Contract!Next, Contract!Answer, Contract!request
    <2>. QED
      BY <1>5, <2>2, <2>3 DEF CheckQueue
  <1>6. ASSUME NEW n \in ServiceNames, BundleService(n)
        PROVE  [Contract!Next]_(Contract!vars)
    <2>1. /\ pc = "bundle"
          /\ UNCHANGED <<declared, operations, queue, regs>>
      BY <1>6 DEF BundleService, declarations
    <2>2. CASE UNCHANGED <<pc, outcome>>
      BY <2>1, <2>2 DEF Contract!vars, Contract!request
    <2>3. CASE Return("error")
      BY <1>6, <2>1, <2>3, UnbundledIsUnacceptable
         DEF Return, Contract!Next, Contract!Answer, Contract!request
    <2>. QED
      BY <1>6, <2>2, <2>3 DEF BundleService
  <1>7. CASE ReturnWorker
    BY <1>7, ReturnedIsAcceptable
       DEF ReturnWorker, Return, declarations, call,
           Contract!Next, Contract!Answer, Contract!request
  <1>8. CASE Leave
    BY <1>8 DEF Leave, declarations, Contract!Next, Contract!Leave
  <1>9. CASE UNCHANGED vars
    BY <1>9 DEF vars, declarations, call, Contract!vars, Contract!request
  <1>. QED
    BY <1>1, <1>2, <1>3, <1>4, <1>5, <1>6, <1>7, <1>8, <1>9
       DEF Next, Work, Contract!Next

(* What a call to NewWorker may do is what its contract allows: "ok" for   *)
(* every acceptable list and an error for every other, whatever the order  *)
(* of the list and of the map iterations, with one Service object for each *)
(* service name (worker.go:30-77).  That each call is answered is left to  *)
(* TLC.                                                                    *)
THEOREM AnswersAsContracted ==
    ASSUME OneObjectPerServiceName
    PROVE  Spec => Contract!Init /\ [][Contract!Next]_(Contract!vars)
  <1>1. Init => Contract!Init
    BY DEF Init, Contract!Init
  <1>2. TypeOK /\ IInv /\ OperationsKept /\ ServicesComplete /\ [Next]_vars
            => [Contract!Next]_(Contract!vars)
    BY StepRefines
  <1>. QED
    BY <1>1, <1>2, TypeCorrect, SeenIsRecorded, OperationsKeptAlways,
       ServicesCompleteAlways, PTL DEF Spec
=============================================================================
