--------------------------- MODULE ScheduleProofs ---------------------------
(***************************************************************************)
(* Theorems about Schedule: for any number of callers, schedules and       *)
(* definitions, any timeouts and anything the operator does.               *)
(***************************************************************************)
EXTENDS Schedule, TLAPS

ScheduleFields == {"action", "spec", "policy", "paused", "note"}

Definitions(id) == Existing \cup {DefinitionOf[c] : c \in CallersOf(id)}

(* A schedule for id that follows one definition.                          *)
Good(s, id) ==
    /\ DOMAIN s = ScheduleFields
    /\ \E d \in Definitions(id) : SameDefinition(s, d)

RequestFields == {"op", "body", "reply", "found"}

Shapes ==
    /\ DOMAIN schedule = Ids
    /\ DOMAIN heap = Pointers
    /\ \A p \in Pointers : heap[p] = [f \in FieldNames |-> heap[p][f]]
    /\ pc \in [Callers -> {"start", "fill", "calling", "done", "failed"}]
    /\ filled \in [Callers -> Nat]
    /\ DOMAIN rpc = Callers

(* The first fields of the caller's Action are set.                        *)
Filling(c) ==
    /\ PointerOf[c] \in Pointers
    /\ filled[c] < Len(ActionFields)
    /\ \A j \in 1..filled[c] :
          heap[PointerOf[c]][ActionFields[j]]
              = DefinitionOf[c].action[ActionFields[j]]

(* A call under way: the Action is complete, what is to be written follows *)
(* the caller's definition, what was read follows some definition.         *)
Calling(c) ==
    /\ PointerOf[c] \in Pointers
    /\ heap[PointerOf[c]] = DefinitionOf[c].action
    /\ DOMAIN rpc[c] = RequestFields
    /\ rpc[c].op \in {"create", "update"} => Good(rpc[c].body, IdOf[c])
    /\ (rpc[c].op = "load" /\ rpc[c].reply = "ok")
          => Good(rpc[c].found, IdOf[c])

CallersInv ==
    \A c \in Callers : /\ pc[c] = "fill" => Filling(c)
                       /\ pc[c] = "calling" => Calling(c)

LateInv == \A m \in late : m.id \in Ids /\ Good(m.body, m.id)

ClusterInv == \A id \in Ids : schedule[id] # None => Good(schedule[id], id)

(* The inductive invariant.                                                *)
IInv == Shapes /\ CallersInv /\ LateInv /\ ClusterInv

-----------------------------------------------------------------------------
(* A caller's definition is one of those its schedule may follow.          *)
LEMMA OwnDefinition ==
    ASSUME NEW c \in Callers
    PROVE  /\ IdOf[c] \in Ids
           /\ DefinitionOf[c] \in Definitions(IdOf[c])
           /\ DOMAIN DefinitionOf[c] = ScheduleFields
           /\ DefinitionOf[c].action =
                 [f \in FieldNames |-> DefinitionOf[c].action[f]]
  <1>1. DefinitionOf[c] \in Schedules
    BY DefinitionAssumption DEF DefinitionAssumption
  <1>2. DOMAIN DefinitionOf[c] = ScheduleFields
    BY <1>1 DEF Schedules, ScheduleFields
  <1>. QED
    BY <1>2, DefinitionAssumption
       DEF DefinitionAssumption, Definitions, CallersOf

(* What Create sends.                                                      *)
LEMMA NewScheduleGood ==
    ASSUME NEW c \in Callers, heap[PointerOf[c]] = DefinitionOf[c].action
    PROVE  Good(NewSchedule(c), IdOf[c])
  <1>1. NewSchedule(c) = [DefinitionOf[c] EXCEPT !.action = DefinitionOf[c].action]
    BY DEF NewSchedule
  <1>2. /\ DOMAIN NewSchedule(c) = ScheduleFields
        /\ SameDefinition(NewSchedule(c), DefinitionOf[c])
    BY <1>1, OwnDefinition DEF SameDefinition, ScheduleFields
  <1>. QED
    BY <1>2, OwnDefinition DEF Good

(* What Update sends: action, spec and policies of the caller on top of    *)
(* whatever was read.                                                      *)
LEMMA DoUpdateGood ==
    ASSUME NEW c \in Callers, heap[PointerOf[c]] = DefinitionOf[c].action,
           NEW found, DOMAIN found = ScheduleFields
    PROVE  Good(DoUpdate(c, found), IdOf[c])
  <1>1. /\ DOMAIN DoUpdate(c, found) = ScheduleFields
        /\ SameDefinition(DoUpdate(c, found), DefinitionOf[c])
    BY DEF DoUpdate, SameDefinition, ScheduleFields
  <1>. QED
    BY <1>1, OwnDefinition DEF Good

LEMMA FieldsOfAction ==
    /\ Len(ActionFields) = 3
    /\ \A j \in 1..3 : ActionFields[j] \in FieldNames
    /\ \A f \in FieldNames : \E j \in 1..3 : f = ActionFields[j]
    /\ \A j, k \in 1..3 : ActionFields[j] = ActionFields[k] => j = k
  BY DEF ActionFields, FieldNames

(* A step that touches one caller's state and no Action object.            *)
LEMMA OneCaller ==
    ASSUME CallersInv, NEW c \in Callers, heap' = heap,
           \A d \in Callers \ {c} : /\ pc'[d] = pc[d]
                                    /\ rpc'[d] = rpc[d]
                                    /\ filled'[d] = filled[d],
           pc'[c] = "fill" => Filling(c)',
           pc'[c] = "calling" => Calling(c)'
    PROVE  CallersInv'
  <1>. SUFFICES ASSUME NEW d \in Callers, d # c
                PROVE  /\ pc'[d] = "fill" => Filling(d)'
                       /\ pc'[d] = "calling" => Calling(d)'
    BY DEF CallersInv
  <1>1. pc'[d] = "fill" => Filling(d)'
    BY DEF CallersInv, Filling
  <1>2. pc'[d] = "calling" => Calling(d)'
    BY DEF CallersInv, Calling
  <1>. QED
    BY <1>1, <1>2

(* What the cluster does with a request keeps the schedules good.          *)
LEMMA EffectGood ==
    ASSUME Shapes, ClusterInv, NEW id \in Ids, NEW op, NEW body,
           op \in {"create", "update"} => Good(body, id),
           Effect(id, op, body)
    PROVE  DOMAIN schedule' = Ids /\ ClusterInv'
  <1>1. CASE op \in {"create", "update"} /\ ReplyTo(id, op) = "ok"
    <2>1. schedule' = [schedule EXCEPT ![id] = body]
      BY <1>1 DEF Effect
    <2>2. DOMAIN schedule' = Ids
      BY <2>1 DEF Shapes
    <2>3. ASSUME NEW i \in Ids, schedule'[i] # None
          PROVE  Good(schedule'[i], i)
      BY <1>1, <2>1, <2>3 DEF Shapes, ClusterInv
    <2>. QED
      BY <2>2, <2>3 DEF ClusterInv
  <1>2. CASE ~(op \in {"create", "update"} /\ ReplyTo(id, op) = "ok")
    <2>1. schedule' = schedule
      BY <1>2 DEF Effect
    <2>. QED
      BY <2>1 DEF Shapes, ClusterInv
  <1>. QED
    BY <1>1, <1>2

LEMMA InitInv == Init => IInv
  <1>. SUFFICES ASSUME Init PROVE IInv
    OBVIOUS
  <1>1. Shapes
    BY DEF Init, Shapes
  <1>2. CallersInv /\ LateInv
    BY DEF Init, CallersInv, LateInv
  <1>3. ASSUME NEW id \in Ids, schedule[id] # None
        PROVE  Good(schedule[id], id)
    <2>1. schedule[id] \in Existing
      BY <1>3 DEF Init
    <2>2. DOMAIN schedule[id] = ScheduleFields
      <3>1. schedule[id] \in Schedules
        BY <2>1, DefinitionAssumption DEF DefinitionAssumption
      <3>. QED
        BY <3>1 DEF Schedules, ScheduleFields
    <2>. QED
      BY <2>1, <2>2 DEF Good, Definitions, SameDefinition
  <1>. QED
    BY <1>1, <1>2, <1>3 DEF IInv, ClusterInv

-----------------------------------------------------------------------------
(* One lemma per action.                                                   *)

LEMMA BeginKeeps ==
    ASSUME IInv, NEW c \in Callers, Begin(c)
    PROVE  IInv'
  <1>. USE DEF IInv, Begin
  <1>1. Shapes'
    BY DEF Shapes
  <1>2. pc'[c] \in {"fill", "failed"} /\ filled'[c] = 0
    BY DEF Shapes
  <1>3. pc'[c] = "fill" => Filling(c)'
    <2>. SUFFICES ASSUME pc'[c] = "fill" PROVE Filling(c)'
      OBVIOUS
    <2>1. PointerOf[c] # NotAnAction
      BY DEF Shapes
    <2>2. PointerOf[c] \in Pointers
      BY <2>1, DefinitionAssumption DEF DefinitionAssumption
    <2>. QED
      BY <1>2, <2>2, FieldsOfAction DEF Filling
  <1>4. \A d \in Callers \ {c} : /\ pc'[d] = pc[d]
                                 /\ rpc'[d] = rpc[d]
                                 /\ filled'[d] = filled[d]
    BY DEF Shapes
  <1>5. CallersInv'
    BY <1>2, <1>3, <1>4, OneCaller
  <1>6. LateInv' /\ ClusterInv'
    BY DEF LateInv, ClusterInv
  <1>. QED
    BY <1>1, <1>5, <1>6

(* One more field is set, and no other caller looks at this object.        *)
LEMMA FillActionKeeps ==
    ASSUME OwnActions, IInv, NEW c \in Callers, FillAction(c)
    PROVE  IInv'
  <1>. DEFINE p == PointerOf[c]
              n == filled[c] + 1
              f == ActionFields[n]
  <1>1. /\ pc[c] = "fill"
        /\ heap' = [heap EXCEPT ![p][f] = DefinitionOf[c].action[f]]
        /\ filled' = [filled EXCEPT ![c] = @ + 1]
        /\ UNCHANGED <<schedule, late>>
    BY DEF FillAction
  <1>2. /\ p \in Pointers
        /\ p # NotAnAction
        /\ filled[c] \in Nat
        /\ n \in 1..3
        /\ f \in FieldNames
        /\ \A j \in 1..filled[c] :
              heap[p][ActionFields[j]]
                  = DefinitionOf[c].action[ActionFields[j]]
    BY <1>1, FieldsOfAction, DefinitionAssumption
       DEF IInv, CallersInv, Filling, Shapes, DefinitionAssumption
  <1>3. /\ heap'[p] = [heap[p] EXCEPT ![f] = DefinitionOf[c].action[f]]
        /\ \A q \in Pointers \ {p} : heap'[q] = heap[q]
        /\ DOMAIN heap' = Pointers
    BY <1>1, <1>2 DEF IInv, Shapes
  <1>4. heap[p] = [g \in FieldNames |-> heap[p][g]]
    BY <1>2 DEF IInv, Shapes
  <1>5. heap'[p] = [g \in FieldNames |->
                       IF g = f THEN DefinitionOf[c].action[f] ELSE heap[p][g]]
    BY <1>3, <1>4
  <1>6. \A q \in Pointers : heap'[q] = [g \in FieldNames |-> heap'[q][g]]
    BY <1>3, <1>5 DEF IInv, Shapes
  <1>7. filled'[c] = n /\ \A d \in Callers \ {c} : filled'[d] = filled[d]
    BY <1>1 DEF IInv, Shapes
  <1>8. \A j \in 1..n : heap'[p][ActionFields[j]]
                            = DefinitionOf[c].action[ActionFields[j]]
    <2>. TAKE j \in 1..n
    <2>1. ActionFields[j] \in FieldNames
      BY <1>2, FieldsOfAction
    <2>2. CASE j = n
      BY <1>5, <2>1, <2>2
    <2>3. CASE j # n
      <3>1. j \in 1..filled[c]
        BY <1>2, <2>3
      <3>. QED
        BY <1>2, <1>5, <2>1, <3>1
    <2>. QED
      BY <2>2, <2>3
  <1>9. /\ Shapes'
        /\ pc'[c] = "fill" => Filling(c)'
        /\ pc'[c] = "calling" => Calling(c)'
        /\ \A d \in Callers \ {c} : pc'[d] = pc[d] /\ rpc'[d] = rpc[d]
    <2>1. CASE n = Len(ActionFields)
      <3>1. /\ pc' = [pc EXCEPT ![c] = "calling"]
            /\ rpc' = [rpc EXCEPT ![c] = Request("describe", None)]
        BY <1>7, <2>1 DEF FillAction
      <3>2. /\ pc'[c] = "calling"
            /\ rpc'[c] = Request("describe", None)
            /\ \A d \in Callers \ {c} : pc'[d] = pc[d] /\ rpc'[d] = rpc[d]
        BY <3>1 DEF IInv, Shapes
      <3>3. \A g \in FieldNames : heap'[p][g] = DefinitionOf[c].action[g]
        BY <1>8, <2>1, FieldsOfAction
      <3>4. heap'[p] = DefinitionOf[c].action
        BY <1>2, <1>6, <3>3, OwnDefinition
      <3>5. Calling(c)'
        BY <1>2, <3>2, <3>4 DEF Calling, Request, RequestFields
      <3>6. Shapes'
        BY <1>1, <1>3, <1>6, <3>1 DEF IInv, Shapes
      <3>. QED
        BY <3>2, <3>5, <3>6
    <2>2. CASE n # Len(ActionFields)
      <3>1. pc' = pc /\ rpc' = rpc
        BY <1>7, <2>2 DEF FillAction
      <3>2. Filling(c)'
        BY <1>2, <1>7, <1>8, <2>2, FieldsOfAction DEF Filling
      <3>3. Shapes'
        BY <1>1, <1>3, <1>6, <3>1 DEF IInv, Shapes
      <3>. QED
        BY <1>1, <3>1, <3>2, <3>3
    <2>. QED
      BY <2>1, <2>2
  <1>10. ASSUME NEW d \in Callers \ {c}
         PROVE  /\ pc'[d] = "fill" => Filling(d)'
                /\ pc'[d] = "calling" => Calling(d)'
    <2>1. PointerOf[d] \in Pointers => heap'[PointerOf[d]] = heap[PointerOf[d]]
      BY <1>2, <1>3 DEF OwnActions
    <2>2. pc'[d] = "fill" => Filling(d)'
      BY <1>7, <1>9, <2>1 DEF IInv, CallersInv, Filling
    <2>3. pc'[d] = "calling" => Calling(d)'
      BY <1>9, <2>1 DEF IInv, CallersInv, Calling
    <2>. QED
      BY <2>2, <2>3
  <1>11. CallersInv'
    BY <1>9, <1>10 DEF CallersInv
  <1>12. LateInv' /\ ClusterInv'
    BY <1>1 DEF IInv, LateInv, ClusterInv
  <1>. QED
    BY <1>9, <1>11, <1>12 DEF IInv

(* A caller sends its next request.                                        *)
LEMMA SendKeeps ==
    ASSUME IInv, NEW c \in Callers, pc[c] = "calling",
           NEW op, NEW body,
           op \in {"create", "update"} => Good(body, IdOf[c]),
           Send(c, Request(op, body)),
           UNCHANGED <<schedule, heap, filled, late>>
    PROVE  IInv'
  <1>. USE DEF IInv, Send
  <1>1. Shapes'
    BY DEF Shapes
  <1>2. /\ pc' = pc
        /\ rpc'[c] = Request(op, body)
        /\ \A d \in Callers \ {c} : rpc'[d] = rpc[d]
    BY DEF Shapes
  <1>3. Calling(c)'
    BY <1>2 DEF CallersInv, Calling, Request, RequestFields
  <1>4. CallersInv'
    BY <1>2, <1>3, OneCaller
  <1>. QED
    BY <1>1, <1>4 DEF LateInv, ClusterInv

(* A caller returns.                                                       *)
LEMMA FinishKeeps ==
    ASSUME IInv, NEW c \in Callers, NEW result \in {"done", "failed"},
           Finish(c, result), UNCHANGED <<schedule, heap, filled>>, LateInv'
    PROVE  IInv'
  <1>. USE DEF IInv, Finish
  <1>1. Shapes'
    BY DEF Shapes
  <1>2. /\ pc'[c] = result
        /\ \A d \in Callers \ {c} : pc'[d] = pc[d] /\ rpc'[d] = rpc[d]
    BY DEF Shapes
  <1>3. CallersInv'
    BY <1>2, OneCaller
  <1>. QED
    BY <1>1, <1>3 DEF ClusterInv

LEMMA ReceiveKeeps ==
    ASSUME IInv, NEW c \in Callers, Receive(c)
    PROVE  IInv'
  <1>1. /\ pc[c] = "calling"
        /\ Calling(c)
        /\ UNCHANGED <<schedule, heap, filled, late>>
    BY DEF Receive, AfterDescribe, AfterCreate, AfterLoad, AfterUpdate,
           Answered, IInv, CallersInv
  <1>2. LateInv'
    BY <1>1 DEF IInv, LateInv
  <1>3. CASE AfterDescribe(c)
    <2>1. Good(NewSchedule(c), IdOf[c])
      BY <1>1, NewScheduleGood DEF Calling
    <2>. QED
      BY <1>1, <1>3, <2>1, SendKeeps DEF AfterDescribe
  <1>4. CASE AfterCreate(c)
    BY <1>1, <1>2, <1>4, FinishKeeps DEF AfterCreate
  <1>5. CASE AfterLoad(c)
    <2>1. CASE Answered(c, "load", "ok")
               /\ Send(c, Request("update", DoUpdate(c, rpc[c].found)))
      <3>1. DOMAIN rpc[c].found = ScheduleFields
        BY <1>1, <2>1 DEF Calling, Answered, Good
      <3>2. Good(DoUpdate(c, rpc[c].found), IdOf[c])
        BY <1>1, <3>1, DoUpdateGood DEF Calling
      <3>. QED
        BY <1>1, <2>1, <3>2, SendKeeps
    <2>2. CASE Finish(c, "failed")
      BY <1>1, <1>2, <2>2, FinishKeeps
    <2>. QED
      BY <1>5, <2>1, <2>2 DEF AfterLoad
  <1>6. CASE AfterUpdate(c)
    BY <1>1, <1>2, <1>6, FinishKeeps DEF AfterUpdate
  <1>. QED
    BY <1>3, <1>4, <1>5, <1>6 DEF Receive

LEMMA GiveUpKeeps ==
    ASSUME IInv, NEW c \in Callers, GiveUp(c)
    PROVE  IInv'
  <1>1. LateInv'
    <2>1. CASE UNCHANGED late
      BY <2>1 DEF IInv, LateInv
    <2>2. CASE /\ rpc[c].op \in {"create", "update"}
               /\ late' = late \cup {[id |-> IdOf[c], op |-> rpc[c].op,
                                      body |-> rpc[c].body]}
      <3>1. Good(rpc[c].body, IdOf[c])
        BY <2>2 DEF GiveUp, IInv, CallersInv, Calling
      <3>. DEFINE given == [id |-> IdOf[c], op |-> rpc[c].op,
                            body |-> rpc[c].body]
      <3>2. given.id \in Ids /\ Good(given.body, given.id)
        BY <3>1, OwnDefinition
      <3>. HIDE DEF given
      <3>3. late' = late \cup {given}
        BY <2>2 DEF given
      <3>. QED
        BY <3>2, <3>3 DEF IInv, LateInv
    <2>. QED
      BY <2>1, <2>2 DEF GiveUp
  <1>. QED
    BY <1>1, FinishKeeps DEF GiveUp

LEMMA RestartKeeps ==
    ASSUME IInv, NEW c \in Callers, Restart(c)
    PROVE  IInv'
  <1>. USE DEF IInv, Restart
  <1>1. Shapes'
    BY DEF Shapes
  <1>2. pc'[c] = "start" /\ \A d \in Callers \ {c} : pc'[d] = pc[d]
    BY DEF Shapes
  <1>3. CallersInv'
    BY <1>2, OneCaller
  <1>. QED
    BY <1>1, <1>3 DEF LateInv, ClusterInv

(* The cluster serves a request: what it returns to Update is a schedule   *)
(* it holds.                                                               *)
LEMMA ServeKeeps ==
    ASSUME IInv, NEW c \in Callers, Serve(c)
    PROVE  IInv'
  <1>1. /\ pc[c] = "calling"
        /\ Calling(c)
        /\ UNCHANGED <<heap, pc, filled, late>>
        /\ IdOf[c] \in Ids
    BY OwnDefinition DEF Serve, IInv, CallersInv
  <1>2. DOMAIN schedule' = Ids /\ ClusterInv'
    BY <1>1, EffectGood DEF Serve, IInv, Calling
  <1>3. /\ DOMAIN rpc' = Callers
        /\ \A d \in Callers \ {c} : rpc'[d] = rpc[d]
        /\ DOMAIN rpc'[c] = DOMAIN rpc[c]
        /\ rpc'[c].op = rpc[c].op
        /\ rpc'[c].body = rpc[c].body
        /\ rpc'[c].reply = ReplyTo(IdOf[c], rpc[c].op)
        /\ rpc[c].op = "load" => rpc'[c].found = schedule[IdOf[c]]
    BY <1>1 DEF Serve, IInv, Shapes, Calling, RequestFields
  <1>4. Shapes'
    BY <1>1, <1>2, <1>3 DEF IInv, Shapes
  <1>5. Calling(c)'
    <2>1. (rpc'[c].op = "load" /\ rpc'[c].reply = "ok")
              => Good(rpc'[c].found, IdOf[c])
      BY <1>1, <1>3 DEF ReplyTo, IInv, ClusterInv
    <2>. QED
      BY <1>1, <1>3, <2>1 DEF Calling
  <1>6. CallersInv'
    BY <1>1, <1>3, <1>5, OneCaller DEF IInv, CallersInv
  <1>. QED
    BY <1>1, <1>2, <1>4, <1>6 DEF IInv, LateInv

LEMMA ServeLateKeeps ==
    ASSUME IInv, NEW m \in late, ServeLate(m)
    PROVE  IInv'
  <1>1. UNCHANGED <<heap, pc, filled, rpc>> /\ late' = late \ {m}
    BY DEF ServeLate
  <1>2. DOMAIN schedule' = Ids /\ ClusterInv'
    BY EffectGood DEF ServeLate, IInv, LateInv
  <1>3. Shapes'
    BY <1>1, <1>2 DEF IInv, Shapes
  <1>4. CallersInv'
    BY <1>1 DEF IInv, CallersInv, Filling, Calling
  <1>. QED
    BY <1>1, <1>2, <1>3, <1>4 DEF IInv, LateInv

(* The operator changes what no definition is compared on, or deletes.     *)
LEMMA InterveneKeeps ==
    ASSUME IInv, NEW id \in Ids, Intervene(id)
    PROVE  IInv'
  <1>1. UNCHANGED <<heap, pc, filled, rpc, late>> /\ schedule[id] # None
    BY DEF Intervene
  <1>2. /\ DOMAIN schedule' = Ids
        /\ \A i \in Ids \ {id} : schedule'[i] = schedule[i]
        /\ schedule'[id] = None \/ Good(schedule'[id], id)
    <2>1. Good(schedule[id], id)
      BY <1>1 DEF IInv, ClusterInv
    <2>2. ASSUME NEW n, schedule' = [schedule EXCEPT ![id].note = n]
          PROVE  DOMAIN schedule' = Ids /\ Good(schedule'[id], id)
      BY <2>1, <2>2 DEF Good, SameDefinition, ScheduleFields, IInv, Shapes
    <2>3. CASE schedule' = [schedule EXCEPT ![id].paused = ~@]
      BY <2>1, <2>3 DEF Good, SameDefinition, ScheduleFields, IInv, Shapes
    <2>4. CASE schedule' = [schedule EXCEPT ![id] = None]
      BY <2>4 DEF IInv, Shapes
    <2>5. \A i \in Ids \ {id} : schedule'[i] = schedule[i]
      BY DEF Intervene, IInv, Shapes
    <2>. QED
      BY <2>2, <2>3, <2>4, <2>5 DEF Intervene, IInv, Shapes
  <1>3. Shapes'
    BY <1>1, <1>2 DEF IInv, Shapes
  <1>4. CallersInv'
    BY <1>1 DEF IInv, CallersInv, Filling, Calling
  <1>. QED
    BY <1>1, <1>2, <1>3, <1>4 DEF IInv, LateInv, ClusterInv

LEMMA StutterKeeps ==
    ASSUME IInv, UNCHANGED vars
    PROVE  IInv'
  BY DEF vars, IInv, Shapes, CallersInv, Filling, Calling, LateInv, ClusterInv

-----------------------------------------------------------------------------
(* The callers, the requests that travel and the cluster stay consistent,  *)
(* if no two calls are given one Action object.                            *)
THEOREM DefinitionsKept ==
    ASSUME OwnActions
    PROVE  Spec => []IInv
  <1>1. ASSUME IInv, [Next]_vars
        PROVE  IInv'
    <2>1. ASSUME NEW c \in Callers, Begin(c)
          PROVE  IInv'
      BY <1>1, <2>1, BeginKeeps
    <2>2. ASSUME NEW c \in Callers, FillAction(c)
          PROVE  IInv'
      BY <1>1, <2>2, FillActionKeeps
    <2>3. ASSUME NEW c \in Callers, Receive(c)
          PROVE  IInv'
      BY <1>1, <2>3, ReceiveKeeps
    <2>4. ASSUME NEW c \in Callers, GiveUp(c)
          PROVE  IInv'
      BY <1>1, <2>4, GiveUpKeeps
    <2>5. ASSUME NEW c \in Callers, Restart(c)
          PROVE  IInv'
      BY <1>1, <2>5, RestartKeeps
    <2>6. ASSUME NEW c \in Callers, Serve(c)
          PROVE  IInv'
      BY <1>1, <2>6, ServeKeeps
    <2>7. ASSUME NEW m \in late, ServeLate(m)
          PROVE  IInv'
      BY <1>1, <2>7, ServeLateKeeps
    <2>8. ASSUME NEW id \in Ids, Intervene(id)
          PROVE  IInv'
      BY <1>1, <2>8, InterveneKeeps
    <2>9. CASE UNCHANGED vars
      BY <1>1, <2>9, StutterKeeps
    <2>. QED
      BY <1>1, <2>1, <2>2, <2>3, <2>4, <2>5, <2>6, <2>7, <2>8, <2>9 DEF Next
  <1>. QED
    BY <1>1, InitInv, PTL DEF Spec

(* The cluster never holds a mixture of two definitions (workflow.go:337,  *)
(* 345-360), for any number of replicas and schedules, whatever overlaps,  *)
(* times out, arrives late or is done by an operator.                      *)
THEOREM ScheduleIsOneDefinitionAlways ==
    ASSUME OwnActions
    PROVE  Spec => []ScheduleIsOneDefinition
  <1>1. IInv => ScheduleIsOneDefinition
    BY DEF IInv, ClusterInv, Good, Definitions, ScheduleIsOneDefinition
  <1>. QED
    BY <1>1, DefinitionsKept, PTL

-----------------------------------------------------------------------------
(***************************************************************************)
(* Types, with or without an Action object per caller.                     *)
(***************************************************************************)
CallerRight(c) ==
    /\ IF pc[c] = "calling"
       THEN /\ rpc[c] \in Requests
            /\ rpc[c].op \in {"create", "update"} => rpc[c].body # None
            /\ (rpc[c].op = "load" /\ rpc[c].reply = "ok")
                  => rpc[c].found # None
            /\ filled[c] = Len(ActionFields)
       ELSE rpc[c] = None
    /\ pc[c] \in {"fill", "calling"} => PointerOf[c] \in Pointers
    /\ pc[c] = "fill" => filled[c] < Len(ActionFields)

ClusterTypes ==
    /\ schedule \in [Ids -> Schedules \cup {None}]
    /\ late \subseteq [id : Ids, op : {"create", "update"}, body : Schedules]
    /\ timeouts \in 0..MaxTimeouts /\ interventions \in 0..MaxInterventions

CallerTypes ==
    /\ heap \in [Pointers -> Actions]
    /\ pc \in [Callers -> {"start", "fill", "calling", "done", "failed"}]
    /\ filled \in [Callers -> 0..Len(ActionFields)]
    /\ rpc \in [Callers -> Requests \cup {None}]

TypeInv ==
    /\ ClusterTypes
    /\ CallerTypes
    /\ \A c \in Callers : CallerRight(c)

LEMMA DefinitionTyped ==
    ASSUME NEW c \in Callers
    PROVE  /\ DefinitionOf[c] \in Schedules
           /\ DefinitionOf[c].action \in Actions
           /\ IdOf[c] \in Ids
           /\ PointerOf[c] # NotAnAction => PointerOf[c] \in Pointers
  <1>1. DefinitionOf[c] \in Schedules /\ IdOf[c] \in Ids
        /\ PointerOf[c] \in Pointers \cup {NotAnAction}
    BY DefinitionAssumption DEF DefinitionAssumption
  <1>2. DefinitionOf[c].action = [f \in FieldNames |-> DefinitionOf[c].action[f]]
    BY DefinitionAssumption DEF DefinitionAssumption
  <1>. DEFINE set == UNION {{DefinitionOf[d].action[f] : f \in FieldNames} :
                              d \in Callers}
  <1>3. \A f \in FieldNames : DefinitionOf[c].action[f] \in set
    <2>. TAKE g \in FieldNames
    <2>1. DefinitionOf[c].action[g]
             \in {DefinitionOf[c].action[f] : f \in FieldNames}
      OBVIOUS
    <2>. QED
      BY <2>1, Zenon
  <1>4. Actions = [FieldNames -> {Blank} \cup set]
    BY DEF Actions
  <1>. HIDE DEF set
  <1>5. DefinitionOf[c].action \in Actions
    BY <1>2, <1>3, <1>4
  <1>. QED
    BY <1>1, <1>5

LEMMA NewScheduleTyped ==
    ASSUME NEW c \in Callers, heap[PointerOf[c]] \in Actions
    PROVE  NewSchedule(c) \in Schedules
  <1>. DEFINE d == DefinitionOf[c]
              a == heap[PointerOf[c]]
  <1>1. d \in Schedules /\ a \in Actions
    BY DefinitionTyped
  <1>2. NewSchedule(c) = [d EXCEPT !.action = a]
    BY DEF NewSchedule
  <1>. HIDE DEF d, a
  <1>. QED
    BY <1>1, <1>2 DEF Schedules

LEMMA DoUpdateTyped ==
    ASSUME NEW c \in Callers, heap[PointerOf[c]] \in Actions,
           NEW found \in Schedules
    PROVE  DoUpdate(c, found) \in Schedules
  <1>. DEFINE d == DefinitionOf[c]
              a == heap[PointerOf[c]]
              new == DoUpdate(c, found)
  <1>1. d \in Schedules /\ a \in Actions
    BY DefinitionTyped
  <1>2. new = [found EXCEPT !.action = a, !.spec = d.spec,
                            !.paused = d.paused, !.policy = d.policy]
    BY DEF DoUpdate
  <1>. HIDE DEF d, a, new
  <1>3. /\ d.spec \in Values("spec") /\ d.policy \in Values("policy")
        /\ d.paused \in BOOLEAN
    BY <1>1 DEF Schedules
  <1>4. new = [action |-> a, spec |-> d.spec, policy |-> d.policy,
               paused |-> d.paused, note |-> found.note]
    BY <1>2 DEF Schedules
  <1>5. found.note \in Values("note") \cup Notes
    BY DEF Schedules
  <1>6. new \in Schedules
    BY <1>1, <1>3, <1>4, <1>5 DEF Schedules
  <1>. QED
    BY <1>6 DEF new

LEMMA RequestTyped ==
    ASSUME NEW op \in Operations, NEW body \in Schedules \cup {None}
    PROVE  /\ Request(op, body) \in Requests
           /\ Request(op, body).op = op /\ Request(op, body).body = body
           /\ Request(op, body).reply = "none"
  BY DEF Request, Requests, Replies

LEMMA EffectTyped ==
    ASSUME schedule \in [Ids -> Schedules \cup {None}], NEW id \in Ids, NEW op,
           NEW body, op \in {"create", "update"} => body \in Schedules,
           Effect(id, op, body)
    PROVE  schedule' \in [Ids -> Schedules \cup {None}]
  BY DEF Effect

LEMMA OtherCallersRight ==
    ASSUME TypeInv, CallerTypes', NEW c \in Callers,
           \A d \in Callers \ {c} : /\ pc'[d] = pc[d]
                                    /\ rpc'[d] = rpc[d]
                                    /\ filled'[d] = filled[d],
           CallerRight(c)', ClusterTypes'
    PROVE  TypeInv'
  <1>1. ASSUME NEW d \in Callers, d # c
        PROVE  CallerRight(d)'
    BY <1>1 DEF TypeInv, CallerRight
  <1>. QED
    BY <1>1 DEF TypeInv

LEMMA TypeInvAtFirst == Init => TypeInv
  <1>. SUFFICES ASSUME Init
                PROVE  TypeInv
    OBVIOUS
  <1>1. Existing \subseteq Schedules
    BY DefinitionAssumption DEF DefinitionAssumption
  <1>2. ClusterTypes
    BY <1>1, BoundAssumption DEF Init, ClusterTypes, BoundAssumption
  <1>3. CallerTypes
    BY FieldsOfAction DEF Init, CallerTypes, Actions
  <1>4. ASSUME NEW c \in Callers
        PROVE  CallerRight(c)
    BY DEF Init, CallerRight
  <1>. QED
    BY <1>2, <1>3, <1>4 DEF TypeInv

LEMMA BeginTyped ==
    ASSUME TypeInv, NEW c \in Callers, Begin(c)
    PROVE  TypeInv'
  <1>1. ClusterTypes' /\ CallerTypes'
    BY FieldsOfAction DEF TypeInv, ClusterTypes, CallerTypes, Begin
  <1>2. CallerRight(c)'
    <2>1. filled'[c] = 0 /\ rpc'[c] = None
          /\ pc'[c] = IF PointerOf[c] = NotAnAction THEN "failed" ELSE "fill"
      BY DEF TypeInv, CallerTypes, CallerRight, Begin
    <2>. QED
      BY <2>1, DefinitionTyped, FieldsOfAction DEF CallerRight
  <1>. QED
    BY <1>1, <1>2, OtherCallersRight DEF TypeInv, CallerTypes, Begin

LEMMA FillActionTyped ==
    ASSUME TypeInv, NEW c \in Callers, FillAction(c)
    PROVE  TypeInv'
  <1>. DEFINE p == PointerOf[c]
              f == ActionFields[filled[c] + 1]
              value == DefinitionOf[c].action[f]
  <1>1. pc[c] = "fill" /\ filled[c] < 3 /\ filled[c] \in 0..3 /\ p \in Pointers
        /\ rpc[c] = None
    BY FieldsOfAction DEF TypeInv, CallerTypes, CallerRight, FillAction
  <1>2. f \in FieldNames
    BY <1>1, FieldsOfAction
  <1>3. /\ heap' = [heap EXCEPT ![p][f] = value]
        /\ filled' = [filled EXCEPT ![c] = @ + 1]
        /\ UNCHANGED <<schedule, late, timeouts, interventions>>
    BY DEF FillAction
  <1>4. heap' \in [Pointers -> Actions]
    <2>. DEFINE set == {Blank} \cup
                       UNION {{DefinitionOf[d].action[g] : g \in FieldNames} :
                                d \in Callers}
    <2>1. Actions = [FieldNames -> set]
      BY DEF Actions
    <2>2. DefinitionOf[c].action \in Actions
      BY DefinitionTyped
    <2>. HIDE DEF f, set
    <2>3. value \in set
      BY <1>2, <2>1, <2>2
    <2>4. heap[p] \in Actions
      BY <1>1 DEF TypeInv, CallerTypes
    <2>. HIDE DEF value
    <2>5. [heap[p] EXCEPT ![f] = value] \in Actions
      BY <1>2, <2>1, <2>3, <2>4
    <2>. QED
      BY <1>1, <1>3, <2>5 DEF TypeInv, CallerTypes
  <1>5. filled'[c] = filled[c] + 1 /\ filled' \in [Callers -> 0..3]
        /\ \A d \in Callers \ {c} : filled'[d] = filled[d]
    BY <1>1, <1>3, FieldsOfAction DEF TypeInv, CallerTypes
  <1>6. ClusterTypes'
    BY <1>3 DEF TypeInv, ClusterTypes
  <1>7. CASE filled'[c] = Len(ActionFields)
    <2>1. /\ pc' = [pc EXCEPT ![c] = "calling"]
          /\ rpc' = [rpc EXCEPT ![c] = Request("describe", None)]
      BY <1>7 DEF FillAction
    <2>2. Request("describe", None) \in Requests
          /\ Request("describe", None).op = "describe"
      BY RequestTyped DEF Operations
    <2>3. CallerTypes'
      BY <1>4, <1>5, <2>1, <2>2, FieldsOfAction DEF TypeInv, CallerTypes
    <2>4. pc'[c] = "calling" /\ rpc'[c] = Request("describe", None)
          /\ \A d \in Callers \ {c} : pc'[d] = pc[d] /\ rpc'[d] = rpc[d]
      BY <2>1 DEF TypeInv, CallerTypes
    <2>5. CallerRight(c)'
      BY <1>1, <1>7, <2>2, <2>4 DEF CallerRight
    <2>. QED
      BY <1>5, <1>6, <2>3, <2>4, <2>5, OtherCallersRight
  <1>8. CASE filled'[c] # Len(ActionFields)
    <2>1. pc' = pc /\ rpc' = rpc
      BY <1>8 DEF FillAction
    <2>2. CallerTypes'
      BY <1>4, <1>5, <2>1, FieldsOfAction DEF TypeInv, CallerTypes
    <2>3. CallerRight(c)'
      BY <1>1, <1>5, <1>8, <2>1, FieldsOfAction DEF CallerRight
    <2>. QED
      BY <1>5, <1>6, <2>1, <2>2, <2>3, OtherCallersRight
  <1>. QED
    BY <1>7, <1>8

LEMMA SendTyped ==
    ASSUME TypeInv, NEW c \in Callers, pc[c] = "calling",
           NEW op \in Operations, NEW body \in Schedules \cup {None},
           op \in {"create", "update"} => body # None,
           Send(c, Request(op, body)),
           UNCHANGED <<schedule, heap, filled, late, timeouts, interventions>>
    PROVE  TypeInv'
  <1>. DEFINE r == Request(op, body)
  <1>1. r \in Requests /\ r.op = op /\ r.body = body /\ r.reply = "none"
    BY RequestTyped
  <1>2. rpc' = [rpc EXCEPT ![c] = r] /\ pc' = pc
    BY DEF Send
  <1>. HIDE DEF r
  <1>3. rpc'[c] = r /\ \A d \in Callers \ {c} : rpc'[d] = rpc[d]
    BY <1>2 DEF TypeInv, CallerTypes
  <1>4. CallerTypes' /\ ClusterTypes'
    BY <1>1, <1>2 DEF TypeInv, CallerTypes, ClusterTypes
  <1>5. CallerRight(c)'
    BY <1>1, <1>2, <1>3 DEF TypeInv, CallerRight
  <1>. QED
    BY <1>2, <1>3, <1>4, <1>5, OtherCallersRight

LEMMA FinishTyped ==
    ASSUME TypeInv, NEW c \in Callers, NEW result \in {"done", "failed"},
           Finish(c, result), UNCHANGED <<heap, filled>>, ClusterTypes'
    PROVE  TypeInv'
  <1>1. CallerTypes'
    BY DEF TypeInv, CallerTypes, Finish
  <1>2. pc'[c] = result /\ rpc'[c] = None
        /\ \A d \in Callers \ {c} : pc'[d] = pc[d] /\ rpc'[d] = rpc[d]
    BY DEF TypeInv, CallerTypes, Finish
  <1>3. CallerRight(c)'
    BY <1>2 DEF CallerRight
  <1>. QED
    BY <1>1, <1>2, <1>3, OtherCallersRight

LEMMA ReceiveTyped ==
    ASSUME TypeInv, NEW c \in Callers, Receive(c)
    PROVE  TypeInv'
  <1>1. /\ pc[c] = "calling"
        /\ UNCHANGED <<schedule, heap, filled, late, timeouts, interventions>>
    BY DEF Receive, AfterDescribe, AfterCreate, AfterLoad, AfterUpdate, Answered
  <1>2. ClusterTypes'
    BY <1>1 DEF TypeInv, ClusterTypes
  <1>3. rpc[c] \in Requests /\ PointerOf[c] \in Pointers
        /\ heap[PointerOf[c]] \in Actions
    BY <1>1 DEF TypeInv, CallerRight, CallerTypes
  <1>4. None \notin Schedules
    BY DefinitionAssumption, Zenon DEF DefinitionAssumption
  <1>5. {"load", "create", "update"} \subseteq Operations
    BY DEF Operations
  <1>6. CASE Send(c, Request("load", None))
    BY <1>1, <1>5, <1>6, SendTyped
  <1>7. CASE Send(c, Request("create", NewSchedule(c)))
    <2>1. NewSchedule(c) \in Schedules
      BY <1>3, NewScheduleTyped
    <2>. QED
      BY <1>1, <1>4, <1>5, <1>7, <2>1, SendTyped
  <1>8. CASE /\ Answered(c, "load", "ok")
             /\ Send(c, Request("update", DoUpdate(c, rpc[c].found)))
    <2>1. rpc[c].found \in Schedules
      BY <1>1, <1>3, <1>8 DEF Answered, TypeInv, CallerRight, Requests
    <2>2. DoUpdate(c, rpc[c].found) \in Schedules
      BY <1>3, <2>1, DoUpdateTyped
    <2>. QED
      BY <1>1, <1>4, <1>5, <1>8, <2>2, SendTyped
  <1>9. CASE Finish(c, "done") \/ Finish(c, "failed")
    BY <1>1, <1>2, <1>9, FinishTyped
  <1>. QED
    BY <1>6, <1>7, <1>8, <1>9
       DEF Receive, AfterDescribe, AfterCreate, AfterLoad, AfterUpdate

LEMMA GiveUpTyped ==
    ASSUME TypeInv, NEW c \in Callers, GiveUp(c)
    PROVE  TypeInv'
  <1>1. pc[c] = "calling" /\ rpc[c] \in Requests /\ IdOf[c] \in Ids
    BY DefinitionTyped DEF GiveUp, TypeInv, CallerRight
  <1>2. late' \subseteq [id : Ids, op : {"create", "update"}, body : Schedules]
    <2>1. CASE UNCHANGED late
      BY <2>1 DEF TypeInv, ClusterTypes
    <2>2. CASE /\ rpc[c].op \in {"create", "update"}
               /\ late' = late \cup {[id |-> IdOf[c], op |-> rpc[c].op,
                                      body |-> rpc[c].body]}
      <3>1. rpc[c].body \in Schedules
        BY <1>1, <2>2 DEF TypeInv, CallerRight, Requests
      <3>. QED
        BY <1>1, <2>2, <3>1 DEF TypeInv, ClusterTypes
    <2>. QED
      BY <2>1, <2>2 DEF GiveUp
  <1>3. ClusterTypes'
    <2>1. timeouts' \in 0..MaxTimeouts
      BY BoundAssumption DEF BoundAssumption, GiveUp, TypeInv, ClusterTypes
    <2>. QED
      BY <1>2, <2>1 DEF GiveUp, TypeInv, ClusterTypes
  <1>. QED
    BY <1>3, FinishTyped DEF GiveUp

LEMMA RestartTyped ==
    ASSUME TypeInv, NEW c \in Callers, Restart(c)
    PROVE  TypeInv'
  <1>1. ClusterTypes' /\ CallerTypes'
    BY DEF TypeInv, ClusterTypes, CallerTypes, Restart
  <1>2. CallerRight(c)'
    BY DEF TypeInv, CallerTypes, CallerRight, Restart
  <1>. QED
    BY <1>1, <1>2, OtherCallersRight DEF TypeInv, CallerTypes, Restart

LEMMA ServeTyped ==
    ASSUME TypeInv, NEW c \in Callers, Serve(c)
    PROVE  TypeInv'
  <1>. DEFINE r == rpc[c]
              reply == ReplyTo(IdOf[c], r.op)
              found == IF r.op = "load" THEN schedule[IdOf[c]] ELSE None
              s == [r EXCEPT !.reply = reply, !.found = found]
  <1>1. pc[c] = "calling" /\ r \in Requests /\ IdOf[c] \in Ids
        /\ UNCHANGED <<heap, pc, filled, late, timeouts, interventions>>
    BY DefinitionTyped DEF Serve, TypeInv, CallerRight
  <1>2. r.op \in {"create", "update"} => r.body \in Schedules
    BY <1>1 DEF TypeInv, CallerRight, Requests
  <1>3. schedule' \in [Ids -> Schedules \cup {None}]
    BY <1>1, <1>2, EffectTyped DEF Serve, TypeInv, ClusterTypes
  <1>4. ClusterTypes'
    BY <1>1, <1>3 DEF TypeInv, ClusterTypes
  <1>5. reply \in Replies
    BY DEF ReplyTo, Replies
  <1>6. found \in Schedules \cup {None}
    BY <1>1 DEF TypeInv, ClusterTypes
  <1>7. (r.op = "load" /\ reply = "ok") => found # None
    BY <1>1 DEF ReplyTo, TypeInv, ClusterTypes
  <1>8. rpc' = [rpc EXCEPT ![c] = s]
    BY DEF Serve
  <1>. HIDE DEF reply, found, s, r
  <1>9. s \in Requests /\ s.op = r.op /\ s.body = r.body /\ s.reply = reply
        /\ s.found = found
    BY <1>1, <1>5, <1>6 DEF Requests, s
  <1>10. rpc'[c] = s /\ \A d \in Callers \ {c} : rpc'[d] = rpc[d]
    BY <1>8 DEF TypeInv, CallerTypes
  <1>11. CallerTypes'
    BY <1>1, <1>8, <1>9 DEF TypeInv, CallerTypes
  <1>12. CallerRight(c)'
    BY <1>1, <1>7, <1>9, <1>10 DEF TypeInv, CallerRight, r
  <1>. QED
    BY <1>1, <1>4, <1>10, <1>11, <1>12, OtherCallersRight

LEMMA ServeLateTyped ==
    ASSUME TypeInv, NEW m \in late, ServeLate(m)
    PROVE  TypeInv'
  <1>1. m.id \in Ids /\ m.body \in Schedules
    BY DEF TypeInv, ClusterTypes
  <1>2. schedule' \in [Ids -> Schedules \cup {None}]
    BY <1>1, EffectTyped DEF ServeLate, TypeInv, ClusterTypes
  <1>3. ClusterTypes' /\ CallerTypes'
    BY <1>2 DEF ServeLate, TypeInv, ClusterTypes, CallerTypes
  <1>4. \A c \in Callers : CallerRight(c)'
    BY DEF ServeLate, TypeInv, CallerRight
  <1>. QED
    BY <1>3, <1>4 DEF TypeInv

LEMMA InterveneTyped ==
    ASSUME TypeInv, NEW id \in Ids, Intervene(id)
    PROVE  TypeInv'
  <1>. DEFINE s == schedule[id]
  <1>1. s \in Schedules /\ schedule \in [Ids -> Schedules \cup {None}]
    BY DEF Intervene, TypeInv, ClusterTypes
  <1>2. ASSUME NEW n \in Notes, schedule' = [schedule EXCEPT ![id].note = n]
        PROVE  schedule' \in [Ids -> Schedules \cup {None}]
    <2>1. schedule' = [schedule EXCEPT ![id] = [s EXCEPT !.note = n]]
      BY <1>2
    <2>. HIDE DEF s
    <2>2. [s EXCEPT !.note = n] \in Schedules
      BY <1>1 DEF Schedules
    <2>. QED
      BY <1>1, <2>1, <2>2
  <1>3. ASSUME schedule' = [schedule EXCEPT ![id].paused = ~@]
        PROVE  schedule' \in [Ids -> Schedules \cup {None}]
    <2>1. schedule' = [schedule EXCEPT ![id] = [s EXCEPT !.paused = ~s.paused]]
      BY <1>3
    <2>2. (~s.paused) \in BOOLEAN
      OBVIOUS
    <2>. HIDE DEF s
    <2>. DEFINE b == ~s.paused
    <2>3. b \in BOOLEAN
      BY <2>2
    <2>. HIDE DEF b
    <2>4. [s EXCEPT !.paused = b] \in Schedules
      BY <1>1, <2>3 DEF Schedules
    <2>. QED
      BY <1>1, <2>1, <2>4 DEF b
  <1>4. ASSUME schedule' = [schedule EXCEPT ![id] = None]
        PROVE  schedule' \in [Ids -> Schedules \cup {None}]
    BY <1>1, <1>4
  <1>5. schedule' \in [Ids -> Schedules \cup {None}]
    BY <1>2, <1>3, <1>4 DEF Intervene
  <1>6. interventions' \in 0..MaxInterventions
    BY BoundAssumption DEF BoundAssumption, Intervene, TypeInv, ClusterTypes
  <1>7. ClusterTypes' /\ CallerTypes'
    BY <1>5, <1>6 DEF Intervene, TypeInv, ClusterTypes, CallerTypes
  <1>8. \A c \in Callers : CallerRight(c)'
    BY DEF Intervene, TypeInv, CallerRight
  <1>. QED
    BY <1>7, <1>8 DEF TypeInv

LEMMA TypeInvKept == TypeInv /\ [Next]_vars => TypeInv'
  <1>. SUFFICES ASSUME TypeInv, [Next]_vars
                PROVE  TypeInv'
    OBVIOUS
  <1>1. ASSUME NEW c \in Callers,
               \/ Begin(c) \/ FillAction(c) \/ Receive(c)
               \/ GiveUp(c) \/ Restart(c) \/ Serve(c)
        PROVE  TypeInv'
    BY <1>1, BeginTyped, FillActionTyped, ReceiveTyped, GiveUpTyped,
       RestartTyped, ServeTyped
  <1>2. ASSUME NEW m \in late, ServeLate(m)
        PROVE  TypeInv'
    BY <1>2, ServeLateTyped
  <1>3. ASSUME NEW id \in Ids, Intervene(id)
        PROVE  TypeInv'
    BY <1>3, InterveneTyped
  <1>4. CASE UNCHANGED vars
    <2>1. ClusterTypes' /\ CallerTypes'
      BY <1>4 DEF vars, TypeInv, ClusterTypes, CallerTypes
    <2>2. \A c \in Callers : CallerRight(c)'
      BY <1>4 DEF vars, TypeInv, CallerRight
    <2>. QED
      BY <2>1, <2>2 DEF TypeInv
  <1>. QED
    BY <1>1, <1>2, <1>3, <1>4 DEF Next

(* Each variable keeps to what the code and the cluster can put in it: a   *)
(* request under way belongs to a call whose Action is complete            *)
(* (workflow.go:317-364), also for calls that share an Action object.      *)
THEOREM ScheduleTypeCorrect == Spec => []TypeOK
  <1>1. TypeInv => TypeOK
    BY DEF TypeInv, ClusterTypes, CallerTypes, CallerRight, TypeOK
  <1>2. Spec => []TypeInv
    BY TypeInvAtFirst, TypeInvKept, PTL DEF Spec
  <1>. QED
    BY <1>1, <1>2, PTL

-----------------------------------------------------------------------------
(***************************************************************************)
(* What a call that returned nil has achieved.                             *)
(***************************************************************************)

(* A schedule for id as a present caller wants it, the pause included.     *)
Current(s, id) ==
    \E d \in CallersOf(id) : /\ SameDefinition(s, DefinitionOf[d])
                             /\ s.paused = DefinitionOf[d].paused

Replaced(id) == schedule[id] # None /\ Current(schedule[id], id)

Writes == {"create", "update"}

(* The cluster has carried out a write of this call.                       *)
Written(c) ==
    \/ pc[c] = "done"
    \/ pc[c] = "calling" /\ rpc[c].op \in Writes /\ rpc[c].reply = "ok"

(* All that is written, now or late, is of present callers, and what has   *)
(* been replaced stays replaced unless an operator interferes.             *)
CallReplaces(c) ==
    /\ (pc[c] = "calling" /\ rpc[c].op \in Writes)
          => Current(rpc[c].body, IdOf[c])
    /\ (interventions = 0 /\ Written(c)) => Replaced(IdOf[c])

LateReplaces == \A m \in late : Current(m.body, m.id)

SuccessInv == LateReplaces /\ \A c \in Callers : CallReplaces(c)

ReplacedInv == IInv /\ TypeInv /\ SuccessInv

LEMMA NewScheduleCurrent ==
    ASSUME NEW c \in Callers, heap[PointerOf[c]] = DefinitionOf[c].action
    PROVE  Current(NewSchedule(c), IdOf[c])
  <1>. DEFINE d == DefinitionOf[c]
  <1>1. d \in Schedules /\ c \in CallersOf(IdOf[c])
    BY DefinitionTyped DEF CallersOf
  <1>2. NewSchedule(c) = [d EXCEPT !.action = d.action]
    BY DEF NewSchedule
  <1>. HIDE DEF d
  <1>3. SameDefinition(NewSchedule(c), d) /\ NewSchedule(c).paused = d.paused
    BY <1>1, <1>2 DEF Schedules, SameDefinition
  <1>. QED
    BY <1>1, <1>3 DEF Current, d

LEMMA DoUpdateCurrent ==
    ASSUME NEW c \in Callers, heap[PointerOf[c]] = DefinitionOf[c].action,
           NEW found \in Schedules
    PROVE  Current(DoUpdate(c, found), IdOf[c])
  <1>. DEFINE d == DefinitionOf[c]
              new == DoUpdate(c, found)
  <1>1. c \in CallersOf(IdOf[c])
    BY DEF CallersOf
  <1>2. new = [found EXCEPT !.action = d.action, !.spec = d.spec,
                            !.paused = d.paused, !.policy = d.policy]
    BY DEF DoUpdate
  <1>. HIDE DEF d, new
  <1>3. SameDefinition(new, d) /\ new.paused = d.paused
    BY <1>2 DEF Schedules, SameDefinition
  <1>. QED
    BY <1>1, <1>3 DEF Current, d, new

(* A write of a present caller takes nothing back.                         *)
LEMMA EffectReplaces ==
    ASSUME schedule \in [Ids -> Schedules \cup {None}], NEW id \in Ids, NEW op,
           NEW body, op \in Writes => body \in Schedules /\ Current(body, id),
           Effect(id, op, body)
    PROVE  /\ \A i \in Ids : Replaced(i) => Replaced(i)'
           /\ (op \in Writes /\ ReplyTo(id, op) = "ok") => Replaced(id)'
  <1>1. None \notin Schedules
    BY DefinitionAssumption, Zenon DEF DefinitionAssumption
  <1>2. CASE op \in Writes /\ ReplyTo(id, op) = "ok"
    <2>1. schedule' = [schedule EXCEPT ![id] = body]
      BY <1>2 DEF Effect, Writes
    <2>2. schedule'[id] = body
          /\ \A i \in Ids \ {id} : schedule'[i] = schedule[i]
      BY <2>1
    <2>3. Replaced(id)'
      BY <1>1, <1>2, <2>2 DEF Replaced, Current, SameDefinition
    <2>4. \A i \in Ids \ {id} : Replaced(i) => Replaced(i)'
      BY <2>2 DEF Replaced, Current, SameDefinition
    <2>. QED
      BY <2>3, <2>4
  <1>3. CASE ~(op \in Writes /\ ReplyTo(id, op) = "ok")
    <2>1. schedule' = schedule
      BY <1>3 DEF Effect, Writes
    <2>. QED
      BY <1>3, <2>1 DEF Replaced, Current, SameDefinition
  <1>. QED
    BY <1>2, <1>3

(* A step of one caller, or of the cluster for it, that takes nothing back.*)
LEMMA OthersReplace ==
    ASSUME SuccessInv, NEW c \in Callers, interventions' = interventions,
           \A i \in Ids : Replaced(i) => Replaced(i)',
           \A d \in Callers \ {c} : pc'[d] = pc[d] /\ rpc'[d] = rpc[d],
           CallReplaces(c)', LateReplaces'
    PROVE  SuccessInv'
  <1>1. ASSUME NEW d \in Callers, d # c
        PROVE  CallReplaces(d)'
    <2>1. CallReplaces(d) /\ pc'[d] = pc[d] /\ rpc'[d] = rpc[d]
          /\ (Replaced(IdOf[d]) => Replaced(IdOf[d])')
      BY <1>1, DefinitionTyped DEF SuccessInv
    <2>. QED
      BY <2>1 DEF CallReplaces, Written, Current, SameDefinition
  <1>. QED
    BY <1>1 DEF SuccessInv

LEMMA Unwritten ==
    ASSUME UNCHANGED schedule
    PROVE  \A i \in Ids : Replaced(i) => Replaced(i)'
  BY DEF Replaced, Current, SameDefinition

LEMMA SendReplaces ==
    ASSUME ReplacedInv, NEW c \in Callers, pc[c] = "calling",
           NEW op, NEW body, op \in Writes => Current(body, IdOf[c]),
           Send(c, Request(op, body)),
           UNCHANGED <<schedule, late, interventions>>
    PROVE  SuccessInv'
  <1>. DEFINE r == Request(op, body)
  <1>1. r.op = op /\ r.body = body /\ r.reply = "none"
    BY DEF Request
  <1>. HIDE DEF r
  <1>2. rpc'[c] = r /\ pc' = pc
        /\ \A d \in Callers \ {c} : rpc'[d] = rpc[d]
    BY DEF Send, ReplacedInv, TypeInv, CallerTypes, r
  <1>3. CallReplaces(c)'
    BY <1>1, <1>2 DEF CallReplaces, Written, Current, SameDefinition
  <1>4. LateReplaces'
    BY DEF ReplacedInv, SuccessInv, LateReplaces, Current, SameDefinition
  <1>. QED
    BY <1>2, <1>3, <1>4, OthersReplace, Unwritten DEF ReplacedInv

LEMMA FinishReplaces ==
    ASSUME ReplacedInv, NEW c \in Callers, NEW result \in {"done", "failed"},
           result = "done" => Written(c),
           Finish(c, result), UNCHANGED <<schedule, interventions>>,
           LateReplaces'
    PROVE  SuccessInv'
  <1>1. pc'[c] = result
        /\ \A d \in Callers \ {c} : pc'[d] = pc[d] /\ rpc'[d] = rpc[d]
    BY DEF Finish, ReplacedInv, TypeInv, CallerTypes
  <1>2. CallReplaces(c)'
    BY <1>1, DefinitionTyped, Unwritten
       DEF ReplacedInv, SuccessInv, CallReplaces, Written
  <1>. QED
    BY <1>1, <1>2, OthersReplace, Unwritten DEF ReplacedInv

LEMMA ReceiveReplaces ==
    ASSUME ReplacedInv, NEW c \in Callers, Receive(c)
    PROVE  SuccessInv'
  <1>1. /\ pc[c] = "calling"
        /\ UNCHANGED <<schedule, heap, filled, late, timeouts, interventions>>
    BY DEF Receive, AfterDescribe, AfterCreate, AfterLoad, AfterUpdate, Answered
  <1>2. LateReplaces'
    BY <1>1 DEF ReplacedInv, SuccessInv, LateReplaces, Current, SameDefinition
  <1>3. heap[PointerOf[c]] = DefinitionOf[c].action
    BY <1>1 DEF ReplacedInv, IInv, CallersInv, Calling
  <1>4. CASE Send(c, Request("load", None))
    BY <1>1, <1>4, SendReplaces DEF Writes
  <1>5. CASE Send(c, Request("create", NewSchedule(c)))
    BY <1>1, <1>3, <1>5, SendReplaces, NewScheduleCurrent
  <1>6. CASE /\ Answered(c, "load", "ok")
             /\ Send(c, Request("update", DoUpdate(c, rpc[c].found)))
    <2>1. rpc[c].found \in Schedules
      BY <1>1, <1>6
         DEF Answered, ReplacedInv, TypeInv, CallerRight, Requests
    <2>. QED
      BY <1>1, <1>3, <1>6, <2>1, SendReplaces, DoUpdateCurrent
  <1>7. CASE /\ Answered(c, "create", "ok") \/ Answered(c, "update", "ok")
             /\ Finish(c, "done")
    <2>1. Written(c)
      BY <1>7 DEF Answered, Written, Writes
    <2>. QED
      BY <1>1, <1>2, <1>7, <2>1, FinishReplaces
  <1>8. CASE Finish(c, "failed")
    BY <1>1, <1>2, <1>8, FinishReplaces
  <1>. QED
    BY <1>4, <1>5, <1>6, <1>7, <1>8
       DEF Receive, AfterDescribe, AfterCreate, AfterLoad, AfterUpdate

LEMMA GiveUpReplaces ==
    ASSUME ReplacedInv, NEW c \in Callers, GiveUp(c)
    PROVE  SuccessInv'
  <1>1. LateReplaces'
    <2>1. \A m \in late : Current(m.body, m.id)
      BY DEF ReplacedInv, SuccessInv, LateReplaces
    <2>2. CASE UNCHANGED late
      BY <2>1, <2>2 DEF LateReplaces, Current, SameDefinition
    <2>3. CASE /\ rpc[c].op \in {"create", "update"}
               /\ late' = late \cup {[id |-> IdOf[c], op |-> rpc[c].op,
                                      body |-> rpc[c].body]}
      <3>. DEFINE given == [id |-> IdOf[c], op |-> rpc[c].op,
                            body |-> rpc[c].body]
      <3>1. given.body = rpc[c].body /\ given.id = IdOf[c]
            /\ late' = late \cup {given}
        BY <2>3
      <3>. HIDE DEF given
      <3>2. Current(rpc[c].body, IdOf[c])
        BY <2>3 DEF GiveUp, ReplacedInv, SuccessInv, CallReplaces, Writes
      <3>3. \A m \in late' : Current(m.body, m.id)
        BY <2>1, <3>1, <3>2
      <3>. QED
        BY <3>3 DEF LateReplaces, Current, SameDefinition
    <2>. QED
      BY <2>2, <2>3 DEF GiveUp
  <1>. QED
    BY <1>1, FinishReplaces DEF GiveUp

LEMMA ServeReplaces ==
    ASSUME ReplacedInv, NEW c \in Callers, Serve(c)
    PROVE  SuccessInv'
  <1>. DEFINE r == rpc[c]
              reply == ReplyTo(IdOf[c], r.op)
              found == IF r.op = "load" THEN schedule[IdOf[c]] ELSE None
              s == [r EXCEPT !.reply = reply, !.found = found]
  <1>1. pc[c] = "calling" /\ r \in Requests /\ IdOf[c] \in Ids
        /\ UNCHANGED <<heap, pc, filled, late, timeouts, interventions>>
    BY DefinitionTyped DEF Serve, ReplacedInv, TypeInv, CallerRight
  <1>2. r.op \in Writes => r.body \in Schedules /\ Current(r.body, IdOf[c])
    BY <1>1 DEF ReplacedInv, SuccessInv, CallReplaces, TypeInv, CallerRight,
                Requests, Writes
  <1>3. /\ \A i \in Ids : Replaced(i) => Replaced(i)'
        /\ (r.op \in Writes /\ reply = "ok") => Replaced(IdOf[c])'
    BY <1>1, <1>2, EffectReplaces
       DEF Serve, ReplacedInv, TypeInv, ClusterTypes
  <1>4. rpc' = [rpc EXCEPT ![c] = s]
    BY DEF Serve
  <1>. HIDE DEF reply, found, s, r
  <1>5. s.op = r.op /\ s.body = r.body /\ s.reply = reply
    BY <1>1 DEF Requests, s
  <1>6. rpc'[c] = s /\ pc' = pc
        /\ \A d \in Callers \ {c} : rpc'[d] = rpc[d]
    BY <1>1, <1>4 DEF ReplacedInv, TypeInv, CallerTypes
  <1>7. CallReplaces(c)'
    BY <1>1, <1>2, <1>3, <1>5, <1>6
       DEF CallReplaces, Written, Current, SameDefinition
  <1>8. LateReplaces'
    BY <1>1 DEF ReplacedInv, SuccessInv, LateReplaces, Current, SameDefinition
  <1>. QED
    BY <1>1, <1>3, <1>6, <1>7, <1>8, OthersReplace DEF ReplacedInv

LEMMA ServeLateReplaces ==
    ASSUME ReplacedInv, NEW m \in late, ServeLate(m)
    PROVE  SuccessInv'
  <1>1. m.id \in Ids /\ m.body \in Schedules /\ Current(m.body, m.id)
    BY DEF ReplacedInv, TypeInv, ClusterTypes, SuccessInv, LateReplaces
  <1>2. \A i \in Ids : Replaced(i) => Replaced(i)'
    BY <1>1, EffectReplaces DEF ServeLate, ReplacedInv, TypeInv, ClusterTypes
  <1>3. pc' = pc /\ rpc' = rpc /\ interventions' = interventions
        /\ late' = late \ {m}
    BY DEF ServeLate
  <1>4. LateReplaces'
    BY <1>3 DEF ReplacedInv, SuccessInv, LateReplaces, Current, SameDefinition
  <1>5. ASSUME NEW c \in Callers
        PROVE  CallReplaces(c)'
    <2>1. CallReplaces(c) /\ (Replaced(IdOf[c]) => Replaced(IdOf[c])')
      BY <1>2, DefinitionTyped DEF ReplacedInv, SuccessInv
    <2>. QED
      BY <1>3, <2>1 DEF CallReplaces, Written, Current, SameDefinition
  <1>. QED
    BY <1>4, <1>5 DEF SuccessInv

LEMMA InterveneReplaces ==
    ASSUME ReplacedInv, NEW id \in Ids, Intervene(id)
    PROVE  SuccessInv'
  <1>1. pc' = pc /\ rpc' = rpc /\ late' = late /\ interventions' # 0
    BY BoundAssumption
       DEF BoundAssumption, Intervene, ReplacedInv, TypeInv, ClusterTypes
  <1>. QED
    BY <1>1 DEF ReplacedInv, SuccessInv, LateReplaces, CallReplaces, Written,
                Current, SameDefinition

(* Steps before the first request.                                         *)
LEMMA OtherStepsReplace ==
    ASSUME ReplacedInv, NEW c \in Callers,
           Begin(c) \/ FillAction(c) \/ Restart(c)
    PROVE  SuccessInv'
  <1>1. UNCHANGED <<schedule, late, interventions>>
    BY DEF Begin, FillAction, Restart
  <1>2. \A d \in Callers \ {c} : pc'[d] = pc[d] /\ rpc'[d] = rpc[d]
    BY DEF Begin, FillAction, Restart, ReplacedInv, TypeInv, CallerTypes
  <1>3. \/ pc'[c] \in {"start", "fill", "failed"}
        \/ pc'[c] = "calling" /\ rpc'[c] = Request("describe", None)
    BY DEF Begin, FillAction, Restart, ReplacedInv, TypeInv, CallerTypes
  <1>4. CallReplaces(c)'
    BY <1>3 DEF CallReplaces, Written, Writes, Request
  <1>5. LateReplaces'
    BY <1>1 DEF ReplacedInv, SuccessInv, LateReplaces, Current, SameDefinition
  <1>. QED
    BY <1>1, <1>2, <1>4, <1>5, OthersReplace, Unwritten DEF ReplacedInv

LEMMA SuccessInvKept == ReplacedInv /\ [Next]_vars => SuccessInv'
  <1>. SUFFICES ASSUME ReplacedInv, [Next]_vars
                PROVE  SuccessInv'
    OBVIOUS
  <1>1. ASSUME NEW c \in Callers,
               \/ Begin(c) \/ FillAction(c) \/ Receive(c)
               \/ GiveUp(c) \/ Restart(c) \/ Serve(c)
        PROVE  SuccessInv'
    BY <1>1, OtherStepsReplace, ReceiveReplaces, GiveUpReplaces, ServeReplaces
  <1>2. ASSUME NEW m \in late, ServeLate(m)
        PROVE  SuccessInv'
    BY <1>2, ServeLateReplaces
  <1>3. ASSUME NEW id \in Ids, Intervene(id)
        PROVE  SuccessInv'
    BY <1>3, InterveneReplaces
  <1>4. CASE UNCHANGED vars
    BY <1>4 DEF vars, ReplacedInv, SuccessInv, LateReplaces, CallReplaces,
                Written, Replaced, Current, SameDefinition
  <1>. QED
    BY <1>1, <1>2, <1>3, <1>4 DEF Next

LEMMA SuccessInvAtFirst == Init => SuccessInv
  BY DEF Init, SuccessInv, LateReplaces, CallReplaces, Written

(* Left alone by the operator, a schedule for which a call has returned    *)
(* nil exists and follows a present caller, the pause included             *)
(* (workflow.go:330-364), whatever overlaps, times out or arrives late, if *)
(* no two calls are given one Action object.                               *)
THEOREM SuccessReplacesOlderAlways ==
    ASSUME OwnActions
    PROVE  Spec => []SuccessReplacesOlder
  <1>1. Spec => []IInv
    BY DefinitionsKept
  <1>2. Spec => []TypeInv
    BY TypeInvAtFirst, TypeInvKept, PTL DEF Spec
  <1>3. IInv /\ TypeInv /\ SuccessInv /\ [Next]_vars => SuccessInv'
    BY SuccessInvKept DEF ReplacedInv
  <1>4. SuccessInv => SuccessReplacesOlder
    BY DefinitionTyped
       DEF SuccessInv, CallReplaces, Written, Replaced, Current,
           SuccessReplacesOlder
  <1>. QED
    BY <1>1, <1>2, <1>3, <1>4, SuccessInvAtFirst, PTL DEF Spec
=============================================================================
