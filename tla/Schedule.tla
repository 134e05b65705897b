------------------------------ MODULE Schedule ------------------------------
(***************************************************************************)
(* Workflow.SetSchedule (workflow.go): the replicas of a program bring a   *)
(* schedule on the Temporal cluster in line with the definition in their   *)
(* code when they start.  The call is Describe, then Create or Update, and *)
(* the SDK's Update is itself a read, the DoUpdate callback and a write of *)
(* the whole schedule: nothing ties the steps together.                    *)
(*                                                                         *)
(* The cluster, the network and the SDK's schedule handle are external,    *)
(* modelled from how setSchedule uses them.  A caller can give up on a     *)
(* call whose effect still comes, and starts again after an error: a       *)
(* process that fails at startup is restarted.                             *)
(***************************************************************************)
EXTENDS Naturals, Sequences, FiniteSets

CONSTANTS
    Callers,        \* calls of SetSchedule, one per replica and schedule
    Ids,            \* schedule ids
    IdOf,           \* opts.ID of each caller
    DefinitionOf,   \* the schedule each caller asks for
    Pointers,       \* ScheduleWorkflowAction objects
    PointerOf,      \* opts.Action of each caller (a fresh object if nil)
    NotAnAction,    \* an opts.Action of another type
    Blank,          \* a field of an Action nobody has set
    Existing,       \* schedules the cluster may hold before
    None,           \* no schedule, no request
    Notes,          \* notes an operator may write
    MaxTimeouts,    \* bound: calls given up
    MaxInterventions \* bound: what the operator does

ActionFields == <<"workflow", "taskQueue", "args">>

FieldNames == {ActionFields[f] : f \in DOMAIN ActionFields}

Actions == [FieldNames -> {Blank} \cup
              UNION {{DefinitionOf[c].action[f] : f \in FieldNames} :
                       c \in Callers}]

Values(field) ==
    {d[field] : d \in {DefinitionOf[c] : c \in Callers} \cup Existing}

(* What a definition and the cluster's record of a schedule consist of.    *)
Schedules ==
    [action : Actions \cup Values("action"), spec : Values("spec"),
     policy : Values("policy"), paused : BOOLEAN,
     note : Values("note") \cup Notes]

ASSUME DefinitionAssumption ==
    /\ IdOf \in [Callers -> Ids]
    /\ PointerOf \in [Callers -> Pointers \cup {NotAnAction}]
    /\ NotAnAction \notin Pointers
    /\ \A d \in {DefinitionOf[c] : c \in Callers} \cup Existing :
          /\ d \in Schedules
          /\ d.action = [f \in FieldNames |-> d.action[f]]
    /\ None \notin Schedules

ASSUME BoundAssumption == MaxTimeouts \in Nat /\ MaxInterventions \in Nat

VARIABLES
    schedule,       \* the cluster: id -> schedule or None
    heap,           \* the Action objects: pointer -> fields
    pc,             \* where each caller is
    filled,         \* how many fields of its Action it has set
    rpc,            \* its request to the cluster, with the reply
    late,           \* requests given up that still travel
    timeouts, interventions

vars == <<schedule, heap, pc, filled, rpc, late, timeouts, interventions>>

Operations == {"describe", "create", "load", "update"}
Replies == {"none", "ok", "not_found", "exists"}

Request(op, body) ==
    [op |-> op, body |-> body, reply |-> "none", found |-> None]

Init ==
    /\ schedule \in [Ids -> Existing \cup {None}]
    /\ heap = [p \in Pointers |-> [f \in FieldNames |-> Blank]]
    /\ pc = [c \in Callers |-> "start"]
    /\ filled = [c \in Callers |-> 0]
    /\ rpc = [c \in Callers |-> None]
    /\ late = {}
    /\ timeouts = 0
    /\ interventions = 0

-----------------------------------------------------------------------------
(***************************************************************************)
(* setSchedule.                                                            *)
(***************************************************************************)

(* An Action of another type is an error before anything else.             *)
Begin(c) ==
    /\ pc[c] = "start"
    /\ pc' = [pc EXCEPT ![c] = IF PointerOf[c] = NotAnAction
                               THEN "failed" ELSE "fill"]
    /\ filled' = [filled EXCEPT ![c] = 0]
    /\ UNCHANGED <<schedule, heap, rpc, late, timeouts, interventions>>

(* Variant: the schedule is described before the Action is complete.       *)
FillActionTooLate(c) ==
    LET f == ActionFields[filled[c] + 1]
    IN  /\ pc[c] = "fill"
        /\ heap' = [heap EXCEPT ![PointerOf[c]][f] = DefinitionOf[c].action[f]]
        /\ filled' = [filled EXCEPT ![c] = @ + 1]
        /\ pc' = [pc EXCEPT ![c] = "calling"]
        /\ rpc' = [rpc EXCEPT ![c] = Request("describe", None)]
        /\ UNCHANGED <<schedule, late, timeouts, interventions>>

(* The caller's own object is written to, one field after the other, with  *)
(* no lock; then the schedule is described.                                *)
FillAction(c) ==
    LET f == ActionFields[filled[c] + 1]
    IN  /\ pc[c] = "fill"
        /\ heap' = [heap EXCEPT ![PointerOf[c]][f] = DefinitionOf[c].action[f]]
        /\ filled' = [filled EXCEPT ![c] = @ + 1]
        /\ IF filled'[c] = Len(ActionFields)
           THEN /\ pc' = [pc EXCEPT ![c] = "calling"]
                /\ rpc' = [rpc EXCEPT ![c] = Request("describe", None)]
           ELSE UNCHANGED <<pc, rpc>>
        /\ UNCHANGED <<schedule, late, timeouts, interventions>>

(* The schedule that Create sends: all of opts, with the Action as it is   *)
(* in memory now.                                                          *)
NewSchedule(c) == [DefinitionOf[c] EXCEPT !.action = heap[PointerOf[c]]]

(* Variant: the policies are forgotten.                                    *)
DoUpdateWithoutPolicy(c, found) ==
    [found EXCEPT !.action = heap[PointerOf[c]],
                  !.spec = DefinitionOf[c].spec,
                  !.paused = DefinitionOf[c].paused]

(* Variant: opts.Paused is forgotten.                                      *)
DoUpdateWithoutPause(c, found) ==
    [found EXCEPT !.action = heap[PointerOf[c]],
                  !.spec = DefinitionOf[c].spec,
                  !.policy = DefinitionOf[c].policy]

(* The DoUpdate callback: four fields of what the SDK has read are         *)
(* replaced, the others go back to the cluster as they were read.          *)
DoUpdate(c, found) ==
    [found EXCEPT !.action = heap[PointerOf[c]],
                  !.spec = DefinitionOf[c].spec,
                  !.paused = DefinitionOf[c].paused,
                  !.policy = DefinitionOf[c].policy]

Finish(c, result) ==
    /\ pc' = [pc EXCEPT ![c] = result]
    /\ rpc' = [rpc EXCEPT ![c] = None]

Send(c, request) ==
    /\ rpc' = [rpc EXCEPT ![c] = request]
    /\ UNCHANGED pc

Answered(c, op, reply) ==
    /\ pc[c] = "calling"
    /\ rpc[c].op = op
    /\ rpc[c].reply = reply
    /\ UNCHANGED <<schedule, heap, filled, late, timeouts, interventions>>

(* Variant: a schedule that is not there is an error like any other.       *)
DescribeOrFail(c) ==
    \/ Answered(c, "describe", "ok") /\ Send(c, Request("load", None))
    \/ Answered(c, "describe", "not_found") /\ Finish(c, "failed")

(* Describe: NotFound alone leads to Create.                               *)
AfterDescribe(c) ==
    \/ Answered(c, "describe", "ok") /\ Send(c, Request("load", None))
    \/ /\ Answered(c, "describe", "not_found")
       /\ Send(c, Request("create", NewSchedule(c)))

(* Create: "already exists" is an error, whoever made the schedule.        *)
AfterCreate(c) ==
    \/ Answered(c, "create", "ok") /\ Finish(c, "done")
    \/ Answered(c, "create", "exists") /\ Finish(c, "failed")

(* The first half of the SDK's Update: read, then call DoUpdate.           *)
AfterLoad(c) ==
    \/ /\ Answered(c, "load", "ok")
       /\ Send(c, Request("update", DoUpdate(c, rpc[c].found)))
    \/ Answered(c, "load", "not_found") /\ Finish(c, "failed")

(* The second half: write.                                                 *)
AfterUpdate(c) ==
    \/ Answered(c, "update", "ok") /\ Finish(c, "done")
    \/ Answered(c, "update", "not_found") /\ Finish(c, "failed")

Receive(c) ==
    AfterDescribe(c) \/ AfterCreate(c) \/ AfterLoad(c) \/ AfterUpdate(c)

(* A call times out, or the cluster answers with another error: SetSchedule*)
(* returns it.  A write still under way may be lost or come later.         *)
GiveUp(c) ==
    /\ pc[c] = "calling"
    /\ timeouts < MaxTimeouts
    /\ timeouts' = timeouts + 1
    /\ Finish(c, "failed")
    /\ \/ UNCHANGED late
       \/ /\ rpc[c].reply = "none"
          /\ rpc[c].op \in {"create", "update"}
          /\ late' = late \cup {[id |-> IdOf[c], op |-> rpc[c].op,
                                 body |-> rpc[c].body]}
    /\ UNCHANGED <<schedule, heap, filled, interventions>>

(* The process that failed is started again.                               *)
Restart(c) ==
    /\ pc[c] = "failed"
    /\ pc' = [pc EXCEPT ![c] = "start"]
    /\ UNCHANGED <<schedule, heap, filled, rpc, late, timeouts, interventions>>

-----------------------------------------------------------------------------
(***************************************************************************)
(* The cluster and its operator (external).                                *)
(***************************************************************************)

ReplyTo(id, op) ==
    CASE op = "create" -> IF schedule[id] = None THEN "ok" ELSE "exists"
      [] OTHER -> IF schedule[id] = None THEN "not_found" ELSE "ok"

Effect(id, op, body) ==
    schedule' = IF op \in {"create", "update"} /\ ReplyTo(id, op) = "ok"
                THEN [schedule EXCEPT ![id] = body] ELSE schedule

Serve(c) ==
    /\ pc[c] = "calling"
    /\ rpc[c].reply = "none"
    /\ Effect(IdOf[c], rpc[c].op, rpc[c].body)
    /\ rpc' = [rpc EXCEPT
                  ![c].reply = ReplyTo(IdOf[c], rpc[c].op),
                  ![c].found = IF rpc[c].op = "load"
                               THEN schedule[IdOf[c]] ELSE None]
    /\ UNCHANGED <<heap, pc, filled, late, timeouts, interventions>>

ServeLate(m) ==
    /\ late' = late \ {m}
    /\ Effect(m.id, m.op, m.body)
    /\ UNCHANGED <<heap, pc, filled, rpc, timeouts, interventions>>

Intervene(id) ==
    /\ schedule[id] # None
    /\ interventions < MaxInterventions
    /\ interventions' = interventions + 1
    /\ \/ \E n \in Notes : schedule' = [schedule EXCEPT ![id].note = n]
       \/ schedule' = [schedule EXCEPT ![id].paused = ~@]
       \/ schedule' = [schedule EXCEPT ![id] = None]
    /\ UNCHANGED <<heap, pc, filled, rpc, late, timeouts>>

-----------------------------------------------------------------------------
(* Nothing is left to do once every caller is done and nothing travels.    *)
Next ==
    \/ \E c \in Callers : \/ Begin(c)
                          \/ FillAction(c)
                          \/ Receive(c)
                          \/ GiveUp(c)
                          \/ Restart(c)
                          \/ Serve(c)
    \/ \E m \in late : ServeLate(m)
    \/ \E id \in Ids : Intervene(id)

(* The caller's code runs on, the cluster answers what is not given up,    *)
(* and a failed process is restarted.  Nothing makes a late request come   *)
(* or an operator act.                                                     *)
Fairness ==
    \A c \in Callers : /\ WF_vars(Begin(c))
                       /\ WF_vars(FillAction(c))
                       /\ WF_vars(Receive(c))
                       /\ WF_vars(Serve(c))
                       /\ WF_vars(Restart(c))

Spec == Init /\ [][Next]_vars /\ Fairness

-----------------------------------------------------------------------------
Requests ==
    [op : Operations, body : Schedules \cup {None},
     reply : Replies, found : Schedules \cup {None}]

TypeOK ==
    /\ schedule \in [Ids -> Schedules \cup {None}]
    /\ heap \in [Pointers -> Actions]
    /\ pc \in [Callers -> {"start", "fill", "calling", "done", "failed"}]
    /\ filled \in [Callers -> 0..Len(ActionFields)]
    /\ rpc \in [Callers -> Requests \cup {None}]
    /\ \A c \in Callers :
          IF pc[c] = "calling"
          THEN /\ rpc[c] \in Requests
               /\ rpc[c].op \in {"create", "update"} => rpc[c].body # None
               /\ (rpc[c].op = "load" /\ rpc[c].reply = "ok")
                     => rpc[c].found # None
               /\ filled[c] = Len(ActionFields)
          ELSE rpc[c] = None
    /\ late \subseteq [id : Ids, op : {"create", "update"}, body : Schedules]
    /\ timeouts \in 0..MaxTimeouts /\ interventions \in 0..MaxInterventions

(* What SetSchedule manages on a schedule, but for the pause an operator   *)
(* may also set.                                                           *)
SameDefinition(s, d) ==
    s.action = d.action /\ s.spec = d.spec /\ s.policy = d.policy

CallersOf(id) == {c \in Callers : IdOf[c] = id}

(* No two calls are given one Action object.                               *)
OwnActions ==
    \A c, d \in Callers :
        PointerOf[c] = PointerOf[d] => c = d \/ PointerOf[c] = NotAnAction

(* Whatever calls overlap, are given up or arrive late, the cluster never  *)
(* holds a mixture of two definitions: action, spec and policies are those *)
(* of one caller or of one earlier deployment (workflow.go:337, 345-360).  *)
(* It takes an Action object per caller.                                   *)
ScheduleIsOneDefinition ==
    \A id \in Ids :
        schedule[id] # None =>
            \E d \in Existing \cup {DefinitionOf[c] : c \in CallersOf(id)} :
                SameDefinition(schedule[id], d)

(* Once a call has returned nil the definition of an earlier deployment is *)
(* gone for good: left alone by the operator, the schedule exists and      *)
(* follows a present caller, the pause included (workflow.go:330-364).     *)
SuccessReplacesOlder ==
    \A c \in Callers :
        (pc[c] = "done" /\ interventions = 0) =>
            LET s == schedule[IdOf[c]]
            IN  /\ s # None
                /\ \E d \in CallersOf(IdOf[c]) :
                      /\ SameDefinition(s, DefinitionOf[d])
                      /\ s.paused = DefinitionOf[d].paused

(* Calling again after an error is enough: whatever races with a call or   *)
(* is given up, every caller with an Action of the right type ends with    *)
(* nil (workflow.go:330-364).                                              *)
EventuallyDone ==
    \A c \in Callers :
        PointerOf[c] # NotAnAction => <>[](pc[c] = "done")

-----------------------------------------------------------------------------
(***************************************************************************)
(* What the repository's texts say and the code does not keep: each has a  *)
(* run of its own that finds it violated.                                  *)
(***************************************************************************)

(* Setting a schedule at startup works when nothing is wrong.  Two         *)
(* replicas that both find no schedule both create it, and one gets an     *)
(* error (workflow.go:330-340).                                            *)
StartupSucceeds ==
    \A c \in Callers :
        (PointerOf[c] # NotAnAction /\ timeouts = 0 /\ interventions = 0)
            => pc[c] # "failed"

(* A schedule starts its workflow with that workflow's arguments.  The     *)
(* caller's Action object is written to in place, so two calls given one   *)
(* object mix their fields (workflow.go:321-328).                          *)
ArgumentsMatchWorkflow ==
    \A id \in Ids :
        schedule[id] # None =>
            schedule[id].action \in
                {d.action : d \in Existing \cup
                                  {DefinitionOf[c] : c \in Callers}}

(* A call that returns nil leaves the schedule as defined, the note        *)
(* included.  DoUpdate passes the old note on (workflow.go:346-358).       *)
SuccessMatchesDefinition ==
    \A c \in Callers :
        (pc[c] = "done" /\ interventions = 0) =>
            \E d \in CallersOf(IdOf[c]) :
                schedule[IdOf[c]] = DefinitionOf[d]
=============================================================================
