--------------------------- MODULE WorkerContract ---------------------------
(***************************************************************************)
(* What NewWorker promises, without saying how: it answers every call, and *)
(* it says "ok" exactly when the implementations are those that the queue  *)
(* and the Nexus services ask for.  Acceptable speaks of SETS of positions *)
(* of the list: with one Service object per service name, the order of     *)
(* the registerables and of Go's map iterations has no say in the answer.  *)
(***************************************************************************)
EXTENDS Naturals, Sequences

CONSTANTS QueueName, ServiceName, Names, Unconvertible, Undeclared

VARIABLES declared, operations, phase, queue, regs, outcome

request == <<queue, regs>>
vars == <<declared, operations, phase, request, outcome>>

(* Positions of the list that hold registerables of a kind.                *)
At(rs, kind) == {j \in DOMAIN rs : rs[j].kind = kind}

ForService(rs, kind, n) ==
    {j \in At(rs, kind) : ServiceName[rs[j].owner] = n}

NamesAt(rs, P) == {rs[j].name : j \in P}

NoDuplicate(rs, P) == \A j, l \in P : rs[j].name = rs[l].name => j = l

(* One implementation for every name declared on the queue, no other.      *)
QueueServed(q, rs) ==
    \A kind \in {"activity", "workflow"} :
        LET P == At(rs, kind)
        IN  /\ \A j \in P : QueueName[rs[j].owner] = QueueName[q]
            /\ NoDuplicate(rs, P)
            /\ NamesAt(rs, P) =
                  {n \in Names : declared[kind][q][n] # Undeclared}

(* A service comes as one bundle, or as all of its operations, or not at   *)
(* all.                                                                    *)
ServiceServed(rs, n) ==
    LET B == ForService(rs, "service", n)
        P == ForService(rs, "operation", n)
    IN  /\ \A j, l \in B : j = l
        /\ B = {} \/ P = {}
        /\ NoDuplicate(rs, P)
        /\ NamesAt(rs, P) \cap Unconvertible = {}
        /\ \A j \in P : NamesAt(rs, P) = operations[rs[j].owner]

Acceptable(q, rs) ==
    /\ QueueServed(q, rs)
    /\ \A s \in DOMAIN ServiceName : ServiceServed(rs, ServiceName[s])

Init ==
    /\ phase = "idle"
    /\ outcome = "none"

(* Declarations, between calls.                                            *)
Prepare ==
    /\ phase = "idle"
    /\ UNCHANGED <<phase, request, outcome>>

Call ==
    /\ phase = "idle"
    /\ phase' = "called"
    /\ UNCHANGED <<declared, operations, outcome>>

Answer ==
    /\ phase = "called"
    /\ phase' = "returned"
    /\ outcome' = IF Acceptable(queue, regs) THEN "ok" ELSE "error"
    /\ UNCHANGED <<declared, operations, request>>

Leave ==
    /\ phase = "returned"
    /\ phase' = "idle"
    /\ outcome' = "none"
    /\ UNCHANGED <<declared, operations>>

Next == Prepare \/ Call \/ Answer \/ Leave

Spec == Init /\ [][Next]_vars /\ WF_vars(Answer)
=============================================================================
