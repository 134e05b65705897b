----------------------------- MODULE WorkerRun -----------------------------
(***************************************************************************)
(* Worker.Register and Worker.Run (worker.go): one call of Run at a time,  *)
(* on a worker that NewWorker accepted.  Three parties meet: the goroutine *)
(* in Run, the goroutine that context.AfterFunc starts once the context is *)
(* done, and whoever cancels the context.  The SDK worker and the context  *)
(* package are external.                                                   *)
(***************************************************************************)
EXTENDS Naturals, Sequences

CONSTANT Registerables      \* the worker's list, the built bundles included

ASSUME RegisterablesAssumption ==
    /\ Len(Registerables) \in Nat
    /\ Registerables = [j \in 1..Len(Registerables) |-> Registerables[j]]

VARIABLES
    run,            \* where Run is
    registered,     \* how many registerables the SDK worker has
    afterFunc,      \* the function given to context.AfterFunc
    interrupted,    \* interruptCh is closed
    cancelled,      \* the context is done
    polling,        \* the SDK worker takes tasks
    result          \* what Run returned

workerVars ==
    <<run, registered, afterFunc, interrupted, cancelled, polling, result>>

(* Before Run is called, and what a process that is gone leaves.           *)
NoWorker ==
    /\ run = "idle"
    /\ registered = 0
    /\ afterFunc = "none"
    /\ interrupted = FALSE
    /\ cancelled = FALSE
    /\ polling = FALSE
    /\ result = "none"

ProcessGone ==
    /\ run' = "idle"
    /\ registered' = 0
    /\ afterFunc' = "none"
    /\ interrupted' = FALSE
    /\ cancelled' = FALSE
    /\ polling' = FALSE
    /\ result' = "none"

-----------------------------------------------------------------------------
(* Run is called, with a context of its own, and makes an SDK worker.      *)
CallRun ==
    /\ run \in {"idle", "returned"}
    /\ run' = "register"
    /\ registered' = 0
    /\ afterFunc' = "none"
    /\ interrupted' = FALSE
    /\ cancelled' = FALSE
    /\ result' = "none"
    /\ UNCHANGED polling

(* Variant: the loop leaves out the last entry.                            *)
RegisterAllButLast ==
    /\ run = "register"
    /\ IF registered + 1 < Len(Registerables)
       THEN registered' = registered + 1 /\ UNCHANGED run
       ELSE run' = "arm" /\ UNCHANGED registered
    /\ UNCHANGED <<afterFunc, interrupted, cancelled, polling, result>>

(* One round of the loop in Register, or its end.                          *)
Register ==
    /\ run = "register"
    /\ IF registered < Len(Registerables)
       THEN registered' = registered + 1 /\ UNCHANGED run
       ELSE run' = "arm" /\ UNCHANGED registered
    /\ UNCHANGED <<afterFunc, interrupted, cancelled, polling, result>>

(* Variant: a context that is already done is not noticed.                 *)
ArmForLater ==
    /\ run = "arm"
    /\ run' = "start"
    /\ afterFunc' = "armed"
    /\ UNCHANGED <<registered, interrupted, cancelled, polling, result>>

(* context.AfterFunc: a context that is already done runs the function     *)
(* at once, in its own goroutine.                                          *)
Arm ==
    /\ run = "arm"
    /\ run' = "start"
    /\ afterFunc' = IF cancelled THEN "started" ELSE "armed"
    /\ UNCHANGED <<registered, interrupted, cancelled, polling, result>>

(* That goroutine closes the channel.                                      *)
CloseInterrupt ==
    /\ afterFunc = "started"
    /\ afterFunc' = "ended"
    /\ interrupted' = TRUE
    /\ UNCHANGED <<run, registered, cancelled, polling, result>>

(* wrk.Run starts the pollers, whatever became of the context meanwhile,   *)
Start ==
    /\ run = "start"
    /\ run' = "wait"
    /\ polling' = TRUE
    /\ UNCHANGED <<registered, afterFunc, interrupted, cancelled, result>>

(* or returns the error that keeps it from starting.                       *)
StartFails ==
    /\ run = "start"
    /\ run' = "stop"
    /\ result' = "error"
    /\ UNCHANGED <<registered, afterFunc, interrupted, cancelled, polling>>

(* It then waits for the channel or for a fatal error, and stops.          *)
Interrupted ==
    /\ run = "wait"
    /\ interrupted
    /\ run' = "stop"
    /\ polling' = FALSE
    /\ result' = "nil"
    /\ UNCHANGED <<registered, afterFunc, interrupted, cancelled>>

Fatal ==
    /\ run = "wait"
    /\ run' = "stop"
    /\ polling' = FALSE
    /\ result' = "error"
    /\ UNCHANGED <<registered, afterFunc, interrupted, cancelled>>

(* The deferred stop(): too late for a function that has started.          *)
Stop ==
    /\ run = "stop"
    /\ run' = "returned"
    /\ afterFunc' = IF afterFunc = "armed" THEN "stopped" ELSE afterFunc
    /\ UNCHANGED <<registered, interrupted, cancelled, polling, result>>

(* The caller's own side: the context is cancelled, at any time.           *)
Cancel ==
    /\ run \notin {"idle", "returned"}
    /\ ~cancelled
    /\ cancelled' = TRUE
    /\ afterFunc' = IF afterFunc = "armed" THEN "started" ELSE afterFunc
    /\ UNCHANGED <<run, registered, interrupted, polling, result>>

-----------------------------------------------------------------------------
(* The goroutine in Run, and what may go wrong in the SDK worker.          *)
RunStep == Register \/ Arm \/ Start \/ Interrupted \/ Stop

WorkerFails == StartFails \/ Fatal

WorkerNext == CallRun \/ RunStep \/ CloseInterrupt \/ WorkerFails \/ Cancel

(* Both goroutines run on.                                                 *)
WorkerSpec ==
    /\ NoWorker
    /\ [][WorkerNext]_workerVars
    /\ WF_workerVars(RunStep)
    /\ WF_workerVars(CloseInterrupt)

-----------------------------------------------------------------------------
WorkerTypeOK ==
    /\ run \in {"idle", "register", "arm", "start", "wait", "stop", "returned"}
    /\ registered \in 0..Len(Registerables)
    /\ afterFunc \in {"none", "armed", "started", "ended", "stopped"}
    /\ interrupted \in BOOLEAN
    /\ cancelled \in BOOLEAN
    /\ polling \in BOOLEAN
    /\ result \in {"none", "nil", "error"}

(* A worker takes no task before everything it was accepted with is        *)
(* registered, and none once Run has an answer, wherever the context was   *)
(* cancelled; and Run answers nil only because it was (worker.go:108-119,  *)
(* README.md:97).                                                          *)
PollsFullyRegistered ==
    /\ polling => registered = Len(Registerables) /\ result = "none"
    /\ result = "nil" => cancelled

(* Cancelling the context makes Run return, whether that happens before    *)
(* AfterFunc, before the SDK worker starts, while it runs or as it fails   *)
(* by itself (worker.go:107, 113-118).                                     *)
CancelStopsWorker == cancelled ~> (run \in {"idle", "returned"})
=============================================================================
