-------------------------- MODULE WorkerRunProofs --------------------------
(***************************************************************************)
(* Theorems about WorkerRun, for every list of registerables, and what a   *)
(* module that extends WorkerRun needs for its own: the invariant holds    *)
(* before the worker is run, its steps keep it, and the end of the process *)
(* restores it.                                                            *)
(***************************************************************************)
EXTENDS WorkerRun, TLAPS

(* Where Run is says what is registered, polling and returned; and nothing *)
(* is interrupted unless the context is done.                              *)
WorkerInv ==
    /\ WorkerTypeOK
    /\ run \in {"arm", "start", "wait"} => registered = Len(Registerables)
    /\ polling => run = "wait"
    /\ run \in {"register", "arm", "start", "wait"} => result = "none"
    /\ run \in {"stop", "returned"} => result # "none"
    /\ afterFunc \in {"started", "ended"} => cancelled
    /\ interrupted => cancelled
    /\ result = "nil" => cancelled

LEMMA NoneIsACount == 0 \in 0..Len(Registerables)
  BY RegisterablesAssumption DEF RegisterablesAssumption

LEMMA WorkerInvAtFirst == NoWorker => WorkerInv
  BY NoneIsACount, Zenon DEF NoWorker, WorkerInv, WorkerTypeOK

LEMMA WorkerInvAfterProcess == ProcessGone => WorkerInv'
  BY NoneIsACount, Zenon DEF ProcessGone, WorkerInv, WorkerTypeOK

(* Each step of the worker, or of those around it, keeps the invariant.    *)
LEMMA WorkerInvKept == WorkerInv /\ [WorkerNext]_workerVars => WorkerInv'
  <1>. SUFFICES ASSUME WorkerInv, [WorkerNext]_workerVars
                PROVE  WorkerInv'
    OBVIOUS
  <1>1. CASE CallRun
    BY <1>1, NoneIsACount, Zenon DEF CallRun, WorkerInv, WorkerTypeOK
  <1>2. CASE Register
    <2>1. CASE registered < Len(Registerables)
      BY <1>2, <2>1, RegisterablesAssumption
         DEF RegisterablesAssumption, Register, WorkerInv, WorkerTypeOK
    <2>2. CASE ~(registered < Len(Registerables))
      BY <1>2, <2>2, RegisterablesAssumption
         DEF RegisterablesAssumption, Register, WorkerInv, WorkerTypeOK
    <2>. QED
      BY <2>1, <2>2
  <1>3. CASE Arm
    BY <1>3 DEF Arm, WorkerInv, WorkerTypeOK
  <1>4. CASE CloseInterrupt
    BY <1>4 DEF CloseInterrupt, WorkerInv, WorkerTypeOK
  <1>5. CASE Start
    BY <1>5, Zenon DEF Start, WorkerInv, WorkerTypeOK
  <1>6. CASE StartFails
    BY <1>6 DEF StartFails, WorkerInv, WorkerTypeOK
  <1>7. CASE Interrupted
    BY <1>7, Zenon DEF Interrupted, WorkerInv, WorkerTypeOK
  <1>8. CASE Fatal
    BY <1>8, Zenon DEF Fatal, WorkerInv, WorkerTypeOK
  <1>9. CASE Stop
    BY <1>9 DEF Stop, WorkerInv, WorkerTypeOK
  <1>10. CASE Cancel
    BY <1>10 DEF Cancel, WorkerInv, WorkerTypeOK
  <1>11. CASE UNCHANGED workerVars
    BY <1>11 DEF workerVars, WorkerInv, WorkerTypeOK
  <1>. QED
    BY <1>1, <1>2, <1>3, <1>4, <1>5, <1>6, <1>7, <1>8,
       <1>9, <1>10, <1>11
       DEF WorkerNext, RunStep, WorkerFails

LEMMA WorkerInvGives == WorkerInv => WorkerTypeOK /\ PollsFullyRegistered
  BY DEF WorkerInv, WorkerTypeOK, PollsFullyRegistered

-----------------------------------------------------------------------------
LEMMA WorkerInvAlways == WorkerSpec => []WorkerInv
  <1>1. NoWorker => WorkerInv
    BY WorkerInvAtFirst
  <1>2. WorkerInv /\ [WorkerNext]_workerVars => WorkerInv'
    BY WorkerInvKept
  <1>. QED
    BY <1>1, <1>2, PTL DEF WorkerSpec

(* Worker.Run lets the SDK worker take tasks only when Register has gone   *)
(* through the whole list, and returns nil only after its context is done, *)
(* run as often as may be and cancelled at any point (worker.go:101-119).  *)
THEOREM PollsFullyRegisteredAlways == WorkerSpec => []PollsFullyRegistered
  <1>1. WorkerInv => PollsFullyRegistered
    BY WorkerInvGives
  <1>. QED
    BY <1>1, WorkerInvAlways, PTL
=============================================================================
