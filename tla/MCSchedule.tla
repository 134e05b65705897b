----------------------------- MODULE MCSchedule -----------------------------
(* Instances of Schedule for TLC.                                          *)
EXTENDS Schedule

CONSTANTS c1, c2, c3, p1, p2

Action(w) == [workflow |-> w, taskQueue |-> "tasks", args |-> w]

Definition(w, version, pause, n) ==
    [action |-> Action(w), spec |-> version, policy |-> version,
     paused |-> pause, note |-> n]

(* What an earlier deployment left behind.                                 *)
Earlier == {Definition("report", "v0", FALSE, "n0")}
Nothing == {}

(* Replicas of two versions of one program, and a caller with a wrong      *)
(* Action.                                                                 *)
OneId == [c \in Callers |-> "daily"]
TwoVersions ==
    [c \in Callers |-> IF c = c1 THEN Definition("report", "v1", FALSE, "n1")
                                 ELSE Definition("digest", "v2", TRUE, "n1")]
OwnPointers ==
    [c \in Callers |->
        IF c = c1 THEN p1 ELSE IF c = c2 THEN p2 ELSE NotAnAction]

(* Replicas of one program.                                                *)
OneVersion == [c \in Callers |-> Definition("report", "v1", FALSE, "n1")]

(* Two schedules of one program, set up at the same time with one Action.  *)
TwoIds == [c \in Callers |-> IF c = c1 THEN "daily" ELSE "weekly"]
TwoWorkflows ==
    [c \in Callers |-> IF c = c1 THEN Definition("report", "v1", FALSE, "n1")
                                 ELSE Definition("digest", "v1", FALSE, "n1")]
SharedPointer == [c \in Callers |-> p1]
=============================================================================
