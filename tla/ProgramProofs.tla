--------------------------- MODULE ProgramProofs ---------------------------
(***************************************************************************)
(* Theorems about Program, for every list of registerables, queue,         *)
(* argument and number of restarts: what becomes of an execution's input   *)
(* and signals while the processes that start it, signal it and run it     *)
(* come and go.                                                            *)
(***************************************************************************)
EXTENDS Program, WorkerRunProofs, SequenceTheorems

SignalRecords == [by : Nat \ {NoSignal}, inTime : BOOLEAN]

Requests ==
    {[queue |-> Queue, input |-> Encode(f, Argument[id])] :
        f \in Forms, id \in Ids}

ExecutionRecords ==
    [id : Ids, by : Nat \ {NoSignal}, request : Requests,
     signals : Seq(SignalRecords),
     status : {"running", "completed", "failed"}, done : 0..4,
     phase : Phases, view : Nat, suffix : Nat]

(* Of an execution: what its tasks have seen is part of what has come; the *)
(* task that reads has seen every signal in time; once it has read, it has *)
(* the first signal of all, or none came in time; and a fixed ID belongs   *)
(* to an execution that had its starter's signal from the start.           *)
SeesWhatCame(x) ==
    /\ x.view \in 0..Len(x.signals)
    /\ x.phase = "closed" <=> x.status # "running"

ReaderSeesAllInTime(x) ==
    x.done <= 2 =>
        /\ x.suffix = NoSignal
        /\ (x.done = 2 /\ x.phase = "running") =>
              \A s \in 1..Len(x.signals) :
                  s > x.view => x.signals[s].inTime = FALSE

ReadTheFirst(x) ==
    x.done > 2 =>
        /\ x.suffix # NoSignal => x.view > 0 /\ x.suffix = x.signals[1].by
        /\ x.suffix = NoSignal =>
              \A s \in 1..Len(x.signals) : x.signals[s].inTime = FALSE

StartedWithSignal(x) ==
    x.id = "fixed" =>
        /\ Len(x.signals) > 0
        /\ x.signals[1].by = x.by
        /\ x.signals[1].inTime = TRUE

Sound ==
    {x \in ExecutionRecords :
        /\ SeesWhatCame(x)
        /\ ReaderSeesAllInTime(x)
        /\ ReadTheFirst(x)
        /\ StartedWithSignal(x)}

MainTypes ==
    /\ process \in {"up", "panicked", "exited"}
    /\ restarts \in 0..MaxRestarts
    /\ at \in 1..9
    /\ moment \in {"call", "check"}
    /\ err \in {"nil", "error"} /\ outcome \in {"nil", "error"}
    /\ goroutine \in {"none", "running", "check", "done"}
    /\ workflow \in [form : Forms, reads : Readers]
    /\ handle \in 0..Len(executions)
    /\ moment = "check" => at < 9

(* A process that is gone leaves nothing to the next.                      *)
NothingLeft == process # "up" => Starting /\ NoWorker

(* main does not go on from an error, so the handle that it uses stands    *)
(* for an execution; the worker cannot take back an error that main has    *)
(* still to look at, because the context is done at the end only.          *)
ErrorStays == (moment = "check" /\ outcome = "error") => err = "error"

HandleStands ==
    /\ at > 2 => handle > 0
    /\ (at = 2 /\ moment = "check" /\ outcome = "nil") => handle > 0

CancelledAtEnd == cancelled => at = 9

ProgramInv ==
    /\ WorkerInv
    /\ MainTypes
    /\ NothingLeft
    /\ ErrorStays
    /\ HandleStands
    /\ CancelledAtEnd
    /\ executions \in Seq(Sound)

-----------------------------------------------------------------------------
(***************************************************************************)
(* Operations on one execution.                                            *)
(***************************************************************************)
LEMMA SelfIsASender ==
  ASSUME MainTypes
  PROVE  Self \in Nat \ {NoSignal}
  BY ProgramAssumption DEF ProgramAssumption, MainTypes, Self, NoSignal

LEMMA SoundHas ==
  ASSUME NEW x \in Sound
  PROVE  /\ x \in ExecutionRecords
         /\ x.signals \in Seq(SignalRecords)
         /\ Len(x.signals) \in Nat
         /\ x.view \in 0..Len(x.signals)
         /\ x.done \in 0..4
  <1>1. x \in ExecutionRecords
    BY DEF Sound
  <1>2. x.signals \in Seq(SignalRecords) /\ x.done \in 0..4
    BY <1>1 DEF ExecutionRecords
  <1>3. Len(x.signals) \in Nat
    BY <1>2
  <1>4. x.view \in 0..Len(x.signals)
    BY DEF Sound, SeesWhatCame
  <1>. QED
    BY <1>1, <1>2, <1>3, <1>4

(* An execution that no task has run is sound, if a fixed ID comes with a  *)
(* signal.                                                                 *)
LEMMA FreshIsSound ==
  ASSUME NEW x \in ExecutionRecords,
         x.status = "running", x.done = 0, x.phase = "due", x.view = 0,
         x.suffix = NoSignal, StartedWithSignal(x)
  PROVE  x \in Sound
  <1>1. x.signals \in Seq(SignalRecords)
    BY DEF ExecutionRecords
  <1>2. Len(x.signals) \in Nat
    BY <1>1
  <1>3. SeesWhatCame(x)
    BY <1>2 DEF SeesWhatCame
  <1>4. ReaderSeesAllInTime(x) /\ ReadTheFirst(x)
    BY DEF ReaderSeesAllInTime, ReadTheFirst
  <1>. QED
    BY <1>3, <1>4 DEF Sound

(* Both starts send one of the forms that are declared.                    *)
LEMMA StartsAreRequests ==
  ASSUME MainTypes
  PROVE  /\ ExecuteRequest \in Requests
         /\ SignalWithStartRequest \in Requests
  <1>1. workflow.form \in Forms
    BY DEF MainTypes
  <1>2. \A id \in Ids :
           [queue |-> Queue, input |-> Encode(workflow.form, Argument[id])]
              \in Requests
    BY <1>1 DEF Requests
  <1>3. SignalWithStartRequest =
           [queue |-> Queue, input |-> Encode(workflow.form, Argument["fixed"])]
    BY Zenon DEF SignalWithStartRequest, Encode
  <1>4. "" \in Ids /\ "fixed" \in Ids
    BY DEF Ids
  <1>5. ExecuteRequest \in Requests
    BY <1>2, <1>4 DEF ExecuteRequest
  <1>6. SignalWithStartRequest \in Requests
    BY <1>2, <1>3, <1>4
  <1>. QED
    BY <1>5, <1>6

(* What Execute starts.                                                    *)
LEMMA ExecutedIsSound ==
  ASSUME MainTypes
  PROVE  NewExecution("", ExecuteRequest, <<>>) \in Sound
  <1>. DEFINE x == NewExecution("", ExecuteRequest, <<>>)
  <1>1. <<>> \in Seq(SignalRecords)
    OBVIOUS
  <1>2. x \in ExecutionRecords
    BY <1>1, SelfIsASender, StartsAreRequests
       DEF ExecutionRecords, NewExecution, Phases, NoSignal, Ids
  <1>3. x.id = "" /\ x.status = "running" /\ x.done = 0 /\ x.phase = "due"
        /\ x.view = 0 /\ x.suffix = NoSignal
    BY DEF NewExecution
  <1>4. StartedWithSignal(x)
    BY <1>3 DEF StartedWithSignal
  <1>. HIDE DEF x
  <1>5. x \in Sound
    BY <1>2, <1>3, <1>4, FreshIsSound
  <1>. QED
    BY <1>5 DEF x

(* What SignalWithStart starts.                                            *)
LEMMA StartedIsSound ==
  ASSUME MainTypes
  PROVE  NewExecution("fixed", SignalWithStartRequest, <<Initial>>) \in Sound
  <1>. DEFINE x == NewExecution("fixed", SignalWithStartRequest, <<Initial>>)
  <1>1. Initial \in SignalRecords
    BY SelfIsASender DEF Initial, SignalRecords
  <1>2. /\ <<Initial>> \in Seq(SignalRecords)
        /\ Len(<<Initial>>) = 1 /\ <<Initial>>[1] = Initial
    BY <1>1
  <1>3. x \in ExecutionRecords
    BY <1>2, SelfIsASender, StartsAreRequests
       DEF ExecutionRecords, NewExecution, Phases, NoSignal, Ids
  <1>4. x.by = Self /\ x.status = "running" /\ x.done = 0 /\ x.phase = "due"
        /\ x.view = 0 /\ x.suffix = NoSignal /\ x.signals = <<Initial>>
    BY DEF NewExecution
  <1>5. Initial.by = Self /\ Initial.inTime = TRUE
    BY DEF Initial
  <1>. HIDE DEF x
  <1>6. StartedWithSignal(x)
    BY <1>2, <1>3, <1>4, <1>5 DEF StartedWithSignal
  <1>7. x \in Sound
    BY <1>3, <1>4, <1>6, FreshIsSound
  <1>. QED
    BY <1>7 DEF x

(* A signal that comes late comes behind the task that reads.              *)
LEMMA SignalledIsSound ==
  ASSUME MainTypes, NEW x \in Sound
  PROVE  Signalled(x) \in Sound
  <1>. DEFINE s == [by |-> Self, inTime |-> InTime(x)]
              y == Signalled(x)
  <1>1. x \in ExecutionRecords /\ x.signals \in Seq(SignalRecords)
    BY DEF Sound, ExecutionRecords
  <1>2. s \in SignalRecords /\ (s.inTime = TRUE <=> InTime(x))
    BY SelfIsASender DEF SignalRecords, InTime
  <1>3. y.signals = Append(x.signals, s)
        /\ y.phase = (IF x.phase = "receiving" THEN "due" ELSE x.phase)
        /\ y.id = x.id /\ y.by = x.by /\ y.request = x.request
        /\ y.status = x.status /\ y.done = x.done /\ y.view = x.view
        /\ y.suffix = x.suffix
    BY <1>1 DEF Signalled, ExecutionRecords
  <1>. HIDE DEF s
  <1>4. Append(x.signals, s) \in Seq(SignalRecords)
    BY <1>1, <1>2
  <1>5. y \in ExecutionRecords
    BY <1>1, <1>4 DEF Signalled, ExecutionRecords, Phases, s
  <1>6. /\ Len(y.signals) = Len(x.signals) + 1
        /\ \A n \in 1..Len(x.signals) : y.signals[n] = x.signals[n]
        /\ y.signals[Len(x.signals) + 1] = s
        /\ DOMAIN x.signals = 1..Len(x.signals)
        /\ DOMAIN y.signals = 1..Len(y.signals)
        /\ Len(x.signals) \in Nat
    BY <1>1, <1>2, <1>3, <1>4
  <1>. HIDE DEF y
  <1>7. SeesWhatCame(y)
    BY <1>3, <1>6 DEF Sound, SeesWhatCame
  <1>8. ReaderSeesAllInTime(y)
    <2>1. ReaderSeesAllInTime(x) /\ x.view \in Nat
      BY <1>1 DEF Sound, ExecutionRecords
    <2>2. CASE y.done = 2 /\ y.phase = "running"
      <3>1. x.done = 2 /\ x.phase = "running"
        BY <1>3, <2>2
      <3>2. s.inTime = FALSE
        <4>1. ~InTime(x)
          BY <3>1 DEF InTime
        <4>. QED
          BY <1>2, <4>1 DEF SignalRecords
      <3>. QED
        BY <1>3, <1>6, <2>1, <3>1, <3>2 DEF ReaderSeesAllInTime
    <2>. QED
      BY <1>3, <2>1, <2>2 DEF ReaderSeesAllInTime
  <1>9. ReadTheFirst(y)
    <2>1. ReadTheFirst(x) /\ SeesWhatCame(x) /\ x.done \in 0..4
          /\ x.view \in Nat
      BY <1>1 DEF Sound, ExecutionRecords
    <2>2. CASE x.done > 2
      <3>1. s.inTime = FALSE
        <4>1. ~InTime(x)
          BY <2>1, <2>2 DEF InTime
        <4>. QED
          BY <1>2, <4>1 DEF SignalRecords
      <3>2. x.suffix # NoSignal => y.signals[1] = x.signals[1]
        BY <1>6, <2>1, <2>2 DEF ReadTheFirst, SeesWhatCame
      <3>. QED
        BY <1>3, <1>6, <2>1, <2>2, <3>1, <3>2 DEF ReadTheFirst
    <2>. QED
      BY <1>3, <2>2 DEF ReadTheFirst
  <1>10. StartedWithSignal(y)
    <2>1. StartedWithSignal(x)
      BY DEF Sound
    <2>2. CASE x.id = "fixed"
      <3>1. 1 \in 1..Len(x.signals)
        BY <1>6, <2>1, <2>2 DEF StartedWithSignal
      <3>2. y.signals[1] = x.signals[1]
        BY <1>6, <3>1
      <3>. QED
        BY <1>3, <1>6, <2>1, <2>2, <3>1, <3>2 DEF StartedWithSignal
    <2>. QED
      BY <1>3, <2>2 DEF StartedWithSignal
  <1>11. y \in Sound
    BY <1>5, <1>7, <1>8, <1>9, <1>10 DEF Sound
  <1>. QED
    BY <1>11 DEF y

(* A change of phase neither hides a signal nor shows one.                 *)
LEMMA RephasedIsSound ==
  ASSUME NEW x \in Sound, x.phase # "closed",
         NEW p \in Phases \ {"running", "closed"}
  PROVE  [x EXCEPT !.phase = p] \in Sound
  <1>. DEFINE y == [x EXCEPT !.phase = p]
  <1>1. x \in ExecutionRecords
    BY DEF Sound
  <1>2. y \in ExecutionRecords
    BY <1>1 DEF ExecutionRecords
  <1>3. y.phase = p /\ y.id = x.id /\ y.by = x.by /\ y.signals = x.signals
        /\ y.status = x.status /\ y.done = x.done /\ y.view = x.view
        /\ y.suffix = x.suffix
    BY <1>1 DEF ExecutionRecords
  <1>. HIDE DEF y
  <1>4. SeesWhatCame(y)
    BY <1>3 DEF Sound, SeesWhatCame
  <1>5. ReaderSeesAllInTime(y)
    BY <1>3 DEF Sound, ReaderSeesAllInTime
  <1>6. ReadTheFirst(y) /\ StartedWithSignal(y)
    BY <1>3 DEF Sound, ReadTheFirst, StartedWithSignal
  <1>7. y \in Sound
    BY <1>2, <1>4, <1>5, <1>6 DEF Sound
  <1>. QED
    BY <1>7 DEF y

(* A task that is handed out shows everything that has come.               *)
LEMMA PolledIsSound ==
  ASSUME NEW x \in Sound, x.phase = "due"
  PROVE  [x EXCEPT !.phase = "running", !.view = Len(x.signals)] \in Sound
  <1>. DEFINE y == [x EXCEPT !.phase = "running", !.view = Len(x.signals)]
  <1>1. x \in ExecutionRecords /\ Len(x.signals) \in Nat
    BY SoundHas
  <1>2. y \in ExecutionRecords
    BY <1>1 DEF ExecutionRecords, Phases
  <1>3. y.phase = "running" /\ y.view = Len(x.signals) /\ y.id = x.id
        /\ y.by = x.by /\ y.signals = x.signals /\ y.status = x.status
        /\ y.done = x.done /\ y.suffix = x.suffix
    BY <1>1 DEF ExecutionRecords
  <1>. HIDE DEF y
  <1>4. SeesWhatCame(y)
    BY <1>1, <1>3 DEF Sound, SeesWhatCame
  <1>5. ReaderSeesAllInTime(y)
    BY <1>1, <1>3 DEF Sound, ReaderSeesAllInTime
  <1>6. ReadTheFirst(y)
    BY <1>1, <1>3 DEF Sound, ReadTheFirst, SeesWhatCame
  <1>7. StartedWithSignal(y)
    BY <1>3 DEF Sound, StartedWithSignal
  <1>8. y \in Sound
    BY <1>2, <1>4, <1>5, <1>6, <1>7 DEF Sound
  <1>. QED
    BY <1>8 DEF y

LEMMA ProceededFields ==
  ASSUME NEW x \in ExecutionRecords, x.done \in 0..3
  PROVE  /\ Proceed(x) \in ExecutionRecords
         /\ Proceed(x).done = x.done + 1
         /\ Proceed(x).phase = "waiting"
         /\ Proceed(x).id = x.id /\ Proceed(x).by = x.by
         /\ Proceed(x).signals = x.signals
         /\ Proceed(x).status = x.status
         /\ Proceed(x).view = x.view
         /\ Proceed(x).suffix = x.suffix
  <1>1. ASSUME NEW d \in 0..4
        PROVE  [x EXCEPT !.done = d, !.phase = "waiting"] \in ExecutionRecords
    BY DEF ExecutionRecords, Phases
  <1>2. x.done + 1 \in 0..4
    OBVIOUS
  <1>3. Proceed(x) = [x EXCEPT !.done = x.done + 1, !.phase = "waiting"]
    BY DEF Proceed
  <1>. QED
    BY <1>1, <1>2, <1>3 DEF ExecutionRecords

(* The task that reads takes the first signal it sees, which is the first  *)
(* of all, or sees none, and then none has come in time.                   *)
LEMMA ReadIsSound ==
  ASSUME NEW x \in Sound, x.phase = "running", x.done = 2
  PROVE  Proceed([x EXCEPT !.suffix = FirstSignal(x)]) \in Sound
  <1>. DEFINE w == [x EXCEPT !.suffix = FirstSignal(x)]
              y == Proceed(w)
  <1>1. x \in ExecutionRecords /\ x.signals \in Seq(SignalRecords)
        /\ Len(x.signals) \in Nat /\ x.view \in 0..Len(x.signals)
    BY SoundHas
  <1>2. FirstSignal(x) \in Nat
        /\ (x.view > 0 => FirstSignal(x) = x.signals[1].by
                          /\ FirstSignal(x) # NoSignal)
        /\ (x.view = 0 => FirstSignal(x) = NoSignal)
    <2>1. CASE x.view > 0
      <3>1. x.signals[1] \in SignalRecords
        BY <1>1, <2>1
      <3>. QED
        BY <2>1, <3>1 DEF FirstSignal, SignalRecords, NoSignal
    <2>2. CASE x.view = 0
      BY <2>2 DEF FirstSignal, NoSignal
    <2>. QED
      BY <1>1, <2>1, <2>2
  <1>3. w \in ExecutionRecords
    BY <1>1, <1>2 DEF ExecutionRecords
  <1>4. w.phase = x.phase /\ w.suffix = FirstSignal(x) /\ w.id = x.id
        /\ w.by = x.by /\ w.signals = x.signals /\ w.status = x.status
        /\ w.done = 2 /\ w.view = x.view
    BY <1>1 DEF ExecutionRecords
  <1>. HIDE DEF w
  <1>5. y \in ExecutionRecords
    BY <1>3, <1>4, ProceededFields
  <1>6. y.phase = "waiting" /\ y.suffix = FirstSignal(x) /\ y.id = x.id
        /\ y.by = x.by /\ y.signals = x.signals /\ y.status = x.status
        /\ y.done = 3 /\ y.view = x.view
    BY <1>3, <1>4, ProceededFields
  <1>. HIDE DEF y
  <1>7. SeesWhatCame(y)
    BY <1>6 DEF Sound, SeesWhatCame
  <1>8. ReaderSeesAllInTime(y)
    BY <1>6 DEF ReaderSeesAllInTime
  <1>9. ReadTheFirst(y)
    <2>1. x.view = 0 => \A s \in 1..Len(x.signals) : x.signals[s].inTime = FALSE
      BY <1>1 DEF Sound, ReaderSeesAllInTime
    <2>. QED
      BY <1>1, <1>2, <1>6, <2>1 DEF ReadTheFirst
  <1>10. StartedWithSignal(y)
    BY <1>6 DEF Sound, StartedWithSignal
  <1>11. y \in Sound
    BY <1>5, <1>7, <1>8, <1>9, <1>10 DEF Sound
  <1>. QED
    BY <1>11 DEF y, w

(* Every other task only goes on.                                          *)
LEMMA ProceededIsSound ==
  ASSUME NEW x \in Sound, x.phase = "running", x.done \notin {2, 4}
  PROVE  Proceed(x) \in Sound
  <1>. DEFINE y == Proceed(x)
  <1>1. x \in ExecutionRecords /\ x.done \in {0, 1, 3}
    BY SoundHas
  <1>2. y \in ExecutionRecords
    BY <1>1, ProceededFields
  <1>3. y.phase = "waiting" /\ y.suffix = x.suffix /\ y.id = x.id
        /\ y.by = x.by /\ y.signals = x.signals /\ y.status = x.status
        /\ y.done = x.done + 1 /\ y.view = x.view
    BY <1>1, ProceededFields
  <1>. HIDE DEF y
  <1>4. SeesWhatCame(y)
    BY <1>3 DEF Sound, SeesWhatCame
  <1>5. ReaderSeesAllInTime(y)
    BY <1>1, <1>3 DEF Sound, ReaderSeesAllInTime
  <1>6. ReadTheFirst(y)
    BY <1>1, <1>3 DEF Sound, ReadTheFirst
  <1>7. StartedWithSignal(y)
    BY <1>3 DEF Sound, StartedWithSignal
  <1>8. y \in Sound
    BY <1>2, <1>4, <1>5, <1>6, <1>7 DEF Sound
  <1>. QED
    BY <1>8 DEF y

LEMMA ClosedIsSound ==
  ASSUME NEW x \in Sound, x.phase = "running",
         NEW status \in {"completed", "failed"}
  PROVE  Close(x, status) \in Sound
  <1>1. CASE Len(x.signals) > x.view
    BY <1>1, RephasedIsSound DEF Close, Phases
  <1>2. CASE ~(Len(x.signals) > x.view)
    <2>. DEFINE y == [x EXCEPT !.status = status, !.phase = "closed"]
    <2>1. x \in ExecutionRecords
      BY DEF Sound
    <2>2. y \in ExecutionRecords
      BY <2>1 DEF ExecutionRecords, Phases
    <2>3. y.phase = "closed" /\ y.suffix = x.suffix /\ y.id = x.id
          /\ y.by = x.by /\ y.signals = x.signals /\ y.status = status
          /\ y.done = x.done /\ y.view = x.view
      BY <2>1 DEF ExecutionRecords
    <2>. HIDE DEF y
    <2>4. SeesWhatCame(y)
      BY <2>3 DEF Sound, SeesWhatCame
    <2>5. ReaderSeesAllInTime(y)
      BY <2>3 DEF Sound, ReaderSeesAllInTime
    <2>6. ReadTheFirst(y) /\ StartedWithSignal(y)
      BY <2>3 DEF Sound, ReadTheFirst, StartedWithSignal
    <2>7. y \in Sound
      BY <2>2, <2>4, <2>5, <2>6 DEF Sound
    <2>. QED
      BY <1>2, <2>7 DEF Close, y
  <1>. QED
    BY <1>1, <1>2

(* A run of the workflow's code, whichever task it is.                     *)
LEMMA AnsweredIsSound ==
  ASSUME NEW x \in Sound, x.phase = "running"
  PROVE  AfterTask(x) \in Sound
  <1>1. x.done \in 0..4
    BY SoundHas
  <1>2. Len(Waits) = 4
    BY DEF Waits
  <1>7. CASE Received(x) = Undecodable
    <2>1. AfterTask(x) = Close(x, "failed")
      BY <1>7 DEF AfterTask
    <2>. QED
      BY <2>1, ClosedIsSound
  <1>3. CASE /\ Received(x) # Undecodable
             /\ x.done = 2 /\ workflow.reads = "receive" /\ x.view = 0
    <2>1. AfterTask(x) = Block(x)
      BY <1>1, <1>2, <1>3 DEF AfterTask, Read
    <2>2. Block(x) \in Sound
      <3>1. CASE Len(x.signals) > x.view
        BY <3>1, RephasedIsSound DEF Block, Phases
      <3>2. CASE ~(Len(x.signals) > x.view)
        BY <3>2, RephasedIsSound DEF Block, Phases
      <3>. QED
        BY <3>1, <3>2
    <2>. QED
      BY <2>1, <2>2
  <1>4. CASE /\ Received(x) # Undecodable
             /\ x.done = 2 /\ ~(workflow.reads = "receive" /\ x.view = 0)
    <2>1. AfterTask(x) = Proceed([x EXCEPT !.suffix = FirstSignal(x)])
      BY <1>1, <1>2, <1>4 DEF AfterTask, Read
    <2>. QED
      BY <1>4, <2>1, ReadIsSound
  <1>5. CASE Received(x) # Undecodable /\ x.done = 4
    <2>1. AfterTask(x) = Close(x, "completed")
      BY <1>1, <1>2, <1>5 DEF AfterTask
    <2>. QED
      BY <2>1, ClosedIsSound
  <1>6. CASE Received(x) # Undecodable /\ x.done \notin {2, 4}
    <2>1. AfterTask(x) = Proceed(x)
      BY <1>1, <1>2, <1>6 DEF AfterTask
    <2>. QED
      BY <1>6, <2>1, ProceededIsSound
  <1>. QED
    BY <1>3, <1>4, <1>5, <1>6, <1>7

-----------------------------------------------------------------------------
(***************************************************************************)
(* Steps.                                                                  *)
(***************************************************************************)
LEMMA ExecutionsAreSound ==
  ASSUME ProgramInv
  PROVE  /\ Len(executions) \in Nat
         /\ DOMAIN executions = 1..Len(executions)
         /\ \A e \in DOMAIN executions : executions[e] \in Sound
  BY DEF ProgramInv

LEMMA ReplacedAreSound ==
  ASSUME ProgramInv, NEW e \in DOMAIN executions, NEW x \in Sound,
         executions' = [executions EXCEPT ![e] = x]
  PROVE  executions' \in Seq(Sound) /\ Len(executions') = Len(executions)
  BY ExceptSeq, ExecutionsAreSound DEF ProgramInv

LEMMA AppendedAreSound ==
  ASSUME ProgramInv, NEW x \in Sound, executions' = Append(executions, x)
  PROVE  /\ executions' \in Seq(Sound)
         /\ Len(executions') = Len(executions) + 1
  BY DEF ProgramInv

LEMMA AbandonedAreSound ==
  ASSUME ProgramInv, executions' = Abandoned
  PROVE  executions' \in Seq(Sound) /\ Len(executions') = Len(executions)
  <1>1. ASSUME NEW e \in DOMAIN executions
        PROVE  Abandoned[e] \in Sound
    <2>1. executions[e] \in Sound
      BY ExecutionsAreSound
    <2>. DEFINE x == executions[e]
                p == IF x.phase = "running" THEN "due" ELSE x.phase
    <2>2. Abandoned[e] = [x EXCEPT !.phase = p]
      BY DEF Abandoned
    <2>3. CASE x.phase = "running"
      BY <2>1, <2>2, <2>3, RephasedIsSound DEF Phases
    <2>4. CASE x.phase # "running"
      <3>1. x \in ExecutionRecords
        BY <2>1, SoundHas
      <3>2. [x EXCEPT !.phase = x.phase] = x
        BY <3>1 DEF ExecutionRecords
      <3>. QED
        BY <2>1, <2>2, <2>4, <3>2
    <2>. QED
      BY <2>3, <2>4
  <1>2. DOMAIN Abandoned = 1..Len(executions)
    BY ExecutionsAreSound DEF Abandoned
  <1>3. Abandoned \in [1..Len(executions) -> Sound]
    BY <1>1, <1>2, ExecutionsAreSound DEF Abandoned
  <1>. QED
    BY <1>3, ExecutionsAreSound

LEMMA WorkerUndisturbed ==
  ASSUME WorkerInv, UNCHANGED workerVars
  PROVE  WorkerInv'
  BY WorkerInvKept

(* What the worker does by itself, it does in a process that is up, and it *)
(* does not cancel its own context.                                        *)
LEMMA WorkerWorks ==
  ASSUME RunStep \/ CloseInterrupt \/ WorkerFails
  PROVE  WorkerNext /\ ~NoWorker /\ cancelled' = cancelled
  <1>1. WorkerNext
    BY DEF WorkerNext
  <1>2. ~NoWorker
    BY DEF RunStep, CloseInterrupt, WorkerFails, NoWorker, Register, Arm,
       Start, Interrupted, Stop, StartFails, Fatal
  <1>3. cancelled' = cancelled
    BY DEF RunStep, CloseInterrupt, WorkerFails, Register, Arm,
       Start, Interrupted, Stop, StartFails, Fatal
  <1>. QED
    BY <1>1, <1>2, <1>3

LEMMA ProgramInvAtFirst == Init => ProgramInv
  <1>. SUFFICES ASSUME Init
                PROVE  ProgramInv
    OBVIOUS
  <1>1. WorkerInv
    BY WorkerInvAtFirst DEF Init
  <1>2. executions \in Seq(Sound) /\ Len(executions) = 0
    BY DEF Init
  <1>3. MainTypes
    BY <1>2, ProgramAssumption DEF ProgramAssumption, Init, Starting, MainTypes
  <1>4. NothingLeft /\ ErrorStays /\ HandleStands
    BY DEF Init, Starting, NothingLeft, ErrorStays, HandleStands
  <1>5. CancelledAtEnd
    BY DEF Init, NoWorker, CancelledAtEnd
  <1>. QED
    BY <1>1, <1>2, <1>3, <1>4, <1>5 DEF ProgramInv

(* A call that ends by assigning err, whatever it did to the executions.   *)
LEMMA AssignKeepsInv ==
  ASSUME ProgramInv, process = "up", at \in 1..8, moment = "call",
         NEW value \in {"nil", "error"}, Assign(value),
         executions' \in Seq(Sound), handle' \in 0..Len(executions'),
         at > 2 \/ (at = 2 /\ value = "nil") => handle' > 0
  PROVE  ProgramInv'
  <1>1. WorkerInv'
    BY WorkerUndisturbed DEF ProgramInv, Assign
  <1>2. MainTypes'
    BY DEF ProgramInv, MainTypes, Assign
  <1>3. NothingLeft'
    BY DEF NothingLeft, Assign
  <1>4. ErrorStays'
    BY DEF ErrorStays, Assign
  <1>5. HandleStands'
    BY DEF HandleStands, Assign
  <1>6. CancelledAtEnd'
    BY DEF ProgramInv, CancelledAtEnd, Assign, workerVars
  <1>. QED
    BY <1>1, <1>2, <1>3, <1>4, <1>5, <1>6 DEF ProgramInv

(* The end of the process, whoever ends it.                                *)
LEMMA EndsKeepsInv ==
  ASSUME ProgramInv, NEW how \in {"panicked", "exited"}, Ends(how)
  PROVE  ProgramInv'
  <1>1. WorkerInv'
    BY WorkerInvAfterProcess DEF Ends
  <1>2. executions' \in Seq(Sound) /\ Len(executions') = Len(executions)
    BY AbandonedAreSound DEF Ends
  <1>3. MainTypes'
    BY <1>2, ExecutionsAreSound DEF ProgramInv, MainTypes, Ends
  <1>4. NothingLeft'
    <2>1. Starting'
      BY DEF Ends, Starting
    <2>2. NoWorker'
      BY Zenon DEF Ends, ProcessGone, NoWorker
    <2>. QED
      BY <2>1, <2>2 DEF NothingLeft
  <1>5. ErrorStays' /\ HandleStands'
    BY DEF ErrorStays, HandleStands, Ends
  <1>6. CancelledAtEnd'
    BY DEF CancelledAtEnd, Ends, ProcessGone
  <1>. QED
    BY <1>1, <1>2, <1>3, <1>4, <1>5, <1>6 DEF ProgramInv

(* Where in the script a call is made.                                     *)
LEMMA CallingAt ==
  ASSUME NEW name, Calling(name)
  PROVE  /\ process = "up" /\ moment = "call"
         /\ at \in 1..8
         /\ name \in {"dial", "execute"} => at <= 2
         /\ name = "execute" => at = 2
         /\ name \in {"query", "signal", "get", "signalWithStart",
                      "setSchedule"} => at > 2
  <1>1. Len(Script) = 8 /\ DOMAIN Script = 1..8
    BY DEF Script
  <1>2. /\ Script[1] = "dial" /\ Script[2] = "execute"
        /\ \A j \in 3..8 : Script[j] \notin {"dial", "execute"}
    BY DEF Script
  <1>. QED
    BY <1>1, <1>2 DEF Calling

LEMMA CallKeepsInv ==
  ASSUME ProgramInv, Call
  PROVE  ProgramInv'
  <1>1. CASE CallFails
    <2>1. PICK name : Calling(name) /\ name \in
             {"dial", "execute", "query", "signal", "signalWithStart",
              "setSchedule"}
      <3>1. PICK j \in DOMAIN Script \ {5, 7} : Calling(Script[j])
        BY <1>1 DEF CallFails
      <3>2. Script[j] \in {"dial", "execute", "query", "signal",
                           "signalWithStart", "setSchedule"}
        BY DEF Script
      <3>. QED
        BY <3>1, <3>2
    <2>2. executions' \in Seq(Sound) /\ handle' \in 0..Len(executions')
      BY <1>1 DEF CallFails, ProgramInv, MainTypes
    <2>3. at > 2 => handle' > 0
      BY <1>1 DEF CallFails, ProgramInv, HandleStands
    <2>. QED
      BY <1>1, <2>1, <2>2, <2>3, CallingAt, AssignKeepsInv DEF CallFails
  <1>2. CASE CallSucceeds
    <2>1. at # 2 /\ process = "up" /\ at \in 1..8 /\ moment = "call"
      <3>1. CASE Calling("dial")
        <4>1. Script[2] # "dial"
          BY DEF Script
        <4>. QED
          BY <3>1, <4>1, CallingAt DEF Calling
      <3>2. CASE Calling("setSchedule")
        BY <3>2, CallingAt
      <3>. QED
        BY <1>2, <3>1, <3>2 DEF CallSucceeds
    <2>2. executions' \in Seq(Sound) /\ handle' \in 0..Len(executions')
      BY <1>2 DEF CallSucceeds, ProgramInv, MainTypes
    <2>3. at > 2 => handle' > 0
      BY <1>2 DEF CallSucceeds, ProgramInv, HandleStands
    <2>. QED
      BY <1>2, <2>1, <2>2, <2>3, AssignKeepsInv DEF CallSucceeds
  <1>3. CASE Execute
    <2>. DEFINE x == NewExecution("", ExecuteRequest, <<>>)
    <2>1. x \in Sound
      BY ExecutedIsSound DEF ProgramInv
    <2>2. executions' \in Seq(Sound)
          /\ Len(executions') = Len(executions) + 1
      BY <1>3, <2>1, AppendedAreSound DEF Execute
    <2>3. handle' \in 0..Len(executions') /\ handle' > 0
      <3>1. handle' = Len(executions')
        BY <1>3 DEF Execute, Acted
      <3>. QED
        BY <2>2, <3>1, ExecutionsAreSound
    <2>4. PICK value \in {"nil", "error"} : Assign(value)
      BY <1>3 DEF Execute, Acted
    <2>. QED
      BY <1>3, <2>2, <2>3, <2>4, CallingAt, AssignKeepsInv DEF Execute
  <1>4. CASE Query
    <2>1. Calling("query") /\ Assign("nil")
      BY <1>4 DEF Query
    <2>2. executions' \in Seq(Sound) /\ handle' \in 0..Len(executions')
      BY <1>4 DEF Query, ProgramInv, MainTypes
    <2>3. at > 2 => handle' > 0
      BY <1>4 DEF Query, ProgramInv, HandleStands
    <2>. QED
      BY <2>1, <2>2, <2>3, CallingAt, AssignKeepsInv
  <1>5. CASE Signal
    <2>1. at > 2
      BY <1>5, CallingAt DEF Signal
    <2>2. handle \in DOMAIN executions
      BY <2>1, ExecutionsAreSound DEF ProgramInv, MainTypes, HandleStands
    <2>3. Signalled(executions[handle]) \in Sound
      BY <2>2, SignalledIsSound, ExecutionsAreSound DEF ProgramInv
    <2>4. executions' = [executions EXCEPT ![handle] =
                            Signalled(executions[handle])]
      BY <1>5 DEF Signal
    <2>5. executions' \in Seq(Sound) /\ Len(executions') = Len(executions)
      BY <2>2, <2>3, <2>4, ReplacedAreSound
    <2>6. handle' \in 0..Len(executions') /\ handle' > 0
      BY <1>5, <2>2, <2>5, ExecutionsAreSound DEF Signal, Acted
    <2>7. PICK value \in {"nil", "error"} : Assign(value)
      BY <1>5 DEF Signal, Acted
    <2>. QED
      BY <1>5, <2>5, <2>6, <2>7, CallingAt, AssignKeepsInv DEF Signal
  <1>6. CASE Get
    <2>1. PICK value \in {"nil", "error"} : Assign(value)
      BY <1>6 DEF Get
    <2>2. executions' \in Seq(Sound) /\ handle' \in 0..Len(executions')
      BY <1>6 DEF Get, ProgramInv, MainTypes
    <2>3. at > 2 /\ handle' > 0
      BY <1>6, CallingAt DEF Get, ProgramInv, HandleStands
    <2>. QED
      BY <1>6, <2>1, <2>2, <2>3, CallingAt, AssignKeepsInv DEF Get
  <1>7. CASE SignalWithStart
    <2>1. CASE Running("fixed") = {}
      <3>. DEFINE x ==
             NewExecution("fixed", SignalWithStartRequest, <<Initial>>)
      <3>1. x \in Sound
        BY StartedIsSound DEF ProgramInv
      <3>2. executions' = Append(executions, x) /\ Acted(Len(executions'))
        BY <1>7, <2>1 DEF SignalWithStart
      <3>3. executions' \in Seq(Sound)
            /\ Len(executions') = Len(executions) + 1
        BY <3>1, <3>2, AppendedAreSound
      <3>4. handle' \in 0..Len(executions') /\ handle' > 0
        <4>1. handle' = Len(executions')
          BY <3>2 DEF Acted
        <4>. QED
          BY <3>3, <4>1, ExecutionsAreSound
      <3>5. PICK value \in {"nil", "error"} : Assign(value)
        BY <3>2 DEF Acted
      <3>. QED
        BY <1>7, <3>3, <3>4, <3>5, CallingAt, AssignKeepsInv
           DEF SignalWithStart
    <2>2. CASE Running("fixed") # {}
      <3>1. PICK e \in Running("fixed") :
               /\ executions' = [executions EXCEPT ![e] =
                                    Signalled(executions[e])]
               /\ Acted(e)
        BY <1>7, <2>2 DEF SignalWithStart
      <3>2. e \in DOMAIN executions
        BY DEF Running
      <3>3. Signalled(executions[e]) \in Sound
        BY <3>2, SignalledIsSound, ExecutionsAreSound DEF ProgramInv
      <3>4. executions' \in Seq(Sound) /\ Len(executions') = Len(executions)
        BY <3>1, <3>2, <3>3, ReplacedAreSound
      <3>5. handle' \in 0..Len(executions') /\ handle' > 0
        BY <3>1, <3>2, <3>4, ExecutionsAreSound DEF Acted
      <3>6. PICK value \in {"nil", "error"} : Assign(value)
        BY <3>1 DEF Acted
      <3>. QED
        BY <1>7, <3>4, <3>5, <3>6, CallingAt, AssignKeepsInv
           DEF SignalWithStart
    <2>. QED
      BY <2>1, <2>2
  <1>. QED
    BY <1>1, <1>2, <1>3, <1>4, <1>5, <1>6, <1>7 DEF Call

(* What leaves main and the executions alone, and keeps the worker right.  *)
LEMMA WorkerStepKeepsInv ==
  ASSUME ProgramInv, WorkerInv', process = "up" \/ UNCHANGED workerVars,
         cancelled' => cancelled \/ at = 9,
         UNCHANGED <<process, restarts, mainVars, err, goroutine, workflow,
                     executions>>
  PROVE  ProgramInv'
  <1>1. MainTypes'
    BY DEF ProgramInv, MainTypes, mainVars
  <1>2. NothingLeft'
    <2>1. CASE process = "up"
      BY <2>1 DEF NothingLeft
    <2>2. CASE UNCHANGED workerVars
      <3>1. UNCHANGED NoWorker
        BY <2>2, Zenon DEF workerVars, NoWorker
      <3>2. UNCHANGED Starting
        BY DEF Starting, mainVars
      <3>. QED
        BY <3>1, <3>2, Zenon DEF ProgramInv, NothingLeft
    <2>. QED
      BY <2>1, <2>2
  <1>3. ErrorStays' /\ HandleStands'
    BY DEF ProgramInv, ErrorStays, HandleStands, mainVars
  <1>4. CancelledAtEnd'
    BY DEF ProgramInv, CancelledAtEnd, mainVars
  <1>5. executions' \in Seq(Sound)
    BY DEF ProgramInv
  <1>. QED
    BY <1>1, <1>2, <1>3, <1>4, <1>5 DEF ProgramInv

LEMMA UpdateKeepsInv ==
  ASSUME ProgramInv,
         NEW e \in DOMAIN executions, NEW x \in Sound, Update(e, x)
  PROVE  ProgramInv'
  <1>1. WorkerInv'
    BY WorkerUndisturbed DEF ProgramInv, Update
  <1>2. executions' \in Seq(Sound) /\ Len(executions') = Len(executions)
    BY ReplacedAreSound DEF Update
  <1>3. MainTypes'
    BY <1>2 DEF ProgramInv, MainTypes, Update, mainVars
  <1>4. NothingLeft'
    <2>1. UNCHANGED NoWorker
      BY Zenon DEF Update, workerVars, NoWorker
    <2>2. UNCHANGED Starting
      BY DEF Update, Starting, mainVars
    <2>3. UNCHANGED process
      BY DEF Update
    <2>. QED
      BY <2>1, <2>2, <2>3, Zenon DEF ProgramInv, NothingLeft
  <1>5. ErrorStays' /\ HandleStands'
    BY DEF ProgramInv, ErrorStays, HandleStands, Update, mainVars
  <1>6. CancelledAtEnd'
    BY DEF ProgramInv, CancelledAtEnd, Update, mainVars, workerVars
  <1>. QED
    BY <1>1, <1>2, <1>3, <1>4, <1>5, <1>6 DEF ProgramInv

LEMMA TaskKeepsInv ==
  ASSUME ProgramInv, NEW e \in DOMAIN executions,
         ExecutionStep(e) \/ LoseTask(e)
  PROVE  ProgramInv'
  <1>. DEFINE x == executions[e]
  <1>1. x \in Sound
    BY ExecutionsAreSound
  <1>2. CASE PollTask(e)
    <2>1. x.phase = "due" /\ Update(e, [x EXCEPT !.phase = "running",
                                                !.view = Len(x.signals)])
      BY <1>2 DEF PollTask
    <2>. QED
      BY <1>1, <2>1, PolledIsSound, UpdateKeepsInv
  <1>3. CASE RespondTask(e)
    <2>1. x.phase = "running" /\ Update(e, AfterTask(x))
      BY <1>3 DEF RespondTask
    <2>. QED
      BY <1>1, <2>1, AnsweredIsSound, UpdateKeepsInv
  <1>4. CASE WaitEnds(e) \/ LoseTask(e)
    <2>1. x.phase # "closed" /\ Update(e, [x EXCEPT !.phase = "due"])
      BY <1>4 DEF WaitEnds, LoseTask
    <2>2. [x EXCEPT !.phase = "due"] \in Sound
      BY <1>1, <2>1, RephasedIsSound DEF Phases
    <2>. QED
      BY <2>1, <2>2, UpdateKeepsInv
  <1>. QED
    BY <1>2, <1>3, <1>4 DEF ExecutionStep

LEMMA CheckKeepsInv ==
  ASSUME ProgramInv, Check
  PROVE  ProgramInv'
  <1>1. CASE Ends("panicked")
    BY <1>1, EndsKeepsInv
  <1>2. CASE ~Ends("panicked")
    <2>1. /\ "nil" \in {outcome, err}
          /\ process = "up" /\ moment = "check"
          /\ at' = at + 1 /\ moment' = "call"
          /\ goroutine' \in {"running", goroutine}
          /\ UNCHANGED <<workerVars, process, restarts, outcome, handle, err,
                         workflow, executions>>
      BY <1>2 DEF Check
    <2>2. WorkerInv'
      BY <2>1, WorkerUndisturbed DEF ProgramInv
    <2>3. at \in 1..8 /\ outcome = "nil"
      BY <2>1 DEF ProgramInv, MainTypes, ErrorStays
    <2>4. MainTypes'
      BY <2>1, <2>3 DEF ProgramInv, MainTypes
    <2>5. NothingLeft'
      BY <2>1 DEF NothingLeft
    <2>6. ErrorStays'
      BY <2>1 DEF ErrorStays
    <2>7. HandleStands'
      BY <2>1, <2>3 DEF ProgramInv, HandleStands
    <2>8. ~cancelled'
      <3>1. ~cancelled
        BY <2>3 DEF ProgramInv, CancelledAtEnd
      <3>. QED
        BY <2>1, <3>1, Zenon DEF workerVars
    <2>9. executions' \in Seq(Sound)
      BY <2>1 DEF ProgramInv
    <2>. QED
      BY <2>2, <2>4, <2>5, <2>6, <2>7, <2>8, <2>9
         DEF ProgramInv, CancelledAtEnd
  <1>. QED
    BY <1>1, <1>2

LEMMA RestartKeepsInv ==
  ASSUME ProgramInv, Restart
  PROVE  ProgramInv'
  <1>1. WorkerInv'
    BY WorkerUndisturbed DEF ProgramInv, Restart
  <1>2. MainTypes'
    BY ProgramAssumption
       DEF ProgramAssumption, ProgramInv, MainTypes, Restart, mainVars
  <1>3. NothingLeft'
    BY DEF NothingLeft, Restart
  <1>4. ErrorStays' /\ HandleStands'
    BY DEF ProgramInv, ErrorStays, HandleStands, Restart, mainVars
  <1>5. CancelledAtEnd'
    BY DEF ProgramInv, CancelledAtEnd, Restart, mainVars, workerVars
  <1>6. executions' \in Seq(Sound)
    BY DEF ProgramInv, Restart
  <1>. QED
    BY <1>1, <1>2, <1>3, <1>4, <1>5, <1>6 DEF ProgramInv

(* The goroutine finds a process that is up, because what is gone leaves   *)
(* no goroutine.                                                           *)
LEMMA GoroutineKeepsInv ==
  ASSUME ProgramInv, GoAssign \/ GoCheck
  PROVE  ProgramInv'
  <1>1. CASE Ends("panicked")
    BY <1>1, EndsKeepsInv
  <1>2. CASE ~Ends("panicked")
    <2>1. /\ goroutine # "none"
          /\ goroutine' \in {"check", "done"}
          /\ UNCHANGED <<workerVars, process, restarts, mainVars, workflow,
                         executions>>
          /\ \/ err' = err
             \/ run = "returned" /\ err' = result
      BY <1>2 DEF GoAssign, GoCheck
    <2>2. process = "up"
      BY <2>1 DEF ProgramInv, NothingLeft, Starting
    <2>3. WorkerInv'
      BY <2>1, WorkerUndisturbed DEF ProgramInv
    <2>4. run = "returned" => result \in {"nil", "error"}
      BY DEF ProgramInv, WorkerInv, WorkerTypeOK
    <2>5. (run = "returned" /\ result = "nil") => at = 9
      BY DEF ProgramInv, WorkerInv, CancelledAtEnd
    <2>6. MainTypes'
      BY <2>1, <2>4 DEF ProgramInv, MainTypes, mainVars
    <2>7. NothingLeft'
      BY <2>1, <2>2 DEF NothingLeft
    <2>8. ErrorStays'
      BY <2>1, <2>4, <2>5 DEF ProgramInv, MainTypes, ErrorStays, mainVars
    <2>9. HandleStands'
      BY <2>1 DEF ProgramInv, HandleStands, mainVars
    <2>10. CancelledAtEnd'
      BY <2>1 DEF ProgramInv, CancelledAtEnd, mainVars, workerVars
    <2>11. executions' \in Seq(Sound)
      BY <2>1 DEF ProgramInv
    <2>. QED
      BY <2>3, <2>6, <2>7, <2>8, <2>9, <2>10, <2>11 DEF ProgramInv
  <1>. QED
    BY <1>1, <1>2

LEMMA ProgramInvKept == ProgramInv /\ [Next]_vars => ProgramInv'
  <1>. SUFFICES ASSUME ProgramInv, [Next]_vars
                PROVE  ProgramInv'
    OBVIOUS
  <1>1. CASE Call
    BY <1>1, CallKeepsInv
  <1>2. CASE Check
    BY <1>2, CheckKeepsInv
  <1>3. CASE DeferredCancel
    <2>1. Cancel /\ process = "up" /\ at = 9
      BY <1>3 DEF DeferredCancel, Script
    <2>2. WorkerInv'
      BY <2>1, WorkerInvKept DEF WorkerNext, ProgramInv
    <2>. QED
      BY <1>3, <2>1, <2>2, WorkerStepKeepsInv DEF DeferredCancel
  <1>4. CASE Exit
    BY <1>4, EndsKeepsInv DEF Exit
  <1>5. CASE Restart
    BY <1>5, RestartKeepsInv
  <1>6. CASE GoRun
    <2>1. CallRun /\ process = "up"
      BY <1>6 DEF GoRun
    <2>2. WorkerInv'
      BY <2>1, WorkerInvKept DEF WorkerNext, ProgramInv
    <2>3. ~cancelled'
      BY <2>1 DEF CallRun
    <2>. QED
      BY <1>6, <2>1, <2>2, <2>3, WorkerStepKeepsInv DEF GoRun
  <1>7. CASE Work \/ WorkerError
    <2>1. RunStep \/ CloseInterrupt \/ WorkerFails
      BY <1>7 DEF Work, WorkerError
    <2>2. WorkerInv'
      BY <2>1, WorkerWorks, WorkerInvKept DEF ProgramInv
    <2>3. process = "up"
      BY <2>1, WorkerWorks DEF ProgramInv, NothingLeft
    <2>4. cancelled' => cancelled
      BY <2>1, WorkerWorks, Zenon
    <2>. QED
      BY <1>7, <2>2, <2>3, <2>4, WorkerStepKeepsInv DEF Work, WorkerError
  <1>8. CASE GoAssign \/ GoCheck
    BY <1>8, GoroutineKeepsInv
  <1>9. ASSUME NEW e \in DOMAIN executions, ExecutionStep(e) \/ LoseTask(e)
        PROVE  ProgramInv'
    BY <1>9, TaskKeepsInv
  <1>10. CASE UNCHANGED vars
    <2>1. UNCHANGED workerVars
          /\ UNCHANGED <<process, restarts, mainVars, err, goroutine, workflow,
                         executions>>
      BY <1>10 DEF vars
    <2>2. WorkerInv'
      BY <2>1, WorkerUndisturbed DEF ProgramInv
    <2>3. cancelled' => cancelled
      BY <2>1, Zenon DEF workerVars
    <2>. QED
      BY <2>1, <2>2, <2>3, WorkerStepKeepsInv
  <1>. QED
    BY <1>1, <1>2, <1>3, <1>4, <1>5, <1>6, <1>7, <1>8, <1>9, <1>10 DEF Next

LEMMA ProgramInvGives ==
  ProgramInv => /\ TypeOK /\ MainHoldsAnExecution
                /\ SignalInTimeIsRead /\ InitialSignalIsRead
  <1>. SUFFICES ASSUME ProgramInv
                PROVE  /\ TypeOK /\ MainHoldsAnExecution
                       /\ SignalInTimeIsRead /\ InitialSignalIsRead
    OBVIOUS
  <1>1. ASSUME NEW x \in Sound
        PROVE  /\ x.phase \in Phases
               /\ x.phase = "closed" <=> x.status # "running"
               /\ x.done \in 0..Len(Waits)
               /\ x.view \in 0..Len(x.signals)
               /\ x.suffix # NoSignal => x.view > 0
    <2>1. x.phase \in Phases /\ x.done \in 0..Len(Waits)
      BY SoundHas DEF ExecutionRecords, Waits
    <2>2. x.suffix # NoSignal => x.view > 0
      <3>1. CASE x.done <= 2
        BY <3>1 DEF Sound, ReaderSeesAllInTime
      <3>2. CASE x.done > 2
        BY <3>2 DEF Sound, ReadTheFirst
      <3>. QED
        BY <3>1, <3>2, SoundHas
    <2>. QED
      BY <2>1, <2>2 DEF Sound, SeesWhatCame
  <1>2. TypeOK
    <2>1. WorkerTypeOK
      BY WorkerInvGives DEF ProgramInv
    <2>2. at \in 1..(Len(Script) + 1)
      BY DEF ProgramInv, MainTypes, Script
    <2>. QED
      BY <1>1, <2>1, <2>2, ExecutionsAreSound
         DEF ProgramInv, MainTypes, NothingLeft, TypeOK
  <1>3. ASSUME NEW x \in Sound, x.done > 2
        PROVE  /\ x.suffix # NoSignal => x.suffix = x.signals[1].by
               /\ (\E s \in DOMAIN x.signals : x.signals[s].inTime)
                     => x.suffix # NoSignal
               /\ x.id = "fixed" => x.suffix = x.by
    <2>1. DOMAIN x.signals = 1..Len(x.signals)
      BY SoundHas
    <2>2. x.suffix = NoSignal =>
             \A s \in DOMAIN x.signals : ~x.signals[s].inTime
      BY <1>3, <2>1, Zenon DEF Sound, ReadTheFirst
    <2>3. x.id = "fixed" => x.suffix # NoSignal
      BY <1>3, SoundHas DEF Sound, ReadTheFirst, StartedWithSignal
    <2>. QED
      BY <1>3, <2>2, <2>3 DEF Sound, ReadTheFirst, StartedWithSignal
  <1>4. SignalInTimeIsRead
    BY <1>3, ExecutionsAreSound DEF SignalInTimeIsRead
  <1>5. InitialSignalIsRead
    <2>1. ASSUME NEW x \in Sound, x.id = "fixed"
          PROVE  x.signals # <<>> /\ x.signals[1].by = x.by
      BY <2>1, SoundHas DEF Sound, StartedWithSignal
    <2>. QED
      BY <1>3, <2>1, ExecutionsAreSound DEF InitialSignalIsRead
  <1>6. MainHoldsAnExecution
    BY ExecutionsAreSound
       DEF ProgramInv, MainTypes, HandleStands, MainHoldsAnExecution
  <1>. QED
    BY <1>2, <1>4, <1>5, <1>6

-----------------------------------------------------------------------------
(***************************************************************************)
(* Inputs.  An execution keeps the request that it was started with, and   *)
(* that request decodes in the form in which it was made.                  *)
(***************************************************************************)
AsStarted(x) ==
    /\ x.request = IF x.id = "" THEN ExecuteRequest ELSE SignalWithStartRequest
    /\ x.status # "failed"

StartsInv == \A e \in DOMAIN executions : AsStarted(executions[e])

LEMMA RoundTrip ==
  ASSUME NEW f \in Forms, NEW a, IsStruct(a)
  PROVE  Decode(f, Encode(f, a), Len(a)) = a
  <1>1. CASE f = "struct"
    BY <1>1 DEF Encode, Whole, Decode
  <1>2. CASE f = "positional"
    <2>. DEFINE n == Len(a)
                p == Encode(f, a)
    <2>1. p = [j \in 1..n |-> [whole |-> FALSE, fields |-> <<a[j]>>]]
      BY <1>2 DEF IsStruct, Encode, FieldByField
    <2>2. \A j \in 1..n : j \in DOMAIN p /\ ~p[j].whole
      BY <2>1
    <2>3. [j \in 1..n |-> p[j].fields[1]] = [j \in 1..n |-> a[j]]
      BY <2>1
    <2>4. a = [j \in 1..n |-> a[j]]
      BY DEF IsStruct
    <2>. QED
      BY <1>2, <2>2, <2>3, <2>4 DEF Decode
  <1>. QED
    BY <1>1, <1>2 DEF Forms

LEMMA StartDecodes ==
  ASSUME MainTypes, NEW x \in Sound, AsStarted(x)
  PROVE  Received(x) = Argument[x.id] /\ Received(x) # Undecodable
  <1>1. workflow.form \in Forms
    BY DEF MainTypes
  <1>2. x.id \in Ids
    BY SoundHas DEF ExecutionRecords
  <1>3. IsStruct(Argument[x.id])
    BY <1>2, ProgramAssumption DEF ProgramAssumption
  <1>4. SignalWithStartRequest.input =
           Encode(workflow.form, Argument["fixed"])
    BY Zenon DEF SignalWithStartRequest, Encode
  <1>5. ExecuteRequest.input = Encode(workflow.form, Argument[""])
    BY DEF ExecuteRequest
  <1>6. x.request.input = Encode(workflow.form, Argument[x.id])
    BY <1>2, <1>4, <1>5 DEF AsStarted, Ids
  <1>7. Received(x) = Argument[x.id]
    BY <1>1, <1>3, <1>6, RoundTrip DEF Received
  <1>. QED
    BY <1>3, <1>7 DEF IsStruct

(* What a step on an execution leaves of it.                               *)
LEMMA StillAsStarted ==
  ASSUME NEW x, NEW y, AsStarted(x), y.request = x.request, y.id = x.id,
         y.status \in {x.status, "completed"}
  PROVE  AsStarted(y)
  BY DEF AsStarted

LEMMA AnswerKeepsStart ==
  ASSUME MainTypes, NEW x \in Sound, AsStarted(x)
  PROVE  AsStarted(AfterTask(x))
  <1>. DEFINE y == AfterTask(x)
  <1>1. x \in ExecutionRecords /\ x.done \in 0..4
    BY SoundHas
  <1>2. Received(x) # Undecodable
    BY StartDecodes
  <1>3. Len(Waits) = 4
    BY DEF Waits
  <1>4. CASE x.done = 2
    <2>1. y = Read(x)
      BY <1>2, <1>3, <1>4 DEF AfterTask
    <2>2. /\ Read(x).request = x.request /\ Read(x).id = x.id
          /\ Read(x).status = x.status
      BY <1>1 DEF Read, Block, Proceed, ExecutionRecords
    <2>. QED
      BY <2>1, <2>2, StillAsStarted
  <1>5. CASE x.done = 4
    <2>1. y = Close(x, "completed")
      BY <1>2, <1>3, <1>5 DEF AfterTask
    <2>2. /\ Close(x, "completed").request = x.request
          /\ Close(x, "completed").id = x.id
          /\ Close(x, "completed").status \in {x.status, "completed"}
      BY <1>1 DEF Close, ExecutionRecords
    <2>. QED
      BY <2>1, <2>2, StillAsStarted
  <1>6. CASE x.done \notin {2, 4}
    <2>1. y = Proceed(x)
      BY <1>2, <1>3, <1>6 DEF AfterTask
    <2>2. /\ Proceed(x).request = x.request /\ Proceed(x).id = x.id
          /\ Proceed(x).status = x.status
      BY <1>1 DEF Proceed, ExecutionRecords
    <2>. QED
      BY <2>1, <2>2, StillAsStarted
  <1>. QED
    BY <1>4, <1>5, <1>6

LEMMA ReplacedKeepsStarts ==
  ASSUME ProgramInv, StartsInv, workflow' = workflow,
         NEW e \in DOMAIN executions, NEW y, AsStarted(y),
         executions' = [executions EXCEPT ![e] = y]
  PROVE  StartsInv'
  <1>1. \A d \in DOMAIN executions' : AsStarted(executions'[d])
    BY DEF StartsInv
  <1>2. ExecuteRequest' = ExecuteRequest
        /\ SignalWithStartRequest' = SignalWithStartRequest
    BY DEF ExecuteRequest, SignalWithStartRequest
  <1>. QED
    BY <1>1, <1>2 DEF StartsInv, AsStarted

LEMMA AppendedKeepsStarts ==
  ASSUME ProgramInv, StartsInv, workflow' = workflow,
         NEW y \in Sound, AsStarted(y), executions' = Append(executions, y)
  PROVE  StartsInv'
  <1>1. executions \in Seq(Sound)
    BY DEF ProgramInv
  <1>2. \A d \in DOMAIN executions' : AsStarted(executions'[d])
    BY <1>1 DEF StartsInv
  <1>3. ExecuteRequest' = ExecuteRequest
        /\ SignalWithStartRequest' = SignalWithStartRequest
    BY DEF ExecuteRequest, SignalWithStartRequest
  <1>. QED
    BY <1>2, <1>3 DEF StartsInv, AsStarted

LEMMA UnchangedKeepsStarts ==
  ASSUME StartsInv, UNCHANGED <<workflow, executions>>
  PROVE  StartsInv'
  <1>1. ExecuteRequest' = ExecuteRequest
        /\ SignalWithStartRequest' = SignalWithStartRequest
    BY DEF ExecuteRequest, SignalWithStartRequest
  <1>. QED
    BY <1>1 DEF StartsInv, AsStarted

LEMMA SignalKeepsStarts ==
  ASSUME ProgramInv, StartsInv, workflow' = workflow,
         NEW e \in DOMAIN executions,
         executions' = [executions EXCEPT ![e] = Signalled(executions[e])]
  PROVE  StartsInv'
  <1>. DEFINE x == executions[e]
  <1>1. x \in ExecutionRecords /\ AsStarted(x)
    BY ExecutionsAreSound, SoundHas DEF StartsInv
  <1>2. /\ Signalled(x).request = x.request /\ Signalled(x).id = x.id
        /\ Signalled(x).status = x.status
    BY <1>1 DEF Signalled, ExecutionRecords
  <1>3. AsStarted(Signalled(x))
    BY <1>1, <1>2, StillAsStarted
  <1>. QED
    BY <1>3, ReplacedKeepsStarts

LEMMA EndKeepsStarts ==
  ASSUME ProgramInv, StartsInv, NEW how, Ends(how)
  PROVE  StartsInv'
  <1>1. ASSUME NEW e \in DOMAIN executions
        PROVE  AsStarted(Abandoned[e])
    <2>. DEFINE x == executions[e]
    <2>1. x \in ExecutionRecords /\ AsStarted(x)
      BY ExecutionsAreSound, SoundHas DEF StartsInv
    <2>2. /\ Abandoned[e].request = x.request /\ Abandoned[e].id = x.id
          /\ Abandoned[e].status = x.status
      BY <2>1 DEF Abandoned, ExecutionRecords
    <2>. QED
      BY <2>1, <2>2, StillAsStarted
  <1>2. executions' = Abandoned /\ workflow' = workflow
    BY DEF Ends
  <1>3. DOMAIN executions' = DOMAIN executions
    BY <1>2 DEF Abandoned
  <1>4. ExecuteRequest' = ExecuteRequest
        /\ SignalWithStartRequest' = SignalWithStartRequest
    BY <1>2 DEF ExecuteRequest, SignalWithStartRequest
  <1>. QED
    BY <1>1, <1>2, <1>3, <1>4 DEF StartsInv, AsStarted

LEMMA CallKeepsStarts ==
  ASSUME ProgramInv, StartsInv, Call
  PROVE  StartsInv'
  <1>1. CASE CallFails \/ CallSucceeds \/ Query \/ Get
    <2>1. UNCHANGED <<workflow, executions>>
      BY <1>1 DEF CallFails, CallSucceeds, Query, Get, Assign
    <2>. QED
      BY <2>1, UnchangedKeepsStarts
  <1>2. CASE Execute
    <2>. DEFINE x == NewExecution("", ExecuteRequest, <<>>)
    <2>1. executions' = Append(executions, x) /\ workflow' = workflow
      BY <1>2 DEF Execute, Acted, Assign
    <2>2. x \in Sound
      BY ExecutedIsSound DEF ProgramInv
    <2>3. AsStarted(x)
      BY DEF NewExecution, AsStarted
    <2>. HIDE DEF x
    <2>. QED
      BY <2>1, <2>2, <2>3, AppendedKeepsStarts
  <1>3. CASE Signal
    <2>1. handle \in DOMAIN executions
      <3>1. at > 2
        BY <1>3, CallingAt DEF Signal
      <3>. QED
        BY <3>1, ExecutionsAreSound DEF ProgramInv, MainTypes, HandleStands
    <2>2. /\ executions' = [executions EXCEPT ![handle] =
                              Signalled(executions[handle])]
          /\ workflow' = workflow
      BY <1>3 DEF Signal, Acted, Assign
    <2>. QED
      BY <2>1, <2>2, SignalKeepsStarts
  <1>4. CASE SignalWithStart
    <2>1. workflow' = workflow
      BY <1>4 DEF SignalWithStart, Acted, Assign
    <2>2. CASE Running("fixed") = {}
      <3>. DEFINE x ==
             NewExecution("fixed", SignalWithStartRequest, <<Initial>>)
      <3>1. executions' = Append(executions, x)
        BY <1>4, <2>2 DEF SignalWithStart
      <3>2. x \in Sound
        BY StartedIsSound DEF ProgramInv
      <3>3. AsStarted(x)
        BY DEF NewExecution, AsStarted
      <3>. HIDE DEF x
      <3>. QED
        BY <2>1, <3>1, <3>2, <3>3, AppendedKeepsStarts
    <2>3. CASE Running("fixed") # {}
      <3>1. PICK e \in Running("fixed") :
               executions' = [executions EXCEPT ![e] =
                                 Signalled(executions[e])]
        BY <1>4, <2>3 DEF SignalWithStart
      <3>2. e \in DOMAIN executions
        BY DEF Running
      <3>. QED
        BY <2>1, <3>1, <3>2, SignalKeepsStarts
    <2>. QED
      BY <2>2, <2>3
  <1>. QED
    BY <1>1, <1>2, <1>3, <1>4 DEF Call

LEMMA TaskKeepsStarts ==
  ASSUME ProgramInv, StartsInv, NEW e \in DOMAIN executions,
         ExecutionStep(e) \/ LoseTask(e)
  PROVE  StartsInv'
  <1>. DEFINE x == executions[e]
  <1>1. x \in Sound /\ x \in ExecutionRecords /\ AsStarted(x)
    BY ExecutionsAreSound, SoundHas DEF StartsInv
  <1>2. ASSUME NEW y, Update(e, y), AsStarted(y)
        PROVE  StartsInv'
    BY <1>2, ReplacedKeepsStarts DEF Update
  <1>3. CASE PollTask(e)
    <2>. DEFINE y == [x EXCEPT !.phase = "running", !.view = Len(x.signals)]
    <2>1. Update(e, y)
      BY <1>3 DEF PollTask
    <2>2. y.request = x.request /\ y.id = x.id /\ y.status = x.status
      BY <1>1 DEF ExecutionRecords
    <2>. QED
      BY <1>1, <1>2, <2>1, <2>2, StillAsStarted
  <1>4. CASE RespondTask(e)
    <2>1. Update(e, AfterTask(x))
      BY <1>4 DEF RespondTask
    <2>2. AsStarted(AfterTask(x))
      BY <1>1, AnswerKeepsStart DEF ProgramInv
    <2>. QED
      BY <1>2, <2>1, <2>2
  <1>5. CASE WaitEnds(e) \/ LoseTask(e)
    <2>. DEFINE y == [x EXCEPT !.phase = "due"]
    <2>1. Update(e, y)
      BY <1>5 DEF WaitEnds, LoseTask
    <2>2. y.request = x.request /\ y.id = x.id /\ y.status = x.status
      BY <1>1 DEF ExecutionRecords
    <2>. QED
      BY <1>1, <1>2, <2>1, <2>2, StillAsStarted
  <1>. QED
    BY <1>3, <1>4, <1>5 DEF ExecutionStep

LEMMA StartsInvKept == ProgramInv /\ StartsInv /\ [Next]_vars => StartsInv'
  <1>. SUFFICES ASSUME ProgramInv, StartsInv, [Next]_vars
                PROVE  StartsInv'
    OBVIOUS
  <1>1. CASE Call
    BY <1>1, CallKeepsStarts
  <1>2. CASE Check
    <2>1. CASE \E how \in {"panicked", "exited"} : Ends(how)
      BY <2>1, EndKeepsStarts
    <2>2. CASE UNCHANGED <<workflow, executions>>
      BY <2>2, UnchangedKeepsStarts
    <2>. QED
      BY <1>2, <2>1, <2>2 DEF Check
  <1>3. CASE Exit
    BY <1>3, EndKeepsStarts DEF Exit
  <1>4. CASE GoCheck
    <2>1. CASE Ends("panicked")
      BY <2>1, EndKeepsStarts
    <2>2. CASE UNCHANGED <<workflow, executions>>
      BY <2>2, UnchangedKeepsStarts
    <2>. QED
      BY <1>4, <2>1, <2>2 DEF GoCheck
  <1>5. CASE DeferredCancel \/ Restart \/ GoRun \/ Work \/ WorkerError
             \/ GoAssign \/ UNCHANGED vars
    <2>1. UNCHANGED <<workflow, executions>>
      BY <1>5 DEF DeferredCancel, Restart, GoRun, Work, WorkerError, GoAssign,
         vars
    <2>. QED
      BY <2>1, UnchangedKeepsStarts
  <1>6. ASSUME NEW e \in DOMAIN executions, ExecutionStep(e) \/ LoseTask(e)
        PROVE  StartsInv'
    BY <1>6, TaskKeepsStarts
  <1>. QED
    BY <1>1, <1>2, <1>3, <1>4, <1>5, <1>6 DEF Next

LEMMA StartsInvGives == ProgramInv /\ StartsInv => StartsArrive
  BY ExecutionsAreSound, StartDecodes
     DEF ProgramInv, StartsInv, StartsArrive, AsStarted

-----------------------------------------------------------------------------
LEMMA ProgramInvAlways == Spec => []ProgramInv
  BY ProgramInvAtFirst, ProgramInvKept, PTL DEF Spec

(* However often the process dies and is started again, its variables keep *)
(* their types, a process that is gone leaves nothing to the next, and     *)
(* what the tasks of an execution have seen is a part of what came         *)
(* (main.go:20-153, signal.go:39-122).                                     *)
THEOREM ProgramTypeCorrect == Spec => []TypeOK
  BY ProgramInvGives, ProgramInvAlways, PTL

(* main goes on only from a call that succeeded, whatever the goroutine    *)
(* assigns to the variable they share: the handle that it queries, signals *)
(* and waits for stands for an execution (main.go:82-149).                 *)
THEOREM MainHoldsAnExecutionAlways == Spec => []MainHoldsAnExecution
  BY ProgramInvGives, ProgramInvAlways, PTL

(* An execution reads the first signal that ever came for it, and one that *)
(* came before the reading task began is not passed over, however many     *)
(* processes had run its tasks before (signal.go:39-77).                   *)
THEOREM SignalInTimeIsReadAlways == Spec => []SignalInTimeIsRead
  BY ProgramInvGives, ProgramInvAlways, PTL

(* What SignalWithStart starts has that call's signal in front of all      *)
(* others and reads it, even if the caller dies right after                *)
(* (signal.go:82-122).                                                     *)
THEOREM InitialSignalIsReadAlways == Spec => []InitialSignalIsRead
  BY ProgramInvGives, ProgramInvAlways, PTL

(* Whether Execute or SignalWithStart started it, and whichever processes  *)
(* ran its tasks since, an execution's implementation gets the argument    *)
(* that was given for it, and none fails for its input, in either form of  *)
(* the declaration (workflow.go:243-259, signal.go:100-121).               *)
THEOREM StartsArriveAlways == Spec => []StartsArrive
  <1>1. Init => StartsInv
    BY DEF Init, StartsInv
  <1>2. ProgramInv /\ StartsInv /\ [Next]_vars => StartsInv'
    BY StartsInvKept
  <1>3. Spec => []StartsInv
    BY <1>1, <1>2, ProgramInvAlways, PTL DEF Spec
  <1>. QED
    BY <1>3, ProgramInvAlways, StartsInvGives, PTL
=============================================================================
