---------------------------- MODULE ReplayProofs ----------------------------
(***************************************************************************)
(* Theorems about Replay, for any number of executions, page size,         *)
(* versions, code and namespaces: what a bundle says is true, and nothing  *)
(* that stayed as it was is left out, however the cluster moves while the  *)
(* bundle is put together.                                                 *)
(***************************************************************************)
EXTENDS Replay, SequenceTheorems, FiniteSetTheorems, TLAPS

Events ==
    {"struct", "positional", "scheduled", "taken", "completed"} \cup
    UNION {{Code[v][j] : j \in DOMAIN Code[v]} : v \in Versions}

Statuses == {"none", "open", "closed", "deleted"}

(* What the first version's code alone has run.                            *)
RunByFirst(h) == Reproduces(h, WireForm(1), Code[1])

(* A history and the status of its execution.                              *)
Recorded(h, s) ==
    IF s = "none" THEN h = <<>>
    ELSE /\ IsHistory(h)
         /\ IsClosed(h) <=> s # "open"
         /\ version = 1 => RunByFirst(h)

ClusterInv ==
    /\ version \in Versions
    /\ status \in [Runs -> Statuses]
    /\ history \in [Runs -> Seq(Events)]
    /\ \A r \in Runs : Recorded(history[r], status[r])

(* What is kept of an execution is a beginning of what it has become; it   *)
(* is long enough for the replayer if a worker had taken the execution     *)
(* before the call.                                                        *)
Truthful(h, r) ==
    /\ r \in this
    /\ status[r] # "none"
    /\ IsPrefixOf(h, history[r])
    /\ IsHistory(h)
    /\ version = 1 => RunByFirst(h)
    /\ before[r] # "none" => Len(h) >= Opened

CallTypes ==
    /\ pc \in {"idle", "closed", "open", "read", "returned", "error"}
    /\ client \in [sdk : Namespaces, namespace : Namespaces]
    /\ before \in [Runs -> Statuses]

(* What was noted at the beginning is in the past of what is there now.    *)
BeforeIsPast ==
    \A r \in Runs :
        /\ before[r] # "none" => Len(history[r]) >= Opened
        /\ before[r] \in {"closed", "deleted"} =>
              status[r] \in {"closed", "deleted"}

(* The second list cannot repeat an entry of the first: what was closed    *)
(* then is not open now.                                                   *)
ListedRight ==
    /\ listed \in Seq(this)
    /\ pc \notin {"open", "read"} => listed = <<>>
    /\ pc = "open" => Len(listed) <= PageSize
    /\ Len(listed) <= 2 * PageSize
    /\ \A i, j \in 1..Len(listed) : listed[i] = listed[j] => i = j
    /\ \A j \in 1..Len(listed) :
          /\ status[listed[j]] # "none"
          /\ pc = "open" => status[listed[j]] \in {"closed", "deleted"}

HistsRight ==
    /\ hists \in Seq(Seq(Events))
    /\ pc # "read" => hists = <<>>
    /\ Len(hists) <= Len(listed)
    /\ \A j \in 1..Len(hists) : Truthful(hists[j], listed[j])

BundleRight ==
    /\ DOMAIN bundle \subseteq 1..(2 * PageSize)
    /\ pc # "returned" => DOMAIN bundle = {}
    /\ \A j \in DOMAIN bundle :
          /\ bundle[j].history \in Seq(Events)
          /\ Truthful(bundle[j].history, bundle[j].run)
          /\ Len(bundle[j].history) >= Opened

(* What has been closed, or open, since the call began is on its list from *)
(* the time that list was made.                                            *)
IsListed(r) == \E j \in 1..Len(listed) : listed[j] = r

ClosedAreListed ==
    (pc \in {"open", "read"} /\ client = Dial(Namespace)) =>
        \A r \in this :
            (/\ before[r] = "closed" /\ status[r] = "closed"
             /\ Cardinality(MayHaveBeenClosed) <= PageSize) => IsListed(r)

OpenAreListed ==
    (pc = "read" /\ client = Dial(Namespace)) =>
        \A r \in this :
            (/\ before[r] = "open" /\ status[r] = "open"
             /\ Cardinality(MayHaveBeenOpen) <= PageSize) => IsListed(r)

CallInv ==
    /\ CallTypes
    /\ BeforeIsPast
    /\ ListedRight
    /\ HistsRight
    /\ BundleRight
    /\ ClosedAreListed
    /\ OpenAreListed
    /\ SettledRunsAreBundled

ReplayInv == ClusterInv /\ CallInv

-----------------------------------------------------------------------------
(***************************************************************************)
(* Histories.                                                              *)
(***************************************************************************)
LEMMA CodeIsEvents ==
  ASSUME NEW v \in Versions
  PROVE  /\ Len(Code[v]) \in Nat
         /\ DOMAIN Code[v] = 1..Len(Code[v])
         /\ \A j \in 1..Len(Code[v]) :
               Code[v][j] \in Events /\ Code[v][j] # "completed"
  <1>1. /\ Len(Code[v]) \in Nat
        /\ Code[v] = [j \in 1..Len(Code[v]) |-> Code[v][j]]
        /\ \A j \in DOMAIN Code[v] : Code[v][j] # "completed"
    BY ReplayAssumption, Zenon DEF ReplayAssumption
  <1>2. DOMAIN [j \in 1..Len(Code[v]) |-> Code[v][j]] = 1..Len(Code[v])
    OBVIOUS
  <1>3. DOMAIN Code[v] = 1..Len(Code[v])
    BY <1>1, <1>2, Zenon
  <1>4. ASSUME NEW j \in DOMAIN Code[v]
        PROVE  Code[v][j] \in Events
    <2>1. Code[v][j] \in {Code[v][i] : i \in DOMAIN Code[v]}
      OBVIOUS
    <2>. QED
      BY <2>1, Zenon DEF Events
  <1>. QED
    BY <1>1, <1>3, <1>4, Zenon

LEMMA FirstIsAVersion == 1 \in Versions
  <1>1. NumVersions \in Nat \ {0}
    BY ReplayAssumption, Zenon DEF ReplayAssumption
  <1>. QED
    BY <1>1 DEF Versions

LEMMA WireFormIsEvent ==
  ASSUME NEW v \in Versions
  PROVE  WireForm(v) \in {"struct", "positional"}
  BY DEF WireForm

(* The commands in a history that is open, and in one that is closed.      *)
LEMMA CommandsOfOpen ==
  ASSUME NEW h \in Seq(Events), ~IsClosed(h), Len(h) >= 2
  PROVE  /\ Len(Commands(h)) = IF Len(h) < Opened THEN 0 ELSE Len(h) - Opened
         /\ DOMAIN Commands(h) = 1..Len(Commands(h))
         /\ \A j \in 1..(Len(h) - Opened) : Commands(h)[j] = h[Opened + j]
  <1>1. Len(h) \in Nat /\ \A i \in 1..Len(h) : h[i] \in Events
    OBVIOUS
  <1>2. Commands(h) = SubSeq(h, 4, Len(h))
    BY DEF Commands, Opened
  <1>3. \A i \in 4..Len(h) : h[i] \in Events
    BY <1>1
  <1>4. /\ SubSeq(h, 4, Len(h)) \in Seq(Events)
        /\ Len(SubSeq(h, 4, Len(h))) =
              IF 4 <= Len(h) THEN Len(h) - 4 + 1 ELSE 0
        /\ \A j \in 1..(Len(h) - 4 + 1) : SubSeq(h, 4, Len(h))[j] = h[4 + j - 1]
    BY <1>1, <1>3, SubSeqProperties
  <1>. QED
    BY <1>1, <1>2, <1>4 DEF Opened

LEMMA CommandsOfClosed ==
  ASSUME NEW h \in Seq(Events), IsClosed(h), Len(h) > Opened
  PROVE  /\ Len(Commands(h)) = Len(h) - 1 - Opened
         /\ DOMAIN Commands(h) = 1..Len(Commands(h))
         /\ \A j \in 1..(Len(h) - 1 - Opened) : Commands(h)[j] = h[Opened + j]
  <1>. DEFINE n == Len(h) - 1
  <1>1. n \in Nat /\ n >= 3 /\ Len(h) \in Nat
        /\ \A i \in 4..n : h[i] \in Events
    BY DEF Opened
  <1>2. Commands(h) = SubSeq(h, 4, n)
    BY DEF Commands, Opened
  <1>. HIDE DEF n
  <1>3. /\ SubSeq(h, 4, n) \in Seq(Events)
        /\ Len(SubSeq(h, 4, n)) = IF 4 <= n THEN n - 4 + 1 ELSE 0
        /\ \A j \in 1..(n - 4 + 1) : SubSeq(h, 4, n)[j] = h[4 + j - 1]
    BY <1>1, SubSeqProperties
  <1>4. n - 4 + 1 = Len(h) - 1 - Opened
    BY <1>1 DEF n, Opened
  <1>. QED
    BY <1>1, <1>2, <1>3, <1>4 DEF Opened

(* What the first version's workers make of it stays what they would make  *)
(* of it.                                                                  *)
LEMMA StartedByFirst ==
  ASSUME NEW h \in Seq(Events), Len(h) \in {2, 3}, h[1] = WireForm(1),
         h[Len(h)] # "completed"
  PROVE  RunByFirst(h)
  <1>1. ~IsClosed(h)
    BY DEF IsClosed
  <1>2. Len(Commands(h)) = 0 /\ DOMAIN Commands(h) = 1..Len(Commands(h))
    <2>1. Len(Commands(h)) = (IF Len(h) < Opened THEN 0 ELSE Len(h) - Opened)
          /\ DOMAIN Commands(h) = 1..Len(Commands(h))
      BY <1>1, CommandsOfOpen
    <2>2. Len(h) <= 3 /\ Len(h) \in Nat
      OBVIOUS
    <2>3. Len(Commands(h)) = 0
      BY <2>1, <2>2 DEF Opened
    <2>. QED
      BY <2>1, <2>3
  <1>. QED
    BY <1>1, <1>2, FirstIsAVersion, CodeIsEvents DEF RunByFirst, Reproduces

LEMMA NextEventIsEvent ==
  ASSUME version \in Versions, NEW h \in Seq(Events), ~IsClosed(h),
         Len(h) >= 2
  PROVE  /\ NextEvent(h) \in Events
         /\ Len(h) < Opened => NextEvent(h) = "taken"
         /\ Len(h) >= Opened =>
               NextEvent(h) = IF Len(h) - Opened < Len(Code[version])
                              THEN Code[version][Len(h) - Opened + 1]
                              ELSE "completed"
  <1>. DEFINE code == Code[version]
  <1>1. Len(code) \in Nat /\ \A j \in 1..Len(code) : code[j] \in Events
    BY CodeIsEvents
  <1>2. Len(Commands(h)) = IF Len(h) < Opened THEN 0 ELSE Len(h) - Opened
    BY CommandsOfOpen
  <1>3. NextEvent(h) = IF Len(h) < Opened THEN "taken"
                       ELSE IF Len(Commands(h)) < Len(code)
                            THEN code[Len(Commands(h)) + 1] ELSE "completed"
    BY DEF NextEvent
  <1>4. Len(h) \in Nat /\ "taken" \in Events /\ "completed" \in Events
    BY DEF Events
  <1>5. CASE Len(h) < Opened
    BY <1>3, <1>4, <1>5 DEF Opened
  <1>6. CASE ~(Len(h) < Opened)
    <2>. HIDE DEF code
    <2>1. NextEvent(h) = IF Len(h) - Opened < Len(code)
                         THEN code[Len(h) - Opened + 1] ELSE "completed"
      BY <1>2, <1>3, <1>6
    <2>2. NextEvent(h) \in Events
      <3>1. CASE Len(h) - Opened < Len(code)
        <4>1. Len(h) - Opened + 1 \in 1..Len(code)
          BY <1>1, <1>4, <1>6, <3>1 DEF Opened
        <4>. QED
          BY <1>1, <2>1, <3>1, <4>1
      <3>2. CASE ~(Len(h) - Opened < Len(code))
        BY <1>4, <2>1, <3>2
      <3>. QED
        BY <3>1, <3>2
    <2>. QED
      BY <1>6, <2>1, <2>2 DEF code
  <1>. QED
    BY <1>5, <1>6

LEMMA AdvancedByFirst ==
  ASSUME version = 1, NEW h \in Seq(Events), ~IsClosed(h), Len(h) >= 2,
         RunByFirst(h)
  PROVE  RunByFirst(Append(h, NextEvent(h)))
  <1>. DEFINE e == NextEvent(h)
              g == Append(h, e)
              code == Code[1]
  <1>1. version \in Versions /\ Len(code) \in Nat
        /\ \A j \in 1..Len(code) : code[j] # "completed"
    BY FirstIsAVersion, CodeIsEvents
  <1>2. e \in Events
        /\ (Len(h) < Opened => e = "taken")
        /\ (Len(h) >= Opened =>
               e = IF Len(h) - Opened < Len(code)
                   THEN code[Len(h) - Opened + 1] ELSE "completed")
    BY <1>1, NextEventIsEvent
  <1>3. h[1] = WireForm(1) /\ Len(Commands(h)) <= Len(code)
        /\ \A j \in DOMAIN Commands(h) : Commands(h)[j] = code[j]
    BY DEF RunByFirst, Reproduces
  <1>. HIDE DEF e, code
  <1>4. g \in Seq(Events) /\ Len(g) = Len(h) + 1 /\ g[Len(g)] = e
        /\ Len(h) \in Nat
        /\ \A i \in 1..Len(h) : g[i] = h[i]
    BY <1>2
  <1>. HIDE DEF g
  <1>5. IsClosed(g) <=> e = "completed"
    BY <1>4 DEF IsClosed
  <1>6. g[1] = WireForm(1)
    BY <1>3, <1>4
  <1>7. CASE Len(h) < Opened
    <2>1. Len(g) = 3 /\ g[Len(g)] # "completed"
      BY <1>2, <1>4, <1>7 DEF Opened
    <2>. QED
      BY <1>4, <1>6, <2>1, StartedByFirst DEF g, e
  <1>8. CASE Len(h) >= Opened
    <2>1. Len(Commands(h)) = Len(h) - Opened
          /\ DOMAIN Commands(h) = 1..(Len(h) - Opened)
          /\ \A j \in 1..(Len(h) - Opened) : Commands(h)[j] = h[Opened + j]
      BY <1>4, <1>8, CommandsOfOpen DEF Opened
    <2>2. Len(h) - Opened <= Len(code)
          /\ \A j \in 1..(Len(h) - Opened) : h[Opened + j] = code[j]
      BY <1>3, <2>1
    <2>3. CASE Len(h) - Opened < Len(code)
      <3>1. e = code[Len(h) - Opened + 1] /\ e # "completed"
        BY <1>1, <1>2, <1>4, <1>8, <2>3 DEF Opened
      <3>2. Len(Commands(g)) = Len(h) + 1 - Opened
            /\ DOMAIN Commands(g) = 1..(Len(h) + 1 - Opened)
            /\ \A j \in 1..(Len(h) + 1 - Opened) : Commands(g)[j] = g[Opened + j]
        BY <1>4, <1>5, <1>8, <3>1, CommandsOfOpen DEF Opened
      <3>3. \A j \in 1..(Len(h) + 1 - Opened) : g[Opened + j] = code[j]
        BY <1>1, <1>4, <1>8, <2>2, <3>1 DEF Opened
      <3>4. Reproduces(g, WireForm(1), code)
        <4>1. Len(Commands(g)) <= Len(code)
          BY <1>1, <1>4, <2>3, <3>2 DEF Opened
        <4>. QED
          BY <1>5, <1>6, <3>1, <3>2, <3>3, <4>1 DEF Reproduces
      <3>. QED
        BY <3>4 DEF RunByFirst, g, e, code
    <2>4. CASE Len(h) - Opened = Len(code)
      <3>1. e = "completed"
        BY <1>1, <1>2, <1>4, <1>8, <2>4 DEF Opened
      <3>2. Len(Commands(g)) = Len(h) - Opened
            /\ DOMAIN Commands(g) = 1..(Len(h) - Opened)
            /\ \A j \in 1..(Len(h) - Opened) : Commands(g)[j] = g[Opened + j]
        BY <1>4, <1>5, <1>8, <3>1, CommandsOfClosed DEF Opened
      <3>3. \A j \in 1..(Len(h) - Opened) : g[Opened + j] = code[j]
        BY <1>4, <1>8, <2>2 DEF Opened
      <3>4. Reproduces(g, WireForm(1), code)
        BY <1>1, <1>6, <2>4, <3>2, <3>3 DEF Reproduces
      <3>. QED
        BY <3>4 DEF RunByFirst, g, e, code
    <2>. QED
      BY <1>1, <1>4, <2>2, <2>3, <2>4 DEF Opened
  <1>. QED
    BY <1>4, <1>7, <1>8 DEF Opened

-----------------------------------------------------------------------------
(***************************************************************************)
(* The cluster.                                                            *)
(***************************************************************************)
LEMMA PrefixOfItself ==
  ASSUME NEW h \in Seq(Events)
  PROVE  IsPrefixOf(h, h)
  BY DEF IsPrefixOf

LEMMA PrefixOfLonger ==
  ASSUME NEW g \in Seq(Events), NEW h \in Seq(Events),
         NEW k \in Seq(Events), IsPrefixOf(g, h), IsPrefixOf(h, k)
  PROVE  IsPrefixOf(g, k)
  <1>1. Len(g) \in Nat /\ Len(h) \in Nat /\ Len(k) \in Nat
        /\ DOMAIN g = 1..Len(g) /\ DOMAIN h = 1..Len(h)
    OBVIOUS
  <1>2. Len(g) <= Len(h) /\ Len(h) <= Len(k)
    BY DEF IsPrefixOf
  <1>3. \A n \in DOMAIN g : n \in DOMAIN h
    BY <1>1, <1>2
  <1>4. \A n \in DOMAIN g : g[n] = k[n]
    BY <1>3, Zenon DEF IsPrefixOf
  <1>. QED
    BY <1>1, <1>2, <1>4 DEF IsPrefixOf

(* Executions only go on: a history is only added to, what is closed stays *)
(* closed, what is deleted is not seen again, and no version comes back.   *)
GoesOn(r) ==
    /\ IsPrefixOf(history[r], history'[r])
    /\ status[r] # "none" => status'[r] # "none"
    /\ status[r] \in {"closed", "deleted"} => status'[r] \in {"closed", "deleted"}
    /\ status'[r] = "open" => status[r] \in {"none", "open"}
    /\ status'[r] = "closed" => status[r] \in {"open", "closed"}

ClusterGoesOn ==
    /\ version' = 1 => version = 1
    /\ \A r \in Runs : GoesOn(r)

LEMMA Untouched ==
  ASSUME ClusterInv, NEW r \in Runs, status'[r] = status[r],
         history'[r] = history[r], version' = 1 => version = 1
  PROVE  Recorded(history[r], status[r])' /\ GoesOn(r)
  <1>1. Recorded(history[r], status[r])
    BY DEF ClusterInv
  <1>2. Recorded(history[r], status[r])'
    <2>1. CASE status[r] = "none"
      BY <1>1, <2>1 DEF Recorded
    <2>2. CASE status[r] # "none"
      BY <1>1, <2>2 DEF Recorded
    <2>. QED
      BY <2>1, <2>2
  <1>3. IsPrefixOf(history[r], history'[r])
    <2>1. history[r] \in Seq(Events)
      BY DEF ClusterInv
    <2>. QED
      BY <2>1, PrefixOfItself
  <1>4. status[r] \in Statuses
    BY DEF ClusterInv
  <1>. QED
    BY <1>2, <1>3, <1>4 DEF GoesOn, Statuses

LEMMA StartRunGoesOn ==
  ASSUME ClusterInv, NEW r \in this, StartRun(r)
  PROVE  ClusterInv' /\ ClusterGoesOn
  <1>. DEFINE h == <<WireForm(version), "scheduled">>
  <1>1. r \in Runs /\ version \in Versions
    BY ReplayAssumption DEF ReplayAssumption, ClusterInv
  <1>2. WireForm(version) \in {"struct", "positional"}
        /\ (version = 1 => WireForm(version) = WireForm(1))
    BY <1>1, WireFormIsEvent
  <1>3. h \in Seq(Events) /\ Len(h) = 2
        /\ h[1] = WireForm(version) /\ h[2] = "scheduled"
    BY <1>2 DEF Events
  <1>. HIDE DEF h
  <1>4. ~IsClosed(h) /\ IsHistory(h)
    BY <1>2, <1>3 DEF IsClosed, IsHistory
  <1>5. version = 1 => RunByFirst(h)
    BY <1>2, <1>3, StartedByFirst
  <1>6. /\ status' = [status EXCEPT ![r] = "open"]
        /\ history' = [history EXCEPT ![r] = h]
        /\ version' = version /\ status[r] = "none"
    BY DEF StartRun, h
  <1>7. status' \in [Runs -> Statuses] /\ history' \in [Runs -> Seq(Events)]
    BY <1>1, <1>3, <1>6 DEF ClusterInv, Statuses
  <1>8. status'[r] = "open" /\ history'[r] = h
        /\ \A q \in Runs \ {r} :
              status'[q] = status[q] /\ history'[q] = history[q]
    BY <1>1, <1>6 DEF ClusterInv
  <1>9. Recorded(history[r], status[r])'
    BY <1>4, <1>5, <1>6, <1>8 DEF Recorded
  <1>10. GoesOn(r)
    <2>1. history[r] = <<>>
      BY <1>1, <1>6 DEF ClusterInv, Recorded
    <2>2. IsPrefixOf(<<>>, h)
      BY <1>3 DEF IsPrefixOf
    <2>. QED
      BY <1>6, <1>8, <2>1, <2>2 DEF GoesOn
  <1>11. \A q \in Runs \ {r} : Recorded(history[q], status[q])' /\ GoesOn(q)
    BY <1>6, <1>8, Untouched
  <1>12. ClusterInv'
    BY <1>1, <1>6, <1>7, <1>9, <1>11 DEF ClusterInv
  <1>. QED
    BY <1>6, <1>10, <1>11, <1>12 DEF ClusterGoesOn

LEMMA AdvanceGoesOn ==
  ASSUME ClusterInv, NEW r \in this, Advance(r)
  PROVE  ClusterInv' /\ ClusterGoesOn
  <1>. DEFINE h == history[r]
              e == NextEvent(h)
              g == Append(h, e)
              s == IF IsClosed(g) THEN "closed" ELSE "open"
  <1>1. r \in Runs /\ version \in Versions
    BY ReplayAssumption DEF ReplayAssumption, ClusterInv
  <1>2. h \in Seq(Events) /\ Recorded(h, "open") /\ status[r] = "open"
    BY <1>1 DEF ClusterInv, Advance
  <1>3. IsHistory(h) /\ ~IsClosed(h) /\ (version = 1 => RunByFirst(h))
        /\ Len(h) >= 2
    BY <1>2 DEF Recorded, IsHistory
  <1>4. e \in Events
    BY <1>1, <1>2, <1>3, NextEventIsEvent
  <1>5. version = 1 => RunByFirst(g)
    BY <1>2, <1>3, AdvancedByFirst
  <1>6. /\ history' = [history EXCEPT ![r] = g]
        /\ status' = [status EXCEPT ![r] = IF IsClosed(history'[r])
                                           THEN "closed" ELSE status[r]]
        /\ version' = version
    BY DEF Advance
  <1>. HIDE DEF h, e
  <1>7. g \in Seq(Events) /\ Len(g) = Len(h) + 1 /\ Len(h) \in Nat
        /\ \A i \in 1..Len(h) : g[i] = h[i]
    BY <1>2, <1>4
  <1>. HIDE DEF g
  <1>8. IsHistory(g)
    BY <1>3, <1>7 DEF IsHistory
  <1>9. IsPrefixOf(h, g)
    BY <1>2, <1>7 DEF IsPrefixOf
  <1>10. history'[r] = g /\ status'[r] = s
         /\ \A q \in Runs \ {r} :
               status'[q] = status[q] /\ history'[q] = history[q]
    BY <1>1, <1>2, <1>6 DEF ClusterInv
  <1>11. status' \in [Runs -> Statuses] /\ history' \in [Runs -> Seq(Events)]
    BY <1>1, <1>2, <1>6, <1>7 DEF ClusterInv, Statuses
  <1>12. Recorded(history[r], status[r])'
    BY <1>5, <1>6, <1>8, <1>10 DEF Recorded
  <1>13. GoesOn(r)
    BY <1>2, <1>9, <1>10 DEF GoesOn, h
  <1>14. \A q \in Runs \ {r} : Recorded(history[q], status[q])' /\ GoesOn(q)
    BY <1>6, <1>10, Untouched
  <1>15. ClusterInv'
    BY <1>1, <1>6, <1>11, <1>12, <1>14 DEF ClusterInv
  <1>. QED
    BY <1>6, <1>13, <1>14, <1>15 DEF ClusterGoesOn

LEMMA DeleteRunGoesOn ==
  ASSUME ClusterInv, NEW r \in this, DeleteRun(r)
  PROVE  ClusterInv' /\ ClusterGoesOn
  <1>1. r \in Runs
    BY ReplayAssumption DEF ReplayAssumption
  <1>2. /\ status' = [status EXCEPT ![r] = "deleted"]
        /\ version' = version /\ history' = history /\ status[r] = "closed"
    BY DEF DeleteRun
  <1>3. status' \in [Runs -> Statuses]
    BY <1>1, <1>2 DEF ClusterInv, Statuses
  <1>4. status'[r] = "deleted" /\ history'[r] = history[r]
        /\ \A q \in Runs \ {r} :
              status'[q] = status[q] /\ history'[q] = history[q]
    BY <1>1, <1>2 DEF ClusterInv
  <1>5. Recorded(history[r], "closed") /\ history[r] \in Seq(Events)
    BY <1>1, <1>2 DEF ClusterInv
  <1>6. Recorded(history[r], status[r])'
    BY <1>2, <1>4, <1>5 DEF Recorded
  <1>7. GoesOn(r)
    BY <1>2, <1>4, <1>5, PrefixOfItself DEF GoesOn
  <1>8. \A q \in Runs \ {r} : Recorded(history[q], status[q])' /\ GoesOn(q)
    BY <1>2, <1>4, Untouched
  <1>9. ClusterInv'
    BY <1>2, <1>3, <1>6, <1>8 DEF ClusterInv
  <1>. QED
    BY <1>2, <1>7, <1>8, <1>9 DEF ClusterGoesOn

LEMMA ClusterInvKept ==
  ASSUME ClusterInv, Cluster \/ UNCHANGED clusterVars
  PROVE  ClusterInv' /\ ClusterGoesOn
  <1>1. CASE Deploy \/ UNCHANGED clusterVars
    <2>1. status' = status /\ history' = history
          /\ version' \in Versions /\ (version' = 1 => version = 1)
      <3>1. NumVersions \in Nat
        BY ReplayAssumption, Zenon DEF ReplayAssumption
      <3>. QED
        BY <1>1, <3>1 DEF Deploy, clusterVars, ClusterInv, Versions
    <2>2. \A r \in Runs : Recorded(history[r], status[r])' /\ GoesOn(r)
      BY <2>1, Untouched
    <2>. QED
      BY <2>1, <2>2 DEF ClusterInv, ClusterGoesOn
  <1>2. CASE \E r \in this : StartRun(r) \/ Advance(r) \/ DeleteRun(r)
    BY <1>2, StartRunGoesOn, AdvanceGoesOn, DeleteRunGoesOn
  <1>. QED
    BY <1>1, <1>2 DEF Cluster

LEMMA ClusterInvAtFirst == Init => ClusterInv
  <1>. SUFFICES ASSUME Init
                PROVE  ClusterInv
    OBVIOUS
  <1>. DEFINE h == <<WireForm(1), "scheduled", "taken">>
  <1>1. version = 1 /\ 1 \in Versions
    BY FirstIsAVersion DEF Init
  <1>2. WireForm(1) \in {"struct", "positional"}
    BY <1>1, WireFormIsEvent
  <1>3. h \in Seq(Events) /\ Len(h) = 3 /\ h[1] = WireForm(1) /\ h[3] = "taken"
        /\ <<>> \in Seq(Events)
    BY <1>2 DEF Events
  <1>. HIDE DEF h
  <1>4. Recorded(h, "open")
    <2>1. IsHistory(h) /\ ~IsClosed(h)
      BY <1>2, <1>3 DEF IsHistory, IsClosed
    <2>2. RunByFirst(h)
      BY <1>3, StartedByFirst
    <2>. QED
      BY <2>1, <2>2 DEF Recorded
  <1>5. Recorded(<<>>, "none")
    BY DEF Recorded
  <1>6. \A r \in Runs : \/ status[r] = "none" /\ history[r] = <<>>
                        \/ status[r] = "open" /\ history[r] = h
    BY DEF Init, NoRun, h
  <1>7. status \in [Runs -> Statuses]
    BY DEF Init, NoRun, Statuses
  <1>8. history \in [Runs -> Seq(Events)]
    BY <1>3 DEF Init, h
  <1>. QED
    BY <1>1, <1>4, <1>5, <1>6, <1>7, <1>8 DEF ClusterInv

-----------------------------------------------------------------------------
(***************************************************************************)
(* The call while the cluster goes on.                                     *)
(***************************************************************************)
LEMMA ThisAreRuns == this \subseteq Runs
  BY ReplayAssumption DEF ReplayAssumption

LEMMA SizesAreNumbers == PageSize \in Nat \ {0} /\ MaxRuns \in Nat
  BY ReplayAssumption, Zenon DEF ReplayAssumption

LEMMA StaysTruthful ==
  ASSUME ClusterInv, ClusterInv', ClusterGoesOn, before' = before,
         NEW h \in Seq(Events), NEW r, Truthful(h, r)
  PROVE  Truthful(h, r)'
  <1>1. r \in Runs
    BY ThisAreRuns DEF Truthful
  <1>2. GoesOn(r) /\ (version' = 1 => version = 1)
    BY <1>1 DEF ClusterGoesOn
  <1>3. history[r] \in Seq(Events) /\ history'[r] \in Seq(Events)
    BY <1>1 DEF ClusterInv
  <1>4. IsPrefixOf(h, history'[r])
    BY <1>2, <1>3, PrefixOfLonger DEF Truthful, GoesOn
  <1>. QED
    BY <1>2, <1>4 DEF Truthful, GoesOn

(* The sets that bound a page only grow during a call.                     *)
LEMMA MoreMayHaveBeen ==
  ASSUME ClusterInv, ClusterGoesOn, before' = before
  PROVE  /\ Cardinality(MayHaveBeenClosed) <= Cardinality(MayHaveBeenClosed')
         /\ Cardinality(MayHaveBeenOpen) <= Cardinality(MayHaveBeenOpen')
         /\ Cardinality(MayHaveBeenClosed) \in Nat
         /\ Cardinality(MayHaveBeenOpen) \in Nat
         /\ Cardinality(MayHaveBeenClosed') \in Nat
         /\ Cardinality(MayHaveBeenOpen') \in Nat
  <1>1. IsFiniteSet(Runs)
    BY SizesAreNumbers, FS_Interval DEF Runs
  <1>2. IsFiniteSet(this)
    BY <1>1, ThisAreRuns, FS_Subset
  <1>3. \A r \in this : GoesOn(r)
    BY ThisAreRuns DEF ClusterGoesOn
  <1>4. MayHaveBeenClosed \subseteq MayHaveBeenClosed'
        /\ MayHaveBeenOpen \subseteq MayHaveBeenOpen'
    BY <1>3 DEF MayHaveBeenClosed, MayHaveBeenOpen, GoesOn
  <1>5. MayHaveBeenClosed' \subseteq this /\ MayHaveBeenOpen' \subseteq this
    BY DEF MayHaveBeenClosed, MayHaveBeenOpen
  <1>6. IsFiniteSet(MayHaveBeenClosed') /\ IsFiniteSet(MayHaveBeenOpen')
    BY <1>2, <1>5, FS_Subset
  <1>7. IsFiniteSet(MayHaveBeenClosed) /\ IsFiniteSet(MayHaveBeenOpen)
    BY <1>4, <1>6, FS_Subset
  <1>8. Cardinality(MayHaveBeenClosed) <= Cardinality(MayHaveBeenClosed')
        /\ Cardinality(MayHaveBeenOpen) <= Cardinality(MayHaveBeenOpen')
    BY <1>4, <1>6, FS_Subset
  <1>. QED
    BY <1>6, <1>7, <1>8, FS_CardinalityType

LEMMA ClusterKeepsCallInv ==
  ASSUME ReplayInv, Cluster \/ UNCHANGED clusterVars, UNCHANGED callVars
  PROVE  ReplayInv'
  <1>1. ClusterInv /\ CallInv
    BY DEF ReplayInv
  <1>2. ClusterInv' /\ ClusterGoesOn
    BY <1>1, ClusterInvKept
  <1>3. /\ pc' = pc /\ client' = client /\ listed' = listed
        /\ hists' = hists /\ bundle' = bundle /\ before' = before
    BY DEF callVars
  <1>4. \A r \in this : r \in Runs /\ GoesOn(r)
    BY <1>2, ThisAreRuns DEF ClusterGoesOn
  <1>5. CallTypes'
    BY <1>1, <1>3 DEF CallInv, CallTypes
  <1>6. BeforeIsPast'
    <2>1. ASSUME NEW r \in Runs
          PROVE  /\ before[r] # "none" => Len(history'[r]) >= Opened
                 /\ before[r] \in {"closed", "deleted"} =>
                       status'[r] \in {"closed", "deleted"}
      <3>1. GoesOn(r)
        BY <1>2 DEF ClusterGoesOn
      <3>2. history[r] \in Seq(Events) /\ history'[r] \in Seq(Events)
        BY <1>1, <1>2 DEF ClusterInv
      <3>3. Len(history[r]) <= Len(history'[r])
        BY <3>1 DEF GoesOn, IsPrefixOf
      <3>4. before[r] # "none" => Len(history'[r]) >= Opened
        BY <1>1, <3>2, <3>3 DEF CallInv, BeforeIsPast, Opened
      <3>. QED
        BY <1>1, <3>1, <3>4 DEF CallInv, BeforeIsPast, GoesOn
    <2>. QED
      BY <1>3, <2>1 DEF BeforeIsPast
  <1>7. ListedRight'
    <2>1. ListedRight
      BY <1>1 DEF CallInv
    <2>2. \A j \in 1..Len(listed) : listed[j] \in this
      BY <2>1 DEF ListedRight
    <2>. QED
      BY <1>3, <1>4, <2>1, <2>2 DEF ListedRight, GoesOn
  <1>8. HistsRight'
    <2>1. HistsRight
      BY <1>1 DEF CallInv
    <2>2. \A j \in 1..Len(hists) : hists[j] \in Seq(Events)
      BY <2>1 DEF HistsRight
    <2>3. ASSUME NEW j \in 1..Len(hists)
          PROVE  Truthful(hists[j], listed[j])'
      <3>. DEFINE h == hists[j]
                  r == listed[j]
      <3>1. Truthful(h, r) /\ h \in Seq(Events)
        BY <2>1, <2>2 DEF HistsRight
      <3>2. hists'[j] = h /\ listed'[j] = r
        BY <1>3
      <3>. QED
        BY <1>1, <1>2, <1>3, <3>1, <3>2, StaysTruthful
    <2>. QED
      BY <1>3, <2>1, <2>3 DEF HistsRight
  <1>9. BundleRight'
    <2>1. BundleRight
      BY <1>1 DEF CallInv
    <2>2. ASSUME NEW j \in DOMAIN bundle
          PROVE  Truthful(bundle[j].history, bundle[j].run)'
      <3>1. Truthful(bundle[j].history, bundle[j].run)
            /\ bundle[j].history \in Seq(Events) /\ bundle'[j] = bundle[j]
        BY <1>3, <2>1 DEF BundleRight
      <3>. QED
        BY <1>1, <1>2, <1>3, <3>1, StaysTruthful
    <2>. QED
      BY <1>3, <2>1, <2>2 DEF BundleRight
  <1>10. /\ Cardinality(MayHaveBeenClosed') <= PageSize =>
               Cardinality(MayHaveBeenClosed) <= PageSize
         /\ Cardinality(MayHaveBeenOpen') <= PageSize =>
               Cardinality(MayHaveBeenOpen) <= PageSize
    BY <1>1, <1>2, <1>3, MoreMayHaveBeen, SizesAreNumbers
  <1>11. ASSUME NEW r \in this
         PROVE  /\ before[r] = "closed" /\ status'[r] = "closed" =>
                      status[r] = "closed"
                /\ before[r] = "open" /\ status'[r] = "open" =>
                      status[r] = "open"
    <2>1. r \in Runs /\ GoesOn(r) /\ status[r] \in Statuses
      BY <1>1, <1>4 DEF ClusterInv
    <2>2. before[r] = "open" => status[r] # "none"
      <3>1. before[r] = "open" => history[r] # <<>>
        BY <1>1, <2>1 DEF CallInv, BeforeIsPast, Opened
      <3>. QED
        BY <1>1, <2>1, <3>1 DEF ClusterInv, Recorded
    <2>. QED
      BY <1>1, <2>1, <2>2 DEF CallInv, BeforeIsPast, GoesOn, Statuses
  <1>12. ClosedAreListed'
    BY <1>1, <1>3, <1>10, <1>11 DEF CallInv, ClosedAreListed, IsListed
  <1>13. OpenAreListed'
    BY <1>1, <1>3, <1>10, <1>11 DEF CallInv, OpenAreListed, IsListed
  <1>14. SettledRunsAreBundled'
    BY <1>1, <1>3, <1>10, <1>11 DEF CallInv, SettledRunsAreBundled
  <1>. QED
    BY <1>2, <1>5, <1>6, <1>7, <1>8, <1>9, <1>12, <1>13, <1>14
       DEF ReplayInv, CallInv

-----------------------------------------------------------------------------
(***************************************************************************)
(* The call's own steps.                                                   *)
(***************************************************************************)
LEMMA ClientsAreTyped ==
  /\ Clients \subseteq [sdk : Namespaces, namespace : Namespaces]
  /\ Dial("") \in Clients
  /\ Dial(Namespace).namespace = Namespace /\ Dial(Namespace).sdk = Namespace
  <1>1. /\ Namespace \in Namespaces /\ DefaultNamespace \in Namespaces
        /\ "" \notin Namespaces
    BY ReplayAssumption, Zenon DEF ReplayAssumption
  <1>2. \A n \in Namespaces \cup {""} : NamespaceOr(n) \in Namespaces
    BY <1>1 DEF NamespaceOr
  <1>3. NamespaceOr(Namespace) = Namespace
    BY <1>1 DEF NamespaceOr
  <1>. DEFINE Typed == [sdk : Namespaces, namespace : Namespaces]
              All == Namespaces \cup {""}
  <1>4. \A n \in All : Dial(n) \in Typed
    BY <1>2 DEF Dial
  <1>5. \A s \in Namespaces, n \in All : NewFromSDK(s, n) \in Typed
    BY <1>2 DEF NewFromSDK
  <1>6. Dial(Namespace).namespace = Namespace /\ Dial(Namespace).sdk = Namespace
    BY <1>3 DEF Dial
  <1>7. "" \in All
    OBVIOUS
  <1>. DEFINE Dialled == {Dial(n) : n \in All}
              Given == {NewFromSDK(s, n) : s \in Namespaces, n \in All}
  <1>. HIDE DEF Typed, All
  <1>8. Dialled \subseteq Typed
    BY <1>4
  <1>9. Given \subseteq Typed
    BY <1>5
  <1>10. Dial("") \in Dialled
    BY <1>7
  <1>11. Clients = Dialled \cup Given
    BY DEF Clients, All
  <1>. HIDE DEF Dialled, Given
  <1>12. Clients \subseteq Typed
    BY <1>8, <1>9, <1>11, Zenon
  <1>13. Dial("") \in Clients
    BY <1>10, <1>11, Zenon
  <1>. QED
    BY <1>6, <1>12, <1>13, Zenon DEF Typed

LEMMA FoundAreThis ==
  ASSUME NEW namespace, NEW which
  PROVE  /\ Found(namespace, which) \subseteq this
         /\ \A r \in Found(namespace, which) : status[r] = which
         /\ IsFiniteSet(Found(namespace, which))
  <1>1. IsFiniteSet(this)
    <2>1. IsFiniteSet(Runs)
      BY SizesAreNumbers, FS_Interval DEF Runs
    <2>. QED
      BY <2>1, ThisAreRuns, FS_Subset
  <1>2. Found(namespace, which) \subseteq this
    BY DEF Found
  <1>. QED
    BY <1>1, <1>2, FS_Subset DEF Found

(* A page names nothing twice, and all that is wanted if that fits.        *)
LEMMA PageIsRight ==
  ASSUME NEW wanted, IsFiniteSet(wanted), NEW page \in Pages(wanted)
  PROVE  /\ page \in Seq(wanted)
         /\ Len(page) \in 0..PageSize
         /\ \A i, j \in 1..Len(page) : page[i] = page[j] => i = j
         /\ Cardinality(wanted) <= PageSize =>
               \A r \in wanted : \E j \in 1..Len(page) : page[j] = r
  <1>1. PICK n \in 0..PageSize : page \in [1..n -> wanted]
    BY DEF Pages
  <1>2. n \in Nat /\ PageSize \in Nat
    BY SizesAreNumbers
  <1>3. page \in Seq(wanted) /\ Len(page) = n /\ DOMAIN page = 1..n
    BY <1>1, <1>2
  <1>4. /\ \A i, j \in 1..n : page[i] = page[j] => i = j
        /\ n < PageSize => \A r \in wanted : \E j \in 1..n : page[j] = r
    BY <1>3 DEF Pages
  <1>5. ASSUME n = PageSize, Cardinality(wanted) <= PageSize
        PROVE  \A r \in wanted : \E j \in 1..n : page[j] = r
    <2>1. page \in Injection(1..n, wanted)
      BY <1>1, <1>4 DEF Injection, IsInjective
    <2>2. IsFiniteSet(1..n) /\ Cardinality(1..n) = n
      BY <1>2, FS_Interval
    <2>3. Cardinality(wanted) \in Nat
      BY FS_CardinalityType
    <2>4. Cardinality(1..n) <= Cardinality(wanted)
          /\ (Cardinality(1..n) = Cardinality(wanted) =>
                 page \in Surjection(1..n, wanted))
      BY <2>1, FS_Injection
    <2>5. page \in Surjection(1..n, wanted)
      BY <1>2, <1>5, <2>2, <2>3, <2>4
    <2>. QED
      BY <2>5 DEF Surjection
  <1>. QED
    BY <1>2, <1>3, <1>4, <1>5

(* A step of the call leaves the cluster, and what is true of it, alone.   *)
LEMMA CallLeavesCluster ==
  ASSUME ReplayInv, UNCHANGED clusterVars
  PROVE  /\ ClusterInv' /\ ClusterGoesOn
         /\ version' = version /\ status' = status /\ history' = history
         /\ \A r : (before' = before) =>
               \A h \in Seq(Events) : Truthful(h, r) => Truthful(h, r)'
  <1>1. ClusterInv' /\ ClusterGoesOn
    BY ClusterInvKept DEF ReplayInv
  <1>2. ASSUME NEW r, before' = before, NEW h \in Seq(Events), Truthful(h, r)
        PROVE  Truthful(h, r)'
    BY <1>1, <1>2, StaysTruthful DEF ReplayInv
  <1>. QED
    BY <1>1, <1>2 DEF clusterVars

LEMMA CallInvAtFirst == Init => CallInv
  <1>. SUFFICES ASSUME Init
                PROVE  CallInv
    OBVIOUS
  <1>1. /\ pc = "idle" /\ client = Dial("") /\ before = NoRun
        /\ listed = <<>> /\ hists = <<>> /\ bundle = <<>>
    BY DEF Init
  <1>2. CallTypes
    <2>1. client \in [sdk : Namespaces, namespace : Namespaces]
      BY <1>1, ClientsAreTyped
    <2>2. before \in [Runs -> Statuses]
      BY <1>1 DEF NoRun, Statuses
    <2>. QED
      BY <1>1, <2>1, <2>2 DEF CallTypes
  <1>3. BeforeIsPast
    <2>1. ASSUME NEW r \in Runs
          PROVE  /\ before[r] # "none" => Len(history[r]) >= Opened
                 /\ before[r] \notin {"closed", "deleted"}
      <3>1. CASE r \in this
        <4>1. before[r] = "none"
          BY <1>1, <3>1 DEF NoRun
        <4>. QED
          BY <4>1
      <3>2. CASE r \notin this
        <4>1. history[r] = <<WireForm(1), "scheduled", "taken">>
          BY <3>2 DEF Init
        <4>2. before[r] = "open"
          BY <1>1, <3>2 DEF NoRun
        <4>3. Len(<<WireForm(1), "scheduled", "taken">>) >= Opened
          BY DEF Opened
        <4>. QED
          BY <4>1, <4>2, <4>3
      <3>. QED
        BY <3>1, <3>2
    <2>. QED
      BY <2>1 DEF BeforeIsPast
  <1>4. /\ listed \in Seq(this) /\ Len(listed) = 0
        /\ hists \in Seq(Seq(Events)) /\ Len(hists) = 0
        /\ DOMAIN bundle = {}
    <2>1. /\ \A S : <<>> \in Seq(S)
          /\ Len(<<>>) = 0 /\ DOMAIN <<>> = {}
      OBVIOUS
    <2>. QED
      BY <1>1, <2>1, Zenon
  <1>5. ListedRight
    <2>1. 0 <= PageSize /\ 0 <= 2 * PageSize /\ 1..0 = {}
      BY SizesAreNumbers
    <2>. QED
      BY <1>1, <1>4, <2>1, Zenon DEF ListedRight
  <1>6. HistsRight
    <2>1. 0 <= 0 /\ 1..0 = {}
      OBVIOUS
    <2>. QED
      BY <1>1, <1>4, <2>1, Zenon DEF HistsRight
  <1>7. BundleRight
    BY <1>1, <1>4, Zenon DEF BundleRight
  <1>8. ClosedAreListed /\ OpenAreListed /\ SettledRunsAreBundled
    BY <1>1 DEF ClosedAreListed, OpenAreListed, SettledRunsAreBundled
  <1>. QED
    BY <1>2, <1>3, <1>5, <1>6, <1>7, <1>8 DEF CallInv

LEMMA CallKeepsInv ==
  ASSUME ReplayInv, NEW c \in Clients, Call(c)
  PROVE  ReplayInv'
  <1>1. ClusterInv /\ CallInv
    BY DEF ReplayInv
  <1>2. UNCHANGED clusterVars
    BY DEF Call
  <1>3. ClusterInv' /\ status' = status /\ history' = history
    BY <1>2, CallLeavesCluster
  <1>4. /\ pc = "idle" /\ pc' = "closed" /\ client' = c
        /\ before' = [r \in Runs |-> IF Len(history[r]) < Opened THEN "none"
                                     ELSE status[r]]
        /\ listed' = listed /\ hists' = hists /\ bundle' = bundle
    BY DEF Call
  <1>5. listed = <<>> /\ hists = <<>> /\ DOMAIN bundle = {}
        /\ DOMAIN bundle \subseteq 1..(2 * PageSize)
    BY <1>1, <1>4 DEF CallInv, ListedRight, HistsRight, BundleRight
  <1>6. CallTypes'
    <2>1. before' \in [Runs -> Statuses]
      BY <1>1, <1>4 DEF ClusterInv, Statuses
    <2>2. c \in [sdk : Namespaces, namespace : Namespaces]
      BY ClientsAreTyped
    <2>. QED
      BY <1>4, <2>1, <2>2 DEF CallTypes
  <1>7. BeforeIsPast'
    <2>1. ASSUME NEW r \in Runs
          PROVE  /\ before'[r] # "none" => Len(history'[r]) >= Opened
                 /\ before'[r] \in {"closed", "deleted"} =>
                       status'[r] \in {"closed", "deleted"}
      <3>1. Len(history[r]) \in Nat
        BY <1>1 DEF ClusterInv
      <3>. QED
        BY <1>3, <1>4, <3>1 DEF Opened
    <2>. QED
      BY <2>1 DEF BeforeIsPast
  <1>8. ListedRight'
    BY <1>4, <1>5, SizesAreNumbers DEF ListedRight
  <1>9. HistsRight'
    BY <1>4, <1>5 DEF HistsRight
  <1>10. BundleRight'
    BY <1>4, <1>5 DEF BundleRight
  <1>11. (ClosedAreListed /\ OpenAreListed /\ SettledRunsAreBundled)'
    BY <1>4 DEF ClosedAreListed, OpenAreListed, SettledRunsAreBundled
  <1>. QED
    BY <1>3, <1>6, <1>7, <1>8, <1>9, <1>10, <1>11 DEF ReplayInv, CallInv

LEMMA ListClosedKeepsInv ==
  ASSUME ReplayInv, ListClosed
  PROVE  ReplayInv'
  <1>. DEFINE wanted == Found(client.namespace, "closed")
  <1>1. ClusterInv /\ CallInv
    BY DEF ReplayInv
  <1>2. UNCHANGED clusterVars
    BY DEF ListClosed
  <1>3. ClusterInv' /\ status' = status /\ history' = history
    BY <1>2, CallLeavesCluster
  <1>4. /\ pc = "closed" /\ pc' = "open" /\ client' = client
        /\ before' = before /\ hists' = hists /\ bundle' = bundle
        /\ listed' \in Pages(wanted)
    BY DEF ListClosed
  <1>5. wanted \subseteq this /\ (\A r \in wanted : status[r] = "closed")
        /\ IsFiniteSet(wanted)
    BY FoundAreThis
  <1>6. hists = <<>> /\ DOMAIN bundle = {}
        /\ DOMAIN bundle \subseteq 1..(2 * PageSize)
    BY <1>1, <1>4 DEF CallInv, HistsRight, BundleRight
  <1>7. (client = Dial(Namespace) /\ Cardinality(MayHaveBeenClosed) <= PageSize)
           => /\ wanted = {r \in this : status[r] = "closed"}
              /\ Cardinality(wanted) <= PageSize
    <2>. SUFFICES ASSUME client = Dial(Namespace),
                         Cardinality(MayHaveBeenClosed) <= PageSize
                  PROVE  /\ wanted = {r \in this : status[r] = "closed"}
                         /\ Cardinality(wanted) <= PageSize
      OBVIOUS
    <2>1. wanted = {r \in this : status[r] = "closed"}
      BY ClientsAreTyped DEF Found
    <2>2. wanted \subseteq MayHaveBeenClosed
      BY <2>1 DEF MayHaveBeenClosed
    <2>3. IsFiniteSet(MayHaveBeenClosed)
      <3>1. IsFiniteSet(Runs)
        BY SizesAreNumbers, FS_Interval DEF Runs
      <3>2. MayHaveBeenClosed \subseteq Runs
        BY ThisAreRuns DEF MayHaveBeenClosed
      <3>. QED
        BY <3>1, <3>2, FS_Subset
    <2>4. Cardinality(wanted) <= Cardinality(MayHaveBeenClosed)
      BY <2>2, <2>3, FS_Subset
    <2>5. Cardinality(wanted) \in Nat /\ Cardinality(MayHaveBeenClosed) \in Nat
      BY <1>5, <2>3, FS_CardinalityType
    <2>. QED
      BY <2>1, <2>4, <2>5, SizesAreNumbers
  <1>. HIDE DEF wanted
  <1>8. /\ listed' \in Seq(wanted) /\ Len(listed') \in 0..PageSize
        /\ \A i, j \in 1..Len(listed') : listed'[i] = listed'[j] => i = j
        /\ Cardinality(wanted) <= PageSize =>
              \A r \in wanted : \E j \in 1..Len(listed') : listed'[j] = r
    BY <1>4, <1>5, PageIsRight
  <1>9. CallTypes'
    BY <1>1, <1>4 DEF CallInv, CallTypes
  <1>10. BeforeIsPast'
    BY <1>1, <1>3, <1>4 DEF CallInv, BeforeIsPast
  <1>11. ListedRight'
    <2>1. listed' \in Seq(this) /\ \A j \in 1..Len(listed') : listed'[j] \in wanted
      BY <1>5, <1>8
    <2>. QED
      BY <1>3, <1>4, <1>5, <1>8, <2>1, SizesAreNumbers DEF ListedRight
  <1>12. HistsRight'
    BY <1>4, <1>6, <1>8 DEF HistsRight
  <1>13. BundleRight'
    BY <1>4, <1>6 DEF BundleRight
  <1>14. MayHaveBeenClosed' = MayHaveBeenClosed
    BY <1>3 DEF MayHaveBeenClosed
  <1>15. ClosedAreListed'
    BY <1>3, <1>4, <1>7, <1>8, <1>14 DEF ClosedAreListed, IsListed
  <1>16. (OpenAreListed /\ SettledRunsAreBundled)'
    BY <1>4 DEF OpenAreListed, SettledRunsAreBundled
  <1>. QED
    BY <1>3, <1>9, <1>10, <1>11, <1>12, <1>13, <1>15, <1>16
       DEF ReplayInv, CallInv

LEMMA ListOpenKeepsInv ==
  ASSUME ReplayInv, ListOpen
  PROVE  ReplayInv'
  <1>. DEFINE wanted == Found(client.namespace, "open")
              n == Len(listed)
  <1>1. ClusterInv /\ CallInv
    BY DEF ReplayInv
  <1>2. UNCHANGED clusterVars
    BY DEF ListOpen
  <1>3. ClusterInv' /\ status' = status /\ history' = history
    BY <1>2, CallLeavesCluster
  <1>4. PICK page \in Pages(wanted) : listed' = listed \o page
    BY DEF ListOpen
  <1>5. /\ pc = "open" /\ pc' = "read" /\ client' = client
        /\ before' = before /\ hists' = hists /\ bundle' = bundle
    BY DEF ListOpen
  <1>6. wanted \subseteq this /\ (\A r \in wanted : status[r] = "open")
        /\ IsFiniteSet(wanted)
    BY FoundAreThis
  <1>7. hists = <<>> /\ DOMAIN bundle = {}
        /\ DOMAIN bundle \subseteq 1..(2 * PageSize)
    BY <1>1, <1>5 DEF CallInv, HistsRight, BundleRight
  <1>8. (client = Dial(Namespace) /\ Cardinality(MayHaveBeenOpen) <= PageSize)
           => /\ wanted = {r \in this : status[r] = "open"}
              /\ Cardinality(wanted) <= PageSize
    <2>. SUFFICES ASSUME client = Dial(Namespace),
                         Cardinality(MayHaveBeenOpen) <= PageSize
                  PROVE  /\ wanted = {r \in this : status[r] = "open"}
                         /\ Cardinality(wanted) <= PageSize
      OBVIOUS
    <2>1. wanted = {r \in this : status[r] = "open"}
      BY ClientsAreTyped DEF Found
    <2>2. \A r \in this : status[r] = "open" => before[r] \in {"none", "open"}
      <3>1. \A r \in this : r \in Runs /\ before[r] \in Statuses
        BY <1>1, ThisAreRuns DEF CallInv, CallTypes
      <3>. QED
        BY <1>1, <3>1 DEF CallInv, BeforeIsPast, Statuses
    <2>3. wanted \subseteq MayHaveBeenOpen
      BY <2>1, <2>2 DEF MayHaveBeenOpen
    <2>4. IsFiniteSet(MayHaveBeenOpen)
      <3>1. IsFiniteSet(Runs)
        BY SizesAreNumbers, FS_Interval DEF Runs
      <3>2. MayHaveBeenOpen \subseteq Runs
        BY ThisAreRuns DEF MayHaveBeenOpen
      <3>. QED
        BY <3>1, <3>2, FS_Subset
    <2>5. Cardinality(wanted) <= Cardinality(MayHaveBeenOpen)
      BY <2>3, <2>4, FS_Subset
    <2>6. Cardinality(wanted) \in Nat /\ Cardinality(MayHaveBeenOpen) \in Nat
      BY <1>6, <2>4, FS_CardinalityType
    <2>. QED
      BY <2>1, <2>5, <2>6, SizesAreNumbers
  <1>. HIDE DEF wanted
  <1>9. /\ page \in Seq(wanted) /\ Len(page) \in 0..PageSize
        /\ \A i, j \in 1..Len(page) : page[i] = page[j] => i = j
        /\ Cardinality(wanted) <= PageSize =>
              \A r \in wanted : \E j \in 1..Len(page) : page[j] = r
    BY <1>4, <1>6, PageIsRight
  <1>10. /\ listed \in Seq(this) /\ n \in 0..PageSize
         /\ \A i, j \in 1..n : listed[i] = listed[j] => i = j
         /\ \A j \in 1..n : status[listed[j]] \in {"closed", "deleted"}
    BY <1>1, <1>5, SizesAreNumbers DEF CallInv, ListedRight
  <1>. HIDE DEF n
  <1>11. /\ listed' \in Seq(this) /\ Len(listed') = n + Len(page)
         /\ \A j \in 1..n : listed'[j] = listed[j]
         /\ \A j \in 1..Len(page) : listed'[n + j] = page[j]
    <2>1. page \in Seq(this)
      BY <1>6, <1>9
    <2>. QED
      BY <1>4, <1>10, <2>1 DEF n
  <1>12. ASSUME NEW j \in 1..Len(listed')
         PROVE  \/ /\ j \in 1..n /\ listed'[j] = listed[j]
                   /\ status[listed'[j]] \in {"closed", "deleted"}
                \/ /\ j - n \in 1..Len(page) /\ listed'[j] = page[j - n]
                   /\ status[listed'[j]] = "open"
    <2>1. CASE j <= n
      BY <1>9, <1>10, <1>11, <2>1
    <2>2. CASE j > n
      <3>1. j - n \in 1..Len(page) /\ j = n + (j - n)
        BY <1>9, <1>10, <1>11, <2>2
      <3>2. page[j - n] \in wanted
        BY <1>9, <3>1
      <3>. QED
        BY <1>6, <1>11, <3>1, <3>2
    <2>. QED
      BY <1>9, <1>10, <1>11, <2>1, <2>2
  <1>13. CallTypes'
    BY <1>1, <1>5 DEF CallInv, CallTypes
  <1>14. BeforeIsPast'
    BY <1>1, <1>3, <1>5 DEF CallInv, BeforeIsPast
  <1>15. ListedRight'
    <2>1. ASSUME NEW i \in 1..Len(listed'), NEW j \in 1..Len(listed'),
                 listed'[i] = listed'[j]
          PROVE  i = j
      <3>1. CASE i \in 1..n /\ j \in 1..n
        BY <1>10, <1>11, <2>1, <3>1
      <3>2. CASE i - n \in 1..Len(page) /\ j - n \in 1..Len(page)
                 /\ listed'[i] = page[i - n] /\ listed'[j] = page[j - n]
        <4>1. i - n = j - n
          BY <1>9, <2>1, <3>2
        <4>. QED
          BY <1>9, <1>10, <1>11, <4>1
      <3>. QED
        BY <1>12, <2>1, <3>1, <3>2
    <2>2. Len(listed') <= 2 * PageSize
      BY <1>9, <1>10, <1>11, SizesAreNumbers
    <2>3. \A j \in 1..Len(listed') : status'[listed'[j]] # "none"
      BY <1>3, <1>12
    <2>. QED
      BY <1>5, <1>11, <2>1, <2>2, <2>3 DEF ListedRight
  <1>16. HistsRight'
    BY <1>5, <1>7, <1>9, <1>10, <1>11 DEF HistsRight
  <1>17. BundleRight'
    BY <1>5, <1>7 DEF BundleRight
  <1>18. MayHaveBeenClosed' = MayHaveBeenClosed
         /\ MayHaveBeenOpen' = MayHaveBeenOpen
    BY <1>3, <1>5 DEF MayHaveBeenClosed, MayHaveBeenOpen
  <1>19. ClosedAreListed'
    <2>1. \A r : IsListed(r) => IsListed(r)'
      <3>1. \A j \in 1..Len(listed) : j \in 1..Len(listed')
        BY <1>9, <1>10, <1>11 DEF n
      <3>. QED
        BY <1>11, <3>1 DEF IsListed, n
    <2>. QED
      BY <1>1, <1>3, <1>5, <1>18, <2>1 DEF CallInv, ClosedAreListed
  <1>20. OpenAreListed'
    <2>1. \A j \in 1..Len(page) : n + j \in 1..Len(listed')
      BY <1>9, <1>10, <1>11
    <2>2. \A r : (\E j \in 1..Len(page) : page[j] = r) => IsListed(r)'
      BY <1>11, <2>1 DEF IsListed
    <2>. QED
      BY <1>3, <1>5, <1>8, <1>9, <1>18, <2>2 DEF OpenAreListed
  <1>21. SettledRunsAreBundled'
    BY <1>5 DEF SettledRunsAreBundled
  <1>. QED
    BY <1>3, <1>13, <1>14, <1>15, <1>16, <1>17, <1>19, <1>20, <1>21
       DEF ReplayInv, CallInv

LEMMA ReadHistoryKeepsInv ==
  ASSUME ReplayInv, ReadHistory
  PROVE  ReplayInv'
  <1>. DEFINE k == Len(hists) + 1
              r == listed[k]
              h == history[r]
  <1>1. ClusterInv /\ CallInv
    BY DEF ReplayInv
  <1>2. UNCHANGED clusterVars
    BY DEF ReadHistory
  <1>3. /\ pc = "read" /\ Len(hists) < Len(listed)
        /\ hists' = Append(hists, h)
        /\ pc' = pc /\ client' = client /\ listed' = listed
        /\ bundle' = bundle /\ before' = before
    BY DEF ReadHistory
  <1>4. ClusterInv' /\ status' = status /\ history' = history
        /\ version' = version
        /\ \A g \in Seq(Events) : \A q : Truthful(g, q) => Truthful(g, q)'
    BY <1>2, <1>3, CallLeavesCluster
  <1>5. ListedRight /\ HistsRight
    BY <1>1 DEF CallInv
  <1>6. k \in 1..Len(listed) /\ Len(hists) \in Nat /\ Len(listed) \in Nat
    BY <1>3, <1>5 DEF ListedRight, HistsRight
  <1>7. r \in this /\ r \in Runs /\ status[r] # "none"
    BY <1>5, <1>6, ThisAreRuns DEF ListedRight
  <1>8. h \in Seq(Events) /\ Recorded(h, status[r])
    BY <1>1, <1>7 DEF ClusterInv
  <1>9. Truthful(h, r)
    <2>1. IsHistory(h) /\ (version = 1 => RunByFirst(h))
      BY <1>7, <1>8 DEF Recorded
    <2>2. IsPrefixOf(h, history[r])
      BY <1>8, PrefixOfItself
    <2>3. before[r] # "none" => Len(h) >= Opened
      BY <1>1, <1>7 DEF CallInv, BeforeIsPast
    <2>. QED
      BY <1>7, <2>1, <2>2, <2>3 DEF Truthful
  <1>10. HistsRight'
    <2>. HIDE DEF h, r
    <2>1. /\ hists' \in Seq(Seq(Events)) /\ Len(hists') = k
          /\ hists'[k] = h
          /\ \A j \in 1..Len(hists) :
                hists'[j] = hists[j] /\ hists[j] \in Seq(Events)
      BY <1>3, <1>5, <1>8 DEF HistsRight
    <2>2. ASSUME NEW j \in 1..k
          PROVE  Truthful(hists[j], listed[j])'
      <3>1. CASE j = k
        <4>1. hists'[j] = h /\ listed'[j] = r
          BY <1>3, <2>1, <3>1 DEF r
        <4>. QED
          BY <1>4, <1>8, <1>9, <4>1
      <3>2. CASE j # k
        <4>1. j \in 1..Len(hists)
          BY <1>6, <3>2
        <4>2. hists'[j] = hists[j] /\ listed'[j] = listed[j]
              /\ hists[j] \in Seq(Events)
          BY <1>3, <2>1, <4>1
        <4>3. Truthful(hists[j], listed[j])
          BY <1>5, <4>1 DEF HistsRight
        <4>. QED
          BY <1>4, <4>2, <4>3
      <3>. QED
        BY <3>1, <3>2
    <2>3. Len(hists') <= Len(listed') /\ pc' = "read"
      BY <1>3, <1>6, <2>1
    <2>. QED
      BY <2>1, <2>2, <2>3 DEF HistsRight
  <1>. HIDE DEF h, r, k
  <1>11. CallTypes' /\ BeforeIsPast'
    BY <1>1, <1>3, <1>4 DEF CallInv, CallTypes, BeforeIsPast
  <1>12. ListedRight'
    BY <1>3, <1>4, <1>5 DEF ListedRight
  <1>13. BundleRight'
    <2>1. \A j \in DOMAIN bundle :
             bundle'[j] = bundle[j] /\ bundle[j].history \in Seq(Events)
             /\ Truthful(bundle[j].history, bundle[j].run)
      BY <1>1, <1>3 DEF CallInv, BundleRight
    <2>2. \A j \in DOMAIN bundle : Truthful(bundle[j].history, bundle[j].run)'
      BY <1>4, <2>1
    <2>. QED
      BY <1>1, <1>3, <2>2 DEF CallInv, BundleRight
  <1>14. MayHaveBeenClosed' = MayHaveBeenClosed
         /\ MayHaveBeenOpen' = MayHaveBeenOpen
    BY <1>3, <1>4 DEF MayHaveBeenClosed, MayHaveBeenOpen
  <1>15. (ClosedAreListed /\ OpenAreListed /\ SettledRunsAreBundled)'
    BY <1>1, <1>3, <1>4, <1>14
       DEF CallInv, ClosedAreListed, OpenAreListed, IsListed,
           SettledRunsAreBundled
  <1>. QED
    BY <1>4, <1>10, <1>11, <1>12, <1>13, <1>15 DEF ReplayInv, CallInv

LEMMA FailKeepsInv ==
  ASSUME ReplayInv, Fail
  PROVE  ReplayInv'
  <1>1. ClusterInv /\ CallInv
    BY DEF ReplayInv
  <1>2. UNCHANGED clusterVars
    BY DEF Fail
  <1>3. ClusterInv' /\ status' = status /\ history' = history
    BY <1>2, CallLeavesCluster
  <1>4. /\ pc # "returned" /\ pc' = "error" /\ listed' = <<>> /\ hists' = <<>>
        /\ client' = client /\ bundle' = bundle /\ before' = before
    BY DEF Fail
  <1>5. CallTypes' /\ BeforeIsPast'
    BY <1>1, <1>3, <1>4 DEF CallInv, CallTypes, BeforeIsPast
  <1>6. /\ listed' \in Seq(this) /\ Len(listed') = 0
        /\ hists' \in Seq(Seq(Events)) /\ Len(hists') = 0
    <2>1. (\A S : <<>> \in Seq(S)) /\ Len(<<>>) = 0
      OBVIOUS
    <2>. QED
      BY <1>4, <2>1, Zenon
  <1>7. ListedRight'
    <2>1. 0 <= PageSize /\ 0 <= 2 * PageSize /\ 1..0 = {}
      BY SizesAreNumbers
    <2>. QED
      BY <1>4, <1>6, <2>1, Zenon DEF ListedRight
  <1>8. HistsRight'
    <2>1. 0 <= 0 /\ 1..0 = {}
      OBVIOUS
    <2>. QED
      BY <1>4, <1>6, <2>1, Zenon DEF HistsRight
  <1>9. BundleRight'
    <2>1. DOMAIN bundle = {}
      BY <1>1, <1>4 DEF CallInv, BundleRight
    <2>. QED
      BY <1>4, <2>1 DEF BundleRight
  <1>10. (ClosedAreListed /\ OpenAreListed /\ SettledRunsAreBundled)'
    BY <1>4 DEF ClosedAreListed, OpenAreListed, SettledRunsAreBundled
  <1>. QED
    BY <1>3, <1>5, <1>7, <1>8, <1>9, <1>10 DEF ReplayInv, CallInv

LEMMA ReturnKeepsInv ==
  ASSUME ReplayInv, Return
  PROVE  ReplayInv'
  <1>1. ClusterInv /\ CallInv
    BY DEF ReplayInv
  <1>2. UNCHANGED clusterVars
    BY DEF Return
  <1>3. /\ pc = "read" /\ pc' = "returned" /\ Len(hists) = Len(listed)
        /\ bundle' = [j \in Kept |-> Entry(j)]
        /\ listed' = <<>> /\ hists' = <<>>
        /\ client' = client /\ before' = before
    BY DEF Return
  <1>4. ClusterInv' /\ status' = status /\ history' = history
        /\ version' = version
        /\ \A g \in Seq(Events) : \A q : Truthful(g, q) => Truthful(g, q)'
    BY <1>2, <1>3, CallLeavesCluster
  <1>5. CallTypes' /\ BeforeIsPast'
    BY <1>1, <1>3, <1>4 DEF CallInv, CallTypes, BeforeIsPast
  <1>6. /\ listed' \in Seq(this) /\ Len(listed') = 0
        /\ hists' \in Seq(Seq(Events)) /\ Len(hists') = 0
    <2>1. (\A S : <<>> \in Seq(S)) /\ Len(<<>>) = 0
      OBVIOUS
    <2>. QED
      BY <1>3, <2>1, Zenon
  <1>7. ListedRight'
    <2>1. 0 <= PageSize /\ 0 <= 2 * PageSize /\ 1..0 = {}
      BY SizesAreNumbers
    <2>. QED
      BY <1>3, <1>6, <2>1, Zenon DEF ListedRight
  <1>8. HistsRight'
    <2>1. 0 <= 0 /\ 1..0 = {}
      OBVIOUS
    <2>. QED
      BY <1>3, <1>6, <2>1, Zenon DEF HistsRight
  <1>9. ListedRight /\ HistsRight
    BY <1>1 DEF CallInv
  <1>10. /\ \A j \in 1..Len(hists) :
               hists[j] \in Seq(Events) /\ Truthful(hists[j], listed[j])
         /\ Len(hists) \in Nat /\ DOMAIN hists = 1..Len(hists)
         /\ Len(hists) <= 2 * PageSize
    BY <1>3, <1>9 DEF HistsRight, ListedRight
  <1>11. /\ DOMAIN bundle' = Kept
         /\ \A j \in Kept : /\ bundle'[j].run = listed[j]
                            /\ bundle'[j].history = hists[j]
    BY <1>3 DEF Entry
  <1>12. Kept \subseteq 1..Len(hists)
         /\ \A j \in 1..Len(hists) : Len(hists[j]) >= Opened <=> j \in Kept
    BY <1>10 DEF Kept
  <1>13. BundleRight'
    <2>1. Kept \subseteq 1..(2 * PageSize)
      BY <1>10, <1>12, SizesAreNumbers
    <2>2. ASSUME NEW j \in Kept
          PROVE  /\ bundle'[j].history \in Seq(Events)
                 /\ Truthful(bundle[j].history, bundle[j].run)'
                 /\ Len(bundle'[j].history) >= Opened
      <3>1. /\ hists[j] \in Seq(Events) /\ Truthful(hists[j], listed[j])
            /\ Len(hists[j]) >= Opened
            /\ bundle'[j].run = listed[j] /\ bundle'[j].history = hists[j]
        BY <1>10, <1>11, <1>12
      <3>2. Truthful(bundle[j].history, bundle[j].run)'
        BY <1>4, <3>1
      <3>. QED
        BY <3>1, <3>2
    <2>. QED
      BY <1>3, <1>11, <2>1, <2>2 DEF BundleRight
  <1>14. ASSUME NEW r \in this, IsListed(r), before[r] # "none"
         PROVE  \E j \in DOMAIN bundle' : bundle'[j].run = r
    <2>1. PICK j \in 1..Len(hists) : listed[j] = r
      BY <1>3, <1>14 DEF IsListed
    <2>2. Truthful(hists[j], r)
      BY <1>10, <2>1
    <2>3. j \in Kept
      BY <1>12, <1>14, <2>2 DEF Truthful
    <2>. QED
      BY <1>11, <2>1, <2>3
  <1>15. MayHaveBeenClosed' = MayHaveBeenClosed
         /\ MayHaveBeenOpen' = MayHaveBeenOpen
    BY <1>3, <1>4 DEF MayHaveBeenClosed, MayHaveBeenOpen
  <1>16. SettledRunsAreBundled'
    <2>. SUFFICES ASSUME client = Dial(Namespace), NEW r \in this,
                         before[r] = status[r],
                         \/ /\ status[r] = "closed"
                            /\ Cardinality(MayHaveBeenClosed) <= PageSize
                         \/ /\ status[r] = "open"
                            /\ Cardinality(MayHaveBeenOpen) <= PageSize
                  PROVE  \E j \in DOMAIN bundle' : bundle'[j].run = r
      BY <1>3, <1>4, <1>15 DEF SettledRunsAreBundled
    <2>1. IsListed(r)
      BY <1>1, <1>3 DEF CallInv, ClosedAreListed, OpenAreListed
    <2>. QED
      BY <1>14, <2>1
  <1>17. (ClosedAreListed /\ OpenAreListed)'
    BY <1>3 DEF ClosedAreListed, OpenAreListed
  <1>. QED
    BY <1>4, <1>5, <1>7, <1>8, <1>13, <1>16, <1>17 DEF ReplayInv, CallInv

LEMMA ReplayInvAtFirst == Init => ReplayInv
  BY ClusterInvAtFirst, CallInvAtFirst DEF ReplayInv

LEMMA ReplayInvKept == ReplayInv /\ [Next]_vars => ReplayInv'
  <1>. SUFFICES ASSUME ReplayInv, [Next]_vars
                PROVE  ReplayInv'
    OBVIOUS
  <1>1. CASE Cluster
    <2>1. UNCHANGED callVars
      BY <1>1 DEF Cluster, StartRun, Advance, DeleteRun, Deploy
    <2>. QED
      BY <1>1, <2>1, ClusterKeepsCallInv
  <1>2. CASE \E c \in Clients : Call(c)
    BY <1>2, CallKeepsInv
  <1>3. CASE ListClosed
    BY <1>3, ListClosedKeepsInv
  <1>4. CASE ListOpen
    BY <1>4, ListOpenKeepsInv
  <1>5. CASE ReadHistory
    BY <1>5, ReadHistoryKeepsInv
  <1>6. CASE Fail
    BY <1>6, FailKeepsInv
  <1>7. CASE Return
    BY <1>7, ReturnKeepsInv
  <1>8. CASE UNCHANGED vars
    <2>1. UNCHANGED clusterVars /\ UNCHANGED callVars
      BY <1>8 DEF vars
    <2>. QED
      BY <2>1, ClusterKeepsCallInv
  <1>. QED
    BY <1>1, <1>2, <1>3, <1>4, <1>5, <1>6, <1>7, <1>8 DEF Next, Fetch

(* The inductive invariant of the cluster and the call together.           *)
THEOREM ReplayInvAlways == Spec => []ReplayInv
  BY ReplayInvAtFirst, ReplayInvKept, PTL DEF Spec

-----------------------------------------------------------------------------
(***************************************************************************)
(* What the invariant gives.                                               *)
(***************************************************************************)
LEMMA InvGivesTypes == ReplayInv => TypeOK
  <1>. SUFFICES ASSUME ReplayInv
                PROVE  TypeOK
    OBVIOUS
  <1>1. ClusterInv /\ CallTypes /\ ListedRight /\ HistsRight /\ BundleRight
    BY DEF ReplayInv, CallInv
  <1>2. version \in Versions /\ status \in [Runs -> Statuses]
    BY <1>1 DEF ClusterInv
  <1>3. \A r \in Runs :
           IF status[r] = "none" THEN history[r] = <<>>
           ELSE /\ IsHistory(history[r])
                /\ IsClosed(history[r]) <=> status[r] # "open"
    BY <1>1 DEF ClusterInv, Recorded
  <1>4. Len(listed) <= 2 * PageSize /\ Len(hists) <= Len(listed)
    BY <1>1 DEF ListedRight, HistsRight
  <1>5. \A j \in DOMAIN hists :
           IsHistory(hists[j]) /\ Len(hists[j]) <= Len(history[listed[j]])
    <2>1. DOMAIN hists = 1..Len(hists)
      BY <1>1 DEF HistsRight
    <2>. QED
      BY <1>1, <2>1 DEF HistsRight, Truthful, IsPrefixOf
  <1>. QED
    BY <1>1, <1>2, <1>3, <1>4, <1>5
       DEF CallTypes, BundleRight, TypeOK, Statuses

LEMMA InvGivesTruth == ReplayInv => BundleTellsTheTruth
  BY DEF ReplayInv, CallInv, BundleRight, Truthful, BundleTellsTheTruth

LEMMA InvGivesNoRunTwice == ReplayInv => NoRunTwice
  <1>. SUFFICES ASSUME ReplayInv
                PROVE  NoRunTwice
    OBVIOUS
  <1>1. ListedRight
    BY DEF ReplayInv, CallInv
  <1>2. DOMAIN listed = 1..Len(listed)
    BY <1>1 DEF ListedRight
  <1>. QED
    BY <1>1, <1>2 DEF ListedRight, NoRunTwice

(* The typed method replays in the form that the workflow is declared in.  *)
LEMMA TypedReplayTakesTheForm ==
  ASSUME NEW b, NEW v \in Versions
  PROVE  /\ TypedReplayWorkflow(b, v) = ReplayWith(b, WireForm(v), v)
         /\ TypedReplayWorkflow(b, v) = "nil" <=>
               /\ DOMAIN b # {}
               /\ \A j \in DOMAIN b :
                     Reproduces(b[j].history, WireForm(v), Code[v])
  <1>1. TypedReplayWorkflow(b, v) = ReplayWith(b, WireForm(v), v)
    BY DEF TypedReplayWorkflow, ReplayWorkflow, WireForm
  <1>. QED
    BY <1>1 DEF ReplayWith

LEMMA InvGivesOwnHistoriesReplay == ReplayInv => OwnHistoriesReplay
  <1>. SUFFICES ASSUME ReplayInv, version = 1
                PROVE  TypedReplayWorkflow(bundle, 1) \in {"nil", "no histories"}
    BY DEF OwnHistoriesReplay
  <1>1. \A j \in DOMAIN bundle :
           Reproduces(bundle[j].history, WireForm(1), Code[1])
    BY DEF ReplayInv, CallInv, BundleRight, Truthful, RunByFirst
  <1>2. TypedReplayWorkflow(bundle, 1) = ReplayWith(bundle, WireForm(1), 1)
    BY FirstIsAVersion, TypedReplayTakesTheForm
  <1>. QED
    BY <1>1, <1>2 DEF ReplayWith

(* What the filter does, whatever the bundle is.                           *)
LEMMA FilterIsRight ==
  ASSUME NEW b, NEW v \in Versions
  PROVE  LET f == Filter(b, v)
             Part(S) == [j \in S |-> b[j]]
         IN  /\ \A S \in SUBSET DOMAIN b :
                   TypedReplayWorkflow(Part(S), v) = "nil" =>
                       ~f.error /\ S \subseteq DOMAIN f.bundle
             /\ ~f.error => /\ TypedReplayWorkflow(f.bundle, v) = "nil"
                            /\ f.n = Cardinality(DOMAIN f.bundle)
  <1>. DEFINE Fits(j) == Reproduces(b[j].history, WireForm(v), Code[v])
              kept == {j \in DOMAIN b :
                          TypedReplayWorkflow(Single(b, j), v) = "nil"}
              f == Filter(b, v)
              Part(S) == [j \in S |-> b[j]]
  <1>1. \A j \in DOMAIN b :
           TypedReplayWorkflow(Single(b, j), v) = "nil" <=> Fits(j)
    <2>1. ASSUME NEW j \in DOMAIN b
          PROVE  TypedReplayWorkflow(Single(b, j), v) = "nil" <=> Fits(j)
      <3>1. DOMAIN Single(b, j) = {j} /\ Single(b, j)[j] = b[j]
        BY DEF Single
      <3>2. TypedReplayWorkflow(Single(b, j), v) = "nil" <=>
               /\ DOMAIN Single(b, j) # {}
               /\ \A i \in DOMAIN Single(b, j) :
                     Reproduces(Single(b, j)[i].history, WireForm(v), Code[v])
        BY TypedReplayTakesTheForm
      <3>. QED
        BY <3>1, <3>2
    <2>. QED
      BY <2>1
  <1>2. ASSUME NEW S \in SUBSET DOMAIN b
        PROVE  TypedReplayWorkflow(Part(S), v) = "nil" <=>
                  S # {} /\ \A j \in S : Fits(j)
    <2>1. DOMAIN Part(S) = S /\ \A j \in S : Part(S)[j] = b[j]
      OBVIOUS
    <2>2. TypedReplayWorkflow(Part(S), v) = "nil" <=>
             /\ DOMAIN Part(S) # {}
             /\ \A i \in DOMAIN Part(S) :
                   Reproduces(Part(S)[i].history, WireForm(v), Code[v])
      BY TypedReplayTakesTheForm
    <2>. HIDE DEF Part
    <2>. QED
      BY <2>1, <2>2
  <1>3. kept \in SUBSET DOMAIN b /\ \A j \in DOMAIN b : j \in kept <=> Fits(j)
    BY <1>1
  <1>4. f = Compatible(b, kept)
    BY DEF Filter
  <1>. HIDE DEF kept, Fits, f
  <1>5. CASE kept = {}
    <2>1. f.error
      BY <1>4, <1>5 DEF Compatible
    <2>2. ASSUME NEW S \in SUBSET DOMAIN b
          PROVE  TypedReplayWorkflow(Part(S), v) # "nil"
      <3>. HIDE DEF Part
      <3>. QED
        BY <1>2, <1>3, <1>5
    <2>. QED
      BY <2>1, <2>2 DEF f
  <1>6. CASE kept # {}
    <2>1. f.error = FALSE /\ f.bundle = Part(kept) /\ f.n = Cardinality(kept)
      BY <1>4, <1>6 DEF Compatible
    <2>2. DOMAIN Part(kept) = kept
      OBVIOUS
    <2>. HIDE DEF Part
    <2>3. TypedReplayWorkflow(f.bundle, v) = "nil"
      BY <1>2, <1>3, <1>6, <2>1
    <2>4. ASSUME NEW S \in SUBSET DOMAIN b,
                 TypedReplayWorkflow(Part(S), v) = "nil"
          PROVE  S \subseteq DOMAIN f.bundle
      BY <1>2, <1>3, <2>1, <2>2, <2>4
    <2>. QED
      BY <2>1, <2>2, <2>3, <2>4 DEF f, Part
  <1>. QED
    BY <1>5, <1>6

(* Each variable keeps to what the code can put in it, and a status agrees *)
(* with its execution's history (replaytest.go).                           *)
THEOREM ReplayTypeCorrect == Spec => []TypeOK
  BY ReplayInvAlways, InvGivesTypes, PTL

(* However the cluster moves between the lists and the reads, and whatever *)
(* namespace the client was told, an entry of a bundle is a beginning of   *)
(* the history of the execution it names (replaytest.go:20-81).            *)
THEOREM BundleTellsTheTruthAlways == Spec => []BundleTellsTheTruth
  BY ReplayInvAlways, InvGivesTruth, PTL

(* No execution is on the list twice, for any order of the pages           *)
(* (replaytest.go:20-42).                                                  *)
THEOREM NoRunTwiceAlways == Spec => []NoRunTwice
  BY ReplayInvAlways, InvGivesNoRunTwice, PTL

(* What stayed closed, or open, during a call is in its bundle, unless     *)
(* more were than a page holds (replaytest.go:18-81).                      *)
THEOREM SettledRunsAreBundledAlways == Spec => []SettledRunsAreBundled
  <1>1. ReplayInv => SettledRunsAreBundled
    BY DEF ReplayInv, CallInv
  <1>. QED
    BY <1>1, ReplayInvAlways, PTL

(* What one version has run replays with it, in whichever form it takes    *)
(* its input (replaytest.go:143-180, 182-212).                             *)
THEOREM OwnHistoriesReplayAlways == Spec => []OwnHistoriesReplay
  BY ReplayInvAlways, InvGivesOwnHistoriesReplay, PTL

(* The filter keeps the largest part that replays (replaytest.go:92-132).  *)
THEOREM FilterKeepsTheMostAlways == Spec => []FilterKeepsTheMost
  <1>1. FilterKeepsTheMost
    BY FilterIsRight DEF FilterKeepsTheMost
  <1>. QED
    BY <1>1, PTL
=============================================================================
