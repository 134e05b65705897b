------------------------------- MODULE Replay -------------------------------
(***************************************************************************)
(* The replay tools (replaytest.go): GetWorkflowHistoriesBundle lists the  *)
(* closed and then the open executions of one workflow and reads their     *)
(* histories one by one, while the cluster goes on: executions start,      *)
(* advance, close and are deleted, and new versions of the code are        *)
(* deployed.  The bundle can then be filtered and replayed with any        *)
(* version.  The cluster, and the SDK's replayer, are external.            *)
(***************************************************************************)
EXTENDS Naturals, Sequences, FiniteSets

CONSTANTS
    MaxRuns,        \* bound: executions
    PageSize,       \* MaximumPageSize of both lists
    NumVersions,    \* versions of the workflow's code
    Code,           \* the commands of each version, in order
    Positional,     \* whether each version declares it positional
    this,           \* the executions that are of the workflow asked for
    Namespace,      \* where the executions are
    Namespaces,     \* what a client may name
    DefaultNamespace

Versions == 1..NumVersions
Runs == 1..MaxRuns

ASSUME ReplayAssumption ==
    /\ MaxRuns \in Nat /\ PageSize \in Nat \ {0}
    /\ NumVersions \in Nat \ {0}
    /\ \A v \in Versions :
          /\ Len(Code[v]) \in Nat
          /\ Code[v] = [j \in 1..Len(Code[v]) |-> Code[v][j]]
          /\ \A j \in DOMAIN Code[v] : Code[v][j] # "completed"
    /\ Positional \in [Versions -> BOOLEAN]
    /\ this \subseteq Runs
    /\ Namespace \in Namespaces /\ DefaultNamespace \in Namespaces
    /\ "" \notin Namespaces

VARIABLES
    \* the cluster
    version,        \* what its workers run
    status,         \* of each execution
    history,        \* their events
    \* a call of GetWorkflowHistoriesBundle
    pc,
    client,
    listed,         \* allExecutions
    hists,          \* the histories read so far
    bundle,         \* position in allExecutions -> what is kept of it
    before          \* what each execution was when the call began

clusterVars == <<version, status, history>>
callVars == <<pc, client, listed, hists, bundle, before>>
vars == <<clusterVars, callVars>>

WireForm(v) == IF Positional[v] THEN "positional" ELSE "struct"

(* An execution of another workflow is open all the time.                  *)
NoRun == [r \in Runs |-> IF r \in this THEN "none" ELSE "open"]

(* client.go: the namespace that the SDK client uses, and the one that is  *)
(* written down next to it.                                                *)
NamespaceOr(namespace) ==
    IF namespace = "" THEN DefaultNamespace ELSE namespace

Dial(namespace) ==
    [sdk |-> NamespaceOr(namespace), namespace |-> NamespaceOr(namespace)]

NewFromSDK(sdk, namespace) ==
    [sdk |-> sdk, namespace |-> NamespaceOr(namespace)]

Clients ==
    {Dial(n) : n \in Namespaces \cup {""}} \cup
    {NewFromSDK(s, n) : s \in Namespaces, n \in Namespaces \cup {""}}

Init ==
    /\ version = 1
    /\ status = NoRun
    /\ history = [r \in Runs |->
                    IF r \in this THEN <<>>
                    ELSE <<WireForm(1), "scheduled", "taken">>]
    /\ pc = "idle"
    /\ client = Dial("")
    /\ listed = <<>>
    /\ hists = <<>>
    /\ bundle = <<>>
    /\ before = NoRun

-----------------------------------------------------------------------------
(***************************************************************************)
(* The cluster (external).  A history starts with two events, the start    *)
(* and its first workflow task; the third says that a worker has taken it. *)
(***************************************************************************)
Opened == 3

IsClosed(h) == h # <<>> /\ h[Len(h)] = "completed"

Commands(h) ==
    SubSeq(h, Opened + 1, IF IsClosed(h) THEN Len(h) - 1 ELSE Len(h))

(* What the SDK makes of a history, with a function that takes this form   *)
(* and runs this code: the input must decode, and every command must be    *)
(* the one that the code gives.                                            *)
Reproduces(h, form, code) ==
    /\ h[1] = form
    /\ Len(Commands(h)) <= Len(code)
    /\ \A j \in DOMAIN Commands(h) : Commands(h)[j] = code[j]
    /\ IsClosed(h) => Len(Commands(h)) = Len(code)

NextEvent(h) ==
    IF Len(h) < Opened THEN "taken"
    ELSE IF Len(Commands(h)) < Len(Code[version])
         THEN Code[version][Len(Commands(h)) + 1] ELSE "completed"

StartRun(r) ==
    /\ status[r] = "none"
    /\ \A q \in 1..(r - 1) : status[q] # "none"
    /\ status' = [status EXCEPT ![r] = "open"]
    /\ history' = [history EXCEPT ![r] = <<WireForm(version), "scheduled">>]
    /\ UNCHANGED <<version, callVars>>

(* A worker that cannot reproduce a history leaves the execution blocked.  *)
Advance(r) ==
    /\ status[r] = "open"
    /\ Reproduces(history[r], WireForm(version), Code[version])
    /\ history' = [history EXCEPT ![r] = Append(@, NextEvent(history[r]))]
    /\ status' = [status EXCEPT ![r] =
                     IF IsClosed(history'[r]) THEN "closed" ELSE @]
    /\ UNCHANGED <<version, callVars>>

(* The retention of a closed execution ends; nothing else is deleted.      *)
DeleteRun(r) ==
    /\ status[r] = "closed"
    /\ status' = [status EXCEPT ![r] = "deleted"]
    /\ UNCHANGED <<version, history, callVars>>

Deploy ==
    /\ version < NumVersions
    /\ version' = version + 1
    /\ UNCHANGED <<status, history, callVars>>

(* One page of a list, in whatever order the cluster has: all that is      *)
(* wanted, unless that is more than the page holds.                        *)
Pages(wanted) ==
    {page \in UNION {[1..n -> wanted] : n \in 0..PageSize} :
        /\ \A i, j \in DOMAIN page : page[i] = page[j] => i = j
        /\ Len(page) < PageSize =>
              \A r \in wanted : \E j \in DOMAIN page : page[j] = r}

(* What a list request for the workflow's name finds in a namespace.       *)
Found(namespace, which) ==
    IF namespace = Namespace
    THEN {r \in this : status[r] = which} ELSE {}

-----------------------------------------------------------------------------
(***************************************************************************)
(* GetWorkflowHistoriesBundle.                                             *)
(***************************************************************************)
Call(c) ==
    /\ pc = "idle"
    /\ pc' = "closed"
    /\ client' = c
    /\ before' = [r \in Runs |-> IF Len(history[r]) < Opened THEN "none"
                                 ELSE status[r]]
    /\ UNCHANGED <<clusterVars, listed, hists, bundle>>

ListClosed ==
    /\ pc = "closed"
    /\ pc' = "open"
    /\ listed' \in Pages(Found(client.namespace, "closed"))
    /\ UNCHANGED <<clusterVars, client, hists, bundle, before>>

(* Variant: the second list is not restricted to open executions.          *)
ListAll ==
    /\ pc = "open"
    /\ pc' = "read"
    /\ \E page \in Pages(Found(client.namespace, "closed") \cup
                          Found(client.namespace, "open")) :
          listed' = listed \o page
    /\ UNCHANGED <<clusterVars, client, hists, bundle, before>>

ListOpen ==
    /\ pc = "open"
    /\ pc' = "read"
    /\ \E page \in Pages(Found(client.namespace, "open")) :
          listed' = listed \o page
    /\ UNCHANGED <<clusterVars, client, hists, bundle, before>>

(* Whether the history is still there, in the SDK client's own namespace.  *)
Readable(r) == client.sdk = Namespace /\ status[r] # "deleted"

(* Variant: the loop's variable stays at the first entry.                  *)
ReadFirstHistory ==
    LET r == listed[1]
    IN  /\ pc = "read"
        /\ Len(hists) < Len(listed)
        /\ Readable(r)
        /\ hists' = Append(hists, history[r])
        /\ UNCHANGED <<clusterVars, pc, client, listed, bundle, before>>

(* All pages of one history, as it was when the first was asked for.       *)
ReadHistory ==
    LET r == listed[Len(hists) + 1]
    IN  /\ pc = "read"
        /\ Len(hists) < Len(listed)
        /\ Readable(r)
        /\ hists' = Append(hists, history[r])
        /\ UNCHANGED <<clusterVars, pc, client, listed, bundle, before>>

(* Any error ends the call without a bundle: a history that is gone, or a  *)
(* request that fails.                                                     *)
Fail ==
    /\ pc \in {"closed", "open", "read"}
    /\ pc' = "error"
    /\ listed' = <<>> /\ hists' = <<>>
    /\ UNCHANGED <<clusterVars, client, bundle, before>>

(* Variant: histories with a worker's first event only are left out too.   *)
LongerHistories == {j \in DOMAIN hists : Len(hists[j]) > Opened}

(* Histories that the replayer would refuse are left out.                  *)
Kept == {j \in DOMAIN hists : Len(hists[j]) >= Opened}

(* Variant: what is kept is counted instead of what was listed.            *)
EntryAmongKept(j) ==
    [run |-> listed[Cardinality({i \in Kept : i <= j})], history |-> hists[j]]

Entry(j) == [run |-> listed[j], history |-> hists[j]]

Return ==
    /\ pc = "read"
    /\ Len(hists) = Len(listed)
    /\ pc' = "returned"
    /\ bundle' = [j \in Kept |-> Entry(j)]
    /\ listed' = <<>> /\ hists' = <<>>
    /\ UNCHANGED <<clusterVars, client, before>>

-----------------------------------------------------------------------------
(***************************************************************************)
(* What is done with a bundle.                                             *)
(***************************************************************************)

(* replayWorkflow, with a function that takes the given form.              *)
ReplayWith(b, form, v) ==
    IF DOMAIN b = {} THEN "no histories"
    ELSE IF \A j \in DOMAIN b : Reproduces(b[j].history, form, Code[v])
         THEN "nil" ELSE "error"

(* The package's ReplayWorkflow takes the implementation as it is.         *)
ReplayWorkflow(b, v) == ReplayWith(b, "struct", v)

(* Variant: the declaration's form is forgotten.                           *)
ReplayUnwrapped(b, v) == ReplayWith(b, "struct", v)

(* The method wraps the implementation of a positional workflow.           *)
TypedReplayWorkflow(b, v) ==
    IF Positional[v] THEN ReplayWith(b, "positional", v)
                     ELSE ReplayWorkflow(b, v)

Single(b, j) == [i \in {j} |-> b[i]]

Compatible(b, kept) ==
    IF kept = {}
    THEN [bundle |-> <<>>, n |-> Cardinality(DOMAIN b), error |-> TRUE]
    ELSE [bundle |-> [j \in kept |-> b[j]],
          n |-> Cardinality(kept), error |-> FALSE]

(* Variant: the callback is given the whole bundle.                        *)
FilterByWhole(b, v) ==
    Compatible(b, {j \in DOMAIN b : TypedReplayWorkflow(b, v) = "nil"})

(* FilterWorkflowHistoriesBundle, with the replay by some version's typed  *)
(* declaration as the callback.                                            *)
Filter(b, v) ==
    Compatible(b, {j \in DOMAIN b : TypedReplayWorkflow(Single(b, j), v) = "nil"})

-----------------------------------------------------------------------------
Cluster ==
    \/ \E r \in this : StartRun(r) \/ Advance(r) \/ DeleteRun(r)
    \/ Deploy

Fetch ==
    \/ \E c \in Clients : Call(c)
    \/ ListClosed
    \/ ListOpen
    \/ ReadHistory
    \/ Fail
    \/ Return

Next == Cluster \/ Fetch

(* One call, from any state of the cluster.                                *)
Spec == Init /\ [][Next]_vars

-----------------------------------------------------------------------------
IsHistory(h) ==
    /\ h[1] \in {"struct", "positional"}
    /\ Len(h) >= 2

TypeOK ==
    /\ version \in Versions
    /\ status \in [Runs -> {"none", "open", "closed", "deleted"}]
    /\ \A r \in Runs :
          IF status[r] = "none" THEN history[r] = <<>>
          ELSE /\ IsHistory(history[r])
               /\ IsClosed(history[r]) <=> status[r] # "open"
    /\ pc \in {"idle", "closed", "open", "read", "returned", "error"}
    /\ client \in [sdk : Namespaces, namespace : Namespaces]
    /\ Len(listed) <= 2 * PageSize
    /\ Len(hists) <= Len(listed)
    /\ \A j \in DOMAIN hists :
          IsHistory(hists[j]) /\ Len(hists[j]) <= Len(history[listed[j]])
    /\ DOMAIN bundle \subseteq 1..(2 * PageSize)

IsPrefixOf(g, h) == Len(g) <= Len(h) /\ \A n \in DOMAIN g : g[n] = h[n]

(* Each entry of a bundle is a true beginning of the history of the very   *)
(* execution it names, of the workflow asked for, with the events that the *)
(* replayer needs; however the cluster moved between the three stages, and *)
(* whatever namespace the client was told (replaytest.go:20-81,            *)
(* client.go:43-47).                                                       *)
BundleTellsTheTruth ==
    \A j \in DOMAIN bundle :
        /\ bundle[j].run \in this
        /\ IsPrefixOf(bundle[j].history, history[bundle[j].run])
        /\ Len(bundle[j].history) >= Opened

(* No execution is bundled twice: one that closes between the two lists    *)
(* is in neither, never in both (replaytest.go:20-42).                     *)
NoRunTwice ==
    \A i, j \in DOMAIN listed : listed[i] = listed[j] => i = j

(* An execution that a worker has taken before the call, and that is       *)
(* closed throughout, or open throughout, is in the bundle, unless more    *)
(* were than a page holds; one that closes during the call need not be     *)
(* (replaytest.go:18-81).                                                  *)
MayHaveBeenClosed == {r \in this : status[r] \in {"closed", "deleted"}}

MayHaveBeenOpen ==
    {r \in this : before[r] \in {"none", "open"} /\ status[r] # "none"}

SettledRunsAreBundled ==
    (pc = "returned" /\ client = Dial(Namespace)) =>
        \A r \in this :
            (/\ before[r] = status[r]
             /\ \/ /\ status[r] = "closed"
                   /\ Cardinality(MayHaveBeenClosed) <= PageSize
                \/ /\ status[r] = "open"
                   /\ Cardinality(MayHaveBeenOpen) <= PageSize)
                => \E j \in DOMAIN bundle : bundle[j].run = r

(* What only one version of the code has run replays with that version,    *)
(* whenever the histories were taken, open or closed, and in whichever     *)
(* form the workflow is declared (replaytest.go:143-180, 182-212).         *)
OwnHistoriesReplay ==
    (pc = "returned" /\ version = 1) =>
        TypedReplayWorkflow(bundle, 1) \in {"nil", "no histories"}

(* A filtered bundle is the largest part of the bundle that replays with   *)
(* the version it was filtered for, its length is what the filter says,    *)
(* and there is an error exactly if no part does (replaytest.go:92-132).   *)
FilterKeepsTheMost ==
    pc = "returned" =>
        \A v \in Versions :
            LET f == Filter(bundle, v)
                Part(S) == [j \in S |-> bundle[j]]
            IN  /\ \A S \in SUBSET DOMAIN bundle :
                      TypedReplayWorkflow(Part(S), v) = "nil" =>
                          ~f.error /\ S \subseteq DOMAIN f.bundle
                /\ ~f.error => /\ TypedReplayWorkflow(f.bundle, v) = "nil"
                               /\ f.n = Cardinality(DOMAIN f.bundle)
=============================================================================
