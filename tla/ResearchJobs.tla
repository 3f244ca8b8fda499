---------------------------- MODULE ResearchJobs ----------------------------
(***************************************************************************)
(* Research jobs of one SubagentOrchestrator (subagents.py), with its queue*)
(* (orchestration.py), its tool router (tools.py), the collection tool and *)
(* its budget file (collection.py), and the registry that their candidates *)
(* reach (AlphaRegistry).                                                  *)
(*                                                                         *)
(* Several runs may be going on, and the calls of one worker are made by   *)
(* threads, which can still be at it when the worker has returned.  The    *)
(* budget file is shared with processes of the command line, which may die *)
(* and leave the child that does their requests behind.                    *)
(*                                                                         *)
(* Of the four quantities of a usage, trials and data cost are kept; that  *)
(* the time or the tokens are over budget may happen to any run.  Money,   *)
(* bytes and trials are small integers.                                    *)
(***************************************************************************)
EXTENDS AlphaRegistry, FiniteSetsExt

CONSTANTS
    Jobs, KindOf, InputOf,   \* job ids, their agent_kind and input_snapshot_hash
    MaxTrials, MaxDataCost,  \* of the jobs' ResearchBudget
    Local,                   \* kinds whose registered worker is a LocalProposalWorker
    TextEvent,               \* the kind whose local agent makes at most one proposal
    Calls, JobOf,            \* tool calls and the job of each
    Tools, Bound, MayCall,   \* registered tools, their max_cost_usd, ToolPolicy._ALLOWED
    Fetch,                   \* PublicDocumentCollectionTool
    Overrun,                 \* bound: how far a tool may exceed its maximum
    MaxOwnCost,              \* bound: data cost a worker reports of its own
    CliFetches,              \* collections by the command line
    MaxAttempts, CallBytes, TotalBytes, MaxRedirects,  \* CollectionPolicy
    MaxStarted               \* bound: jobs, calls and collections ever started

ASSUME JobsAssumption ==
    /\ IsFiniteSet(Candidates) /\ IsFiniteSet(Calls)
    /\ JobOf \in [Calls -> Jobs] /\ None \notin Tools
    /\ \A t \in Tools : Bound[t] \in Nat
    /\ \A j \in Jobs : MaxDataCost[j] \in Nat /\ MaxTrials[j] \in Nat \ {0}
ASSUME CollectionAssumption ==
    /\ {MaxAttempts, CallBytes, TotalBytes} \subseteq Nat \ {0} /\ CallBytes <= TotalBytes
    /\ MaxRedirects \in 0..5 /\ Calls \cap CliFetches = {}

VARIABLES
    job,      \* a job's run: where it is, and the worker's result
    usage,    \* ResearchQueue._usage
    cost,     \* ToolRouter._data_costs
    blocked,  \* ToolRouter._blocked_jobs
    call,     \* where a tool call is, and its tool
    paid,     \* what the tool's provider has charged for a call
    attempt,  \* the row of a collection in the budget file
    fetch,    \* where the collecting process is
    child     \* its child: what it does, the bytes and the redirects it has left

registryVars == <<status, events>>
jobVars == <<job, usage>>
routerVars == <<cost, blocked, call, paid>>
fetchVars == <<attempt, fetch, child>>
vars == <<registryVars, jobVars, routerVars, fetchVars>>

Fetches == Calls \cup CliFetches
Zero == [trials |-> 0, cost |-> 0]
NewJob == [at |-> "new", batch |-> {}, sound |-> TRUE, total |-> Zero]
NoAttempt == [status |-> "none", bytes |-> 0]
NoChild == [at |-> "none", left |-> CallBytes, redirects |-> MaxRedirects]

Usages == [trials: Nat, cost: Nat]
JobRuns == [at: {"new", "queued", "running", "recording", "publishing", "completed", "failed"},
            batch: SUBSET Candidates, sound: BOOLEAN, total: Usages]
CallStates == [at: {"idle", "trace", "execute", "overran", "settle", "returned", "raised"},
               tool: Tools \cup {None}]
Attempts == [status: {"none", "reserved", "collected", "failed"}, bytes: 0..CallBytes]
FetchStates == {"idle", "waiting", "stop", "collected", "failed", "ended", "raised"}
ChildStates == [at: {"none", "robots", "page", "answered", "gone"},
                left: 0..CallBytes, redirects: 0..MaxRedirects]

JobsTypeOK == job \in [Jobs -> JobRuns] /\ usage \in [Jobs -> Usages]
RouterTypeOK ==
    /\ cost \in [Jobs -> Nat] /\ blocked \subseteq Jobs
    /\ call \in [Calls -> CallStates] /\ paid \in [Calls -> Nat]
CollectionTypeOK ==
    /\ attempt \in [Fetches -> Attempts] /\ fetch \in [Fetches -> FetchStates]
    /\ child \in [Fetches -> ChildStates]

TypeOK == RegistryTypeOK /\ JobsTypeOK /\ RouterTypeOK /\ CollectionTypeOK

Init ==
    /\ RegistryInit
    /\ job = [j \in Jobs |-> NewJob]
    /\ usage = [j \in Jobs |-> Zero]
    /\ cost = [j \in Jobs |-> 0]
    /\ blocked = {}
    /\ call = [c \in Calls |-> [at |-> "idle", tool |-> None]]
    /\ paid = [c \in Calls |-> 0]
    /\ attempt = [f \in Fetches |-> NoAttempt]
    /\ fetch = [f \in Fetches |-> "idle"]
    /\ child = [f \in Fetches |-> NoChild]

-----------------------------------------------------------------------------
(* SubagentOrchestrator. *)

Goes(j, at) == job' = [job EXCEPT ![j].at = at]

MayStart ==
    Cardinality({j \in Jobs : job[j].at # "new"}) + Cardinality({c \in Calls : call[c].at # "idle"})
        + Cardinality({f \in CliFetches : fetch[f] # "idle"}) < MaxStarted

\* A job id is bound to one task, in the orchestrator, the router and the queue.
Submit(j) ==
    /\ job[j].at = "new"
    /\ MayStart
    /\ Goes(j, "queued")
    /\ UNCHANGED <<usage, registryVars, routerVars, fetchVars>>

\* The queue is first in, first out: any of the jobs may have come first.
Claim(j) ==
    /\ job[j].at = "queued"
    /\ Goes(j, "running")
    /\ UNCHANGED <<usage, registryVars, routerVars, fetchVars>>

SlipTotal(batch, trials, own, data) == [trials |-> trials, cost |-> own + data]

TotalUsage(batch, trials, own, data) ==
    [trials |-> Max({Cardinality(batch), trials}), cost |-> own + data]

\* The data cost is read from the router once the worker has returned.
Returns(j, batch, sound, trials, own) ==
    /\ job[j].at = "running"
    /\ job' = [job EXCEPT ![j] = [at |-> "recording", batch |-> batch, sound |-> sound,
                                  total |-> TotalUsage(batch, trials, own, cost[j])]]
    /\ UNCHANGED <<usage, registryVars, routerVars, fetchVars>>

Fresh(c) == status[c] = "none" /\ \A j \in Jobs : c \notin job[j].batch
Fitting(j) == {c \in Candidates : SnapshotOf[c] = InputOf[j]}

\* The proposals of a local agent have new ids, the snapshot of the job, and
\* lineages of its context; a text agent makes one of all its events.
LocalProposals(j) ==
    {batch \in SUBSET {c \in Fitting(j) : Fresh(c)} :
        KindOf[j] = TextEvent => Cardinality(batch) <= 1}

LocalResult(j) ==
    /\ KindOf[j] \in Local
    /\ \E batch \in LocalProposals(j) : Returns(j, batch, TRUE, Cardinality(batch), 0)

\* A dispatcher may return any candidates, also registered ones, and of another
\* status, agent kind or snapshot; and it reports what it likes.
DispatchedResult(j) ==
    /\ KindOf[j] \notin Local
    /\ \E batch \in SUBSET Candidates, sound \in BOOLEAN, trials \in {0, MaxTrials[j] + 1},
          own \in 0..MaxOwnCost :
        Returns(j, batch, sound /\ batch \subseteq Fitting(j), trials, own)

Within(j) ==
    /\ job[j].total.trials <= MaxTrials[j]
    /\ job[j].total.cost <= MaxDataCost[j]

RecordUsage(j) ==
    /\ job[j].at = "recording"
    /\ Within(j)
    /\ job[j].total.trials >= usage[j].trials /\ job[j].total.cost >= usage[j].cost
    /\ usage' = [usage EXCEPT ![j] = job[j].total]
    /\ Goes(j, "publishing")
    /\ UNCHANGED <<registryVars, routerVars, fetchVars>>

\* The candidates are checked before any is published; the registry takes them all
\* or raises.
Publish(j) ==
    /\ job[j].at = "publishing"
    /\ job[j].sound
    /\ RegisterBatch(job[j].batch)
    /\ job' = [job EXCEPT ![j] = [NewJob EXCEPT !.at = "completed", !.batch = job[j].batch]]
    /\ UNCHANGED <<usage, routerVars, fetchVars>>

\* No worker for the kind, or it raises; usage over budget, of time and tokens, too;
\* a batch that is refused.
RunFails(j) ==
    /\ \/ job[j].at \in {"running", "recording"}
       \/ /\ job[j].at = "publishing"
          /\ ~job[j].sound \/ \E c \in job[j].batch : status[c] # "none"
    /\ job' = [job EXCEPT ![j] = [NewJob EXCEPT !.at = "failed"]]
    /\ UNCHANGED <<usage, registryVars, routerVars, fetchVars>>

JobStep(j) ==
    \/ Submit(j) \/ Claim(j)
    \/ LocalResult(j) \/ DispatchedResult(j)
    \/ RecordUsage(j) \/ Publish(j) \/ RunFails(j)

-----------------------------------------------------------------------------
(* ToolRouter.execute. *)

CallGoes(c, at) == call' = [call EXCEPT ![c].at = at]
Charge(c, amount) == cost' = [cost EXCEPT ![JobOf[c]] = @ + amount]
BoundOf(c) == Bound[call[c].tool]

\* The bound is reserved under the router's lock, if the budget still has it.
Reserve(c, tool) ==
    /\ call[c].at = "idle"
    /\ MayStart
    /\ job[JobOf[c]].at \notin {"new", "queued"}
    /\ <<KindOf[JobOf[c]], tool>> \in MayCall
    /\ JobOf[c] \notin blocked
    /\ cost[JobOf[c]] + Bound[tool] <= MaxDataCost[JobOf[c]]
    /\ Charge(c, Bound[tool])
    /\ call' = [call EXCEPT ![c] = [at |-> "trace", tool |-> tool]]
    /\ UNCHANGED <<blocked, paid, registryVars, jobVars, fetchVars>>

Traced(c) ==
    /\ call[c].at = "trace"
    /\ CallGoes(c, "execute")
    /\ UNCHANGED <<cost, blocked, paid, registryVars, jobVars, fetchVars>>

\* The tool of a provider returns a result with its cost.
Execute(c, amount) ==
    /\ call[c].at = "execute"
    /\ call[c].tool # Fetch
    /\ amount <= BoundOf(c) + Overrun
    /\ paid' = [paid EXCEPT ![c] = amount]
    /\ CallGoes(c, IF amount > BoundOf(c) THEN "overran" ELSE "settle")
    /\ UNCHANGED <<cost, blocked, registryVars, jobVars, fetchVars>>

\* A collection costs nothing, also one that failed.
Collected(c) ==
    /\ call[c].at = "execute"
    /\ call[c].tool = Fetch
    /\ fetch[c] = "ended"
    /\ CallGoes(c, "settle")
    /\ UNCHANGED <<cost, blocked, paid, registryVars, jobVars, fetchVars>>

Overran(c) ==
    /\ call[c].at = "overran"
    /\ Charge(c, paid[c] - BoundOf(c))
    /\ blocked' = blocked \cup {JobOf[c]}
    /\ CallGoes(c, "raised")
    /\ UNCHANGED <<paid, registryVars, jobVars, fetchVars>>

\* What a failing call has cost is not known, so its reservation stays; a failure
\* that cannot be traced blocks the job.
Raise(c, amount, traced) ==
    /\ paid' = [paid EXCEPT ![c] = amount]
    /\ blocked' = IF traced THEN blocked ELSE blocked \cup {JobOf[c]}
    /\ CallGoes(c, "raised")
    /\ UNCHANGED <<cost, registryVars, jobVars, fetchVars>>

TraceFails(c, traced) ==
    /\ call[c].at \in {"trace", "settle"}
    /\ Raise(c, paid[c], traced)

ToolFails(c, amount, traced) ==
    /\ call[c].at = "execute"
    /\ IF call[c].tool = Fetch THEN fetch[c] = "raised" /\ amount = 0 ELSE amount <= BoundOf(c)
    /\ Raise(c, amount, traced)

SlipSettle(c) ==
    /\ call[c].at \in {"settle", "raised"}
    /\ Charge(c, (IF call[c].at = "settle" THEN paid[c] ELSE 0) - BoundOf(c))
    /\ CallGoes(c, "returned")
    /\ UNCHANGED <<blocked, paid, registryVars, jobVars, fetchVars>>

\* Under the lock again: other calls of the job may have come between.
Settle(c) ==
    /\ call[c].at = "settle"
    /\ Charge(c, paid[c] - BoundOf(c))
    /\ CallGoes(c, "returned")
    /\ UNCHANGED <<blocked, paid, registryVars, jobVars, fetchVars>>

Amounts == 0..(Max({Bound[t] : t \in Tools} \cup {0}) + Overrun)

CallStep(c) ==
    \/ \E tool \in Tools : Reserve(c, tool)
    \/ Traced(c)
    \/ \E amount \in Amounts : Execute(c, amount)
    \/ Collected(c) \/ Overran(c)
    \/ \E traced \in BOOLEAN : TraceFails(c, traced)
    \/ \E amount \in Amounts, traced \in BOOLEAN : ToolFails(c, amount, traced)
    \/ Settle(c)

-----------------------------------------------------------------------------
(* PublicDocumentCollectionTool.execute and its child. *)

Rows == {f \in Fetches : attempt[f] # NoAttempt}
Charged == MapThenSumSet(LAMBDA f : attempt[f].bytes, Rows)
FetchGoes(f, at) == fetch' = [fetch EXCEPT ![f] = at]
Starts(f) ==
    /\ fetch[f] = "idle"
    /\ IF f \in Calls THEN call[f].at = "execute" /\ call[f].tool = Fetch ELSE MayStart

HasBudget ==
    /\ Cardinality(Rows) < MaxAttempts
    /\ Charged + CallBytes <= TotalBytes

\* One immediate transaction, before the child that does the requests is started.
ReserveAttempt(f) ==
    /\ Starts(f)
    /\ HasBudget
    /\ attempt' = [attempt EXCEPT ![f] = [status |-> "reserved", bytes |-> CallBytes]]
    /\ FetchGoes(f, "waiting")
    /\ child' = [child EXCEPT ![f].at = "robots"]
    /\ UNCHANGED <<registryVars, jobVars, routerVars>>

Exhausted(f) ==
    /\ Starts(f)
    /\ ~HasBudget
    /\ FetchGoes(f, "raised")
    /\ UNCHANGED <<attempt, child, registryVars, jobVars, routerVars>>

\* A response of n bytes, after the host's pacing.  The robots document of an origin
\* comes first, and must be there or known to be missing, and allow the page.
Robots(f, n) ==
    /\ child[f].at = "robots"
    /\ 0 < child[f].left /\ n <= child[f].left
    /\ child' = [child EXCEPT ![f].at = "page", ![f].left = @ - n]
    /\ UNCHANGED <<attempt, fetch, registryVars, jobVars, routerVars>>

Page(f, n) ==
    /\ child[f].at = "page"
    /\ 0 < child[f].left /\ n <= child[f].left
    /\ child' = [child EXCEPT ![f].at = "answered", ![f].left = @ - n]
    /\ UNCHANGED <<attempt, fetch, registryVars, jobVars, routerVars>>

\* To another origin, or to another page of one whose robots document is known.
Redirect(f, n, to) ==
    /\ child[f].at = "page"
    /\ 0 < child[f].left /\ n <= child[f].left
    /\ 0 < child[f].redirects
    /\ child' = [child EXCEPT ![f] = [at |-> to, left |-> @.left - n, redirects |-> @.redirects - 1]]
    /\ UNCHANGED <<attempt, fetch, registryVars, jobVars, routerVars>>

\* It is refused, meets an error, a limit or its deadline, or exits.
ChildFails(f) ==
    /\ child[f].at \in {"robots", "page"}
    /\ child' = [child EXCEPT ![f].at = "gone"]
    /\ UNCHANGED <<attempt, fetch, registryVars, jobVars, routerVars>>

Answered(f) ==
    /\ fetch[f] = "waiting"
    /\ child[f].at \in {"answered", "gone"}
    /\ FetchGoes(f, IF child[f].at = "answered" THEN "collected" ELSE "failed")
    /\ UNCHANGED <<attempt, child, registryVars, jobVars, routerVars>>

TimesOut(f) ==
    /\ fetch[f] = "waiting"
    /\ FetchGoes(f, "stop")
    /\ UNCHANGED <<attempt, child, registryVars, jobVars, routerVars>>

Stop(f) ==
    /\ fetch[f] = "stop"
    /\ child' = [child EXCEPT ![f].at = "gone"]
    /\ FetchGoes(f, "failed")
    /\ UNCHANGED <<attempt, registryVars, jobVars, routerVars>>

SlipActualBytes(f) == IF fetch[f] = "collected" THEN CallBytes - child[f].left ELSE 0

\* Only what a child has reported is given back.
ActualBytes(f) == IF fetch[f] = "collected" THEN CallBytes - child[f].left ELSE CallBytes

Finish(f) ==
    /\ fetch[f] \in {"collected", "failed"}
    /\ attempt[f].status = "reserved"
    /\ attempt' = [attempt EXCEPT ![f] = [status |-> fetch[f], bytes |-> ActualBytes(f)]]
    /\ FetchGoes(f, "ended")
    /\ UNCHANGED <<child, registryVars, jobVars, routerVars>>

\* A body or the manifest cannot be stored.
StoreFails(f) ==
    /\ fetch[f] \in {"collected", "failed"}
    /\ FetchGoes(f, "raised")
    /\ UNCHANGED <<attempt, child, registryVars, jobVars, routerVars>>

\* Its child goes on until it has answered or failed.
FetchDies(f) ==
    /\ f \in CliFetches
    /\ fetch[f] \notin {"idle", "ended", "raised"}
    /\ FetchGoes(f, "raised")
    /\ UNCHANGED <<attempt, child, registryVars, jobVars, routerVars>>

FetchStep(f) ==
    \/ ReserveAttempt(f) \/ Exhausted(f)
    \/ \E n \in 0..CallBytes :
         \/ Robots(f, n) \/ Page(f, n)
         \/ \E to \in {"robots", "page"} : Redirect(f, n, to)
    \/ ChildFails(f) \/ Answered(f) \/ TimesOut(f) \/ Stop(f)
    \/ Finish(f) \/ StoreFails(f) \/ FetchDies(f)

-----------------------------------------------------------------------------
Next ==
    \/ \E j \in Jobs : JobStep(j)
    \/ \E c \in Calls : CallStep(c)
    \/ \E f \in Fetches : FetchStep(f)

Spec == Init /\ [][Next]_vars

-----------------------------------------------------------------------------
(* Properties. *)

CallsOf(j) == {c \in Calls : JobOf[c] = j}
Owed(c) == IF call[c].at = "overran" THEN BoundOf(c) ELSE paid[c]

\* However the calls of a job overlap, fail or are abandoned, the router has charged
\* it at least what its tools' providers have: so the providers of tools that keep to
\* their maximum never take more than the budget (ToolRouter.execute).
CostCoversPaid ==
    \A j \in Jobs :
        /\ cost[j] >= MapThenSumSet(Owed, CallsOf(j))
        /\ (\A c \in CallsOf(j) : call[c].tool # None => paid[c] <= BoundOf(c))
               => MapThenSumSet(LAMBDA c : paid[c], CallsOf(j)) <= MaxDataCost[j]

\* The registry holds exactly the candidates of completed runs, each of one run, and
\* each run's usage counts them as trials within its budget (run_next).
PublishedAccounted ==
    /\ \A c \in Candidates : status[c] # "none" =>
         Cardinality({j \in Jobs : job[j].at = "completed" /\ c \in job[j].batch}) = 1
    /\ \A j \in Jobs : job[j].at = "completed" =>
         /\ \A c \in job[j].batch : status[c] # "none"
         /\ Cardinality(job[j].batch) <= usage[j].trials /\ usage[j].trials <= MaxTrials[j]
         /\ usage[j].cost <= MaxDataCost[j]

\* Whatever happens to the processes, the budget file has a row for every collection
\* that made a request, charged with at least the bytes its child has accepted, and
\* the rows keep to both limits (CollectionBudget, PublicDocumentCollectionTool).
CollectionCovered ==
    /\ Cardinality(Rows) <= MaxAttempts
    /\ Charged <= TotalBytes
    /\ \A f \in Fetches : CallBytes - child[f].left <= attempt[f].bytes
=============================================================================
