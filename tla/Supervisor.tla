----------------------------- MODULE Supervisor -----------------------------
(***************************************************************************)
(* The always-on service of supervisor.py: a SQLite store of recurring     *)
(* campaigns and their jobs, service processes that lease one job at a     *)
(* time and watch one child process each, and the children, which outlive  *)
(* a service that crashes and end themselves by a watchdog.                *)
(*                                                                         *)
(* Every store method is one transaction.  step() is several: a service    *)
(* can stop, crash or lose its lease between any two.  Deadlines are kept  *)
(* as the time left until them; Tick counts them down.  A method reads the *)
(* clock and then waits for SQLite's write lock: "age" is how old its      *)
(* reading is when its transaction runs, so a time that was t ago is past  *)
(* for it only if t >= age.  A lease token is named by the attempt it was  *)
(* drawn for, a result by the attempt whose child produced it.             *)
(*                                                                         *)
(* Operators whose names begin with Slip are wrong variants of the         *)
(* definition below them and no part of the specification.                 *)
(***************************************************************************)
EXTENDS Integers, FiniteSets

CONSTANTS
    Campaigns,    \* campaign ids
    Services,     \* supervisor processes sharing the store
    Timeout,      \* spec.timeout_seconds: execution allowance of an attempt
    Margin,       \* what claim and heartbeat add to it (5 seconds in the code)
    BeatEvery,    \* time between two heartbeats (5 seconds in the code)
    RetryDelay,   \* spec.retry_delay_seconds
    Interval,     \* spec.interval_seconds
    MaxAttempts,  \* spec.max_attempts
    DailyCap,     \* spec.max_jobs_per_utc_day
    MaxWait,      \* longest wait for the write lock after the clock was read
    MaxLaunch,    \* longest time from a claim's clock reading to the child's watchdog
    MaxJobs,      \* bound: jobs per campaign
    Nobody        \* the job of a service without one

ASSUME PositiveAssumption ==
    /\ Timeout \in Nat \ {0} /\ Margin \in Nat \ {0} /\ BeatEvery \in Nat \ {0}
    /\ RetryDelay \in Nat \ {0} /\ Interval \in Nat \ {0}
    /\ MaxAttempts \in 1..100 /\ DailyCap \in Nat \ {0} /\ MaxJobs \in Nat \ {0}
    /\ MaxWait \in Nat /\ MaxLaunch \in Nat /\ MaxWait <= MaxLaunch
    /\ MaxWait < Timeout + Margin /\ MaxWait <= RetryDelay /\ MaxWait <= Interval

Jobs == Campaigns \X (1..MaxJobs)
Attempts == 1..MaxAttempts

ASSUME NobodyAssumption == Nobody \notin Jobs

VARIABLES
    campaign,  \* campaigns: registered, active, sequence, time until next_due
    job,       \* jobs: state, attempt, time until available, token, lease left, result
    today,     \* attempts: the rows started in the current UTC day
    svc,       \* the services' local state
    child      \* the child process of each attempt

vars == <<campaign, job, today, svc, child>>

NoJob == [state |-> "none", attempt |-> 0, delay |-> 0, token |-> 0, left |-> 0, result |-> 0]
Idle == [pc |-> "idle", job |-> Nobody, token |-> 0, deadline |-> 0, next |-> 0, says |-> "none"]
NoChild == [state |-> "none", left |-> 0, sent |-> "none"]

CampaignRow == [known: BOOLEAN, active: BOOLEAN, sequence: 0..MaxJobs,
                due: (-MaxWait)..Interval]
JobRow == [state: {"none", "pending", "running", "completed", "failed"},
           attempt: 0..MaxAttempts, delay: (-MaxWait)..RetryDelay,
           token: 0..MaxAttempts, left: (-MaxWait)..(Timeout + Margin),
           result: 0..MaxAttempts]
ServiceState == [pc: {"idle", "down", "claim", "launch", "watch", "stop", "report"},
                 job: Jobs \cup {Nobody}, token: 0..MaxAttempts,
                 deadline: (-MaxWait)..(Timeout + MaxLaunch), next: (-MaxWait)..BeatEvery,
                 says: {"none", "result", "error", "lost"}]
ChildState == [state: {"none", "starting", "running", "dead"},
               left: 0..(Timeout + MaxLaunch), sent: {"none", "result", "error"}]

TypeOK ==
    /\ campaign \in [Campaigns -> CampaignRow]
    /\ job \in [Jobs -> JobRow]
    /\ today \subseteq Jobs \X Attempts
    /\ svc \in [Services -> ServiceState]
    /\ child \in [Jobs \X Attempts -> ChildState]

Init ==
    /\ campaign = [c \in Campaigns |->
                     [known |-> FALSE, active |-> FALSE, sequence |-> 0, due |-> 0]]
    /\ job = [j \in Jobs |-> NoJob]
    /\ today = {}
    /\ svc = [s \in Services |-> Idle]
    /\ child = [a \in Jobs \X Attempts |-> NoChild]

-----------------------------------------------------------------------------
(* The store. *)

Open(j) == job[j].state \in {"pending", "running"}
OpenJob(c) == \E n \in 1..MaxJobs : Open(<<c, n>>)

Register(c) ==
    /\ ~campaign[c].known
    /\ campaign' = [campaign EXCEPT ![c].known = TRUE, ![c].active = TRUE]
    /\ UNCHANGED <<job, today, svc, child>>

SetActive(c, active) ==
    /\ campaign[c].known
    /\ campaign[c].active # active
    /\ campaign' = [campaign EXCEPT ![c].active = active]
    /\ UNCHANGED <<job, today, svc, child>>

\* How old the clock reading of a store call of s can be: next counts down to
\* the call and on to MaxWait after it was due.
Ages(s) == 0..(-svc[s].next)

SlipRefill(c, age) ==
    /\ campaign[c].active
    /\ campaign[c].due <= -age
    /\ ~ \E n \in 1..MaxJobs : job[<<c, n>>].state = "pending"
    /\ campaign[c].sequence < MaxJobs

\* The campaigns enqueue() gives their next job (MaxJobs is this model's bound).
Refill(c, age) ==
    /\ campaign[c].active
    /\ campaign[c].due <= -age
    /\ ~OpenJob(c)
    /\ campaign[c].sequence < MaxJobs

\* step() starts with enqueue(), one job at most for each campaign that is due.
Enqueue(s, age) ==
    /\ svc[s].pc = "idle"
    /\ campaign' = [c \in Campaigns |->
            IF Refill(c, age) THEN [campaign[c] EXCEPT !.sequence = @ + 1] ELSE campaign[c]]
    /\ job' = [j \in Jobs |->
            IF Refill(j[1], age) /\ j[2] = campaign[j[1]].sequence + 1
            THEN [NoJob EXCEPT !.state = "pending", !.delay = -age] ELSE job[j]]
    /\ svc' = [svc EXCEPT ![s].pc = "claim", ![s].next = 0]
    /\ UNCHANGED <<today, child>>

SlipTerminal(j) == job[j].attempt > MaxAttempts

\* _fail: the last attempt ends the job, an earlier one schedules a retry.
Terminal(j) == job[j].attempt >= MaxAttempts

FailedJob(j, age) ==
    [job[j] EXCEPT !.state = IF Terminal(j) THEN "failed" ELSE "pending",
                   !.delay = RetryDelay - age, !.token = 0, !.left = 0]

\* A job that ended makes its campaign due again after its interval.
DueAfter(ended, age) ==
    [c \in Campaigns |-> IF \E j \in ended : j[1] = c
                         THEN [campaign[c] EXCEPT !.due = Interval - age] ELSE campaign[c]]

Expired(age) == {j \in Jobs : job[j].state = "running" /\ job[j].left <= -age}

SlipUsed(c) == Cardinality({a \in today : a[1][1] = c /\ a[2] = 1})

\* Attempts the campaign has started in this UTC day, retries included.
Used(c) == Cardinality({a \in today : a[1][1] = c})

SlipLease(age) == Timeout - age

\* What claim and heartbeat lease a job for, from the time they read.
Lease(age) == Timeout + Margin - age

Claimable(j, age) ==
    /\ job[j].state = "pending"
    /\ campaign[j[1]].active
    /\ job[j].delay <= -age
    /\ Used(j[1]) < DailyCap

\* claim() first fails every expired lease, then leases one ready job, from the
\* time it read before it waited for the write lock.
ClaimOne(s, j, age) ==
    LET attempt == job[j].attempt + 1 IN
    /\ svc[s].pc = "claim"
    /\ Claimable(j, age)
    /\ job' = [i \in Jobs |->
            IF i = j THEN [job[j] EXCEPT !.state = "running", !.attempt = attempt,
                                         !.token = attempt, !.left = Lease(age)]
            ELSE IF i \in Expired(age) THEN FailedJob(i, age) ELSE job[i]]
    /\ campaign' = DueAfter({i \in Expired(age) : Terminal(i)}, age)
    /\ today' = today \cup {<<j, attempt>>}
    /\ svc' = [svc EXCEPT ![s] = [Idle EXCEPT !.pc = "launch", !.job = j, !.token = attempt,
                                              !.deadline = MaxLaunch - age]]
    /\ UNCHANGED child

SlipClaimNone(s, age) ==
    /\ svc[s].pc = "claim"
    /\ ~ \E j \in Jobs : Claimable(j, age)
    /\ svc' = [svc EXCEPT ![s] = Idle]
    /\ UNCHANGED <<campaign, job, today, child>>

ClaimNone(s, age) ==
    /\ svc[s].pc = "claim"
    /\ ~ \E j \in Jobs : Claimable(j, age)
    /\ job' = [i \in Jobs |-> IF i \in Expired(age) THEN FailedJob(i, age) ELSE job[i]]
    /\ campaign' = DueAfter({i \in Expired(age) : Terminal(i)}, age)
    /\ svc' = [svc EXCEPT ![s] = Idle]
    /\ UNCHANGED <<today, child>>

SlipHolds(s, age) == job[svc[s].job].state = "running" /\ job[svc[s].job].left > -age

\* The lease a service works under is still its own and has not run out.
Holds(s, age) ==
    /\ job[svc[s].job].state = "running"
    /\ job[svc[s].job].token = svc[s].token
    /\ job[svc[s].job].left > -age

-----------------------------------------------------------------------------
(* A service running one job: step() after claim(). *)

Attempt(s) == <<svc[s].job, svc[s].token>>

\* process.start() spawns the child; the allowance of the service's own loop
\* starts here.  The child keeps the launch time that is left.
Launch(s) ==
    /\ svc[s].pc = "launch"
    /\ child' = [child EXCEPT ![Attempt(s)] =
            [state |-> "starting", left |-> svc[s].deadline, sent |-> "none"]]
    /\ svc' = [svc EXCEPT ![s].pc = "watch", ![s].deadline = Timeout, ![s].next = BeatEvery]
    /\ UNCHANGED <<campaign, job, today>>

Ending(s, says) == svc' = [svc EXCEPT ![s].pc = "stop", ![s].says = says,
                                     ![s].deadline = 0, ![s].next = 0]

\* The child's message is read, or the end of its pipe.
Receive(s) ==
    /\ svc[s].pc = "watch"
    /\ svc[s].deadline > 0
    /\ child[Attempt(s)].state = "dead"
    /\ Ending(s, IF child[Attempt(s)].sent = "result" THEN "result" ELSE "error")
    /\ UNCHANGED <<campaign, job, today, child>>

\* The deadline has passed, or the service was told to stop.
GiveUp(s) ==
    /\ svc[s].pc = "watch"
    /\ Ending(s, "error")
    /\ UNCHANGED <<campaign, job, today, child>>

\* The loop tests its deadline before a heartbeat, which may then have to wait.
BeatDue(s, age) ==
    /\ svc[s].pc = "watch"
    /\ svc[s].next <= 0
    /\ svc[s].deadline > -age

SlipHeartbeat(s, age) ==
    /\ BeatDue(s, age)
    /\ Holds(s, age)
    /\ job' = [job EXCEPT ![svc[s].job].left = BeatEvery]
    /\ svc' = [svc EXCEPT ![s].next = BeatEvery]
    /\ UNCHANGED <<campaign, today, child>>

Heartbeat(s, age) ==
    /\ BeatDue(s, age)
    /\ Holds(s, age)
    /\ job' = [job EXCEPT ![svc[s].job].left = Lease(age)]
    /\ svc' = [svc EXCEPT ![s].next = BeatEvery]
    /\ UNCHANGED <<campaign, today, child>>

\* The lease is lost, or the store does not answer: the attempt is not reported.
HeartbeatRaises(s, age) ==
    /\ BeatDue(s, age)
    /\ Ending(s, "lost")
    /\ UNCHANGED <<campaign, job, today, child>>

\* _stop_child ends the child's process group, before the service goes on.
StopChild(s) ==
    /\ svc[s].pc = "stop"
    /\ child' = [child EXCEPT ![Attempt(s)].state = "dead", ![Attempt(s)].left = 0]
    /\ svc' = [svc EXCEPT ![s] = IF svc[s].says = "lost" THEN Idle
                                 ELSE [@ EXCEPT !.pc = "report", !.deadline = 0, !.next = 0]]
    /\ UNCHANGED <<campaign, job, today>>

\* finish() publishes a result or fails the attempt, under the lease only.
Finish(s, age) ==
    LET j == svc[s].job IN
    /\ svc[s].pc = "report"
    /\ \/ /\ ~Holds(s, age)
          /\ UNCHANGED <<campaign, job>>
       \/ /\ Holds(s, age)
          /\ svc[s].says = "result"
          /\ job' = [job EXCEPT ![j].state = "completed", ![j].result = svc[s].token]
          /\ campaign' = DueAfter({j}, age)
       \/ /\ Holds(s, age)
          /\ svc[s].says = "error"
          /\ job' = [job EXCEPT ![j] = FailedJob(j, age)]
          /\ campaign' = DueAfter({i \in {j} : Terminal(i)}, age)
    /\ svc' = [svc EXCEPT ![s] = Idle]
    /\ UNCHANGED <<today, child>>

\* The service process dies, process.start() raises, or a store call raises where
\* no child is running: the attempt stays reserved for lease recovery.
Crash(s) ==
    /\ svc[s].pc \notin {"idle", "down"}
    /\ svc' = [svc EXCEPT ![s] = [Idle EXCEPT !.pc = "down"]]
    /\ UNCHANGED <<campaign, job, today, child>>

\* Its service manager starts the process again, or serve() its next step.
Restart(s) ==
    /\ svc[s].pc = "down"
    /\ svc' = [svc EXCEPT ![s] = Idle]
    /\ UNCHANGED <<campaign, job, today, child>>

-----------------------------------------------------------------------------
(* The child process of an attempt. *)

\* setsid and the watchdog timer, then "ready": the allowance starts.
ChildStarts(a) ==
    /\ child[a].state = "starting"
    /\ child' = [child EXCEPT ![a].state = "running", ![a].left = Timeout]
    /\ UNCHANGED <<campaign, job, today, svc>>

\* The executor returns or raises; the child sends its message and ends its group.
ChildEnds(a, sent) ==
    /\ child[a].state = "running"
    /\ child' = [child EXCEPT ![a] = [state |-> "dead", left |-> 0, sent |-> sent]]
    /\ UNCHANGED <<campaign, job, today, svc>>

\* The watchdog's deadline, or any other end without a message.
ChildKilled(a) ==
    /\ child[a].state \in {"starting", "running"}
    /\ child' = [child EXCEPT ![a].state = "dead", ![a].left = 0]
    /\ UNCHANGED <<campaign, job, today, svc>>

-----------------------------------------------------------------------------
\* One unit of time less, down to the given bound.
Earlier(n, floor) == IF n > floor THEN n - 1 ELSE n

\* Launching takes at most MaxLaunch, and a watchdog fires when its time is up.
MayWait ==
    /\ \A s \in Services : svc[s].pc = "launch" => svc[s].deadline > 0
    /\ \A a \in Jobs \X Attempts : child[a].state \in {"starting", "running"} => child[a].left > 0

Tick ==
    /\ MayWait
    /\ campaign' = [c \in Campaigns |-> [campaign[c] EXCEPT !.due = Earlier(@, -MaxWait)]]
    /\ job' = [j \in Jobs |->
            IF Open(j) THEN [job[j] EXCEPT !.delay = Earlier(@, -MaxWait),
                                           !.left = Earlier(@, -MaxWait)]
            ELSE job[j]]
    /\ svc' = [s \in Services |->
            [svc[s] EXCEPT !.deadline = Earlier(@, IF svc[s].pc = "watch" THEN -MaxWait ELSE 0),
                           !.next = Earlier(@, -MaxWait)]]
    /\ child' = [a \in Jobs \X Attempts |-> [child[a] EXCEPT !.left = Earlier(@, 0)]]
    /\ UNCHANGED today

\* Midnight UTC: no attempt has started in the new day yet.
NewDay ==
    /\ today # {}
    /\ today' = {}
    /\ UNCHANGED <<campaign, job, svc, child>>

ServiceStep(s) ==
    \/ \E age \in Ages(s) :
          \/ Enqueue(s, age)
          \/ \E j \in Jobs : ClaimOne(s, j, age)
          \/ ClaimNone(s, age)
          \/ Heartbeat(s, age)
          \/ HeartbeatRaises(s, age)
          \/ Finish(s, age)
    \/ Restart(s)
    \/ Launch(s)
    \/ Receive(s)
    \/ GiveUp(s)
    \/ StopChild(s)

ChildStep(a) ==
    \/ ChildStarts(a)
    \/ \E sent \in {"result", "error"} : ChildEnds(a, sent)
    \/ ChildKilled(a)

Next ==
    \/ \E c \in Campaigns : Register(c)
    \/ \E c \in Campaigns, active \in BOOLEAN : SetActive(c, active)
    \/ \E s \in Services : ServiceStep(s) \/ Crash(s)
    \/ \E a \in Jobs \X Attempts : ChildStep(a)
    \/ Tick
    \/ NewDay

Spec == Init /\ [][Next]_vars

\* serve() polls for ever, clocks run, and a watchdog whose time is up fires.
FairSpec ==
    /\ Spec
    /\ \A s \in Services : WF_vars(ServiceStep(s))
    /\ \A a \in Jobs \X Attempts : WF_vars(child[a].left = 0 /\ ChildKilled(a))
    /\ WF_vars(Tick)
    /\ WF_vars(NewDay)

-----------------------------------------------------------------------------
(* Properties. *)

\* A child executes only for the current attempt of a running job: recovery, a
\* retry, a final failure and the next job all come after the work they replace
\* has ended, also when its service died (step, _job_child, _fail).
OnlyCurrentRuns ==
    \A a \in Jobs \X Attempts :
        child[a].state = "running" => job[a[1]].state = "running" /\ job[a[1]].attempt = a[2]

\* Recovery does not race a worker that is still within its execution allowance:
\* no two attempts of a job execute at once.
NoOverlap ==
    \A a, b \in Jobs \X Attempts :
        a[1] = b[1] /\ child[a].state = "running" /\ child[b].state = "running" => a = b

\* A campaign has at most one open job, however many services refill it, and the
\* open one is its latest (enqueue).
OneOpenJob == \A j \in Jobs : Open(j) => j[2] = campaign[j[1]].sequence

\* What a completed job publishes was sent by the child of its last attempt:
\* stale services publish nothing (finish).
PublishedByLastAttempt ==
    \A j \in Jobs : job[j].state = "completed" =>
        /\ job[j].result = job[j].attempt
        /\ child[<<j, job[j].attempt>>].sent = "result"

\* Every start counts against the campaign's day, retries and recoveries too, and
\* no day sees more than the cap (claim).
DailyCapRespected ==
    \A c \in Campaigns : Cardinality({a \in today : a[1][1] = c}) <= DailyCap

Work == INSTANCE AttemptedWork WITH
    Items <- Jobs, Outcomes <- Attempts, NoOutcome <- 0,
    phase <- [j \in Jobs |-> job[j].state],
    tries <- [j \in Jobs |-> job[j].attempt],
    limit <- [j \in Jobs |-> IF job[j].state = "none" THEN 0 ELSE MaxAttempts],
    outcome <- [j \in Jobs |-> job[j].result]

\* The SQLite queue keeps the promises of AttemptedWork about every job.
ImplementsWork == Work!Spec

\* A campaign that stays active goes on: every job ends and the next one follows,
\* if services do not crash for ever (serve: idle queues and spent daily budgets
\* do not end the service).
CampaignGoesOn ==
    <>[][\A s \in Services : ~Crash(s)]_vars =>
        \A c \in Campaigns :
            <>[]campaign[c].active =>
                <>(campaign[c].sequence = MaxJobs /\ ~OpenJob(c))
=============================================================================
