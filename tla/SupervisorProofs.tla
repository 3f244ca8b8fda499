------------------------- MODULE SupervisorProofs -------------------------
(***************************************************************************)
(* Theorems about Supervisor, for every value of its constants.            *)
(***************************************************************************)
EXTENDS Supervisor, FiniteSetTheorems, TLAPS

(***************************************************************************)
(* The inductive invariant, first what holds however long a launch or a    *)
(* wait for the write lock takes.  A job that enqueue() has not reached is *)
(* blank, the open one is the latest, and a lease is that of the latest    *)
(* attempt.                                                                *)
(***************************************************************************)
JobInv(j) ==
    /\ job[j].state = "none" \/ j[2] > campaign[j[1]].sequence => job[j] = NoJob
    /\ Open(j) => j[2] = campaign[j[1]].sequence /\ job[j].result = 0
    /\ job[j].state = "pending" => job[j].attempt < MaxAttempts
    /\ job[j].state = "running" => job[j].token = job[j].attempt /\ job[j].attempt > 0
    /\ job[j].state = "completed" =>
         /\ job[j].attempt > 0 /\ job[j].result = job[j].attempt
         /\ child[<<j, job[j].attempt>>].sent = "result"

\* Only claimed attempts have a child, and only a dead one has sent something.
ChildInv(a) ==
    /\ child[a].state # "none" => a[2] <= job[a[1]].attempt
    /\ child[a].sent # "none" => child[a].state = "dead"

Working(s) == svc[s].pc \in {"launch", "watch", "stop", "report"}

\* A service works under the attempt it claimed, and what it will report of it
\* the child, then dead, has sent.
ServiceInv(s) ==
    Working(s) =>
        /\ svc[s].job \in Jobs /\ svc[s].token \in Attempts
        /\ svc[s].token <= job[svc[s].job].attempt
        /\ svc[s].pc = "launch" =>
             child[Attempt(s)].state = "none" /\ svc[s].deadline \in 0..MaxLaunch
        /\ svc[s].pc = "report" => child[Attempt(s)].state = "dead"
        /\ svc[s].pc \in {"stop", "report"} /\ svc[s].says = "result" =>
             child[Attempt(s)].sent = "result"

\* No two services work under the same attempt.
OwnAttempts ==
    \A s, t \in Services : Working(s) /\ Working(t) /\ Attempt(s) = Attempt(t) => s = t

IInv ==
    /\ TypeOK
    /\ \A j \in Jobs : JobInv(j)
    /\ \A a \in Jobs \X Attempts : ChildInv(a)
    /\ \A s \in Services : ServiceInv(s)
    /\ OwnAttempts

Current(a) == job[a[1]].state = "running" /\ job[a[1]].attempt = a[2]

(***************************************************************************)
(* What holds when a launch takes less than the margin of a lease: until   *)
(* the watchdog of an attempt has fired its lease has not run out.         *)
(***************************************************************************)
LeaseCovers(a, need) == Current(a) /\ need < job[a[1]].left

ChildTime(a) ==
    /\ child[a].state = "starting" => LeaseCovers(a, child[a].left + Timeout)
    /\ child[a].state = "running" => LeaseCovers(a, child[a].left) /\ child[a].left <= Timeout

ServiceTime(s) ==
    /\ svc[s].pc = "launch" => LeaseCovers(Attempt(s), svc[s].deadline + Timeout)
    /\ svc[s].pc = "watch" /\ child[Attempt(s)].state = "starting" =>
         child[Attempt(s)].left <= MaxLaunch + svc[s].next - BeatEvery

TimeInv ==
    /\ \A a \in Jobs \X Attempts : ChildTime(a)
    /\ \A s \in Services : ServiceTime(s)

-----------------------------------------------------------------------------
(* Types. *)

LEMMA Bounds ==
    /\ MaxWait \in Nat /\ MaxLaunch \in Nat /\ Timeout \in Nat /\ Margin \in Nat
    /\ BeatEvery \in Nat /\ RetryDelay \in Nat /\ Interval \in Nat
    /\ MaxAttempts \in Nat /\ MaxJobs \in Nat /\ DailyCap \in Nat
    /\ Timeout > 0 /\ Margin > 0 /\ BeatEvery > 0 /\ MaxAttempts > 0
    /\ MaxAttempts <= 100 /\ MaxJobs > 0
    /\ MaxWait <= MaxLaunch /\ MaxWait < Timeout + Margin
    /\ MaxWait <= RetryDelay /\ MaxWait <= Interval
  BY PositiveAssumption

\* The age of a clock reading is between 0 and MaxWait.
LEMMA AgeType ==
    ASSUME TypeOK, NEW s \in Services, NEW age \in Ages(s)
    PROVE  age \in 0..MaxWait /\ age \in Nat /\ age <= MaxWait /\ age <= -svc[s].next
<1>1. svc[s].next \in (-MaxWait)..BeatEvery
  BY DEF TypeOK, ServiceState
<1>2. QED
  BY <1>1, Bounds DEF Ages

LEMMA BlankTypes == NoJob \in JobRow /\ Idle \in ServiceState /\ NoChild \in ChildState
<1> USE Bounds
<1>1. 0 \in 0..MaxAttempts /\ 0 \in (-MaxWait)..RetryDelay /\ 0 \in (-MaxWait)..(Timeout + Margin)
  OBVIOUS
<1>2. 0 \in (-MaxWait)..(Timeout + MaxLaunch) /\ 0 \in (-MaxWait)..BeatEvery
  OBVIOUS
<1>3. 0 \in 0..(Timeout + MaxLaunch)
  OBVIOUS
<1>4. NoJob \in JobRow
  BY <1>1 DEF NoJob, JobRow
<1>5. Idle \in ServiceState
  BY <1>1, <1>2 DEF Idle, ServiceState
<1>6. NoChild \in ChildState
  BY <1>3 DEF NoChild, ChildState
<1>7. QED
  BY <1>4, <1>5, <1>6

LEMMA JobsPairs ==
    /\ \A j \in Jobs : j[1] \in Campaigns /\ j[2] \in 1..MaxJobs /\ j = <<j[1], j[2]>>
    /\ \A c \in Campaigns, n \in 1..MaxJobs : <<c, n>> \in Jobs
  BY DEF Jobs

LEMMA FailedType ==
    ASSUME TypeOK, NEW j \in Jobs, NEW age \in 0..MaxWait
    PROVE  FailedJob(j, age) \in JobRow
<1>1. job[j] \in JobRow
  BY DEF TypeOK
<1>2. /\ RetryDelay - age \in (-MaxWait)..RetryDelay /\ 0 \in 0..MaxAttempts
      /\ 0 \in (-MaxWait)..(Timeout + Margin)
  BY Bounds
<1>3. (IF Terminal(j) THEN "failed" ELSE "pending") \in
          {"none", "pending", "running", "completed", "failed"}
  OBVIOUS
<1>4. QED
  BY <1>1, <1>2, <1>3, Zenon DEF FailedJob, JobRow

LEMMA DueType ==
    ASSUME TypeOK, NEW ended, NEW age \in 0..MaxWait
    PROVE  DueAfter(ended, age) \in [Campaigns -> CampaignRow]
<1>1. Interval - age \in (-MaxWait)..Interval
  BY Bounds
<1>2. \A c \in Campaigns : [campaign[c] EXCEPT !.due = Interval - age] \in CampaignRow
  BY <1>1 DEF TypeOK, CampaignRow
<1>3. QED
  BY <1>2 DEF DueAfter, TypeOK

LEMMA ClaimedType ==
    ASSUME TypeOK, NEW j \in Jobs, job[j].attempt < MaxAttempts, NEW age \in 0..MaxWait
    PROVE  /\ [job[j] EXCEPT !.state = "running", !.attempt = job[j].attempt + 1,
                             !.token = job[j].attempt + 1, !.left = Lease(age)] \in JobRow
           /\ [Idle EXCEPT !.pc = "launch", !.job = j, !.token = job[j].attempt + 1,
                           !.deadline = MaxLaunch - age] \in ServiceState
           /\ job[j].attempt + 1 \in Attempts
<1>1. job[j] \in JobRow /\ Idle \in ServiceState
  BY BlankTypes DEF TypeOK
<1>2. job[j].attempt \in 0..MaxAttempts
  BY <1>1 DEF JobRow
<1>3. job[j].attempt + 1 \in 0..MaxAttempts /\ job[j].attempt + 1 \in Attempts
  BY <1>2, Bounds DEF Attempts
<1>4. Lease(age) \in (-MaxWait)..(Timeout + Margin)
  BY Bounds DEF Lease
<1>5. MaxLaunch - age \in (-MaxWait)..(Timeout + MaxLaunch)
  BY Bounds
<1>6. QED
  BY <1>1, <1>3, <1>4, <1>5 DEF JobRow, ServiceState

\* Whose attempt a working service has.
LEMMA AttemptType ==
    ASSUME IInv, NEW s \in Services, Working(s)
    PROVE  /\ svc[s].job \in Jobs /\ svc[s].token \in Attempts
           /\ Attempt(s) \in Jobs \X Attempts
           /\ Attempt(s)[1] = svc[s].job /\ Attempt(s)[2] = svc[s].token
  BY DEF IInv, ServiceInv, Attempt

LEMMA RefillType ==
    ASSUME TypeOK, NEW c \in Campaigns, NEW age, Refill(c, age)
    PROVE  [campaign[c] EXCEPT !.sequence = @ + 1] \in CampaignRow
<1>1. campaign[c] \in CampaignRow /\ campaign[c].sequence < MaxJobs
  BY DEF Refill, TypeOK
<1>2. campaign[c].sequence + 1 \in 0..MaxJobs
  BY <1>1, Bounds DEF CampaignRow
<1>3. QED
  BY <1>1, <1>2 DEF CampaignRow

LEMMA EndingType ==
    ASSUME TypeOK, NEW s \in Services, NEW says \in {"none", "result", "error", "lost"},
           Ending(s, says)
    PROVE  svc' \in [Services -> ServiceState]
<1>1. 0 \in (-MaxWait)..(Timeout + MaxLaunch) /\ 0 \in (-MaxWait)..BeatEvery
  BY Bounds
<1>2. svc[s] \in ServiceState
  BY DEF TypeOK
<1>3. [svc[s] EXCEPT !.pc = "stop", !.says = says, !.deadline = 0, !.next = 0] \in ServiceState
  BY <1>1, <1>2 DEF ServiceState
<1>4. svc' = [svc EXCEPT ![s] = [svc[s] EXCEPT !.pc = "stop", !.says = says, !.deadline = 0,
                                               !.next = 0]]
  BY DEF Ending
<1>5. QED
  BY <1>3, <1>4 DEF TypeOK

LEMMA StoreStepType ==
    ASSUME IInv, NEW s \in Services, NEW age \in Ages(s),
           \/ Enqueue(s, age) \/ (\E j \in Jobs : ClaimOne(s, j, age)) \/ ClaimNone(s, age)
           \/ Heartbeat(s, age) \/ HeartbeatRaises(s, age) \/ Finish(s, age)
    PROVE  TypeOK'
<1> USE DEF IInv
<1>1. age \in 0..MaxWait /\ age \in Nat /\ age <= MaxWait
  BY AgeType
<1>2. svc[s] \in ServiceState
  BY DEF TypeOK
<1>3. /\ 0 \in (-MaxWait)..(Timeout + MaxLaunch) /\ 0 \in (-MaxWait)..BeatEvery
      /\ BeatEvery \in (-MaxWait)..BeatEvery /\ Lease(age) \in (-MaxWait)..(Timeout + Margin)
      /\ -age \in (-MaxWait)..RetryDelay
  BY <1>1, Bounds DEF Lease
<1>4. CASE Enqueue(s, age)
  <2>1. campaign' \in [Campaigns -> CampaignRow]
    BY <1>4, RefillType DEF Enqueue, TypeOK
  <2>2. [NoJob EXCEPT !.state = "pending", !.delay = -age] \in JobRow
    BY <1>3, BlankTypes DEF JobRow
  <2>3. job' \in [Jobs -> JobRow]
    BY <1>4, <2>2 DEF Enqueue, TypeOK
  <2>4. svc' \in [Services -> ServiceState]
    <3>1. [svc[s] EXCEPT !.pc = "claim", !.next = 0] \in ServiceState
      BY <1>2, <1>3 DEF ServiceState
    <3>2. svc' = [svc EXCEPT ![s] = [svc[s] EXCEPT !.pc = "claim", !.next = 0]]
      BY <1>4 DEF Enqueue
    <3>3. QED
      BY <3>1, <3>2 DEF TypeOK
  <2>5. QED
    BY <1>4, <2>1, <2>3, <2>4 DEF Enqueue, TypeOK
<1>5. ASSUME NEW j \in Jobs, ClaimOne(s, j, age) PROVE TypeOK'
  <2> DEFINE claimed == [job[j] EXCEPT !.state = "running", !.attempt = job[j].attempt + 1,
                                       !.token = job[j].attempt + 1, !.left = Lease(age)]
  <2> DEFINE launching == [Idle EXCEPT !.pc = "launch", !.job = j, !.token = job[j].attempt + 1,
                                       !.deadline = MaxLaunch - age]
  <2>1. job[j].attempt < MaxAttempts
    BY <1>5 DEF ClaimOne, Claimable, JobInv
  <2>2. claimed \in JobRow /\ launching \in ServiceState /\ job[j].attempt + 1 \in Attempts
    BY <1>1, <2>1, ClaimedType
  <2>3. /\ job' = [i \in Jobs |-> IF i = j THEN claimed
                                  ELSE IF i \in Expired(age) THEN FailedJob(i, age) ELSE job[i]]
        /\ svc' = [svc EXCEPT ![s] = launching]
        /\ today' = today \cup {<<j, job[j].attempt + 1>>}
        /\ campaign' = DueAfter({i \in Expired(age) : Terminal(i)}, age)
        /\ UNCHANGED child
    BY <1>5 DEF ClaimOne
  <2> HIDE DEF claimed, launching
  <2>4. job' \in [Jobs -> JobRow]
    BY <1>1, <2>2, <2>3, FailedType DEF TypeOK
  <2>5. svc' \in [Services -> ServiceState]
    BY <2>2, <2>3 DEF TypeOK
  <2>6. campaign' \in [Campaigns -> CampaignRow]
    BY <1>1, <2>3, DueType
  <2>7. today' \subseteq Jobs \X Attempts
    BY <2>2, <2>3 DEF TypeOK
  <2>8. QED
    BY <2>3, <2>4, <2>5, <2>6, <2>7 DEF TypeOK
<1>6. CASE ClaimNone(s, age)
  <2>1. job' \in [Jobs -> JobRow]
    BY <1>1, <1>6, FailedType DEF ClaimNone, TypeOK
  <2>2. campaign' \in [Campaigns -> CampaignRow]
    BY <1>1, <1>6, DueType DEF ClaimNone
  <2>3. QED
    BY <1>6, <2>1, <2>2, BlankTypes DEF ClaimNone, TypeOK
<1>7. CASE Heartbeat(s, age)
  <2>1. Working(s)
    BY <1>7 DEF Heartbeat, BeatDue, Working
  <2>2. PICK j \in Jobs : j = svc[s].job
    BY <2>1, AttemptType
  <2>3. [job[j] EXCEPT !.left = Lease(age)] \in JobRow
    BY <1>3 DEF TypeOK, JobRow
  <2>4. [svc[s] EXCEPT !.next = BeatEvery] \in ServiceState
    BY <1>2, <1>3 DEF ServiceState
  <2>5. /\ job' = [job EXCEPT ![j] = [job[j] EXCEPT !.left = Lease(age)]]
        /\ svc' = [svc EXCEPT ![s] = [svc[s] EXCEPT !.next = BeatEvery]]
    BY <1>7, <2>2 DEF Heartbeat
  <2>6. job' \in [Jobs -> JobRow] /\ svc' \in [Services -> ServiceState]
    BY <2>3, <2>4, <2>5 DEF TypeOK
  <2>7. QED
    BY <1>7, <2>6 DEF Heartbeat, TypeOK
<1>8. CASE HeartbeatRaises(s, age)
  BY <1>8, EndingType DEF HeartbeatRaises, TypeOK
<1>9. CASE Finish(s, age)
  <2>1. Working(s)
    BY <1>9 DEF Finish, Working
  <2>2. PICK j \in Jobs, k \in Attempts : j = svc[s].job /\ k = svc[s].token
    BY <2>1, AttemptType
  <2>3. svc' \in [Services -> ServiceState] /\ UNCHANGED <<today, child>>
    BY <1>9, BlankTypes DEF Finish, TypeOK
  <2>4. CASE UNCHANGED <<campaign, job>>
    BY <2>3, <2>4 DEF TypeOK
  <2>5. CASE job' = [job EXCEPT ![j].state = "completed", ![j].result = k]
             /\ campaign' = DueAfter({j}, age)
    <3>1. job[j] \in JobRow /\ k \in 0..MaxAttempts
      BY Bounds DEF TypeOK, Attempts
    <3>2. [job[j] EXCEPT !.state = "completed", !.result = k] \in JobRow
      BY <3>1 DEF JobRow
    <3>3. job' \in [Jobs -> JobRow]
      BY <2>5, <3>2 DEF TypeOK
    <3>4. QED
      BY <1>1, <2>3, <2>5, <3>3, DueType DEF TypeOK
  <2>6. CASE /\ job' = [job EXCEPT ![j] = FailedJob(j, age)]
             /\ campaign' = DueAfter({i \in {j} : Terminal(i)}, age)
    <3>1. job' \in [Jobs -> JobRow]
      BY <1>1, <2>6, FailedType DEF TypeOK
    <3>2. QED
      BY <1>1, <2>3, <2>6, <3>1, DueType DEF TypeOK
  <2>7. QED
    BY <1>9, <2>2, <2>4, <2>5, <2>6 DEF Finish
<1>10. QED
  BY <1>4, <1>5, <1>6, <1>7, <1>8, <1>9

\* A campaign's registration and its activation leave its schedule alone.
LEMMA RegisterWays ==
    ASSUME TypeOK, NEW c \in Campaigns, Register(c) \/ \E active \in BOOLEAN : SetActive(c, active)
    PROVE  \E known, active \in BOOLEAN :
               campaign' = [campaign EXCEPT ![c].known = known, ![c].active = active]
<1>1. CASE Register(c)
  BY <1>1 DEF Register
<1>2. ASSUME NEW active \in BOOLEAN, SetActive(c, active)
      PROVE  \E known \in BOOLEAN :
                 campaign' = [campaign EXCEPT ![c].known = known, ![c].active = active]
  <2>1. campaign[c].known = TRUE /\ campaign[c] \in CampaignRow
    BY <1>2 DEF SetActive, TypeOK, CampaignRow
  <2>2. [campaign[c] EXCEPT !.known = TRUE, !.active = active]
            = [campaign[c] EXCEPT !.active = active]
    BY <2>1 DEF CampaignRow
  <2>3. QED
    BY <1>2, <2>2 DEF SetActive
<1>3. QED
  BY <1>1, <1>2

LEMMA TypeStep == ASSUME IInv, [Next]_vars PROVE TypeOK'
<1> USE DEF IInv
<1>1. ASSUME NEW s \in Services,
             Restart(s) \/ Launch(s) \/ Receive(s) \/ GiveUp(s) \/ StopChild(s) \/ Crash(s)
      PROVE  TypeOK'
  <2>1. svc[s] \in ServiceState /\ Idle \in ServiceState
    BY BlankTypes DEF TypeOK
  <2>2. /\ 0 \in (-MaxWait)..(Timeout + MaxLaunch) /\ 0 \in (-MaxWait)..BeatEvery
        /\ BeatEvery \in (-MaxWait)..BeatEvery /\ 0 \in 0..(Timeout + MaxLaunch)
        /\ Timeout \in (-MaxWait)..(Timeout + MaxLaunch)
    BY Bounds
  <2>3. CASE Restart(s) \/ Crash(s)
    <3>1. [Idle EXCEPT !.pc = "down"] \in ServiceState
      BY <2>1 DEF ServiceState
    <3>2. QED
      BY <2>1, <2>3, <3>1 DEF Restart, Crash, TypeOK
  <2>4. CASE Launch(s)
    <3>1. Working(s)
      BY <2>4 DEF Launch, Working
    <3>2. PICK a \in Jobs \X Attempts : a = Attempt(s)
      BY <3>1, AttemptType
    <3>3. [svc[s] EXCEPT !.pc = "watch", !.deadline = Timeout, !.next = BeatEvery] \in ServiceState
      BY <2>1, <2>2 DEF ServiceState
    <3>4. svc' = [svc EXCEPT ![s] = [svc[s] EXCEPT !.pc = "watch", !.deadline = Timeout,
                                                   !.next = BeatEvery]]
      BY <2>4 DEF Launch
    <3>5. child' = [child EXCEPT ![a] = [state |-> "starting", left |-> svc[s].deadline,
                                         sent |-> "none"]]
      BY <2>4, <3>2 DEF Launch
    <3>6. svc[s].deadline \in 0..(Timeout + MaxLaunch)
      <4>1. svc[s].deadline \in 0..MaxLaunch
        BY <2>4, <3>1 DEF Launch, ServiceInv
      <4>2. QED
        BY <4>1, Bounds
    <3>7. [state |-> "starting", left |-> svc[s].deadline, sent |-> "none"] \in ChildState
      BY <3>6 DEF ChildState
    <3>8. svc' \in [Services -> ServiceState]
      BY <3>3, <3>4 DEF TypeOK
    <3>9. child' \in [Jobs \X Attempts -> ChildState]
      BY <3>5, <3>7 DEF TypeOK
    <3>10. QED
      BY <2>4, <3>8, <3>9 DEF Launch, TypeOK
  <2>5. CASE Receive(s) \/ GiveUp(s)
    BY <2>5, EndingType DEF Receive, GiveUp, TypeOK
  <2>6. CASE StopChild(s)
    <3>1. Working(s)
      BY <2>6 DEF StopChild, Working
    <3>2. PICK a \in Jobs \X Attempts : a = Attempt(s)
      BY <3>1, AttemptType
    <3>3. [child[a] EXCEPT !.state = "dead", !.left = 0] \in ChildState
      <4>1. child[a] \in ChildState
        BY DEF TypeOK
      <4>2. QED
        BY <2>2, <4>1 DEF ChildState
    <3>4. [svc[s] EXCEPT !.pc = "report", !.deadline = 0, !.next = 0] \in ServiceState
      BY <2>1, <2>2 DEF ServiceState
    <3>5. child' = [child EXCEPT ![a] = [child[a] EXCEPT !.state = "dead", !.left = 0]]
      BY <2>6, <3>2 DEF StopChild
    <3>6. svc' \in [Services -> ServiceState]
      BY <2>1, <2>6, <3>4 DEF StopChild, TypeOK
    <3>7. child' \in [Jobs \X Attempts -> ChildState]
      BY <3>3, <3>5 DEF TypeOK
    <3>8. QED
      BY <2>6, <3>6, <3>7 DEF StopChild, TypeOK
  <2>7. QED
    BY <1>1, <2>3, <2>4, <2>5, <2>6
<1>2. ASSUME NEW a \in Jobs \X Attempts, ChildStep(a) PROVE TypeOK'
  <2>1. /\ child[a] \in ChildState /\ 0 \in 0..(Timeout + MaxLaunch)
        /\ Timeout \in 0..(Timeout + MaxLaunch)
    BY Bounds DEF TypeOK
  <2>2. /\ [child[a] EXCEPT !.state = "running", !.left = Timeout] \in ChildState
        /\ [child[a] EXCEPT !.state = "dead", !.left = 0] \in ChildState
        /\ \A sent \in {"result", "error"} :
               [state |-> "dead", left |-> 0, sent |-> sent] \in ChildState
    BY <2>1 DEF ChildState
  <2>3. \/ child' = [child EXCEPT ![a] = [child[a] EXCEPT !.state = "running", !.left = Timeout]]
        \/ child' = [child EXCEPT ![a] = [child[a] EXCEPT !.state = "dead", !.left = 0]]
        \/ \E sent \in {"result", "error"} :
               child' = [child EXCEPT ![a] = [state |-> "dead", left |-> 0, sent |-> sent]]
    BY <1>2 DEF ChildStep, ChildStarts, ChildEnds, ChildKilled
  <2>4. child' \in [Jobs \X Attempts -> ChildState]
    BY <2>2, <2>3 DEF TypeOK
  <2>5. QED
    BY <1>2, <2>4 DEF ChildStep, ChildStarts, ChildEnds, ChildKilled, TypeOK
<1>3. ASSUME NEW c \in Campaigns, Register(c) \/ \E active \in BOOLEAN : SetActive(c, active)
      PROVE  TypeOK'
  <2>1. \E known, active \in BOOLEAN :
            campaign' = [campaign EXCEPT ![c].known = known, ![c].active = active]
    BY <1>3, RegisterWays
  <2>2. campaign[c] \in CampaignRow
    BY DEF TypeOK
  <2>3. \A known, active \in BOOLEAN :
            [campaign[c] EXCEPT !.known = known, !.active = active] \in CampaignRow
    BY <2>2 DEF CampaignRow
  <2>4. campaign' \in [Campaigns -> CampaignRow]
    BY <2>1, <2>3 DEF TypeOK
  <2>5. QED
    BY <1>3, <2>4 DEF Register, SetActive, TypeOK
<1>4. CASE Tick
  <2>1. \A c \in Campaigns : [campaign[c] EXCEPT !.due = Earlier(@, -MaxWait)] \in CampaignRow
    <3>1. \A c \in Campaigns : campaign[c] \in CampaignRow
      BY DEF TypeOK
    <3>2. \A c \in Campaigns : Earlier(campaign[c].due, -MaxWait) \in (-MaxWait)..Interval
      BY <3>1, Bounds DEF CampaignRow, Earlier
    <3>3. QED
      BY <3>1, <3>2 DEF CampaignRow
  <2>2. \A j \in Jobs : [job[j] EXCEPT !.delay = Earlier(@, -MaxWait),
                                       !.left = Earlier(@, -MaxWait)] \in JobRow
    <3>1. \A j \in Jobs : job[j] \in JobRow
      BY DEF TypeOK
    <3>2. \A j \in Jobs :
            /\ Earlier(job[j].delay, -MaxWait) \in (-MaxWait)..RetryDelay
            /\ Earlier(job[j].left, -MaxWait) \in (-MaxWait)..(Timeout + Margin)
      BY <3>1, Bounds DEF JobRow, Earlier
    <3>3. QED
      BY <3>1, <3>2 DEF JobRow
  <2>3. \A s \in Services :
          [svc[s] EXCEPT !.deadline = Earlier(@, IF svc[s].pc = "watch" THEN -MaxWait ELSE 0),
                         !.next = Earlier(@, -MaxWait)] \in ServiceState
    <3> SUFFICES ASSUME NEW s \in Services
                 PROVE  [svc[s] EXCEPT
                           !.deadline = Earlier(@, IF svc[s].pc = "watch" THEN -MaxWait ELSE 0),
                           !.next = Earlier(@, -MaxWait)] \in ServiceState
      OBVIOUS
    <3>1. svc[s] \in ServiceState
      BY DEF TypeOK
    <3>2. Earlier(svc[s].next, -MaxWait) \in (-MaxWait)..BeatEvery
      BY <3>1, Bounds DEF ServiceState, Earlier
    <3>3. Earlier(svc[s].deadline, IF svc[s].pc = "watch" THEN -MaxWait ELSE 0)
            \in (-MaxWait)..(Timeout + MaxLaunch)
      BY <3>1, Bounds DEF ServiceState, Earlier
    <3>4. QED
      BY <3>1, <3>2, <3>3 DEF ServiceState
  <2>4. \A a \in Jobs \X Attempts : [child[a] EXCEPT !.left = Earlier(@, 0)] \in ChildState
    <3>1. \A a \in Jobs \X Attempts : child[a] \in ChildState
      BY DEF TypeOK
    <3>2. \A a \in Jobs \X Attempts : Earlier(child[a].left, 0) \in 0..(Timeout + MaxLaunch)
      BY <3>1, Bounds DEF ChildState, Earlier
    <3>3. QED
      BY <3>1, <3>2 DEF ChildState
  <2>5. /\ campaign' \in [Campaigns -> CampaignRow] /\ job' \in [Jobs -> JobRow]
        /\ svc' \in [Services -> ServiceState] /\ child' \in [Jobs \X Attempts -> ChildState]
    BY <1>4, <2>1, <2>2, <2>3, <2>4 DEF Tick, TypeOK
  <2>6. QED
    BY <1>4, <2>5 DEF Tick, TypeOK
<1>5. CASE NewDay \/ UNCHANGED vars
  BY <1>5 DEF NewDay, vars, TypeOK
<1>6. QED
  BY <1>1, <1>2, <1>3, <1>4, <1>5, StoreStepType DEF Next, ServiceStep

-----------------------------------------------------------------------------
(* What a step may do to a job. *)

Kept(j) ==
    /\ job'[j].state = job[j].state /\ job'[j].attempt = job[j].attempt
    /\ job'[j].token = job[j].token /\ job'[j].result = job[j].result
    /\ job[j] = NoJob => job'[j] = NoJob

Admitted(j) ==
    /\ job[j] = NoJob
    /\ job'[j].state = "pending" /\ job'[j].attempt = 0 /\ job'[j].result = 0
    /\ campaign'[j[1]].sequence = j[2]

Claimed(j) ==
    /\ job[j].state = "pending" /\ job'[j].state = "running"
    /\ job'[j].attempt = job[j].attempt + 1 /\ job'[j].token = job[j].attempt + 1
    /\ job'[j].result = job[j].result

GivenUp(j) ==
    /\ job[j].state = "running"
    /\ job'[j].state = IF Terminal(j) THEN "failed" ELSE "pending"
    /\ job'[j].attempt = job[j].attempt /\ job'[j].result = job[j].result

Completed(j) ==
    /\ job[j].state = "running" /\ job'[j].state = "completed"
    /\ job'[j].attempt = job[j].attempt /\ job'[j].result = job[j].attempt
    /\ child'[<<j, job[j].attempt>>].sent = "result"

Moves(j) == Kept(j) \/ Admitted(j) \/ Claimed(j) \/ GivenUp(j) \/ Completed(j)

\* A campaign gets its next job only when none of its jobs is open.
SequenceMoves(c) ==
    \/ campaign'[c].sequence = campaign[c].sequence
    \/ ~OpenJob(c) /\ campaign'[c].sequence = campaign[c].sequence + 1

LEMMA SameMoves == ASSUME UNCHANGED job, NEW j \in Jobs PROVE Moves(j)
  BY DEF Moves, Kept

LEMMA FailedMoves ==
    ASSUME TypeOK, NEW j \in Jobs, job[j].state = "running", NEW age, job'[j] = FailedJob(j, age)
    PROVE  Moves(j)
<1>1. job[j] \in JobRow
  BY DEF TypeOK
<1>2. job[j] # NoJob
  BY DEF NoJob
<1>3. GivenUp(j)
  BY <1>1, <1>2 DEF GivenUp, FailedJob, JobRow
<1>4. QED
  BY <1>3 DEF Moves

LEMMA DueMoves ==
    ASSUME TypeOK, NEW ended, NEW age, campaign' = DueAfter(ended, age), NEW c \in Campaigns
    PROVE  campaign'[c].sequence = campaign[c].sequence /\ campaign'[c].known = campaign[c].known
<1>1. campaign[c] \in CampaignRow
  BY DEF TypeOK
<1>2. QED
  BY <1>1 DEF DueAfter, CampaignRow

LEMMA StoreMoves ==
    ASSUME IInv, NEW s \in Services, NEW age \in Ages(s),
           \/ Enqueue(s, age) \/ (\E j \in Jobs : ClaimOne(s, j, age)) \/ ClaimNone(s, age)
           \/ Heartbeat(s, age) \/ HeartbeatRaises(s, age) \/ Finish(s, age)
    PROVE  (\A j \in Jobs : Moves(j)) /\ (\A c \in Campaigns : SequenceMoves(c))
<1> USE DEF IInv
<1>1. \A j \in Jobs : job[j] \in JobRow /\ j[1] \in Campaigns /\ j[2] \in 1..MaxJobs
  BY JobsPairs DEF TypeOK
<1>2. \A c \in Campaigns : campaign[c] \in CampaignRow /\ campaign[c].sequence \in Nat
  BY Bounds DEF TypeOK, CampaignRow
<1>3. CASE Enqueue(s, age)
  <2>1. ASSUME NEW c \in Campaigns PROVE SequenceMoves(c)
    <3>1. CASE Refill(c, age)
      BY <1>2, <1>3, <3>1 DEF Enqueue, SequenceMoves, Refill, CampaignRow
    <3>2. CASE ~Refill(c, age)
      BY <1>3, <3>2 DEF Enqueue, SequenceMoves
    <3>3. QED
      BY <3>1, <3>2
  <2>2. ASSUME NEW j \in Jobs PROVE Moves(j)
    <3>1. CASE Refill(j[1], age) /\ j[2] = campaign[j[1]].sequence + 1
      <4>1. job[j] = NoJob
        <5>1. JobInv(j)
          OBVIOUS
        <5>2. j[2] > campaign[j[1]].sequence
          BY <1>1, <1>2, <3>1
        <5>3. QED
          BY <5>1, <5>2 DEF JobInv
      <4>2. job'[j] = [NoJob EXCEPT !.state = "pending", !.delay = -age]
        BY <1>3, <3>1 DEF Enqueue
      <4>3. job'[j].state = "pending" /\ job'[j].attempt = 0 /\ job'[j].result = 0
        BY <4>2 DEF NoJob
      <4>4. campaign'[j[1]].sequence = j[2]
        BY <1>1, <1>2, <1>3, <3>1 DEF Enqueue, CampaignRow
      <4>5. QED
        BY <4>1, <4>3, <4>4 DEF Moves, Admitted
    <3>2. CASE ~(Refill(j[1], age) /\ j[2] = campaign[j[1]].sequence + 1)
      BY <1>3, <3>2 DEF Enqueue, Moves, Kept
    <3>3. QED
      BY <3>1, <3>2
  <2>3. QED
    BY <2>1, <2>2
<1>4. ASSUME NEW k \in Jobs, ClaimOne(s, k, age), NEW j \in Jobs PROVE Moves(j)
  <2>1. CASE j = k
    <3>1. job[j].state = "pending"
      BY <1>4, <2>1 DEF ClaimOne, Claimable
    <3>2. job'[j] = [job[j] EXCEPT !.state = "running", !.attempt = job[j].attempt + 1,
                                   !.token = job[j].attempt + 1, !.left = Lease(age)]
      BY <1>4, <2>1 DEF ClaimOne
    <3>3. Claimed(j)
      BY <1>1, <3>1, <3>2 DEF Claimed, JobRow
    <3>4. QED
      BY <3>3 DEF Moves
  <2>2. CASE j # k /\ j \in Expired(age)
    BY <1>4, <2>2, FailedMoves DEF ClaimOne, Expired
  <2>3. CASE j # k /\ j \notin Expired(age)
    BY <1>4, <2>3 DEF ClaimOne, Moves, Kept
  <2>4. QED
    BY <2>1, <2>2, <2>3
<1>5. ASSUME ClaimNone(s, age), NEW j \in Jobs PROVE Moves(j)
  <2>1. CASE j \in Expired(age)
    BY <1>5, <2>1, FailedMoves DEF ClaimNone, Expired
  <2>2. CASE j \notin Expired(age)
    BY <1>5, <2>2 DEF ClaimNone, Moves, Kept
  <2>3. QED
    BY <2>1, <2>2
<1>6. ASSUME Heartbeat(s, age), NEW j \in Jobs PROVE Moves(j)
  <2>1. \/ job'[j] = job[j]
        \/ job'[j] = [job[j] EXCEPT !.left = Lease(age)] /\ job[j].state = "running"
    BY <1>6 DEF Heartbeat, Holds, TypeOK
  <2>2. job[j].state = "running" => job[j] # NoJob
    BY DEF NoJob
  <2>3. Kept(j)
    BY <1>1, <2>1, <2>2 DEF Kept, JobRow
  <2>4. QED
    BY <2>3 DEF Moves
<1>7. ASSUME Finish(s, age), NEW j \in Jobs PROVE Moves(j)
  <2>1. CASE UNCHANGED job
    BY <2>1, SameMoves
  <2>2. CASE j # svc[s].job
    <3>1. job'[j] = job[j]
      BY <1>7, <2>2 DEF Finish, TypeOK
    <3>2. QED
      BY <3>1 DEF Moves, Kept
  <2>3. CASE j = svc[s].job /\ Holds(s, age) /\ svc[s].says = "result"
    <3>1. job[j].state = "running" /\ job[j].token = svc[s].token /\ job[j].token = job[j].attempt
      BY <2>3 DEF Holds, JobInv
    <3>2. job'[j] = [job[j] EXCEPT !.state = "completed", !.result = svc[s].token]
      BY <1>7, <2>3 DEF Finish, TypeOK
    <3>3. child'[Attempt(s)].sent = "result" /\ Attempt(s) = <<j, job[j].attempt>>
      BY <1>7, <2>3, <3>1 DEF Finish, ServiceInv, Working, Attempt
    <3>4. Completed(j)
      BY <1>1, <3>1, <3>2, <3>3 DEF Completed, JobRow
    <3>5. QED
      BY <3>4 DEF Moves
  <2>4. CASE j = svc[s].job /\ Holds(s, age) /\ svc[s].says = "error"
    <3>1. job'[j] = FailedJob(j, age) /\ job[j].state = "running"
      BY <1>7, <2>4 DEF Finish, Holds, TypeOK
    <3>2. QED
      BY <3>1, FailedMoves
  <2>5. QED
    BY <1>7, <2>1, <2>2, <2>3, <2>4 DEF Finish
<1>8. ASSUME (\E j \in Jobs : ClaimOne(s, j, age)) \/ ClaimNone(s, age) \/ Heartbeat(s, age)
             \/ HeartbeatRaises(s, age) \/ Finish(s, age), NEW c \in Campaigns
      PROVE  SequenceMoves(c)
  <2>1. UNCHANGED campaign \/ \E ended : campaign' = DueAfter(ended, age)
    BY <1>8 DEF ClaimOne, ClaimNone, Heartbeat, HeartbeatRaises, Finish
  <2>2. QED
    BY <2>1, DueMoves DEF SequenceMoves
<1>9. CASE HeartbeatRaises(s, age)
  BY <1>8, <1>9, SameMoves DEF HeartbeatRaises
<1>10. QED
  BY <1>3, <1>4, <1>5, <1>6, <1>7, <1>8, <1>9

LEMMA StepMoves ==
    ASSUME IInv, [Next]_vars
    PROVE  (\A j \in Jobs : Moves(j)) /\ (\A c \in Campaigns : SequenceMoves(c))
<1> USE DEF IInv
<1>1. CASE UNCHANGED <<campaign, job>>
  BY <1>1, SameMoves DEF SequenceMoves
<1>2. ASSUME NEW c \in Campaigns, Register(c) \/ \E active \in BOOLEAN : SetActive(c, active)
      PROVE  (\A j \in Jobs : Moves(j)) /\ (\A d \in Campaigns : SequenceMoves(d))
  <2>1. UNCHANGED job
    BY <1>2 DEF Register, SetActive
  <2>2. ASSUME NEW d \in Campaigns PROVE campaign'[d].sequence = campaign[d].sequence
    <3>1. PICK known \in BOOLEAN, active \in BOOLEAN :
              campaign' = [campaign EXCEPT ![c].known = known, ![c].active = active]
      BY <1>2, RegisterWays
    <3>2. campaign[d] \in CampaignRow
      BY DEF TypeOK
    <3>3. QED
      BY <3>1, <3>2 DEF TypeOK, CampaignRow
  <2>3. QED
    BY <2>1, <2>2, SameMoves DEF SequenceMoves
<1>3. CASE Tick
  <2>1. ASSUME NEW c \in Campaigns PROVE campaign'[c].sequence = campaign[c].sequence
    BY <1>3 DEF Tick, TypeOK, CampaignRow
  <2>2. ASSUME NEW j \in Jobs PROVE Moves(j)
    <3>1. job[j] \in JobRow
      BY DEF TypeOK
    <3>2. CASE Open(j)
      <4>1. job'[j] = [job[j] EXCEPT !.delay = Earlier(job[j].delay, -MaxWait),
                                     !.left = Earlier(job[j].left, -MaxWait)]
        BY <1>3, <3>2 DEF Tick
      <4>2. job[j] # NoJob
        BY <3>2 DEF Open, NoJob
      <4>3. QED
        BY <3>1, <4>1, <4>2 DEF Moves, Kept, JobRow
    <3>3. CASE ~Open(j)
      BY <1>3, <3>3 DEF Tick, Moves, Kept
    <3>4. QED
      BY <3>2, <3>3
  <2>3. QED
    BY <2>1, <2>2 DEF SequenceMoves
<1>4. QED
  BY <1>1, <1>2, <1>3, StoreMoves
  DEF Next, ServiceStep, Restart, Launch, Receive, GiveUp, StopChild, Crash, ChildStep,
      ChildStarts, ChildEnds, ChildKilled, NewDay, Ending, vars

-----------------------------------------------------------------------------
(* The jobs keep their invariant. *)

LEMMA JobsStep ==
    ASSUME IInv, [Next]_vars,
           \A a \in Jobs \X Attempts : child[a].sent = "result" => child'[a].sent = "result"
    PROVE  \A j \in Jobs : JobInv(j)'
<1> SUFFICES ASSUME NEW j \in Jobs PROVE JobInv(j)'
  OBVIOUS
<1> USE DEF IInv
<1>1. PICK c \in Campaigns, n \in 1..MaxJobs : c = j[1] /\ n = j[2] /\ j = <<c, n>>
  BY JobsPairs
<1>2. JobInv(j) /\ Moves(j) /\ SequenceMoves(c)
  BY StepMoves
<1>3. job[j] \in JobRow /\ job'[j] \in JobRow
  BY TypeStep DEF TypeOK
<1>4. campaign[c].sequence \in Nat /\ campaign'[c].sequence \in Nat /\ n \in Nat
  BY TypeStep, Bounds DEF TypeOK, CampaignRow
<1>5. campaign'[c].sequence >= campaign[c].sequence
  BY <1>2, <1>4 DEF SequenceMoves
<1>6. Open(j) => OpenJob(c) /\ campaign'[c].sequence = campaign[c].sequence
  BY <1>1, <1>2 DEF SequenceMoves, OpenJob
<1>7. job'[j].state = "none" \/ n > campaign'[c].sequence => job'[j] = NoJob
  <2>1. CASE job'[j].state = "none"
    <3>1. job[j] = NoJob /\ Kept(j)
      BY <1>2, <2>1 DEF Moves, Kept, Admitted, Claimed, GivenUp, Completed, JobInv
    <3>2. QED
      BY <3>1 DEF Kept
  <2>2. CASE n > campaign'[c].sequence
    <3>1. n > campaign[c].sequence
      BY <1>4, <1>5, <2>2
    <3>2. job[j] = NoJob
      BY <1>1, <1>2, <3>1 DEF JobInv
    <3>3. job[j].state = "none"
      BY <3>2 DEF NoJob
    <3>4. ~Admitted(j)
      BY <1>1, <1>4, <2>2 DEF Admitted
    <3>5. Kept(j)
      BY <1>2, <3>3, <3>4 DEF Moves, Claimed, GivenUp, Completed
    <3>6. QED
      BY <3>2, <3>5 DEF Kept
  <2>3. QED
    BY <2>1, <2>2
<1>8. job'[j].state \in {"pending", "running"} => n = campaign'[c].sequence /\ job'[j].result = 0
  <2> SUFFICES ASSUME job'[j].state \in {"pending", "running"}
               PROVE  n = campaign'[c].sequence /\ job'[j].result = 0
    OBVIOUS
  <2>1. CASE Admitted(j)
    BY <1>1, <2>1 DEF Admitted
  <2>2. CASE ~Admitted(j)
    <3>1. Open(j) /\ job'[j].result = job[j].result
      BY <1>2, <2>2 DEF Moves, Kept, Claimed, GivenUp, Completed, Open
    <3>2. QED
      BY <1>1, <1>2, <1>6, <3>1 DEF JobInv
  <2>3. QED
    BY <2>1, <2>2
<1>9. job'[j].state = "pending" => job'[j].attempt < MaxAttempts
  <2> SUFFICES ASSUME job'[j].state = "pending" PROVE job'[j].attempt < MaxAttempts
    OBVIOUS
  <2>1. CASE GivenUp(j)
    BY <1>3, <2>1, Bounds DEF GivenUp, Terminal, JobRow
  <2>2. CASE ~GivenUp(j)
    BY <1>2, <2>2, Bounds DEF Moves, Kept, Admitted, Claimed, Completed, JobInv
  <2>3. QED
    BY <2>1, <2>2
<1>10. job'[j].state = "running" => job'[j].token = job'[j].attempt /\ job'[j].attempt > 0
  <2>1. job'[j].state = "running" => ~Admitted(j) /\ ~GivenUp(j) /\ ~Completed(j)
    BY DEF Admitted, GivenUp, Completed
  <2>2. QED
    BY <1>2, <1>3, <2>1 DEF Moves, Kept, Claimed, JobInv, JobRow
<1>11. job'[j].state = "completed" =>
         /\ job'[j].attempt > 0 /\ job'[j].result = job'[j].attempt
         /\ child'[<<j, job'[j].attempt>>].sent = "result"
  <2> SUFFICES ASSUME job'[j].state = "completed"
               PROVE  /\ job'[j].attempt > 0 /\ job'[j].result = job'[j].attempt
                      /\ child'[<<j, job'[j].attempt>>].sent = "result"
    OBVIOUS
  <2>1. CASE Completed(j)
    BY <1>2, <2>1 DEF Completed, JobInv
  <2>2. CASE ~Completed(j)
    <3>1. Kept(j) /\ job[j].state = "completed"
      BY <1>2, <2>2 DEF Moves, Kept, Admitted, Claimed, GivenUp
    <3>2. /\ job[j].attempt > 0 /\ job[j].result = job[j].attempt
          /\ child[<<j, job[j].attempt>>].sent = "result"
      BY <1>2, <3>1 DEF JobInv
    <3>3. <<j, job[j].attempt>> \in Jobs \X Attempts
      BY <1>3, <3>2, Bounds DEF JobRow, Attempts
    <3>4. QED
      BY <3>1, <3>2, <3>3 DEF Kept
  <2>3. QED
    BY <2>1, <2>2
<1>12. QED
  BY <1>1, <1>7, <1>8, <1>9, <1>10, <1>11 DEF JobInv, Open

-----------------------------------------------------------------------------
(* What a step may do to the child of an attempt. *)

\* A child is born for the service that launches its attempt, sends at most one
\* message, when it dies, and stays dead.
ChildMoves(a) ==
    /\ child'[a].state # "none" => a[2] <= job[a[1]].attempt
    /\ child'[a].sent # "none" => child'[a].state = "dead"
    /\ child[a].sent # "none" => child'[a].sent = child[a].sent
    /\ child[a].state = "dead" => child'[a].state = "dead"
    /\ child[a].state = "none" /\ child'[a].state # "none" =>
         \E s \in Services : Working(s) /\ Attempt(s) = a /\ svc'[s].pc # "launch"

LEMMA SameChildMoves ==
    ASSUME IInv, NEW a \in Jobs \X Attempts,
           child'[a].state = child[a].state, child'[a].sent = child[a].sent
    PROVE  ChildMoves(a)
  BY DEF IInv, ChildInv, ChildMoves

LEMMA ChildrenMove == ASSUME IInv, [Next]_vars, NEW a \in Jobs \X Attempts PROVE ChildMoves(a)
<1> USE DEF IInv
<1>1. ChildInv(a) /\ child[a] \in ChildState
  BY DEF TypeOK
<1>2. CASE UNCHANGED child
  BY <1>2, SameChildMoves
<1>3. ASSUME NEW s \in Services, Launch(s) PROVE ChildMoves(a)
  <2>1. Working(s) /\ ServiceInv(s) /\ svc[s].pc = "launch"
    BY <1>3 DEF Launch, Working
  <2>2. CASE a = Attempt(s)
    <3>1. child'[a] = [state |-> "starting", left |-> svc[s].deadline, sent |-> "none"]
      BY <1>3, <2>2 DEF Launch, TypeOK
    <3>2. a[1] = svc[s].job /\ a[2] = svc[s].token
      BY <2>1, <2>2, AttemptType
    <3>3. child[a].state = "none" /\ a[2] <= job[a[1]].attempt
      BY <2>1, <2>2, <3>2 DEF ServiceInv
    <3>4. svc'[s].pc # "launch"
      BY <1>3 DEF Launch, TypeOK, ServiceState
    <3>5. QED
      BY <1>1, <2>1, <2>2, <3>1, <3>3, <3>4 DEF ChildMoves, ChildInv
  <2>3. CASE a # Attempt(s)
    BY <1>3, <2>3, SameChildMoves DEF Launch, TypeOK
  <2>4. QED
    BY <2>2, <2>3
<1>4. ASSUME NEW s \in Services, StopChild(s) PROVE ChildMoves(a)
  <2>1. Working(s) /\ ServiceInv(s) /\ svc[s].pc = "stop"
    BY <1>4 DEF StopChild, Working
  <2>2. CASE a = Attempt(s)
    <3>1. child'[a] = [child[a] EXCEPT !.state = "dead", !.left = 0]
      BY <1>4, <2>2 DEF StopChild, TypeOK
    <3>2. a[1] = svc[s].job /\ a[2] = svc[s].token
      BY <2>1, <2>2, AttemptType
    <3>3. a[2] <= job[a[1]].attempt
      BY <2>1, <3>2 DEF ServiceInv
    <3>4. svc'[s].pc # "launch"
      BY <1>4, <2>1 DEF StopChild, TypeOK, ServiceState, Idle
    <3>5. child'[a].state = "dead" /\ child'[a].sent = child[a].sent
      BY <1>1, <3>1 DEF ChildState
    <3>6. QED
      BY <2>1, <2>2, <3>3, <3>4, <3>5 DEF ChildMoves
  <2>3. CASE a # Attempt(s)
    BY <1>4, <2>3, SameChildMoves DEF StopChild, TypeOK
  <2>4. QED
    BY <2>2, <2>3
<1>5. ASSUME NEW b \in Jobs \X Attempts, ChildStep(b) PROVE ChildMoves(a)
  <2>1. CASE a = b
    <3>1. /\ child[a].state \in {"starting", "running"}
          /\ child'[a].state \in {"running", "dead"}
          /\ child'[a].sent = child[a].sent \/ child'[a].state = "dead"
      BY <1>1, <1>5, <2>1
      DEF ChildStep, ChildStarts, ChildEnds, ChildKilled, TypeOK, ChildState
    <3>2. child[a].sent = "none" /\ a[2] <= job[a[1]].attempt
      BY <1>1, <3>1 DEF ChildInv
    <3>3. QED
      BY <3>1, <3>2 DEF ChildMoves
  <2>2. CASE a # b
    BY <1>5, <2>2, SameChildMoves
    DEF ChildStep, ChildStarts, ChildEnds, ChildKilled, TypeOK
  <2>3. QED
    BY <2>1, <2>2
<1>6. CASE Tick
  BY <1>1, <1>6, SameChildMoves DEF Tick, TypeOK, ChildState
<1>7. ASSUME NEW s \in Services, ServiceStep(s) \/ Crash(s)
      PROVE  UNCHANGED child \/ Launch(s) \/ StopChild(s)
  BY <1>7
  DEF ServiceStep, Enqueue, ClaimOne, ClaimNone, Heartbeat, HeartbeatRaises, Finish, Restart,
      Receive, GiveUp, Crash
<1>8. CASE \/ \E c \in Campaigns : Register(c)
           \/ \E c \in Campaigns, active \in BOOLEAN : SetActive(c, active)
           \/ NewDay \/ UNCHANGED vars
  BY <1>2, <1>8 DEF Register, SetActive, NewDay, vars
<1>9. QED
  BY <1>2, <1>3, <1>4, <1>5, <1>6, <1>7, <1>8 DEF Next

\* Attempts are counted up.
LEMMA AttemptsGrow ==
    ASSUME IInv, [Next]_vars, NEW j \in Jobs
    PROVE  /\ job[j].attempt \in Nat /\ job'[j].attempt \in Nat
           /\ job[j].attempt <= job'[j].attempt
<1>1. job[j] \in JobRow /\ job'[j] \in JobRow
  BY TypeStep DEF IInv, TypeOK
<1>2. job[j].attempt \in Nat /\ job'[j].attempt \in Nat
  BY <1>1, Bounds DEF JobRow
<1>3. Moves(j)
  BY StepMoves
<1>4. QED
  BY <1>2, <1>3 DEF Moves, Kept, Admitted, Claimed, GivenUp, Completed, NoJob

LEMMA ChildrenStep ==
    ASSUME IInv, [Next]_vars
    PROVE  \A a \in Jobs \X Attempts : ChildInv(a)'
<1> SUFFICES ASSUME NEW a \in Jobs \X Attempts PROVE ChildInv(a)'
  OBVIOUS
<1>1. ChildMoves(a)
  BY ChildrenMove
<1>2. a[1] \in Jobs /\ a[2] \in Nat
  BY Bounds DEF Attempts
<1>3. job[a[1]].attempt \in Nat /\ job'[a[1]].attempt \in Nat
      /\ job[a[1]].attempt <= job'[a[1]].attempt
  BY <1>2, AttemptsGrow
<1>4. QED
  BY <1>1, <1>2, <1>3 DEF ChildMoves, ChildInv

-----------------------------------------------------------------------------
(* What a step may do to a service. *)

Continues(s) ==
    /\ Working(s) /\ svc'[s].job = svc[s].job /\ svc'[s].token = svc[s].token
    /\ svc'[s].pc = "launch" => svc[s].pc = "launch" /\ svc'[s].deadline \in 0..MaxLaunch
    /\ svc'[s].pc = "report" => child'[Attempt(s)].state = "dead"
    /\ svc'[s].pc \in {"stop", "report"} /\ svc'[s].says = "result" =>
         child'[Attempt(s)].sent = "result"

\* A claim takes the attempt after every one a service may have.
Claims(s) ==
    \E j \in Jobs :
        /\ svc'[s].pc = "launch" /\ svc'[s].job = j /\ svc'[s].deadline \in 0..MaxLaunch
        /\ svc'[s].token = job[j].attempt + 1 /\ job'[j].attempt = job[j].attempt + 1
        /\ UNCHANGED child
        /\ \A t \in Services : t # s => svc'[t] = svc[t]

ServiceMoves(s) == Working(s)' => Continues(s) \/ Claims(s)

LEMMA SameServiceMoves ==
    ASSUME IInv, [Next]_vars, NEW s \in Services, svc'[s] = svc[s]
    PROVE  ServiceMoves(s)
<1> SUFFICES ASSUME Working(s) PROVE Continues(s)
  BY DEF ServiceMoves, Working
<1>1. ServiceInv(s) /\ Attempt(s) \in Jobs \X Attempts
  BY AttemptType DEF IInv
<1>2. ChildMoves(Attempt(s))
  BY <1>1, ChildrenMove
<1>3. QED
  BY <1>1, <1>2 DEF Continues, ServiceInv, ChildMoves

LEMMA ServicesMove == ASSUME IInv, [Next]_vars, NEW t \in Services PROVE ServiceMoves(t)
<1> USE DEF IInv
<1>1. svc[t] \in ServiceState /\ svc'[t] \in ServiceState /\ ServiceInv(t)
  BY TypeStep DEF TypeOK
<1>2. CASE UNCHANGED svc
  BY <1>2, SameServiceMoves
<1>3. ASSUME NEW s \in Services,
             \/ \E age \in Ages(s) : Enqueue(s, age) \/ ClaimNone(s, age) \/ Finish(s, age)
             \/ Restart(s) \/ Crash(s)
      PROVE  ServiceMoves(t)
  <2>1. CASE t = s
    <3>1. ~Working(t)'
      <4>1. \/ svc' = [svc EXCEPT ![s].pc = "claim", ![s].next = 0]
            \/ svc' = [svc EXCEPT ![s] = Idle]
            \/ svc' = [svc EXCEPT ![s] = [Idle EXCEPT !.pc = "down"]]
        BY <1>3 DEF Enqueue, ClaimNone, Finish, Restart, Crash
      <4>2. svc'[t].pc \in {"claim", "idle", "down"}
        BY <1>1, <2>1, <4>1 DEF TypeOK, ServiceState, Idle
      <4>3. QED
        BY <4>2 DEF Working
    <3>2. QED
      BY <3>1 DEF ServiceMoves
  <2>2. CASE t # s
    BY <1>3, <2>2, SameServiceMoves
    DEF Enqueue, ClaimNone, Finish, Restart, Crash, TypeOK
  <2>3. QED
    BY <2>1, <2>2
<1>4. ASSUME NEW s \in Services, NEW age \in Ages(s), NEW j \in Jobs, ClaimOne(s, j, age)
      PROVE  ServiceMoves(t)
  <2>1. svc' = [svc EXCEPT ![s] = [Idle EXCEPT !.pc = "launch", !.job = j,
                                               !.token = job[j].attempt + 1,
                                               !.deadline = MaxLaunch - age]]
    BY <1>4 DEF ClaimOne
  <2>2. CASE t = s
    <3>1. /\ svc'[t].pc = "launch" /\ svc'[t].job = j /\ svc'[t].token = job[j].attempt + 1
          /\ svc'[t].deadline = MaxLaunch - age
      BY <2>1, <2>2 DEF TypeOK, Idle
    <3>2. MaxLaunch - age \in 0..MaxLaunch
      BY AgeType, Bounds
    <3>3. UNCHANGED child /\ \A u \in Services : u # t => svc'[u] = svc[u]
      BY <1>4, <2>1, <2>2 DEF ClaimOne, TypeOK
    <3>4. job'[j].attempt = job[j].attempt + 1
      BY <1>4 DEF ClaimOne, TypeOK, JobRow
    <3>5. Claims(t)
      BY <3>1, <3>2, <3>3, <3>4 DEF Claims
    <3>6. QED
      BY <3>5 DEF ServiceMoves
  <2>3. CASE t # s
    BY <2>1, <2>3, SameServiceMoves DEF TypeOK
  <2>4. QED
    BY <2>2, <2>3
<1>5. ASSUME NEW s \in Services, t # s,
             \/ \E age \in Ages(s) : Heartbeat(s, age) \/ HeartbeatRaises(s, age)
             \/ Launch(s) \/ Receive(s) \/ GiveUp(s) \/ StopChild(s)
      PROVE  ServiceMoves(t)
  BY <1>5, SameServiceMoves
  DEF Heartbeat, HeartbeatRaises, Launch, Receive, GiveUp, StopChild, Ending, TypeOK
<1>6. CASE \/ \E age \in Ages(t) : Heartbeat(t, age) \/ HeartbeatRaises(t, age)
           \/ Launch(t) \/ Receive(t) \/ GiveUp(t)
  <2>1. Working(t)
    BY <1>6 DEF Heartbeat, HeartbeatRaises, BeatDue, Launch, Receive, GiveUp, Working
  <2>2. PICK a \in Jobs \X Attempts : a = Attempt(t)
    BY <2>1, AttemptType
  <2>3. \/ svc' = [svc EXCEPT ![t].next = BeatEvery] /\ svc[t].pc = "watch"
        \/ svc' = [svc EXCEPT ![t].pc = "watch", ![t].deadline = Timeout, ![t].next = BeatEvery]
        \/ \E says \in {"result", "error", "lost"} :
              /\ Ending(t, says) /\ UNCHANGED child
              /\ says = "result" => child[a].sent = "result"
    BY <1>6, <2>2 DEF Heartbeat, HeartbeatRaises, BeatDue, Launch, Receive, GiveUp
  <2>4. /\ svc'[t].job = svc[t].job /\ svc'[t].token = svc[t].token
        /\ svc'[t].pc \in {"watch", "stop"}
        /\ svc'[t].pc = "stop" /\ svc'[t].says = "result" => child'[a].sent = "result"
    <3>1. CASE svc' = [svc EXCEPT ![t].next = BeatEvery] /\ svc[t].pc = "watch"
      BY <1>1, <3>1 DEF TypeOK, ServiceState
    <3>2. CASE svc' = [svc EXCEPT ![t].pc = "watch", ![t].deadline = Timeout,
                                  ![t].next = BeatEvery]
      BY <1>1, <3>2 DEF TypeOK, ServiceState
    <3>3. ASSUME NEW says \in {"result", "error", "lost"}, Ending(t, says), UNCHANGED child,
                 says = "result" => child[a].sent = "result"
          PROVE  /\ svc'[t].job = svc[t].job /\ svc'[t].token = svc[t].token
                 /\ svc'[t].pc \in {"watch", "stop"}
                 /\ svc'[t].pc = "stop" /\ svc'[t].says = "result" => child'[a].sent = "result"
      BY <1>1, <3>3 DEF Ending, TypeOK, ServiceState
    <3>4. QED
      BY <2>3, <3>1, <3>2, <3>3
  <2>5. Continues(t)
    BY <2>1, <2>2, <2>4 DEF Continues
  <2>6. QED
    BY <2>5 DEF ServiceMoves
<1>7. CASE StopChild(t)
  <2>1. Working(t) /\ svc[t].pc = "stop"
    BY <1>7 DEF StopChild, Working
  <2>2. PICK a \in Jobs \X Attempts : a = Attempt(t)
    BY <2>1, AttemptType
  <2>3. child'[a].state = "dead" /\ child'[a].sent = child[a].sent
    BY <1>7, <2>2 DEF StopChild, TypeOK, ChildState
  <2>4. CASE svc[t].says = "lost"
    BY <1>7, <2>4 DEF StopChild, TypeOK, ServiceState, Idle, ServiceMoves, Working
  <2>5. CASE svc[t].says # "lost"
    <3>1. svc'[t] = [svc[t] EXCEPT !.pc = "report", !.deadline = 0, !.next = 0]
      BY <1>7, <2>5 DEF StopChild, TypeOK
    <3>2. /\ svc'[t].job = svc[t].job /\ svc'[t].token = svc[t].token
          /\ svc'[t].says = svc[t].says /\ svc'[t].pc = "report"
      BY <1>1, <3>1 DEF ServiceState
    <3>3. svc[t].says = "result" => child[a].sent = "result"
      BY <1>1, <2>1, <2>2 DEF ServiceInv
    <3>4. Continues(t)
      BY <2>1, <2>2, <2>3, <3>2, <3>3 DEF Continues
    <3>5. QED
      BY <3>4 DEF ServiceMoves
  <2>6. QED
    BY <2>4, <2>5
<1>8. CASE Tick
  <2>1. /\ svc'[t].pc = svc[t].pc /\ svc'[t].job = svc[t].job /\ svc'[t].token = svc[t].token
        /\ svc'[t].says = svc[t].says
        /\ svc'[t].deadline = Earlier(svc[t].deadline, IF svc[t].pc = "watch" THEN -MaxWait ELSE 0)
    BY <1>1, <1>8 DEF Tick, ServiceState
  <2>2. svc[t].pc = "launch" => svc'[t].deadline \in 0..MaxLaunch
    <3> SUFFICES ASSUME svc[t].pc = "launch" PROVE svc'[t].deadline \in 0..MaxLaunch
      OBVIOUS
    <3>1. svc[t].deadline \in 0..MaxLaunch
      BY <1>1 DEF ServiceInv, Working
    <3>2. svc'[t].deadline = Earlier(svc[t].deadline, 0)
      BY <2>1
    <3>3. QED
      BY <3>1, <3>2, Bounds DEF Earlier
  <2>3. CASE Working(t)
    <3>1. PICK a \in Jobs \X Attempts : a = Attempt(t)
      BY <2>3, AttemptType
    <3>2. ChildMoves(a)
      BY ChildrenMove
    <3>3. Continues(t)
      BY <1>1, <2>1, <2>2, <2>3, <3>1, <3>2 DEF Continues, ServiceInv, ChildMoves
    <3>4. QED
      BY <3>3 DEF ServiceMoves
  <2>4. CASE ~Working(t)
    BY <2>1, <2>4 DEF ServiceMoves, Working
  <2>5. QED
    BY <2>3, <2>4
<1>9. ASSUME NEW s \in Services, ServiceStep(s) PROVE ServiceMoves(t)
  <2>1. CASE t = s
    BY <1>3, <1>4, <1>6, <1>7, <1>9, <2>1 DEF ServiceStep
  <2>2. CASE t # s
    BY <1>3, <1>4, <1>5, <1>9, <2>2 DEF ServiceStep
  <2>3. QED
    BY <2>1, <2>2
<1>10. CASE \/ \E c \in Campaigns : Register(c)
            \/ \E c \in Campaigns, active \in BOOLEAN : SetActive(c, active)
            \/ \E a \in Jobs \X Attempts : ChildStep(a)
            \/ NewDay \/ UNCHANGED vars
  BY <1>2, <1>10
  DEF Register, SetActive, ChildStep, ChildStarts, ChildEnds, ChildKilled, NewDay, vars
<1>11. QED
  BY <1>3, <1>8, <1>9, <1>10 DEF Next

LEMMA ServicesStep ==
    ASSUME IInv, [Next]_vars
    PROVE  \A s \in Services : ServiceInv(s)'
<1> SUFFICES ASSUME NEW s \in Services, Working(s)' PROVE ServiceInv(s)'
  BY DEF ServiceInv
<1> USE DEF IInv
<1>1. svc[s] \in ServiceState /\ svc'[s] \in ServiceState
  BY TypeStep DEF TypeOK
<1>2. CASE Continues(s)
  <2>1. PICK j \in Jobs, k \in Attempts, a \in Jobs \X Attempts :
            /\ j = svc[s].job /\ k = svc[s].token /\ a = Attempt(s)
            /\ j = svc'[s].job /\ k = svc'[s].token
    BY <1>2, AttemptType DEF Continues
  <2>2. a = <<j, k>> /\ Attempt(s)' = a
    BY <2>1 DEF Attempt
  <2>3. ServiceInv(s)
    OBVIOUS
  <2>4. k <= job[j].attempt
    BY <1>2, <2>1, <2>3 DEF Continues, ServiceInv
  <2>5. k \in Nat
    BY Bounds DEF Attempts
  <2>6. k <= job'[j].attempt
    BY <2>4, <2>5, AttemptsGrow
  <2>7. svc'[s].pc = "launch" => child'[a].state = "none" /\ svc'[s].deadline \in 0..MaxLaunch
    <3> SUFFICES ASSUME svc'[s].pc = "launch" PROVE child'[a].state = "none"
      BY <1>2 DEF Continues
    <3>1. child[a].state = "none"
      BY <1>2, <2>1, <2>3 DEF Continues, ServiceInv
    <3>2. CASE child'[a].state # "none"
      <4>1. PICK t \in Services : Working(t) /\ Attempt(t) = a /\ svc'[t].pc # "launch"
        BY <3>1, <3>2, ChildrenMove DEF ChildMoves
      <4>2. t = s
        BY <1>2, <2>1, <4>1 DEF OwnAttempts, Continues
      <4>3. QED
        BY <4>1, <4>2
    <3>3. QED
      BY <3>2
  <2>8. /\ svc'[s].pc = "report" => child'[a].state = "dead"
        /\ svc'[s].pc \in {"stop", "report"} /\ svc'[s].says = "result" =>
             child'[a].sent = "result"
    BY <1>2, <2>1 DEF Continues
  <2>9. QED
    BY <2>1, <2>2, <2>6, <2>7, <2>8 DEF ServiceInv
<1>3. CASE Claims(s)
  <2>1. PICK j \in Jobs :
            /\ svc'[s].pc = "launch" /\ svc'[s].job = j /\ svc'[s].deadline \in 0..MaxLaunch
            /\ svc'[s].token = job[j].attempt + 1 /\ job'[j].attempt = job[j].attempt + 1
            /\ UNCHANGED child
    BY <1>3 DEF Claims
  <2>2. PICK k \in Attempts : k = job[j].attempt + 1
    <3>1. job'[j] \in JobRow /\ job[j].attempt \in Nat
      BY TypeStep, AttemptsGrow DEF TypeOK
    <3>2. job[j].attempt + 1 \in Attempts
      BY <2>1, <3>1, Bounds DEF JobRow, Attempts
    <3>3. QED
      BY <3>2
  <2>3. Attempt(s)' = <<j, k>> /\ <<j, k>> \in Jobs \X Attempts
    BY <2>1, <2>2 DEF Attempt
  <2>4. child[<<j, k>>].state = "none"
    <3>1. ChildInv(<<j, k>>) /\ ~(k <= job[j].attempt)
      BY <2>2, <2>3, AttemptsGrow
    <3>2. QED
      BY <3>1 DEF ChildInv
  <2>5. k <= job'[j].attempt
    BY <2>1, <2>2, AttemptsGrow
  <2>6. QED
    BY <2>1, <2>2, <2>3, <2>4, <2>5 DEF ServiceInv
<1>4. QED
  BY <1>2, <1>3, ServicesMove DEF ServiceMoves

LEMMA OwnStep == ASSUME IInv, [Next]_vars PROVE OwnAttempts'
<1> SUFFICES ASSUME NEW s \in Services, NEW t \in Services, s # t,
                    Working(s)', Working(t)', Attempt(s)' = Attempt(t)'
             PROVE  FALSE
  BY DEF OwnAttempts
<1> USE DEF IInv
<1>1. ASSUME NEW u \in Services, NEW v \in Services, u # v, Claims(u), Working(v)'
      PROVE  Attempt(u)' # Attempt(v)'
  <2>1. PICK j \in Jobs :
            /\ svc'[u].job = j /\ svc'[u].token = job[j].attempt + 1
            /\ \A w \in Services : w # u => svc'[w] = svc[w]
    BY <1>1 DEF Claims
  <2>2. svc'[v] = svc[v] /\ Working(v)
    BY <1>1, <2>1 DEF Working
  <2>3. CASE svc[v].job = j
    <3>1. svc[v].token <= job[j].attempt /\ svc[v].token \in Nat
      BY <2>2, <2>3, Bounds DEF ServiceInv, Attempts
    <3>2. svc'[u].token # svc'[v].token
      BY <2>1, <2>2, <3>1, AttemptsGrow
    <3>3. QED
      BY <3>2 DEF Attempt
  <2>4. CASE svc[v].job # j
    BY <2>1, <2>2, <2>4 DEF Attempt
  <2>5. QED
    BY <2>3, <2>4
<1>2. Continues(s) /\ Continues(t)
  BY <1>1, ServicesMove DEF ServiceMoves
<1>3. Attempt(s) = Attempt(t) /\ Working(s) /\ Working(t)
  BY <1>2 DEF Continues, Attempt
<1>4. QED
  BY <1>3 DEF OwnAttempts

-----------------------------------------------------------------------------
(* The invariant, and what it says of the store. *)

LEMMA InitInv == Init => IInv
<1> SUFFICES ASSUME Init PROVE IInv
  OBVIOUS
<1>1. TypeOK
  <2>1. [known |-> FALSE, active |-> FALSE, sequence |-> 0, due |-> 0] \in CampaignRow
    BY Bounds DEF CampaignRow
  <2>2. QED
    BY <2>1, BlankTypes DEF Init, TypeOK
<1>2. ASSUME NEW j \in Jobs PROVE JobInv(j)
  BY DEF Init, JobInv, Open, NoJob
<1>3. ASSUME NEW a \in Jobs \X Attempts PROVE ChildInv(a)
  BY DEF Init, ChildInv, NoChild
<1>4. \A s \in Services : ~Working(s)
  BY DEF Init, Working, Idle
<1>5. QED
  BY <1>1, <1>2, <1>3, <1>4 DEF IInv, ServiceInv, OwnAttempts

LEMMA InvStep == IInv /\ [Next]_vars => IInv'
<1> SUFFICES ASSUME IInv, [Next]_vars PROVE IInv'
  OBVIOUS
<1>1. \A a \in Jobs \X Attempts : child[a].sent = "result" => child'[a].sent = "result"
  BY ChildrenMove DEF ChildMoves
<1>2. \A j \in Jobs : JobInv(j)'
  BY <1>1, JobsStep
<1>3. QED
  BY <1>2, TypeStep, ChildrenStep, ServicesStep, OwnStep DEF IInv

\* The store and its services keep the inductive invariant: blank jobs after the
\* latest one, leases of the latest attempts, services with attempts of their own
\* (enqueue, claim, heartbeat, finish, step).
THEOREM InvHolds == Spec => []IInv
<1>1. Init => IInv
  BY InitInv
<1>2. IInv /\ [Next]_vars => IInv'
  BY InvStep
<1>3. QED
  BY <1>1, <1>2, PTL DEF Spec

\* A campaign has at most one open job, its latest, however many services refill
\* it at once (enqueue).
THEOREM OneOpen == Spec => []OneOpenJob
<1>1. IInv => OneOpenJob
  BY DEF IInv, JobInv, OneOpenJob
<1>2. QED
  BY <1>1, InvHolds, PTL

\* What a completed job publishes is what the child of its last attempt sent,
\* whatever services that lost their lease report (finish).
THEOREM PublishedRight == Spec => []PublishedByLastAttempt
<1>1. IInv => PublishedByLastAttempt
  BY DEF IInv, JobInv, PublishedByLastAttempt
<1>2. QED
  BY <1>1, InvHolds, PTL

-----------------------------------------------------------------------------
(* The cap of a day. *)

StartsOf(c) == {a \in today : a[1][1] = c}

DayInv == IsFiniteSet(today) /\ DailyCapRespected

LEMMA DayClaim ==
    ASSUME TypeOK, DayInv, NEW s \in Services, NEW j \in Jobs, NEW age, ClaimOne(s, j, age)
    PROVE  DayInv'
<1> DEFINE new == <<j, job[j].attempt + 1>>
<1>1. today' = today \cup {new} /\ Used(j[1]) < DailyCap
  BY DEF ClaimOne, Claimable
<1>2. IsFiniteSet(today')
  BY <1>1, FS_AddElement DEF DayInv
<1>3. ASSUME NEW c \in Campaigns PROVE Cardinality({a \in today' : a[1][1] = c}) <= DailyCap
  <2>1. IsFiniteSet(StartsOf(c)) /\ Cardinality(StartsOf(c)) \in Nat
    <3>1. StartsOf(c) \in SUBSET today
      BY DEF StartsOf
    <3>2. IsFiniteSet(StartsOf(c))
      BY <3>1, FS_Subset DEF DayInv
    <3>3. QED
      BY <3>2, FS_CardinalityType
  <2>2. CASE c = j[1]
    <3>1. {a \in today' : a[1][1] = c} = StartsOf(c) \cup {new}
      BY <1>1, <2>2 DEF StartsOf
    <3>2. Cardinality(StartsOf(c)) < DailyCap
      BY <1>1, <2>2 DEF StartsOf, Used
    <3>3. Cardinality(StartsOf(c) \cup {new}) =
            IF new \in StartsOf(c) THEN Cardinality(StartsOf(c)) ELSE Cardinality(StartsOf(c)) + 1
      BY <2>1, FS_AddElement, Zenon
    <3>4. Cardinality(StartsOf(c) \cup {new}) <= DailyCap
      BY <2>1, <3>2, <3>3, Bounds
    <3>5. QED
      BY <3>1, <3>4
  <2>3. CASE c # j[1]
    <3>1. {a \in today' : a[1][1] = c} = StartsOf(c)
      BY <1>1, <2>3 DEF StartsOf
    <3>2. QED
      BY <3>1 DEF DayInv, DailyCapRespected, StartsOf
  <2>4. QED
    BY <2>2, <2>3
<1>4. QED
  BY <1>2, <1>3 DEF DayInv, DailyCapRespected

LEMMA DayStep == ASSUME TypeOK, DayInv, [Next]_vars PROVE DayInv'
<1>1. CASE UNCHANGED today
  BY <1>1 DEF DayInv, DailyCapRespected
<1>2. CASE NewDay
  <2>1. today' = {}
    BY <1>2 DEF NewDay
  <2>2. \A c \in Campaigns : {a \in today' : a[1][1] = c} = {}
    BY <2>1
  <2>3. QED
    BY <2>1, <2>2, FS_EmptySet, Bounds DEF DayInv, DailyCapRespected
<1>3. QED
  BY <1>1, <1>2, DayClaim
  DEF Next, ServiceStep, Register, SetActive, Enqueue, ClaimNone, Heartbeat, HeartbeatRaises,
      Finish, Restart, Launch, Receive, GiveUp, StopChild, Crash, ChildStep, ChildStarts,
      ChildEnds, ChildKilled, Tick, vars

\* Retries, recoveries and every service's claims count: no UTC day sees more
\* starts of a campaign than its cap (claim).
THEOREM DayCapped == Spec => []DailyCapRespected
<1>1. Init => DayInv
  <2> SUFFICES ASSUME Init PROVE DayInv
    OBVIOUS
  <2>1. today = {} /\ \A c \in Campaigns : {a \in today : a[1][1] = c} = {}
    BY DEF Init
  <2>2. QED
    BY <2>1, FS_EmptySet, Bounds DEF DayInv, DailyCapRespected
<1>2. IInv /\ DayInv /\ [Next]_vars => DayInv'
  BY DayStep DEF IInv
<1>3. DayInv => DailyCapRespected
  BY DEF DayInv
<1>4. QED
  BY <1>1, <1>2, <1>3, InvHolds, PTL DEF Spec

-----------------------------------------------------------------------------
(* The queue implements AttemptedWork. *)

WorkMoves(j) ==
    \/ Work!Admit(j)
    \/ /\ (IF job[j].state = "none" THEN 0 ELSE MaxAttempts)
            = IF job'[j].state = "none" THEN 0 ELSE MaxAttempts
       /\ Work!Start(j) \/ Work!Finish(j) \/ Work!Retry(j) \/ Work!GiveUp(j) \/ Work!Stay(j)

LEMMA JobImplements == ASSUME IInv, [Next]_vars, NEW j \in Jobs PROVE WorkMoves(j)
<1>1. Moves(j) /\ JobInv(j) /\ job[j] \in JobRow /\ job'[j] \in JobRow /\ JobInv(j)'
  BY StepMoves, TypeStep, InvStep DEF IInv, TypeOK
<1>2. job[j].attempt \in Nat /\ job[j].attempt <= MaxAttempts
      /\ job'[j].attempt \in Nat /\ job'[j].attempt <= MaxAttempts
  BY <1>1, Bounds DEF JobRow
<1>3. CASE Kept(j)
  BY <1>3 DEF Kept, WorkMoves, Work!Stay, Work!Becomes
<1>4. CASE Admitted(j)
  <2>1. job[j].state = "none" /\ MaxAttempts \in 1..100
    BY <1>4, PositiveAssumption DEF Admitted, NoJob
  <2>2. QED
    BY <1>4, <2>1 DEF Admitted, WorkMoves, Work!Admit, Work!Becomes
<1>5. CASE Claimed(j)
  <2>1. job[j].attempt < MaxAttempts /\ job[j].result = 0
    BY <1>1, <1>5 DEF Claimed, JobInv, Open
  <2>2. QED
    BY <1>5, <2>1 DEF Claimed, WorkMoves, Work!Start, Work!Becomes
<1>6. CASE GivenUp(j)
  <2>1. job[j].result = 0
    BY <1>1, <1>6 DEF GivenUp, JobInv, Open
  <2>2. CASE Terminal(j)
    <3>1. job[j].attempt = MaxAttempts
      BY <1>2, <2>2, Bounds DEF Terminal
    <3>2. QED
      BY <1>6, <2>1, <2>2, <3>1 DEF GivenUp, WorkMoves, Work!GiveUp, Work!Becomes
  <2>3. CASE ~Terminal(j)
    <3>1. job[j].attempt < MaxAttempts
      BY <1>2, <2>3, Bounds DEF Terminal
    <3>2. QED
      BY <1>6, <2>1, <2>3, <3>1 DEF GivenUp, WorkMoves, Work!Retry, Work!Becomes
  <2>4. QED
    BY <2>2, <2>3
<1>7. CASE Completed(j)
  <2>1. job[j].attempt \in Attempts
    BY <1>1, <1>2, <1>7 DEF Completed, JobInv, Attempts
  <2>2. QED
    BY <1>7, <2>1 DEF Completed, WorkMoves, Work!Finish, Work!Becomes
<1>8. QED
  BY <1>1, <1>3, <1>4, <1>5, <1>6, <1>7 DEF Moves

\* Whatever leases expire, services stop and clocks say, the supervisor's queue
\* keeps the promises of AttemptedWork about every job (claim, finish, _fail).
THEOREM QueueImplementsWork == Spec => ImplementsWork
<1>1. Init => Work!Init
  BY DEF Init, Work!Init, NoJob
<1>2. IInv /\ [Next]_vars => [Work!Next]_(Work!workVars)
  <2> SUFFICES ASSUME IInv, [Next]_vars PROVE Work!Next
    OBVIOUS
  <2>1. ASSUME NEW j \in Jobs
        PROVE  \/ Work!Admit(j)
               \/ /\ [i \in Jobs |-> IF job[i].state = "none" THEN 0 ELSE MaxAttempts]'[j]
                       = [i \in Jobs |-> IF job[i].state = "none" THEN 0 ELSE MaxAttempts][j]
                  /\ Work!Start(j) \/ Work!Finish(j) \/ Work!Retry(j) \/ Work!GiveUp(j)
                     \/ Work!Stay(j)
    BY JobImplements DEF WorkMoves
  <2>2. QED
    BY <2>1 DEF Work!Next
<1>3. QED
  BY <1>1, <1>2, InvHolds, PTL DEF Spec, ImplementsWork, Work!Spec

-----------------------------------------------------------------------------
(* Time: an attempt's lease outlives its child. *)

Live(a) == child[a].state \in {"starting", "running"}

\* The attempts whose lease somebody still relies on.
Guarded(a) == Live(a) \/ \E s \in Services : svc[s].pc = "launch" /\ Attempt(s) = a

LEMMA GuardedLease ==
    ASSUME IInv, TimeInv, NEW a \in Jobs \X Attempts, Guarded(a)
    PROVE  Current(a) /\ job[a[1]].left > 0
<1>1. child[a].left \in Nat /\ job[a[1]].left \in Int /\ Timeout \in Nat /\ Timeout > 0
  BY Bounds DEF IInv, TypeOK, ChildState, JobRow
<1>2. CASE Live(a)
  BY <1>1, <1>2 DEF Live, TimeInv, ChildTime, LeaseCovers
<1>3. ASSUME NEW s \in Services, svc[s].pc = "launch", Attempt(s) = a
      PROVE  Current(a) /\ job[a[1]].left > 0
  <2>1. svc[s].deadline \in Nat
    BY <1>3, Bounds DEF IInv, ServiceInv, Working
  <2>2. LeaseCovers(a, svc[s].deadline + Timeout)
    BY <1>3 DEF TimeInv, ServiceTime
  <2>3. QED
    BY <1>1, <2>1, <2>2 DEF LeaseCovers
<1>4. QED
  BY <1>2, <1>3 DEF Guarded

\* While it holds, the service of an attempt is the only one that may touch its job.
LEMMA HolderIsCurrent ==
    ASSUME IInv, NEW s \in Services, NEW age, Working(s), Holds(s, age),
           NEW a \in Jobs \X Attempts, Current(a), a[1] = svc[s].job
    PROVE  a = Attempt(s)
<1>1. JobInv(a[1]) /\ a = <<a[1], a[2]>>
  BY DEF IInv
<1>2. svc[s].token = a[2]
  BY <1>1 DEF Holds, Current, JobInv
<1>3. QED
  BY <1>1, <1>2 DEF Attempt

\* Only the clock and a heartbeat move the lease of a guarded attempt.
LEMMA LeaseKept ==
    ASSUME IInv, TimeInv, [Next]_vars, NEW a \in Jobs \X Attempts, Guarded(a), ~Tick,
           \A s \in Services : \A age \in Ages(s) : ~Heartbeat(s, age)
    PROVE  job'[a[1]] = job[a[1]]
<1> USE DEF IInv
<1>1. Current(a) /\ job[a[1]].left > 0 /\ a[1] \in Jobs /\ job[a[1]].left \in Int
  BY GuardedLease DEF TypeOK, JobRow
<1>2. ASSUME NEW s \in Services, NEW age \in Ages(s) PROVE a[1] \notin Expired(age)
  <2>1. age \in Nat
    BY AgeType
  <2>2. QED
    BY <1>1, <2>1 DEF Expired
<1>3. ASSUME NEW s \in Services, NEW age \in Ages(s), Enqueue(s, age)
      PROVE  job'[a[1]] = job[a[1]]
  <2>1. ~(Refill(a[1][1], age) /\ a[1][2] = campaign[a[1][1]].sequence + 1)
    <3>1. JobInv(a[1]) /\ Open(a[1])
      BY <1>1 DEF Current, Open
    <3>2. a[1][2] = campaign[a[1][1]].sequence /\ a[1][2] \in Nat
      BY <1>1, <3>1, JobsPairs DEF JobInv
    <3>3. QED
      BY <3>2
  <2>2. QED
    BY <1>1, <1>3, <2>1 DEF Enqueue
<1>4. ASSUME NEW s \in Services, NEW age \in Ages(s), NEW j \in Jobs, ClaimOne(s, j, age)
      PROVE  job'[a[1]] = job[a[1]]
  <2>1. a[1] # j
    BY <1>1, <1>4 DEF ClaimOne, Claimable, Current
  <2>2. QED
    BY <1>1, <1>2, <1>4, <2>1 DEF ClaimOne
<1>5. ASSUME NEW s \in Services, NEW age \in Ages(s), ClaimNone(s, age)
      PROVE  job'[a[1]] = job[a[1]]
  BY <1>1, <1>2, <1>5 DEF ClaimNone
<1>6. ASSUME NEW s \in Services, NEW age \in Ages(s), Finish(s, age)
      PROVE  job'[a[1]] = job[a[1]]
  <2>1. Working(s) /\ svc[s].pc = "report" /\ child[Attempt(s)].state = "dead"
    BY <1>6 DEF Finish, Working, ServiceInv
  <2>2. CASE Holds(s, age) /\ a[1] = svc[s].job
    <3>1. a = Attempt(s)
      BY <1>1, <2>1, <2>2, HolderIsCurrent
    <3>2. PICK t \in Services : svc[t].pc = "launch" /\ Attempt(t) = a
      BY <2>1, <3>1 DEF Guarded, Live
    <3>3. t = s
      BY <2>1, <3>1, <3>2 DEF OwnAttempts, Working
    <3>4. QED
      BY <2>1, <3>2, <3>3
  <2>3. CASE Holds(s, age) /\ a[1] # svc[s].job
    BY <1>1, <1>6, <2>3 DEF Finish, TypeOK
  <2>4. CASE ~Holds(s, age)
    BY <1>6, <2>4 DEF Finish
  <2>5. QED
    BY <2>2, <2>3, <2>4
<1>7. QED
  BY <1>3, <1>4, <1>5, <1>6
  DEF Next, ServiceStep, Register, SetActive, HeartbeatRaises, Restart, Launch, Receive, GiveUp,
      StopChild, Crash, ChildStep, ChildStarts, ChildEnds, ChildKilled, NewDay, Ending, vars

\* The ways to come into a state in which time counts.
LEMMA ChildWays ==
    ASSUME IInv, [Next]_vars, ~Tick, NEW a \in Jobs \X Attempts, child'[a].state # "dead"
    PROVE  \/ child'[a] = child[a]
           \/ \E s \in Services : Launch(s) /\ Attempt(s) = a
           \/ ChildStarts(a)
<1> USE DEF IInv
<1>1. ASSUME NEW s \in Services, Launch(s)
      PROVE  child'[a] = child[a] \/ Attempt(s) = a
  BY <1>1 DEF Launch, TypeOK
<1>2. ASSUME NEW s \in Services, StopChild(s)
      PROVE  child'[a] = child[a]
  <2>1. a # Attempt(s)
    BY <1>2 DEF StopChild, TypeOK, ChildState
  <2>2. QED
    BY <1>2, <2>1 DEF StopChild, TypeOK
<1>3. ASSUME NEW b \in Jobs \X Attempts, ChildStep(b)
      PROVE  child'[a] = child[a] \/ ChildStarts(a)
  <2>1. CASE a = b
    BY <1>3, <2>1 DEF ChildStep, ChildEnds, ChildKilled, TypeOK, ChildState
  <2>2. CASE a # b
    BY <1>3, <2>2 DEF ChildStep, ChildStarts, ChildEnds, ChildKilled, TypeOK
  <2>3. QED
    BY <2>1, <2>2
<1>4. ASSUME NEW s \in Services, ServiceStep(s) \/ Crash(s)
      PROVE  UNCHANGED child \/ Launch(s) \/ StopChild(s)
  BY <1>4
  DEF ServiceStep, Enqueue, ClaimOne, ClaimNone, Heartbeat, HeartbeatRaises, Finish, Restart,
      Receive, GiveUp, Crash
<1>5. CASE UNCHANGED child
  BY <1>5
<1>6. CASE \/ \E c \in Campaigns : Register(c)
           \/ \E c \in Campaigns, active \in BOOLEAN : SetActive(c, active)
           \/ NewDay \/ UNCHANGED vars
  BY <1>6 DEF Register, SetActive, NewDay, vars
<1>7. QED
  BY <1>1, <1>2, <1>3, <1>4, <1>5, <1>6 DEF Next

LEMMA ServiceWays ==
    ASSUME IInv, [Next]_vars, ~Tick, \A s \in Services : \A age \in Ages(s) : ~Heartbeat(s, age),
           NEW t \in Services, svc'[t].pc \in {"launch", "watch"}
    PROVE  \/ svc'[t] = svc[t]
           \/ Launch(t)
           \/ \E j \in Jobs, age \in Ages(t) : ClaimOne(t, j, age)
<1> USE DEF IInv
<1>1. svc[t] \in ServiceState
  BY DEF TypeOK
<1>2. ASSUME NEW s \in Services,
             ServiceStep(s) \/ Crash(s), t # s
      PROVE  svc'[t] = svc[t]
  BY <1>2
  DEF ServiceStep, Enqueue, ClaimOne, ClaimNone, Heartbeat, HeartbeatRaises, Finish, Restart,
      Launch, Receive, GiveUp, StopChild, Crash, Ending, TypeOK
<1>3. ~(\/ \E age \in Ages(t) : Enqueue(t, age) \/ ClaimNone(t, age) \/ Finish(t, age)
        \/ Restart(t) \/ Crash(t))
  <2> SUFFICES ASSUME \/ \E age \in Ages(t) :
                            Enqueue(t, age) \/ ClaimNone(t, age) \/ Finish(t, age)
                      \/ Restart(t) \/ Crash(t)
               PROVE  FALSE
    OBVIOUS
  <2>1. \/ svc' = [svc EXCEPT ![t].pc = "claim", ![t].next = 0]
        \/ svc' = [svc EXCEPT ![t] = Idle]
        \/ svc' = [svc EXCEPT ![t] = [Idle EXCEPT !.pc = "down"]]
    BY DEF Enqueue, ClaimNone, Finish, Restart, Crash
  <2>2. QED
    BY <1>1, <2>1 DEF TypeOK, ServiceState, Idle
<1>4. ~(\/ \E age \in Ages(t) : HeartbeatRaises(t, age)
        \/ Receive(t) \/ GiveUp(t))
  <2> SUFFICES ASSUME \/ \E age \in Ages(t) : HeartbeatRaises(t, age)
                      \/ Receive(t) \/ GiveUp(t)
               PROVE  FALSE
    OBVIOUS
  <2>1. \E says \in {"result", "error", "lost"} : Ending(t, says)
    BY DEF HeartbeatRaises, Receive, GiveUp
  <2>2. QED
    BY <1>1, <2>1 DEF Ending, TypeOK, ServiceState
<1>5. ~StopChild(t)
  <2> SUFFICES ASSUME StopChild(t) PROVE FALSE
    OBVIOUS
  <2>1. \/ svc' = [svc EXCEPT ![t] = Idle]
        \/ svc' = [svc EXCEPT ![t] = [svc[t] EXCEPT !.pc = "report", !.deadline = 0, !.next = 0]]
    BY DEF StopChild
  <2>2. svc'[t].pc \in {"idle", "report"}
    <3>1. CASE svc' = [svc EXCEPT ![t] = Idle]
      BY <3>1 DEF TypeOK, Idle
    <3>2. CASE svc' = [svc EXCEPT ![t] = [svc[t] EXCEPT !.pc = "report", !.deadline = 0,
                                                        !.next = 0]]
      BY <1>1, <3>2 DEF TypeOK, ServiceState
    <3>3. QED
      BY <2>1, <3>1, <3>2
  <2>3. QED
    BY <2>2
<1>6. QED
  BY <1>2, <1>3, <1>4, <1>5
  DEF Next, ServiceStep, Register, SetActive, ChildStep, ChildStarts, ChildEnds, ChildKilled,
      NewDay, vars

LEMMA StillTime ==
    ASSUME MaxLaunch < Margin, IInv, TimeInv, [Next]_vars, ~Tick,
           \A s \in Services : \A age \in Ages(s) : ~Heartbeat(s, age)
    PROVE  TimeInv'
<1> USE DEF IInv
<1>1. \A a \in Jobs \X Attempts : Guarded(a) => job'[a[1]] = job[a[1]]
  BY LeaseKept
<1>2. ASSUME NEW a \in Jobs \X Attempts PROVE ChildTime(a)'
  <2>1. ChildTime(a) /\ child[a].left \in Nat /\ job[a[1]].left \in Int /\ Timeout \in Nat
    BY Bounds DEF TimeInv, TypeOK, ChildState, JobRow
  <2>2. CASE child'[a].state = "dead" \/ child'[a].state = "none"
    BY <2>2 DEF ChildTime
  <2>3. CASE child'[a] = child[a] /\ Live(a)
    BY <1>1, <2>1, <2>3 DEF Guarded, ChildTime, LeaseCovers, Current
  <2>4. ASSUME NEW s \in Services, Launch(s), Attempt(s) = a PROVE ChildTime(a)'
    <3>1. svc[s].pc = "launch" /\ LeaseCovers(a, svc[s].deadline + Timeout)
      BY <2>4 DEF Launch, TimeInv, ServiceTime
    <3>2. job'[a[1]] = job[a[1]]
      BY <1>1, <2>4, <3>1 DEF Guarded
    <3>3. child'[a].state = "starting" /\ child'[a].left = svc[s].deadline
      BY <2>4 DEF Launch, TypeOK
    <3>4. QED
      BY <3>1, <3>2, <3>3 DEF ChildTime, LeaseCovers, Current
  <2>5. CASE ChildStarts(a)
    <3>1. child[a].state = "starting" /\ LeaseCovers(a, child[a].left + Timeout)
      BY <2>1, <2>5 DEF ChildStarts, ChildTime
    <3>2. job'[a[1]] = job[a[1]]
      BY <1>1, <3>1 DEF Guarded, Live
    <3>3. child'[a].state = "running" /\ child'[a].left = Timeout
      BY <2>5 DEF ChildStarts, TypeOK, ChildState
    <3>4. QED
      BY <2>1, <3>1, <3>2, <3>3 DEF ChildTime, LeaseCovers, Current
  <2>6. child[a].state \in {"none", "starting", "running", "dead"}
    BY DEF TypeOK, ChildState
  <2>7. QED
    BY <2>2, <2>3, <2>4, <2>5, <2>6, ChildWays DEF Live
<1>3. ASSUME NEW t \in Services PROVE ServiceTime(t)'
  <2>1. ServiceTime(t) /\ ServiceInv(t)
    BY DEF TimeInv
  <2>2. CASE svc'[t].pc \notin {"launch", "watch"}
    BY <2>2 DEF ServiceTime
  <2>3. CASE svc'[t] = svc[t] /\ svc[t].pc \in {"launch", "watch"}
    <3>1. Working(t)
      BY <2>3 DEF Working
    <3>2. PICK a \in Jobs \X Attempts : a = Attempt(t) /\ Attempt(t)' = a
      BY <2>3, <3>1, AttemptType DEF Attempt
    <3>3. CASE svc[t].pc = "launch"
      <4>1. LeaseCovers(a, svc[t].deadline + Timeout) /\ job'[a[1]] = job[a[1]]
        BY <1>1, <2>1, <3>2, <3>3 DEF ServiceTime, Guarded
      <4>2. QED
        BY <2>3, <3>2, <3>3, <4>1 DEF ServiceTime, LeaseCovers, Current
    <3>4. CASE svc[t].pc = "watch" /\ child'[a].state = "starting"
      <4>1. \A s \in Services : ~(Launch(s) /\ Attempt(s) = a)
        BY <3>1, <3>2, <3>4 DEF OwnAttempts, Launch, Working
      <4>2. ~ChildStarts(a)
        BY <3>4 DEF ChildStarts, TypeOK, ChildState
      <4>3. child'[a] = child[a]
        BY <3>4, <4>1, <4>2, ChildWays
      <4>4. QED
        BY <2>1, <2>3, <3>2, <3>4, <4>3 DEF ServiceTime
    <3>5. CASE svc[t].pc = "watch" /\ child'[a].state # "starting"
      BY <2>3, <3>2, <3>5 DEF ServiceTime
    <3>6. QED
      BY <2>3, <3>3, <3>4, <3>5
  <2>4. CASE Launch(t)
    <3>1. Working(t) /\ svc[t].pc = "launch"
      BY <2>4 DEF Launch, Working
    <3>2. svc'[t].pc = "watch" /\ svc'[t].next = BeatEvery /\ Attempt(t)' = Attempt(t)
      BY <2>4 DEF Launch, TypeOK, ServiceState, Attempt
    <3>3. PICK a \in Jobs \X Attempts : a = Attempt(t) /\ Attempt(t)' = a
      BY <3>1, <3>2, AttemptType
    <3>4. child'[a].left = svc[t].deadline /\ svc[t].deadline \in 0..MaxLaunch
      BY <2>1, <2>4, <3>1, <3>3 DEF Launch, TypeOK, ServiceInv
    <3>5. child'[a].left <= MaxLaunch + svc'[t].next - BeatEvery
      BY <3>2, <3>4, Bounds
    <3>6. QED
      BY <3>2, <3>3, <3>5 DEF ServiceTime
  <2>5. ASSUME NEW j \in Jobs, NEW age \in Ages(t), ClaimOne(t, j, age) PROVE ServiceTime(t)'
    <3>1. age \in Nat
      BY AgeType
    <3>2. /\ svc'[t].pc = "launch" /\ svc'[t].job = j /\ svc'[t].token = job[j].attempt + 1
          /\ svc'[t].deadline = MaxLaunch - age
      BY <2>5 DEF ClaimOne, TypeOK, Idle
    <3>3. /\ job'[j].state = "running" /\ job'[j].attempt = job[j].attempt + 1
          /\ job'[j].left = Timeout + Margin - age
      BY <2>5 DEF ClaimOne, TypeOK, JobRow, Lease
    <3>4. svc'[t].deadline + Timeout < job'[j].left
      BY <3>1, <3>2, <3>3, Bounds
    <3>5. QED
      BY <3>2, <3>3, <3>4 DEF ServiceTime, LeaseCovers, Current, Attempt
  <2>6. QED
    BY <2>2, <2>3, <2>4, <2>5, ServiceWays
<1>4. QED
  BY <1>2, <1>3 DEF TimeInv

\* A heartbeat renews the lease of its own attempt by more than its child has left.
LEMMA BeatTime ==
    ASSUME MaxLaunch < Margin, IInv, TimeInv, NEW s \in Services, NEW age \in Ages(s),
           Heartbeat(s, age)
    PROVE  TimeInv'
<1> USE DEF IInv
<1>1. age \in Nat /\ age <= MaxWait /\ age <= -svc[s].next /\ svc[s].next \in Int
  BY AgeType, Bounds DEF TypeOK, ServiceState
<1>2. Working(s) /\ svc[s].pc = "watch" /\ svc[s].next <= 0 /\ Holds(s, age)
  BY DEF Heartbeat, BeatDue, Working
<1>3. PICK j \in Jobs, b \in Jobs \X Attempts : j = svc[s].job /\ b = Attempt(s) /\ b[1] = j
  BY <1>2, AttemptType
<1>4. job' = [job EXCEPT ![j] = [job[j] EXCEPT !.left = Timeout + Margin - age]]
  BY <1>3 DEF Heartbeat, Lease
<1>5. svc' = [svc EXCEPT ![s] = [svc[s] EXCEPT !.next = BeatEvery]] /\ UNCHANGED child
  BY DEF Heartbeat
<1>6. ASSUME NEW a \in Jobs \X Attempts, Current(a)
      PROVE  /\ Current(a)'
             /\ a # b => job'[a[1]] = job[a[1]]
             /\ a = b => job'[a[1]].left = Timeout + Margin - age
  <2>1. a[1] = j => a = b
    BY <1>2, <1>3, <1>6, HolderIsCurrent
  <2>2. job[j] \in JobRow
    BY DEF TypeOK
  <2>3. CASE a[1] = j
    BY <1>3, <1>4, <1>6, <2>1, <2>2, <2>3 DEF TypeOK, JobRow, Current
  <2>4. CASE a[1] # j
    BY <1>3, <1>4, <1>6, <2>4 DEF TypeOK, Current
  <2>5. QED
    BY <2>3, <2>4
<1>7. ASSUME NEW a \in Jobs \X Attempts PROVE ChildTime(a)'
  <2>1. ChildTime(a) /\ child[a].left \in Nat /\ job[a[1]].left \in Int
    BY Bounds DEF TimeInv, TypeOK, ChildState, JobRow
  <2>2. CASE a # b
    BY <1>5, <1>6, <2>1, <2>2 DEF ChildTime, LeaseCovers
  <2>3. CASE a = b /\ child[a].state = "starting"
    <3>1. child[a].left <= MaxLaunch + svc[s].next - BeatEvery
      BY <1>2, <1>3, <2>3 DEF TimeInv, ServiceTime
    <3>2. child[a].left + Timeout < Timeout + Margin - age
      BY <1>1, <2>1, <3>1, Bounds
    <3>3. Current(a)
      BY <2>1, <2>3 DEF ChildTime, LeaseCovers
    <3>4. QED
      BY <1>5, <1>6, <2>3, <3>2, <3>3 DEF ChildTime, LeaseCovers
  <2>4. CASE a = b /\ child[a].state = "running"
    <3>1. Current(a) /\ child[a].left <= Timeout
      BY <2>1, <2>4 DEF ChildTime, LeaseCovers
    <3>2. child[a].left < Timeout + Margin - age
      BY <1>1, <2>1, <3>1, Bounds
    <3>3. QED
      BY <1>5, <1>6, <2>4, <3>1, <3>2 DEF ChildTime, LeaseCovers
  <2>5. CASE child[a].state \notin {"starting", "running"}
    BY <1>5, <2>5 DEF ChildTime
  <2>6. QED
    BY <2>2, <2>3, <2>4, <2>5
<1>8. ASSUME NEW t \in Services PROVE ServiceTime(t)'
  <2>1. ServiceTime(t) /\ svc[t] \in ServiceState
    BY DEF TimeInv, TypeOK
  <2>2. CASE svc[t].pc = "launch"
    <3>1. Working(t) /\ t # s /\ svc'[t] = svc[t]
      BY <1>2, <1>5, <2>2 DEF Working, TypeOK
    <3>2. PICK a \in Jobs \X Attempts : a = Attempt(t) /\ Attempt(t)' = a
      BY <3>1, AttemptType DEF Attempt
    <3>3. a # b
      BY <1>2, <1>3, <3>1, <3>2 DEF OwnAttempts
    <3>4. LeaseCovers(a, svc[t].deadline + Timeout)
      BY <2>1, <2>2, <3>2 DEF ServiceTime
    <3>5. QED
      BY <1>6, <2>2, <3>1, <3>2, <3>3, <3>4 DEF ServiceTime, LeaseCovers
  <2>3. CASE svc[t].pc = "watch" /\ t # s
    <3>1. svc'[t] = svc[t] /\ Attempt(t)' = Attempt(t)
      BY <1>5, <2>3 DEF TypeOK, Attempt
    <3>2. QED
      BY <1>5, <2>1, <2>3, <3>1 DEF ServiceTime
  <2>4. CASE t = s
    <3>1. svc'[s].pc = "watch" /\ svc'[s].next = BeatEvery /\ Attempt(s)' = b
      BY <1>2, <1>3, <1>5, <2>1, <2>4 DEF TypeOK, ServiceState, Attempt
    <3>2. child[b].state = "starting" => child[b].left <= MaxLaunch
      <4>1. child[b].left \in Nat
        BY Bounds DEF TypeOK, ChildState
      <4>2. QED
        BY <1>1, <1>2, <1>3, <2>1, <2>4, <4>1, Bounds DEF ServiceTime
    <3>3. MaxLaunch + BeatEvery - BeatEvery = MaxLaunch
      BY Bounds
    <3>4. QED
      BY <1>5, <2>4, <3>1, <3>2, <3>3 DEF ServiceTime
  <2>5. CASE svc[t].pc \notin {"launch", "watch"}
    <3>1. svc'[t].pc = svc[t].pc
      BY <1>5, <2>1 DEF TypeOK, ServiceState
    <3>2. QED
      BY <2>5, <3>1 DEF ServiceTime
  <2>6. QED
    BY <2>2, <2>3, <2>4, <2>5
<1>9. QED
  BY <1>7, <1>8 DEF TimeInv

\* The clock runs for a child as fast as for its lease.
LEMMA TickTime == ASSUME IInv, TimeInv, Tick PROVE TimeInv'
<1> USE DEF IInv
<1>1. ASSUME NEW a \in Jobs \X Attempts, NEW need \in Nat, LeaseCovers(a, need), need > 0
      PROVE  Current(a)' /\ need - 1 < job'[a[1]].left
  <2>1. job[a[1]] \in JobRow /\ job[a[1]].state = "running" /\ need < job[a[1]].left
    BY <1>1 DEF LeaseCovers, Current, TypeOK
  <2>2. job'[a[1]] = [job[a[1]] EXCEPT !.delay = Earlier(job[a[1]].delay, -MaxWait),
                                       !.left = Earlier(job[a[1]].left, -MaxWait)]
    BY <2>1 DEF Tick, Open
  <2>3. /\ job'[a[1]].state = job[a[1]].state /\ job'[a[1]].attempt = job[a[1]].attempt
        /\ job'[a[1]].left = Earlier(job[a[1]].left, -MaxWait) /\ job[a[1]].left \in Int
    BY <2>1, <2>2, Bounds DEF JobRow
  <2>4. need - 1 < job'[a[1]].left
    BY <1>1, <2>1, <2>3, Bounds DEF Earlier
  <2>5. QED
    BY <1>1, <2>3, <2>4 DEF LeaseCovers, Current
<1>2. ASSUME NEW a \in Jobs \X Attempts, Live(a)
      PROVE  /\ child[a].left \in Nat /\ child[a].left > 0
             /\ child'[a].state = child[a].state /\ child'[a].left = child[a].left - 1
  <2>1. child[a] \in ChildState /\ child[a].left \in Nat /\ child[a].left > 0
    <3>1. child[a] \in ChildState /\ child[a].left \in Nat
      BY Bounds DEF TypeOK, ChildState
    <3>2. child[a].left > 0
      BY <1>2 DEF Tick, MayWait, Live
    <3>3. QED
      BY <3>1, <3>2
  <2>2. child'[a] = [child[a] EXCEPT !.left = Earlier(child[a].left, 0)]
    BY DEF Tick
  <2>3. Earlier(child[a].left, 0) = child[a].left - 1
    BY <2>1 DEF Earlier
  <2>4. QED
    BY <2>1, <2>2, <2>3 DEF ChildState
<1>3. ASSUME NEW a \in Jobs \X Attempts PROVE ChildTime(a)'
  <2>1. ChildTime(a) /\ Timeout \in Nat
    BY Bounds DEF TimeInv
  <2>2. CASE child[a].state = "starting"
    <3>1. Live(a) /\ LeaseCovers(a, child[a].left + Timeout)
      BY <2>1, <2>2 DEF Live, ChildTime
    <3>2. Current(a)' /\ (child[a].left + Timeout) - 1 < job'[a[1]].left
      BY <1>1, <1>2, <2>1, <3>1
    <3>3. child'[a].state = "starting" /\ child'[a].left = child[a].left - 1
          /\ child[a].left \in Nat
      BY <1>2, <2>2, <3>1
    <3>4. child'[a].left + Timeout = (child[a].left + Timeout) - 1
      BY <2>1, <3>3
    <3>5. QED
      BY <3>2, <3>3, <3>4 DEF ChildTime, LeaseCovers
  <2>3. CASE child[a].state = "running"
    <3>1. Live(a) /\ LeaseCovers(a, child[a].left) /\ child[a].left <= Timeout
      BY <2>1, <2>3 DEF Live, ChildTime
    <3>2. Current(a)' /\ child[a].left - 1 < job'[a[1]].left
      BY <1>1, <1>2, <3>1
    <3>3. QED
      BY <1>2, <2>1, <2>3, <3>1, <3>2 DEF ChildTime, LeaseCovers
  <2>4. CASE ~Live(a)
    <3>1. child'[a].state = child[a].state
      BY DEF Tick, TypeOK, ChildState
    <3>2. QED
      BY <2>4, <3>1 DEF ChildTime, Live
  <2>5. QED
    BY <2>2, <2>3, <2>4 DEF Live
<1>4. ASSUME NEW t \in Services PROVE ServiceTime(t)'
  <2>1. ServiceTime(t) /\ ServiceInv(t) /\ svc[t] \in ServiceState /\ Timeout \in Nat
    BY Bounds DEF TimeInv, TypeOK
  <2>2. svc'[t] = [svc[t] EXCEPT
                      !.deadline = Earlier(@, IF svc[t].pc = "watch" THEN -MaxWait ELSE 0),
                      !.next = Earlier(@, -MaxWait)]
    BY DEF Tick
  <2>3. /\ svc'[t].pc = svc[t].pc /\ svc'[t].job = svc[t].job /\ svc'[t].token = svc[t].token
        /\ svc'[t].next = Earlier(svc[t].next, -MaxWait)
        /\ svc'[t].deadline = Earlier(svc[t].deadline, IF svc[t].pc = "watch" THEN -MaxWait ELSE 0)
    BY <2>1, <2>2 DEF ServiceState
  <2>4. CASE svc[t].pc = "launch"
    <3>1. Working(t) /\ svc[t].deadline \in Nat /\ svc[t].deadline > 0
      <4>1. Working(t) /\ svc[t].deadline \in 0..MaxLaunch
        BY <2>1, <2>4 DEF Working, ServiceInv
      <4>2. svc[t].deadline > 0
        BY <2>4 DEF Tick, MayWait
      <4>3. QED
        BY <4>1, <4>2, Bounds
    <3>2. PICK a \in Jobs \X Attempts : a = Attempt(t) /\ Attempt(t)' = a
      BY <2>3, <3>1, AttemptType DEF Attempt
    <3>3. svc'[t].deadline = svc[t].deadline - 1
      BY <2>3, <2>4, <3>1 DEF Earlier
    <3>4. Current(a)' /\ (svc[t].deadline + Timeout) - 1 < job'[a[1]].left
      BY <1>1, <2>1, <2>4, <3>1, <3>2 DEF ServiceTime
    <3>5. svc'[t].deadline + Timeout = (svc[t].deadline + Timeout) - 1
      BY <2>1, <3>1, <3>3
    <3>6. QED
      BY <2>3, <2>4, <3>2, <3>4, <3>5 DEF ServiceTime, LeaseCovers
  <2>5. CASE svc[t].pc = "watch"
    <3>1. PICK a \in Jobs \X Attempts : a = Attempt(t) /\ Attempt(t)' = a
      BY <2>3, <2>5, AttemptType DEF Attempt, Working
    <3>2. CASE child[a].state = "starting"
      <4>1. child[a].left \in Nat /\ child'[a].left = child[a].left - 1
        BY <1>2, <3>2 DEF Live
      <4>2. svc[t].next \in Int /\ svc'[t].next >= svc[t].next - 1 /\ svc'[t].next \in Int
        BY <2>1, <2>3, Bounds DEF ServiceState, Earlier
      <4>3. child'[a].left <= MaxLaunch + svc'[t].next - BeatEvery
        BY <2>1, <2>5, <3>1, <3>2, <4>1, <4>2, Bounds DEF ServiceTime
      <4>4. QED
        BY <2>3, <2>5, <3>1, <4>3 DEF ServiceTime
    <3>3. CASE child[a].state # "starting"
      <4>1. child'[a].state # "starting"
        BY <3>3 DEF Tick, TypeOK, ChildState
      <4>2. QED
        BY <2>3, <2>5, <3>1, <4>1 DEF ServiceTime
    <3>4. QED
      BY <3>2, <3>3
  <2>6. CASE svc[t].pc \notin {"launch", "watch"}
    BY <2>3, <2>6 DEF ServiceTime
  <2>7. QED
    BY <2>4, <2>5, <2>6
<1>5. QED
  BY <1>3, <1>4 DEF TimeInv

LEMMA TimeHolds == ASSUME MaxLaunch < Margin PROVE Spec => []TimeInv
<1>1. Init => TimeInv
  BY DEF Init, TimeInv, ChildTime, ServiceTime, NoChild, Idle
<1>2. IInv /\ TimeInv /\ [Next]_vars => TimeInv'
  <2> SUFFICES ASSUME IInv, TimeInv, [Next]_vars PROVE TimeInv'
    OBVIOUS
  <2>1. QED
    BY StillTime, BeatTime, TickTime
<1>3. QED
  BY <1>1, <1>2, InvHolds, PTL DEF Spec

\* Where a launch, the wait for the write lock included, takes less than the margin
\* of a lease (5 seconds in the code), a child executes only for the current attempt
\* of a running job, also when its service died (claim, heartbeat, _job_child).
THEOREM CurrentOnly == ASSUME MaxLaunch < Margin PROVE Spec => []OnlyCurrentRuns
<1>1. TimeInv => OnlyCurrentRuns
  BY DEF TimeInv, ChildTime, LeaseCovers, Current, OnlyCurrentRuns
<1>2. QED
  BY <1>1, TimeHolds, PTL

\* Then no two attempts of a job execute at once: recovery does not race a worker
\* that is still within its allowance.
THEOREM OneAtATime == ASSUME MaxLaunch < Margin PROVE Spec => []NoOverlap
<1>1. TimeInv => NoOverlap
  <2> SUFFICES ASSUME TimeInv, NEW a \in Jobs \X Attempts, NEW b \in Jobs \X Attempts,
                      a[1] = b[1], child[a].state = "running", child[b].state = "running"
               PROVE  a = b
    BY DEF NoOverlap
  <2>1. job[a[1]].attempt = a[2] /\ job[b[1]].attempt = b[2]
    BY DEF TimeInv, ChildTime, LeaseCovers, Current
  <2>2. QED
    BY <2>1
<1>2. QED
  BY <1>1, TimeHolds, PTL
=============================================================================
