------------------------- MODULE ResearchJobsProofs -------------------------
(***************************************************************************)
(* Theorems about ResearchJobs, for every value of its constants: what the *)
(* router has charged a job, what the registry holds of it, and what the   *)
(* budget file says of its collections.  The three are about different     *)
(* variables, and have an invariant each.                                  *)
(*                                                                         *)
(* At the end, the gate that scores the registered candidates (SealedGate).*)
(***************************************************************************)
EXTENDS ResearchJobs, SealedGate, SumTheorems, TLAPS

(***************************************************************************)
(* The router.  What a job's cost holds of a call: its bound from the      *)
(* reservation on, what was paid once it is settled or has overrun.        *)
(***************************************************************************)
HeldFor(c) ==
    IF call[c].at = "idle" THEN 0
    ELSE IF call[c].at = "returned" \/ (call[c].at = "raised" /\ paid[c] > BoundOf(c))
         THEN paid[c] ELSE BoundOf(c)

held == [c \in Calls |-> HeldFor(c)]

CallInv(c) ==
    /\ call[c].at = "idle" => call[c].tool = None
    /\ call[c].at # "idle" => call[c].tool \in Tools
    /\ call[c].at \in {"idle", "trace", "execute"} => paid[c] = 0
    /\ call[c].at \in {"settle", "returned"} => paid[c] <= BoundOf(c)
    /\ call[c].at = "overran" => paid[c] > BoundOf(c)

\* The calls made for the job have kept to their maximum.
Kept(j) == \A c \in CallsOf(j) : call[c].tool # None => paid[c] <= BoundOf(c)

CostInv(j) ==
    /\ cost[j] = Sum(held, CallsOf(j))
    /\ Kept(j) => cost[j] <= MaxDataCost[j]

RouterInv ==
    /\ RouterTypeOK
    /\ \A c \in Calls : CallInv(c)
    /\ \A j \in Jobs : CostInv(j)

(***************************************************************************)
(* The registry.  A registered candidate is in the batch of a completed    *)
(* run, and in no other's; usage is accounted before that.                 *)
(***************************************************************************)
Published(j, c) == job[j].at = "completed" /\ c \in job[j].batch

Accounted(j) ==
    /\ job[j].at \in {"recording", "publishing"} =>
         Cardinality(job[j].batch) <= job[j].total.trials
    /\ job[j].at = "publishing" => Within(j) /\ usage[j] = job[j].total
    /\ job[j].at = "completed" =>
         /\ Cardinality(job[j].batch) <= usage[j].trials /\ usage[j].trials <= MaxTrials[j]
         /\ usage[j].cost <= MaxDataCost[j]

PublishedInv ==
    /\ status \in [Candidates -> Statuses \cup {"none"}] /\ JobsTypeOK
    /\ \A j \in Jobs : Accounted(j)
    /\ \A c \in Candidates :
         /\ status[c] # "none" <=> \E j \in Jobs : Published(j, c)
         /\ \A j, k \in Jobs : Published(j, c) /\ Published(k, c) => j = k

(***************************************************************************)
(* The budget file.  A row is reserved before its child starts, and given  *)
(* back only when the child has reported.                                  *)
(***************************************************************************)
Requesting(f) == child[f].at \in {"robots", "page"}

FetchInv(f) ==
    /\ attempt[f].status = "none" =>
         attempt[f] = NoAttempt /\ child[f] = NoChild /\ fetch[f] \in {"idle", "raised"}
    /\ fetch[f] = "idle" => attempt[f].status = "none"
    /\ attempt[f].status \in {"reserved", "failed"} => attempt[f].bytes = CallBytes
    /\ attempt[f].status = "collected" =>
         ~Requesting(f) /\ attempt[f].bytes = CallBytes - child[f].left
    /\ fetch[f] = "collected" => ~Requesting(f)

spent == [f \in Fetches |-> attempt[f].bytes]

CollectionInv ==
    /\ CollectionTypeOK
    /\ \A f \in Fetches : FetchInv(f)
    /\ IsFiniteSet(Rows) /\ Cardinality(Rows) <= MaxAttempts
    /\ Sum(spent, Rows) <= TotalBytes

IInv == RouterInv /\ PublishedInv /\ CollectionInv

-----------------------------------------------------------------------------
(* The router. *)

LEMMA BoundTyped ==
    ASSUME RouterTypeOK, NEW c \in Calls, CallInv(c), call[c].at # "idle"
    PROVE  BoundOf(c) \in Nat /\ call[c].tool \in Tools
  BY JobsAssumption DEF CallInv, BoundOf

LEMMA HeldTyped ==
    ASSUME RouterTypeOK, NEW c \in Calls, CallInv(c)
    PROVE  HeldFor(c) \in Nat
<1>1. paid[c] \in Nat
  BY DEF RouterTypeOK
<1>2. QED
  BY <1>1, BoundTyped DEF HeldFor

LEMMA CallsFinite ==
    ASSUME NEW j
    PROVE  IsFiniteSet(CallsOf(j)) /\ CallsOf(j) \subseteq Calls
  BY JobsAssumption, FS_Subset DEF CallsOf

\* A call goes on, and its job's cost by what the call's hold changes.
LEMMA CallGoesOn ==
    ASSUME RouterInv, NEW c \in Calls, NEW new \in CallStates, NEW amount \in Nat, NEW d \in Int,
           call' = [call EXCEPT ![c] = new], paid' = [paid EXCEPT ![c] = amount],
           cost' = [cost EXCEPT ![JobOf[c]] = @ + d],
           blocked' \subseteq Jobs,
           CallInv(c)', HeldFor(c)' = HeldFor(c) + d,
           Kept(JobOf[c])' => cost[JobOf[c]] + d <= MaxDataCost[JobOf[c]]
    PROVE  RouterInv'
<1>1. /\ RouterTypeOK /\ \A b \in Calls : CallInv(b) /\ HeldFor(b) \in Nat
      /\ \A j \in Jobs : CostInv(j)
  BY HeldTyped DEF RouterInv
<1>2. /\ call'[c] = new /\ paid'[c] = amount
      /\ \A b \in Calls \ {c} : call'[b] = call[b] /\ paid'[b] = paid[b]
      /\ call' \in [Calls -> CallStates] /\ paid' \in [Calls -> Nat]
      /\ JobOf[c] \in Jobs /\ cost'[JobOf[c]] = cost[JobOf[c]] + d
      /\ \A j \in Jobs \ {JobOf[c]} : cost'[j] = cost[j]
  BY <1>1, JobsAssumption DEF RouterTypeOK
<1>3. \A b \in Calls \ {c} : CallInv(b)' /\ HeldFor(b)' = HeldFor(b)
  BY <1>1, <1>2 DEF CallInv, HeldFor, BoundOf
<1>4. \A b \in Calls : HeldFor(b)' \in Int /\ HeldFor(b) \in Int
  BY <1>1, <1>3
<1>5. \A b \in Calls : held'[b] = HeldFor(b)' /\ held[b] = HeldFor(b)
  BY DEF held
<1>6. ASSUME NEW j \in Jobs PROVE cost'[j] = Sum(held', CallsOf(j)')
  <2>1. /\ CallsOf(j)' = CallsOf(j) /\ IsFiniteSet(CallsOf(j)) /\ CallsOf(j) \subseteq Calls
        /\ cost[j] = Sum(held, CallsOf(j))
    BY <1>1, CallsFinite DEF CallsOf, CostInv
  <2>2. /\ \A b \in CallsOf(j) : held'[b] \in Int /\ held[b] \in Int
        /\ \A b \in CallsOf(j) : b # c => held'[b] = held[b]
        /\ held'[c] = held[c] + d
    BY <1>3, <1>4, <1>5, <2>1
  <2>3. CASE c \in CallsOf(j)
    <3>1. Sum(held', CallsOf(j)) = Sum(held, CallsOf(j)) + held'[c] - held[c]
      BY <2>1, <2>2, <2>3, SumUpdate
    <3>2. Sum(held, CallsOf(j)) \in Int /\ held[c] \in Int
      BY <1>4, <1>5, <2>1, <2>2, SumType
    <3>3. j = JobOf[c]
      BY <2>3 DEF CallsOf
    <3>4. QED
      BY <1>2, <2>1, <2>2, <3>1, <3>2, <3>3
  <2>4. CASE c \notin CallsOf(j)
    <3>1. Sum(held', CallsOf(j)) = Sum(held, CallsOf(j))
      BY <2>1, <2>2, <2>4, SumSame
    <3>2. j # JobOf[c]
      BY <2>4 DEF CallsOf
    <3>3. QED
      BY <1>2, <2>1, <3>1, <3>2
  <2>5. QED
    BY <2>3, <2>4
<1>7. ASSUME NEW j \in Jobs, Kept(j)' PROVE cost'[j] <= MaxDataCost[j]
  <2>1. CASE j = JobOf[c]
    BY <1>2, <1>7, <2>1
  <2>2. CASE j # JobOf[c]
    <3>1. Kept(j)
      BY <1>2, <1>7, <2>2 DEF Kept, CallsOf, BoundOf
    <3>2. QED
      BY <1>1, <1>2, <2>2, <3>1 DEF CostInv
  <2>3. QED
    BY <2>1, <2>2
<1>8. ASSUME NEW j \in Jobs PROVE cost'[j] \in Nat
  <2>1. IsFiniteSet(CallsOf(j)) /\ CallsOf(j) \subseteq Calls /\ CallsOf(j)' = CallsOf(j)
    BY CallsFinite DEF CallsOf
  <2>2. \A b \in Calls : HeldFor(b)' \in Nat
    <3>1. ASSUME NEW b \in Calls, b # c PROVE HeldFor(b)' \in Nat
      BY <1>1, <1>3, <3>1
    <3>2. HeldFor(c)' \in Nat
      <4>1. CallInv(c)' /\ call'[c] = new /\ paid'[c] \in Nat
        BY <1>2
      <4>2. call'[c].at # "idle" => BoundOf(c)' \in Nat
        BY <4>1, JobsAssumption DEF CallInv, BoundOf
      <4>3. QED
        BY <4>1, <4>2 DEF HeldFor
    <3>3. QED
      BY <3>1, <3>2
  <2>3. \A b \in CallsOf(j) : held'[b] \in Int /\ held'[b] >= 0
    BY <1>5, <2>1, <2>2
  <2>4. Sum(held', CallsOf(j)) \in Int /\ Sum(held', CallsOf(j)) >= 0
    BY <2>1, <2>3, SumType
  <2>5. QED
    BY <1>6, <2>1, <2>4
<1>9. cost' \in [Jobs -> Nat]
  BY <1>1, <1>8 DEF RouterTypeOK
<1>10. QED
  BY <1>2, <1>3, <1>6, <1>7, <1>9 DEF RouterInv, RouterTypeOK, CostInv

\* A call goes on and leaves the cost, or settles and lowers it.
LEMMA CallSpendsNoMore ==
    ASSUME RouterInv, NEW c \in Calls, NEW at, NEW amount \in Nat, NEW d \in Int,
           [call[c] EXCEPT !.at = at] \in CallStates,
           call' = [call EXCEPT ![c].at = at], paid' = [paid EXCEPT ![c] = amount],
           cost' = [cost EXCEPT ![JobOf[c]] = @ + d], d <= 0,
           blocked' \subseteq Jobs,
           CallInv(c)', HeldFor(c)' = HeldFor(c) + d,
           call[c].at # "idle", paid[c] = 0 \/ amount = paid[c]
    PROVE  RouterInv'
<1> DEFINE new == [call[c] EXCEPT !.at = at]
<1>1. /\ RouterTypeOK /\ CallInv(c) /\ CostInv(JobOf[c])
      /\ JobOf[c] \in Jobs /\ cost[JobOf[c]] \in Nat
  BY JobsAssumption DEF RouterInv, RouterTypeOK
<1>2. call' = [call EXCEPT ![c] = new] /\ new.tool = call[c].tool
  BY <1>1 DEF RouterTypeOK, CallStates
<1>3. /\ call'[c].tool = call[c].tool /\ paid'[c] = amount
      /\ \A b \in Calls \ {c} : call'[b] = call[b] /\ paid'[b] = paid[b]
  BY <1>1, <1>2 DEF RouterTypeOK
<1>4. BoundOf(c) \in Nat /\ MaxDataCost[JobOf[c]] \in Nat
  BY <1>1, BoundTyped, JobsAssumption
<1>5. ASSUME Kept(JobOf[c])' PROVE cost[JobOf[c]] + d <= MaxDataCost[JobOf[c]]
  <2>1. Kept(JobOf[c])
    <3>1. ASSUME NEW b \in CallsOf(JobOf[c]), call[b].tool # None PROVE paid[b] <= BoundOf(b)
      <4>1. CASE b = c
        BY <1>3, <1>4, <1>5, <3>1, <4>1 DEF Kept, CallsOf, BoundOf
      <4>2. CASE b # c
        BY <1>3, <1>5, <3>1, <4>2 DEF Kept, CallsOf, BoundOf
      <4>3. QED
        BY <4>1, <4>2
    <3>2. QED
      BY <3>1 DEF Kept
  <2>2. cost[JobOf[c]] <= MaxDataCost[JobOf[c]]
    BY <1>1, <2>1 DEF CostInv
  <2>3. QED
    BY <1>1, <1>4, <2>2
<1>6. new \in CallStates
  OBVIOUS
<1> HIDE DEF new
<1>7. QED
  BY <1>2, <1>5, <1>6, CallGoesOn

\* The same without the cost.
LEMMA CallSpendsNothing ==
    ASSUME RouterInv, NEW c \in Calls, NEW at, NEW amount \in Nat,
           at \in {"execute", "overran", "settle", "raised"},
           call' = [call EXCEPT ![c].at = at], paid' = [paid EXCEPT ![c] = amount],
           cost' = cost, blocked' \subseteq Jobs,
           CallInv(c)', HeldFor(c)' = HeldFor(c),
           call[c].at # "idle", paid[c] = 0 \/ amount = paid[c]
    PROVE  RouterInv'
<1>1. RouterTypeOK /\ CallInv(c) /\ JobOf[c] \in Jobs
  BY JobsAssumption DEF RouterInv
<1>2. [call[c] EXCEPT !.at = at] \in CallStates
  BY <1>1 DEF RouterTypeOK, CallStates
<1>3. cost' = [cost EXCEPT ![JobOf[c]] = @ + 0]
  BY <1>1 DEF RouterTypeOK
<1>4. HeldFor(c) \in Nat
  BY <1>1, HeldTyped
<1>5. HeldFor(c)' = HeldFor(c) + 0
  BY <1>4
<1>6. 0 \in Int /\ 0 <= 0
  OBVIOUS
<1>7. QED
  BY <1>2, <1>3, <1>5, <1>6, CallSpendsNoMore

LEMMA CallAt ==
    ASSUME RouterTypeOK, NEW c \in Calls, NEW at, call' = [call EXCEPT ![c].at = at]
    PROVE  call'[c].at = at /\ call'[c].tool = call[c].tool
  BY DEF RouterTypeOK, CallStates

LEMMA ReserveKeeps ==
    ASSUME RouterInv, NEW c \in Calls, NEW tool \in Tools, Reserve(c, tool)
    PROVE  RouterInv'
<1>1. RouterTypeOK /\ CallInv(c) /\ JobOf[c] \in Jobs /\ Bound[tool] \in Nat
  BY JobsAssumption DEF RouterInv
<1> DEFINE new == [at |-> "trace", tool |-> tool]
<1>2. /\ call' = [call EXCEPT ![c] = new] /\ paid' = [paid EXCEPT ![c] = 0]
      /\ cost' = [cost EXCEPT ![JobOf[c]] = @ + Bound[tool]] /\ blocked' = blocked
      /\ call[c].at = "idle" /\ cost[JobOf[c]] + Bound[tool] <= MaxDataCost[JobOf[c]]
      /\ paid[c] = 0
  BY <1>1 DEF Reserve, Charge, CallInv, RouterTypeOK
<1>3. new \in CallStates /\ new.tool \in Tools
  BY DEF CallStates
<1>4. call'[c] = new /\ paid'[c] = 0
  BY <1>1, <1>2 DEF RouterTypeOK
<1>5. CallInv(c)' /\ HeldFor(c)' = Bound[tool] /\ HeldFor(c) = 0
  BY <1>2, <1>3, <1>4 DEF CallInv, HeldFor, BoundOf
<1>6. HeldFor(c)' = HeldFor(c) + Bound[tool] /\ Bound[tool] \in Int /\ blocked' \subseteq Jobs
  BY <1>1, <1>2, <1>5 DEF RouterTypeOK
<1> HIDE DEF new
<1>7. QED
  BY <1>2, <1>3, <1>5, <1>6, CallGoesOn

LEMMA ExecuteKeeps ==
    ASSUME RouterInv, NEW c \in Calls, NEW amount \in Amounts, Execute(c, amount)
    PROVE  RouterInv'
<1>1. RouterTypeOK /\ CallInv(c) /\ amount \in Nat /\ call[c].at = "execute"
  BY DEF RouterInv, Execute, Amounts
<1>2. paid[c] = 0 /\ BoundOf(c) \in Nat /\ call[c].tool \in Tools
  BY <1>1, BoundTyped DEF CallInv
<1>3. PICK at \in {"overran", "settle"} : at = IF amount > BoundOf(c) THEN "overran" ELSE "settle"
  OBVIOUS
<1>4. /\ call' = [call EXCEPT ![c].at = at] /\ paid' = [paid EXCEPT ![c] = amount]
      /\ cost' = cost /\ blocked' \subseteq Jobs
  BY <1>1, <1>3 DEF Execute, CallGoes, RouterTypeOK
<1>5. call'[c].at = at /\ call'[c].tool = call[c].tool /\ paid'[c] = amount
  BY <1>1, <1>4, CallAt DEF RouterTypeOK
<1>6. CallInv(c)' /\ HeldFor(c)' = HeldFor(c)
  BY <1>1, <1>2, <1>3, <1>5 DEF CallInv, HeldFor, BoundOf
<1>7. QED
  BY <1>1, <1>2, <1>4, <1>6, CallSpendsNothing

\* Steps that change neither cost nor payment.
LEMMA GoesKeeps ==
    ASSUME RouterInv, NEW c \in Calls, Traced(c) \/ Collected(c)
    PROVE  RouterInv'
<1>1. RouterTypeOK /\ CallInv(c) /\ paid[c] \in Nat /\ call[c].at \in {"trace", "execute"}
  BY DEF RouterInv, Traced, Collected, RouterTypeOK
<1>2. paid[c] = 0 /\ BoundOf(c) \in Nat /\ call[c].tool \in Tools
  BY <1>1, BoundTyped DEF CallInv
<1>3. PICK at \in {"execute", "settle"} : call' = [call EXCEPT ![c].at = at]
  BY DEF Traced, Collected, CallGoes
<1>4. /\ paid' = [paid EXCEPT ![c] = paid[c]] /\ paid' = paid
      /\ cost' = cost /\ blocked' \subseteq Jobs
  BY <1>1 DEF Traced, Collected, RouterTypeOK
<1>5. call'[c].at = at /\ call'[c].tool = call[c].tool
  BY <1>1, <1>3, CallAt
<1>6. CallInv(c)' /\ HeldFor(c)' = HeldFor(c)
  BY <1>1, <1>2, <1>4, <1>5 DEF CallInv, HeldFor, BoundOf
<1>7. QED
  BY <1>1, <1>2, <1>3, <1>4, <1>6, CallSpendsNothing

LEMMA FailKeeps ==
    ASSUME RouterInv, NEW c \in Calls, NEW amount, NEW traced \in BOOLEAN,
           \/ TraceFails(c, traced) /\ amount = paid[c]
           \/ ToolFails(c, amount, traced) /\ amount \in Amounts
    PROVE  RouterInv'
<1>1. /\ RouterTypeOK /\ CallInv(c) /\ paid[c] \in Nat /\ JobOf[c] \in Jobs
      /\ call[c].at \in {"trace", "settle", "execute"}
  BY JobsAssumption DEF RouterInv, TraceFails, ToolFails, RouterTypeOK
<1>2. BoundOf(c) \in Nat /\ call[c].tool \in Tools
  BY <1>1, BoundTyped
<1>3. Raise(c, amount, traced)
  BY DEF TraceFails, ToolFails
<1>4. /\ call' = [call EXCEPT ![c].at = "raised"] /\ paid' = [paid EXCEPT ![c] = amount]
      /\ cost' = cost /\ blocked' \subseteq Jobs
  BY <1>1, <1>3 DEF Raise, CallGoes, RouterTypeOK
<1>5. amount \in Nat /\ amount <= BoundOf(c) /\ (paid[c] = 0 \/ amount = paid[c])
  <2>1. CASE TraceFails(c, traced) /\ amount = paid[c]
    BY <1>1, <1>2, <2>1 DEF TraceFails, CallInv
  <2>2. CASE ToolFails(c, amount, traced) /\ amount \in Amounts
    <3>1. amount \in Nat
      BY <2>2 DEF Amounts
    <3>2. amount <= BoundOf(c)
      BY <1>2, <2>2 DEF ToolFails
    <3>3. QED
      BY <1>1, <2>2, <3>1, <3>2 DEF ToolFails, CallInv
  <2>3. QED
    BY <2>1, <2>2
<1>6. call'[c].at = "raised" /\ call'[c].tool = call[c].tool /\ paid'[c] = amount
  BY <1>1, <1>4, CallAt DEF RouterTypeOK
<1>7. amount \in Nat /\ amount <= BoundOf(c)
  BY <1>1, <1>5
<1>8. CallInv(c)' /\ HeldFor(c)' = BoundOf(c)
  BY <1>2, <1>6, <1>7 DEF CallInv, HeldFor, BoundOf
<1>9. HeldFor(c) = BoundOf(c)
  BY <1>1 DEF HeldFor
<1>10. QED
  BY <1>1, <1>4, <1>5, <1>7, <1>8, <1>9, CallSpendsNothing

\* An overrun charges what is above the bound, and the job has not kept to it.
LEMMA OverranKeeps ==
    ASSUME RouterInv, NEW c \in Calls, Overran(c)
    PROVE  RouterInv'
<1>1. /\ RouterTypeOK /\ CallInv(c) /\ paid[c] \in Nat /\ JobOf[c] \in Jobs
      /\ call[c].at = "overran" /\ call[c] \in CallStates
  BY JobsAssumption DEF RouterInv, Overran, RouterTypeOK
<1>2. BoundOf(c) \in Nat /\ call[c].tool \in Tools /\ paid[c] > BoundOf(c)
  BY <1>1, BoundTyped DEF CallInv
<1> DEFINE new == [call[c] EXCEPT !.at = "raised"]
           d == paid[c] - BoundOf(c)
<1>3. /\ call' = [call EXCEPT ![c] = new] /\ paid' = [paid EXCEPT ![c] = paid[c]]
      /\ cost' = [cost EXCEPT ![JobOf[c]] = @ + d] /\ blocked' \subseteq Jobs
  BY <1>1 DEF Overran, Charge, CallGoes, RouterTypeOK
<1>4. /\ new \in CallStates /\ d \in Int
      /\ call'[c].at = "raised" /\ call'[c].tool = call[c].tool /\ paid'[c] = paid[c]
  BY <1>1, <1>2, <1>3 DEF RouterTypeOK, CallStates
<1>5. CallInv(c)' /\ HeldFor(c)' = paid[c] /\ HeldFor(c) = BoundOf(c)
  BY <1>1, <1>2, <1>4 DEF CallInv, HeldFor, BoundOf
<1>6. HeldFor(c)' = HeldFor(c) + d
  BY <1>1, <1>2, <1>5
<1>7. ~ Kept(JobOf[c])'
  <2>1. c \in CallsOf(JobOf[c])' /\ call'[c].tool # None
    BY <1>2, <1>4, JobsAssumption DEF CallsOf
  <2>2. ~ (paid[c] <= BoundOf(c)) /\ BoundOf(c)' = BoundOf(c)
    BY <1>1, <1>2, <1>4 DEF BoundOf
  <2>3. QED
    BY <1>4, <2>1, <2>2 DEF Kept
<1> HIDE DEF new, d
<1>8. QED
  BY <1>1, <1>3, <1>4, <1>5, <1>6, <1>7, CallGoesOn

LEMMA SettleKeeps ==
    ASSUME RouterInv, NEW c \in Calls, Settle(c)
    PROVE  RouterInv'
<1>1. /\ RouterTypeOK /\ CallInv(c) /\ paid[c] \in Nat /\ JobOf[c] \in Jobs
      /\ call[c].at = "settle" /\ call[c] \in CallStates
  BY JobsAssumption DEF RouterInv, Settle, RouterTypeOK
<1>2. BoundOf(c) \in Nat /\ call[c].tool \in Tools /\ paid[c] <= BoundOf(c)
  BY <1>1, BoundTyped DEF CallInv
<1> DEFINE d == paid[c] - BoundOf(c)
<1>3. /\ call' = [call EXCEPT ![c].at = "returned"] /\ paid' = [paid EXCEPT ![c] = paid[c]]
      /\ cost' = [cost EXCEPT ![JobOf[c]] = @ + d] /\ blocked' \subseteq Jobs
  BY <1>1 DEF Settle, Charge, CallGoes, RouterTypeOK
<1>4. /\ [call[c] EXCEPT !.at = "returned"] \in CallStates /\ d \in Int /\ d <= 0
      /\ call'[c].at = "returned" /\ call'[c].tool = call[c].tool /\ paid'[c] = paid[c]
  BY <1>1, <1>2, <1>3 DEF RouterTypeOK, CallStates
<1>5. CallInv(c)' /\ HeldFor(c)' = paid[c] /\ HeldFor(c) = BoundOf(c)
  BY <1>1, <1>2, <1>4 DEF CallInv, HeldFor, BoundOf
<1>6. HeldFor(c)' = HeldFor(c) + d
  BY <1>1, <1>2, <1>5
<1> HIDE DEF d
<1>7. QED
  BY <1>1, <1>3, <1>4, <1>5, <1>6, CallSpendsNoMore

LEMMA RouterStill ==
    ASSUME RouterInv, UNCHANGED routerVars
    PROVE  RouterInv'
<1>1. UNCHANGED <<cost, blocked, call, paid>>
  BY DEF routerVars
<1>2. \A c \in Calls : CallInv(c)' = CallInv(c)
  BY <1>1 DEF CallInv, BoundOf
<1>3. held' = held
  BY <1>1 DEF held, HeldFor, BoundOf
<1>4. \A j \in Jobs : CostInv(j)' = CostInv(j)
  BY <1>1, <1>3 DEF CostInv, Kept, CallsOf, BoundOf
<1>5. QED
  BY <1>1, <1>2, <1>4 DEF RouterInv, RouterTypeOK

LEMMA JobLeavesRouter ==
    ASSUME NEW j \in Jobs, JobStep(j)
    PROVE  UNCHANGED routerVars /\ UNCHANGED fetchVars
BY DEF JobStep, Submit, Claim, LocalResult, DispatchedResult, Returns, RecordUsage, Publish,
       RunFails

LEMMA FetchLeavesRouter ==
    ASSUME NEW f \in Fetches, FetchStep(f)
    PROVE  UNCHANGED routerVars /\ UNCHANGED jobVars /\ UNCHANGED registryVars
BY DEF FetchStep, ReserveAttempt, Exhausted, Robots, Page, Redirect, ChildFails, Answered,
       TimesOut, Stop, Finish, StoreFails, FetchDies

LEMMA RouterInit == Init => RouterInv
<1> SUFFICES ASSUME Init PROVE RouterInv
  OBVIOUS
<1>1. /\ cost = [j \in Jobs |-> 0] /\ blocked = {} /\ paid = [c \in Calls |-> 0]
      /\ call = [c \in Calls |-> [at |-> "idle", tool |-> None]]
  BY DEF Init
<1>2. RouterTypeOK /\ \A c \in Calls : CallInv(c)
  BY <1>1 DEF RouterTypeOK, CallInv, CallStates
<1>3. ASSUME NEW j \in Jobs PROVE CostInv(j)
  <2>1. IsFiniteSet(CallsOf(j)) /\ \A c \in CallsOf(j) : held[c] = 0
    BY <1>1, CallsFinite DEF held, HeldFor
  <2>2. Sum(held, CallsOf(j)) = 0
    BY <2>1, SumZero
  <2>3. QED
    BY <1>1, <2>2, JobsAssumption DEF CostInv
<1>4. QED
  BY <1>2, <1>3 DEF RouterInv

LEMMA RouterStep == RouterInv /\ [Next]_vars => RouterInv'
<1> SUFFICES ASSUME RouterInv, [Next]_vars PROVE RouterInv'
  OBVIOUS
<1>1. ASSUME NEW j \in Jobs, JobStep(j) PROVE RouterInv'
  BY <1>1, JobLeavesRouter, RouterStill
<1>2. ASSUME NEW f \in Fetches, FetchStep(f) PROVE RouterInv'
  BY <1>2, FetchLeavesRouter, RouterStill
<1>3. ASSUME NEW c \in Calls, CallStep(c) PROVE RouterInv'
  <2>1. CASE \E tool \in Tools : Reserve(c, tool)
    BY <2>1, ReserveKeeps
  <2>2. CASE Traced(c) \/ Collected(c)
    BY <2>2, GoesKeeps
  <2>3. CASE \E amount \in Amounts : Execute(c, amount)
    BY <2>3, ExecuteKeeps
  <2>4. CASE Overran(c)
    BY <2>4, OverranKeeps
  <2>5. CASE \/ \E traced \in BOOLEAN : TraceFails(c, traced)
             \/ \E amount \in Amounts, traced \in BOOLEAN : ToolFails(c, amount, traced)
    BY <2>5, FailKeeps
  <2>6. CASE Settle(c)
    BY <2>6, SettleKeeps
  <2>7. QED
    BY <1>3, <2>1, <2>2, <2>3, <2>4, <2>5, <2>6 DEF CallStep
<1>4. CASE UNCHANGED vars
  BY <1>4, RouterStill DEF vars
<1>5. QED
  BY <1>1, <1>2, <1>3, <1>4 DEF Next

LEMMA RouterHolds == Spec => []RouterInv
BY RouterInit, RouterStep, PTL DEF Spec

\* The sum that the property is written with.
LEMMA OwedIsSum ==
    ASSUME NEW S, S \subseteq Calls, IsFiniteSet(S)
    PROVE  MapThenSumSet(Owed, S) = Sum([c \in Calls |-> Owed(c)], S)
<1> DEFINE f == [c \in Calls |-> Owed(c)]
<1>1. PICK g : IsSum(g, f, S)
  BY IsSumExists
<1> DEFINE Computes(h) ==
             h = [s \in SUBSET S |->
                    IF s = {} THEN 0
                    ELSE LET x == CHOOSE x \in s : TRUE IN Owed(x) + h[s \ {x}]]
<1>2. \A h : Computes(h) <=> IsSum(h, f, S)
  <2>1. ASSUME NEW h, NEW s \in SUBSET S, s # {}
        PROVE  f[CHOOSE x \in s : TRUE] = Owed(CHOOSE x \in s : TRUE)
    <3> DEFINE x == CHOOSE x \in s : TRUE
    <3>1. x \in s
      BY <2>1
    <3>2. x \in Calls
      BY <3>1
    <3> HIDE DEF x
    <3>3. f[x] = Owed(x)
      BY <3>2
    <3>4. QED
      BY <3>3 DEF x
  <2>2. TAKE h
  <2> DEFINE w(s) == IF s = {} THEN 0
                     ELSE LET x == CHOOSE x \in s : TRUE IN f[x] + h[s \ {x}]
             v(s) == IF s = {} THEN 0
                     ELSE LET x == CHOOSE x \in s : TRUE IN Owed(x) + h[s \ {x}]
  <2>3. ASSUME NEW s \in SUBSET S PROVE w(s) = v(s)
    <3> HIDE DEF f
    <3>1. QED
      BY <2>1
  <2> HIDE DEF w, v
  <2>4. [s \in SUBSET S |-> w(s)] = [s \in SUBSET S |-> v(s)]
    BY <2>3
  <2> USE DEF w, v
  <2>5. QED
    BY <2>4 DEF IsSum
<1>3. MapThenSumSet(Owed, S) = (CHOOSE h : Computes(h))[S]
  BY DEF MapThenSumSet, MapThenFoldSet
<1> HIDE DEF Computes
<1>4. (CHOOSE h : Computes(h))[S] = g[S]
  <2> DEFINE k == CHOOSE h : Computes(h)
  <2>1. IsSum(k, f, S)
    BY <1>1, <1>2
  <2> HIDE DEF k, f
  <2>2. S \in SUBSET S
    OBVIOUS
  <2>3. k[S] = g[S]
    BY <1>1, <2>1, <2>2, IsSumUnique
  <2>4. QED
    BY <2>3 DEF k
<1> HIDE DEF f
<1>5. Sum(f, S) = g[S]
  BY <1>1, SumIs
<1> USE DEF f
<1>6. QED
  BY <1>3, <1>4, <1>5

LEMMA RouterGivesCost == RouterInv => CostCoversPaid
<1> SUFFICES ASSUME RouterInv, NEW j \in Jobs
             PROVE  /\ cost[j] >= MapThenSumSet(Owed, CallsOf(j))
                    /\ Kept(j) => Sum(paid, CallsOf(j)) <= MaxDataCost[j]
  BY DEF CostCoversPaid, Kept, Sum
<1> DEFINE owed == [c \in Calls |-> Owed(c)]
<1>1. /\ RouterTypeOK /\ IsFiniteSet(CallsOf(j)) /\ CallsOf(j) \subseteq Calls
      /\ cost[j] = Sum(held, CallsOf(j)) /\ cost[j] \in Nat /\ MaxDataCost[j] \in Nat
      /\ Kept(j) => cost[j] <= MaxDataCost[j]
  BY CallsFinite, JobsAssumption DEF RouterInv, RouterTypeOK, CostInv
<1>2. ASSUME NEW c \in CallsOf(j)
      PROVE  /\ held[c] \in Int /\ owed[c] \in Int /\ paid[c] \in Int
             /\ owed[c] <= held[c]
             /\ Kept(j) => paid[c] <= held[c]
  <2>1. c \in Calls /\ CallInv(c) /\ paid[c] \in Nat /\ call[c] \in CallStates
    BY <1>1 DEF RouterInv, RouterTypeOK
  <2>2. HeldFor(c) \in Nat /\ (call[c].at # "idle" => BoundOf(c) \in Nat)
    BY <1>1, <2>1, HeldTyped, BoundTyped
  <2>3. Owed(c) \in Nat /\ Owed(c) <= HeldFor(c)
    BY <2>1, <2>2 DEF Owed, HeldFor, CallInv, CallStates
  <2>4. ASSUME Kept(j) PROVE paid[c] <= HeldFor(c)
    <3>1. call[c].tool # None => paid[c] <= BoundOf(c)
      BY <2>4 DEF Kept
    <3>2. QED
      BY <2>1, <2>2, <3>1, JobsAssumption DEF HeldFor, CallInv, CallStates
  <2>5. held[c] = HeldFor(c) /\ owed[c] = Owed(c)
    BY <2>1 DEF held
  <2>6. QED
    BY <2>1, <2>2, <2>3, <2>4, <2>5
<1>3. MapThenSumSet(Owed, CallsOf(j)) = Sum(owed, CallsOf(j))
  BY <1>1, OwedIsSum
<1> HIDE DEF owed
<1>4. /\ Sum(owed, CallsOf(j)) \in Int /\ Sum(held, CallsOf(j)) \in Int
      /\ Sum(paid, CallsOf(j)) \in Int
  BY <1>1, <1>2, SumType
<1>5. Sum(owed, CallsOf(j)) <= Sum(held, CallsOf(j))
  BY <1>1, <1>2, SumGrows
<1>6. Kept(j) => Sum(paid, CallsOf(j)) <= Sum(held, CallsOf(j))
  BY <1>1, <1>2, SumGrows
<1>7. QED
  BY <1>1, <1>3, <1>4, <1>5, <1>6

\* However the calls of a job overlap, fail or are abandoned, the router has charged
\* it what its providers have, and within its budget unless one exceeded its maximum.
THEOREM CostSafe == Spec => []CostCoversPaid
BY RouterHolds, RouterGivesCost, PTL

-----------------------------------------------------------------------------
(* The registry. *)

LEMMA BatchCounted ==
    ASSUME NEW batch, batch \subseteq Candidates
    PROVE  IsFiniteSet(batch) /\ Cardinality(batch) \in Nat
BY JobsAssumption, FS_Subset, FS_CardinalityType

\* A run that has not published goes on.
LEMMA RunGoesOn ==
    ASSUME PublishedInv, NEW j \in Jobs, NEW new \in JobRuns, NEW u \in Usages,
           job[j].at # "completed", new.at # "completed",
           job' = [job EXCEPT ![j] = new], usage' = [usage EXCEPT ![j] = u],
           status' = status, Accounted(j)'
    PROVE  PublishedInv'
<1>1. /\ job'[j] = new /\ JobsTypeOK'
      /\ \A k \in Jobs \ {j} : job'[k] = job[k] /\ usage'[k] = usage[k]
  BY DEF PublishedInv, JobsTypeOK
<1>2. \A k \in Jobs : Accounted(k)'
  BY <1>1 DEF PublishedInv, Accounted, Within
<1>3. \A k \in Jobs, c \in Candidates : Published(k, c)' <=> Published(k, c)
  BY <1>1 DEF Published
<1>4. QED
  BY <1>1, <1>2, <1>3 DEF PublishedInv

LEMMA StartKeeps ==
    ASSUME PublishedInv, NEW j \in Jobs, Submit(j) \/ Claim(j)
    PROVE  PublishedInv'
<1>1. job[j] \in JobRuns /\ usage[j] \in Usages /\ job[j].at \in {"new", "queued"}
  BY DEF PublishedInv, JobsTypeOK, Submit, Claim
<1>2. PICK at \in {"queued", "running"} : Goes(j, at)
  BY DEF Submit, Claim
<1> DEFINE new == [job[j] EXCEPT !.at = at]
<1>3. /\ job' = [job EXCEPT ![j] = new] /\ usage' = [usage EXCEPT ![j] = usage[j]]
      /\ status' = status
  BY <1>1, <1>2 DEF Goes, Submit, Claim, registryVars, PublishedInv, JobsTypeOK
<1>4. new \in JobRuns /\ new.at \in {"queued", "running"}
  BY <1>1, <1>2 DEF JobRuns
<1>5. job'[j] = new
  BY <1>3 DEF PublishedInv, JobsTypeOK
<1> HIDE DEF new
<1>6. Accounted(j)'
  BY <1>4, <1>5 DEF Accounted
<1>7. QED
  BY <1>1, <1>3, <1>4, <1>6, RunGoesOn

\* What a run used is what its worker reports, and at least its candidates.
LEMMA ReturnsKeep ==
    ASSUME PublishedInv, NEW j \in Jobs, NEW batch \in SUBSET Candidates, NEW sound \in BOOLEAN,
           NEW trials \in Nat, NEW own \in Nat, cost[j] \in Nat,
           Returns(j, batch, sound, trials, own)
    PROVE  PublishedInv'
<1> DEFINE total == TotalUsage(batch, trials, own, cost[j])
           new == [at |-> "recording", batch |-> batch, sound |-> sound, total |-> total]
<1>1. total \in Usages /\ Cardinality(batch) <= total.trials
  <2>1. Cardinality(batch) \in Nat
    BY BatchCounted
  <2>2. /\ Max({Cardinality(batch), trials}) \in Nat
        /\ Cardinality(batch) <= Max({Cardinality(batch), trials})
    <3> DEFINE b == Cardinality(batch)
    <3> HIDE DEF b
    <3>1. \E x \in {b, trials} : \A y \in {b, trials} : x >= y
      BY <2>1 DEF b
    <3>2. Max({b, trials}) \in {b, trials} /\ Max({b, trials}) >= b
      BY <3>1 DEF Max
    <3>3. QED
      BY <2>1, <3>2 DEF b
  <2>3. QED
    BY <2>2 DEF Usages, TotalUsage
<1>2. /\ job[j] \in JobRuns /\ usage[j] \in Usages /\ job[j].at = "running"
      /\ job' = [job EXCEPT ![j] = new] /\ usage' = [usage EXCEPT ![j] = usage[j]]
      /\ status' = status
  BY DEF Returns, registryVars, PublishedInv, JobsTypeOK
<1> HIDE DEF total
<1>3. new \in JobRuns /\ new.at = "recording"
  BY <1>1 DEF JobRuns
<1>4. job'[j] = new
  BY <1>2 DEF PublishedInv, JobsTypeOK
<1>5. Accounted(j)'
  BY <1>1, <1>4 DEF Accounted
<1> HIDE DEF new
<1>6. QED
  BY <1>2, <1>3, <1>5, RunGoesOn

LEMMA RecordKeeps ==
    ASSUME PublishedInv, NEW j \in Jobs, RecordUsage(j)
    PROVE  PublishedInv'
<1> DEFINE new == [job[j] EXCEPT !.at = "publishing"]
<1>1. /\ job[j] \in JobRuns /\ job[j].at = "recording" /\ Within(j) /\ Accounted(j)
      /\ job' = [job EXCEPT ![j] = new] /\ usage' = [usage EXCEPT ![j] = job[j].total]
      /\ status' = status
  BY DEF RecordUsage, Goes, registryVars, PublishedInv, JobsTypeOK
<1>2. /\ new \in JobRuns /\ new.at = "publishing" /\ new.total = job[j].total
      /\ new.batch = job[j].batch /\ job[j].total \in Usages
  BY <1>1 DEF JobRuns
<1>3. job'[j] = new /\ usage'[j] = job[j].total
  BY <1>1 DEF PublishedInv, JobsTypeOK
<1> HIDE DEF new
<1>4. Accounted(j)'
  BY <1>1, <1>2, <1>3 DEF Accounted, Within
<1>5. QED
  BY <1>1, <1>2, <1>4, RunGoesOn

LEMMA RunFailsKeeps ==
    ASSUME PublishedInv, NEW j \in Jobs, RunFails(j)
    PROVE  PublishedInv'
<1> DEFINE new == [NewJob EXCEPT !.at = "failed"]
<1>1. /\ job[j].at # "completed" /\ usage[j] \in Usages
      /\ job' = [job EXCEPT ![j] = new] /\ usage' = [usage EXCEPT ![j] = usage[j]]
      /\ status' = status
  BY DEF RunFails, registryVars, PublishedInv, JobsTypeOK
<1>2. new \in JobRuns /\ new.at = "failed"
  BY DEF NewJob, JobRuns, Zero, Usages
<1>3. job'[j] = new
  BY <1>1 DEF PublishedInv, JobsTypeOK
<1> HIDE DEF new
<1>4. Accounted(j)'
  BY <1>2, <1>3 DEF Accounted
<1>5. QED
  BY <1>1, <1>2, <1>4, RunGoesOn

\* All of the batch is new to the registry, so to every completed run.
LEMMA PublishKeeps ==
    ASSUME PublishedInv, NEW j \in Jobs, Publish(j)
    PROVE  PublishedInv'
<1> DEFINE new == [NewJob EXCEPT !.at = "completed", !.batch = job[j].batch]
<1>1. /\ job[j] \in JobRuns /\ job[j].at = "publishing" /\ Accounted(j)
      /\ \A c \in job[j].batch : status[c] = "none"
      /\ status' = [c \in Candidates |-> IF c \in job[j].batch THEN "proposed" ELSE status[c]]
      /\ job' = [job EXCEPT ![j] = new] /\ usage' = usage
  BY DEF Publish, RegisterBatch, PublishedInv, JobsTypeOK
<1>2. new \in JobRuns /\ new.at = "completed" /\ new.batch = job[j].batch
  BY <1>1 DEF NewJob, JobRuns, Zero, Usages
<1> HIDE DEF new
<1>3. /\ job'[j] = new /\ JobsTypeOK'
      /\ \A k \in Jobs \ {j} : job'[k] = job[k]
  BY <1>1, <1>2 DEF PublishedInv, JobsTypeOK
<1>4. \A k \in Jobs : Accounted(k)'
  <2>1. ASSUME NEW k \in Jobs \ {j} PROVE Accounted(k)'
    BY <1>1, <1>3 DEF PublishedInv, Accounted, Within
  <2>2. Accounted(j)'
    <3>1. usage[j] = job[j].total /\ Within(j) /\ Cardinality(job[j].batch) <= job[j].total.trials
      BY <1>1 DEF Accounted
    <3>2. QED
      BY <1>1, <1>2, <1>3, <3>1 DEF Accounted, Within
  <2>3. QED
    BY <2>1, <2>2
<1>5. \A c \in Candidates, k \in Jobs \ {j} : Published(k, c)' <=> Published(k, c)
  BY <1>3 DEF Published
<1>6. \A c \in Candidates : ~ Published(j, c) /\ (Published(j, c)' <=> c \in job[j].batch)
  BY <1>1, <1>2, <1>3 DEF Published
<1>7. ASSUME NEW c \in Candidates
      PROVE  /\ status'[c] # "none" <=> \E k \in Jobs : Published(k, c)'
             /\ \A k, l \in Jobs : Published(k, c)' /\ Published(l, c)' => k = l
  <2>1. /\ status[c] # "none" <=> \E k \in Jobs : Published(k, c)
        /\ \A k, l \in Jobs : Published(k, c) /\ Published(l, c) => k = l
    BY DEF PublishedInv
  <2>2. CASE c \in job[j].batch
    <3>1. status[c] = "none" /\ status'[c] = "proposed"
      BY <1>1, <2>2
    <3>2. \A k \in Jobs \ {j} : ~ Published(k, c)'
      BY <1>5, <2>1, <3>1
    <3>3. QED
      BY <1>6, <2>2, <3>1, <3>2
  <2>3. CASE c \notin job[j].batch
    <3>1. status'[c] = status[c]
      BY <1>1, <2>3
    <3>2. \A k \in Jobs : Published(k, c)' <=> Published(k, c)
      BY <1>5, <1>6, <2>3
    <3>3. QED
      BY <2>1, <3>1, <3>2
  <2>4. QED
    BY <2>2, <2>3
<1>8. status' \in [Candidates -> Statuses \cup {"none"}]
  BY <1>1 DEF PublishedInv, Statuses
<1>9. QED
  BY <1>3, <1>4, <1>7, <1>8 DEF PublishedInv

LEMMA PublishedStill ==
    ASSUME PublishedInv, UNCHANGED <<status, job, usage>>
    PROVE  PublishedInv'
<1>1. \A j \in Jobs : Accounted(j)' = Accounted(j)
  BY DEF Accounted, Within
<1>2. \A j \in Jobs, c \in Candidates : Published(j, c)' = Published(j, c)
  BY DEF Published
<1>3. QED
  BY <1>1, <1>2 DEF PublishedInv, JobsTypeOK

LEMMA CallLeavesJobs ==
    ASSUME NEW c \in Calls, CallStep(c)
    PROVE  UNCHANGED jobVars /\ UNCHANGED registryVars /\ UNCHANGED fetchVars
BY DEF CallStep, Reserve, Traced, Execute, Collected, Overran, TraceFails, ToolFails, Raise, Settle

LEMMA PublishedInit == Init => PublishedInv
<1> SUFFICES ASSUME Init PROVE PublishedInv
  OBVIOUS
<1>1. /\ status = [c \in Candidates |-> "none"] /\ job = [j \in Jobs |-> NewJob]
      /\ usage = [j \in Jobs |-> Zero]
  BY DEF Init, RegistryInit
<1>2. NewJob \in JobRuns /\ Zero \in Usages /\ NewJob.at = "new"
  BY DEF NewJob, JobRuns, Zero, Usages
<1>3. JobsTypeOK /\ \A j \in Jobs : Accounted(j) /\ job[j].at = "new"
  BY <1>1, <1>2 DEF JobsTypeOK, Accounted
<1>4. \A j \in Jobs, c \in Candidates : ~ Published(j, c)
  BY <1>3 DEF Published
<1>5. QED
  BY <1>1, <1>3, <1>4 DEF PublishedInv, Statuses

LEMMA PublishedStep == RouterInv /\ PublishedInv /\ [Next]_vars => PublishedInv'
<1> SUFFICES ASSUME RouterInv, PublishedInv, [Next]_vars PROVE PublishedInv'
  OBVIOUS
<1>1. ASSUME NEW j \in Jobs, JobStep(j) PROVE PublishedInv'
  <2>1. cost[j] \in Nat
    BY DEF RouterInv, RouterTypeOK
  <2>2. CASE Submit(j) \/ Claim(j)
    BY <2>2, StartKeeps
  <2>3. CASE LocalResult(j)
    <3>1. PICK batch \in LocalProposals(j) : Returns(j, batch, TRUE, Cardinality(batch), 0)
      BY <2>3 DEF LocalResult
    <3>2. batch \in SUBSET Candidates
      BY <3>1 DEF LocalProposals, Fitting
    <3>3. Cardinality(batch) \in Nat /\ 0 \in Nat /\ TRUE \in BOOLEAN
      BY <3>2, BatchCounted
    <3>4. QED
      BY <2>1, <3>1, <3>2, <3>3, ReturnsKeep
  <2>4. CASE DispatchedResult(j)
    <3>1. PICK batch \in SUBSET Candidates, sound \in BOOLEAN,
               trials \in {0, MaxTrials[j] + 1}, own \in 0..MaxOwnCost :
             Returns(j, batch, sound /\ batch \subseteq Fitting(j), trials, own)
      BY <2>4 DEF DispatchedResult
    <3>2. MaxTrials[j] \in Nat
      BY JobsAssumption
    <3>3. trials \in Nat /\ own \in Nat
      BY <3>1, <3>2
    <3>4. PICK fits \in BOOLEAN : fits = (sound /\ batch \subseteq Fitting(j))
      OBVIOUS
    <3>5. Returns(j, batch, fits, trials, own)
      BY <3>1, <3>4
    <3>6. QED
      BY <2>1, <3>1, <3>3, <3>5, ReturnsKeep
  <2>5. CASE RecordUsage(j)
    BY <2>5, RecordKeeps
  <2>6. CASE Publish(j)
    BY <2>6, PublishKeeps
  <2>7. CASE RunFails(j)
    BY <2>7, RunFailsKeeps
  <2>8. QED
    BY <1>1, <2>2, <2>3, <2>4, <2>5, <2>6, <2>7 DEF JobStep
<1>2. ASSUME NEW c \in Calls, CallStep(c) PROVE PublishedInv'
  BY <1>2, CallLeavesJobs, PublishedStill DEF jobVars, registryVars
<1>3. ASSUME NEW f \in Fetches, FetchStep(f) PROVE PublishedInv'
  BY <1>3, FetchLeavesRouter, PublishedStill DEF jobVars, registryVars
<1>4. CASE UNCHANGED vars
  BY <1>4, PublishedStill DEF vars, jobVars, registryVars
<1>5. QED
  BY <1>1, <1>2, <1>3, <1>4 DEF Next

LEMMA PublishedGives == PublishedInv => PublishedAccounted
<1> SUFFICES ASSUME PublishedInv PROVE PublishedAccounted
  OBVIOUS
<1>1. ASSUME NEW c \in Candidates, status[c] # "none"
      PROVE  Cardinality({j \in Jobs : Published(j, c)}) = 1
  <2>1. PICK j \in Jobs : Published(j, c)
    BY <1>1 DEF PublishedInv
  <2>2. {k \in Jobs : Published(k, c)} = {j}
    BY <2>1 DEF PublishedInv
  <2>3. QED
    BY <2>2, FS_Singleton
<1>2. ASSUME NEW j \in Jobs, job[j].at = "completed"
      PROVE  /\ \A c \in job[j].batch : status[c] # "none"
             /\ Cardinality(job[j].batch) <= usage[j].trials /\ usage[j].trials <= MaxTrials[j]
             /\ usage[j].cost <= MaxDataCost[j]
  <2>1. job[j] \in JobRuns /\ Accounted(j)
    BY DEF PublishedInv, JobsTypeOK
  <2>2. \A c \in job[j].batch : c \in Candidates /\ Published(j, c)
    BY <1>2, <2>1 DEF JobRuns, Published
  <2>3. QED
    BY <1>2, <2>1, <2>2 DEF PublishedInv, Accounted
<1>3. QED
  BY <1>1, <1>2 DEF PublishedAccounted, Published

\* The registry holds exactly the candidates of completed runs, each of one run, within
\* the trials and the cost that the run has accounted for.
THEOREM PublishedSafe == Spec => []PublishedAccounted
BY RouterHolds, PublishedInit, PublishedStep, PublishedGives, PTL DEF Spec

-----------------------------------------------------------------------------
(* The budget file. *)

\* The sum that the code's SELECT computes.
LEMMA ChargedIsSum ==
    ASSUME CollectionInv
    PROVE  Charged = Sum(spent, Rows)
<1> DEFINE Computes(h) ==
             h = [s \in SUBSET Rows |->
                    IF s = {} THEN 0
                    ELSE LET x == CHOOSE x \in s : TRUE IN attempt[x].bytes + h[s \ {x}]]
<1>1. IsFiniteSet(Rows) /\ Rows \subseteq Fetches
  BY DEF CollectionInv, Rows
<1>2. PICK g : IsSum(g, spent, Rows)
  BY <1>1, IsSumExists
<1>3. \A h : Computes(h) <=> IsSum(h, spent, Rows)
  <2>1. ASSUME NEW s \in SUBSET Rows, s # {}
        PROVE  spent[CHOOSE x \in s : TRUE] = attempt[CHOOSE x \in s : TRUE].bytes
    <3> DEFINE x == CHOOSE x \in s : TRUE
    <3>1. x \in s
      BY <2>1
    <3>2. x \in Fetches
      BY <1>1, <3>1
    <3> HIDE DEF x
    <3>3. spent[x] = attempt[x].bytes
      BY <3>2 DEF spent
    <3>4. QED
      BY <3>3 DEF x
  <2>2. TAKE h
  <2> DEFINE w(s) == IF s = {} THEN 0
                     ELSE LET x == CHOOSE x \in s : TRUE IN spent[x] + h[s \ {x}]
             v(s) == IF s = {} THEN 0
                     ELSE LET x == CHOOSE x \in s : TRUE IN attempt[x].bytes + h[s \ {x}]
  <2>3. ASSUME NEW s \in SUBSET Rows PROVE w(s) = v(s)
    BY <2>1
  <2> HIDE DEF w, v
  <2>4. [s \in SUBSET Rows |-> w(s)] = [s \in SUBSET Rows |-> v(s)]
    BY <2>3
  <2> USE DEF w, v
  <2>5. QED
    BY <2>4 DEF IsSum
<1>4. Charged = (CHOOSE h : Computes(h))[Rows]
  BY DEF Charged, MapThenSumSet, MapThenFoldSet
<1> HIDE DEF Computes
<1>5. (CHOOSE h : Computes(h))[Rows] = g[Rows]
  <2> DEFINE k == CHOOSE h : Computes(h)
  <2>1. IsSum(k, spent, Rows)
    BY <1>2, <1>3
  <2> HIDE DEF k
  <2>2. Rows \in SUBSET Rows
    OBVIOUS
  <2>3. k[Rows] = g[Rows]
    BY <1>1, <1>2, <2>1, <2>2, IsSumUnique
  <2>4. QED
    BY <2>3 DEF k
<1>6. Sum(spent, Rows) = g[Rows]
  BY <1>1, <1>2, SumIs
<1>7. QED
  BY <1>4, <1>5, <1>6

LEMMA SpentTyped ==
    ASSUME CollectionTypeOK, CollectionAssumption
    PROVE  \A f \in Fetches : spent[f] = attempt[f].bytes /\ spent[f] \in Nat
BY DEF CollectionTypeOK, Attempts, spent

\* A collection goes on, and its row stays as it is.
LEMMA FetchGoesOn ==
    ASSUME CollectionInv, NEW f \in Fetches, NEW at \in FetchStates, NEW new \in ChildStates,
           attempt' = attempt, fetch' = [fetch EXCEPT ![f] = at],
           child' = [child EXCEPT ![f] = new], FetchInv(f)'
    PROVE  CollectionInv'
<1>1. /\ CollectionTypeOK'
      /\ \A e \in Fetches \ {f} : fetch'[e] = fetch[e] /\ child'[e] = child[e]
  BY DEF CollectionInv, CollectionTypeOK
<1>2. \A e \in Fetches \ {f} : FetchInv(e)'
  BY <1>1 DEF CollectionInv, FetchInv, Requesting
<1>3. Rows' = Rows /\ spent' = spent
  BY DEF Rows, spent
<1>4. QED
  BY <1>1, <1>2, <1>3 DEF CollectionInv

LEMMA ReserveAttemptKeeps ==
    ASSUME CollectionInv, NEW f \in Fetches, ReserveAttempt(f)
    PROVE  CollectionInv'
<1> DEFINE entry == [status |-> "reserved", bytes |-> CallBytes]
           new == [child[f] EXCEPT !.at = "robots"]
<1>1. /\ CollectionTypeOK /\ FetchInv(f) /\ CallBytes \in Nat /\ CallBytes # 0
      /\ child[f] \in ChildStates /\ attempt[f] = NoAttempt
  BY CollectionAssumption DEF CollectionInv, CollectionTypeOK, ReserveAttempt, Starts, FetchInv
<1>2. /\ attempt' = [attempt EXCEPT ![f] = entry] /\ fetch' = [fetch EXCEPT ![f] = "waiting"]
      /\ child' = [child EXCEPT ![f] = new]
      /\ Cardinality(Rows) < MaxAttempts /\ Charged + CallBytes <= TotalBytes
  BY DEF ReserveAttempt, FetchGoes, HasBudget
<1>3. entry \in Attempts /\ entry # NoAttempt /\ new \in ChildStates /\ new.at = "robots"
  BY <1>1 DEF Attempts, NoAttempt, ChildStates
<1>4. /\ CollectionTypeOK' /\ attempt'[f] = entry /\ fetch'[f] = "waiting" /\ child'[f] = new
      /\ \A e \in Fetches \ {f} :
           attempt'[e] = attempt[e] /\ fetch'[e] = fetch[e] /\ child'[e] = child[e]
  BY <1>1, <1>2, <1>3 DEF CollectionTypeOK, FetchStates
<1>5. \A e \in Fetches : FetchInv(e)'
  <2>1. \A e \in Fetches \ {f} : FetchInv(e)'
    BY <1>4 DEF CollectionInv, FetchInv, Requesting
  <2>2. FetchInv(f)'
    BY <1>3, <1>4 DEF FetchInv, Requesting
  <2>3. QED
    BY <2>1, <2>2
<1>6. Rows' = Rows \cup {f} /\ f \notin Rows /\ Rows \subseteq Fetches /\ IsFiniteSet(Rows)
  BY <1>1, <1>3, <1>4 DEF Rows, CollectionInv
<1>7. /\ spent'[f] = CallBytes
      /\ \A e \in Rows : spent[e] \in Int /\ spent'[e] = spent[e]
  BY <1>1, <1>4, <1>6, SpentTyped, CollectionAssumption DEF spent
<1>8. Sum(spent', Rows) = Sum(spent, Rows) /\ Sum(spent, Rows) \in Int
  BY <1>6, <1>7, SumSame, SumType
<1>9. Sum(spent', Rows \cup {f}) = Sum(spent', Rows) + CallBytes
  <2>1. \A e \in Rows : spent'[e] \in Int
    BY <1>7
  <2>2. spent'[f] \in Int
    BY <1>1, <1>7
  <2>3. Sum(spent', Rows \cup {f}) = Sum(spent', Rows) + spent'[f]
    BY <1>6, <2>1, <2>2, SumAdd
  <2>4. QED
    BY <1>7, <2>3
<1>10. Sum(spent', Rows') <= TotalBytes
  BY <1>2, <1>6, <1>8, <1>9, ChargedIsSum
<1>11. /\ IsFiniteSet(Rows \cup {f}) /\ Cardinality(Rows \cup {f}) = Cardinality(Rows) + 1
       /\ Cardinality(Rows) \in Nat
  BY <1>6, FS_AddElement, FS_CardinalityType
<1>12. IsFiniteSet(Rows') /\ Cardinality(Rows') <= MaxAttempts
  <2>1. MaxAttempts \in Nat
    BY CollectionAssumption
  <2>2. QED
    BY <1>2, <1>6, <1>11, <2>1
<1>13. QED
  BY <1>4, <1>5, <1>10, <1>12 DEF CollectionInv

\* What a child has accepted is what a collected row keeps; a failed one keeps it all.
LEMMA FinishKeeps ==
    ASSUME CollectionInv, NEW f \in Fetches, Finish(f)
    PROVE  CollectionInv'
<1> DEFINE entry == [status |-> fetch[f], bytes |-> ActualBytes(f)]
<1>1. /\ CollectionTypeOK /\ FetchInv(f) /\ CallBytes \in Nat
      /\ child[f].left \in 0..CallBytes
      /\ fetch[f] \in {"collected", "failed"} /\ attempt[f].status = "reserved"
      /\ attempt[f].bytes = CallBytes
  BY CollectionAssumption
     DEF CollectionInv, CollectionTypeOK, ChildStates, Finish, FetchInv
<1>2. /\ attempt' = [attempt EXCEPT ![f] = entry] /\ fetch' = [fetch EXCEPT ![f] = "ended"]
      /\ child' = child
  BY DEF Finish, FetchGoes
<1>3. ActualBytes(f) \in 0..CallBytes
  BY <1>1 DEF ActualBytes
<1>4. entry \in Attempts /\ entry.status \in {"collected", "failed"} /\ entry # NoAttempt
  BY <1>1, <1>3 DEF Attempts, NoAttempt
<1>5. /\ CollectionTypeOK' /\ attempt'[f] = entry /\ fetch'[f] = "ended"
      /\ \A e \in Fetches \ {f} : attempt'[e] = attempt[e] /\ fetch'[e] = fetch[e]
  BY <1>1, <1>2, <1>4 DEF CollectionTypeOK, FetchStates
<1>6. \A e \in Fetches : FetchInv(e)'
  <2>1. \A e \in Fetches \ {f} : FetchInv(e)'
    BY <1>2, <1>5 DEF CollectionInv, FetchInv, Requesting
  <2>2. FetchInv(f)'
    BY <1>1, <1>2, <1>5 DEF FetchInv, Requesting, ActualBytes
  <2>3. QED
    BY <2>1, <2>2
<1>7. f \in Rows /\ Rows' = Rows /\ Rows \subseteq Fetches /\ IsFiniteSet(Rows)
  BY <1>1, <1>4, <1>5 DEF Rows, NoAttempt, CollectionInv
<1>8. \A e \in Rows : spent[e] \in Int /\ spent'[e] \in Int /\ spent'[e] <= spent[e]
  <2>1. ASSUME NEW e \in Rows \ {f}
        PROVE  spent[e] \in Int /\ spent'[e] \in Int /\ spent'[e] <= spent[e]
    <3>1. spent[e] \in Nat /\ spent'[e] = spent[e]
      BY <1>1, <1>5, <1>7, SpentTyped, CollectionAssumption DEF spent
    <3>2. QED
      BY <3>1
  <2>2. spent[f] = CallBytes /\ spent'[f] = ActualBytes(f)
    BY <1>1, <1>5 DEF spent
  <2>3. QED
    BY <1>1, <1>3, <2>1, <2>2
<1>9. /\ Sum(spent', Rows) <= Sum(spent, Rows)
      /\ Sum(spent', Rows) \in Int /\ Sum(spent, Rows) \in Int
  BY <1>7, <1>8, SumGrows, SumType
<1>10. Sum(spent, Rows) <= TotalBytes /\ TotalBytes \in Int
  BY CollectionAssumption DEF CollectionInv
<1>11. Sum(spent', Rows') <= TotalBytes
  BY <1>7, <1>9, <1>10
<1>12. Cardinality(Rows') <= MaxAttempts /\ IsFiniteSet(Rows')
  BY <1>7 DEF CollectionInv
<1>13. QED
  BY <1>5, <1>6, <1>11, <1>12 DEF CollectionInv

\* A step of the collecting process that leaves its child and its row.
LEMMA ProcessKeeps ==
    ASSUME CollectionInv, NEW f \in Fetches,
           Exhausted(f) \/ Answered(f) \/ TimesOut(f) \/ StoreFails(f) \/ FetchDies(f)
    PROVE  CollectionInv'
<1>1. /\ CollectionTypeOK /\ FetchInv(f) /\ child[f] \in ChildStates
      /\ attempt' = attempt /\ child' = [child EXCEPT ![f] = child[f]] /\ child' = child
  BY DEF CollectionInv, CollectionTypeOK, Exhausted, Answered, TimesOut, StoreFails, FetchDies
<1>2. PICK at \in FetchStates :
        /\ fetch' = [fetch EXCEPT ![f] = at]
        /\ at = "raised" \/ (at \in {"collected", "failed", "stop"} /\ fetch[f] = "waiting")
        /\ at = "collected" => child[f].at = "answered"
  BY DEF Exhausted, Answered, TimesOut, StoreFails, FetchDies, FetchGoes, FetchStates
<1>3. fetch'[f] = at
  BY <1>1, <1>2 DEF CollectionTypeOK
<1>4. FetchInv(f)'
  BY <1>1, <1>2, <1>3 DEF FetchInv, Requesting
<1>5. QED
  BY <1>1, <1>2, <1>4, FetchGoesOn

\* A child that makes requests has a row that is not given back.
LEMMA ChildKeeps ==
    ASSUME CollectionInv, NEW f \in Fetches,
           \/ \E n \in 0..CallBytes :
                Robots(f, n) \/ Page(f, n) \/ \E to \in {"robots", "page"} : Redirect(f, n, to)
           \/ ChildFails(f)
    PROVE  CollectionInv'
<1>1. /\ CollectionTypeOK /\ FetchInv(f) /\ child[f] \in ChildStates /\ fetch[f] \in FetchStates
      /\ CallBytes \in Nat /\ MaxRedirects \in Nat
  BY CollectionAssumption DEF CollectionInv, CollectionTypeOK
<1>2. /\ Requesting(f) /\ attempt' = attempt
      /\ fetch' = [fetch EXCEPT ![f] = fetch[f]] /\ fetch' = fetch
  BY <1>1 DEF CollectionTypeOK, Requesting, Robots, Page, Redirect, ChildFails
<1>3. PICK new \in ChildStates : child' = [child EXCEPT ![f] = new]
  <2>1. ASSUME NEW n \in 0..CallBytes, Robots(f, n)
        PROVE  \E new \in ChildStates : child' = [child EXCEPT ![f] = new]
    <3> DEFINE new == [child[f] EXCEPT !.at = "page", !.left = child[f].left - n]
    <3>1. child' = [child EXCEPT ![f] = new] /\ n <= child[f].left
      BY <2>1 DEF Robots
    <3>2. child[f].left \in Nat /\ child[f].left <= CallBytes /\ n \in Nat
      BY <1>1, <2>1 DEF ChildStates
    <3>3. child[f].left - n \in 0..CallBytes
      BY <1>1, <3>1, <3>2
    <3>4. new \in ChildStates
      BY <1>1, <3>3 DEF ChildStates
    <3>5. QED
      BY <3>1, <3>4
  <2>2. ASSUME NEW n \in 0..CallBytes, Page(f, n)
        PROVE  \E new \in ChildStates : child' = [child EXCEPT ![f] = new]
    <3> DEFINE new == [child[f] EXCEPT !.at = "answered", !.left = child[f].left - n]
    <3>1. child' = [child EXCEPT ![f] = new] /\ n <= child[f].left
      BY <2>2 DEF Page
    <3>2. child[f].left \in Nat /\ child[f].left <= CallBytes /\ n \in Nat
      BY <1>1, <2>2 DEF ChildStates
    <3>3. child[f].left - n \in 0..CallBytes
      BY <1>1, <3>1, <3>2
    <3>4. new \in ChildStates
      BY <1>1, <3>3 DEF ChildStates
    <3>5. QED
      BY <3>1, <3>4
  <2>3. ASSUME NEW n \in 0..CallBytes, NEW to \in {"robots", "page"}, Redirect(f, n, to)
        PROVE  \E new \in ChildStates : child' = [child EXCEPT ![f] = new]
    <3> DEFINE new == [at |-> to, left |-> child[f].left - n,
                       redirects |-> child[f].redirects - 1]
    <3>1. child' = [child EXCEPT ![f] = new] /\ n <= child[f].left /\ 0 < child[f].redirects
      BY <2>3 DEF Redirect
    <3>2. new \in ChildStates
      BY <1>1, <2>3, <3>1 DEF ChildStates
    <3>3. QED
      BY <3>1, <3>2
  <2>4. CASE ChildFails(f)
    <3> DEFINE new == [child[f] EXCEPT !.at = "gone"]
    <3>1. child' = [child EXCEPT ![f] = new]
      BY <2>4 DEF ChildFails
    <3>2. new \in ChildStates
      BY <1>1 DEF ChildStates
    <3>3. QED
      BY <3>1, <3>2
  <2>5. QED
    BY <2>1, <2>2, <2>3, <2>4
<1>4. /\ attempt[f].status # "none" /\ attempt[f].status # "collected"
      /\ fetch[f] # "collected" /\ fetch[f] # "idle"
  <2>1. child[f] # NoChild
    BY <1>2 DEF Requesting, NoChild
  <2>2. QED
    BY <1>1, <1>2, <2>1 DEF FetchInv
<1>5. FetchInv(f)'
  BY <1>1, <1>2, <1>4 DEF FetchInv
<1>6. QED
  BY <1>1, <1>2, <1>3, <1>5, FetchGoesOn

LEMMA StopKeeps ==
    ASSUME CollectionInv, NEW f \in Fetches, Stop(f)
    PROVE  CollectionInv'
<1> DEFINE new == [child[f] EXCEPT !.at = "gone"]
<1>1. /\ CollectionTypeOK /\ FetchInv(f) /\ child[f] \in ChildStates /\ fetch[f] = "stop"
      /\ attempt' = attempt /\ child' = [child EXCEPT ![f] = new]
      /\ fetch' = [fetch EXCEPT ![f] = "failed"]
  BY DEF CollectionInv, CollectionTypeOK, Stop, FetchGoes
<1>2. new \in ChildStates /\ new.at = "gone" /\ new.left = child[f].left
  BY <1>1 DEF ChildStates
<1>3. child'[f] = new /\ fetch'[f] = "failed" /\ "failed" \in FetchStates
  BY <1>1 DEF CollectionTypeOK, FetchStates
<1>4. FetchInv(f)'
  BY <1>1, <1>2, <1>3 DEF FetchInv, Requesting
<1> HIDE DEF new
<1>5. QED
  BY <1>1, <1>2, <1>3, <1>4, FetchGoesOn

LEMMA CollectionStill ==
    ASSUME CollectionInv, UNCHANGED fetchVars
    PROVE  CollectionInv'
<1>1. UNCHANGED <<attempt, fetch, child>>
  BY DEF fetchVars
<1>2. Rows' = Rows /\ spent' = spent
  BY <1>1 DEF Rows, spent
<1>3. \A f \in Fetches : FetchInv(f)' = FetchInv(f)
  BY <1>1 DEF FetchInv, Requesting
<1>4. QED
  BY <1>1, <1>2, <1>3 DEF CollectionInv, CollectionTypeOK

LEMMA CollectionInit == Init => CollectionInv
<1> SUFFICES ASSUME Init PROVE CollectionInv
  OBVIOUS
<1>1. /\ attempt = [f \in Fetches |-> NoAttempt] /\ fetch = [f \in Fetches |-> "idle"]
      /\ child = [f \in Fetches |-> NoChild]
      /\ {MaxAttempts, CallBytes, TotalBytes, MaxRedirects} \subseteq Nat
  BY CollectionAssumption DEF Init
<1>2. NoAttempt \in Attempts /\ NoChild \in ChildStates
  BY <1>1 DEF NoAttempt, Attempts, NoChild, ChildStates
<1>3. CollectionTypeOK
  BY <1>1, <1>2 DEF CollectionTypeOK, FetchStates
<1>4. \A f \in Fetches : FetchInv(f)
  BY <1>1 DEF FetchInv, NoAttempt
<1>5. Rows = {}
  BY <1>1 DEF Rows
<1>6. IsFiniteSet({}) /\ Cardinality({}) = 0 /\ Sum(spent, {}) = 0
  BY FS_EmptySet, SumStep
<1>7. QED
  BY <1>1, <1>3, <1>4, <1>5, <1>6 DEF CollectionInv

LEMMA CollectionStep == CollectionInv /\ [Next]_vars => CollectionInv'
<1> SUFFICES ASSUME CollectionInv, [Next]_vars PROVE CollectionInv'
  OBVIOUS
<1>1. ASSUME NEW j \in Jobs, JobStep(j) PROVE CollectionInv'
  BY <1>1, JobLeavesRouter, CollectionStill
<1>2. ASSUME NEW c \in Calls, CallStep(c) PROVE CollectionInv'
  BY <1>2, CallLeavesJobs, CollectionStill
<1>3. ASSUME NEW f \in Fetches, FetchStep(f) PROVE CollectionInv'
  <2>1. CASE ReserveAttempt(f)
    BY <2>1, ReserveAttemptKeeps
  <2>2. CASE Exhausted(f) \/ Answered(f) \/ TimesOut(f) \/ StoreFails(f) \/ FetchDies(f)
    BY <2>2, ProcessKeeps
  <2>3. CASE \/ \E n \in 0..CallBytes :
                  \/ Robots(f, n) \/ Page(f, n)
                  \/ \E to \in {"robots", "page"} : Redirect(f, n, to)
             \/ ChildFails(f)
    BY <2>3, ChildKeeps
  <2>4. CASE Stop(f)
    BY <2>4, StopKeeps
  <2>5. CASE Finish(f)
    BY <2>5, FinishKeeps
  <2>6. QED
    BY <1>3, <2>1, <2>2, <2>3, <2>4, <2>5 DEF FetchStep
<1>4. CASE UNCHANGED vars
  BY <1>4, CollectionStill DEF vars
<1>5. QED
  BY <1>1, <1>2, <1>3, <1>4 DEF Next

LEMMA CollectionGives == CollectionInv => CollectionCovered
<1> SUFFICES ASSUME CollectionInv PROVE CollectionCovered
  OBVIOUS
<1>1. ASSUME NEW f \in Fetches PROVE CallBytes - child[f].left <= attempt[f].bytes
  <2>1. /\ FetchInv(f) /\ attempt[f] \in Attempts /\ child[f].left \in 0..CallBytes
        /\ CallBytes \in Nat
    BY CollectionAssumption DEF CollectionInv, CollectionTypeOK, ChildStates
  <2>2. CASE attempt[f].status = "none"
    BY <2>1, <2>2 DEF FetchInv, NoAttempt, NoChild
  <2>3. CASE attempt[f].status # "none"
    BY <2>1, <2>3 DEF FetchInv, Attempts
  <2>4. QED
    BY <2>2, <2>3
<1>2. QED
  BY <1>1, ChargedIsSum DEF CollectionCovered, CollectionInv

\* Whatever happens to the processes, the budget file covers every request made, and
\* its rows keep to both limits.
THEOREM CollectionSafe == Spec => []CollectionCovered
BY CollectionInit, CollectionStep, CollectionGives, PTL DEF Spec

(***************************************************************************)
(* The sealed test gate.  It shares the registry with the jobs, which      *)
(* publish their candidates there, and implements OneShot for any          *)
(* candidates, configurations and evaluators.                              *)
(*                                                                         *)
(* What makes it one shot is that the inserted row makes its evaluator the *)
(* only one that is ever past the insertion (Sole): the row stays when the *)
(* evaluator leaves or dies.  That it scores a validated candidate needs   *)
(* the registry: copies may be old, but the event of a validation stays.   *)
(***************************************************************************)

\* Past the insertion of its row.
Inside(e) == eval[e].at \in {"lock", "score", "complete", "fail"}

Fit == {c \in Candidates : \E v \in events :
          v.candidate = c /\ v.to = "validated" /\ v.actor = Validator}

\* An evaluator in run() holds a configuration and a candidate, and what it holds as
\* validated was validated.
HoldsInv ==
    \A e \in Evaluators : eval[e].at # "idle" =>
        /\ eval[e].config \in Configs /\ eval[e].candidate \in Candidates
        /\ eval[e].copy \in {"validated", "accepted"} => eval[e].candidate \in Fit

RegistryInv == \A c \in Candidates : status[c] \in {"validated", "accepted"} => c \in Fit

\* Whoever is past the insertion is there alone, and its row is there.
Sole ==
    /\ \A e \in Evaluators : Inside(e) => row[Held(e)].status # "none"
    /\ \A e, f \in Evaluators : Inside(e) /\ Inside(f) /\ Held(e) = Held(f) => e = f

\* A holdout is scored once, after the row was inserted and by who is admitted, and a
\* completed one has been scored.
ScoredInv ==
    /\ \A h \in Holdouts :
         /\ Len(scored[h]) <= 1
         /\ row[h] = NoRow => scored[h] = <<>>
         /\ row[h].status = "completed" => Len(scored[h]) = 1
    /\ \A e \in Evaluators :
         /\ eval[e].at \in {"lock", "score"} => scored[Held(e)] = <<>>
         /\ eval[e].at = "score" => Admitted(e)
         /\ eval[e].at = "complete" => Len(scored[Held(e)]) = 1

GateInv == GateTypeOK /\ HoldsInv /\ RegistryInv /\ Sole /\ ScoredInv
-----------------------------------------------------------------------------
LEMMA GateInitInv == GateInit => GateInv
<1> SUFFICES ASSUME GateInit PROVE GateInv
  OBVIOUS
<1> USE DEF GateInit, RegistryInit, Idle, NoRow
<1>1. GateTypeOK
  BY DEF GateTypeOK, RegistryTypeOK, Events, Statuses
<1>2. HoldsInv /\ RegistryInv /\ Sole
  BY DEF HoldsInv, RegistryInv, Sole, Inside
<1>3. ScoredInv
  <2>1. ASSUME NEW h \in Holdouts
        PROVE  scored[h] = <<>> /\ row[h].status = "none" /\ Len(scored[h]) = 0
    OBVIOUS
  <2>2. ASSUME NEW e \in Evaluators
        PROVE  eval[e].at = "idle"
    OBVIOUS
  <2> QED
    BY <2>1, <2>2 DEF ScoredInv
<1> QED
  BY <1>1, <1>2, <1>3 DEF GateInv

LEMMA HeldHoldout ==
    ASSUME HoldsInv, NEW e \in Evaluators, eval[e].at # "idle"
    PROVE  Held(e) \in Holdouts
  BY DEF HoldsInv, Held, Holdouts

Places == {"idle", "insert", "lock", "score", "complete", "fail"}
Runs == [at: Places, config: Configs \cup {None}, candidate: Candidates \cup {None},
         copy: Statuses \cup {"none"}, match: BOOLEAN]
GateRows == [status: {"none", "started", "failed", "completed"},
         config: Configs \cup {None}, candidate: Candidates \cup {None}]

LEMMA MovesTyped ==
    ASSUME eval \in [Evaluators -> Runs], NEW e \in Evaluators, NEW at \in Places, Moves(e, at)
    PROVE  eval' \in [Evaluators -> Runs]
  BY DEF Moves, Runs

LEMMA LeaveTyped ==
    ASSUME eval \in [Evaluators -> Runs], NEW e \in Evaluators, Leave(e)
    PROVE  eval' \in [Evaluators -> Runs]
  BY DEF Leave, Runs, Idle, Places

LEMMA RegistryKeeps ==
    ASSUME GateInv, RegistryStep
    PROVE  GateInv'
<1>1. /\ status' \in [Candidates -> Statuses \cup {"none"}]
      /\ events \subseteq events'
      /\ events' \subseteq Events
      /\ RegistryInv'
  <2>1. CASE \E batch \in SUBSET Candidates : RegisterBatch(batch)
    BY <2>1
      DEF GateInv, GateTypeOK, RegistryTypeOK, RegisterBatch, Event, Events, Statuses,
          RegistryInv, Fit
  <2>2. CASE \E c \in Candidates, to \in Statuses, actor \in Actors : Transition(c, to, actor)
    <3>1. PICK c \in Candidates, to \in Statuses, actor \in Actors : Transition(c, to, actor)
      BY <2>2
    <3>2. /\ status' = [status EXCEPT ![c] = to]
          /\ events' = events \cup {Event(c, status[c], to, actor)}
          /\ to = "validated" => actor = Validator
          /\ to = "accepted" => status[c] = "validated"
      BY <3>1 DEF Transition, Allowed
    <3>3. Event(c, status[c], to, actor) \in Events
      BY <3>1 DEF Transition, Allowed, Event, Events, Statuses
    <3>4. /\ status' \in [Candidates -> Statuses \cup {"none"}]
          /\ events \subseteq events' /\ events' \subseteq Events
          /\ Fit \subseteq Fit' /\ (to = "validated" => c \in Fit')
      BY <3>2, <3>3 DEF GateInv, GateTypeOK, RegistryTypeOK, Event, Fit
    <3>5. RegistryInv'
      BY <3>2, <3>4 DEF GateInv, GateTypeOK, RegistryTypeOK, RegistryInv
    <3> QED
      BY <3>4, <3>5
  <2> QED
    BY <2>1, <2>2 DEF RegistryStep
<1>2. UNCHANGED <<row, eval, scored>> /\ Fit \subseteq Fit'
  BY <1>1 DEF RegistryStep, Fit
<1>3. GateTypeOK' /\ HoldsInv'
  BY <1>1, <1>2 DEF GateInv, GateTypeOK, RegistryTypeOK, HoldsInv
<1>4. Sole' /\ ScoredInv'
  BY <1>2 DEF GateInv, Sole, ScoredInv, Inside, Held, Admitted
<1> QED
  BY <1>1, <1>3, <1>4 DEF GateInv
LEMMA InsertKeeps ==
    ASSUME GateInv, NEW e \in Evaluators, Insert(e)
    PROVE  GateInv'
<1> USE DEF Insert
<1>1. GateTypeOK'
  <2>1. eval \in [Evaluators -> Runs] /\ row \in [Holdouts -> GateRows]
    BY DEF GateInv, GateTypeOK, Runs, Places, GateRows
  <2>2. eval' \in [Evaluators -> Runs]
    BY <2>1, MovesTyped DEF Places
  <2>3. row' \in [Holdouts -> GateRows]
    BY <2>1, HeldHoldout DEF GateInv, HoldsInv, GateRows
  <2> QED
    BY <2>2, <2>3 DEF GateInv, GateTypeOK, RegistryTypeOK, Runs, Places, GateRows
<1>2. HoldsInv' /\ RegistryInv'
  BY DEF Moves, GateInv, GateTypeOK, HoldsInv, RegistryInv, Fit, Idle
<1>3. Sole'
  BY HeldHoldout DEF Moves, GateInv, GateTypeOK, HoldsInv, Sole, Inside, Held, Idle, NoRow
<1>4. ScoredInv'
  BY HeldHoldout
    DEF Moves, GateInv, GateTypeOK, HoldsInv, Sole, Inside, ScoredInv, Held, Admitted, Idle, NoRow
<1> QED
  BY <1>1, <1>2, <1>3, <1>4 DEF GateInv

LEMMA ConsumedKeeps ==
    ASSUME GateInv, NEW e \in Evaluators, Consumed(e)
    PROVE  GateInv'
<1> USE DEF Consumed
<1>1. GateTypeOK'
  <2>1. eval \in [Evaluators -> Runs] /\ row \in [Holdouts -> GateRows]
    BY DEF GateInv, GateTypeOK, Runs, Places, GateRows
  <2>2. eval' \in [Evaluators -> Runs]
    BY <2>1, LeaveTyped
  <2>3. row' \in [Holdouts -> GateRows]
    BY <2>1
  <2> QED
    BY <2>2, <2>3 DEF GateInv, GateTypeOK, RegistryTypeOK, Runs, Places, GateRows
<1>2. HoldsInv' /\ RegistryInv'
  BY DEF Leave, GateInv, GateTypeOK, HoldsInv, RegistryInv, Fit, Idle
<1>3. Sole'
  BY HeldHoldout DEF Leave, GateInv, GateTypeOK, HoldsInv, Sole, Inside, Held, Idle, NoRow
<1>4. ScoredInv'
  BY HeldHoldout
    DEF Leave, GateInv, GateTypeOK, HoldsInv, Sole, Inside, ScoredInv, Held, Admitted, Idle, NoRow
<1> QED
  BY <1>1, <1>2, <1>3, <1>4 DEF GateInv

LEMMA LockKeeps ==
    ASSUME GateInv, NEW e \in Evaluators, Lock(e)
    PROVE  GateInv'
<1> USE DEF Lock, Moves
<1> DEFINE at == IF Admitted(e) THEN "score" ELSE "fail"
<1>a. /\ Held(e) \in Holdouts /\ eval[e].candidate \in Candidates
      /\ at \in {"score", "fail"}
      /\ eval' = [eval EXCEPT ![e].at = at]
  BY HeldHoldout DEF GateInv, HoldsInv
<1> DEFINE new == [row[Held(e)] EXCEPT !.candidate = eval[e].candidate]
<1>n. /\ new \in GateRows /\ new.status = row[Held(e)].status
      /\ row' = [row EXCEPT ![Held(e)] = new]
  <2>1. row[Held(e)] \in GateRows
    BY <1>a DEF GateInv, GateTypeOK, GateRows
  <2>2. new \in GateRows /\ new.status = row[Held(e)].status
    BY <1>a, <2>1 DEF GateRows
  <2> QED
    BY <2>2
<1>b. /\ row' \in [Holdouts -> GateRows]
      /\ \A h \in Holdouts : row'[h].status = row[h].status
      /\ \A h \in Holdouts \ {Held(e)} : row'[h] = row[h]
  <2> HIDE DEF new
  <2>1. row \in [Holdouts -> GateRows]
    BY DEF GateInv, GateTypeOK, GateRows
  <2> QED
    BY <1>a, <1>n, <2>1
<1>1. GateTypeOK'
  <2> HIDE DEF at
  <2>1. eval \in [Evaluators -> Runs]
    BY DEF GateInv, GateTypeOK, Runs, Places
  <2>2. eval' \in [Evaluators -> Runs]
    BY <1>a, <2>1, MovesTyped DEF Places, Moves
  <2> QED
    BY <1>b, <2>2 DEF GateInv, GateTypeOK, RegistryTypeOK, Runs, Places, GateRows
<1>2. HoldsInv' /\ RegistryInv'
  BY DEF GateInv, GateTypeOK, HoldsInv, RegistryInv, Fit, Idle
<1>c. /\ \A f \in Evaluators \ {e} : eval'[f] = eval[f]
      /\ eval'[e].at = at
      /\ \A f \in Evaluators : /\ Held(f)' = Held(f)
                               /\ Inside(f)' <=> Inside(f)
                               /\ Admitted(f)' <=> Admitted(f)
  BY <1>a DEF GateInv, GateTypeOK, Held, Inside, Admitted
<1>d. \A f \in Evaluators : Inside(f) => Held(f) \in Holdouts
  BY HeldHoldout DEF GateInv, Inside
<1>3. Sole'
  BY <1>b, <1>c, <1>d DEF GateInv, Sole
<1>4. ScoredInv'
  <2>1. \A h \in Holdouts :
          /\ Len(scored'[h]) <= 1
          /\ row'[h] = NoRow => scored'[h] = <<>>
          /\ row'[h].status = "completed" => Len(scored'[h]) = 1
    <3>1. row[Held(e)].status # "none"
      BY DEF GateInv, Sole, Inside
    <3>2. row'[Held(e)] # NoRow
      BY <3>1, <1>a, <1>b DEF NoRow
    <3> QED
      BY <3>2, <1>a, <1>b DEF GateInv, ScoredInv
  <2>2. \A f \in Evaluators :
          /\ eval'[f].at \in {"lock", "score"} => scored'[Held(f)'] = <<>>
          /\ eval'[f].at = "score" => Admitted(f)'
          /\ eval'[f].at = "complete" => Len(scored'[Held(f)']) = 1
    BY <1>a, <1>c DEF GateInv, ScoredInv
  <2> QED
    BY <2>1, <2>2 DEF ScoredInv
<1> QED
  BY <1>1, <1>2, <1>3, <1>4 DEF GateInv

LEMMA ScoreKeeps ==
    ASSUME GateInv, NEW e \in Evaluators, NEW good \in BOOLEAN, Score(e, good)
    PROVE  GateInv'
<1> USE DEF Score
<1>a. Held(e) \in Holdouts /\ eval[e].candidate \in Candidates
  BY HeldHoldout DEF GateInv, HoldsInv
<1>b. Append(scored[Held(e)], eval[e].candidate) \in Seq(Candidates)
  BY <1>a DEF GateInv, GateTypeOK
<1>1. GateTypeOK'
  <2>1. eval \in [Evaluators -> Runs] /\ (IF good THEN "complete" ELSE "fail") \in Places
    BY DEF GateInv, GateTypeOK, Runs, Places
  <2>2. eval' \in [Evaluators -> Runs]
    BY <2>1, MovesTyped
  <2> QED
    BY <1>a, <1>b, <2>2 DEF GateInv, GateTypeOK, RegistryTypeOK, Runs, Places
<1>2. HoldsInv' /\ RegistryInv'
  BY DEF Moves, GateInv, GateTypeOK, HoldsInv, RegistryInv, Fit, Idle
<1>3. Sole'
  BY HeldHoldout DEF Moves, GateInv, GateTypeOK, HoldsInv, Sole, Inside, Held, Idle, NoRow
<1>4. ScoredInv'
  BY HeldHoldout
    DEF Moves, GateInv, GateTypeOK, HoldsInv, Sole, Inside, ScoredInv, Held, Admitted, Idle, NoRow
<1> QED
  BY <1>1, <1>2, <1>3, <1>4 DEF GateInv

LEMMA CompleteKeeps ==
    ASSUME GateInv, NEW e \in Evaluators, Complete(e)
    PROVE  GateInv'
<1> USE DEF Complete
<1>1. GateTypeOK'
  <2>1. eval \in [Evaluators -> Runs] /\ row \in [Holdouts -> GateRows]
    BY DEF GateInv, GateTypeOK, Runs, Places, GateRows
  <2>2. eval' \in [Evaluators -> Runs]
    BY <2>1, LeaveTyped
  <2>3. row' \in [Holdouts -> GateRows]
    BY <2>1, HeldHoldout DEF GateInv, GateRows
  <2> QED
    BY <2>2, <2>3 DEF GateInv, GateTypeOK, RegistryTypeOK, Runs, Places, GateRows
<1>2. HoldsInv' /\ RegistryInv'
  BY DEF Leave, GateInv, GateTypeOK, HoldsInv, RegistryInv, Fit, Idle
<1>3. Sole'
  BY HeldHoldout DEF Leave, GateInv, GateTypeOK, HoldsInv, Sole, Inside, Held, Idle, NoRow
<1>4. ScoredInv'
  BY HeldHoldout
    DEF Leave, GateInv, GateTypeOK, HoldsInv, Sole, Inside, ScoredInv, Held, Admitted, Idle, NoRow
<1> QED
  BY <1>1, <1>2, <1>3, <1>4 DEF GateInv

LEMMA RaisesKeeps ==
    ASSUME GateInv, NEW e \in Evaluators, Raises(e)
    PROVE  GateInv'
<1> USE DEF Raises
<1>1. GateTypeOK'
  <2>1. eval \in [Evaluators -> Runs] /\ row \in [Holdouts -> GateRows]
    BY DEF GateInv, GateTypeOK, Runs, Places, GateRows
  <2>2. eval' \in [Evaluators -> Runs]
    BY <2>1, MovesTyped DEF Places
  <2>3. row' \in [Holdouts -> GateRows]
    BY <2>1
  <2> QED
    BY <2>2, <2>3 DEF GateInv, GateTypeOK, RegistryTypeOK, Runs, Places, GateRows
<1>2. HoldsInv' /\ RegistryInv'
  BY DEF Moves, GateInv, GateTypeOK, HoldsInv, RegistryInv, Fit, Idle
<1>3. Sole'
  BY HeldHoldout DEF Moves, GateInv, GateTypeOK, HoldsInv, Sole, Inside, Held, Idle, NoRow
<1>4. ScoredInv'
  BY HeldHoldout
    DEF Moves, GateInv, GateTypeOK, HoldsInv, Sole, Inside, ScoredInv, Held, Admitted, Idle, NoRow
<1> QED
  BY <1>1, <1>2, <1>3, <1>4 DEF GateInv

LEMMA GateFailKeeps ==
    ASSUME GateInv, NEW e \in Evaluators, NEW written \in BOOLEAN, Fail(e, written)
    PROVE  GateInv'
<1> USE DEF Fail
<1>1. GateTypeOK'
  <2>1. eval \in [Evaluators -> Runs] /\ row \in [Holdouts -> GateRows]
    BY DEF GateInv, GateTypeOK, Runs, Places, GateRows
  <2>2. eval' \in [Evaluators -> Runs]
    BY <2>1, LeaveTyped
  <2>3. row' \in [Holdouts -> GateRows]
    BY <2>1, HeldHoldout DEF GateInv, GateRows
  <2> QED
    BY <2>2, <2>3 DEF GateInv, GateTypeOK, RegistryTypeOK, Runs, Places, GateRows
<1>2. HoldsInv' /\ RegistryInv'
  BY DEF Leave, GateInv, GateTypeOK, HoldsInv, RegistryInv, Fit, Idle
<1>3. Sole'
  BY HeldHoldout DEF Leave, GateInv, GateTypeOK, HoldsInv, Sole, Inside, Held, Idle, NoRow
<1>4. ScoredInv'
  BY HeldHoldout
    DEF Leave, GateInv, GateTypeOK, HoldsInv, Sole, Inside, ScoredInv, Held, Admitted, Idle, NoRow
<1> QED
  BY <1>1, <1>2, <1>3, <1>4 DEF GateInv

LEMMA DiesKeeps ==
    ASSUME GateInv, NEW e \in Evaluators, Dies(e)
    PROVE  GateInv'
<1> USE DEF Dies
<1>1. GateTypeOK'
  <2>1. eval \in [Evaluators -> Runs] /\ row \in [Holdouts -> GateRows]
    BY DEF GateInv, GateTypeOK, Runs, Places, GateRows
  <2>2. eval' \in [Evaluators -> Runs]
    BY <2>1, LeaveTyped
  <2>3. row' \in [Holdouts -> GateRows]
    BY <2>1
  <2> QED
    BY <2>2, <2>3 DEF GateInv, GateTypeOK, RegistryTypeOK, Runs, Places, GateRows
<1>2. HoldsInv' /\ RegistryInv'
  BY DEF Leave, GateInv, GateTypeOK, HoldsInv, RegistryInv, Fit, Idle
<1>3. Sole'
  BY HeldHoldout DEF Leave, GateInv, GateTypeOK, HoldsInv, Sole, Inside, Held, Idle, NoRow
<1>4. ScoredInv'
  BY HeldHoldout
    DEF Leave, GateInv, GateTypeOK, HoldsInv, Sole, Inside, ScoredInv, Held, Admitted, Idle, NoRow
<1> QED
  BY <1>1, <1>2, <1>3, <1>4 DEF GateInv

LEMMA CallKeeps ==
    ASSUME GateInv, NEW e \in Evaluators, NEW config \in Configs, NEW c \in Candidates,
           NEW match \in BOOLEAN, Call(e, config, c, match)
    PROVE  GateInv'
<1> USE DEF Call
<1>1. GateTypeOK'
  BY HeldHoldout DEF GateInv, GateTypeOK, RegistryTypeOK, HoldsInv, Idle
<1>2. HoldsInv' /\ RegistryInv'
  BY DEF GateInv, GateTypeOK, HoldsInv, RegistryInv, Fit, Idle
<1>3. Sole'
  BY HeldHoldout DEF GateInv, GateTypeOK, HoldsInv, Sole, Inside, Held, Idle, NoRow
<1>4. ScoredInv'
  BY HeldHoldout
    DEF GateInv, GateTypeOK, HoldsInv, Sole, Inside, ScoredInv, Held, Admitted, Idle, NoRow
<1> QED
  BY <1>1, <1>2, <1>3, <1>4 DEF GateInv

\* The invariant is inductive.
LEMMA GateStepInv == GateInv /\ [GateNext]_gateVars => GateInv'
<1> SUFFICES ASSUME GateInv, [GateNext]_gateVars PROVE GateInv'
  OBVIOUS
<1>1. CASE RegistryStep
  BY <1>1, RegistryKeeps
<1>2. CASE \E e \in Evaluators : GateStep(e)
  BY <1>2, CallKeeps, InsertKeeps, ConsumedKeeps, LockKeeps, ScoreKeeps, CompleteKeeps, RaisesKeeps,
     GateFailKeeps, DiesKeeps DEF GateStep
<1>3. CASE UNCHANGED gateVars
  BY <1>3
    DEF gateVars, GateInv, GateTypeOK, RegistryTypeOK, HoldsInv, RegistryInv, Fit, Sole, Inside,
        Held, ScoredInv, Admitted
<1> QED
  BY <1>1, <1>2, <1>3 DEF GateNext

\* Every variable of the registry and of the gate keeps its type.
THEOREM GateTypeCorrect == GateSpec => []GateTypeOK
<1>1. GateInv => GateTypeOK
  BY DEF GateInv
<1> QED
  BY <1>1, GateInitInv, GateStepInv, PTL DEF GateSpec

-----------------------------------------------------------------------------
(* The refinement, one holdout at a time. *)

By(h) == IF scored[h] = <<>> THEN None ELSE scored[h][1]

\* What a step may do to one holdout, in the words of OneShot.
Maps(h) ==
    \/ UseOf(h)' = UseOf(h) /\ By(h)' = By(h)
    \/ UseOf(h) = "unused" /\ UseOf(h)' = "taken" /\ By(h)' = By(h)
    \/ UseOf(h) = "taken" /\ UseOf(h)' = "tried" /\ By(h)' \in Fit
    \/ UseOf(h) = "tried" /\ UseOf(h)' = "reported" /\ By(h)' = By(h)

LEMMA UseOfValues ==
    ASSUME NEW h \in Holdouts
    PROVE  /\ row[h] = NoRow => UseOf(h) = "unused"
           /\ row[h] # NoRow /\ Len(scored[h]) = 0 => UseOf(h) = "taken"
           /\ row[h] # NoRow /\ Len(scored[h]) = 1 =>
                /\ row[h].status = "completed" => UseOf(h) = "reported"
                /\ row[h].status # "completed" => UseOf(h) = "tried"
<1>1. CASE row[h] = NoRow
  BY <1>1 DEF UseOf
<1>2. CASE row[h] # NoRow /\ Len(scored[h]) = 0
  BY <1>2 DEF UseOf
<1>3. CASE row[h] # NoRow /\ Len(scored[h]) = 1
  BY <1>3 DEF UseOf
<1> QED
  BY <1>1, <1>2, <1>3

LEMMA UseOfValuesNext ==
    ASSUME NEW h \in Holdouts
    PROVE  /\ row'[h] = NoRow => UseOf(h)' = "unused"
           /\ row'[h] # NoRow /\ Len(scored'[h]) = 0 => UseOf(h)' = "taken"
           /\ row'[h] # NoRow /\ Len(scored'[h]) = 1 =>
                /\ row'[h].status = "completed" => UseOf(h)' = "reported"
                /\ row'[h].status # "completed" => UseOf(h)' = "tried"
<1>1. CASE row'[h] = NoRow
  BY <1>1 DEF UseOf
<1>2. CASE row'[h] # NoRow /\ Len(scored'[h]) = 0
  BY <1>2 DEF UseOf
<1>3. CASE row'[h] # NoRow /\ Len(scored'[h]) = 1
  BY <1>3 DEF UseOf
<1> QED
  BY <1>1, <1>2, <1>3

LEMMA SameMaps ==
    ASSUME NEW h \in Holdouts, row'[h] = row[h], scored'[h] = scored[h]
    PROVE  Maps(h)
  BY DEF Maps, UseOf, By

LEMMA InsertMaps ==
    ASSUME GateInv, NEW e \in Evaluators, Insert(e), NEW h \in Holdouts
    PROVE  Maps(h)
<1>1. Held(e) \in Holdouts /\ row[Held(e)] = NoRow /\ scored[Held(e)] = <<>>
  BY HeldHoldout DEF GateInv, Insert, ScoredInv
<1>2. scored' = scored /\ row'[Held(e)] # NoRow /\ (h # Held(e) => row'[h] = row[h])
  BY <1>1 DEF GateInv, GateTypeOK, Insert, NoRow
<1>3. CASE h = Held(e)
  BY <1>1, <1>2, <1>3, UseOfValues, UseOfValuesNext DEF Maps, By
<1>4. CASE h # Held(e)
  BY <1>1, <1>2, <1>4, SameMaps
<1> QED
  BY <1>3, <1>4

LEMMA LockMaps ==
    ASSUME GateInv, NEW e \in Evaluators, Lock(e), NEW h \in Holdouts
    PROVE  Maps(h)
<1>1. Held(e) \in Holdouts /\ row[Held(e)].status # "none"
  BY HeldHoldout DEF GateInv, Lock, Sole, Inside
<1>2. scored' = scored /\ row'[h].status = row[h].status /\ (h # Held(e) => row'[h] = row[h])
  BY <1>1 DEF GateInv, GateTypeOK, Lock
<1>3. row[Held(e)] # NoRow /\ (h = Held(e) => row'[h] # NoRow)
  BY <1>1, <1>2 DEF NoRow
<1> QED
  BY <1>2, <1>3 DEF Maps, UseOf, By

LEMMA ScoreMaps ==
    ASSUME GateInv, NEW e \in Evaluators, NEW good \in BOOLEAN, Score(e, good), NEW h \in Holdouts
    PROVE  Maps(h)
<1>1. /\ Held(e) \in Holdouts /\ row[Held(e)].status # "none"
      /\ scored[Held(e)] = <<>> /\ row[Held(e)].status # "completed"
  BY HeldHoldout DEF GateInv, Score, Sole, Inside, ScoredInv
<1>2. eval[e].candidate \in Fit
  BY DEF GateInv, Score, ScoredInv, Admitted, HoldsInv
<1>3. /\ row' = row
      /\ h # Held(e) => scored'[h] = scored[h]
      /\ scored'[Held(e)] = Append(<<>>, eval[e].candidate)
  BY <1>1 DEF GateInv, GateTypeOK, Score
<1>4. /\ Len(scored'[Held(e)]) = 1 /\ scored'[Held(e)][1] = eval[e].candidate
      /\ scored'[Held(e)] # <<>>
  BY <1>3
<1>5. row[Held(e)] # NoRow
  BY <1>1 DEF NoRow
<1>6. CASE h = Held(e)
  BY <1>1, <1>2, <1>3, <1>4, <1>5, <1>6, UseOfValues, UseOfValuesNext DEF Maps, By
<1>7. CASE h # Held(e)
  BY <1>1, <1>2, <1>3, <1>4, <1>5, <1>7, SameMaps
<1> QED
  BY <1>6, <1>7

LEMMA CompleteMaps ==
    ASSUME GateInv, NEW e \in Evaluators, Complete(e), NEW h \in Holdouts
    PROVE  Maps(h)
<1>1. /\ Held(e) \in Holdouts /\ row[Held(e)].status = "started"
      /\ Len(scored[Held(e)]) = 1
  BY HeldHoldout DEF GateInv, Complete, Mine, ScoredInv
<1>2. /\ scored' = scored /\ row'[Held(e)].status = "completed"
      /\ h # Held(e) => row'[h] = row[h]
  BY <1>1 DEF GateInv, GateTypeOK, Complete
<1>3. row[Held(e)] # NoRow /\ row'[Held(e)] # NoRow
  BY <1>1, <1>2 DEF NoRow
<1>4. CASE h = Held(e)
  BY <1>1, <1>2, <1>3, <1>4, UseOfValues, UseOfValuesNext DEF Maps, By
<1>5. CASE h # Held(e)
  BY <1>1, <1>2, <1>3, <1>5, SameMaps
<1> QED
  BY <1>4, <1>5

LEMMA FailMaps ==
    ASSUME GateInv, NEW e \in Evaluators, NEW written \in BOOLEAN,
           Fail(e, written), NEW h \in Holdouts
    PROVE  Maps(h)
<1>1. CASE row' = row
  BY <1>1, SameMaps DEF Fail
<1>2. CASE row' # row
  <2>1. Held(e) \in Holdouts /\ row[Held(e)].status = "started"
    BY <1>2, HeldHoldout DEF GateInv, Fail
  <2>2. /\ scored' = scored /\ row'[Held(e)].status = "failed"
        /\ h # Held(e) => row'[h] = row[h]
    BY <1>2, <2>1 DEF GateInv, GateTypeOK, Fail
  <2>3. row[Held(e)] # NoRow /\ row'[Held(e)] # NoRow
    BY <2>1, <2>2 DEF NoRow
  <2> QED
    BY <2>1, <2>2, <2>3 DEF Maps, UseOf, By
<1> QED
  BY <1>1, <1>2

\* A step of the gate is a step of OneShot, or none.
LEMMA StepMaps ==
    ASSUME GateInv, [GateNext]_gateVars
    PROVE  /\ Fit \subseteq Fit'
           /\ \A h \in Holdouts : Maps(h)
<1>1. CASE RegistryStep
  <2>1. events \subseteq events'
    BY <1>1 DEF RegistryStep, RegisterBatch, Transition
  <2> QED
    BY <1>1, <2>1, SameMaps DEF RegistryStep, Fit
<1>2. ASSUME NEW e \in Evaluators, GateStep(e)
      PROVE  Fit \subseteq Fit' /\ \A h \in Holdouts : Maps(h)
  <2>1. CASE UNCHANGED <<row, scored, events>>
    BY <2>1, SameMaps DEF Fit
  <2>2. \/ UNCHANGED <<row, scored, events>>
        \/ Insert(e) \/ Lock(e) \/ Complete(e)
        \/ \E good \in BOOLEAN : Score(e, good)
        \/ \E written \in BOOLEAN : Fail(e, written)
    BY <1>2 DEF GateStep, Call, Consumed, Raises, Dies
  <2>3. events' = events
    BY <2>2 DEF Insert, Lock, Complete, Score, Fail
  <2> QED
    BY <2>1, <2>2, <2>3, InsertMaps, LockMaps, CompleteMaps, ScoreMaps, FailMaps DEF Fit
<1>3. CASE UNCHANGED gateVars
  BY <1>3, SameMaps DEF gateVars, Fit
<1> QED
  BY <1>1, <1>2, <1>3 DEF GateNext

\* Whatever evaluators race for a holdout, with whichever candidates and policies, and
\* wherever they die, it is scored at most once, and with a validated candidate: the
\* gate of evaluation.py implements OneShot.
THEOREM GateImplementsOneShot == GateSpec => ImplementsOneShot
<1>1. GateInit => Gate!Init
  BY DEF GateInit, RegistryInit, Gate!Init, UseOf
<1>2. GateInv /\ [GateNext]_gateVars => [Gate!Next]_(Gate!vars)
  <2> SUFFICES ASSUME GateInv, [GateNext]_gateVars PROVE Gate!Next
    OBVIOUS
  <2>1. Fit \subseteq Fit' /\ \A h \in Holdouts : Maps(h)
    BY StepMaps
  <2>2. ASSUME NEW h \in Holdouts PROVE Gate!Step(h)
    BY <2>1, <2>2 DEF Gate!Step, Gate!Moves, Maps, By, Fit
  <2> QED
    BY <2>1, <2>2 DEF Gate!Next, Fit
<1> QED
  BY <1>1, <1>2, GateInitInv, GateStepInv, PTL DEF GateSpec, ImplementsOneShot, Gate!Spec
=============================================================================
