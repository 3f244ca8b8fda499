-------------------------- MODULE TrialQueueProofs --------------------------
(***************************************************************************)
(* Theorems about TrialQueue, for every value of its constants.            *)
(***************************************************************************)
EXTENDS TrialQueue, SequenceTheorems, TLAPS

LEMMA RecordType ==
    ASSUME NEW kind \in Kinds, NEW about \in Specs \cup EventKeys \cup {None},
           NEW attempt \in Nat, NEW state \in States
    PROVE  Record(kind, about, attempt, state) \in Entry
  BY DEF Record, Entry

LEMMA LogAppendType ==
    ASSUME TypeOK, NEW r \in Runs, NEW entry \in Entry, LogAppend(r, entry)
    PROVE  log' \in [Runs -> Seq(Entry)]
<1>1. Append(log[r], entry) \in Seq(Entry)
  BY DEF TypeOK
<1>2. QED
  BY <1>1 DEF TypeOK, LogAppend

\* What the updates of a queue row leave is a queue row.
LEMMA ReservedRow ==
    ASSUME NEW attempts \in Nat
    PROVE  [NoRow EXCEPT !.state = "pending", !.max_attempts = attempts] \in Row
<1>1. NoRow \in Row
  BY DEF NoRow, Row, States
<1>2. "pending" \in States
  BY DEF States
<1>3. QED
  BY <1>1, <1>2, Zenon DEF Row

LEMMA ClaimedRow ==
    ASSUME NEW q \in Row, NEW w \in Workers, NEW attempt \in Nat, NEW lease \in Nat
    PROVE  [q EXCEPT !.state = "running", !.attempts = attempt,
                     !.owner = w, !.token = attempt, !.left = lease] \in Row
<1>1. "running" \in States
  BY DEF States
<1>2. QED
  BY <1>1, Zenon DEF Row

LEMMA RenewedRow ==
    ASSUME NEW q \in Row, NEW left \in Nat
    PROVE  [q EXCEPT !.left = left] \in Row
  BY Zenon DEF Row

LEMMA CompletedRow ==
    ASSUME NEW q \in Row, NEW res \in Results
    PROVE  [q EXCEPT !.state = "completed", !.result = res, !.left = 0] \in Row
<1>1. "completed" \in States
  BY DEF States
<1>2. QED
  BY <1>1, Zenon DEF Row

LEMMA ReleasedRow ==
    ASSUME NEW q \in Row, NEW state \in States, NEW delay \in Nat
    PROVE  [q EXCEPT !.state = state, !.available = delay,
                     !.owner = None, !.token = 0, !.left = 0] \in Row
  BY Zenon DEF Row

LEMMA TickedRow ==
    ASSUME NEW q \in Row, NEW left \in Nat, NEW available \in Nat
    PROVE  [q EXCEPT !.left = left, !.available = available] \in Row
  BY Zenon DEF Row

LEMMA ReleasedType ==
    ASSUME TypeOK, NEW t \in Trials, NEW delay \in Nat
    PROVE  Released(t, delay) \in Row
<1>1. queue[t] \in Row /\ AfterAttempt(t) \in States
  BY DEF TypeOK, AfterAttempt, States
<1>2. QED
  BY <1>1, ReleasedRow DEF Released

\* Every action keeps every variable in its set: the typing half of all the
\* other theorems.
LEMMA TypeStep == TypeOK /\ [Next]_vars => TypeOK'
<1> SUFFICES ASSUME TypeOK, [Next]_vars PROVE TypeOK'
  OBVIOUS
<1> USE BudgetsAssumption, TimeAssumption
<1>1. ASSUME NEW r \in Runs, NEW b \in Budgets, CreateRun(r, b) PROVE TypeOK'
  <2>1. Record("run_created", None, 0, "none") \in Entry
    BY RecordType DEF Kinds, States
  <2>2. log' \in [Runs -> Seq(Entry)]
    BY <1>1, <2>1, LogAppendType DEF CreateRun
  <2>3. QED
    BY <1>1, <2>2 DEF CreateRun, TypeOK
<1>2. ASSUME NEW r \in Runs, NEW s \in Specs, ReserveTrial(r, s) PROVE TypeOK'
  <2>1. /\ Record("candidate_registered", s, 0, "none") \in Entry
        /\ Record("trial_reserved", s, 0, "pending") \in Entry
    BY RecordType DEF Kinds, States
  <2>2. log[r] \o <<Record("candidate_registered", s, 0, "none"),
                    Record("trial_reserved", s, 0, "pending")>> \in Seq(Entry)
    BY <2>1 DEF TypeOK
  <2>3. log' \in [Runs -> Seq(Entry)]
    BY <1>2, <2>2 DEF ReserveTrial, TypeOK
  <2>4. [NoRow EXCEPT !.state = "pending", !.max_attempts = runs[r].attempts] \in Row
    <3>1. runs[r] \in Budgets
      BY <1>2 DEF ReserveTrial, TypeOK
    <3>2. runs[r].attempts \in Nat
      BY <3>1
    <3>3. QED
      BY <3>2, ReservedRow
  <2>5. QED
    BY <1>2, <2>3, <2>4 DEF ReserveTrial, TypeOK, Trials
<1>3. ASSUME NEW w \in Workers, NEW t \in Trials, NEW lease \in 1..MaxLease,
             NEW heard \in BOOLEAN, Claim(w, t, lease, heard)
      PROVE  TypeOK'
  <2>1. Record("trial_claimed", t[2], queue[t].attempts + 1, "running") \in Entry
    BY RecordType DEF Kinds, States, Trials, TypeOK, Row
  <2>2. log' \in [Runs -> Seq(Entry)]
    BY <1>3, <2>1, LogAppendType DEF Claim, Trials
  <2>3. queue' \in [Trials -> Row]
    <3>1. queue[t] \in Row /\ queue[t].attempts + 1 \in Nat /\ lease \in Nat
      BY DEF TypeOK, Row
    <3>2. QED
      BY <1>3, <3>1, ClaimedRow DEF Claim, TypeOK
  <2>4. known' \subseteq Trials \X Nat /\ told' \in [Trials -> Nat]
    BY <1>3 DEF Claim, TypeOK, Row
  <2>5. QED
    BY <1>3, <2>2, <2>3, <2>4 DEF Claim, TypeOK
<1>4. ASSUME NEW t \in Trials, Reclaim(t) PROVE TypeOK'
  <2>1. Record("trial_reclaimed", t[2], queue[t].attempts, AfterAttempt(t)) \in Entry
    BY RecordType DEF Kinds, States, Trials, TypeOK, Row, AfterAttempt
  <2>2. log' \in [Runs -> Seq(Entry)]
    BY <1>4, <2>1, LogAppendType DEF Reclaim, LogTrial, Trials
  <2>3. QED
    BY <1>4, <2>2, ReleasedType DEF Reclaim, TypeOK
<1>5. ASSUME NEW w \in Workers, NEW t \in Trials, NEW k \in Nat,
             NEW lease \in 1..MaxLease, NEW heard \in BOOLEAN,
             Heartbeat(w, t, k, lease, heard)
      PROVE  TypeOK'
  <2> DEFINE left == IF queue[t].left > lease THEN queue[t].left ELSE lease
  <2>1. queue[t] \in Row /\ left \in Nat
    BY DEF TypeOK, Row
  <2>2. [queue[t] EXCEPT !.left = left] \in Row
    BY <2>1, RenewedRow
  <2>3. queue' = [queue EXCEPT ![t] = [queue[t] EXCEPT !.left = left]]
    BY <1>5 DEF Heartbeat
  <2>4. queue' \in [Trials -> Row]
    BY <2>2, <2>3 DEF TypeOK
  <2>5. told' \in [Trials -> Nat]
    BY <1>5, <2>1 DEF Heartbeat, TypeOK
  <2>6. QED
    BY <1>5, <2>4, <2>5 DEF Heartbeat, TypeOK
<1>6. ASSUME NEW w \in Workers, NEW t \in Trials, NEW k \in Nat,
             NEW res \in Results, NEW heard \in BOOLEAN,
             CompleteFirst(w, t, k, res, heard)
      PROVE  TypeOK'
  <2>1. Record("trial_completed", t[2], queue[t].attempts, "completed") \in Entry
    BY RecordType DEF Kinds, States, Trials, TypeOK, Row
  <2>2. log' \in [Runs -> Seq(Entry)]
    BY <1>6, <2>1, LogAppendType DEF CompleteFirst, LogTrial, Trials
  <2>3. queue' \in [Trials -> Row]
    BY <1>6, CompletedRow DEF CompleteFirst, TypeOK
  <2>4. told' \in [Trials -> Nat] /\ acked' \in [Trials -> SUBSET Results]
    BY <1>6 DEF CompleteFirst, TypeOK
  <2>5. QED
    BY <1>6, <2>2, <2>3, <2>4 DEF CompleteFirst, TypeOK
<1>7. ASSUME NEW w \in Workers, NEW t \in Trials, NEW k \in Nat,
             NEW res \in Results, CompleteAgain(w, t, k, res)
      PROVE  TypeOK'
  BY <1>7 DEF CompleteAgain, TypeOK, store
<1>8. ASSUME NEW w \in Workers, NEW t \in Trials, NEW k \in Nat,
             NEW delay \in 0..MaxDelay, Fail(w, t, k, delay)
      PROVE  TypeOK'
  <2>1. Record("trial_failed", t[2], queue[t].attempts, AfterAttempt(t)) \in Entry
    BY RecordType DEF Kinds, States, Trials, TypeOK, Row, AfterAttempt
  <2>2. log' \in [Runs -> Seq(Entry)]
    BY <1>8, <2>1, LogAppendType DEF Fail, LogTrial, Trials
  <2>3. QED
    BY <1>8, <2>2, ReleasedType DEF Fail, TypeOK
<1>9. ASSUME NEW r \in Runs, NEW k \in EventKeys, NEW e \in Events,
             AppendGraphEvent(r, k, e)
      PROVE  TypeOK'
  <2>1. Record("graph_event", k, 0, "none") \in Entry
    BY RecordType DEF Kinds, States
  <2>2. log' \in [Runs -> Seq(Entry)]
    BY <1>9, <2>1, LogAppendType DEF AppendGraphEvent
  <2>3. QED
    BY <1>9, <2>2 DEF AppendGraphEvent, TypeOK
<1>10. ASSUME NEW t \in Trials, NEW p \in Payloads, SealResult(t, p) PROVE TypeOK'
  BY <1>10 DEF SealResult, TypeOK
<1>11. ASSUME Tick PROVE TypeOK'
  <2>1. \A n \in Nat : Earlier(n) \in Nat
    BY DEF Earlier
  <2>2. \A t \in Trials : [queue[t] EXCEPT !.left = Earlier(@),
                                           !.available = Earlier(@)] \in Row
    <3>1. ASSUME NEW t \in Trials
          PROVE  [queue[t] EXCEPT !.left = Earlier(@), !.available = Earlier(@)]
                     \in Row
      <4>1. queue[t] \in Row
        BY DEF TypeOK
      <4>2. queue[t].left \in Nat /\ queue[t].available \in Nat
        BY <4>1 DEF Row
      <4>3. Earlier(queue[t].left) \in Nat /\ Earlier(queue[t].available) \in Nat
        BY <2>1, <4>2
      <4>4. QED
        BY <4>1, <4>3, TickedRow
    <3>2. QED
      BY <3>1
  <2>3. queue' \in [Trials -> Row] /\ told' \in [Trials -> Nat]
    BY <1>11, <2>1, <2>2 DEF Tick, TypeOK
  <2>4. QED
    BY <1>11, <2>3 DEF Tick, TypeOK
<1>12. CASE UNCHANGED vars
  BY <1>12 DEF vars, TypeOK
<1>13. QED
  <2>1. ASSUME NEW w \in Workers, NEW receipt \in known,
               UseLease(w, receipt[1], receipt[2])
        PROVE  TypeOK'
    <3>1. receipt[1] \in Trials /\ receipt[2] \in Nat
      BY DEF TypeOK
    <3>2. QED
      BY <2>1, <3>1, <1>5, <1>6, <1>7, <1>8 DEF UseLease, Complete
  <2>2. QED
    BY <1>1, <1>2, <1>3, <1>4, <1>9, <1>10, <1>11, <1>12, <2>1
    DEF Next, ClaimAny, ReclaimAny

\* The variables of the store and of its clients keep their types.
THEOREM TypeCorrect == Spec => []TypeOK
<1>1. Init => TypeOK
  <2> SUFFICES ASSUME Init PROVE TypeOK
    OBVIOUS
  <2>1. NoRow \in Row
    BY DEF NoRow, Row, States
  <2>2. QED
    BY <2>1 DEF Init, TypeOK
<1>2. QED
  BY <1>1, TypeStep, PTL DEF Spec

-----------------------------------------------------------------------------
(***************************************************************************)
(* The inductive invariant.  What the properties say of one trial is not   *)
(* inductive on its own: a reservation must find no row (else it would     *)
(* reset a running or completed one), and a running row may have used its  *)
(* last attempt but no more.                                               *)
(***************************************************************************)
TrialInv(t) ==
    /\ queue[t].state = "none" <=> index[t] = 0
    /\ index[t] > 0 => /\ runs[t[1]] # None
                       /\ queue[t].max_attempts = runs[t[1]].attempts
    /\ queue[t].state = "pending" => queue[t].attempts < queue[t].max_attempts
    /\ queue[t].state = "running" => queue[t].attempts <= queue[t].max_attempts
    /\ queue[t].state = "failed" => queue[t].attempts = queue[t].max_attempts
    /\ told[t] > 0 => queue[t].state = "running" /\ told[t] <= queue[t].left
    /\ \A res \in acked[t] : queue[t].state = "completed" /\ queue[t].result = res
    /\ sealed[t] # None => queue[t].state = "completed"

RowsInv == \A t \in Trials : TrialInv(t)

\* What an action leaves of a trial it does not touch still holds.
LEMMA Untouched ==
    ASSUME NEW u \in Trials, TrialInv(u),
           queue'[u] = queue[u], index'[u] = index[u], told'[u] = told[u],
           acked'[u] = acked[u], sealed'[u] = sealed[u],
           runs[u[1]] # None => runs'[u[1]] = runs[u[1]]
    PROVE  TrialInv(u)'
  BY DEF TrialInv

LEMMA RowsStep == TypeOK /\ RowsInv /\ [Next]_vars => RowsInv'
<1> SUFFICES ASSUME TypeOK, RowsInv, [Next]_vars, NEW u \in Trials
             PROVE  TrialInv(u)'
  BY DEF RowsInv
<1>0. /\ TrialInv(u)
      /\ queue[u] \in Row
      /\ u = <<u[1], u[2]>> /\ u[1] \in Runs /\ u[2] \in Specs
  BY DEF RowsInv, TypeOK, Trials
<1>1. ASSUME NEW r \in Runs, NEW b \in Budgets, CreateRun(r, b) PROVE TrialInv(u)'
  BY <1>0, <1>1, Untouched DEF CreateRun, TypeOK
<1>2. ASSUME NEW r \in Runs, NEW s \in Specs, ReserveTrial(r, s) PROVE TrialInv(u)'
  <2>1. CASE u # <<r, s>>
    BY <1>0, <1>2, <2>1, Untouched DEF ReserveTrial, TypeOK
  <2>2. CASE u = <<r, s>>
    <3>1. runs[r].attempts \in Nat /\ runs[r].attempts > 0
      <4>1. runs[r] \in Budgets
        BY <1>2 DEF ReserveTrial, TypeOK
      <4>2. runs[r] \in [trials: Nat \ {0}, attempts: 1..100]
        BY <4>1, BudgetsAssumption
      <4>3. QED
        BY <4>2
    <3>2. /\ queue'[u].state = "pending" /\ queue'[u].attempts = 0
          /\ queue'[u].max_attempts = runs[r].attempts
      BY <1>2, <2>2 DEF ReserveTrial, TypeOK, NoRow
    <3>3. index'[u] = reserved[r] + 1 /\ reserved[r] \in Nat
      BY <1>2, <2>2 DEF ReserveTrial, TypeOK
    <3>4. queue[u].state = "none"
      BY <1>0, <1>2, <2>2 DEF ReserveTrial, TrialInv
    <3>5. runs'[u[1]] # None /\ runs'[u[1]] = runs[r]
      BY <1>2, <2>2 DEF ReserveTrial
    <3>6. told'[u] = told[u] /\ acked'[u] = acked[u] /\ sealed'[u] = sealed[u]
      BY <1>2 DEF ReserveTrial
    <3>7. ~(told[u] > 0) /\ acked[u] = {} /\ sealed[u] = None
      BY <1>0, <3>4 DEF TrialInv
    <3>8. QED
      BY <3>1, <3>2, <3>3, <3>5, <3>6, <3>7 DEF TrialInv
  <2>3. QED
    BY <2>1, <2>2
<1>3. ASSUME NEW w \in Workers, NEW t \in Trials, NEW lease \in 1..MaxLease,
             NEW heard \in BOOLEAN, Claim(w, t, lease, heard)
      PROVE  TrialInv(u)'
  <2>1. CASE u # t
    BY <1>0, <1>3, <2>1, Untouched DEF Claim, TypeOK
  <2>2. CASE u = t
    <3>1. /\ queue'[u].state = "running" /\ queue'[u].left = lease
          /\ queue'[u].attempts = queue[u].attempts + 1
          /\ queue'[u].max_attempts = queue[u].max_attempts
          /\ told'[u] \in {0, lease}
      BY <1>3, <2>2 DEF Claim, TypeOK, Row
    <3>2. /\ queue[u].state = "pending" /\ queue[u].attempts < queue[u].max_attempts
          /\ queue[u].attempts \in Nat /\ queue[u].max_attempts \in Nat
      BY <1>0, <1>3, <2>2 DEF Claim, Claimable, Row
    <3>3. acked[u] = {} /\ sealed[u] = None /\ index[u] # 0
      BY <1>0, <3>2 DEF TrialInv
    <3>4. UNCHANGED <<runs, index, acked, sealed>>
      BY <1>3 DEF Claim
    <3>5. QED
      BY <1>0, <3>1, <3>2, <3>3, <3>4, TimeAssumption DEF TrialInv
  <2>3. QED
    BY <2>1, <2>2
<1>4. ASSUME NEW t \in Trials, NEW delay \in Nat,
             queue[t].state = "running",
             queue' = [queue EXCEPT ![t] = Released(t, delay)],
             told' = [told EXCEPT ![t] = 0] \/ (told' = told /\ queue[t].left = 0),
             UNCHANGED <<runs, index, acked, sealed>>
      PROVE  TrialInv(u)'
  <2>1. CASE u # t
    BY <1>0, <1>4, <2>1, Untouched DEF TypeOK
  <2>2. CASE u = t
    <3>1. /\ queue'[u].state = AfterAttempt(u)
          /\ queue'[u].attempts = queue[u].attempts
          /\ queue'[u].max_attempts = queue[u].max_attempts
      BY <1>4, <2>2 DEF Released, TypeOK, Row
    <3>2. /\ queue[u].attempts <= queue[u].max_attempts
          /\ acked[u] = {} /\ sealed[u] = None /\ index[u] # 0
      BY <1>0, <1>4, <2>2 DEF TrialInv
    <3>3. /\ queue[u].attempts \in Nat /\ queue[u].max_attempts \in Nat
          /\ queue[u].left \in Nat /\ told[u] \in Nat
      BY <1>0 DEF Row, TypeOK
    <3>4. ~(told'[u] > 0)
      BY <1>0, <1>4, <2>2, <3>3 DEF TrialInv, TypeOK
    <3>5. QED
      BY <1>0, <1>4, <3>1, <3>2, <3>3, <3>4 DEF TrialInv, AfterAttempt
  <2>3. QED
    BY <2>1, <2>2
<1>5. ASSUME NEW w \in Workers, NEW t \in Trials, NEW k \in Nat,
             NEW lease \in 1..MaxLease, NEW heard \in BOOLEAN,
             Heartbeat(w, t, k, lease, heard)
      PROVE  TrialInv(u)'
  <2>1. CASE u # t
    BY <1>0, <1>5, <2>1, Untouched DEF Heartbeat, TypeOK
  <2>2. CASE u = t
    <3> DEFINE left == IF queue[u].left > lease THEN queue[u].left ELSE lease
    <3>1. queue' = [queue EXCEPT ![u].left = left]
      BY <1>5, <2>2 DEF Heartbeat
    <3>2. /\ queue'[u].state = queue[u].state /\ queue'[u].attempts = queue[u].attempts
          /\ queue'[u].max_attempts = queue[u].max_attempts
          /\ queue'[u].result = queue[u].result /\ queue'[u].left = left
      BY <1>0, <3>1 DEF TypeOK, Row
    <3>3. queue[u].state = "running" /\ told'[u] \in {told[u], left}
      BY <1>5, <2>2 DEF Heartbeat, LiveLease, TypeOK
    <3>4. left >= queue[u].left /\ queue[u].left \in Nat /\ left \in Nat /\ told[u] \in Nat
      <4>1. queue[u].left \in Nat /\ told[u] \in Nat
        BY <1>0 DEF Row, TypeOK
      <4>2. lease \in Nat
        OBVIOUS
      <4>3. QED
        BY <4>1, <4>2
    <3>5. UNCHANGED <<runs, index, acked, sealed>>
      BY <1>5 DEF Heartbeat
    <3>6. told[u] > 0 => told[u] <= queue[u].left
      BY <1>0 DEF TrialInv
    <3>7. told'[u] <= left
      BY <3>3, <3>4, <3>6
    <3>8. QED
      BY <1>0, <3>2, <3>3, <3>5, <3>7 DEF TrialInv
  <2>3. QED
    BY <2>1, <2>2
<1>6. ASSUME NEW w \in Workers, NEW t \in Trials, NEW k \in Nat,
             NEW res \in Results, NEW heard \in BOOLEAN,
             CompleteFirst(w, t, k, res, heard)
      PROVE  TrialInv(u)'
  <2>1. CASE u # t
    BY <1>0, <1>6, <2>1, Untouched DEF CompleteFirst, TypeOK
  <2>2. CASE u = t
    <3>1. /\ queue'[u].state = "completed" /\ queue'[u].result = res
          /\ queue'[u].max_attempts = queue[u].max_attempts /\ told'[u] = 0
      BY <1>6, <2>2 DEF CompleteFirst, TypeOK, Row
    <3>2. acked[u] = {} /\ sealed[u] = None /\ index[u] # 0
      BY <1>0, <1>6, <2>2 DEF CompleteFirst, LiveLease, TrialInv
    <3>3. acked'[u] \subseteq {res}
      BY <1>6, <2>2, <3>2 DEF CompleteFirst, TypeOK
    <3>4. UNCHANGED <<runs, index, sealed>>
      BY <1>6 DEF CompleteFirst
    <3>5. QED
      BY <1>0, <3>1, <3>2, <3>3, <3>4 DEF TrialInv
  <2>3. QED
    BY <2>1, <2>2
<1>7. ASSUME NEW w \in Workers, NEW t \in Trials, NEW k \in Nat,
             NEW res \in Results, CompleteAgain(w, t, k, res)
      PROVE  TrialInv(u)'
  BY <1>0, <1>7 DEF CompleteAgain, store, TrialInv, TypeOK
<1>8. ASSUME NEW t \in Trials, NEW p \in Payloads, SealResult(t, p) PROVE TrialInv(u)'
  BY <1>0, <1>8 DEF SealResult, TrialInv, TypeOK
<1>9. ASSUME Tick PROVE TrialInv(u)'
  <2>1. /\ queue'[u].state = queue[u].state /\ queue'[u].attempts = queue[u].attempts
        /\ queue'[u].max_attempts = queue[u].max_attempts
        /\ queue'[u].result = queue[u].result
        /\ queue'[u].left = Earlier(queue[u].left)
    <3>1. queue'[u] = [queue[u] EXCEPT !.left = Earlier(queue[u].left),
                                       !.available = Earlier(queue[u].available)]
      BY <1>9 DEF Tick
    <3>2. QED
      BY <1>0, <3>1 DEF Row
  <2>2. told'[u] = Earlier(told[u])
    BY <1>9 DEF Tick
  <2>3. told[u] \in Nat /\ queue[u].left \in Nat
    BY <1>0 DEF TypeOK, Row
  <2>4. told'[u] > 0 => queue'[u].state = "running" /\ told'[u] <= queue'[u].left
    BY <1>0, <2>1, <2>2, <2>3 DEF Earlier, TrialInv
  <2>5. UNCHANGED <<runs, index, acked, sealed>>
    BY <1>9 DEF Tick
  <2>6. QED
    BY <1>0, <2>1, <2>4, <2>5 DEF TrialInv
<1>10. CASE UNCHANGED <<runs, index, queue, told, acked, sealed>>
  BY <1>0, <1>10, Untouched
<1>11. QED
  <2>1. ASSUME NEW w \in Workers, NEW receipt \in known,
               UseLease(w, receipt[1], receipt[2])
        PROVE  TrialInv(u)'
    <3>1. receipt[1] \in Trials /\ receipt[2] \in Nat
      BY DEF TypeOK
    <3>2. ASSUME NEW delay \in 0..MaxDelay, Fail(w, receipt[1], receipt[2], delay)
          PROVE  TrialInv(u)'
      <4> DEFINE t == receipt[1]
      <4>1. /\ queue[t].state = "running" /\ delay \in Nat
            /\ queue' = [queue EXCEPT ![t] = Released(t, delay)]
            /\ told' = [told EXCEPT ![t] = 0]
            /\ UNCHANGED <<runs, index, acked, sealed>>
        BY <3>2, TimeAssumption DEF Fail, LiveLease
      <4> HIDE DEF t
      <4>2. t \in Trials
        BY <3>1 DEF t
      <4>3. QED
        BY <1>4, <4>1, <4>2
    <3>3. QED
      BY <2>1, <3>1, <3>2, <1>5, <1>6, <1>7 DEF UseLease, Complete
  <2>2. ASSUME NEW t \in Trials, Reclaim(t) PROVE TrialInv(u)'
    <3>1. /\ queue[t].state = "running" /\ queue[t].left = 0 /\ 0 \in Nat
          /\ queue' = [queue EXCEPT ![t] = Released(t, 0)]
          /\ told' = told
          /\ UNCHANGED <<runs, index, acked, sealed>>
      BY <2>2 DEF Reclaim
    <3>2. QED
      BY <1>4, <3>1
  <2>3. ASSUME NEW r \in Runs, NEW k \in EventKeys, NEW e \in Events,
               AppendGraphEvent(r, k, e)
        PROVE  TrialInv(u)'
    BY <1>10, <2>3 DEF AppendGraphEvent
  <2>4. QED
    BY <1>1, <1>2, <1>3, <1>8, <1>9, <1>10, <2>1, <2>2, <2>3
    DEF Next, ClaimAny, ReclaimAny, vars

\* Every trial's row agrees with its run, its leases and its clients after any sequence
\* of calls.
THEOREM RowsCorrect == Spec => []RowsInv
<1>1. Init => RowsInv
  BY DEF Init, RowsInv, TrialInv, NoRow
<1>2. QED
  BY <1>1, RowsStep, TypeCorrect, PTL DEF Spec

\* No trial is taken from a worker before the deadline it was told of.
THEOREM LeaseSafe == Spec => []LeaseHonoured
<1>1. RowsInv => LeaseHonoured
  BY DEF RowsInv, TrialInv, LeaseHonoured
<1>2. QED
  BY <1>1, RowsCorrect, PTL

\* A pending trial can always be claimed once its delay has passed, and a failed
\* one used every attempt of its run.
THEOREM RetriesSafe == Spec => []NoTrialStranded
<1>1. TypeOK /\ RowsInv => NoTrialStranded
  BY DEF RowsInv, TrialInv, NoTrialStranded, Reserved, TypeOK
<1>2. QED
  BY <1>1, RowsCorrect, TypeCorrect, PTL

\* Every completion a worker was told of is the stored one.
THEOREM CompletionSafe == Spec => []AckedResultStored
<1>1. RowsInv => AckedResultStored
  BY DEF RowsInv, TrialInv, AckedResultStored
<1>2. QED
  BY <1>1, RowsCorrect, PTL

\* Sealed records exist for completed trials only.
THEOREM SealSafe == Spec => []SealedOnlyCompleted
<1>1. RowsInv => SealedOnlyCompleted
  BY DEF RowsInv, TrialInv, SealedOnlyCompleted
<1>2. QED
  BY <1>1, RowsCorrect, PTL

-----------------------------------------------------------------------------
\* Only reserve_trial() touches what the budget is about.
LEMMA BudgetStep == TypeOK /\ BudgetRespected /\ [Next]_vars => BudgetRespected'
<1> SUFFICES ASSUME TypeOK, BudgetRespected, [Next]_vars PROVE BudgetRespected'
  OBVIOUS
<1>1. ASSUME NEW r \in Runs, NEW s \in Specs, ReserveTrial(r, s) PROVE BudgetRespected'
  <2> DEFINE n == reserved[r] + 1
  <2>1. /\ reserved' = [reserved EXCEPT ![r] = n]
        /\ index' = [index EXCEPT ![<<r, s>>] = n]
        /\ runs' = runs /\ runs[r] # None /\ index[<<r, s>>] = 0
        /\ reserved[r] < runs[r].trials
    BY <1>1 DEF ReserveTrial
  <2>2. runs[r].trials \in Nat
    <3>1. runs[r] \in Budgets
      BY <2>1 DEF TypeOK
    <3>2. runs[r] \in [trials: Nat \ {0}, attempts: 1..100]
      BY <3>1, BudgetsAssumption
    <3>3. QED
      BY <3>2
  <2>3. reserved[r] \in Nat /\ n \in Nat /\ n <= runs[r].trials
    BY <2>1, <2>2 DEF TypeOK
  <2> SUFFICES ASSUME NEW q \in Runs
               PROVE  /\ reserved'[q] > 0 => runs'[q] # None /\ reserved'[q] <= runs'[q].trials
                      /\ \A u \in Specs : index'[<<q, u>>] <= reserved'[q]
                      /\ \A m \in 1..reserved'[q] : \E u \in Specs : index'[<<q, u>>] = m
                      /\ \A u1, u2 \in Specs :
                             index'[<<q, u1>>] = index'[<<q, u2>>] /\ index'[<<q, u1>>] > 0
                             => u1 = u2
    BY DEF BudgetRespected, Reserved
  <2>4. /\ reserved[q] > 0 => runs[q] # None /\ reserved[q] <= runs[q].trials
        /\ \A u \in Specs : index[<<q, u>>] <= reserved[q] /\ index[<<q, u>>] \in Nat
        /\ \A m \in 1..reserved[q] : \E u \in Specs : index[<<q, u>>] = m
        /\ \A u1, u2 \in Specs :
               index[<<q, u1>>] = index[<<q, u2>>] /\ index[<<q, u1>>] > 0 => u1 = u2
    BY DEF BudgetRespected, Reserved, TypeOK, Trials
  <2>5. CASE q # r
    <3>1. reserved'[q] = reserved[q] /\ \A u \in Specs : index'[<<q, u>>] = index[<<q, u>>]
      BY <2>1, <2>5 DEF TypeOK, Trials
    <3>2. QED
      BY <2>1, <2>4, <3>1
  <2>6. CASE q = r
    <3>1. /\ reserved'[q] = n
          /\ index'[<<q, s>>] = n
          /\ \A u \in Specs : u # s => index'[<<q, u>>] = index[<<q, u>>]
      BY <2>1, <2>6 DEF TypeOK, Trials
    <3>2. \A u \in Specs : u # s => index'[<<q, u>>] < n
      BY <2>3, <2>4, <2>6, <3>1
    <3>3. \A m \in 1..n : \E u \in Specs : index'[<<q, u>>] = m
      <4> SUFFICES ASSUME NEW m \in 1..n PROVE \E u \in Specs : index'[<<q, u>>] = m
        OBVIOUS
      <4>1. CASE m = n
        BY <3>1, <4>1
      <4>2. CASE m # n
        <5>1. m \in 1..reserved[q]
          BY <2>3, <2>6, <4>2
        <5>2. PICK u \in Specs : index[<<q, u>>] = m
          BY <2>4, <5>1
        <5>3. u # s
          BY <2>1, <2>6, <5>1, <5>2
        <5>4. QED
          BY <3>1, <5>2, <5>3
      <4>3. QED
        BY <4>1, <4>2
    <3>4. \A u1, u2 \in Specs :
             index'[<<q, u1>>] = index'[<<q, u2>>] /\ index'[<<q, u1>>] > 0 => u1 = u2
      BY <2>3, <2>4, <3>1, <3>2
    <3>5. reserved'[q] > 0 => runs'[q] # None /\ reserved'[q] <= runs'[q].trials
      BY <2>1, <2>3, <2>6, <3>1
    <3>6. \A u \in Specs : index'[<<q, u>>] <= reserved'[q]
      BY <2>3, <2>4, <2>6, <3>1
    <3>7. QED
      BY <3>1, <3>3, <3>4, <3>5, <3>6
  <2>7. QED
    BY <2>5, <2>6
<1>2. ASSUME NEW r \in Runs, NEW b \in Budgets, CreateRun(r, b) PROVE BudgetRespected'
  <2>1. /\ runs[r] = None /\ runs' = [runs EXCEPT ![r] = b]
        /\ UNCHANGED <<reserved, index>>
    BY <1>2 DEF CreateRun
  <2>2. ASSUME NEW q \in Runs, reserved[q] > 0 PROVE q # r /\ runs'[q] = runs[q]
    BY <2>1, <2>2 DEF BudgetRespected, TypeOK
  <2>3. QED
    BY <2>1, <2>2 DEF BudgetRespected, Reserved
<1>3. CASE UNCHANGED <<runs, reserved, index>>
  BY <1>3 DEF BudgetRespected, Reserved
<1>4. CASE \/ \E w \in Workers, receipt \in known : UseLease(w, receipt[1], receipt[2])
           \/ ClaimAny \/ ReclaimAny \/ Tick
           \/ \E r \in Runs, k \in EventKeys, e \in Events : AppendGraphEvent(r, k, e)
           \/ \E t \in Trials, p \in Payloads : SealResult(t, p)
           \/ UNCHANGED vars
  <2>1. UNCHANGED <<runs, reserved, index>>
    BY <1>4
    DEF ClaimAny, ReclaimAny, UseLease, Complete, Claim, Reclaim, Heartbeat,
        CompleteFirst, CompleteAgain, store, Fail, AppendGraphEvent, SealResult, Tick, vars
  <2>2. QED
    BY <1>3, <2>1
<1>5. QED
  BY <1>1, <1>2, <1>4 DEF Next

\* A run never hands out more reservations than its budget, numbers them from 1
\* without a gap, and gives no two candidates the same number.
THEOREM BudgetSafe == Spec => []BudgetRespected
<1>1. Init => BudgetRespected
  BY DEF Init, BudgetRespected, Reserved, Trials
<1>2. QED
  BY <1>1, BudgetStep, TypeCorrect, PTL DEF Spec

-----------------------------------------------------------------------------
(* What a step may do to a queue row. *)

Same(u) ==
    /\ queue'[u].state = queue[u].state /\ queue'[u].attempts = queue[u].attempts
    /\ queue'[u].max_attempts = queue[u].max_attempts /\ queue'[u].result = queue[u].result

Reserves(u) ==
    /\ queue[u].state = "none"
    /\ queue'[u].state = "pending" /\ queue'[u].attempts = 0
    /\ queue'[u].max_attempts \in 1..100 /\ queue'[u].result = None

Claims(u) ==
    /\ queue[u].state = "pending" /\ queue[u].attempts < queue[u].max_attempts
    /\ queue'[u].state = "running" /\ queue'[u].attempts = queue[u].attempts + 1
    /\ queue'[u].max_attempts = queue[u].max_attempts /\ queue'[u].result = queue[u].result

Releases(u) ==
    /\ queue[u].state = "running" /\ queue'[u].state = AfterAttempt(u)
    /\ queue'[u].attempts = queue[u].attempts
    /\ queue'[u].max_attempts = queue[u].max_attempts /\ queue'[u].result = queue[u].result

Completes(u) ==
    /\ queue[u].state = "running" /\ queue'[u].state = "completed"
    /\ queue'[u].attempts = queue[u].attempts
    /\ queue'[u].max_attempts = queue[u].max_attempts /\ queue'[u].result \in Results

RowMoves(u) == Same(u) \/ Reserves(u) \/ Claims(u) \/ Releases(u) \/ Completes(u)

\* fail() and reclaim() end an attempt in the same way.
LEMMA ReleaseMoves ==
    ASSUME TypeOK, NEW u \in Trials, NEW t \in Trials, NEW delay, queue[t].state = "running",
           queue' = [queue EXCEPT ![t] = Released(t, delay)]
    PROVE  RowMoves(u)
<1>1. queue[u] \in Row
  BY DEF TypeOK
<1>2. CASE u = t
  BY <1>1, <1>2 DEF Released, TypeOK, Row, RowMoves, Releases
<1>3. CASE u # t
  BY <1>3 DEF TypeOK, RowMoves, Same
<1>4. QED
  BY <1>2, <1>3

LEMMA LeaseMoves ==
    ASSUME TypeOK, NEW u \in Trials, NEW w \in Workers, NEW t \in Trials, NEW k \in Nat,
           UseLease(w, t, k)
    PROVE  RowMoves(u)
<1>1. queue[u] \in Row
  BY DEF TypeOK
<1>2. ASSUME NEW lease \in 1..MaxLease, NEW heard \in BOOLEAN, Heartbeat(w, t, k, lease, heard)
      PROVE  RowMoves(u)
  <2>1. PICK left : queue' = [queue EXCEPT ![t].left = left]
    BY <1>2 DEF Heartbeat
  <2>2. QED
    BY <1>1, <2>1 DEF TypeOK, Row, RowMoves, Same
<1>3. ASSUME NEW res \in Results, NEW heard \in BOOLEAN, CompleteFirst(w, t, k, res, heard)
      PROVE  RowMoves(u)
  <2>1. CASE u = t
    BY <1>1, <1>3, <2>1 DEF CompleteFirst, LiveLease, TypeOK, Row, RowMoves, Completes
  <2>2. CASE u # t
    BY <1>3, <2>2 DEF CompleteFirst, TypeOK, RowMoves, Same
  <2>3. QED
    BY <2>1, <2>2
<1>4. ASSUME NEW res \in Results, CompleteAgain(w, t, k, res) PROVE RowMoves(u)
  BY <1>4 DEF CompleteAgain, store, RowMoves, Same
<1>5. ASSUME NEW delay \in 0..MaxDelay, Fail(w, t, k, delay) PROVE RowMoves(u)
  BY <1>5, ReleaseMoves DEF Fail, LiveLease
<1>6. QED
  BY <1>2, <1>3, <1>4, <1>5 DEF UseLease, Complete

LEMMA StepMoves ==
    ASSUME TypeOK, RowsInv, [Next]_vars, NEW u \in Trials
    PROVE  RowMoves(u)
<1>1. queue[u] \in Row /\ TrialInv(u)
  BY DEF TypeOK, RowsInv
<1>2. CASE UNCHANGED queue
  BY <1>2 DEF RowMoves, Same
<1>3. ASSUME NEW r \in Runs, NEW s \in Specs, ReserveTrial(r, s) PROVE RowMoves(u)
  <2>1. CASE u = <<r, s>>
    <3>1. queue[u].state = "none"
      BY <1>1, <1>3, <2>1 DEF ReserveTrial, TrialInv
    <3>2. runs[r] \in [trials: Nat \ {0}, attempts: 1..100]
      BY <1>3, BudgetsAssumption DEF ReserveTrial, TypeOK
    <3>3. queue'[u] = [NoRow EXCEPT !.state = "pending", !.max_attempts = runs[r].attempts]
      BY <1>3, <2>1 DEF ReserveTrial, TypeOK
    <3>4. QED
      BY <3>1, <3>2, <3>3 DEF NoRow, RowMoves, Reserves
  <2>2. CASE u # <<r, s>>
    BY <1>3, <2>2 DEF ReserveTrial, TypeOK, RowMoves, Same
  <2>3. QED
    BY <2>1, <2>2
<1>4. ASSUME NEW w \in Workers, NEW t \in Trials, NEW lease \in 1..MaxLease,
             NEW heard \in BOOLEAN, Claim(w, t, lease, heard)
      PROVE  RowMoves(u)
  <2>1. CASE u = t
    BY <1>1, <1>4, <2>1 DEF Claim, Claimable, TypeOK, Row, RowMoves, Claims
  <2>2. CASE u # t
    BY <1>4, <2>2 DEF Claim, TypeOK, RowMoves, Same
  <2>3. QED
    BY <2>1, <2>2
<1>5. ASSUME NEW t \in Trials, Reclaim(t) PROVE RowMoves(u)
  BY <1>5, ReleaseMoves DEF Reclaim
<1>6. ASSUME NEW w \in Workers, NEW receipt \in known, UseLease(w, receipt[1], receipt[2])
      PROVE  RowMoves(u)
  <2>1. receipt[1] \in Trials /\ receipt[2] \in Nat
    BY DEF TypeOK
  <2>2. QED
    BY <1>6, <2>1, LeaseMoves
<1>7. CASE Tick
  <2>1. queue'[u] = [queue[u] EXCEPT !.left = Earlier(queue[u].left),
                                     !.available = Earlier(queue[u].available)]
    BY <1>7 DEF Tick
  <2>2. QED
    BY <1>1, <2>1 DEF Row, RowMoves, Same
<1>8. QED
  BY <1>2, <1>3, <1>4, <1>5, <1>6, <1>7
  DEF Next, ClaimAny, ReclaimAny, CreateRun, AppendGraphEvent, SealResult, vars

-----------------------------------------------------------------------------
(* The queue implements AttemptedWork. *)

\* Only a completed trial has a result.
ResultInv == \A t \in Trials : queue[t].state # "completed" => queue[t].result = None

LEMMA ResultStep == TypeOK /\ RowsInv /\ ResultInv /\ [Next]_vars => ResultInv'
<1> SUFFICES ASSUME TypeOK, RowsInv, ResultInv, [Next]_vars, NEW u \in Trials
             PROVE  queue'[u].state # "completed" => queue'[u].result = None
  BY DEF ResultInv
<1>1. RowMoves(u)
  BY StepMoves
<1>2. QED
  BY <1>1 DEF ResultInv, RowMoves, Same, Reserves, Claims, Releases, Completes

LEMMA RowImplements ==
    ASSUME TypeOK, RowsInv, ResultInv, [Next]_vars, NEW u \in Trials
    PROVE  \/ Work!Admit(u)
           \/ /\ queue'[u].max_attempts = queue[u].max_attempts
              /\ Work!Start(u) \/ Work!Finish(u) \/ Work!Retry(u) \/ Work!GiveUp(u)
                 \/ Work!Stay(u)
<1>1. RowMoves(u) /\ TrialInv(u) /\ queue[u] \in Row
  BY StepMoves DEF RowsInv, TypeOK
<1>2. queue[u].attempts \in Nat /\ queue[u].max_attempts \in Nat
  BY <1>1 DEF Row
<1>3. CASE Same(u)
  BY <1>3 DEF Same, Work!Stay, Work!Becomes
<1>4. CASE Reserves(u)
  BY <1>4 DEF Reserves, Work!Admit, Work!Becomes
<1>5. CASE Claims(u)
  BY <1>5 DEF Claims, ResultInv, Work!Start, Work!Becomes
<1>6. CASE Releases(u)
  <2>1. queue[u].result = None /\ queue[u].attempts <= queue[u].max_attempts
    BY <1>1, <1>6 DEF Releases, ResultInv, TrialInv
  <2>2. CASE queue[u].attempts >= queue[u].max_attempts
    <3>1. queue[u].attempts = queue[u].max_attempts
      BY <1>2, <2>1, <2>2
    <3>2. QED
      BY <1>6, <2>1, <2>2, <3>1 DEF Releases, AfterAttempt, Work!GiveUp, Work!Becomes
  <2>3. CASE ~(queue[u].attempts >= queue[u].max_attempts)
    <3>1. queue[u].attempts < queue[u].max_attempts
      BY <1>2, <2>3
    <3>2. QED
      BY <1>6, <2>1, <2>3, <3>1 DEF Releases, AfterAttempt, Work!Retry, Work!Becomes
  <2>4. QED
    BY <2>2, <2>3
<1>7. CASE Completes(u)
  BY <1>7 DEF Completes, Work!Finish, Work!Becomes
<1>8. QED
  BY <1>1, <1>3, <1>4, <1>5, <1>6, <1>7 DEF RowMoves

\* Every transaction of the store moves each trial by a step of AttemptedWork, or not.
LEMMA WorkStep ==
    TypeOK /\ RowsInv /\ ResultInv /\ [Next]_vars => [Work!Next]_(Work!workVars)
<1> SUFFICES ASSUME TypeOK, RowsInv, ResultInv, [Next]_vars PROVE Work!Next
  OBVIOUS
<1>1. ASSUME NEW t \in Trials
      PROVE  \/ Work!Admit(t)
             \/ /\ [u \in Trials |-> queue[u].max_attempts]'[t]
                     = [u \in Trials |-> queue[u].max_attempts][t]
                /\ Work!Start(t) \/ Work!Finish(t) \/ Work!Retry(t) \/ Work!GiveUp(t)
                   \/ Work!Stay(t)
  BY RowImplements
<1>2. QED
  BY <1>1 DEF Work!Next

\* Whatever leases, reclaims, repeated calls and lost replies do, the PostgreSQL queue
\* keeps the promises of AttemptedWork about every trial (claim, complete, fail, reclaim).
THEOREM QueueImplementsWork == Spec => ImplementsWork
<1>1. Init => Work!Init /\ ResultInv
  BY DEF Init, Work!Init, ResultInv, NoRow
<1>2. QED
  BY <1>1, WorkStep, ResultStep, TypeCorrect, RowsCorrect, PTL
  DEF Spec, ImplementsWork, Work!Spec

-----------------------------------------------------------------------------
(* The audit log. *)

\* The last record of a log about a candidate has this attempt and state.
LastAbout(l, s, attempt, state) ==
    \E i \in DOMAIN l :
        /\ l[i].about = s /\ l[i].attempt = attempt /\ l[i].state = state
        /\ \A j \in DOMAIN l : j > i => l[j].about # s

LEMMA LastAdded ==
    ASSUME NEW l \in Seq(Entry), NEW e \in Entry, NEW s, e.about = s
    PROVE  LastAbout(Append(l, e), s, e.attempt, e.state)
<1>1. /\ Append(l, e) \in Seq(Entry) /\ Len(Append(l, e)) = Len(l) + 1
      /\ Append(l, e)[Len(l) + 1] = e /\ Len(l) \in Nat
      /\ DOMAIN Append(l, e) = 1..(Len(l) + 1)
  BY AppendProperties
<1>2. Len(l) + 1 \in DOMAIN Append(l, e) /\ \A j \in DOMAIN Append(l, e) : ~(j > Len(l) + 1)
  BY <1>1
<1>3. QED
  BY <1>1, <1>2 DEF LastAbout

LEMMA LastStays ==
    ASSUME NEW l \in Seq(Entry), NEW e \in Entry, NEW s, e.about # s,
           NEW attempt, NEW state, LastAbout(l, s, attempt, state)
    PROVE  LastAbout(Append(l, e), s, attempt, state)
<1>1. /\ Len(Append(l, e)) = Len(l) + 1 /\ Len(l) \in Nat
      /\ Append(l, e)[Len(l) + 1] = e /\ \A i \in 1..Len(l) : Append(l, e)[i] = l[i]
      /\ DOMAIN l = 1..Len(l) /\ DOMAIN Append(l, e) = 1..(Len(l) + 1)
  BY AppendProperties
<1>2. PICK i \in DOMAIN l : /\ l[i].about = s /\ l[i].attempt = attempt /\ l[i].state = state
                            /\ \A j \in DOMAIN l : j > i => l[j].about # s
  BY DEF LastAbout
<1>3. i \in DOMAIN Append(l, e) /\ Append(l, e)[i] = l[i]
  BY <1>1
<1>4. ASSUME NEW j \in DOMAIN Append(l, e), j > i PROVE Append(l, e)[j].about # s
  <2>1. CASE j = Len(l) + 1
    BY <1>1, <2>1
  <2>2. CASE j # Len(l) + 1
    <3>1. j \in 1..Len(l)
      BY <1>1, <2>2
    <3>2. QED
      BY <1>1, <1>2, <1>4, <3>1
  <2>3. QED
    BY <2>1, <2>2
<1>5. QED
  BY <1>2, <1>3, <1>4 DEF LastAbout

Recorded(t) ==
    index[t] > 0 => LastAbout(log[t[1]], t[2], queue[t].attempts, queue[t].state)

\* A record about the trial, or about something else.
LEMMA RecordKeeps ==
    ASSUME TypeOK, NEW u \in Trials, Recorded(u), NEW e \in Entry,
           log'[u[1]] = Append(log[u[1]], e),
           IF e.about = u[2]
           THEN e.attempt = queue'[u].attempts /\ e.state = queue'[u].state
           ELSE /\ index'[u] = index[u]
                /\ queue'[u].attempts = queue[u].attempts /\ queue'[u].state = queue[u].state
    PROVE  Recorded(u)'
<1>1. log[u[1]] \in Seq(Entry)
  BY DEF TypeOK, Trials
<1>2. CASE e.about = u[2]
  BY <1>1, <1>2, LastAdded DEF Recorded
<1>3. CASE e.about # u[2]
  BY <1>1, <1>3, LastStays DEF Recorded
<1>4. QED
  BY <1>2, <1>3

\* A transaction of claim, complete, fail or reclaim writes one record about its trial.
LEMMA TrialRecordKeeps ==
    ASSUME TypeOK, NEW u \in Trials, NEW t \in Trials, Recorded(u), UNCHANGED index,
           NEW kind \in Kinds, NEW attempt \in Nat, NEW state \in States,
           LogAppend(t[1], Record(kind, t[2], attempt, state)),
           queue'[t].attempts = attempt, queue'[t].state = state,
           u # t => queue'[u] = queue[u]
    PROVE  Recorded(u)'
<1>1. /\ u = <<u[1], u[2]>> /\ t = <<t[1], t[2]>> /\ t[1] \in Runs /\ t[2] \in Specs
      /\ u[1] \in Runs
  BY DEF Trials
<1>2. PICK e \in Entry : e = Record(kind, t[2], attempt, state)
  BY <1>1, RecordType
<1>3. e.about = t[2] /\ e.attempt = attempt /\ e.state = state
  BY <1>2 DEF Record
<1>4. log' = [log EXCEPT ![t[1]] = Append(log[t[1]], e)]
  BY <1>2 DEF LogAppend
<1>5. CASE u[1] = t[1]
  <2>1. log'[u[1]] = Append(log[u[1]], e)
    BY <1>1, <1>4, <1>5 DEF TypeOK
  <2>2. CASE e.about = u[2]
    <3>1. u = t
      BY <1>1, <1>3, <1>5, <2>2
    <3>2. e.attempt = queue'[u].attempts /\ e.state = queue'[u].state
      BY <1>3, <3>1
    <3>3. QED
      BY <2>1, <2>2, <3>2, RecordKeeps
  <2>3. CASE e.about # u[2]
    <3>1. queue'[u] = queue[u] /\ index'[u] = index[u]
      BY <1>3, <2>3
    <3>2. QED
      BY <2>1, <2>3, <3>1, RecordKeeps
  <2>4. QED
    BY <2>2, <2>3
<1>6. CASE u[1] # t[1]
  <2>1. log'[u[1]] = log[u[1]] /\ queue'[u] = queue[u]
    BY <1>1, <1>4, <1>6 DEF TypeOK
  <2>2. QED
    BY <2>1 DEF Recorded
<1>7. QED
  BY <1>5, <1>6

LEMMA ReservationRecorded ==
    ASSUME TypeOK, NEW u \in Trials, Recorded(u), NEW r \in Runs, NEW s \in Specs,
           ReserveTrial(r, s)
    PROVE  Recorded(u)'
<1>1. u = <<u[1], u[2]>> /\ u[1] \in Runs /\ log[r] \in Seq(Entry)
  BY DEF TypeOK, Trials
<1>2. PICK e1 \in Entry, e2 \in Entry : /\ e1 = Record("candidate_registered", s, 0, "none")
                                        /\ e2 = Record("trial_reserved", s, 0, "pending")
  BY RecordType DEF Kinds, States
<1>3. e1.about = s /\ e2.about = s /\ e2.attempt = 0 /\ e2.state = "pending"
  BY <1>2 DEF Record
<1>4. log' = [log EXCEPT ![r] = log[r] \o <<e1, e2>>]
  BY <1>2 DEF ReserveTrial
<1>5. /\ log[r] \o <<e1, e2>> = Append(Append(log[r], e1), e2)
      /\ Append(log[r], e1) \in Seq(Entry)
  BY <1>1
<1>6. CASE u[1] = r
  <2>1. log'[u[1]] = Append(Append(log[u[1]], e1), e2)
    BY <1>1, <1>4, <1>5, <1>6 DEF TypeOK
  <2>2. CASE u[2] = s
    <3>1. queue'[u].state = "pending" /\ queue'[u].attempts = 0
      BY <1>1, <1>6, <2>2 DEF ReserveTrial, TypeOK, NoRow
    <3>2. LastAbout(log'[u[1]], u[2], 0, "pending")
      BY <1>3, <1>5, <1>6, <2>1, <2>2, LastAdded
    <3>3. QED
      BY <3>1, <3>2 DEF Recorded
  <2>3. CASE u[2] # s
    <3>1. queue'[u] = queue[u] /\ index'[u] = index[u]
      BY <1>1, <2>3 DEF ReserveTrial, TypeOK
    <3>2. SUFFICES ASSUME index[u] > 0
                   PROVE  LastAbout(log'[u[1]], u[2], queue[u].attempts, queue[u].state)
      BY <3>1 DEF Recorded
    <3>3. LastAbout(log[u[1]], u[2], queue[u].attempts, queue[u].state)
      BY <3>2 DEF Recorded
    <3>4. LastAbout(Append(log[u[1]], e1), u[2], queue[u].attempts, queue[u].state)
      BY <1>1, <1>3, <1>6, <2>3, <3>3, LastStays
    <3>5. QED
      BY <1>3, <1>5, <1>6, <2>1, <2>3, <3>4, LastStays
  <2>4. QED
    BY <2>2, <2>3
<1>7. CASE u[1] # r
  <2>1. log'[u[1]] = log[u[1]] /\ queue'[u] = queue[u] /\ index'[u] = index[u]
    BY <1>1, <1>4, <1>7 DEF ReserveTrial, TypeOK
  <2>2. QED
    BY <2>1 DEF Recorded
<1>8. QED
  BY <1>6, <1>7

\* A record of a run or of a note is about no candidate.
LEMMA OtherRecorded ==
    ASSUME TypeOK, NEW u \in Trials, Recorded(u), NEW r \in Runs, NEW kind \in Kinds,
           NEW about \in EventKeys \cup {None}, LogAppend(r, Record(kind, about, 0, "none")),
           UNCHANGED <<index, queue>>
    PROVE  Recorded(u)'
<1>1. u[1] \in Runs /\ u[2] \in Specs
  BY DEF Trials
<1>2. PICK e \in Entry : e = Record(kind, about, 0, "none")
  BY RecordType DEF States
<1>3. e.about # u[2]
  BY <1>1, <1>2, NamesAssumption DEF Record
<1>4. log' = [log EXCEPT ![r] = Append(log[r], e)]
  BY <1>2 DEF LogAppend
<1>5. CASE u[1] = r
  <2>1. log'[u[1]] = Append(log[u[1]], e)
    BY <1>1, <1>4, <1>5 DEF TypeOK
  <2>2. QED
    BY <1>3, <2>1, RecordKeeps
<1>6. CASE u[1] # r
  <2>1. log'[u[1]] = log[u[1]]
    BY <1>1, <1>4, <1>6 DEF TypeOK
  <2>2. QED
    BY <2>1 DEF Recorded
<1>7. QED
  BY <1>5, <1>6

LEMMA ReleaseRecorded ==
    ASSUME TypeOK, NEW u \in Trials, Recorded(u), NEW t \in Trials, NEW kind \in Kinds, NEW delay,
           queue' = [queue EXCEPT ![t] = Released(t, delay)], UNCHANGED index,
           LogTrial(kind, t, AfterAttempt(t))
    PROVE  Recorded(u)'
<1>1. queue[t] \in Row /\ queue[t].attempts \in Nat /\ AfterAttempt(t) \in States
  BY DEF TypeOK, Row, AfterAttempt, States
<1>2. queue'[t].attempts = queue[t].attempts /\ queue'[t].state = AfterAttempt(t)
  BY <1>1 DEF Released, TypeOK, Row
<1>3. u # t => queue'[u] = queue[u]
  BY DEF TypeOK
<1>4. LogAppend(t[1], Record(kind, t[2], queue[t].attempts, AfterAttempt(t)))
  BY DEF LogTrial
<1>5. QED
  BY <1>1, <1>2, <1>3, <1>4, TrialRecordKeeps

LEMMA LeaseRecorded ==
    ASSUME TypeOK, NEW u \in Trials, Recorded(u), NEW w \in Workers, NEW t \in Trials,
           NEW k \in Nat, UseLease(w, t, k)
    PROVE  Recorded(u)'
<1>1. queue[t] \in Row /\ queue[t].attempts \in Nat /\ queue[u] \in Row
  BY DEF TypeOK, Row
<1>2. ASSUME NEW lease \in 1..MaxLease, NEW heard \in BOOLEAN, Heartbeat(w, t, k, lease, heard)
      PROVE  Recorded(u)'
  <2>1. PICK left : queue' = [queue EXCEPT ![t].left = left]
    BY <1>2 DEF Heartbeat
  <2>2. queue'[u].attempts = queue[u].attempts /\ queue'[u].state = queue[u].state
    BY <1>1, <2>1 DEF TypeOK, Row
  <2>3. UNCHANGED <<log, index>>
    BY <1>2 DEF Heartbeat
  <2>4. QED
    BY <2>2, <2>3 DEF Recorded
<1>3. ASSUME NEW res \in Results, NEW heard \in BOOLEAN, CompleteFirst(w, t, k, res, heard)
      PROVE  Recorded(u)'
  <2>1. queue'[t].attempts = queue[t].attempts /\ queue'[t].state = "completed"
    BY <1>1, <1>3 DEF CompleteFirst, TypeOK, Row
  <2>2. u # t => queue'[u] = queue[u]
    BY <1>3 DEF CompleteFirst, TypeOK
  <2>3. /\ LogAppend(t[1], Record("trial_completed", t[2], queue[t].attempts, "completed"))
        /\ UNCHANGED index /\ "trial_completed" \in Kinds /\ "completed" \in States
    BY <1>3 DEF CompleteFirst, LogTrial, Kinds, States
  <2>4. QED
    BY <1>1, <2>1, <2>2, <2>3, TrialRecordKeeps
<1>4. ASSUME NEW res \in Results, CompleteAgain(w, t, k, res) PROVE Recorded(u)'
  BY <1>4 DEF CompleteAgain, store, Recorded
<1>5. ASSUME NEW delay \in 0..MaxDelay, Fail(w, t, k, delay) PROVE Recorded(u)'
  <2>1. "trial_failed" \in Kinds
    BY DEF Kinds
  <2>2. QED
    BY <1>5, <2>1, ReleaseRecorded DEF Fail
<1>6. QED
  BY <1>2, <1>3, <1>4, <1>5 DEF UseLease, Complete

LEMMA AuditStep == TypeOK /\ AuditReconstructsQueue /\ [Next]_vars => AuditReconstructsQueue'
<1> SUFFICES ASSUME TypeOK, AuditReconstructsQueue, [Next]_vars, NEW u \in Trials
             PROVE  Recorded(u)'
  BY DEF AuditReconstructsQueue, Recorded, Reserved, LastAbout
<1>1. Recorded(u) /\ queue[u] \in Row
  BY DEF AuditReconstructsQueue, Recorded, Reserved, LastAbout, TypeOK
<1>2. CASE UNCHANGED <<index, queue, log>>
  BY <1>1, <1>2 DEF Recorded
<1>3. ASSUME NEW r \in Runs, NEW b \in Budgets, CreateRun(r, b) PROVE Recorded(u)'
  BY <1>1, <1>3, OtherRecorded DEF CreateRun, Kinds
<1>4. ASSUME NEW r \in Runs, NEW k \in EventKeys, NEW e \in Events, AppendGraphEvent(r, k, e)
      PROVE  Recorded(u)'
  BY <1>1, <1>4, OtherRecorded DEF AppendGraphEvent, Kinds
<1>5. ASSUME NEW w \in Workers, NEW t \in Trials, NEW lease \in 1..MaxLease,
             NEW heard \in BOOLEAN, Claim(w, t, lease, heard)
      PROVE  Recorded(u)'
  <2>1. queue[t] \in Row /\ queue[t].attempts + 1 \in Nat
    BY DEF TypeOK, Row
  <2>2. queue'[t].attempts = queue[t].attempts + 1 /\ queue'[t].state = "running"
    BY <1>5, <2>1 DEF Claim, TypeOK, Row
  <2>3. u # t => queue'[u] = queue[u]
    BY <1>5 DEF Claim, TypeOK
  <2>4. /\ LogAppend(t[1], Record("trial_claimed", t[2], queue[t].attempts + 1, "running"))
        /\ UNCHANGED index /\ "trial_claimed" \in Kinds /\ "running" \in States
    BY <1>5 DEF Claim, Kinds, States
  <2>5. QED
    BY <1>1, <2>1, <2>2, <2>3, <2>4, TrialRecordKeeps
<1>6. ASSUME NEW t \in Trials, Reclaim(t) PROVE Recorded(u)'
  <2>1. "trial_reclaimed" \in Kinds
    BY DEF Kinds
  <2>2. QED
    BY <1>1, <1>6, <2>1, ReleaseRecorded DEF Reclaim
<1>7. ASSUME NEW w \in Workers, NEW receipt \in known, UseLease(w, receipt[1], receipt[2])
      PROVE  Recorded(u)'
  <2>1. receipt[1] \in Trials /\ receipt[2] \in Nat
    BY DEF TypeOK
  <2>2. QED
    BY <1>1, <1>7, <2>1, LeaseRecorded
<1>8. CASE Tick
  <2>1. queue'[u] = [queue[u] EXCEPT !.left = Earlier(queue[u].left),
                                     !.available = Earlier(queue[u].available)]
    BY <1>8 DEF Tick
  <2>2. queue'[u].attempts = queue[u].attempts /\ queue'[u].state = queue[u].state
    BY <1>1, <2>1 DEF Row
  <2>3. QED
    BY <1>1, <1>8, <2>2 DEF Tick, Recorded
<1>9. QED
  BY <1>1, <1>2, <1>3, <1>4, <1>5, <1>6, <1>7, <1>8, ReservationRecorded
  DEF Next, ClaimAny, ReclaimAny, SealResult, vars

\* Whoever replays the log of a run finds the state and the attempt of every queue
\* row: the last record about a trial is always the one of its last change (_append).
THEOREM AuditSafe == Spec => []AuditReconstructsQueue
<1>1. Init => AuditReconstructsQueue
  BY DEF Init, AuditReconstructsQueue, Reserved
<1>2. QED
  BY <1>1, AuditStep, TypeCorrect, PTL DEF Spec

-----------------------------------------------------------------------------
(* What no step takes back. *)

Extends(l, m) == Len(m) >= Len(l) /\ \A i \in DOMAIN l : m[i] = l[i]

LEMMA AppendExtends ==
    ASSUME NEW l \in Seq(Entry), NEW e \in Entry
    PROVE  Extends(l, Append(l, e))
  BY AppendProperties DEF Extends

LEMMA LogAppendExtends ==
    ASSUME TypeOK, NEW r \in Runs, NEW q \in Runs, NEW e \in Entry, LogAppend(r, e)
    PROVE  Extends(log[q], log'[q])
<1>1. log[q] \in Seq(Entry)
  BY DEF TypeOK
<1>2. CASE q = r
  BY <1>1, <1>2, AppendExtends DEF LogAppend, TypeOK
<1>3. CASE q # r
  <2>1. log'[q] = log[q]
    BY <1>3 DEF LogAppend, TypeOK
  <2>2. QED
    BY <1>1, <2>1 DEF Extends
<1>4. QED
  BY <1>2, <1>3

LEMMA LogExtends ==
    ASSUME TypeOK, [Next]_vars, NEW q \in Runs
    PROVE  Extends(log[q], log'[q])
<1>1. log[q] \in Seq(Entry)
  BY DEF TypeOK
<1>2. CASE UNCHANGED log
  BY <1>1, <1>2 DEF Extends
<1>3. ASSUME NEW r \in Runs, NEW s \in Specs, ReserveTrial(r, s) PROVE Extends(log[q], log'[q])
  <2>1. PICK e1 \in Entry, e2 \in Entry :
            log' = [log EXCEPT ![r] = log[r] \o <<e1, e2>>]
    <3>1. PICK e1 \in Entry, e2 \in Entry : /\ e1 = Record("candidate_registered", s, 0, "none")
                                            /\ e2 = Record("trial_reserved", s, 0, "pending")
      BY RecordType DEF Kinds, States
    <3>2. QED
      BY <1>3, <3>1 DEF ReserveTrial
  <2>2. CASE q = r
    <3>1. log'[q] = log[q] \o <<e1, e2>>
      BY <2>1, <2>2 DEF TypeOK
    <3>2. QED
      BY <1>1, <3>1 DEF Extends
  <2>3. CASE q # r
    <3>1. log'[q] = log[q]
      BY <2>1, <2>3 DEF TypeOK
    <3>2. QED
      BY <1>1, <3>1 DEF Extends
  <2>4. QED
    BY <2>2, <2>3
<1>4. ASSUME NEW t \in Trials, NEW kind \in Kinds, NEW attempt \in Nat, NEW state \in States,
             LogAppend(t[1], Record(kind, t[2], attempt, state))
      PROVE  Extends(log[q], log'[q])
  <2>1. t[1] \in Runs /\ t[2] \in Specs
    BY DEF Trials
  <2>2. Record(kind, t[2], attempt, state) \in Entry
    BY <2>1, RecordType
  <2>3. QED
    BY <1>4, <2>1, <2>2, LogAppendExtends
<1>5. ASSUME NEW r \in Runs, NEW kind \in Kinds, NEW about \in EventKeys \cup {None},
             LogAppend(r, Record(kind, about, 0, "none"))
      PROVE  Extends(log[q], log'[q])
  <2>1. Record(kind, about, 0, "none") \in Entry
    BY RecordType DEF States
  <2>2. QED
    BY <1>5, <2>1, LogAppendExtends
<1>6. /\ {"run_created", "trial_claimed", "trial_reclaimed", "trial_completed", "trial_failed",
          "graph_event"} \subseteq Kinds
      /\ {"running", "completed"} \subseteq States
      /\ \A t \in Trials : AfterAttempt(t) \in States
      /\ \A t \in Trials : queue[t].attempts \in Nat /\ queue[t].attempts + 1 \in Nat
  BY DEF Kinds, States, AfterAttempt, TypeOK, Row
<1>7. ASSUME NEW r \in Runs, NEW b \in Budgets, CreateRun(r, b) PROVE Extends(log[q], log'[q])
  BY <1>5, <1>6, <1>7 DEF CreateRun
<1>8. ASSUME NEW r \in Runs, NEW k \in EventKeys, NEW e \in Events, AppendGraphEvent(r, k, e)
      PROVE  Extends(log[q], log'[q])
  BY <1>5, <1>6, <1>8 DEF AppendGraphEvent
<1>9. ASSUME NEW w \in Workers, NEW t \in Trials, NEW lease \in 1..MaxLease,
             NEW heard \in BOOLEAN, Claim(w, t, lease, heard)
      PROVE  Extends(log[q], log'[q])
  BY <1>4, <1>6, <1>9 DEF Claim
<1>10. ASSUME NEW t \in Trials, Reclaim(t) PROVE Extends(log[q], log'[q])
  BY <1>4, <1>6, <1>10 DEF Reclaim, LogTrial
<1>11. ASSUME NEW w \in Workers, NEW receipt \in known, UseLease(w, receipt[1], receipt[2])
       PROVE  Extends(log[q], log'[q])
  <2>1. receipt[1] \in Trials
    BY DEF TypeOK
  <2>2. PICK t \in Trials : \E k : t = receipt[1] /\ k = receipt[2]
    BY <2>1
  <2> PICK k : t = receipt[1] /\ k = receipt[2]
    BY <2>2
  <2>3. ASSUME NEW res \in Results, NEW heard \in BOOLEAN, CompleteFirst(w, t, k, res, heard)
        PROVE  Extends(log[q], log'[q])
    BY <1>4, <1>6, <2>3 DEF CompleteFirst, LogTrial
  <2>4. ASSUME NEW delay \in 0..MaxDelay, Fail(w, t, k, delay) PROVE Extends(log[q], log'[q])
    BY <1>4, <1>6, <2>4 DEF Fail, LogTrial
  <2>5. QED
    BY <1>2, <1>11, <2>2, <2>3, <2>4 DEF UseLease, Complete, Heartbeat, CompleteAgain, store
<1>12. QED
  BY <1>2, <1>3, <1>7, <1>8, <1>9, <1>10, <1>11
  DEF Next, ClaimAny, ReclaimAny, SealResult, Tick, vars

LEMMA RunKept ==
    ASSUME TypeOK, [Next]_vars, NEW q \in Runs
    PROVE  /\ runs[q] # None => runs'[q] = runs[q]
           /\ reserved'[q] >= reserved[q]
           /\ \A k \in EventKeys : notes[q][k] # None => notes'[q][k] = notes[q][k]
<1>1. reserved[q] \in Nat
  BY DEF TypeOK
<1>2. CASE UNCHANGED <<runs, reserved, notes>>
  BY <1>1, <1>2
<1>3. ASSUME NEW r \in Runs, NEW s \in Specs, ReserveTrial(r, s)
      PROVE  reserved'[q] >= reserved[q] /\ UNCHANGED <<runs, notes>>
  BY <1>1, <1>3 DEF ReserveTrial, TypeOK
<1>4. ASSUME NEW r \in Runs, NEW b \in Budgets, CreateRun(r, b)
      PROVE  (runs[q] # None => runs'[q] = runs[q]) /\ UNCHANGED <<reserved, notes>>
  BY <1>4 DEF CreateRun, TypeOK
<1>5. ASSUME NEW r \in Runs, NEW k \in EventKeys, NEW e \in Events, AppendGraphEvent(r, k, e)
      PROVE  /\ UNCHANGED <<runs, reserved>>
             /\ \A l \in EventKeys : notes[q][l] # None => notes'[q][l] = notes[q][l]
  BY <1>5 DEF AppendGraphEvent, TypeOK
<1>6. ASSUME NEW w \in Workers, NEW receipt \in known, UseLease(w, receipt[1], receipt[2])
      PROVE  UNCHANGED <<runs, reserved, notes>>
  BY <1>6 DEF UseLease, Complete, CompleteFirst, CompleteAgain, store, Heartbeat, Fail
<1>7. CASE ClaimAny \/ ReclaimAny \/ (\E t \in Trials, p \in Payloads : SealResult(t, p))
           \/ Tick \/ UNCHANGED vars
  BY <1>2, <1>7 DEF ClaimAny, ReclaimAny, Claim, Reclaim, SealResult, Tick, vars
<1>8. CASE \E r \in Runs, s \in Specs : ReserveTrial(r, s)
  BY <1>3, <1>8
<1>9. CASE \E r \in Runs, b \in Budgets : CreateRun(r, b)
  BY <1>1, <1>4, <1>9
<1>10. CASE \E r \in Runs, k \in EventKeys, e \in Events : AppendGraphEvent(r, k, e)
  BY <1>1, <1>5, <1>10
<1>11. CASE \E w \in Workers, receipt \in known : UseLease(w, receipt[1], receipt[2])
  BY <1>2, <1>6, <1>11
<1>12. QED
  BY <1>7, <1>8, <1>9, <1>10, <1>11 DEF Next

LEMMA TrialKept ==
    ASSUME TypeOK, RowsInv, [Next]_vars, NEW t \in Trials
    PROVE  /\ Reserved(t) => index'[t] = index[t]
           /\ queue'[t].attempts >= queue[t].attempts \/ queue[t].state = "none"
           /\ Terminal(t) => /\ queue'[t].state = queue[t].state
                             /\ queue'[t].result = queue[t].result
           /\ sealed[t] # None => sealed'[t] = sealed[t]
<1>1. RowMoves(t) /\ queue[t] \in Row /\ queue[t].attempts \in Nat
  BY StepMoves DEF TypeOK, Row
<1>2. queue'[t].attempts >= queue[t].attempts \/ queue[t].state = "none"
  BY <1>1 DEF RowMoves, Same, Reserves, Claims, Releases, Completes
<1>3. Terminal(t) => queue'[t].state = queue[t].state /\ queue'[t].result = queue[t].result
  BY <1>1 DEF Terminal, RowMoves, Same, Reserves, Claims, Releases, Completes
<1>4. ASSUME NEW w \in Workers, NEW receipt \in known, UseLease(w, receipt[1], receipt[2])
      PROVE  UNCHANGED <<index, sealed>>
  BY <1>4 DEF UseLease, Complete, CompleteFirst, CompleteAgain, store, Heartbeat, Fail
<1>5. ASSUME NEW r \in Runs, NEW s \in Specs, ReserveTrial(r, s)
      PROVE  (Reserved(t) => index'[t] = index[t]) /\ UNCHANGED sealed
  <2>1. index' = [index EXCEPT ![<<r, s>>] = reserved[r] + 1] /\ index[<<r, s>>] = 0
        /\ UNCHANGED sealed
    BY <1>5 DEF ReserveTrial
  <2>2. CASE t = <<r, s>>
    BY <2>1, <2>2 DEF Reserved
  <2>3. CASE t # <<r, s>>
    BY <2>1, <2>3 DEF TypeOK
  <2>4. QED
    BY <2>2, <2>3
<1>6. ASSUME NEW u \in Trials, NEW p \in Payloads, SealResult(u, p)
      PROVE  (sealed[t] # None => sealed'[t] = sealed[t]) /\ UNCHANGED index
  BY <1>6 DEF SealResult, TypeOK
<1>7. (Reserved(t) => index'[t] = index[t]) /\ (sealed[t] # None => sealed'[t] = sealed[t])
  BY <1>4, <1>5, <1>6
  DEF Next, ClaimAny, ReclaimAny, Claim, Reclaim, CreateRun, AppendGraphEvent, Tick, vars
<1>8. QED
  BY <1>2, <1>3, <1>7

\* A row that is not there yet has used no attempt.
BlankInv == \A t \in Trials : queue[t].state = "none" => queue[t].attempts = 0

LEMMA BlankStep == TypeOK /\ RowsInv /\ BlankInv /\ [Next]_vars => BlankInv'
<1> SUFFICES ASSUME TypeOK, RowsInv, BlankInv, [Next]_vars, NEW u \in Trials
             PROVE  queue'[u].state = "none" => queue'[u].attempts = 0
  BY DEF BlankInv
<1>1. RowMoves(u)
  BY StepMoves
<1>2. QED
  BY <1>1
  DEF BlankInv, RowMoves, Same, Reserves, Claims, Releases, Completes, AfterAttempt

\* What no step undoes: the action of NothingUndone.
Lasting ==
    /\ \A r \in Runs :
          /\ runs[r] # None => runs'[r] = runs[r]
          /\ reserved'[r] >= reserved[r]
          /\ Len(log'[r]) >= Len(log[r])
          /\ \A i \in DOMAIN log[r] : log'[r][i] = log[r][i]
          /\ \A k \in EventKeys : notes[r][k] # None => notes'[r][k] = notes[r][k]
    /\ \A t \in Trials :
          /\ Reserved(t) => index'[t] = index[t]
          /\ queue'[t].attempts >= queue[t].attempts
          /\ Terminal(t) => /\ queue'[t].state = queue[t].state
                            /\ queue'[t].result = queue[t].result
          /\ sealed[t] # None => sealed'[t] = sealed[t]

LEMMA LastingStep == TypeOK /\ RowsInv /\ BlankInv /\ [Next]_vars => [Lasting]_vars
<1> SUFFICES ASSUME TypeOK, RowsInv, BlankInv, [Next]_vars PROVE Lasting
  OBVIOUS
<1>1. ASSUME NEW r \in Runs
      PROVE  Len(log'[r]) >= Len(log[r]) /\ \A i \in DOMAIN log[r] : log'[r][i] = log[r][i]
  BY LogExtends DEF Extends
<1>2. ASSUME NEW t \in Trials PROVE queue'[t].attempts >= queue[t].attempts
  <2>1. queue'[t].attempts \in Nat
    BY TypeStep DEF TypeOK, Row
  <2>2. queue[t].state = "none" => queue[t].attempts = 0
    BY DEF BlankInv
  <2>3. QED
    BY <2>1, <2>2, TrialKept
<1>3. QED
  BY <1>1, <1>2, RunKept, TrialKept DEF Lasting

\* A reservation is never refunded, a settled trial never revived, a result, a record,
\* a note or a sealed record never rewritten: by no function of the store, in any order.
THEOREM NeverUndone == Spec => NothingUndone
<1>1. Init => BlankInv
  BY DEF Init, BlankInv, NoRow
<1>2. QED
  BY <1>1, LastingStep, BlankStep, TypeCorrect, RowsCorrect, PTL DEF Spec, NothingUndone, Lasting

-----------------------------------------------------------------------------
(***************************************************************************)
(* The store inside a program that calls it.  StoreGood is inductive under *)
(* every step of the store, whoever makes it and from whatever state, and  *)
(* holds where runs exist but no trial does, as when a client starts.      *)
(***************************************************************************)
StoreGood ==
    /\ TypeOK /\ RowsInv /\ ResultInv /\ BlankInv
    /\ BudgetRespected /\ AuditReconstructsQueue

NoTrials ==
    /\ reserved = [r \in Runs |-> 0]
    /\ index = [t \in Trials |-> 0]
    /\ queue = [t \in Trials |-> NoRow]
    /\ sealed = [t \in Trials |-> None]
    /\ known = {}
    /\ told = [t \in Trials |-> 0]
    /\ acked = [t \in Trials |-> {}]

LEMMA GoodStart == TypeOK /\ NoTrials => StoreGood
<1> SUFFICES ASSUME TypeOK, NoTrials PROVE StoreGood
  OBVIOUS
<1>1. \A t \in Trials : TrialInv(t)
  BY DEF NoTrials, TrialInv, NoRow
<1>2. ResultInv /\ BlankInv
  BY DEF NoTrials, ResultInv, BlankInv, NoRow
<1>3. BudgetRespected /\ AuditReconstructsQueue
  BY DEF NoTrials, BudgetRespected, AuditReconstructsQueue, Reserved, Trials
<1>4. QED
  BY <1>1, <1>2, <1>3 DEF StoreGood, RowsInv

LEMMA GoodStep == StoreGood /\ [Next]_vars => StoreGood'
  BY TypeStep, RowsStep, ResultStep, BlankStep, BudgetStep, AuditStep DEF StoreGood

LEMMA GoodGives ==
    StoreGood => /\ BudgetRespected /\ LeaseHonoured /\ NoTrialStranded
                 /\ AuditReconstructsQueue /\ AckedResultStored /\ SealedOnlyCompleted
  BY DEF StoreGood, RowsInv, TrialInv, TypeOK, LeaseHonoured, NoTrialStranded, Reserved,
         AckedResultStored, SealedOnlyCompleted

\* Every step of the store keeps what is settled and is one of AttemptedWork.
LEMMA GoodMoves ==
    StoreGood /\ [Next]_vars => [Lasting]_vars /\ [Work!Next]_(Work!workVars)
  BY LastingStep, WorkStep DEF StoreGood

\* A program whose steps change the store by the store's own steps only, and that
\* starts with runs but no trials, has all that this module proves of the store.
THEOREM ClientsSafe ==
    TypeOK /\ NoTrials /\ [][Next]_vars =>
        /\ [](/\ BudgetRespected /\ LeaseHonoured /\ NoTrialStranded
              /\ AuditReconstructsQueue /\ AckedResultStored /\ SealedOnlyCompleted)
        /\ NothingUndone
        /\ ImplementsWork
<1>1. TypeOK /\ NoTrials => Work!Init
  BY DEF NoTrials, Work!Init, NoRow
<1>2. QED
  BY <1>1, GoodStart, GoodStep, GoodGives, GoodMoves, PTL
  DEF NothingUndone, Lasting, ImplementsWork, Work!Spec
=============================================================================
