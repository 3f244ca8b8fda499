----------------------------- MODULE TrialQueue -----------------------------
(***************************************************************************)
(* The PostgreSQL trial store of sql/001_store.sql: runs with a frozen     *)
(* trial budget, deduplicated reservations, a leased work queue with       *)
(* bounded attempts, an append-only audit log per run, proposal notes and  *)
(* sealed results.                                                         *)
(*                                                                         *)
(* Each SQL function is one transaction that locks what it reads, so each  *)
(* is one action.  A call the code rejects raises and is rolled back: it   *)
(* changes nothing and is a stuttering step.  A call may be repeated, be   *)
(* delayed past its lease, or commit without its reply reaching the caller *)
(* ("heard" is FALSE).                                                     *)
(*                                                                         *)
(* The operators whose names begin with Slip are wrong variants of the     *)
(* definition below them: they are not part of the specification, and show *)
(* that the properties notice such a mistake.                              *)
(*                                                                         *)
(* A trial is named by what identifies it, <<run, candidate>> (the code's  *)
(* UNIQUE (run_id, candidate_hash)); the fresh UUID of a claim is named by *)
(* the attempt it was drawn for.  Timestamps are kept as the time left     *)
(* until them, which Tick counts down to 0.                                *)
(***************************************************************************)
EXTENDS Integers, Sequences, FiniteSets

CONSTANTS
    Runs,        \* run_id values
    Specs,       \* normalized candidate specifications, one per hash
    Workers,     \* database logins with the hal_worker role
    Budgets,     \* budgets a run can be created with
    Results,     \* result objects a worker may report
    EventKeys,   \* keys of proposal notes
    Events,      \* contents of proposal notes
    Payloads,    \* contents of sealed records
    MaxLease,    \* bound: the longest lease asked for, in ticks
    MaxDelay,    \* bound: the longest retry delay asked for, in ticks
    None         \* SQL NULL, or an absent row

ASSUME BudgetsAssumption == Budgets \subseteq [trials: Nat \ {0}, attempts: 1..100]
ASSUME TimeAssumption == MaxLease \in Nat \ {0} /\ MaxDelay \in Nat
ASSUME NoneAssumption ==
    None \notin Workers \cup Budgets \cup Results \cup Events \cup Payloads
ASSUME NamesAssumption ==
    /\ None \notin Specs \cup EventKeys
    /\ Specs \cap EventKeys = {}

VARIABLES
    runs,      \* runs: the frozen budget of a run, None before create_run
    reserved,  \* run_state.reserved_trials
    index,     \* trials.reservation_index, 0 for a trial never reserved
    queue,     \* the queue row of a trial
    log,       \* records: the audit log of a run
    notes,     \* graph_events by run and key
    sealed,    \* honest_alpha_sealed.records of a trial
    known,     \* <<trial, token>> of the claims whose reply arrived
    told,      \* time left of the lease the trial's worker was last told of
    acked      \* results a complete() call has returned for the trial

vars == <<runs, reserved, index, queue, log, notes, sealed, known, told, acked>>
store == <<runs, reserved, index, queue, log, notes, sealed>>

Trials == Runs \X Specs
States == {"none", "pending", "running", "completed", "failed"}
Kinds == {"run_created", "candidate_registered", "trial_reserved", "trial_claimed",
          "trial_reclaimed", "trial_completed", "trial_failed", "graph_event"}

Row == [state: States, attempts: Nat, max_attempts: Nat, available: Nat,
        owner: Workers \cup {None}, token: Nat, left: Nat, result: Results \cup {None}]

NoRow == [state |-> "none", attempts |-> 0, max_attempts |-> 0, available |-> 0,
          owner |-> None, token |-> 0, left |-> 0, result |-> None]

Entry == [kind: Kinds, about: Specs \cup EventKeys \cup {None}, attempt: Nat, state: States]

TypeOK ==
    /\ runs \in [Runs -> Budgets \cup {None}]
    /\ reserved \in [Runs -> Nat]
    /\ index \in [Trials -> Nat]
    /\ queue \in [Trials -> Row]
    /\ log \in [Runs -> Seq(Entry)]
    /\ notes \in [Runs -> [EventKeys -> Events \cup {None}]]
    /\ sealed \in [Trials -> Payloads \cup {None}]
    /\ known \subseteq Trials \X Nat
    /\ told \in [Trials -> Nat]
    /\ acked \in [Trials -> SUBSET Results]

Init ==
    /\ runs = [r \in Runs |-> None]
    /\ reserved = [r \in Runs |-> 0]
    /\ index = [t \in Trials |-> 0]
    /\ queue = [t \in Trials |-> NoRow]
    /\ log = [r \in Runs |-> <<>>]
    /\ notes = [r \in Runs |-> [k \in EventKeys |-> None]]
    /\ sealed = [t \in Trials |-> None]
    /\ known = {}
    /\ told = [t \in Trials |-> 0]
    /\ acked = [t \in Trials |-> {}]

-----------------------------------------------------------------------------
\* The state recorded is the one the row moves to; the other records leave it.
Record(kind, about, attempt, state) ==
    [kind |-> kind, about |-> about, attempt |-> attempt, state |-> state]

LogAppend(r, entry) == log' = [log EXCEPT ![r] = Append(@, entry)]

LogTrial(kind, t, state) ==
    LogAppend(t[1], Record(kind, t[2], queue[t].attempts, state))

Holds(t, w, k) == queue[t].owner = w /\ queue[t].token = k

SlipLiveLease(t, w, k) == Holds(t, w, k)

LiveLease(t, w, k) ==
    /\ queue[t].state = "running"
    /\ Holds(t, w, k)
    /\ queue[t].left > 0

SlipAfterAttempt(t) ==
    IF queue[t].attempts > queue[t].max_attempts THEN "failed" ELSE "pending"

SlipAfterAttemptName(t) ==
    IF queue[t].attempts >= queue[t].max_attempts THEN "exhausted" ELSE "pending"

\* An attempt that ends without a result is retried until none is left.
AfterAttempt(t) ==
    IF queue[t].attempts >= queue[t].max_attempts THEN "failed" ELSE "pending"

Released(t, delay) ==
    [queue[t] EXCEPT !.state = AfterAttempt(t), !.available = delay,
                     !.owner = None, !.token = 0, !.left = 0]

-----------------------------------------------------------------------------
\* A repeated call with the same inputs returns the stored run; with others it raises.
CreateRun(r, b) ==
    /\ runs[r] = None
    /\ runs' = [runs EXCEPT ![r] = b]
    /\ LogAppend(r, Record("run_created", None, 0, "none"))
    /\ UNCHANGED <<reserved, index, queue, notes, sealed, known, told, acked>>

SlipReserveTrial(r, s) ==
    /\ runs[r] # None
    /\ index[<<r, s>>] = 0
    /\ reserved[r] <= runs[r].trials
    /\ reserved' = [reserved EXCEPT ![r] = @ + 1]
    /\ index' = [index EXCEPT ![<<r, s>>] = reserved[r] + 1]
    /\ queue' = [queue EXCEPT ![<<r, s>>] =
                    [NoRow EXCEPT !.state = "pending", !.max_attempts = runs[r].attempts]]
    /\ UNCHANGED <<runs, log, notes, sealed, known, told, acked>>

\* A candidate already reserved returns its trial, before the budget is looked at.
ReserveTrial(r, s) ==
    /\ runs[r] # None
    /\ index[<<r, s>>] = 0
    /\ reserved[r] < runs[r].trials
    /\ reserved' = [reserved EXCEPT ![r] = @ + 1]
    /\ index' = [index EXCEPT ![<<r, s>>] = reserved[r] + 1]
    /\ queue' = [queue EXCEPT ![<<r, s>>] =
                    [NoRow EXCEPT !.state = "pending", !.max_attempts = runs[r].attempts]]
    /\ log' = [log EXCEPT ![r] = @ \o
                    <<Record("candidate_registered", s, 0, "none"),
                      Record("trial_reserved", s, 0, "pending")>>]
    /\ UNCHANGED <<runs, notes, sealed, known, told, acked>>

Claimable(t) ==
    /\ queue[t].state = "pending"
    /\ queue[t].available = 0
    /\ queue[t].attempts < queue[t].max_attempts

\* SKIP LOCKED: any ready row may be the oldest one not locked by another call.
Claim(w, t, lease, heard) ==
    LET attempt == queue[t].attempts + 1 IN
    /\ Claimable(t)
    /\ queue' = [queue EXCEPT ![t] =
                    [@ EXCEPT !.state = "running", !.attempts = attempt,
                              !.owner = w, !.token = attempt, !.left = lease]]
    /\ LogAppend(t[1], Record("trial_claimed", t[2], attempt, "running"))
    /\ known' = IF heard THEN known \cup {<<t, attempt>>} ELSE known
    /\ told' = [told EXCEPT ![t] = IF heard THEN lease ELSE 0]
    /\ UNCHANGED <<runs, reserved, index, notes, sealed, acked>>

SlipHeartbeat(w, t, k, lease, heard) ==
    /\ LiveLease(t, w, k)
    /\ queue' = [queue EXCEPT ![t].left = lease]
    /\ told' = [told EXCEPT ![t] = IF heard THEN lease ELSE @]
    /\ UNCHANGED <<runs, reserved, index, log, notes, sealed, known, acked>>

\* The later of the two deadlines stays: a heartbeat never shortens a lease.
Heartbeat(w, t, k, lease, heard) ==
    LET left == IF queue[t].left > lease THEN queue[t].left ELSE lease IN
    /\ LiveLease(t, w, k)
    /\ queue' = [queue EXCEPT ![t].left = left]
    /\ told' = [told EXCEPT ![t] = IF heard THEN left ELSE @]
    /\ UNCHANGED <<runs, reserved, index, log, notes, sealed, known, acked>>

SlipReclaim(t) ==
    /\ queue[t].state = "running"
    /\ queue[t].left = 0
    /\ queue[t].attempts < queue[t].max_attempts
    /\ queue' = [queue EXCEPT ![t] = Released(t, 0)]
    /\ LogTrial("trial_reclaimed", t, "pending")
    /\ UNCHANGED <<runs, reserved, index, notes, sealed, known, told, acked>>

SlipReclaimRecord(t) ==
    /\ queue[t].state = "running"
    /\ queue[t].left = 0
    /\ queue' = [queue EXCEPT ![t] = Released(t, 0)]
    /\ LogTrial("trial_reclaimed", t, "pending")
    /\ UNCHANGED <<runs, reserved, index, notes, sealed, known, told, acked>>

\* One row of a reclaim() batch.
Reclaim(t) ==
    /\ queue[t].state = "running"
    /\ queue[t].left = 0
    /\ queue' = [queue EXCEPT ![t] = Released(t, 0)]
    /\ LogTrial("trial_reclaimed", t, AfterAttempt(t))
    /\ UNCHANGED <<runs, reserved, index, notes, sealed, known, told, acked>>

\* The first completion stores the result.
CompleteFirst(w, t, k, res, heard) ==
    /\ LiveLease(t, w, k)
    /\ queue' = [queue EXCEPT ![t] =
                    [@ EXCEPT !.state = "completed", !.result = res, !.left = 0]]
    /\ LogTrial("trial_completed", t, "completed")
    /\ acked' = [acked EXCEPT ![t] = IF heard THEN @ \cup {res} ELSE @]
    /\ told' = [told EXCEPT ![t] = 0]
    /\ UNCHANGED <<runs, reserved, index, notes, sealed, known>>

SlipCompleteAgain(w, t, k, res) ==
    /\ Holds(t, w, k)
    /\ queue[t].state = "completed"
    /\ acked' = [acked EXCEPT ![t] = @ \cup {res}]
    /\ UNCHANGED <<store, known, told>>

\* The same lease repeating the stored result is answered with it, even after
\* the deadline; any other result is refused.
CompleteAgain(w, t, k, res) ==
    /\ Holds(t, w, k)
    /\ queue[t].state = "completed"
    /\ queue[t].result = res
    /\ acked' = [acked EXCEPT ![t] = @ \cup {res}]
    /\ UNCHANGED <<store, known, told>>

Complete(w, t, k, res, heard) ==
    CompleteFirst(w, t, k, res, heard) \/ CompleteAgain(w, t, k, res)

Fail(w, t, k, delay) ==
    /\ LiveLease(t, w, k)
    /\ queue' = [queue EXCEPT ![t] = Released(t, delay)]
    /\ LogTrial("trial_failed", t, AfterAttempt(t))
    /\ told' = [told EXCEPT ![t] = 0]
    /\ UNCHANGED <<runs, reserved, index, notes, sealed, known, acked>>

\* Repeating a note is answered with it; another note under its key is refused.
AppendGraphEvent(r, k, e) ==
    /\ runs[r] # None
    /\ notes[r][k] = None
    /\ notes' = [notes EXCEPT ![r][k] = e]
    /\ LogAppend(r, Record("graph_event", k, 0, "none"))
    /\ UNCHANGED <<runs, reserved, index, queue, sealed, known, told, acked>>

SealResult(t, p) ==
    /\ queue[t].state = "completed"
    /\ sealed[t] = None
    /\ sealed' = [sealed EXCEPT ![t] = p]
    /\ UNCHANGED <<runs, reserved, index, queue, log, notes, known, told, acked>>

-----------------------------------------------------------------------------
Earlier(n) == IF n > 0 THEN n - 1 ELSE 0

\* The database clock advances by the unit of the bounds.
Tick ==
    /\ \E t \in Trials : queue[t].left > 0 \/ queue[t].available > 0
    /\ queue' = [t \in Trials |-> [queue[t] EXCEPT !.left = Earlier(@),
                                                   !.available = Earlier(@)]]
    /\ told' = [t \in Trials |-> Earlier(told[t])]
    /\ UNCHANGED <<runs, reserved, index, log, notes, sealed, known, acked>>

ClaimAny == \E w \in Workers, t \in Trials, lease \in 1..MaxLease, heard \in BOOLEAN :
                Claim(w, t, lease, heard)

ReclaimAny == \E t \in Trials : Reclaim(t)

HeartbeatOf(t) ==
    \E w \in Workers, lease \in 1..MaxLease, heard \in BOOLEAN :
        \E k \in 1..queue[t].attempts :
            <<t, k>> \in known /\ Heartbeat(w, t, k, lease, heard)

\* What a worker that was handed a token can do with it, then or much later.
UseLease(w, t, k) ==
    \/ \E lease \in 1..MaxLease, heard \in BOOLEAN : Heartbeat(w, t, k, lease, heard)
    \/ \E res \in Results, heard \in BOOLEAN : Complete(w, t, k, res, heard)
    \/ \E delay \in 0..MaxDelay : Fail(w, t, k, delay)

Next ==
    \/ \E r \in Runs, b \in Budgets : CreateRun(r, b)
    \/ \E r \in Runs, s \in Specs : ReserveTrial(r, s)
    \/ ClaimAny
    \/ ReclaimAny
    \/ \E w \in Workers, receipt \in known : UseLease(w, receipt[1], receipt[2])
    \/ \E r \in Runs, k \in EventKeys, e \in Events : AppendGraphEvent(r, k, e)
    \/ \E t \in Trials, p \in Payloads : SealResult(t, p)
    \/ Tick

Spec == Init /\ [][Next]_vars

\* The clock advances, and workers keep polling with reclaim() and claim().
FairSpec == Spec /\ WF_vars(Tick) /\ WF_vars(ReclaimAny) /\ WF_vars(ClaimAny)

-----------------------------------------------------------------------------
Reserved(t) == index[t] > 0
Terminal(t) == queue[t].state \in {"completed", "failed"}

\* reserve_trial under concurrent proposers: a run hands out the reservation
\* numbers 1..n once each, never more than its budget, and counts them all.
BudgetRespected ==
    \A r \in Runs :
        /\ reserved[r] > 0 => runs[r] # None /\ reserved[r] <= runs[r].trials
        /\ \A s \in Specs : index[<<r, s>>] <= reserved[r]
        /\ \A n \in 1..reserved[r] : \E s \in Specs : index[<<r, s>>] = n
        /\ \A s1, s2 \in Specs :
               index[<<r, s1>>] = index[<<r, s2>>] /\ Reserved(<<r, s1>>) => s1 = s2

\* claim, heartbeat, reclaim and late calls: as long as the last deadline its
\* worker was told of has not passed, the trial is still leased to it.
LeaseHonoured ==
    \A t \in Trials :
        told[t] > 0 => queue[t].state = "running" /\ told[t] <= queue[t].left

\* claim against fail and reclaim: the retry tests agree, so that a pending row
\* always has an attempt left (a row without one could never leave the queue),
\* and a row that failed used every attempt its run allows.
NoTrialStranded ==
    \A t \in Trials :
        /\ queue[t].state = "pending" => queue[t].attempts < queue[t].max_attempts
        /\ queue[t].state = "failed" => queue[t].attempts = queue[t].max_attempts
        /\ Reserved(t) => /\ queue[t].state # "none"
                          /\ queue[t].max_attempts = runs[t[1]].attempts

\* The audit log of a run determines its queue rows: the last record about a
\* trial carries the row's attempt and the state the row is in.
AuditReconstructsQueue ==
    \A t \in Trials :
        Reserved(t) =>
            \E i \in DOMAIN log[t[1]] :
                /\ log[t[1]][i].about = t[2]
                /\ log[t[1]][i].attempt = queue[t].attempts
                /\ log[t[1]][i].state = queue[t].state
                /\ \A j \in DOMAIN log[t[1]] : j > i => log[t[1]][j].about # t[2]

\* complete: every reply a worker ever got names the one result that is stored.
AckedResultStored ==
    \A t \in Trials : \A res \in acked[t] :
        queue[t].state = "completed" /\ queue[t].result = res

\* seal_result against completion: a sealed record is only ever found beside a
\* completed trial.
SealedOnlyCompleted ==
    \A t \in Trials : sealed[t] # None => queue[t].state = "completed"

\* No step refunds a reservation, revives a settled trial, changes a result, or
\* rewrites the log, the notes or a sealed record.
NothingUndone ==
    [][ /\ \A r \in Runs :
              /\ runs[r] # None => runs'[r] = runs[r]
              /\ reserved'[r] >= reserved[r]
              /\ Len(log'[r]) >= Len(log[r])
              /\ \A i \in DOMAIN log[r] : log'[r][i] = log[r][i]
              /\ \A k \in EventKeys : notes[r][k] # None => notes'[r][k] = notes[r][k]
        /\ \A t \in Trials :
              /\ Reserved(t) => index'[t] = index[t]
              /\ queue'[t].attempts >= queue[t].attempts
              /\ Terminal(t) => /\ queue'[t].state = queue[t].state
                                /\ queue'[t].result = queue[t].result
              /\ sealed[t] # None => sealed'[t] = sealed[t] ]_vars

\* The queue keeps the promise of AttemptedWork for every trial: leases, tokens,
\* reclaims, repeated calls and lost replies are steps it does not show.
Work == INSTANCE AttemptedWork WITH
            Items <- Trials, Outcomes <- Results, NoOutcome <- None,
            phase <- [t \in Trials |-> queue[t].state],
            tries <- [t \in Trials |-> queue[t].attempts],
            limit <- [t \in Trials |-> queue[t].max_attempts],
            outcome <- [t \in Trials |-> queue[t].result]
ImplementsWork == Work!Spec

\* A trial whose workers do not renew their leases for ever is settled, whatever
\* replies are lost and whichever workers stop: the claims run out.
EveryTrialSettles ==
    \A t \in Trials :
        (<>[][~HeartbeatOf(t)]_vars) => (Reserved(t) ~> Terminal(t))
=============================================================================
