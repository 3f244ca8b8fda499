------------------------- MODULE ResearchLoopProofs -------------------------
(***************************************************************************)
(* Theorems about ResearchLoop, for every value of its constants: what the *)
(* agents of a round are shown, that the evidence of a stored result is    *)
(* there, and that the coordinator's count of evaluations is enough.       *)
(*                                                                         *)
(* ResearchLoop is composed with TrialQueue.  What its steps do to the     *)
(* rows of the queue is put in a few words first (StoreMoves), and all     *)
(* that follows is about those.                                            *)
(***************************************************************************)
EXTENDS ResearchLoop, SumTheorems, TLAPS

\* The proofs about the store; the definitions it has of it are those of Store.
Queue == INSTANCE TrialQueueProofs

Trials == Store!Trials
ReservedTrials == {t \in Trials : index[t] > 0}

StoreTypes ==
    /\ runs \in [Runs -> Budgets] /\ reserved \in [Runs -> Nat]
    /\ index \in [Trials -> Nat] /\ queue \in [Trials -> Store!Row]

\* Only trials of the loop's run are ever reserved; a row's limit is its run's.
RowInv(t) ==
    /\ index[t] = 0 => queue[t].state = "none" /\ queue[t].attempts = 0
    /\ index[t] > 0 =>
         /\ t[1] = Run /\ queue[t].state # "none"
         /\ queue[t].max_attempts = runs[Run].attempts
         /\ queue[t].attempts <= queue[t].max_attempts
         /\ queue[t].state = "pending" => queue[t].attempts < queue[t].max_attempts

StoreInv ==
    /\ StoreTypes
    /\ \A t \in Trials : RowInv(t)
    /\ IsFiniteSet(ReservedTrials) /\ Cardinality(ReservedTrials) = reserved[Run]
    /\ reserved[Run] <= runs[Run].trials

(***************************************************************************)
(* What a step does to the rows.                                           *)
(***************************************************************************)
Same(t) ==
    /\ queue'[t].state = queue[t].state /\ queue'[t].attempts = queue[t].attempts
    /\ queue'[t].max_attempts = queue[t].max_attempts /\ queue'[t].result = queue[t].result

Claims(t) ==
    /\ queue[t].state = "pending" /\ queue[t].attempts < queue[t].max_attempts
    /\ queue'[t].state = "running" /\ queue'[t].attempts = queue[t].attempts + 1
    /\ queue'[t].max_attempts = queue[t].max_attempts /\ queue'[t].result = queue[t].result

Releases(t) ==
    /\ queue[t].state = "running" /\ queue'[t].state = Store!AfterAttempt(t)
    /\ queue'[t].attempts = queue[t].attempts
    /\ queue'[t].max_attempts = queue[t].max_attempts /\ queue'[t].result = queue[t].result

Completes(t, res) ==
    /\ queue[t].state = "running" /\ queue'[t].state = "completed" /\ queue'[t].result = res
    /\ queue'[t].attempts = queue[t].attempts
    /\ queue'[t].max_attempts = queue[t].max_attempts

\* It is a worker with an answer that completes a trial.
Reports(t) ==
    \E w \in Workers : /\ hand[w].at = "answered" /\ hand[w].trial = t
                       /\ Completes(t, hand[w].reply)

RowMoves(t) ==
    /\ UNCHANGED <<runs, reserved, index>>
    /\ Claims(t) \/ Releases(t) \/ Reports(t)
    /\ \A u \in Trials \ {t} : Same(u)

Reserves(s) ==
    /\ index[<<Run, s>>] = 0 /\ reserved[Run] < runs[Run].trials
    /\ runs' = runs
    /\ reserved' = [reserved EXCEPT ![Run] = @ + 1]
    /\ index' = [index EXCEPT ![<<Run, s>>] = reserved[Run] + 1]
    /\ queue'[<<Run, s>>].state = "pending" /\ queue'[<<Run, s>>].attempts = 0
    /\ queue'[<<Run, s>>].max_attempts = runs[Run].attempts
    /\ queue'[<<Run, s>>].result = None
    /\ \A u \in Trials \ {<<Run, s>>} : Same(u)

NoMove == UNCHANGED <<runs, reserved, index>> /\ \A t \in Trials : Same(t)

StoreMoves ==
    /\ queue' \in [Trials -> Store!Row]
    /\ \/ NoMove
       \/ \E t \in Trials : RowMoves(t)
       \/ \E s \in Specs : LoopAt("reserve") /\ s = Proposal /\ Reserves(s)

(***************************************************************************)
(* What a worker has in hand: a trial with evidence for as many objects as *)
(* its child has put, all of them when it has answered "evaluated".        *)
(***************************************************************************)
HandOK(h) ==
    /\ h.at \in {"run", "answered"} =>
         /\ h.trial \in Trials
         /\ \A i \in 1..h.puts : <<Evidence[i], h.trial[2]>> \in artifacts
    /\ h.at = "answered" =>
         h.reply \in Results /\ (h.reply = "evaluated" => h.puts = Len(Evidence))

HandsInv == hand \in [Workers -> Hands] /\ \A w \in Workers : HandOK(hand[w])

(***************************************************************************)
(* The rounds.  The files before the current one are written, and the      *)
(* ideas of the round are in the vault before any of them is submitted.    *)
(***************************************************************************)
Early == {"feedback", "memory", "propose"}
Submits == {"submit", "reserve", "link"}

RoundInv ==
    /\ loop \in Loops /\ started \in 0..MaxRounds
    /\ vault \in [VaultFiles -> Proposals \cup {None, Torn, "written"}]
    /\ Ideas <= 2
    /\ loop.at \in Early \cup {"record", "write"} \cup Submits =>
         started >= 1 /\ loop.round \in RoundIds
    /\ loop.at \in Early => loop.n = 1
    /\ loop.at \in {"record", "write"} =>
         loop.n <= 2 * Ideas + 2 /\ \A i \in 1..(loop.n - 1) : vault[File(i)] = Content(i)
    /\ loop.at = "write" => FilesLeft /\ vault[File(loop.n)] = Torn
    /\ loop.at \in Submits => \A i \in 1..Ideas : vault[<<"json", Candidate(i)>>] = loop.ideas[i]
    /\ loop.at \in {"reserve", "link"} => loop.n <= Ideas
    /\ loop.at = "reserve" => Proposal # Idea

\* The idea behind every reserved trial is in the vault.
VaultInv ==
    \A s \in Specs : index[<<Run, s>>] > 0 => \E c \in Candidates : vault[<<"json", c>>] = s

\* Nothing is pending or running while the agents are shown what there is.
SettledInv ==
    /\ loop.at \in Early => Outstanding = {}
    /\ loop.at \in {"memory", "propose"} => loop.seen = Completed
    /\ loop.at = "propose" => \A s \in Specs : index[<<Run, s>>] > 0 => s \in loop.shown

(***************************************************************************)
(* The drain.  Its calls left and the attempts made add up to the attempts *)
(* that the run's trials can have.                                         *)
(***************************************************************************)
tries == [t \in Trials |-> queue[t].attempts]
AllTries == Sum(tries, ReservedTrials)
MaxTries == runs[Run].trials * runs[Run].attempts

DrainInv ==
    /\ hand[Own].at # "idle" <=> LoopAt("work")
    /\ LoopAt("drain") => AllTries + loop.left >= MaxTries
    /\ LoopAt("work") =>
         AllTries + loop.left + (IF hand[Own].at = "claim" THEN 1 ELSE 0) >= MaxTries

IInv ==
    /\ StoreInv /\ HandsInv /\ EvidenceStored
    /\ RoundInv /\ VaultInv /\ SettledInv
    /\ DrainInv

-----------------------------------------------------------------------------
(* The calls of the store. *)

LEMMA StoreStays ==
    ASSUME StoreTypes, UNCHANGED <<runs, reserved, index, queue>>
    PROVE  StoreMoves
BY DEF StoreTypes, StoreMoves, NoMove, Same

LEMMA ClaimedRow ==
    ASSUME NEW q \in Store!Row, NEW w \in Workers, NEW attempt \in Nat, NEW lease \in Nat
    PROVE  [q EXCEPT !.state = "running", !.attempts = attempt,
                     !.owner = w, !.token = attempt, !.left = lease] \in Store!Row
<1>1. "running" \in Store!States /\ w \in Workers \cup {None}
  BY DEF Store!States
<1>2. QED
  BY <1>1, Zenon DEF Store!Row

LEMMA CompletedRow ==
    ASSUME NEW q \in Store!Row, NEW res \in Results
    PROVE  [q EXCEPT !.state = "completed", !.result = res, !.left = 0] \in Store!Row
<1>1. "completed" \in Store!States /\ res \in Results \cup {None} /\ 0 \in Nat
  BY DEF Store!States
<1>2. QED
  BY <1>1, Zenon DEF Store!Row

LEMMA ClaimMoves ==
    ASSUME StoreTypes, NEW w \in Workers, NEW t \in Trials, NEW heard \in BOOLEAN,
           Store!Claim(w, t, MaxLease, heard)
    PROVE  StoreMoves /\ RowMoves(t) /\ Claims(t)
<1> DEFINE row == [queue[t] EXCEPT !.state = "running", !.attempts = queue[t].attempts + 1,
                                   !.owner = w, !.token = queue[t].attempts + 1,
                                   !.left = MaxLease]
<1>1. /\ queue[t].state = "pending" /\ queue[t].attempts < queue[t].max_attempts
      /\ queue' = [queue EXCEPT ![t] = row] /\ UNCHANGED <<runs, reserved, index>>
  BY DEF Store!Claim, Store!Claimable
<1>2. /\ queue[t] \in Store!Row /\ MaxLease \in Nat /\ queue[t].attempts + 1 \in Nat
  BY StoreAssumption DEF StoreTypes, Store!Row
<1>3. row \in Store!Row
  BY <1>2, ClaimedRow
<1>4. queue'[t] = row /\ \A u \in Trials \ {t} : queue'[u] = queue[u]
  BY <1>1 DEF StoreTypes
<1>5. Claims(t)
  <2>1. /\ row.state = "running" /\ row.attempts = queue[t].attempts + 1
        /\ row.max_attempts = queue[t].max_attempts /\ row.result = queue[t].result
    BY <1>2 DEF Store!Row
  <2> HIDE DEF row
  <2>2. QED
    BY <1>1, <1>4, <2>1 DEF Claims
<1> HIDE DEF row
<1>6. queue' \in [Trials -> Store!Row] /\ \A u \in Trials \ {t} : Same(u)
  BY <1>1, <1>3, <1>4 DEF StoreTypes, Same
<1>7. QED
  BY <1>1, <1>5, <1>6 DEF StoreMoves, RowMoves

LEMMA ReleaseMoves ==
    ASSUME StoreTypes, NEW t \in Trials, queue[t].state = "running",
           queue' = [queue EXCEPT ![t] = Store!Released(t, 0)],
           UNCHANGED <<runs, reserved, index>>
    PROVE  StoreMoves
<1>1. queue[t] \in Store!Row /\ Store!AfterAttempt(t) \in {"failed", "pending"}
  BY DEF StoreTypes, Store!AfterAttempt
<1>2. /\ Store!Released(t, 0) \in Store!Row
      /\ Store!Released(t, 0).state = Store!AfterAttempt(t)
      /\ Store!Released(t, 0).attempts = queue[t].attempts
      /\ Store!Released(t, 0).max_attempts = queue[t].max_attempts
      /\ Store!Released(t, 0).result = queue[t].result
  BY <1>1 DEF Store!Row, Store!States, Store!Released
<1>3. /\ queue'[t] = Store!Released(t, 0) /\ \A u \in Trials \ {t} : queue'[u] = queue[u]
      /\ queue' \in [Trials -> Store!Row]
  BY <1>2 DEF StoreTypes
<1>4. Releases(t) /\ \A u \in Trials \ {t} : Same(u)
  BY <1>2, <1>3 DEF Releases, Same
<1>5. QED
  BY <1>3, <1>4 DEF StoreMoves, RowMoves

LEMMA FailMoves ==
    ASSUME StoreTypes, NEW w \in Workers, hand[w].trial \in Trials, Failing(w)
    PROVE  StoreMoves
<1>1. CASE Store!Fail(w, hand[w].trial, hand[w].token, 0)
  BY <1>1, ReleaseMoves DEF Store!Fail, Store!LiveLease
<1>2. CASE UNCHANGED store
  BY <1>2, StoreStays DEF store
<1>3. QED
  BY <1>1, <1>2 DEF Failing

LEMMA HeartbeatMoves ==
    ASSUME StoreTypes, NEW w \in Workers, NEW t \in Trials, NEW k, NEW heard \in BOOLEAN,
           Store!Heartbeat(w, t, k, MaxLease, heard)
    PROVE  StoreMoves
<1> DEFINE left == IF queue[t].left > MaxLease THEN queue[t].left ELSE MaxLease
<1>1. queue' = [queue EXCEPT ![t].left = left] /\ UNCHANGED <<runs, reserved, index>>
  BY DEF Store!Heartbeat
<1>2. left \in Nat
  BY StoreAssumption DEF StoreTypes, Store!Row
<1> HIDE DEF left
<1>3. queue' \in [Trials -> Store!Row] /\ \A u \in Trials : Same(u)
  BY <1>1, <1>2 DEF StoreTypes, Store!Row, Same
<1>4. QED
  BY <1>1, <1>3 DEF StoreMoves, NoMove

LEMMA TickMoves ==
    ASSUME StoreTypes, Store!Tick
    PROVE  StoreMoves
<1> DEFINE row(t) == [queue[t] EXCEPT !.left = Store!Earlier(queue[t].left),
                                      !.available = Store!Earlier(queue[t].available)]
<1>1. queue' = [t \in Trials |-> row(t)] /\ UNCHANGED <<runs, reserved, index>>
  BY DEF Store!Tick, Trials
<1>2. ASSUME NEW t \in Trials
      PROVE  row(t) \in Store!Row /\ queue'[t] = row(t) /\ Same(t)
  <2>1. queue[t] \in Store!Row
    BY DEF StoreTypes
  <2>2. Store!Earlier(queue[t].left) \in Nat /\ Store!Earlier(queue[t].available) \in Nat
    BY <2>1 DEF Store!Earlier, Store!Row
  <2>3. row(t) \in Store!Row
    BY <2>1, <2>2 DEF Store!Row
  <2>4. queue'[t] = row(t)
    BY <1>1
  <2>5. Same(t)
    BY <2>1, <2>4 DEF Same, Store!Row
  <2>6. QED
    BY <2>3, <2>4, <2>5
<1> HIDE DEF row
<1>3. QED
  BY <1>1, <1>2 DEF StoreMoves, NoMove

LEMMA CompleteMoves ==
    ASSUME StoreTypes, NEW w \in Workers, hand[w].at = "answered", hand[w].trial \in Trials,
           hand[w].reply \in Results, NEW heard \in BOOLEAN,
           Store!CompleteFirst(w, hand[w].trial, hand[w].token, hand[w].reply, heard)
    PROVE  StoreMoves
<1> DEFINE t == hand[w].trial
           row == [queue[t] EXCEPT !.state = "completed", !.result = hand[w].reply, !.left = 0]
<1>1. /\ queue[t].state = "running" /\ queue' = [queue EXCEPT ![t] = row]
      /\ UNCHANGED <<runs, reserved, index>> /\ t \in Trials
  BY DEF Store!CompleteFirst, Store!LiveLease
<1>2. row \in Store!Row /\ queue[t] \in Store!Row
  BY CompletedRow DEF StoreTypes
<1>3. queue'[t] = row /\ \A u \in Trials \ {t} : queue'[u] = queue[u]
  BY <1>1 DEF StoreTypes
<1>4. Reports(t)
  <2>1. /\ row.state = "completed" /\ row.result = hand[w].reply
        /\ row.attempts = queue[t].attempts /\ row.max_attempts = queue[t].max_attempts
    BY <1>2 DEF Store!Row
  <2> HIDE DEF row
  <2>2. QED
    BY <1>1, <1>3, <2>1 DEF Reports, Completes
<1> HIDE DEF row
<1>5. queue' \in [Trials -> Store!Row] /\ \A u \in Trials \ {t} : Same(u)
  BY <1>1, <1>2, <1>3 DEF StoreTypes, Same
<1>6. QED
  BY <1>1, <1>4, <1>5 DEF StoreMoves, RowMoves

LEMMA ReserveMoves ==
    ASSUME StoreTypes, NEW s \in Specs, LoopAt("reserve"), s = Proposal,
           Store!ReserveTrial(Run, s)
    PROVE  StoreMoves
<1> DEFINE t == <<Run, s>>
           row == [Store!NoRow EXCEPT !.state = "pending", !.max_attempts = runs[Run].attempts]
<1>1. /\ index[t] = 0 /\ reserved[Run] < runs[Run].trials /\ runs' = runs
      /\ reserved' = [reserved EXCEPT ![Run] = @ + 1]
      /\ index' = [index EXCEPT ![t] = reserved[Run] + 1]
      /\ queue' = [queue EXCEPT ![t] = row]
  BY DEF Store!ReserveTrial
<1>2. t \in Trials /\ runs[Run].attempts \in Nat
  <2>1. runs[Run] \in Budgets
    BY LoopAssumption DEF StoreTypes
  <2>2. QED
    BY <2>1, LoopAssumption, StoreAssumption DEF Trials, Store!Trials
<1>3. /\ row \in Store!Row /\ row.state = "pending" /\ row.attempts = 0
      /\ row.max_attempts = runs[Run].attempts /\ row.result = None
  BY <1>2 DEF Store!Row, Store!NoRow, Store!States
<1>4. queue'[t] = row /\ \A u \in Trials \ {t} : queue'[u] = queue[u]
  BY <1>1, <1>2 DEF StoreTypes
<1> HIDE DEF row
<1>5. queue' \in [Trials -> Store!Row] /\ \A u \in Trials \ {t} : Same(u)
  BY <1>1, <1>3, <1>4 DEF StoreTypes, Same
<1>6. Reserves(s)
  BY <1>1, <1>3, <1>4, <1>5 DEF Reserves
<1>7. QED
  BY <1>5, <1>6 DEF StoreMoves

\* The candidate that is being submitted.
LEMMA ProposalType ==
    ASSUME RoundInv, loop.at \in {"reserve", "link"}
    PROVE  /\ Proposal \in Proposals /\ loop.n \in 1..2 /\ Candidate(loop.n) \in Candidates
           /\ vault[<<"json", Candidate(loop.n)>>] = Proposal
<1>1. /\ loop.ideas \in Seq(Proposals) /\ loop.n \in Nat \ {0} /\ loop.n <= Len(loop.ideas)
      /\ Len(loop.ideas) \in Nat /\ Len(loop.ideas) <= 2
      /\ started \in 1..MaxRounds
      /\ \A i \in 1..Len(loop.ideas) : vault[<<"json", Candidate(i)>>] = loop.ideas[i]
  BY DEF RoundInv, Loops, Ideas, Submits
<1>2. loop.n \in 1..Len(loop.ideas) /\ loop.n \in 1..2
  BY <1>1
<1>3. Proposal \in Proposals
  BY <1>1, <1>2 DEF Proposal
<1>4. Candidate(loop.n) \in Candidates
  BY <1>1, <1>2 DEF Candidate, Candidates
<1>5. vault[<<"json", Candidate(loop.n)>>] = Proposal
  BY <1>1, <1>2 DEF Proposal
<1>6. QED
  BY <1>2, <1>3, <1>4, <1>5

LEMMA ReservedIsSpec ==
    ASSUME RoundInv, LoopAt("reserve"), Proposal # Invalid
    PROVE  Proposal \in Specs
BY ProposalType DEF RoundInv, LoopAt, Proposals

\* The coordinator's steps reserve at most; they leave the store's log and notes aside.
LEMMA LoopMoves ==
    ASSUME StoreTypes, RoundInv, LoopStep
    PROVE  StoreMoves
<1>1. CASE UNCHANGED store
  BY <1>1, StoreStays DEF store
<1>2. ASSUME NEW key, NEW content, Store!AppendGraphEvent(Run, key, content)
      PROVE  StoreMoves
  <2>1. UNCHANGED <<runs, reserved, index, queue>>
    BY <1>2 DEF Store!AppendGraphEvent
  <2>2. QED
    BY <2>1, StoreStays
<1>3. CASE Reserve /\ Store!ReserveTrial(Run, Proposal)
  <2>1. LoopAt("reserve") /\ Proposal \in Specs
    BY <1>3, ReservedIsSpec DEF Reserve
  <2>2. QED
    BY <1>3, <2>1, ReserveMoves
<1>4. QED
  BY <1>1, <1>2, <1>3
  DEF LoopStep, StartRound, ReadFeedback, ReadMemory, MemoryTorn, Propose, CreateFile, WriteFile,
      RoundTaken, Recorded, NoteIdea, NotSubmitted, Submit, Reject, Reserve, NoBudget, Link,
      Drain, DrainStep, DrainClosed, DrainSpent, LastFeedback

\* A worker with a trial holds one, and one with an answer a result.
LEMMA HandHolds ==
    ASSUME HandsInv, NEW w \in Workers, hand[w].at \in {"run", "answered"}
    PROVE  hand[w].trial \in Trials /\ (hand[w].at = "answered" => hand[w].reply \in Results)
BY DEF HandsInv, HandOK

LEMMA WorkMoves ==
    ASSUME StoreTypes, HandsInv, NEW w \in Workers,
           Work(w) \/ Heartbeat(w) \/ WorkerKilled(w)
    PROVE  StoreMoves
<1>1. CASE UNCHANGED store
  BY <1>1, StoreStays DEF store
<1>2. CASE ReclaimRow(w)
  <2>1. PICK t \in Trials : Store!Reclaim(t)
    BY <1>2 DEF ReclaimRow, Store!ReclaimAny, Trials
  <2>2. QED
    BY <2>1, ReleaseMoves DEF Store!Reclaim
<1>3. ASSUME NEW t \in Trials, ClaimTrial(w, t) \/ ClaimLost(w, t) PROVE StoreMoves
  BY <1>3, ClaimMoves DEF ClaimTrial, ClaimLost
<1>4. CASE hand[w].at = "run" /\ Failing(w)
  BY <1>4, HandHolds, FailMoves
<1>5. CASE /\ hand[w].at = "run"
           /\ \E heard \in BOOLEAN :
                Store!Heartbeat(w, hand[w].trial, hand[w].token, MaxLease, heard)
  BY <1>5, HandHolds, HeartbeatMoves
<1>6. CASE /\ hand[w].at = "answered"
           /\ \E heard \in BOOLEAN : Store!CompleteFirst(w, hand[w].trial, hand[w].token,
                                                         hand[w].reply, heard)
  BY <1>6, HandHolds, CompleteMoves
<1>7. CASE hand[w].at = "answered" /\ Failing(w)
  BY <1>7, HandHolds, FailMoves
<1>8. CASE Poll(w) \/ NothingReady(w) \/ ChildPuts(w) \/ ChildSends(w) \/ ChildRefuses(w)
           \/ LeaseLost(w) \/ WorkerKilled(w)
  BY <1>1, <1>8 DEF Poll, NothingReady, ChildPuts, ChildSends, ChildRefuses, Answered, LeaseLost,
                    WorkerKilled
<1>9. CASE ChildFails(w)
  BY <1>4, <1>9 DEF ChildFails
<1>10. CASE Heartbeat(w) \/ HeartbeatBroken(w)
  <2>1. hand[w].at = "run"
    BY <1>10 DEF Heartbeat, HeartbeatBroken
  <2>2. \/ Store!Heartbeat(w, hand[w].trial, hand[w].token, MaxLease, TRUE)
        \/ Store!Heartbeat(w, hand[w].trial, hand[w].token, MaxLease, FALSE)
        \/ Failing(w)
    BY <1>10 DEF Heartbeat, HeartbeatBroken
  <2>3. QED
    BY <1>4, <1>5, <2>1, <2>2
<1>11. CASE Complete(w) \/ CompleteBroken(w)
  <2>1. hand[w].at = "answered"
    BY <1>11 DEF Complete, CompleteBroken
  <2>2. \/ Store!CompleteFirst(w, hand[w].trial, hand[w].token, hand[w].reply, TRUE)
        \/ Store!CompleteFirst(w, hand[w].trial, hand[w].token, hand[w].reply, FALSE)
        \/ Failing(w)
    BY <1>11 DEF Complete, CompleteBroken
  <2>3. QED
    BY <1>6, <1>7, <2>1, <2>2
<1>12. QED
  BY <1>2, <1>3, <1>8, <1>9, <1>10, <1>11 DEF Work, Trials

LEMMA StepMoves ==
    ASSUME StoreTypes, HandsInv, RoundInv, [Next]_vars
    PROVE  StoreMoves
<1>1. CASE LoopStep
  BY <1>1, LoopMoves
<1>2. ASSUME NEW w \in Workers, Work(w) \/ Heartbeat(w) \/ WorkerKilled(w) PROVE StoreMoves
  BY <1>2, WorkMoves
<1>3. CASE Tick
  BY <1>3, TickMoves DEF Tick
<1>4. CASE LoopKilled \/ RunExpires \/ UNCHANGED vars
  <2>1. UNCHANGED store
    BY <1>4 DEF LoopKilled, RunExpires, vars, store
  <2>2. QED
    BY <2>1, StoreStays DEF store
<1>5. QED
  BY <1>1, <1>2, <1>3, <1>4 DEF Next

-----------------------------------------------------------------------------
(* The rows. *)

LEMMA StoreKeeps ==
    ASSUME StoreInv, StoreMoves
    PROVE  StoreInv'
<1>1. StoreTypes /\ queue' \in [Trials -> Store!Row] /\ Run \in Runs
  BY LoopAssumption DEF StoreInv, StoreMoves
<1>2. CASE NoMove
  <2>1. \A t \in Trials : RowInv(t)'
    BY <1>2 DEF NoMove, Same, RowInv, StoreInv
  <2>2. ReservedTrials' = ReservedTrials
    BY <1>2 DEF NoMove, ReservedTrials
  <2>3. QED
    BY <1>1, <1>2, <2>1, <2>2 DEF NoMove, StoreInv, StoreTypes
<1>3. ASSUME NEW t \in Trials, RowMoves(t) PROVE StoreInv'
  <2>1. UNCHANGED <<runs, reserved, index>> /\ \A u \in Trials \ {t} : Same(u)
    BY <1>3 DEF RowMoves
  <2>2. \A u \in Trials \ {t} : RowInv(u)'
    BY <2>1 DEF Same, RowInv, StoreInv
  <2>3. RowInv(t)'
    <3>1. /\ RowInv(t) /\ queue[t].attempts \in Nat /\ queue[t].max_attempts \in Nat
          /\ index[t] \in Nat
      BY <1>1 DEF StoreInv, StoreTypes, Store!Row
    <3>2. CASE Claims(t)
      BY <2>1, <3>1, <3>2 DEF Claims, RowInv
    <3>3. CASE Releases(t)
      BY <2>1, <3>1, <3>3 DEF Releases, RowInv, Store!AfterAttempt
    <3>4. CASE Reports(t)
      BY <2>1, <3>1, <3>4 DEF Reports, Completes, RowInv
    <3>5. QED
      BY <1>3, <3>2, <3>3, <3>4 DEF RowMoves
  <2>4. ReservedTrials' = ReservedTrials
    BY <2>1 DEF ReservedTrials
  <2>5. QED
    BY <1>1, <2>1, <2>2, <2>3, <2>4 DEF StoreInv, StoreTypes
<1>4. ASSUME NEW s \in Specs, Reserves(s) PROVE StoreInv'
  <2> DEFINE t == <<Run, s>>
  <2>1. /\ t \in Trials /\ index[t] = 0 /\ reserved[Run] < runs[Run].trials /\ runs' = runs
        /\ reserved' = [reserved EXCEPT ![Run] = @ + 1]
        /\ index' = [index EXCEPT ![t] = reserved[Run] + 1]
        /\ \A u \in Trials \ {t} : Same(u)
    BY <1>1, <1>4 DEF Reserves, Trials, Store!Trials
  <2>2. /\ reserved[Run] \in Nat /\ reserved'[Run] = reserved[Run] + 1
        /\ reserved' \in [Runs -> Nat] /\ index' \in [Trials -> Nat]
        /\ index'[t] = reserved[Run] + 1 /\ \A u \in Trials \ {t} : index'[u] = index[u]
    BY <1>1, <2>1 DEF StoreTypes
  <2>3. runs[Run].attempts \in 1..100 /\ runs[Run].trials \in Nat
    <3>1. runs[Run] \in Budgets
      BY <1>1 DEF StoreTypes
    <3>2. QED
      BY <3>1, StoreAssumption
  <2>4. \A u \in Trials \ {t} : RowInv(u)'
    BY <2>1, <2>2 DEF Same, RowInv, StoreInv
  <2>5. RowInv(t)'
    BY <1>4, <2>1, <2>2, <2>3 DEF Reserves, RowInv
  <2>6. ReservedTrials' = ReservedTrials \cup {t} /\ t \notin ReservedTrials
    BY <2>1, <2>2 DEF ReservedTrials
  <2>7. IsFiniteSet(ReservedTrials)
    BY DEF StoreInv
  <2>8. /\ IsFiniteSet(ReservedTrials \cup {t})
        /\ Cardinality(ReservedTrials \cup {t}) = Cardinality(ReservedTrials) + 1
    BY <2>6, <2>7, FS_AddElement
  <2>9. Cardinality(ReservedTrials)' = reserved'[Run] /\ reserved'[Run] <= runs'[Run].trials
    BY <2>1, <2>2, <2>3, <2>6, <2>8 DEF StoreInv
  <2> HIDE DEF t
  <2>10. QED
    BY <1>1, <2>1, <2>2, <2>4, <2>5, <2>6, <2>8, <2>9 DEF StoreInv, StoreTypes
<1>5. QED
  BY <1>2, <1>3, <1>4 DEF StoreMoves

-----------------------------------------------------------------------------
(* The workers' hands and the artifacts. *)

LEMMA ArtifactsStay == [Next]_vars => artifacts \subseteq artifacts'
<1> SUFFICES ASSUME [Next]_vars, artifacts' # artifacts PROVE artifacts \subseteq artifacts'
  OBVIOUS
<1>1. ~ LoopStep /\ ~ (LoopKilled \/ Tick \/ RunExpires) /\ ~ UNCHANGED vars
  BY DEF LoopStep, StartRound, ReadFeedback, ReadMemory, MemoryTorn, Propose, CreateFile, WriteFile,
         RoundTaken, Recorded, NoteIdea, NotSubmitted, Submit, Reject, Reserve, NoBudget, Link,
         Drain, DrainStep, DrainClosed, DrainSpent, LastFeedback, LoopKilled, Tick, RunExpires, vars
<1>2. PICK w \in Workers : Work(w) \/ Heartbeat(w) \/ WorkerKilled(w)
  BY <1>1 DEF Next
<1>3. ChildPuts(w)
  BY <1>2 DEF Work, Heartbeat, WorkerKilled, Poll, ReclaimRow, ClaimTrial, ClaimLost, NothingReady,
              ChildSends, ChildRefuses, ChildFails, HeartbeatBroken, LeaseLost, Complete,
              CompleteBroken, Answered
<1>4. QED
  BY <1>3 DEF ChildPuts

LEMMA HandChange ==
    ASSUME HandsInv, NEW w \in Workers, NEW new \in Hands, HandOK(new),
           hand' = [hand EXCEPT ![w] = new], artifacts' = artifacts
    PROVE  HandsInv'
<1>1. hand'[w] = new /\ \A v \in Workers \ {w} : hand'[v] = hand[v]
  BY DEF HandsInv
<1>2. \A v \in Workers : HandOK(hand'[v])
  BY <1>1 DEF HandsInv
<1>3. \A v \in Workers : HandOK(hand[v])'
  BY <1>2 DEF HandOK
<1>4. hand' \in [Workers -> Hands]
  BY DEF HandsInv
<1>5. QED
  BY <1>3, <1>4 DEF HandsInv

LEMMA FreeHand == Free \in Hands /\ HandOK(Free)
BY DEF Free, Hands, HandOK, Evidence

\* A worker asks for a trial.
LEMMA AskingHand ==
    ASSUME HandsInv, NEW w \in Workers, hand' = [hand EXCEPT ![w].at = "claim"],
           artifacts' = artifacts
    PROVE  HandsInv'
<1>1. PICK new : new = [hand[w] EXCEPT !.at = "claim"]
  OBVIOUS
<1>2. hand[w] \in Hands
  BY DEF HandsInv
<1>3. new \in Hands /\ new.at = "claim"
  BY <1>1, <1>2 DEF Hands
<1>4. HandOK(new)
  BY <1>3 DEF HandOK
<1>5. QED
  BY <1>1, <1>3, <1>4, HandChange

LEMMA AnsweredHand ==
    ASSUME HandsInv, NEW w \in Workers, NEW reply \in Results, hand[w].at = "run",
           reply = "evaluated" => hand[w].puts = Len(Evidence), Answered(w, reply)
    PROVE  HandsInv'
<1>1. PICK new : new = [hand[w] EXCEPT !.at = "answered", !.reply = reply]
  OBVIOUS
<1>2. hand[w] \in Hands /\ HandOK(hand[w])
  BY DEF HandsInv
<1>3. /\ new \in Hands /\ new.at = "answered" /\ new.reply = reply
      /\ new.trial = hand[w].trial /\ new.puts = hand[w].puts
  BY <1>1, <1>2 DEF Hands
<1>4. HandOK(new)
  BY <1>2, <1>3 DEF HandOK
<1>5. hand' = [hand EXCEPT ![w] = new] /\ artifacts' = artifacts
  BY <1>1 DEF Answered
<1>6. QED
  BY <1>3, <1>4, <1>5, HandChange

LEMMA ClaimedHand ==
    ASSUME HandsInv, StoreTypes, NEW w \in Workers, NEW t \in Trials, ClaimTrial(w, t)
    PROVE  HandsInv'
<1>1. PICK new : new = [Free EXCEPT !.at = "run", !.trial = t, !.token = queue[t].attempts + 1]
  OBVIOUS
<1>2. queue[t].attempts + 1 \in Nat
  BY DEF StoreTypes, Store!Row
<1>3. new \in Hands /\ new.at = "run" /\ new.trial = t /\ new.puts = 0
  <2>1. Free \in Hands /\ Free.puts = 0
    BY FreeHand DEF Free
  <2>2. t \in Trials
    OBVIOUS
  <2>3. QED
    BY <1>1, <1>2, <2>1, <2>2 DEF Hands, Trials
<1>4. HandOK(new)
  BY <1>3 DEF HandOK
<1>5. hand' = [hand EXCEPT ![w] = new] /\ artifacts' = artifacts
  BY <1>1 DEF ClaimTrial
<1>6. QED
  BY <1>3, <1>4, <1>5, HandChange

LEMMA PuttingHand ==
    ASSUME HandsInv, NEW w \in Workers, ChildPuts(w)
    PROVE  HandsInv'
<1>1. /\ hand[w] \in Hands /\ HandOK(hand[w]) /\ hand[w].at = "run" /\ hand[w].puts < Len(Evidence)
      /\ hand[w].trial \in Trials
  BY DEF HandsInv, ChildPuts, HandOK
<1>2. PICK n : n = hand[w].puts + 1
  OBVIOUS
<1>3. /\ hand[w].puts \in 0..Len(Evidence) /\ Len(Evidence) = 3
  BY <1>1 DEF Hands, Evidence
<1>4. n \in 0..Len(Evidence) /\ 1..n = 1..hand[w].puts \cup {n}
  BY <1>1, <1>2, <1>3
<1>5. PICK new : new = [hand[w] EXCEPT !.puts = n]
  OBVIOUS
<1>6. /\ new \in Hands /\ new.at = "run" /\ new.trial = hand[w].trial /\ new.puts = n
  BY <1>1, <1>4, <1>5 DEF Hands
<1>7. hand' = [hand EXCEPT ![w] = new]
  BY <1>2, <1>5 DEF ChildPuts
<1>8. hand'[w] = new /\ \A v \in Workers \ {w} : hand'[v] = hand[v]
  BY <1>7 DEF HandsInv
<1>9. artifacts' = artifacts \cup {<<Evidence[n], new.trial[2]>>}
  BY <1>2, <1>6 DEF ChildPuts
<1>10. HandOK(hand[w])'
  <2>1. \A i \in 1..n : <<Evidence[i], new.trial[2]>> \in artifacts'
    BY <1>1, <1>4, <1>6, <1>9 DEF HandOK
  <2>2. QED
    BY <1>1, <1>6, <1>8, <2>1 DEF HandOK
<1>11. ASSUME NEW v \in Workers \ {w} PROVE HandOK(hand[v])'
  BY <1>8, <1>9 DEF HandsInv, HandOK
<1>12. hand' \in [Workers -> Hands]
  BY <1>6, <1>7 DEF HandsInv
<1>13. QED
  BY <1>10, <1>11, <1>12 DEF HandsInv

LEMMA HandsStep ==
    ASSUME HandsInv, StoreTypes, [Next]_vars
    PROVE  HandsInv'
<1>1. CASE UNCHANGED <<hand, artifacts>>
  BY <1>1 DEF HandsInv, HandOK
<1>2. ASSUME NEW w \in Workers, hand' = [hand EXCEPT ![w] = Free], artifacts' = artifacts
      PROVE  HandsInv'
  <2>1. PICK new : new = Free
    OBVIOUS
  <2>2. QED
    BY <1>2, <2>1, FreeHand, HandChange
<1>3. CASE LoopStep
  <2>1. CASE DrainStep
    BY <2>1, AskingHand, LoopAssumption DEF DrainStep
  <2>2. CASE ~ DrainStep
    <3>1. UNCHANGED <<hand, artifacts>>
      BY <1>3, <2>2
      DEF LoopStep, StartRound, ReadFeedback, ReadMemory, MemoryTorn, Propose, CreateFile,
          WriteFile, RoundTaken, Recorded, NoteIdea, NotSubmitted, Submit, Reject, Reserve,
          NoBudget, Link, Drain, DrainClosed, DrainSpent, LastFeedback
    <3>2. QED
      BY <1>1, <3>1
  <2>3. QED
    BY <2>1, <2>2
<1>4. ASSUME NEW w \in Workers, Work(w) \/ Heartbeat(w) \/ WorkerKilled(w) PROVE HandsInv'
  <2>1. CASE Poll(w)
    BY <2>1, AskingHand DEF Poll, Does
  <2>2. CASE \E t \in Trials : ClaimTrial(w, t)
    BY <2>2, ClaimedHand
  <2>3. CASE ChildPuts(w)
    BY <2>3, PuttingHand
  <2>4. CASE ChildSends(w) \/ ChildRefuses(w)
    <3>1. "evaluated" \in Results /\ "not_evaluated" \in Results
      BY LoopAssumption
    <3>2. CASE ChildSends(w)
      BY <3>1, <3>2, AnsweredHand DEF ChildSends
    <3>3. CASE ChildRefuses(w)
      BY <3>1, <3>3, AnsweredHand DEF ChildRefuses
    <3>4. QED
      BY <2>4, <3>2, <3>3
  <2>5. CASE ReclaimRow(w) \/ Heartbeat(w)
    BY <1>1, <2>5 DEF ReclaimRow, Heartbeat
  <2>6. CASE \/ \E t \in Trials : ClaimLost(w, t)
             \/ NothingReady(w) \/ ChildFails(w) \/ HeartbeatBroken(w) \/ LeaseLost(w)
             \/ Complete(w) \/ CompleteBroken(w) \/ WorkerKilled(w)
    BY <1>2, <2>6 DEF ClaimLost, NothingReady, ChildFails, HeartbeatBroken, LeaseLost, Complete,
                      CompleteBroken, WorkerKilled, Returns, Raises
  <2>7. QED
    BY <1>4, <2>1, <2>2, <2>3, <2>4, <2>5, <2>6 DEF Work, Trials
<1>5. CASE LoopKilled
  BY <1>2, <1>5, LoopAssumption DEF LoopKilled
<1>6. CASE Tick \/ RunExpires \/ UNCHANGED vars
  BY <1>1, <1>6 DEF Tick, RunExpires, vars
<1>7. QED
  BY <1>3, <1>4, <1>5, <1>6 DEF Next

LEMMA EvidenceStep ==
    ASSUME EvidenceStored, HandsInv, StoreMoves, [Next]_vars
    PROVE  EvidenceStored'
<1>1. artifacts \subseteq artifacts'
  BY ArtifactsStay
<1>2. ASSUME NEW t \in Trials, queue'[t].result = "evaluated", queue[t].result # "evaluated"
      PROVE  \A i \in DOMAIN Evidence : <<Evidence[i], t[2]>> \in artifacts
  <2>1. ~ Same(t)
    BY <1>2 DEF Same
  <2>2. RowMoves(t)
    <3>1. ASSUME NEW s \in Specs, Reserves(s) PROVE FALSE
      <4>1. t = <<Run, s>>
        BY <2>1, <3>1 DEF Reserves
      <4>2. queue'[t].result = None
        BY <3>1, <4>1 DEF Reserves
      <4>3. None # "evaluated"
        BY LoopAssumption, StoreAssumption
      <4>4. QED
        BY <1>2, <4>2, <4>3
    <3>2. QED
      BY <2>1, <3>1 DEF StoreMoves, NoMove, RowMoves
  <2>3. Reports(t)
    BY <1>2, <2>2 DEF RowMoves, Claims, Releases
  <2>4. PICK w \in Workers : /\ hand[w].at = "answered" /\ hand[w].trial = t
                             /\ Completes(t, hand[w].reply)
    BY <2>3 DEF Reports
  <2>5. hand[w].reply = "evaluated" /\ HandOK(hand[w])
    BY <1>2, <2>4 DEF Completes, HandsInv
  <2>6. \A i \in 1..Len(Evidence) : <<Evidence[i], t[2]>> \in artifacts
    BY <2>4, <2>5 DEF HandOK
  <2>7. DOMAIN Evidence = 1..Len(Evidence)
    BY DEF Evidence
  <2>8. QED
    BY <2>6, <2>7
<1>3. QED
  BY <1>1, <1>2 DEF EvidenceStored, Trials

-----------------------------------------------------------------------------
(* The rounds. *)

\* A step within a round, the coordinator's, that changes nothing but where it is.
LEMMA RoundSame ==
    ASSUME RoundInv, UNCHANGED <<loop, started, vault>>
    PROVE  RoundInv'
BY DEF RoundInv, Ideas, Submits, Early, File, Content, Candidate, FilesLeft, Proposal

\* The coordinator leaves the round, or has done what the round's invariant is about.
LEMMA RoundRests ==
    ASSUME RoundInv, loop' \in Loops, Len(loop'.ideas) <= 2,
           loop'.at \in {"idle", "drain", "work", "last"}, UNCHANGED <<started, vault>>
    PROVE  RoundInv'
BY DEF RoundInv, Ideas, Submits, Early

LEMMA IdleType == Idle \in Loops /\ Len(Idle.ideas) = 0 /\ Idle.at = "idle"
BY DEF Idle, Loops

LEMMA BudgetType ==
    ASSUME StoreTypes
    PROVE  runs[Run].trials \in Nat /\ runs[Run].attempts \in Nat /\ MaxTries \in Nat
<1>1. runs[Run] \in Budgets
  BY LoopAssumption DEF StoreTypes
<1>2. runs[Run].trials \in Nat /\ runs[Run].attempts \in Nat
  BY <1>1, StoreAssumption
<1>3. QED
  BY <1>2 DEF MaxTries

LEMMA RoundEnds ==
    ASSUME RoundInv, StoreTypes, UNCHANGED <<started, vault>>,
           \/ loop' = Idle \/ loop' = [loop EXCEPT !.at = "drain"] \/ loop' = Drained
           \/ Drains \/ DrainStep
    PROVE  RoundInv'
<1>1. loop \in Loops /\ Len(loop.ideas) <= 2
  BY DEF RoundInv, Ideas
<1>2. CASE loop' = Idle
  BY <1>2, IdleType, RoundRests
<1>3. ASSUME NEW step \in {"drain", "last"}, loop' = [loop EXCEPT !.at = step]
      PROVE  RoundInv'
  <2>1. loop' \in Loops /\ loop'.at = step /\ loop'.ideas = loop.ideas
    BY <1>1, <1>3 DEF Loops
  <2>2. QED
    BY <1>1, <2>1, RoundRests
<1>4. ASSUME NEW step \in {"drain", "work"}, NEW n \in Nat,
             loop' = [loop EXCEPT !.at = step, !.left = n]
      PROVE  RoundInv'
  <2>1. loop' \in Loops /\ loop'.at = step /\ loop'.ideas = loop.ideas
    BY <1>1, <1>4 DEF Loops
  <2>2. QED
    BY <1>1, <2>1, RoundRests
<1>5. CASE Drains
  BY <1>4, <1>5, BudgetType DEF Drains, MaxTries
<1>6. CASE DrainStep
  <2>1. loop.left - 1 \in Nat
    BY <1>1, <1>6 DEF DrainStep, Loops
  <2>2. loop' = [loop EXCEPT !.at = "work", !.left = loop.left - 1]
    BY <1>6 DEF DrainStep
  <2>3. QED
    BY <1>4, <2>1, <2>2
<1>7. CASE loop' = Drained
  BY <1>2, <1>3, <1>7 DEF Drained
<1>8. QED
  BY <1>2, <1>3, <1>5, <1>6, <1>7

\* The files of a round have names of their own, and what is in them is not Torn.
LEMMA FileType ==
    ASSUME RoundInv, started >= 1, loop.round \in RoundIds, NEW n \in Nat, 1 <= n,
           n <= 2 * Ideas + 1
    PROVE  /\ File(n) \in VaultFiles /\ Content(n) \in Proposals \cup {"written"}
           /\ Content(n) # None /\ Content(n) # Torn
<1>1. /\ loop.ideas \in Seq(Proposals) /\ Ideas \in Nat /\ Ideas <= 2 /\ Ideas = Len(loop.ideas)
      /\ started \in 1..MaxRounds
  BY DEF RoundInv, Loops, Ideas
<1>2. n # 1 => n \div 2 \in 1..2
  BY <1>1
<1>3. n % 2 = 0 => n \div 2 \in 1..Ideas
  BY <1>1
<1>4. File(n) \in VaultFiles
  BY <1>1, <1>2 DEF File, VaultFiles, Candidate, Candidates
<1>5. Content(n) \in Proposals \cup {"written"}
  <2>1. CASE n % 2 = 0
    <3>1. loop.ideas[n \div 2] \in Proposals
      BY <1>1, <1>3, <2>1
    <3>2. QED
      BY <2>1, <3>1 DEF Content
  <2>2. CASE n % 2 # 0
    BY <2>2 DEF Content
  <2>3. QED
    BY <2>1, <2>2
<1>6. QED
  BY <1>4, <1>5, StoreAssumption

LEMMA LoopGoes ==
    ASSUME loop \in Loops, NEW n \in Nat \ {0},
           \/ loop' = [loop EXCEPT !.at = "record", !.n = n]
           \/ loop' = [loop EXCEPT !.at = "submit", !.n = n]
    PROVE  /\ loop' \in Loops /\ loop'.n = n
           /\ loop'.round = loop.round /\ loop'.ideas = loop.ideas
<1>1. CASE loop' = [loop EXCEPT !.at = "record", !.n = n]
  BY <1>1 DEF Loops
<1>2. CASE loop' = [loop EXCEPT !.at = "submit", !.n = n]
  BY <1>2 DEF Loops
<1>3. QED
  BY <1>1, <1>2

LEMMA FilesStay ==
    ASSUME UNCHANGED started, loop'.round = loop.round, loop'.ideas = loop.ideas
    PROVE  /\ Ideas' = Ideas
           /\ \A n : File(n)' = File(n) /\ Content(n)' = Content(n)
BY DEF Ideas, File, Content, Candidate

LEMMA CreateKeeps == RoundInv /\ CreateFile => RoundInv'
<1> SUFFICES ASSUME RoundInv, CreateFile PROVE RoundInv'
  OBVIOUS
<1>1. /\ loop \in Loops /\ started >= 1 /\ loop.round \in RoundIds /\ Ideas <= 2
      /\ loop.n <= 2 * Ideas + 1 /\ started \in 0..MaxRounds
      /\ \A i \in 1..(loop.n - 1) : vault[File(i)] = Content(i)
      /\ vault \in [VaultFiles -> Proposals \cup {None, Torn, "written"}]
  BY DEF RoundInv, CreateFile, LoopAt, FilesLeft
<1>2. /\ vault[File(loop.n)] = None /\ started' = started
      /\ vault' = [vault EXCEPT ![File(loop.n)] = Torn]
      /\ loop' = [loop EXCEPT !.at = "write"]
  BY DEF CreateFile, Goes
<1>3. /\ loop' \in Loops /\ loop'.at = "write" /\ loop'.n = loop.n
      /\ loop'.round = loop.round /\ loop'.ideas = loop.ideas
  BY <1>1, <1>2 DEF Loops
<1>4. /\ Ideas' = Ideas /\ \A n : File(n)' = File(n) /\ Content(n)' = Content(n)
  BY <1>2, <1>3, FilesStay
<1>5. loop.n \in Nat /\ loop.n >= 1 /\ Ideas \in Nat
  BY <1>1 DEF Loops, Ideas
<1>6. File(loop.n) \in VaultFiles
  BY <1>1, <1>5, FileType
<1>7. /\ vault' \in [VaultFiles -> Proposals \cup {None, Torn, "written"}]
      /\ vault'[File(loop.n)] = Torn
  BY <1>1, <1>2, <1>6
<1>8. ASSUME NEW i \in 1..(loop.n - 1) PROVE vault'[File(i)] = Content(i)
  <2>1. i \in Nat /\ 1 <= i /\ i <= 2 * Ideas + 1
    BY <1>1, <1>5
  <2>2. File(i) \in VaultFiles /\ Content(i) # None
    BY <1>1, <2>1, FileType
  <2>3. vault[File(i)] = Content(i) /\ File(i) # File(loop.n)
    BY <1>1, <1>2, <2>2
  <2>4. QED
    BY <1>1, <1>2, <2>2, <2>3
<1>9. /\ FilesLeft' /\ (vault[File(loop.n)])' = Torn
      /\ \A i \in 1..(loop'.n - 1) : vault'[File(i)'] = Content(i)'
  <2>1. File(loop.n)' = File(loop.n)
    BY <1>2, <1>3 DEF File, Candidate
  <2>2. \A i \in 1..(loop'.n - 1) : vault'[File(i)'] = Content(i)'
    BY <1>3, <1>4, <1>8
  <2>3. FilesLeft'
    BY <1>1, <1>3, <1>4 DEF FilesLeft
  <2>4. QED
    BY <1>7, <2>1, <2>2, <2>3
<1>10. QED
  BY <1>1, <1>2, <1>3, <1>4, <1>5, <1>7, <1>9 DEF RoundInv, Early, Submits, FilesLeft

LEMMA WriteKeeps == RoundInv /\ WriteFile => RoundInv'
<1> SUFFICES ASSUME RoundInv, WriteFile PROVE RoundInv'
  OBVIOUS
<1>1. /\ loop \in Loops /\ started >= 1 /\ loop.round \in RoundIds /\ Ideas <= 2
      /\ loop.n <= 2 * Ideas + 1 /\ started \in 0..MaxRounds
      /\ \A i \in 1..(loop.n - 1) : vault[File(i)] = Content(i)
      /\ vault \in [VaultFiles -> Proposals \cup {None, Torn, "written"}]
      /\ vault[File(loop.n)] = Torn
  BY DEF RoundInv, WriteFile, LoopAt, FilesLeft
<1>2. /\ started' = started
      /\ vault' = [vault EXCEPT ![File(loop.n)] = Content(loop.n)]
      /\ loop' = [loop EXCEPT !.at = "record", !.n = loop.n + 1]
  BY DEF WriteFile
<1>3. /\ loop' \in Loops /\ loop'.at = "record" /\ loop'.n = loop.n + 1
      /\ loop'.round = loop.round /\ loop'.ideas = loop.ideas
  <2>1. PICK n : n = loop.n + 1
    OBVIOUS
  <2>2. loop.n \in Nat
    BY <1>1 DEF Loops
  <2>3. n \in Nat \ {0} /\ loop' = [loop EXCEPT !.at = "record", !.n = n]
    BY <1>2, <2>1, <2>2
  <2>4. loop'.at = "record"
    BY <1>1, <1>2 DEF Loops
  <2>5. QED
    BY <1>1, <2>1, <2>3, <2>4, LoopGoes
<1>4. /\ Ideas' = Ideas /\ \A n : File(n)' = File(n) /\ Content(n)' = Content(n)
  BY <1>2, <1>3, FilesStay
<1>5. loop.n \in Nat /\ loop.n >= 1 /\ Ideas \in Nat
  BY <1>1 DEF Loops, Ideas
<1>6. File(loop.n) \in VaultFiles /\ Content(loop.n) \in Proposals \cup {"written"}
  BY <1>1, <1>5, FileType
<1>7. /\ vault' \in [VaultFiles -> Proposals \cup {None, Torn, "written"}]
      /\ vault'[File(loop.n)] = Content(loop.n)
  BY <1>1, <1>2, <1>6
<1>8. ASSUME NEW i \in 1..loop.n PROVE vault'[File(i)] = Content(i)
  <2>1. CASE i = loop.n
    BY <1>7, <2>1
  <2>2. CASE i # loop.n
    <3>1. i \in 1..(loop.n - 1) /\ i \in Nat /\ 1 <= i /\ i <= 2 * Ideas + 1
      BY <1>1, <1>5, <2>2
    <3>2. File(i) \in VaultFiles /\ Content(i) # Torn
      BY <1>1, <3>1, FileType
    <3>3. vault[File(i)] = Content(i) /\ File(i) # File(loop.n)
      BY <1>1, <3>1, <3>2
    <3>4. QED
      BY <1>1, <1>2, <3>2, <3>3
  <2>3. QED
    BY <2>1, <2>2
<1>9. \A i \in 1..(loop'.n - 1) : vault'[File(i)'] = Content(i)'
  <2>1. loop'.n - 1 = loop.n
    BY <1>3, <1>5
  <2>2. QED
    BY <1>4, <1>8, <2>1
<1>10. QED
  BY <1>1, <1>2, <1>3, <1>4, <1>5, <1>7, <1>9 DEF RoundInv, Early, Submits, FilesLeft

\* When all files are written, so are the records of the round's ideas.
LEMMA RecordedKeeps == RoundInv /\ Recorded => RoundInv'
<1> SUFFICES ASSUME RoundInv, Recorded PROVE RoundInv'
  OBVIOUS
<1>1. /\ loop \in Loops /\ started >= 1 /\ loop.round \in RoundIds /\ Ideas <= 2
      /\ started \in 0..MaxRounds
      /\ \A i \in 1..(loop.n - 1) : vault[File(i)] = Content(i)
      /\ vault \in [VaultFiles -> Proposals \cup {None, Torn, "written"}]
      /\ ~ FilesLeft /\ UNCHANGED <<started, vault>>
      /\ loop' = [loop EXCEPT !.at = "submit", !.n = 1]
  BY DEF RoundInv, Recorded, LoopAt
<1>2. loop.n \in Nat /\ loop.n > 2 * Ideas + 1 /\ Ideas \in Nat
  BY <1>1 DEF Loops, Ideas, FilesLeft
<1>3. ASSUME NEW i \in 1..Ideas PROVE vault[<<"json", Candidate(i)>>] = loop.ideas[i]
  <2>1. 2 * i \in 1..(loop.n - 1) /\ 2 * i # 1 /\ (2 * i) % 2 = 0 /\ (2 * i) \div 2 = i
    BY <1>2
  <2>2. File(2 * i) = <<"json", Candidate(i)>> /\ Content(2 * i) = loop.ideas[i]
    BY <2>1 DEF File, Content
  <2>3. QED
    BY <1>1, <2>1, <2>2
<1>4. /\ loop' \in Loops /\ loop'.at = "submit" /\ loop'.round = loop.round
      /\ loop'.ideas = loop.ideas
  <2>1. 1 \in Nat \ {0}
    OBVIOUS
  <2>2. loop' = [loop EXCEPT !.at = "submit", !.n = 1] /\ loop'.at = "submit"
    BY <1>1 DEF Loops
  <2>3. QED
    BY <1>1, <2>1, <2>2, LoopGoes
<1>5. Ideas' = Ideas /\ \A i : Candidate(i)' = Candidate(i)
  BY <1>1, <1>4 DEF Ideas, Candidate
<1>6. \A i \in 1..Ideas' : vault'[<<"json", Candidate(i)'>>] = loop'.ideas[i]
  BY <1>1, <1>3, <1>4, <1>5
<1>7. QED
  BY <1>1, <1>4, <1>5, <1>6 DEF RoundInv, Early, Submits

\* The agents are shown what there is.
LEMMA ShownKeeps ==
    ASSUME RoundInv, \/ \E r \in RoundIds : StartRound(r)
                     \/ ReadFeedback \/ ReadMemory
    PROVE  RoundInv'
<1>1. /\ loop \in Loops /\ Ideas <= 2 /\ started \in 0..MaxRounds /\ MaxRounds \in Nat
      /\ vault \in [VaultFiles -> Proposals \cup {None, Torn, "written"}]
  BY LoopAssumption DEF RoundInv
<1>2. vault' = vault
  BY DEF StartRound, ReadFeedback, ReadMemory
<1>3. CASE \E r \in RoundIds : StartRound(r)
  <2>1. PICK r \in RoundIds : StartRound(r)
    BY <1>3
  <2>2. /\ loop' \in Loops /\ loop'.at = "feedback" /\ loop'.round = r
        /\ loop'.n = 1 /\ loop'.ideas = <<>>
    <3>1. PICK idle \in Loops : idle = Idle
      BY IdleType
    <3>2. idle.n = 1 /\ idle.ideas = <<>>
      BY <3>1 DEF Idle
    <3>3. loop' = [idle EXCEPT !.at = "feedback", !.round = r]
      BY <2>1, <3>1 DEF StartRound
    <3>4. QED
      BY <3>2, <3>3 DEF Loops
  <2>3. started' = started + 1 /\ started' \in 1..MaxRounds
    <3>1. started' = started + 1 /\ started < MaxRounds
      BY <2>1 DEF StartRound
    <3>2. started \in Nat /\ MaxRounds \in Nat
      BY <1>1
    <3>3. QED
      BY <3>1, <3>2
  <2>4. QED
    BY <1>1, <1>2, <2>2, <2>3 DEF RoundInv, Ideas, Early, Submits
<1>4. CASE ReadFeedback
  <2>1. /\ loop.at = "feedback" /\ loop' = [loop EXCEPT !.at = "memory", !.seen = Completed]
        /\ started' = started
    BY <1>4 DEF ReadFeedback, LoopAt
  <2>2. Completed \in SUBSET Trials
    BY DEF Completed, Trials
  <2>3. /\ loop' \in Loops /\ loop'.at = "memory" /\ loop'.round = loop.round
        /\ loop'.n = loop.n /\ loop'.ideas = loop.ideas
    BY <1>1, <2>1, <2>2 DEF Loops, Trials
  <2>4. QED
    BY <1>1, <1>2, <2>1, <2>3 DEF RoundInv, Ideas, Early, Submits
<1>5. CASE ReadMemory
  <2> DEFINE shown == {vault[<<"json", c>>] : c \in Candidates} \ {None}
  <2>1. /\ loop.at = "memory" /\ loop' = [loop EXCEPT !.at = "propose", !.shown = shown]
        /\ started' = started
    BY <1>5 DEF ReadMemory, LoopAt
  <2>2. shown \in SUBSET (Proposals \cup {Torn, "written"})
    <3>1. \A c \in Candidates : <<"json", c>> \in VaultFiles
      BY DEF VaultFiles
    <3>2. QED
      BY <1>1, <3>1
  <2> HIDE DEF shown
  <2>3. /\ loop' \in Loops /\ loop'.at = "propose" /\ loop'.round = loop.round
        /\ loop'.n = loop.n /\ loop'.ideas = loop.ideas
    BY <1>1, <2>1, <2>2 DEF Loops
  <2>4. QED
    BY <1>1, <1>2, <2>1, <2>3 DEF RoundInv, Ideas, Early, Submits
<1>6. QED
  BY <1>3, <1>4, <1>5

LEMMA ProposeKeeps ==
    ASSUME RoundInv, NEW ideas \in Answers, Propose(ideas)
    PROVE  RoundInv'
<1>1. /\ loop \in Loops /\ started \in 0..MaxRounds /\ loop.at = "propose"
      /\ vault \in [VaultFiles -> Proposals \cup {None, Torn, "written"}]
      /\ loop' = [loop EXCEPT !.at = "record", !.ideas = ideas]
      /\ UNCHANGED <<started, vault>>
  BY DEF RoundInv, Propose, LoopAt
<1>2. loop.n = 1 /\ started >= 1 /\ loop.round \in RoundIds
  BY <1>1 DEF RoundInv, Early
<1>3. ideas \in Seq(Proposals) /\ Len(ideas) <= 2 /\ Len(ideas) \in Nat
  BY AnswersAssumption
<1>4. /\ loop' \in Loops /\ loop'.at = "record" /\ loop'.round = loop.round /\ loop'.n = 1
      /\ loop'.ideas = ideas
  BY <1>1, <1>2, <1>3 DEF Loops
<1>5. \A i \in 1..(1 - 1) : FALSE
  OBVIOUS
<1>6. Ideas' = Len(ideas) /\ 1 <= 2 * Ideas' + 2
  BY <1>3, <1>4 DEF Ideas
<1>7. QED
  BY <1>1, <1>2, <1>3, <1>4, <1>5, <1>6 DEF RoundInv, Early, Submits

\* Submitting keeps the ideas and the vault.
LEMMA SubmitKeeps ==
    ASSUME RoundInv, UNCHANGED <<started, vault>>, loop.at \in Submits,
           \/ Skips
           \/ Submitting /\ Proposal # Idea /\ Goes("reserve")
           \/ LoopAt("reserve") /\ Goes("link")
    PROVE  RoundInv'
<1>1. /\ loop \in Loops /\ started \in 0..MaxRounds /\ Ideas <= 2
      /\ started >= 1 /\ loop.round \in RoundIds
      /\ vault \in [VaultFiles -> Proposals \cup {None, Torn, "written"}]
      /\ \A i \in 1..Ideas : vault[<<"json", Candidate(i)>>] = loop.ideas[i]
      /\ loop.at = "reserve" => loop.n <= Ideas
      /\ loop.n \in Nat \ {0}
  BY DEF RoundInv, Submits, Loops
<1>2. CASE Skips
  <2>1. PICK n : n = loop.n + 1
    OBVIOUS
  <2>2. loop' = [loop EXCEPT !.at = "submit", !.n = n] /\ n \in Nat \ {0}
    BY <1>1, <1>2, <2>1 DEF Skips
  <2>3. /\ loop' \in Loops /\ loop'.at = "submit" /\ loop'.round = loop.round
        /\ loop'.ideas = loop.ideas
    BY <1>1, <2>2 DEF Loops
  <2>4. Ideas' = Ideas /\ \A i : Candidate(i)' = Candidate(i)
    BY <2>3 DEF Ideas, Candidate
  <2>5. \A i \in 1..Ideas' : vault'[<<"json", Candidate(i)'>>] = loop'.ideas[i]
    BY <1>1, <2>3, <2>4
  <2>6. QED
    BY <1>1, <2>3, <2>4, <2>5 DEF RoundInv, Early, Submits
<1>3. ASSUME NEW step \in {"reserve", "link"}, Goes(step), loop.n <= Ideas,
             step = "reserve" => Proposal # Idea
      PROVE  RoundInv'
  <2>1. loop' = [loop EXCEPT !.at = step]
    BY <1>3 DEF Goes
  <2>2. /\ loop' \in Loops /\ loop'.at = step /\ loop'.round = loop.round
        /\ loop'.ideas = loop.ideas /\ loop'.n = loop.n
    BY <1>1, <2>1 DEF Loops
  <2>3. Ideas' = Ideas /\ Proposal' = Proposal /\ \A i : Candidate(i)' = Candidate(i)
    BY <2>2 DEF Ideas, Candidate, Proposal
  <2>4. \A i \in 1..Ideas' : vault'[<<"json", Candidate(i)'>>] = loop'.ideas[i]
    BY <1>1, <2>2, <2>3
  <2>5. QED
    BY <1>1, <1>3, <2>2, <2>3, <2>4 DEF RoundInv, Early, Submits
<1>4. CASE Submitting /\ Proposal # Idea /\ Goes("reserve")
  BY <1>3, <1>4 DEF Submitting
<1>5. CASE LoopAt("reserve") /\ Goes("link")
  BY <1>1, <1>3, <1>5 DEF LoopAt
<1>6. QED
  BY <1>2, <1>4, <1>5

\* What a worker, a kill or the clock does to the coordinator.
LEMMA WorkLeavesRound ==
    ASSUME \/ \E w \in Workers : Work(w) \/ Heartbeat(w) \/ WorkerKilled(w)
           \/ LoopKilled \/ Tick \/ RunExpires \/ UNCHANGED vars
    PROVE  /\ UNCHANGED <<started, vault>>
           /\ \/ loop' = loop \/ loop' = Idle \/ loop' = Drained
              \/ loop' = [loop EXCEPT !.at = "drain"]
<1>1. ASSUME NEW w \in Workers, Work(w) \/ Heartbeat(w) \/ WorkerKilled(w)
      PROVE  /\ UNCHANGED <<started, vault>>
             /\ UNCHANGED loop \/ Returns(w) \/ Raises(w) \/ NothingReady(w)
  BY <1>1 DEF Work, Heartbeat, WorkerKilled, Poll, ReclaimRow, ClaimTrial, ClaimLost, NothingReady,
              ChildPuts, ChildSends, ChildRefuses, ChildFails, HeartbeatBroken, LeaseLost, Complete,
              CompleteBroken, Answered
<1>2. CASE LoopKilled \/ Tick \/ RunExpires \/ UNCHANGED vars
  BY <1>2 DEF LoopKilled, Tick, RunExpires, vars
<1>3. QED
  BY <1>1, <1>2 DEF Returns, Raises, NothingReady

LEMMA RoundStep ==
    ASSUME RoundInv, StoreTypes, [Next]_vars
    PROVE  RoundInv'
<1>1. CASE LoopStep
  <2>1. CASE (\E r \in RoundIds : StartRound(r)) \/ ReadFeedback \/ ReadMemory
    BY <2>1, ShownKeeps
  <2>2. CASE \E ideas \in Answers : Propose(ideas)
    BY <2>2, ProposeKeeps
  <2>3. CASE CreateFile \/ WriteFile \/ Recorded
    BY <2>3, CreateKeeps, WriteKeeps, RecordedKeeps
  <2>4. CASE MemoryTorn \/ RoundTaken \/ DrainClosed \/ DrainSpent \/ LastFeedback
             \/ Drain \/ DrainStep
    BY <2>4, RoundEnds DEF MemoryTorn, RoundTaken, DrainClosed, DrainSpent, LastFeedback, Drain,
                           DrainStep, Aborts
  <2>5. CASE NoteIdea \/ NotSubmitted \/ Submit \/ Reject \/ Reserve \/ NoBudget \/ Link
    <3>1. UNCHANGED <<started, vault>> /\ loop.at \in Submits
      BY <2>5 DEF NoteIdea, NotSubmitted, Submit, Reject, Reserve, NoBudget, Link, Submitting,
                  LoopAt, Submits
    <3>2. \/ Skips
          \/ Submitting /\ Proposal # Idea /\ Goes("reserve")
          \/ LoopAt("reserve") /\ Goes("link")
      BY <2>5 DEF NoteIdea, NotSubmitted, Submit, Reject, Reserve, NoBudget, Link
    <3>3. QED
      BY <3>1, <3>2, SubmitKeeps
  <2>6. QED
    BY <1>1, <2>1, <2>2, <2>3, <2>4, <2>5 DEF LoopStep
<1>2. CASE \/ \E w \in Workers : Work(w) \/ Heartbeat(w) \/ WorkerKilled(w)
           \/ LoopKilled \/ Tick \/ RunExpires \/ UNCHANGED vars
  BY <1>2, WorkLeavesRound, RoundSame, RoundEnds
<1>3. QED
  BY <1>1, <1>2 DEF Next

-----------------------------------------------------------------------------
(* What the vault holds, and what the agents are shown of it. *)

\* A record that is written stays as it is.
LEMMA VaultGrows ==
    ASSUME RoundInv, [Next]_vars, NEW f \in VaultFiles, vault[f] \in Specs
    PROVE  vault'[f] = vault[f]
<1>1. vault[f] # None /\ vault[f] # Torn
  BY StoreAssumption DEF Proposals
<1>2. vault \in [VaultFiles -> Proposals \cup {None, Torn, "written"}]
  BY DEF RoundInv
<1>3. CASE CreateFile
  BY <1>1, <1>2, <1>3 DEF CreateFile
<1>4. CASE WriteFile
  <2>1. vault[File(loop.n)] = Torn /\ vault' = [vault EXCEPT ![File(loop.n)] = Content(loop.n)]
    BY <1>4 DEF WriteFile, RoundInv, LoopAt
  <2>2. QED
    BY <1>1, <1>2, <2>1
<1>5. CASE LoopStep /\ ~ CreateFile /\ ~ WriteFile
  BY <1>5
  DEF LoopStep, StartRound, ReadFeedback, ReadMemory, MemoryTorn, Propose, RoundTaken, Recorded,
      NoteIdea, NotSubmitted, Submit, Reject, Reserve, NoBudget, Link, Drain, DrainStep,
      DrainClosed, DrainSpent, LastFeedback
<1>6. CASE \/ \E w \in Workers : Work(w) \/ Heartbeat(w) \/ WorkerKilled(w)
           \/ LoopKilled \/ Tick \/ RunExpires \/ UNCHANGED vars
  BY <1>6, WorkLeavesRound
<1>7. QED
  BY <1>3, <1>4, <1>5, <1>6 DEF Next

LEMMA VaultStep ==
    ASSUME VaultInv, RoundInv, StoreTypes, StoreMoves, [Next]_vars
    PROVE  VaultInv'
<1> SUFFICES ASSUME NEW s \in Specs, index'[<<Run, s>>] > 0
             PROVE  \E c \in Candidates : vault'[<<"json", c>>] = s
  BY DEF VaultInv
<1>1. PICK c \in Candidates : vault[<<"json", c>>] = s
  <2>1. CASE index[<<Run, s>>] > 0
    BY <2>1 DEF VaultInv
  <2>2. CASE ~ (index[<<Run, s>>] > 0)
    <3>1. PICK n \in Specs : LoopAt("reserve") /\ n = Proposal /\ Reserves(n)
      BY <2>2 DEF StoreMoves, NoMove, RowMoves
    <3>2. index' = [index EXCEPT ![<<Run, n>>] = reserved[Run] + 1]
      BY <3>1 DEF Reserves
    <3>3. <<Run, s>> = <<Run, n>>
      BY <2>2, <3>2, LoopAssumption DEF StoreTypes, Trials, Store!Trials
    <3>4. vault[<<"json", Candidate(loop.n)>>] = s /\ Candidate(loop.n) \in Candidates
      BY <3>1, <3>3, ProposalType DEF LoopAt
    <3>5. QED
      BY <3>4
  <2>3. QED
    BY <2>1, <2>2
<1>2. <<"json", c>> \in VaultFiles
  BY DEF VaultFiles
<1>3. vault'[<<"json", c>>] = s
  BY <1>1, <1>2, VaultGrows
<1>4. QED
  BY <1>3

\* While nothing is outstanding and nothing is being reserved, no row can move.
LEMMA SettledStays ==
    ASSUME StoreInv, StoreMoves, Outstanding = {}, ~ LoopAt("reserve")
    PROVE  NoMove
<1>1. ASSUME NEW t \in Trials, RowMoves(t) PROVE FALSE
  <2>1. queue[t].state \in {"pending", "running"}
    BY <1>1 DEF RowMoves, Claims, Releases, Reports, Completes
  <2>2. index[t] \in Nat /\ RowInv(t)
    BY DEF StoreInv, StoreTypes
  <2>3. index[t] > 0
    BY <2>1, <2>2 DEF RowInv
  <2>4. t \in Outstanding
    BY <2>1, <2>3 DEF Outstanding, Trials, Store!Reserved, Store!Terminal
  <2>5. QED
    BY <2>4
<1>2. QED
  BY <1>1 DEF StoreMoves

LEMMA NoMoveKeeps ==
    ASSUME NoMove
    PROVE  Outstanding' = Outstanding /\ Completed' = Completed
<1>1. \A t \in Trials : queue'[t].state = queue[t].state /\ index'[t] = index[t]
  BY DEF NoMove, Same
<1>2. QED
  BY <1>1 DEF Outstanding, Completed, Trials, Store!Reserved, Store!Terminal

LEMMA EarlySteps ==
    ASSUME [Next]_vars, RoundInv, loop'.at \in Early
    PROVE  \/ \E r \in RoundIds : StartRound(r)
           \/ ReadFeedback \/ ReadMemory \/ loop' = loop
<1>1. loop \in Loops
  BY DEF RoundInv
<1>2. ASSUME NEW step \in {"record", "write", "submit", "reserve", "link", "drain", "work", "last"},
             loop'.at = step
      PROVE  FALSE
  BY <1>2 DEF Early
<1>3. loop' # Idle /\ loop' # Drained /\ loop' # [loop EXCEPT !.at = "drain"]
  <2>1. [loop EXCEPT !.at = "drain"].at = "drain" /\ [loop EXCEPT !.at = "last"].at = "last"
    BY <1>1 DEF Loops
  <2>2. QED
    BY <1>2, <2>1, IdleType DEF Drained, Early
<1>4. CASE LoopStep
  BY <1>1, <1>2, <1>3, <1>4
  DEF Loops, LoopStep, MemoryTorn, Aborts, Propose, CreateFile, WriteFile, RoundTaken, Recorded,
      NoteIdea, NotSubmitted, Submit, Reject, Reserve, NoBudget, Link, Goes, Skips, Drain, Drains,
      DrainStep, DrainClosed, DrainSpent, LastFeedback
<1>5. CASE \/ \E w \in Workers : Work(w) \/ Heartbeat(w) \/ WorkerKilled(w)
           \/ LoopKilled \/ Tick \/ RunExpires \/ UNCHANGED vars
  BY <1>3, <1>5, WorkLeavesRound
<1>6. QED
  BY <1>4, <1>5 DEF Next

LEMMA SettledStep ==
    ASSUME SettledInv, StoreInv, RoundInv, VaultInv, StoreMoves, [Next]_vars
    PROVE  SettledInv'
<1>1. CASE loop'.at \notin Early
  BY <1>1 DEF SettledInv, Early
<1>2. CASE loop'.at \in Early
  <2>1. loop \in Loops
    BY DEF RoundInv
  <2>2. CASE \E r \in RoundIds : StartRound(r)
    <3>1. Outstanding = {} /\ ~ LoopAt("reserve") /\ loop'.at = "feedback"
      <4>1. loop' \in Loops
        BY <2>2, ShownKeeps DEF RoundInv
      <4>2. QED
        BY <2>2, IdleType DEF StartRound, LoopAt, Loops
    <3>2. QED
      BY <3>1, SettledStays, NoMoveKeeps DEF SettledInv, Early
  <2>3. CASE ReadFeedback
    <3>1. Outstanding = {} /\ loop.at = "feedback"
      BY <2>3 DEF SettledInv, Early, ReadFeedback, LoopAt
    <3>2. Outstanding' = {} /\ Completed' = Completed
      BY <3>1, SettledStays, NoMoveKeeps DEF LoopAt
    <3>3. loop'.at = "memory" /\ loop'.seen = Completed
      BY <2>1, <2>3 DEF ReadFeedback, Loops
    <3>4. QED
      BY <3>2, <3>3 DEF SettledInv
  <2>4. CASE ReadMemory
    <3> DEFINE shown == {vault[<<"json", c>>] : c \in Candidates} \ {None}
    <3>1. Outstanding = {} /\ loop.at = "memory" /\ loop.seen = Completed
      BY <2>4 DEF SettledInv, Early, ReadMemory, LoopAt
    <3>2. Outstanding' = {} /\ Completed' = Completed /\ index' = index
      BY <3>1, SettledStays, NoMoveKeeps DEF LoopAt, NoMove
    <3>3. \A s \in Specs : index[<<Run, s>>] > 0 => s \in shown
      <4>1. \A s \in Specs : s # None
        BY StoreAssumption DEF Proposals
      <4>2. QED
        BY <4>1 DEF VaultInv
    <3>4. loop' = [loop EXCEPT !.at = "propose", !.shown = shown]
      BY <2>4 DEF ReadMemory
    <3> HIDE DEF shown
    <3>5. loop'.at = "propose" /\ loop'.seen = loop.seen /\ loop'.shown = shown
      BY <2>1, <3>4 DEF Loops
    <3>6. QED
      BY <3>1, <3>2, <3>3, <3>5 DEF SettledInv
  <2>5. CASE loop' = loop
    <3>1. Outstanding = {} /\ ~ LoopAt("reserve")
      BY <1>2, <2>5 DEF SettledInv, LoopAt, Early
    <3>2. Outstanding' = {} /\ Completed' = Completed /\ index' = index
      BY <3>1, SettledStays, NoMoveKeeps DEF NoMove
    <3>3. QED
      BY <2>5, <3>2 DEF SettledInv
  <2>6. QED
    BY <1>2, <2>2, <2>3, <2>4, <2>5, EarlySteps
<1>3. QED
  BY <1>1, <1>2

-----------------------------------------------------------------------------
(* The drain. *)

LEMMA TriesType ==
    ASSUME StoreInv
    PROVE  /\ IsFiniteSet(ReservedTrials) /\ AllTries \in Nat
           /\ \A t \in Trials : tries[t] \in Nat /\ tries[t] = queue[t].attempts
<1>1. \A t \in Trials : tries[t] \in Nat /\ tries[t] = queue[t].attempts
  BY DEF tries, StoreInv, StoreTypes, Store!Row
<1>2. IsFiniteSet(ReservedTrials) /\ \A t \in ReservedTrials : tries[t] \in Int /\ tries[t] >= 0
  BY <1>1 DEF StoreInv, ReservedTrials
<1>3. AllTries \in Int /\ AllTries >= 0
  BY <1>2, SumType DEF AllTries
<1>4. QED
  BY <1>1, <1>2, <1>3

\* A claim makes one attempt more; nothing makes one less.
LEMMA TriesMove ==
    ASSUME StoreInv, StoreInv', StoreMoves
    PROVE  /\ AllTries' \in Nat /\ AllTries' >= AllTries /\ MaxTries' = MaxTries
           /\ \A t \in Trials : RowMoves(t) /\ Claims(t) => AllTries' = AllTries + 1
<1>1. /\ IsFiniteSet(ReservedTrials) /\ AllTries \in Nat
      /\ \A t \in Trials : tries[t] \in Nat /\ tries[t] = queue[t].attempts
  BY TriesType
<1>2. \A t \in Trials : tries'[t] \in Nat /\ tries'[t] = queue'[t].attempts
  BY DEF tries, StoreInv, StoreTypes, Store!Row
<1>3. PICK g : g = tries'
  OBVIOUS
<1>4. \A t \in Trials : g[t] \in Nat /\ g[t] = queue'[t].attempts
  BY <1>2, <1>3
<1>5. ReservedTrials \subseteq Trials
  BY DEF ReservedTrials
<1>6. AllTries' = Sum(g, ReservedTrials')
  BY <1>3 DEF AllTries
<1>7. ASSUME NEW t \in Trials, RowMoves(t), Claims(t)
      PROVE  AllTries' = AllTries + 1
  <2>1. index[t] \in Nat /\ RowInv(t) /\ queue[t].state = "pending"
    BY <1>7 DEF StoreInv, StoreTypes, Claims
  <2>2. t \in ReservedTrials
    BY <2>1 DEF RowInv, ReservedTrials
  <2>3. \A x \in ReservedTrials : /\ tries[x] \in Int /\ g[x] \in Int
                                  /\ x # t => g[x] = tries[x]
    BY <1>1, <1>4, <1>5, <1>7 DEF RowMoves, Same
  <2>4. Sum(g, ReservedTrials) = Sum(tries, ReservedTrials) + g[t] - tries[t]
    <3> HIDE DEF ReservedTrials, tries
    <3>1. QED
      BY <1>1, <2>2, <2>3, SumUpdate
  <2>5. g[t] = tries[t] + 1
    BY <1>1, <1>4, <1>7 DEF Claims
  <2>6. ReservedTrials' = ReservedTrials
    BY <1>7 DEF RowMoves, ReservedTrials
  <2>7. QED
    BY <1>1, <1>6, <2>4, <2>5, <2>6 DEF AllTries
<1>8. ASSUME UNCHANGED index, \A t \in Trials : queue'[t].attempts = queue[t].attempts
      PROVE  AllTries' = AllTries
  <2>1. \A x \in ReservedTrials : tries[x] \in Int /\ g[x] = tries[x]
    BY <1>1, <1>4, <1>5, <1>8
  <2>2. ReservedTrials' = ReservedTrials
    BY <1>8 DEF ReservedTrials
  <2>3. Sum(g, ReservedTrials) = Sum(tries, ReservedTrials)
    <3> HIDE DEF ReservedTrials, tries
    <3>1. QED
      BY <1>1, <2>1, SumSame
  <2>4. QED
    BY <1>6, <2>2, <2>3 DEF AllTries
<1>9. ASSUME NEW s \in Specs, Reserves(s) PROVE AllTries' = AllTries
  <2> DEFINE t == <<Run, s>>
  <2>1. /\ t \in Trials /\ index[t] = 0 /\ index' = [index EXCEPT ![t] = reserved[Run] + 1]
        /\ queue'[t].attempts = 0 /\ \A u \in Trials \ {t} : Same(u)
    BY <1>9, LoopAssumption DEF Reserves, Trials, Store!Trials
  <2>2. reserved[Run] + 1 > 0
    BY LoopAssumption DEF StoreInv, StoreTypes
  <2>3. ReservedTrials' = ReservedTrials \cup {t} /\ t \notin ReservedTrials
    BY <2>1, <2>2 DEF ReservedTrials, StoreInv, StoreTypes
  <2>4. \A x \in ReservedTrials : g[x] \in Int /\ tries[x] \in Int /\ g[x] = tries[x]
    BY <1>1, <1>4, <1>5, <2>1, <2>3 DEF Same
  <2>5. g[t] = 0
    BY <1>4, <2>1
  <2> HIDE DEF t
  <2>6. Sum(g, ReservedTrials \cup {t}) = Sum(g, ReservedTrials) + g[t]
    <3> HIDE DEF ReservedTrials, tries
    <3>1. QED
      BY <1>1, <2>3, <2>4, <2>5, SumAdd
  <2>7. Sum(g, ReservedTrials) = Sum(tries, ReservedTrials)
    <3> HIDE DEF ReservedTrials, tries
    <3>1. QED
      BY <1>1, <2>4, SumSame
  <2>8. QED
    BY <1>1, <1>6, <2>3, <2>5, <2>6, <2>7 DEF AllTries
<1>10. runs' = runs
  BY DEF StoreMoves, NoMove, RowMoves, Reserves
<1>11. MaxTries' = MaxTries
  BY <1>10 DEF MaxTries
<1>12. AllTries' \in Nat /\ AllTries' >= AllTries
  <2>1. CASE NoMove
    BY <1>1, <1>8, <2>1 DEF NoMove, Same
  <2>2. ASSUME NEW t \in Trials, RowMoves(t)
        PROVE  AllTries' \in Nat /\ AllTries' >= AllTries
    <3>1. CASE Claims(t)
      BY <1>1, <1>7, <2>2, <3>1
    <3>2. CASE Releases(t) \/ Reports(t)
      BY <1>1, <1>8, <2>2, <3>2 DEF RowMoves, Same, Releases, Reports, Completes
    <3>3. QED
      BY <2>2, <3>1, <3>2 DEF RowMoves
  <2>3. QED
    BY <1>1, <1>9, <2>1, <2>2 DEF StoreMoves
<1>13. QED
  BY <1>7, <1>11, <1>12

\* When every trial that can be reserved has used up its attempts, none is pending.
LEMMA DrainGives == StoreInv /\ DrainInv => DrainSuffices
<1> SUFFICES ASSUME StoreInv, DrainInv, LoopAt("drain"), loop.left = 0,
                    NEW t \in Trials, queue[t].state = "pending"
             PROVE  FALSE
  BY DEF DrainSuffices, Trials
<1> DEFINE A == runs[Run].attempts
           T == runs[Run].trials
           R == ReservedTrials
<1>1. A \in Nat /\ T \in Nat /\ MaxTries = T * A
  BY BudgetType DEF StoreInv, MaxTries
<1>2. /\ IsFiniteSet(R) /\ AllTries \in Nat /\ R \subseteq Trials
      /\ \A u \in Trials : tries[u] \in Nat /\ tries[u] = queue[u].attempts
  BY TriesType DEF ReservedTrials
<1>3. ASSUME NEW u \in R PROVE tries[u] <= A /\ tries[u] \in Int
  BY <1>2 DEF StoreInv, RowInv, ReservedTrials
<1>4. t \in R /\ tries[t] < A
  <2>1. index[t] \in Nat /\ RowInv(t)
    BY DEF StoreInv, StoreTypes
  <2>2. QED
    BY <1>2, <2>1 DEF RowInv, ReservedTrials
<1>5. AllTries = tries[t] + Sum(tries, R \ {t})
  <2>1. \A u \in R : tries[u] \in Int
    BY <1>3
  <2> HIDE DEF R, tries
  <2>2. QED
    BY <1>2, <1>4, <2>1, SumRemove DEF AllTries, R
<1>6. /\ IsFiniteSet(R \ {t}) /\ Cardinality(R \ {t}) = Cardinality(R) - 1
      /\ Cardinality(R) \in Nat /\ Cardinality(R \ {t}) \in Nat
  <2> HIDE DEF R
  <2>1. IsFiniteSet(R \ {t}) /\ Cardinality(R \ {t}) = Cardinality(R) - 1
    BY <1>2, <1>4, FS_RemoveElement
  <2>2. QED
    BY <1>2, <2>1, FS_CardinalityType
<1>7. Sum(tries, R \ {t}) <= A * Cardinality(R \ {t}) /\ Sum(tries, R \ {t}) \in Int
  <2>1. \A u \in R \ {t} : tries[u] \in Int /\ tries[u] <= A
    BY <1>3
  <2> HIDE DEF A, R, tries
  <2>2. QED
    BY <1>1, <1>6, <2>1, SumBound, SumType
<1>8. Cardinality(R) <= T
  BY DEF StoreInv
<1>9. AllTries >= MaxTries
  BY <1>1, <1>2 DEF DrainInv
<1>10. tries[t] \in Int
  BY <1>2
<1> HIDE DEF A, T, R, tries
<1>11. PICK c \in Nat : c = Cardinality(R \ {t})
  BY <1>6
<1>12. PICK d \in Nat : T = c + 1 + d
  <2>1. T - c - 1 \in Nat /\ T = c + 1 + (T - c - 1)
    BY <1>1, <1>6, <1>8, <1>11
  <2>2. QED
    BY <2>1
<1>13. T * A = A * c + A + A * d /\ A * d >= 0 /\ A * c \in Int /\ A * d \in Int
  BY <1>1, <1>12
<1>14. AllTries < A + A * c
  BY <1>1, <1>4, <1>5, <1>7, <1>10, <1>11, <1>13
<1>15. QED
  BY <1>1, <1>2, <1>9, <1>13, <1>14

\* Steps that leave the coordinator and its worker where they are.
LEMMA DrainSame ==
    ASSUME DrainInv, StoreInv, StoreInv', StoreMoves, RoundInv,
           loop' = loop, hand'[Own].at = hand[Own].at
    PROVE  DrainInv'
<1>1. /\ AllTries \in Nat /\ AllTries' \in Nat /\ MaxTries \in Nat /\ MaxTries' = MaxTries
      /\ AllTries' >= AllTries /\ loop.left \in Nat
  BY TriesType, TriesMove, BudgetType DEF StoreInv, RoundInv, Loops
<1>2. QED
  BY <1>1 DEF DrainInv, LoopAt

LEMMA DrainLeft ==
    ASSUME hand'[Own].at = "idle", loop'.at \notin {"drain", "work"}
    PROVE  DrainInv'
BY DEF DrainInv, LoopAt

\* The coordinator's steps: to drain, to ask for a trial, or something else.
LEMMA CoordinatorKeeps ==
    ASSUME DrainInv, StoreInv, StoreInv', StoreMoves, RoundInv, HandsInv, LoopStep
    PROVE  DrainInv'
<1>1. loop \in Loops /\ Own \in Workers /\ hand \in [Workers -> Hands] /\ loop.left \in Nat
  BY LoopAssumption DEF RoundInv, HandsInv, Loops
<1>2. /\ AllTries \in Nat /\ AllTries' \in Nat /\ MaxTries \in Nat /\ MaxTries' = MaxTries
      /\ AllTries' >= AllTries
  BY TriesType, TriesMove, BudgetType DEF StoreInv
<1>3. loop.at # "work"
  BY DEF LoopStep, StartRound, ReadFeedback, ReadMemory, MemoryTorn, Propose, CreateFile, WriteFile,
         RoundTaken, Recorded, NoteIdea, NotSubmitted, Submit, Submitting, Reject, Reserve,
         NoBudget, Link, Drain, DrainStep, DrainClosed, DrainSpent, LastFeedback, LoopAt
<1>4. hand[Own].at = "idle"
  BY <1>3 DEF DrainInv, LoopAt
<1>5. CASE Drain
  <2>1. PICK n : n = MaxTries
    OBVIOUS
  <2>2. loop' = [loop EXCEPT !.at = "drain", !.left = n] /\ hand' = hand
    BY <1>5, <2>1 DEF Drain, Drains, MaxTries
  <2>3. loop'.at = "drain" /\ loop'.left = n
    BY <1>1, <2>2 DEF Loops
  <2>4. QED
    BY <1>2, <1>4, <2>1, <2>2, <2>3 DEF DrainInv, LoopAt
<1>6. CASE DrainStep
  <2>1. PICK n : n = loop.left - 1
    OBVIOUS
  <2>2. /\ loop.at = "drain" /\ loop' = [loop EXCEPT !.at = "work", !.left = n]
        /\ hand' = [hand EXCEPT ![Own].at = "claim"]
    BY <1>6, <2>1 DEF DrainStep, LoopAt
  <2>3. loop'.at = "work" /\ loop'.left = n /\ hand'[Own].at = "claim"
    BY <1>1, <2>2 DEF Loops, Hands
  <2>4. AllTries + loop.left >= MaxTries
    BY <2>2 DEF DrainInv, LoopAt
  <2>5. QED
    BY <1>1, <1>2, <2>1, <2>3, <2>4 DEF DrainInv, LoopAt
<1>7. CASE ~ Drain /\ ~ DrainStep
  <2>1. hand' = hand
    BY <1>7
    DEF LoopStep, StartRound, ReadFeedback, ReadMemory, MemoryTorn, Propose, CreateFile, WriteFile,
        RoundTaken, Recorded, NoteIdea, NotSubmitted, Submit, Reject, Reserve, NoBudget, Link,
        DrainClosed, DrainSpent, LastFeedback
  <2>2. loop'.at \notin {"drain", "work"}
    <3>1. Idle.at = "idle"
      BY IdleType
    <3>2. CASE loop' = Idle
      BY <3>1, <3>2
    <3>3. CASE \E r \in RoundIds : StartRound(r)
      <4>1. PICK idle \in Loops : idle = Idle
        BY IdleType
      <4>2. PICK r \in RoundIds : loop' = [idle EXCEPT !.at = "feedback", !.round = r]
        BY <3>3, <4>1 DEF StartRound
      <4>3. loop'.at = "feedback"
        BY <4>2 DEF Loops
      <4>4. QED
        BY <4>3
    <3>4. CASE ReadFeedback \/ ReadMemory
      BY <1>1, <3>4 DEF ReadFeedback, ReadMemory, Loops
    <3>5. CASE \E ideas \in Answers : Propose(ideas)
      BY <1>1, <3>5 DEF Propose, Loops
    <3>6. CASE CreateFile \/ WriteFile \/ Recorded \/ Submit \/ Reserve
      BY <1>1, <3>6 DEF CreateFile, WriteFile, Recorded, Submit, Reserve, Goes, Loops
    <3>7. CASE NoteIdea \/ NotSubmitted \/ Reject \/ NoBudget \/ Link
      BY <1>1, <3>7 DEF NoteIdea, NotSubmitted, Reject, NoBudget, Link, Skips, Loops
    <3>8. CASE DrainSpent
      BY <1>1, <3>1, <3>8 DEF DrainSpent, Drained, Loops
    <3>9. CASE MemoryTorn \/ RoundTaken \/ DrainClosed \/ LastFeedback
      BY <3>2, <3>9 DEF MemoryTorn, RoundTaken, DrainClosed, LastFeedback, Aborts
    <3>10. QED
      BY <1>7, <3>3, <3>4, <3>5, <3>6, <3>7, <3>8, <3>9 DEF LoopStep
  <2>3. QED
    BY <1>4, <2>1, <2>2, DrainLeft
<1>8. QED
  BY <1>5, <1>6, <1>7

\* The coordinator's worker: its claim is the attempt that the call was counted for.
LEMMA OwnKeeps ==
    ASSUME DrainInv, StoreInv, StoreInv', StoreMoves, RoundInv, HandsInv,
           Work(Own) \/ Heartbeat(Own)
    PROVE  DrainInv'
<1>1. loop \in Loops /\ Own \in Workers /\ hand \in [Workers -> Hands] /\ loop.left \in Nat
  BY LoopAssumption DEF RoundInv, HandsInv, Loops
<1>2. /\ AllTries \in Nat /\ AllTries' \in Nat /\ MaxTries \in Nat /\ MaxTries' = MaxTries
      /\ AllTries' >= AllTries
  BY TriesType, TriesMove, BudgetType DEF StoreInv
<1>3. Free.at = "idle" /\ Idle.at = "idle"
  BY IdleType DEF Free
<1>4. CASE ReclaimRow(Own) \/ Heartbeat(Own)
  BY <1>4, DrainSame DEF ReclaimRow, Heartbeat
<1>5. ASSUME NEW t \in Trials, ClaimTrial(Own, t) PROVE DrainInv'
  <2>1. RowMoves(t) /\ Claims(t)
    <3>1. StoreTypes /\ Store!Claim(Own, t, MaxLease, TRUE)
      BY <1>5 DEF ClaimTrial, StoreInv
    <3>2. QED
      BY <1>1, <3>1, ClaimMoves
  <2>2. AllTries' = AllTries + 1
    BY <2>1, TriesMove
  <2>3. hand[Own].at = "claim" /\ loop' = loop /\ hand'[Own].at = "run"
    <3>1. PICK new : new = [Free EXCEPT !.at = "run", !.trial = t,
                                        !.token = queue[t].attempts + 1]
      OBVIOUS
    <3>2. new.at = "run"
      BY <3>1 DEF Free
    <3>3. /\ hand' = [hand EXCEPT ![Own] = new] /\ hand[Own].at = "claim" /\ loop' = loop
      BY <1>5, <3>1 DEF ClaimTrial
    <3>4. QED
      BY <1>1, <3>2, <3>3
  <2>4. LoopAt("work") /\ AllTries + loop.left + 1 >= MaxTries
    BY <2>3 DEF DrainInv
  <2>5. QED
    BY <1>1, <1>2, <2>2, <2>3, <2>4 DEF DrainInv, LoopAt
<1>6. CASE \/ \E t \in Trials : ClaimLost(Own, t)
           \/ HeartbeatBroken(Own) \/ LeaseLost(Own) \/ CompleteBroken(Own)
  <2>1. Raises(Own)
    BY <1>6 DEF ClaimLost, HeartbeatBroken, LeaseLost, CompleteBroken
  <2>2. QED
    BY <1>1, <1>3, <2>1, DrainLeft DEF Raises
<1>7. CASE NothingReady(Own)
  <2>1. loop' = Drained /\ hand' = [hand EXCEPT ![Own] = Free]
    BY <1>7 DEF NothingReady
  <2>2. loop'.at \in {"idle", "last"}
    BY <1>1, <1>3, <2>1 DEF Drained, Loops
  <2>3. QED
    BY <1>1, <1>3, <2>1, <2>2, DrainLeft
<1>8. CASE ChildPuts(Own) \/ ChildSends(Own) \/ ChildRefuses(Own)
  <2>1. hand[Own].at = "run" /\ hand'[Own].at \in {"run", "answered"} /\ loop' = loop
    BY <1>1, <1>8 DEF ChildPuts, ChildSends, ChildRefuses, Answered, Hands
  <2>2. LoopAt("work") /\ AllTries + loop.left + 0 >= MaxTries
    BY <2>1 DEF DrainInv
  <2>3. QED
    BY <1>1, <1>2, <2>1, <2>2 DEF DrainInv, LoopAt
<1>9. CASE ChildFails(Own) \/ Complete(Own)
  <2>1. hand[Own].at \in {"run", "answered"} /\ Returns(Own)
    BY <1>9 DEF ChildFails, Complete
  <2>2. LoopAt("work") /\ AllTries + loop.left + 0 >= MaxTries
    BY <2>1 DEF DrainInv
  <2>3. loop' = [loop EXCEPT !.at = "drain"] /\ hand' = [hand EXCEPT ![Own] = Free]
    BY <2>1 DEF Returns
  <2>4. loop'.at = "drain" /\ loop'.left = loop.left /\ hand'[Own].at = "idle"
    BY <1>1, <1>3, <2>3 DEF Loops
  <2>5. QED
    BY <1>1, <1>2, <2>2, <2>4 DEF DrainInv, LoopAt
<1>10. QED
  BY <1>4, <1>5, <1>6, <1>7, <1>8, <1>9 DEF Work, Poll, Trials

LEMMA DrainKeeps ==
    ASSUME DrainInv, StoreInv, StoreInv', StoreMoves, RoundInv, HandsInv, [Next]_vars
    PROVE  DrainInv'
<1>1. Own \in Workers /\ hand \in [Workers -> Hands]
  BY LoopAssumption DEF HandsInv
<1>2. CASE LoopStep
  BY <1>2, CoordinatorKeeps
<1>3. CASE Work(Own) \/ Heartbeat(Own)
  BY <1>3, OwnKeeps
<1>4. ASSUME NEW w \in Workers \ {Own}, Work(w) \/ Heartbeat(w) PROVE DrainInv'
  <2>1. loop' = loop /\ hand'[Own] = hand[Own]
    BY <1>1, <1>4
    DEF Work, Heartbeat, Poll, Does, ReclaimRow, ClaimTrial, ClaimLost, NothingReady, ChildPuts,
        ChildSends, ChildRefuses, ChildFails, HeartbeatBroken, LeaseLost, Complete, CompleteBroken,
        Answered, Returns, Raises
  <2>2. QED
    BY <2>1, DrainSame
<1>5. ASSUME NEW w \in Workers, WorkerKilled(w) PROVE DrainInv'
  BY <1>1, <1>5, DrainSame DEF WorkerKilled
<1>6. CASE LoopKilled
  <2>1. loop'.at = "idle" /\ hand'[Own].at = "idle"
    BY <1>1, <1>6, IdleType DEF LoopKilled, Free
  <2>2. QED
    BY <2>1, DrainLeft
<1>7. CASE Tick \/ RunExpires \/ UNCHANGED vars
  BY <1>7, DrainSame DEF Tick, RunExpires, vars
<1>8. QED
  BY <1>2, <1>3, <1>4, <1>5, <1>6, <1>7 DEF Next

-----------------------------------------------------------------------------
(* The theorems. *)

LEMMA StoreInit == Init => StoreInv
<1> SUFFICES ASSUME Init PROVE StoreInv
  OBVIOUS
<1>1. /\ runs \in [Runs -> Budgets] /\ reserved = [r \in Runs |-> 0] /\ Run \in Runs
      /\ index = [t \in Trials |-> 0] /\ queue = [t \in Trials |-> Store!NoRow]
  BY LoopAssumption DEF Init, Trials
<1>2. /\ Store!NoRow \in Store!Row
      /\ Store!NoRow.state = "none" /\ Store!NoRow.attempts = 0
  BY DEF Store!NoRow, Store!Row, Store!States
<1>3. StoreTypes
  BY <1>1, <1>2 DEF StoreTypes
<1>4. \A t \in Trials : RowInv(t)
  BY <1>1, <1>2 DEF RowInv
<1>5. ReservedTrials = {}
  BY <1>1 DEF ReservedTrials
<1>6. IsFiniteSet({}) /\ Cardinality({}) = 0
  BY FS_EmptySet
<1>7. reserved[Run] = 0 /\ runs[Run].trials \in Nat
  BY <1>1, <1>3, BudgetType
<1>8. QED
  BY <1>3, <1>4, <1>5, <1>6, <1>7 DEF StoreInv

LEMMA InitIInv == Init => IInv
<1> SUFFICES ASSUME Init PROVE IInv
  OBVIOUS
<1>1. StoreInv
  BY StoreInit
<1>2. /\ loop = Idle /\ started = 0 /\ vault = [f \in VaultFiles |-> None]
      /\ hand = [w \in Workers |-> Free] /\ MaxRounds \in Nat /\ Own \in Workers
      /\ index = [t \in Trials |-> 0] /\ queue = [t \in Trials |-> Store!NoRow] /\ Run \in Runs
  BY LoopAssumption DEF Init, Trials
<1>3. HandsInv
  BY <1>2, FreeHand DEF HandsInv
<1>4. loop \in Loops /\ Len(loop.ideas) = 0 /\ loop.at = "idle"
  BY <1>2, IdleType
<1>5. EvidenceStored
  <2>1. None # "evaluated"
    BY LoopAssumption, StoreAssumption
  <2>2. \A t \in Trials : queue[t].result = None
    BY <1>2 DEF Store!NoRow
  <2>3. QED
    BY <2>1, <2>2 DEF EvidenceStored, Trials
<1>6. RoundInv
  BY <1>2, <1>4 DEF RoundInv, Early, Submits, Ideas
<1>7. VaultInv
  <2>1. \A s \in Specs : index[<<Run, s>>] = 0
    BY <1>2 DEF Trials, Store!Trials
  <2>2. QED
    BY <2>1 DEF VaultInv
<1>8. SettledInv
  BY <1>4 DEF SettledInv, Early
<1>9. DrainInv
  BY <1>2, <1>4 DEF DrainInv, LoopAt, Free
<1>10. QED
  BY <1>1, <1>3, <1>5, <1>6, <1>7, <1>8, <1>9 DEF IInv

LEMMA NextIInv == IInv /\ [Next]_vars => IInv'
<1> SUFFICES ASSUME IInv, [Next]_vars PROVE IInv'
  OBVIOUS
<1>1. /\ StoreInv /\ HandsInv /\ EvidenceStored /\ RoundInv /\ VaultInv /\ SettledInv
      /\ DrainInv /\ StoreTypes
  BY DEF IInv, StoreInv
<1>2. StoreMoves
  BY <1>1, StepMoves
<1>3. StoreInv'
  BY <1>1, <1>2, StoreKeeps
<1>4. HandsInv' /\ EvidenceStored'
  BY <1>1, <1>2, HandsStep, EvidenceStep
<1>5. RoundInv' /\ VaultInv' /\ SettledInv'
  BY <1>1, <1>2, RoundStep, VaultStep, SettledStep
<1>6. DrainInv'
  BY <1>1, <1>2, <1>3, DrainKeeps
<1>7. QED
  BY <1>3, <1>4, <1>5, <1>6 DEF IInv

THEOREM LoopInvariant == Spec => []IInv
BY InitIInv, NextIInv, PTL DEF Spec

\* The evidence of every stored result is in the artifact store, for good: whoever
\* completed the trial had put all of its objects there.
THEOREM EvidenceSafe == Spec => []EvidenceStored
<1>1. IInv => EvidenceStored
  BY DEF IInv
<1>2. QED
  BY <1>1, LoopInvariant, PTL

\* Agents propose only when every trial is settled, and are shown every result and
\* the idea behind every trial, whatever was killed before.
THEOREM RoundsSafe == Spec => []RoundsInformed
<1>1. IInv => RoundsInformed
  BY DEF IInv, SettledInv, RoundsInformed, LoopAt, Early
<1>2. QED
  BY <1>1, LoopInvariant, PTL

\* A drain that has used up its calls leaves no trial pending.
THEOREM DrainSafe == Spec => []DrainSuffices
<1>1. IInv => DrainSuffices
  BY DrainGives DEF IInv
<1>2. QED
  BY <1>1, LoopInvariant, PTL

-----------------------------------------------------------------------------
(***************************************************************************)
(* The store.  All the program does to it are steps of TrialQueue, so what *)
(* is proved there holds here.  A worker uses only leases it was handed:   *)
(* the receipt of what it has in hand is one the store gave out.           *)
(***************************************************************************)
Held(h) == h.at \in {"run", "answered"} => <<h.trial, h.token>> \in known

ReceiptsInv == \A w \in Workers : Held(hand[w])

LEMMA ReceiptsStay == [Next]_vars => known \subseteq known'
<1> SUFFICES ASSUME [Next]_vars PROVE known \subseteq known'
  OBVIOUS
<1>1. CASE UNCHANGED store
  BY <1>1 DEF store
<1>2. ASSUME NEW w, NEW t, NEW k, NEW heard,
             \/ Store!Claim(w, t, MaxLease, heard)
             \/ Store!Heartbeat(w, t, k, MaxLease, heard)
             \/ Store!Fail(w, t, k, 0)
             \/ Store!ReclaimAny \/ Store!Tick
             \/ \E res : Store!CompleteFirst(w, t, k, res, heard)
             \/ \E s : Store!ReserveTrial(Run, s)
             \/ \E key, e : Store!AppendGraphEvent(Run, key, e)
      PROVE  known \subseteq known'
  BY <1>2 DEF Store!Claim, Store!Heartbeat, Store!Fail, Store!ReclaimAny, Store!Reclaim, Store!Tick,
              Store!CompleteFirst, Store!ReserveTrial, Store!AppendGraphEvent
<1>3. CASE LoopStep
  BY <1>1, <1>2, <1>3
  DEF LoopStep, StartRound, ReadFeedback, ReadMemory, MemoryTorn, Propose, CreateFile, WriteFile,
      RoundTaken, Recorded, NoteIdea, NotSubmitted, Submit, Reject, Reserve, NoBudget, Link,
      Drain, DrainStep, DrainClosed, DrainSpent, LastFeedback
<1>4. ASSUME NEW w \in Workers, Work(w) \/ Heartbeat(w) \/ WorkerKilled(w)
      PROVE  known \subseteq known'
  BY <1>1, <1>2, <1>4
  DEF Work, Heartbeat, WorkerKilled, Poll, ReclaimRow, ClaimTrial, ClaimLost, NothingReady,
      ChildPuts, ChildSends, ChildRefuses, Answered, ChildFails, HeartbeatBroken, LeaseLost,
      Complete, CompleteBroken, Failing
<1>5. CASE LoopKilled \/ Tick \/ RunExpires \/ UNCHANGED vars
  BY <1>1, <1>2, <1>5 DEF LoopKilled, Tick, RunExpires, vars
<1>6. QED
  BY <1>3, <1>4, <1>5 DEF Next

LEMMA ReceiptsStep == HandsInv /\ ReceiptsInv /\ [Next]_vars => ReceiptsInv'
<1> SUFFICES ASSUME HandsInv, ReceiptsInv, [Next]_vars PROVE ReceiptsInv'
  OBVIOUS
<1>1. known \subseteq known' /\ hand \in [Workers -> Hands]
  BY ReceiptsStay DEF HandsInv
<1>2. CASE UNCHANGED hand
  BY <1>1, <1>2 DEF ReceiptsInv, Held
<1>3. ASSUME NEW w \in Workers, NEW new, hand' = [hand EXCEPT ![w] = new],
             new.at \in {"run", "answered"} => <<new.trial, new.token>> \in known'
      PROVE  ReceiptsInv'
  BY <1>1, <1>3 DEF ReceiptsInv, Held
<1>4. ASSUME NEW w \in Workers, hand' = [hand EXCEPT ![w] = Free] PROVE ReceiptsInv'
  BY <1>3, <1>4 DEF Free
<1>5. ASSUME NEW w \in Workers, hand' = [hand EXCEPT ![w].at = "claim"] PROVE ReceiptsInv'
  <2>1. [hand[w] EXCEPT !.at = "claim"].at = "claim"
    BY <1>1 DEF Hands
  <2>2. QED
    BY <1>3, <1>5, <2>1
<1>6. CASE LoopStep
  BY <1>2, <1>5, <1>6, LoopAssumption
  DEF LoopStep, StartRound, ReadFeedback, ReadMemory, MemoryTorn, Propose, CreateFile, WriteFile,
      RoundTaken, Recorded, NoteIdea, NotSubmitted, Submit, Reject, Reserve, NoBudget, Link,
      Drain, DrainStep, DrainClosed, DrainSpent, LastFeedback
<1>7. ASSUME NEW w \in Workers, Work(w) \/ Heartbeat(w) \/ WorkerKilled(w) PROVE ReceiptsInv'
  <2>1. CASE Poll(w)
    BY <1>5, <2>1 DEF Poll, Does
  <2>2. ASSUME NEW t \in Trials, ClaimTrial(w, t) PROVE ReceiptsInv'
    <3> DEFINE new == [Free EXCEPT !.at = "run", !.trial = t, !.token = queue[t].attempts + 1]
    <3>1. new.trial = t /\ new.token = queue[t].attempts + 1
      BY DEF Free
    <3>2. known' = known \cup {<<t, queue[t].attempts + 1>>} /\ hand' = [hand EXCEPT ![w] = new]
      BY <2>2 DEF ClaimTrial, Store!Claim
    <3> HIDE DEF new
    <3>3. QED
      BY <1>3, <3>1, <3>2
  <2>3. CASE ChildPuts(w)
    <3>1. [hand[w] EXCEPT !.puts = @ + 1].trial = hand[w].trial
          /\ [hand[w] EXCEPT !.puts = @ + 1].token = hand[w].token
      BY <1>1 DEF Hands
    <3>2. hand[w].at = "run" /\ hand' = [hand EXCEPT ![w] = [hand[w] EXCEPT !.puts = @ + 1]]
      BY <2>3 DEF ChildPuts
    <3>3. QED
      BY <1>1, <1>3, <3>1, <3>2 DEF ReceiptsInv, Held
  <2>4. CASE ChildSends(w) \/ ChildRefuses(w)
    <3>1. PICK reply : Answered(w, reply)
      BY <2>4 DEF ChildSends, ChildRefuses
    <3> DEFINE new == [hand[w] EXCEPT !.at = "answered", !.reply = reply]
    <3>2. new.trial = hand[w].trial /\ new.token = hand[w].token
      BY <1>1 DEF Hands
    <3>3. hand[w].at = "run" /\ hand' = [hand EXCEPT ![w] = new]
      BY <1>1, <2>4, <3>1 DEF ChildSends, ChildRefuses, Answered
    <3> HIDE DEF new
    <3>4. QED
      BY <1>1, <1>3, <3>2, <3>3 DEF ReceiptsInv, Held
  <2>5. CASE ReclaimRow(w) \/ Heartbeat(w)
    BY <1>2, <2>5 DEF ReclaimRow, Heartbeat
  <2>6. CASE \/ \E t \in Trials : ClaimLost(w, t)
             \/ NothingReady(w) \/ ChildFails(w) \/ HeartbeatBroken(w) \/ LeaseLost(w)
             \/ Complete(w) \/ CompleteBroken(w) \/ WorkerKilled(w)
    BY <1>4, <2>6 DEF ClaimLost, NothingReady, ChildFails, HeartbeatBroken, LeaseLost, Complete,
                      CompleteBroken, WorkerKilled, Returns, Raises
  <2>7. QED
    BY <1>7, <2>1, <2>2, <2>3, <2>4, <2>5, <2>6 DEF Work, Trials
<1>8. CASE LoopKilled
  BY <1>4, <1>8, LoopAssumption DEF LoopKilled
<1>9. CASE Tick \/ RunExpires \/ UNCHANGED vars
  BY <1>2, <1>9 DEF Tick, RunExpires, vars
<1>10. QED
  BY <1>6, <1>7, <1>8, <1>9 DEF Next

\* The coordinator notes and reserves what its agents proposed.
LEMMA LoopUses ==
    ASSUME RoundInv, LoopStep
    PROVE  Store!Next \/ UNCHANGED store
<1>1. ASSUME NEW k \in EventKeys, NEW e \in Events, Store!AppendGraphEvent(Run, k, e)
      PROVE  Store!Next
  BY <1>1, LoopAssumption DEF Store!Next
<1>2. CASE NoteIdea \/ Submit
  <2>1. /\ Submitting /\ loop.ideas \in Seq(Proposals) /\ loop.n \in Nat \ {0}
        /\ Len(loop.ideas) <= 2 /\ started \in 1..MaxRounds
    BY <1>2 DEF NoteIdea, Submit, Submitting, LoopAt, RoundInv, Loops, Ideas, Submits
  <2>2. loop.n \in 1..Len(loop.ideas) /\ loop.n \in 1..2
    BY <2>1 DEF Submitting, Ideas
  <2>3. Proposal \in Events /\ Candidate(loop.n) \in Candidates
    BY <2>1, <2>2, LoopAssumption DEF Proposal, Candidate, Candidates
  <2>4. Key("data-needed") \in EventKeys /\ Key("submission") \in EventKeys
    BY <2>3, LoopAssumption DEF Key
  <2>5. QED
    BY <1>1, <1>2, <2>3, <2>4 DEF NoteIdea, Submit
<1>3. CASE Reject \/ Link
  <2>1. Proposal \in Events /\ Candidate(loop.n) \in Candidates /\ Invalid \in Events
    BY <1>3, ProposalType, LoopAssumption DEF Reject, Link, LoopAt, Proposals
  <2>2. Key("rejected") \in EventKeys /\ Key("reserved") \in EventKeys
    BY <2>1, LoopAssumption DEF Key
  <2>3. QED
    BY <1>1, <1>3, <2>1, <2>2 DEF Reject, Link
<1>4. CASE Reserve
  <2>1. Proposal \in Specs
    BY <1>4, ReservedIsSpec DEF Reserve
  <2>2. Store!ReserveTrial(Run, Proposal) => Store!Next
    BY <2>1, LoopAssumption DEF Store!Next
  <2>3. QED
    BY <1>4, <2>2 DEF Reserve
<1>5. QED
  BY <1>2, <1>3, <1>4
  DEF LoopStep, StartRound, ReadFeedback, ReadMemory, MemoryTorn, Propose, CreateFile, WriteFile,
      RoundTaken, Recorded, NotSubmitted, NoBudget, Drain, DrainStep, DrainClosed, DrainSpent,
      LastFeedback

\* A worker claims, renews, completes and fails as the store lets a client that was
\* handed the lease, now or long ago.
LEMMA WorkUses ==
    ASSUME HandsInv, ReceiptsInv, NEW w \in Workers, Work(w) \/ Heartbeat(w) \/ WorkerKilled(w)
    PROVE  Store!Next \/ UNCHANGED store
<1>1. MaxLease \in 1..MaxLease /\ 0 \in 0..MaxDelay
  BY StoreAssumption
<1>2. ASSUME hand[w].at \in {"run", "answered"},
             Store!UseLease(w, hand[w].trial, hand[w].token)
      PROVE  Store!Next
  <2>1. PICK receipt \in known : receipt = <<hand[w].trial, hand[w].token>>
    BY <1>2 DEF ReceiptsInv, Held
  <2>2. Store!UseLease(w, receipt[1], receipt[2])
    BY <1>2, <2>1
  <2>3. QED
    BY <2>2 DEF Store!Next
<1>3. ASSUME NEW t \in Trials, NEW heard \in BOOLEAN, Store!Claim(w, t, MaxLease, heard)
      PROVE  Store!Next
  BY <1>1, <1>3 DEF Store!Next, Store!ClaimAny, Trials
<1>4. ASSUME NEW heard \in BOOLEAN,
             \/ Store!Heartbeat(w, hand[w].trial, hand[w].token, MaxLease, heard)
             \/ Store!Fail(w, hand[w].trial, hand[w].token, 0)
      PROVE  Store!UseLease(w, hand[w].trial, hand[w].token)
  BY <1>1, <1>4 DEF Store!UseLease
<1>5. ASSUME hand[w].at = "answered", NEW heard \in BOOLEAN,
             Store!CompleteFirst(w, hand[w].trial, hand[w].token, hand[w].reply, heard)
      PROVE  Store!UseLease(w, hand[w].trial, hand[w].token)
  BY <1>5, HandHolds DEF Store!UseLease, Store!Complete
<1>6. CASE ReclaimRow(w)
  BY <1>6 DEF ReclaimRow, Store!Next
<1>7. CASE \E t \in Trials : ClaimTrial(w, t) \/ ClaimLost(w, t)
  BY <1>3, <1>7 DEF ClaimTrial, ClaimLost
<1>8. CASE Heartbeat(w) \/ HeartbeatBroken(w) \/ ChildFails(w)
  BY <1>2, <1>4, <1>8 DEF Heartbeat, HeartbeatBroken, ChildFails, Failing
<1>9. CASE Complete(w) \/ CompleteBroken(w)
  BY <1>2, <1>4, <1>5, <1>9 DEF Complete, CompleteBroken, Failing
<1>10. CASE Poll(w) \/ NothingReady(w) \/ ChildPuts(w) \/ ChildSends(w) \/ ChildRefuses(w)
            \/ LeaseLost(w) \/ WorkerKilled(w)
  BY <1>10 DEF Poll, NothingReady, ChildPuts, ChildSends, ChildRefuses, Answered, LeaseLost,
               WorkerKilled
<1>11. QED
  BY <1>6, <1>7, <1>8, <1>9, <1>10 DEF Work, Trials

LEMMA StoreSteps == IInv /\ ReceiptsInv /\ [Next]_vars => [Store!Next]_(Store!vars)
<1> SUFFICES ASSUME IInv, ReceiptsInv, [Next]_vars PROVE Store!Next \/ UNCHANGED store
  BY DEF store, Store!vars
<1>1. CASE LoopStep
  BY <1>1, LoopUses DEF IInv
<1>2. ASSUME NEW w \in Workers, Work(w) \/ Heartbeat(w) \/ WorkerKilled(w)
      PROVE  Store!Next \/ UNCHANGED store
  BY <1>2, WorkUses DEF IInv
<1>3. CASE Tick
  BY <1>3 DEF Tick, Store!Next
<1>4. CASE LoopKilled \/ RunExpires \/ UNCHANGED vars
  BY <1>4 DEF LoopKilled, RunExpires, vars
<1>5. QED
  BY <1>1, <1>2, <1>3, <1>4 DEF Next

\* When the first round starts, the run is frozen and nothing is reserved.
LEMMA QueueStart == Init => Queue!TypeOK /\ Queue!NoTrials
<1> SUFFICES ASSUME Init PROVE Queue!TypeOK /\ Queue!NoTrials
  OBVIOUS
<1>1. Store!NoRow = Queue!NoRow /\ Store!NoRow \in Queue!Row
  BY DEF Store!NoRow, Queue!NoRow, Queue!Row, Queue!States
<1>2. Store!Trials = Queue!Trials
  BY DEF Store!Trials, Queue!Trials
<1>3. log \in [Runs -> Seq(Queue!Entry)]
  <2>1. Store!Record("run_created", None, 0, "none") \in Queue!Entry
    BY DEF Store!Record, Queue!Entry, Queue!Kinds, Queue!States
  <2>2. QED
    BY <2>1 DEF Init
<1>4. Queue!NoTrials
  BY <1>1, <1>2 DEF Init, Queue!NoTrials
<1>5. Queue!TypeOK
  BY <1>1, <1>2, <1>3 DEF Init, Queue!TypeOK
<1>6. QED
  BY <1>4, <1>5

LEMMA SameNext == Store!Next <=> Queue!Next
  BY Zenon
  DEF Store!Next, Store!Trials, Store!CreateRun, Store!ReserveTrial, Store!ClaimAny, Store!Claim,
      Store!Claimable, Store!ReclaimAny, Store!Reclaim, Store!Released, Store!AfterAttempt,
      Store!UseLease, Store!Heartbeat, Store!LiveLease, Store!Holds, Store!Complete,
      Store!CompleteFirst, Store!CompleteAgain, Store!Fail, Store!AppendGraphEvent,
      Store!SealResult, Store!Tick, Store!Earlier, Store!LogTrial, Store!LogAppend, Store!Record,
      Store!NoRow, Store!store,
      Queue!Next, Queue!Trials, Queue!CreateRun, Queue!ReserveTrial, Queue!ClaimAny, Queue!Claim,
      Queue!Claimable, Queue!ReclaimAny, Queue!Reclaim, Queue!Released, Queue!AfterAttempt,
      Queue!UseLease, Queue!Heartbeat, Queue!LiveLease, Queue!Holds, Queue!Complete,
      Queue!CompleteFirst, Queue!CompleteAgain, Queue!Fail, Queue!AppendGraphEvent,
      Queue!SealResult, Queue!Tick, Queue!Earlier, Queue!LogTrial, Queue!LogAppend, Queue!Record,
      Queue!NoRow, Queue!store

LEMMA SameProperties ==
    /\ Store!BudgetRespected <=> Queue!BudgetRespected
    /\ Store!LeaseHonoured <=> Queue!LeaseHonoured
    /\ Store!NoTrialStranded <=> Queue!NoTrialStranded
    /\ Store!AuditReconstructsQueue <=> Queue!AuditReconstructsQueue
    /\ Store!AckedResultStored <=> Queue!AckedResultStored
  BY Zenon
  DEF Store!BudgetRespected, Queue!BudgetRespected, Store!LeaseHonoured, Queue!LeaseHonoured,
      Store!NoTrialStranded, Queue!NoTrialStranded, Store!AuditReconstructsQueue,
      Queue!AuditReconstructsQueue, Store!AckedResultStored, Queue!AckedResultStored,
      Store!Reserved, Queue!Reserved, Store!Trials, Queue!Trials

\* The coordinator and every worker use the store by its own transactions only, and a
\* worker only the leases it was handed (run_round, drain, process_one).
THEOREM LoopUsesStore == Spec => [][Store!Next]_(Store!vars)
<1>1. Init => ReceiptsInv
  BY DEF Init, ReceiptsInv, Held, Free
<1>2. IInv => HandsInv
  BY DEF IInv
<1>3. QED
  BY <1>1, <1>2, ReceiptsStep, StoreSteps, LoopInvariant, PTL DEF Spec

\* Whatever the coordinator and the workers die of, lose or repeat, the budget holds, a
\* lease is not taken while its worker was told it has it, no trial is stranded, the
\* audit log tells every row, an answer given is the one stored, and nothing is undone.
THEOREM LoopKeepsStore ==
    Spec => /\ [](/\ Store!BudgetRespected /\ Store!LeaseHonoured /\ Store!NoTrialStranded
                  /\ Store!AuditReconstructsQueue /\ Store!AckedResultStored)
            /\ Store!NothingUndone
            /\ Store!ImplementsWork
<1>1. Spec => [][Queue!Next]_(Queue!vars)
  BY LoopUsesStore, SameNext, PTL DEF Queue!vars, Store!vars
<1>2. Spec => Queue!TypeOK /\ Queue!NoTrials
  BY QueueStart, PTL DEF Spec
<1>3. Spec => /\ [](/\ Queue!BudgetRespected /\ Queue!LeaseHonoured /\ Queue!NoTrialStranded
                    /\ Queue!AuditReconstructsQueue /\ Queue!AckedResultStored)
              /\ Queue!NothingUndone
              /\ Queue!ImplementsWork
  <2>1. /\ Budgets \subseteq [trials: Nat \ {0}, attempts: 1..100]
        /\ MaxLease \in Nat \ {0} /\ MaxDelay \in Nat
        /\ None \notin Workers \cup Budgets \cup Results \cup Events \cup Payloads
        /\ None \notin Specs \cup EventKeys /\ Specs \cap EventKeys = {}
    BY StoreAssumption, LoopAssumption DEF Proposals
  <2>2. QED
    BY <1>1, <1>2, <2>1, Queue!ClientsSafe, PTL
<1>4. Queue!NothingUndone => Store!NothingUndone
  BY PTL DEF Queue!NothingUndone, Store!NothingUndone, Queue!Trials, Store!Trials, Queue!Reserved,
             Store!Reserved, Queue!Terminal, Store!Terminal, Queue!vars, Store!vars
<1>5. Queue!ImplementsWork => Store!ImplementsWork
  <2>1. Queue!Work!Init <=> Store!Work!Init
    BY DEF Queue!Work!Init, Store!Work!Init, Queue!Trials, Store!Trials
  <2>2. [Queue!Work!Next]_(Queue!Work!workVars) => [Store!Work!Next]_(Store!Work!workVars)
    BY DEF Queue!Work!Next, Store!Work!Next, Queue!Work!workVars, Store!Work!workVars,
           Queue!Work!Admit, Store!Work!Admit, Queue!Work!Start, Store!Work!Start,
           Queue!Work!Finish, Store!Work!Finish, Queue!Work!Retry, Store!Work!Retry,
           Queue!Work!GiveUp, Store!Work!GiveUp, Queue!Work!Stay, Store!Work!Stay,
           Queue!Work!Becomes, Store!Work!Becomes, Queue!Trials, Store!Trials
  <2>3. QED
    BY <2>1, <2>2, PTL
    DEF Queue!ImplementsWork, Store!ImplementsWork, Queue!Work!Spec, Store!Work!Spec
<1>6. QED
  BY <1>3, <1>4, <1>5, SameProperties, PTL
=============================================================================
