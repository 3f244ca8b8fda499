---------------------------- MODULE ResearchLoop ----------------------------
(***************************************************************************)
(* The adaptive research loop of research_loop.py: a coordinator that      *)
(* starts a round when all trials are settled, shows the agents the        *)
(* measured results and the research vault (research_vault.py), records    *)
(* what they propose in the vault, submits it and drains the queue; and    *)
(* numerical workers (pipeline.process_one), the coordinator's own among   *)
(* them, whose child processes leave their evidence in the artifact store. *)
(* The trial store is the TrialQueue module.                               *)
(*                                                                         *)
(* The coordinator and the workers can be killed, replies of the store can *)
(* be lost, a child can fail, hang or outlive its worker's lease.  A vault *)
(* file is created and then written, so a kill leaves it Torn; an artifact *)
(* is published whole.                                                     *)
(*                                                                         *)
(* Operators whose names begin with Slip are wrong variants of the         *)
(* definition below them and no part of the specification.                 *)
(***************************************************************************)
EXTENDS Integers, Sequences, FiniteSets

CONSTANTS
    Answers,        \* what a round's agents can propose: sequences of proposals
    Idea, Invalid,  \* a proposal without a formula, or with one the plan refuses
    RoundIds,       \* round ids a caller may use, also twice
    MaxRounds,      \* bound: rounds started
    Run,            \* the numerical run
    Own,            \* the coordinator's worker login
    Torn,           \* content of a file created but not written
    \* the constants of TrialQueue
    Runs, Specs, Workers, Budgets, Results, EventKeys, Events, Payloads,
    MaxLease, MaxDelay, None

VARIABLES
    loop,      \* the coordinator
    started,   \* rounds started
    vault,     \* vault files by <<directory, name>>
    hand,      \* what a worker has in hand
    artifacts, \* <<kind, formula>> of the published artifacts
    open,      \* the run has wall-clock budget left
    \* the variables of TrialQueue
    runs, reserved, index, queue, log, notes, sealed, known, told, acked

store == <<runs, reserved, index, queue, log, notes, sealed, known, told, acked>>
vars == <<loop, started, vault, hand, artifacts, open, store>>

Store == INSTANCE TrialQueue

Proposals == Specs \cup {Idea, Invalid}
Candidates == (1..MaxRounds) \X (1..2)    \* candidate ids, fresh in every round
VaultFiles == ({"round"} \X RoundIds) \cup ({"json", "note"} \X Candidates)
Evidence == <<"predictions", "signals", "report">>

ASSUME AnswersAssumption == \A a \in Answers : a \in Seq(Proposals) /\ Len(a) <= 2
ASSUME LoopAssumption ==
    /\ Run \in Runs /\ Own \in Workers /\ MaxRounds \in Nat
    /\ Results = {"evaluated", "not_evaluated"}
    /\ EventKeys = {"data-needed", "submission", "rejected", "reserved"} \X Candidates
    /\ Events = Proposals
ASSUME StoreAssumption ==
    /\ Budgets \subseteq [trials: Nat \ {0}, attempts: 1..100]
    /\ MaxLease \in Nat \ {0} /\ MaxDelay \in Nat
    /\ None \notin Results \cup Proposals \cup {Torn, "written"}
    /\ None \notin Workers \cup Budgets \cup Payloads \cup EventKeys
    /\ Specs \cap EventKeys = {}
    /\ Torn \notin Proposals \cup {"written"}

\* "seen": the results the agents are shown; "shown": the ideas in the vault then.
Idle == [at |-> "idle", round |-> None, ideas |-> <<>>, n |-> 1, left |-> 0,
         seen |-> {}, shown |-> {}]

Free == [at |-> "idle", trial |-> None, token |-> 0, puts |-> 0, reply |-> None]

Loops ==
    [at: {"idle", "feedback", "memory", "propose", "record", "write", "submit", "reserve",
          "link", "drain", "work", "last"},
     round: RoundIds \cup {None}, ideas: Seq(Proposals), n: Nat \ {0}, left: Nat,
     seen: SUBSET Store!Trials, shown: SUBSET (Proposals \cup {Torn, "written"})]

Hands ==
    [at: {"idle", "claim", "run", "answered"}, trial: Store!Trials \cup {None}, token: Nat,
     puts: 0..Len(Evidence), reply: Results \cup {None}]

TypeOK ==
    /\ loop \in Loops
    /\ started \in 0..MaxRounds
    /\ vault \in [VaultFiles -> Proposals \cup {None, Torn, "written"}]
    /\ hand \in [Workers -> Hands]
    /\ artifacts \subseteq {Evidence[i] : i \in DOMAIN Evidence} \X Specs
    /\ open \in BOOLEAN
    /\ Store!TypeOK

\* freeze_numerical_run has created the run.
Init ==
    /\ loop = Idle
    /\ started = 0
    /\ vault = [f \in VaultFiles |-> None]
    /\ hand = [w \in Workers |-> Free]
    /\ artifacts = {}
    /\ open = TRUE
    /\ runs \in [Runs -> Budgets]
    /\ reserved = [r \in Runs |-> 0]
    /\ index = [t \in Store!Trials |-> 0]
    /\ queue = [t \in Store!Trials |-> Store!NoRow]
    /\ log = [r \in Runs |-> <<Store!Record("run_created", None, 0, "none")>>]
    /\ notes = [r \in Runs |-> [k \in EventKeys |-> None]]
    /\ sealed = [t \in Store!Trials |-> None]
    /\ known = {}
    /\ told = [t \in Store!Trials |-> 0]
    /\ acked = [t \in Store!Trials |-> {}]

-----------------------------------------------------------------------------
(* A round: what the agents are shown. *)

LoopAt(step) == loop.at = step
Goes(step) == loop' = [loop EXCEPT !.at = step]
Aborts == loop' = Idle    \* run_round raises, and what it held is gone

Completed == {t \in Store!Trials : queue[t].state = "completed"}
Outstanding == {t \in Store!Trials : Store!Reserved(t) /\ ~Store!Terminal(t)}

\* A round is refused while a trial is unsettled or when the run has expired.
StartRound(r) ==
    /\ LoopAt("idle") /\ started < MaxRounds /\ open
    /\ Outstanding = {}
    /\ loop' = [Idle EXCEPT !.at = "feedback", !.round = r]
    /\ started' = started + 1
    /\ UNCHANGED <<vault, hand, artifacts, open, store>>

\* development_feedback loads the report of every evaluated result, or raises.  It
\* and shared_context stop at 40 records, more than MaxRounds rounds make.
Readable(t) == queue[t].result = "evaluated" => <<"report", t[2]>> \in artifacts

ReadFeedback ==
    /\ LoopAt("feedback")
    /\ \A t \in Completed : Readable(t)
    /\ loop' = [loop EXCEPT !.at = "memory", !.seen = Completed]
    /\ UNCHANGED <<started, vault, hand, artifacts, open, store>>

TornMemory == \E c \in Candidates : vault[<<"json", c>>] = Torn

\* shared_context parses the JSON record of every candidate.
ReadMemory ==
    /\ LoopAt("memory") /\ ~TornMemory
    /\ loop' = [loop EXCEPT !.at = "propose",
                            !.shown = {vault[<<"json", c>>] : c \in Candidates} \ {None}]
    /\ UNCHANGED <<started, vault, hand, artifacts, open, store>>

MemoryTorn ==
    /\ LoopAt("memory") /\ TornMemory
    /\ Aborts
    /\ UNCHANGED <<started, vault, hand, artifacts, open, store>>

SlipPropose(ideas) ==
    /\ LoopAt("propose")
    /\ loop' = [loop EXCEPT !.at = "submit", !.ideas = ideas]
    /\ UNCHANGED <<started, vault, hand, artifacts, open, store>>

\* The orchestrator runs the agents' tasks: ResearchJobs has that part.
Propose(ideas) ==
    /\ LoopAt("propose")
    /\ loop' = [loop EXCEPT !.at = "record", !.ideas = ideas]
    /\ UNCHANGED <<started, vault, hand, artifacts, open, store>>

-----------------------------------------------------------------------------
(* record_round. *)

Ideas == Len(loop.ideas)
Candidate(i) == <<started, i>>

\* The n-th file a round leaves: the round's note, then two for each candidate.
File(n) ==
    IF n = 1 THEN <<"round", loop.round>>
    ELSE <<IF n % 2 = 0 THEN "json" ELSE "note", Candidate(n \div 2)>>
Content(n) == IF n % 2 = 0 THEN loop.ideas[n \div 2] ELSE "written"
FilesLeft == loop.n <= 2 * Ideas + 1

CreateFile ==
    /\ LoopAt("record") /\ FilesLeft
    /\ vault[File(loop.n)] = None
    /\ vault' = [vault EXCEPT ![File(loop.n)] = Torn]
    /\ Goes("write")
    /\ UNCHANGED <<started, hand, artifacts, open, store>>

WriteFile ==
    /\ LoopAt("write")
    /\ vault' = [vault EXCEPT ![File(loop.n)] = Content(loop.n)]
    /\ loop' = [loop EXCEPT !.at = "record", !.n = @ + 1]
    /\ UNCHANGED <<started, hand, artifacts, open, store>>

\* The round id was used before, in a round that may have been cut short.
RoundTaken ==
    /\ LoopAt("record") /\ FilesLeft
    /\ vault[File(loop.n)] # None
    /\ Aborts
    /\ UNCHANGED <<started, vault, hand, artifacts, open, store>>

\* The index page is derived from the records, none of which is torn here.
Recorded ==
    /\ LoopAt("record") /\ ~FilesLeft
    /\ loop' = [loop EXCEPT !.at = "submit", !.n = 1]
    /\ UNCHANGED <<started, vault, hand, artifacts, open, store>>

-----------------------------------------------------------------------------
(* Submission of the candidates. *)

Proposal == loop.ideas[loop.n]
Key(kind) == <<kind, Candidate(loop.n)>>
Skips == loop' = [loop EXCEPT !.at = "submit", !.n = @ + 1]
Submitting == LoopAt("submit") /\ loop.n <= Ideas

NoteIdea ==
    /\ Submitting /\ Proposal = Idea
    /\ Store!AppendGraphEvent(Run, Key("data-needed"), Idea)
    /\ Skips
    /\ UNCHANGED <<started, vault, hand, artifacts, open>>

\* submit_formula raises ContractError, which the round reports and goes on.
NotSubmitted ==
    /\ Submitting /\ Proposal # Idea /\ ~open
    /\ Skips
    /\ UNCHANGED <<started, vault, hand, artifacts, open, store>>

Submit ==
    /\ Submitting /\ Proposal # Idea /\ open
    /\ Store!AppendGraphEvent(Run, Key("submission"), Proposal)
    /\ Goes("reserve")
    /\ UNCHANGED <<started, vault, hand, artifacts, open>>

Reject ==
    /\ LoopAt("reserve") /\ Proposal = Invalid
    /\ Store!AppendGraphEvent(Run, Key("rejected"), Invalid)
    /\ Skips
    /\ UNCHANGED <<started, vault, hand, artifacts, open>>

Trial == <<Run, Proposal>>

Reserve ==
    /\ LoopAt("reserve") /\ Proposal # Invalid
    /\ \/ Store!ReserveTrial(Run, Proposal)
       \/ Store!Reserved(Trial) /\ UNCHANGED store
    /\ Goes("link")
    /\ UNCHANGED <<started, vault, hand, artifacts, open>>

NoBudget ==
    /\ LoopAt("reserve") /\ Proposal # Invalid
    /\ ~Store!Reserved(Trial) /\ reserved[Run] >= runs[Run].trials
    /\ Skips
    /\ UNCHANGED <<started, vault, hand, artifacts, open, store>>

Link ==
    /\ LoopAt("link")
    /\ Store!AppendGraphEvent(Run, Key("reserved"), Proposal)
    /\ Skips
    /\ UNCHANGED <<started, vault, hand, artifacts, open>>

-----------------------------------------------------------------------------
(* drain: at the end of a round, or on its own to resume the evaluations. *)

Expired(t) == queue[t].state = "running" /\ queue[t].left = 0

SlipDrains == loop' = [loop EXCEPT !.at = "drain", !.left = runs[Run].trials]

Drains == loop' = [loop EXCEPT !.at = "drain", !.left = runs[Run].trials * runs[Run].attempts]

Drain ==
    /\ LoopAt("idle") \/ (LoopAt("submit") /\ loop.n > Ideas)
    /\ Drains
    /\ UNCHANGED <<started, vault, hand, artifacts, open, store>>

\* process_one asks for a run with wall-clock budget left and returns expired
\* leases to the queue before it claims.
DrainStep ==
    /\ LoopAt("drain") /\ loop.left > 0 /\ open
    /\ \A t \in Store!Trials : ~Expired(t)
    /\ loop' = [loop EXCEPT !.at = "work", !.left = @ - 1]
    /\ hand' = [hand EXCEPT ![Own].at = "claim"]
    /\ UNCHANGED <<started, vault, artifacts, open, store>>

DrainClosed ==
    /\ LoopAt("drain") /\ loop.left > 0 /\ ~open
    /\ Aborts
    /\ UNCHANGED <<started, vault, hand, artifacts, open, store>>

Drained == IF loop.round = None THEN Idle ELSE [loop EXCEPT !.at = "last"]

DrainSpent ==
    /\ LoopAt("drain") /\ loop.left = 0
    /\ loop' = Drained
    /\ UNCHANGED <<started, vault, hand, artifacts, open, store>>

\* The measured feedback the round returns.
LastFeedback ==
    /\ LoopAt("last")
    /\ \A t \in Completed : Readable(t)
    /\ loop' = Idle
    /\ UNCHANGED <<started, vault, hand, artifacts, open, store>>

-----------------------------------------------------------------------------
(* process_one: a worker of its own, or the coordinator's. *)

Does(w, step) == hand' = [hand EXCEPT ![w].at = step]

\* process_one returns, or raises an error that drain reports and goes on after.
Returns(w) ==
    /\ hand' = [hand EXCEPT ![w] = Free]
    /\ loop' = IF w = Own THEN [loop EXCEPT !.at = "drain"] ELSE loop

\* It raises another error, which ends the coordinator's drain and round.
Raises(w) ==
    /\ hand' = [hand EXCEPT ![w] = Free]
    /\ loop' = IF w = Own THEN Idle ELSE loop

\* The supervisor's numerical jobs call process_one again and again.
Poll(w) ==
    /\ w # Own /\ hand[w].at = "idle" /\ open
    /\ \A t \in Store!Trials : ~Expired(t)
    /\ Does(w, "claim")
    /\ UNCHANGED <<loop, started, vault, artifacts, open, store>>

SlipReclaimRow(w) ==
    /\ open /\ w = Own /\ LoopAt("drain") /\ loop.left > 0
    /\ Store!ReclaimAny
    /\ UNCHANGED <<loop, started, vault, hand, artifacts, open>>

\* The rows reclaim() returns to the queue at the start of a process_one.
ReclaimRow(w) ==
    /\ open
    /\ IF w = Own THEN LoopAt("drain") /\ loop.left > 0 ELSE hand[w].at = "idle"
    /\ Store!ReclaimAny
    /\ UNCHANGED <<loop, started, vault, hand, artifacts, open>>

\* The child process is started with the claimed specification.
ClaimTrial(w, t) ==
    /\ hand[w].at = "claim"
    /\ Store!Claim(w, t, MaxLease, TRUE)
    /\ hand' = [hand EXCEPT ![w] = [Free EXCEPT !.at = "run", !.trial = t,
                                               !.token = queue[t].attempts + 1]]
    /\ UNCHANGED <<loop, started, vault, artifacts, open>>

\* A claim whose reply is lost leaves a lease that no worker knows of.
ClaimLost(w, t) ==
    /\ hand[w].at = "claim"
    /\ Store!Claim(w, t, MaxLease, FALSE)
    /\ Raises(w)
    /\ UNCHANGED <<started, vault, artifacts, open>>

NothingReady(w) ==
    /\ hand[w].at = "claim"
    /\ \A t \in Store!Trials : ~Store!Claimable(t)
    /\ hand' = [hand EXCEPT ![w] = Free]
    /\ loop' = IF w = Own THEN Drained ELSE loop
    /\ UNCHANGED <<started, vault, artifacts, open, store>>

\* store_predictions and the report: three objects, each published whole.
ChildPuts(w) ==
    /\ hand[w].at = "run" /\ hand[w].puts < Len(Evidence)
    /\ hand' = [hand EXCEPT ![w].puts = @ + 1]
    /\ artifacts' = artifacts \cup {<<Evidence[hand[w].puts + 1], hand[w].trial[2]>>}
    /\ UNCHANGED <<loop, started, vault, open, store>>

Answered(w, reply) ==
    /\ hand' = [hand EXCEPT ![w].at = "answered", ![w].reply = reply]
    /\ UNCHANGED <<loop, started, vault, artifacts, open, store>>

SlipChildSends(w) ==
    /\ hand[w].at = "run" /\ hand[w].puts = Len(Evidence) - 1
    /\ Answered(w, "evaluated")

ChildSends(w) ==
    /\ hand[w].at = "run" /\ hand[w].puts = Len(Evidence)
    /\ Answered(w, "evaluated")

\* A ContractError or a missing file, met before anything is published, is an answer.
ChildRefuses(w) ==
    /\ hand[w].at = "run" /\ hand[w].puts = 0
    /\ Answered(w, "not_evaluated")

\* After an error fail() is tried once.  It is refused or breaks without hiding
\* that error, so it commits here, or the store is left as it is.
Failing(w) == Store!Fail(w, hand[w].trial, hand[w].token, 0) \/ UNCHANGED store

\* The child sends worker_error, exits silently, or exceeds the trial's or run's time.
ChildFails(w) ==
    /\ hand[w].at = "run"
    /\ Failing(w)
    /\ Returns(w)
    /\ UNCHANGED <<started, vault, artifacts, open>>

Heartbeat(w) ==
    /\ hand[w].at = "run"
    /\ Store!Heartbeat(w, hand[w].trial, hand[w].token, MaxLease, TRUE)
    /\ UNCHANGED <<loop, started, vault, hand, artifacts, open>>

\* The connection breaks before or after the commit.
HeartbeatBroken(w) ==
    /\ hand[w].at = "run"
    /\ \/ Store!Heartbeat(w, hand[w].trial, hand[w].token, MaxLease, FALSE)
       \/ Failing(w)
    /\ Raises(w)
    /\ UNCHANGED <<started, vault, artifacts, open>>

\* SQLSTATE 55000: the lease is lost, and nothing more is done with it.
LeaseLost(w) ==
    /\ hand[w].at \in {"run", "answered"}
    /\ ~Store!LiveLease(hand[w].trial, w, hand[w].token)
    /\ Raises(w)
    /\ UNCHANGED <<started, vault, artifacts, open, store>>

Complete(w) ==
    /\ hand[w].at = "answered"
    /\ Store!CompleteFirst(w, hand[w].trial, hand[w].token, hand[w].reply, TRUE)
    /\ Returns(w)
    /\ UNCHANGED <<started, vault, artifacts, open>>

CompleteBroken(w) ==
    /\ hand[w].at = "answered"
    /\ \/ Store!CompleteFirst(w, hand[w].trial, hand[w].token, hand[w].reply, FALSE)
       \/ Failing(w)
    /\ Raises(w)
    /\ UNCHANGED <<started, vault, artifacts, open>>

-----------------------------------------------------------------------------
(* Kills, time, and the next-state relation. *)

\* Before its claim a worker holds nothing: a kill there is a call not made.
WorkerKilled(w) ==
    /\ w # Own /\ hand[w].trial # None
    /\ hand' = [hand EXCEPT ![w] = Free]
    /\ UNCHANGED <<loop, started, vault, artifacts, open, store>>

LoopKilled ==
    /\ loop # Idle
    /\ loop' = Idle
    /\ hand' = [hand EXCEPT ![Own] = Free]
    /\ UNCHANGED <<started, vault, artifacts, open, store>>

Tick ==
    /\ Store!Tick
    /\ UNCHANGED <<loop, started, vault, hand, artifacts, open>>

RunExpires ==
    /\ open
    /\ open' = FALSE
    /\ UNCHANGED <<loop, started, vault, hand, artifacts, store>>

Work(w) ==
    \/ Poll(w) \/ ReclaimRow(w)
    \/ \E t \in Store!Trials : ClaimTrial(w, t) \/ ClaimLost(w, t)
    \/ NothingReady(w)
    \/ ChildPuts(w) \/ ChildSends(w) \/ ChildRefuses(w) \/ ChildFails(w)
    \/ HeartbeatBroken(w) \/ LeaseLost(w) \/ Complete(w) \/ CompleteBroken(w)

LoopStep ==
    \/ \E r \in RoundIds : StartRound(r)
    \/ ReadFeedback \/ ReadMemory \/ MemoryTorn
    \/ \E ideas \in Answers : Propose(ideas)
    \/ CreateFile \/ WriteFile \/ RoundTaken \/ Recorded
    \/ NoteIdea \/ NotSubmitted \/ Submit \/ Reject \/ Reserve \/ NoBudget \/ Link
    \/ Drain \/ DrainStep \/ DrainClosed \/ DrainSpent \/ LastFeedback

Next ==
    \/ LoopStep
    \/ \E w \in Workers : Work(w) \/ Heartbeat(w) \/ WorkerKilled(w)
    \/ LoopKilled \/ Tick \/ RunExpires

\* Workers are called again and again, a child ends by its timeout, and the
\* database clock advances.  Nothing is assumed of the coordinator.
Spec == Init /\ [][Next]_vars /\ WF_vars(Tick) /\ \A w \in Workers : WF_vars(Work(w))

-----------------------------------------------------------------------------
(* Properties. *)

\* Adaptive rounds, whatever was killed before (run_round, record_round): agents
\* propose only when every trial is settled, knowing every result there is, and
\* knowing the idea behind every trial that was ever reserved.
RoundsInformed ==
    LoopAt("propose") =>
        /\ Outstanding = {}
        /\ loop.seen = Completed
        /\ \A s \in Specs : index[<<Run, s>>] > 0 => s \in loop.shown

\* The evidence of a stored result can be read, for ever: the child publishes its
\* objects before it answers, whichever of the workers' attempts won
\* (_evaluate_child, complete, development_feedback).
EvidenceStored ==
    \A t \in Store!Trials : queue[t].result = "evaluated" =>
        \A i \in DOMAIN Evidence : <<Evidence[i], t[2]>> \in artifacts

\* drain's count of calls is enough: when it is used up, every attempt of the run
\* is used up too, and no trial still waits for one.
DrainSuffices ==
    LoopAt("drain") /\ loop.left = 0 => \A t \in Store!Trials : queue[t].state # "pending"

\* process_one: workers that are killed, hang, or lose replies and leases settle
\* every trial, unless the run expires first; then nobody may.
TrialsSettle ==
    \A t \in Store!Trials : Store!Reserved(t) ~> Store!Terminal(t) \/ ~open
=============================================================================
