---------------------------- MODULE ProposalJob ----------------------------
(***************************************************************************)
(* A proposal job of campaign_workers.py: freeze the input, run the CLI    *)
(* agent once (cli_agents.py), checkpoint its proposal, submit each        *)
(* candidate to the trial store (pipeline.submit_formula) and publish the  *)
(* result.  The attempts of a job run one after the other, and the jobs of *)
(* several campaigns side by side; an attempt can be killed anywhere and a *)
(* later one finds its files.                                              *)
(*                                                                         *)
(* A checkpoint creates its file and then writes it (_exclusive_write), so *)
(* a kill or a reader may find it Torn.  Submissions are steps of the      *)
(* TrialQueue module.                                                      *)
(*                                                                         *)
(* Operators whose names begin with Slip are wrong variants of the         *)
(* definition below them and no part of the specification.                 *)
(***************************************************************************)
EXTENDS Integers, Sequences, FiniteSets

CONSTANTS
    Jobs,          \* job ids
    Responses,     \* final responses of the CLI: sequences of candidates
    Idea, Invalid, \* candidates without a formula, or with one the plan refuses
    Foreign,       \* candidates only other proposers submit
    Run,           \* payload.numerical_run_id
    MaxTries,      \* spec.max_attempts
    Torn,          \* content of a file created but not written
    \* the constants of TrialQueue
    Runs, Specs, Workers, Budgets, Results, EventKeys, Events, Payloads,
    MaxLease, MaxDelay, None

VARIABLES
    disk,     \* the files of a job, and the response in its scratch workspace
    at,       \* where the job's attempt is, "down" without one
    memory,   \* the findings the attempt has read
    answer,   \* the response the attempt holds
    item,     \* the candidate it is submitting
    tries,    \* attempts started
    invoked,  \* CLI invocations
    open,     \* the run has wall-clock budget left
    \* the variables of TrialQueue
    runs, reserved, index, queue, log, notes, sealed, known, told, acked

store == <<runs, reserved, index, queue, log, notes, sealed, known, told, acked>>
local == <<memory, answer, item>>
vars == <<disk, at, memory, answer, item, tries, invoked, open, store>>

Store == INSTANCE TrialQueue

Candidates == (Specs \ Foreign) \cup {Idea, Invalid}

ASSUME ResponsesAssumption == Responses \subseteq Seq(Candidates)
ASSUME KeysAssumption == EventKeys = {"submission", "rejected", "reserved"} \X Jobs \X (1..2)
ASSUME EventsAssumption == Events = Specs \cup {Invalid}
ASSUME OtherAssumption ==
    /\ Run \in Runs /\ Foreign \subseteq Specs /\ MaxTries \in Nat \ {0}
    /\ Torn \notin Responses \cup {None} /\ None \notin Responses
    /\ None \notin Specs \cup {Idea, Invalid, "created"}
    /\ \A r \in Responses : Len(r) <= 2
\* What TrialQueue assumes of its constants.
ASSUME StoreAssumption ==
    /\ Budgets \subseteq [trials: Nat \ {0}, attempts: 1..100]
    /\ MaxLease \in Nat \ {0} /\ MaxDelay \in Nat
    /\ None \notin Workers \cup Budgets \cup Results \cup Events \cup Payloads
    /\ None \notin Specs \cup EventKeys /\ Specs \cap EventKeys = {}

Files == {"spec", "input", "proposal", "result"}
Steps == Files \cup {"plan", "write spec", "write input", "write proposal", "write result",
                     "invoke", "wait", "copy", "submit", "reserve", "link"}

NoFiles == [spec |-> None, input |-> None, package |-> None, scratch |-> None,
            response |-> None, proposal |-> None, result |-> None]

Contents == [spec: {None, Torn, "frozen"}, input: {None, Torn} \cup SUBSET Jobs,
             package: {None, "created"}, scratch: Responses \cup {None},
             response: Responses \cup {None}, proposal: Responses \cup {None, Torn},
             result: Responses \cup {None, Torn}]

TypeOK ==
    /\ disk \in [Jobs -> Contents]
    /\ at \in [Jobs -> Steps \cup {"down", "done"}]
    /\ memory \in [Jobs -> SUBSET Jobs]
    /\ answer \in [Jobs -> Responses \cup {None}]
    /\ item \in [Jobs -> 1..3]
    /\ tries \in [Jobs -> 0..MaxTries]
    /\ invoked \in [Jobs -> 0..MaxTries]
    /\ open \in BOOLEAN

\* The run was frozen before a campaign names it.
Init ==
    /\ disk = [j \in Jobs |-> NoFiles]
    /\ at = [j \in Jobs |-> "down"]
    /\ memory = [j \in Jobs |-> {}]
    /\ answer = [j \in Jobs |-> None]
    /\ item = [j \in Jobs |-> 1]
    /\ tries = [j \in Jobs |-> 0]
    /\ invoked = [j \in Jobs |-> 0]
    /\ open = TRUE
    /\ runs \in [Runs -> Budgets]
    /\ reserved = [r \in Runs |-> 0]
    /\ index = [t \in Store!Trials |-> 0]
    /\ queue = [t \in Store!Trials |-> Store!NoRow]
    /\ log = [r \in Runs |-> <<Store!Record("run_created", None, 0, "none")>>]
    /\ notes = [r \in Runs |-> [k \in EventKeys |-> None]]
    /\ sealed = [t \in Store!Trials |-> None]
    /\ known = {}
    /\ told = [t \in Store!Trials |-> 0]
    /\ acked = [t \in Store!Trials |-> {}]

-----------------------------------------------------------------------------
(* Attempts. *)

Goes(j, step) == at' = [at EXCEPT ![j] = step]

\* What the process held in memory ends with it.
Ends(j, step) ==
    /\ Goes(j, step)
    /\ memory' = [memory EXCEPT ![j] = {}]
    /\ answer' = [answer EXCEPT ![j] = None]
    /\ item' = [item EXCEPT ![j] = 1]

\* The supervisor leases the job to a new worker process.
Start(j) ==
    /\ at[j] = "down"
    /\ tries[j] < MaxTries
    /\ tries' = [tries EXCEPT ![j] = @ + 1]
    /\ Goes(j, "spec")
    /\ UNCHANGED <<disk, local, invoked, open, store>>

\* The watchdog or the supervisor ends the worker's process group, CLI included.
Killed(j) ==
    /\ at[j] \in Steps
    /\ Ends(j, "down")
    /\ UNCHANGED <<disk, tries, invoked, open, store>>

\* execute() raises: the attempt is reported as failed.
Raise(j) ==
    /\ Ends(j, "down")
    /\ UNCHANGED <<disk, tries, invoked, open>>

-----------------------------------------------------------------------------
(* Files. *)

Fill(j, file, content) == disk' = [disk EXCEPT ![j][file] = content]
Create(j, file) == Fill(j, file, Torn)

\* A file that is there but torn differs from any checkpoint and is no JSON.
FindsTorn(j) ==
    /\ at[j] \in Files
    /\ disk[j][at[j]] = Torn
    /\ Raise(j)
    /\ UNCHANGED store

\* A result from an earlier attempt is returned before anything else is done.
AfterSpec(j) == IF disk[j].result = None THEN "plan" ELSE "result"

CreateSpec(j) ==
    /\ at[j] = "spec"
    /\ disk[j].spec = None
    /\ Create(j, "spec")
    /\ Goes(j, "write spec")
    /\ UNCHANGED <<local, tries, invoked, open, store>>

WriteSpec(j) ==
    /\ at[j] = "write spec"
    /\ Fill(j, "spec", "frozen")
    /\ Goes(j, AfterSpec(j))
    /\ UNCHANGED <<local, tries, invoked, open, store>>

FindsSpec(j) ==
    /\ at[j] = "spec"
    /\ disk[j].spec = "frozen"
    /\ Goes(j, AfterSpec(j))
    /\ UNCHANGED <<disk, local, tries, invoked, open, store>>

\* _plan_from_run refuses a run whose wall-clock budget is spent.
Plan(j) ==
    /\ at[j] = "plan"
    /\ open
    /\ Goes(j, "input")
    /\ UNCHANGED <<disk, local, tries, invoked, open, store>>

PlanClosed(j) ==
    /\ at[j] = "plan"
    /\ ~open
    /\ Raise(j)
    /\ UNCHANGED store

Proposed == {i \in Jobs : disk[i].proposal # None}

\* _recent_memory reads the proposals of all jobs, also one being written.
MemoryTorn(j) ==
    /\ at[j] = "input"
    /\ disk[j].input = None
    /\ \E i \in Proposed : disk[i].proposal = Torn
    /\ Raise(j)
    /\ UNCHANGED store

SlipCreateInput(j) ==
    /\ at[j] = "input"
    /\ \A i \in Proposed : disk[i].proposal # Torn
    /\ memory' = [memory EXCEPT ![j] = Proposed]
    /\ Create(j, "input")
    /\ Goes(j, "write input")
    /\ UNCHANGED <<answer, item, tries, invoked, open, store>>

CreateInput(j) ==
    /\ at[j] = "input"
    /\ disk[j].input = None
    /\ \A i \in Proposed : disk[i].proposal # Torn
    /\ memory' = [memory EXCEPT ![j] = Proposed]
    /\ Create(j, "input")
    /\ Goes(j, "write input")
    /\ UNCHANGED <<answer, item, tries, invoked, open, store>>

WriteInput(j) ==
    /\ at[j] = "write input"
    /\ Fill(j, "input", memory[j])
    /\ Goes(j, "proposal")
    /\ UNCHANGED <<local, tries, invoked, open, store>>

FindsInput(j) ==
    /\ at[j] = "input"
    /\ disk[j].input \notin {None, Torn}
    /\ Goes(j, "proposal")
    /\ UNCHANGED <<disk, local, tries, invoked, open, store>>

-----------------------------------------------------------------------------
(* The CLI agent. *)

SlipCreatePackage(j) ==
    /\ at[j] = "proposal"
    /\ disk[j].proposal = None
    /\ disk[j].response = None
    /\ Fill(j, "package", "created")
    /\ Goes(j, "invoke")
    /\ UNCHANGED <<local, tries, invoked, open, store>>

\* The first attempt to get here creates the task package.
CreatePackage(j) ==
    /\ at[j] = "proposal"
    /\ disk[j].proposal = None
    /\ disk[j].package = None
    /\ Fill(j, "package", "created")
    /\ Goes(j, "invoke")
    /\ UNCHANGED <<local, tries, invoked, open, store>>

Invoke(j) ==
    /\ at[j] = "invoke"
    /\ invoked' = [invoked EXCEPT ![j] = @ + 1]
    /\ Goes(j, "wait")
    /\ UNCHANGED <<disk, local, tries, open, store>>

\* The CLI exits well with a valid final response in the scratch workspace.
Responds(j, r) ==
    /\ at[j] = "wait"
    /\ Fill(j, "scratch", r)
    /\ Goes(j, "copy")
    /\ UNCHANGED <<local, tries, invoked, open, store>>

\* It times out, exits badly, leaves no valid response, or changed the package.
CliFails(j) ==
    /\ at[j] = "wait"
    /\ Raise(j)
    /\ UNCHANGED store

\* The response is put into the package by an atomic replace.
CopyResponse(j) ==
    /\ at[j] = "copy"
    /\ Fill(j, "response", disk[j].scratch)
    /\ answer' = [answer EXCEPT ![j] = disk[j].scratch]
    /\ Goes(j, "proposal")
    /\ UNCHANGED <<memory, item, tries, invoked, open, store>>

\* A package of an earlier attempt is used for its response, or not at all.
FindsResponse(j) ==
    /\ at[j] = "proposal"
    /\ disk[j].proposal = None
    /\ disk[j].response # None
    /\ answer[j] = None
    /\ answer' = [answer EXCEPT ![j] = disk[j].response]
    /\ UNCHANGED <<disk, at, memory, item, tries, invoked, open, store>>

GivesUp(j) ==
    /\ at[j] = "proposal"
    /\ disk[j].proposal = None
    /\ disk[j].package # None
    /\ disk[j].response = None

Interrupted(j) ==
    /\ GivesUp(j)
    /\ Raise(j)
    /\ UNCHANGED store

CreateProposal(j) ==
    /\ at[j] = "proposal"
    /\ disk[j].proposal = None
    /\ answer[j] # None
    /\ Create(j, "proposal")
    /\ Goes(j, "write proposal")
    /\ UNCHANGED <<local, tries, invoked, open, store>>

WriteProposal(j) ==
    /\ at[j] = "write proposal"
    /\ Fill(j, "proposal", answer[j])
    /\ Goes(j, "submit")
    /\ UNCHANGED <<local, tries, invoked, open, store>>

FindsProposal(j) ==
    /\ at[j] = "proposal"
    /\ disk[j].proposal \in Responses
    /\ Goes(j, "submit")
    /\ UNCHANGED <<disk, local, tries, invoked, open, store>>

-----------------------------------------------------------------------------
(* submit_formula() for each candidate of the proposal. *)

Current(j) == disk[j].proposal[item[j]]
More(j) == item[j] <= Len(disk[j].proposal)
Key(kind, j) == <<kind, j, item[j]>>

NextItem(j) ==
    /\ item' = [item EXCEPT ![j] = @ + 1]
    /\ Goes(j, "submit")
    /\ UNCHANGED <<disk, memory, answer, tries, invoked, open>>

\* append_graph_event: a note that is there with the same content is left as it is.
Note(k, content) ==
    IF notes[Run][k] = None THEN Store!AppendGraphEvent(Run, k, content)
    ELSE notes[Run][k] = content /\ UNCHANGED store

SkipIdea(j) ==
    /\ at[j] = "submit"
    /\ More(j)
    /\ Current(j) = Idea
    /\ NextItem(j)
    /\ UNCHANGED store

\* submit_formula, too, first asks for a run that has wall-clock budget left.
RunClosed(j) ==
    /\ at[j] = "submit"
    /\ More(j)
    /\ Current(j) # Idea
    /\ ~open
    /\ Raise(j)
    /\ UNCHANGED store

SlipSubmit(j) ==
    /\ at[j] = "submit"
    /\ More(j)
    /\ Current(j) # Idea
    /\ open
    /\ Goes(j, "reserve")
    /\ UNCHANGED <<disk, local, tries, invoked, open, store>>

Submit(j) ==
    /\ at[j] = "submit"
    /\ More(j)
    /\ Current(j) # Idea
    /\ open
    /\ Note(Key("submission", j), Current(j))
    /\ Goes(j, "reserve")
    /\ UNCHANGED <<disk, local, tries, invoked, open>>

\* A formula the plan refuses is noted, and the job's attempt fails with it.
RejectFormula(j) ==
    /\ at[j] = "reserve"
    /\ Current(j) = Invalid
    /\ Note(Key("rejected", j), Invalid)
    /\ Raise(j)

ReserveNew(j) ==
    /\ at[j] = "reserve"
    /\ Current(j) \in Specs
    /\ Store!ReserveTrial(Run, Current(j))
    /\ Goes(j, "link")
    /\ UNCHANGED <<disk, local, tries, invoked, open>>

\* The candidate has its trial, from an earlier attempt or another job.
ReserveKnown(j) ==
    /\ at[j] = "reserve"
    /\ Current(j) \in Specs
    /\ index[<<Run, Current(j)>>] > 0
    /\ Goes(j, "link")
    /\ UNCHANGED <<disk, local, tries, invoked, open, store>>

SlipNoBudget(j) ==
    /\ at[j] = "reserve"
    /\ Current(j) \in Specs
    /\ index[<<Run, Current(j)>>] = 0
    /\ reserved[Run] >= runs[Run].trials
    /\ NextItem(j)
    /\ UNCHANGED store

NoBudget(j) ==
    /\ at[j] = "reserve"
    /\ Current(j) \in Specs
    /\ index[<<Run, Current(j)>>] = 0
    /\ reserved[Run] >= runs[Run].trials
    /\ Raise(j)
    /\ UNCHANGED store

Link(j) ==
    /\ at[j] = "link"
    /\ Note(Key("reserved", j), Current(j))
    /\ NextItem(j)

AllSubmitted(j) ==
    /\ at[j] = "submit"
    /\ ~More(j)
    /\ Goes(j, "result")
    /\ UNCHANGED <<disk, local, tries, invoked, open, store>>

CreateResult(j) ==
    /\ at[j] = "result"
    /\ disk[j].result = None
    /\ Create(j, "result")
    /\ Goes(j, "write result")
    /\ UNCHANGED <<local, tries, invoked, open, store>>

WriteResult(j) ==
    /\ at[j] = "write result"
    /\ Fill(j, "result", disk[j].proposal)
    /\ Ends(j, "done")
    /\ UNCHANGED <<tries, invoked, open, store>>

\* An earlier attempt published the result and died before it was reported.
FindsResult(j) ==
    /\ at[j] = "result"
    /\ disk[j].result \in Responses
    /\ Ends(j, "done")
    /\ UNCHANGED <<disk, tries, invoked, open, store>>

\* finish() was not reached: the service's child died with the result on disk.
Unreported(j) ==
    /\ at[j] = "done"
    /\ tries[j] < MaxTries
    /\ Goes(j, "down")
    /\ UNCHANGED <<disk, local, tries, invoked, open, store>>

-----------------------------------------------------------------------------
(* The rest of the system. *)

OthersReserve(s) ==
    /\ Store!ReserveTrial(Run, s)
    /\ UNCHANGED <<disk, at, local, tries, invoked, open>>

RunExpires ==
    /\ open
    /\ open' = FALSE
    /\ UNCHANGED <<disk, at, local, tries, invoked, store>>

FileStep(j) ==
    \/ FindsTorn(j)
    \/ CreateSpec(j) \/ WriteSpec(j) \/ FindsSpec(j)
    \/ Plan(j) \/ PlanClosed(j)
    \/ MemoryTorn(j) \/ CreateInput(j) \/ WriteInput(j) \/ FindsInput(j)
    \/ CreateProposal(j) \/ WriteProposal(j) \/ FindsProposal(j)
    \/ CreateResult(j) \/ WriteResult(j) \/ FindsResult(j)

CliStep(j) ==
    \/ CreatePackage(j)
    \/ Invoke(j)
    \/ \E r \in Responses : Responds(j, r)
    \/ CliFails(j)
    \/ CopyResponse(j)
    \/ FindsResponse(j)
    \/ Interrupted(j)

SubmitStep(j) ==
    \/ SkipIdea(j) \/ RunClosed(j) \/ Submit(j)
    \/ RejectFormula(j) \/ ReserveNew(j) \/ ReserveKnown(j) \/ NoBudget(j)
    \/ Link(j) \/ AllSubmitted(j)

Next ==
    \/ \E j \in Jobs :
         \/ Start(j) \/ Killed(j) \/ Unreported(j)
         \/ FileStep(j) \/ CliStep(j) \/ SubmitStep(j)
    \/ \E s \in Foreign : OthersReserve(s)
    \/ RunExpires

Spec == Init /\ [][Next]_vars

-----------------------------------------------------------------------------
(* Properties. *)

\* Nothing pays for a second invocation of a job's CLI, however often its attempts
\* are killed or fail (execute, FileTaskStore.create).
OneInvocation == \A j \in Jobs : invoked[j] <= 1

\* What a job publishes is the response of its one invocation, and by then each of
\* its formulas has its trial and both of its notes (execute, submit_formula).
ResultComplete ==
    \A j \in Jobs : disk[j].result \notin {None, Torn} =>
        /\ disk[j].result = disk[j].scratch
        /\ \A i \in 1..Len(disk[j].result) : disk[j].result[i] # Idea =>
             LET s == disk[j].result[i] IN
             /\ index[<<Run, s>>] > 0
             /\ notes[Run][<<"submission", j, i>>] = s
             /\ notes[Run][<<"reserved", j, i>>] = s

\* Every trial the jobs reserved was first noted as a submission, and a link note
\* never names a trial that is not there (submit_formula).
TrialsTraceable ==
    /\ \A s \in Specs \ Foreign : index[<<Run, s>>] > 0 =>
         \E j \in Jobs, i \in 1..2 : notes[Run][<<"submission", j, i>>] = s
    /\ \A j \in Jobs, i \in 1..2 : LET s == notes[Run][<<"reserved", j, i>>] IN
         s # None => index[<<Run, s>>] > 0 /\ notes[Run][<<"submission", j, i>>] = s

\* Retries work from what earlier attempts froze: a written file is never changed,
\* so the same input, response, proposal and result serve all attempts (execute).
FrozenStays ==
    [][\A j \in Jobs : \A file \in DOMAIN NoFiles :
        disk[j][file] \notin {None, Torn} => disk'[j][file] = disk[j][file]]_disk

\* A completed CLI final response can be recovered: no attempt gives a job up for
\* want of the answer the CLI has left.
ResponseRecoverable == \A j \in Jobs : GivesUp(j) => disk[j].scratch = None
=============================================================================
