---------------------------- MODULE AttemptedWork ----------------------------
(***************************************************************************)
(* What a durable work queue promises about every item, whatever workers,  *)
(* leases, clocks and lost replies do: it is started at most "limit" times *)
(* and by one attempt at a time; it ends either with one outcome or, only  *)
(* after the last attempt allowed, without one; an ended item stays ended. *)
(* Both queues of the program implement it: TrialQueue (PostgreSQL) and    *)
(* Supervisor (SQLite).  A transaction may move several items, each by one *)
(* of its own steps.                                                       *)
(***************************************************************************)
EXTENDS Integers

CONSTANTS Items, Outcomes, NoOutcome

VARIABLES phase, tries, limit, outcome

workVars == <<phase, tries, limit, outcome>>

Init ==
    /\ phase = [i \in Items |-> "none"]
    /\ tries = [i \in Items |-> 0]
    /\ outcome = [i \in Items |-> NoOutcome]

Becomes(i, p, n, o) ==
    /\ phase'[i] = p
    /\ tries'[i] = n
    /\ outcome'[i] = o

Admit(i) ==
    /\ phase[i] = "none"
    /\ limit'[i] \in 1..100
    /\ Becomes(i, "pending", 0, NoOutcome)

Start(i) ==
    /\ phase[i] = "pending"
    /\ tries[i] < limit[i]
    /\ Becomes(i, "running", tries[i] + 1, NoOutcome)

Finish(i) ==
    /\ phase[i] = "running"
    /\ \E o \in Outcomes : Becomes(i, "completed", tries[i], o)

Retry(i) ==
    /\ phase[i] = "running"
    /\ tries[i] < limit[i]
    /\ Becomes(i, "pending", tries[i], NoOutcome)

GiveUp(i) ==
    /\ phase[i] = "running"
    /\ tries[i] = limit[i]
    /\ Becomes(i, "failed", tries[i], NoOutcome)

Stay(i) == Becomes(i, phase[i], tries[i], outcome[i])

Next ==
    \A i \in Items :
        \/ Admit(i)
        \/ /\ limit'[i] = limit[i]
           /\ Start(i) \/ Finish(i) \/ Retry(i) \/ GiveUp(i) \/ Stay(i)

Spec == Init /\ [][Next]_workVars
=============================================================================
