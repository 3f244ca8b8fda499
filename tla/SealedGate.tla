----------------------------- MODULE SealedGate -----------------------------
(***************************************************************************)
(* The sealed test gate of evaluation.py.  Evaluators hold copies of       *)
(* candidates of the registry (AlphaRegistry), which may be old by the time*)
(* they call SealedTestGate.run.  The gate's row in SQLite is inserted     *)
(* before anything is looked at, and outlives the process that inserted it.*)
(*                                                                         *)
(* A holdout is a snapshot and its test dates; several configurations, of  *)
(* different policies, have the same holdout.                              *)
(*                                                                         *)
(* SlipInsert is a wrong variant of Insert, and no part of the             *)
(* specification.                                                          *)
(***************************************************************************)
EXTENDS AlphaRegistry, Sequences

CONSTANTS
    Configs,      \* SealedTestConfigs: [snapshot, dates, policy]
    Evaluators    \* processes that call SealedTestGate.run

VARIABLES
    row,      \* sealed_attempts by holdout_key
    eval,     \* where an evaluator's run() is, and what it holds
    scored    \* history: the candidates each holdout was scored with

gateVars == <<status, events, row, eval, scored>>

Key(config) == <<config.snapshot, config.dates>>
Holdouts == {Key(config) : config \in Configs}

Idle == [at |-> "idle", config |-> None, candidate |-> None, copy |-> "none", match |-> FALSE]
NoRow == [status |-> "none", config |-> None, candidate |-> None]

GateTypeOK ==
    /\ RegistryTypeOK
    /\ row \in [Holdouts -> [status: {"none", "started", "failed", "completed"},
                             config: Configs \cup {None}, candidate: Candidates \cup {None}]]
    /\ eval \in [Evaluators -> [at: {"idle", "insert", "lock", "score", "complete", "fail"},
                                config: Configs \cup {None}, candidate: Candidates \cup {None},
                                copy: Statuses \cup {"none"}, match: BOOLEAN]]
    /\ scored \in [Holdouts -> Seq(Candidates)]

GateInit ==
    /\ RegistryInit
    /\ row = [h \in Holdouts |-> NoRow]
    /\ eval = [e \in Evaluators |-> Idle]
    /\ scored = [h \in Holdouts |-> <<>>]

-----------------------------------------------------------------------------
(* SealedTestGate.run. *)

Moves(e, at) == eval' = [eval EXCEPT ![e].at = at]
Held(e) == Key(eval[e].config)

\* The caller has a copy of the candidate, and names a snapshot and a policy that
\* are those of the gate's configuration or not.
Call(e, config, c, match) ==
    /\ eval[e] = Idle
    /\ status[c] # "none"
    /\ eval' = [eval EXCEPT ![e] = [at |-> "insert", config |-> config, candidate |-> c,
                                    copy |-> status[c], match |-> match]]
    /\ UNCHANGED <<status, events, row, scored>>

SlipInsert(e) ==
    /\ eval[e].at = "insert"
    /\ row' = [row EXCEPT ![Held(e)] = [status |-> "started", config |-> eval[e].config,
                                        candidate |-> None]]
    /\ Moves(e, "lock")
    /\ UNCHANGED <<status, events, scored>>

Insert(e) ==
    /\ eval[e].at = "insert"
    /\ row[Held(e)] = NoRow
    /\ row' = [row EXCEPT ![Held(e)] = [status |-> "started", config |-> eval[e].config,
                                        candidate |-> None]]
    /\ Moves(e, "lock")
    /\ UNCHANGED <<status, events, scored>>

Leave(e) == eval' = [eval EXCEPT ![e] = Idle]

\* The primary key is taken: the holdout is consumed.
Consumed(e) ==
    /\ eval[e].at = "insert"
    /\ row[Held(e)] # NoRow
    /\ Leave(e)
    /\ UNCHANGED <<status, events, row, scored>>

Admitted(e) ==
    /\ eval[e].match
    /\ SnapshotOf[eval[e].candidate] = eval[e].config.snapshot
    /\ eval[e].copy \in {"validated", "accepted"}

\* The row names the candidate, whether the checks after it pass or not.
Lock(e) ==
    /\ eval[e].at = "lock"
    /\ row' = [row EXCEPT ![Held(e)].candidate = eval[e].candidate]
    /\ Moves(e, IF Admitted(e) THEN "score" ELSE "fail")
    /\ UNCHANGED <<status, events, scored>>

\* The scorer runs; its result may be refused, and it may raise.
Score(e, good) ==
    /\ eval[e].at = "score"
    /\ scored' = [scored EXCEPT ![Held(e)] = Append(@, eval[e].candidate)]
    /\ Moves(e, IF good THEN "complete" ELSE "fail")
    /\ UNCHANGED <<status, events, row>>

Mine(e) ==
    /\ row[Held(e)].status = "started"
    /\ row[Held(e)].config = eval[e].config
    /\ row[Held(e)].candidate = eval[e].candidate

Complete(e) ==
    /\ eval[e].at = "complete"
    /\ Mine(e)
    /\ row' = [row EXCEPT ![Held(e)].status = "completed"]
    /\ Leave(e)
    /\ UNCHANGED <<status, events, scored>>

\* A write to the database fails, or it finds another row than the one it started.
Raises(e) ==
    /\ eval[e].at \in {"lock", "complete"}
    /\ Moves(e, "fail")
    /\ UNCHANGED <<status, events, row, scored>>

\* The write of the failure may fail, too: the row then stays started.
Fail(e, written) ==
    /\ eval[e].at = "fail"
    /\ row' = IF written /\ row[Held(e)].status = "started"
              THEN [row EXCEPT ![Held(e)].status = "failed"] ELSE row
    /\ Leave(e)
    /\ UNCHANGED <<status, events, scored>>

Dies(e) ==
    /\ eval[e].at # "idle"
    /\ Leave(e)
    /\ UNCHANGED <<status, events, row, scored>>

RegistryStep ==
    /\ \/ \E batch \in SUBSET Candidates : RegisterBatch(batch)
       \/ \E c \in Candidates, to \in Statuses, actor \in Actors : Transition(c, to, actor)
    /\ UNCHANGED <<row, eval, scored>>

GateStep(e) ==
    \/ \E config \in Configs, c \in Candidates, match \in BOOLEAN : Call(e, config, c, match)
    \/ Insert(e) \/ Consumed(e) \/ Lock(e)
    \/ \E good \in BOOLEAN : Score(e, good)
    \/ Complete(e) \/ Raises(e)
    \/ \E written \in BOOLEAN : Fail(e, written)
    \/ Dies(e)

GateNext == RegistryStep \/ \E e \in Evaluators : GateStep(e)

GateSpec == GateInit /\ [][GateNext]_gateVars

-----------------------------------------------------------------------------
(* Properties. *)

UseOf(h) ==
    CASE row[h] = NoRow -> "unused"
      [] row[h] # NoRow /\ Len(scored[h]) = 0 -> "taken"
      [] row[h] # NoRow /\ Len(scored[h]) = 1 -> IF row[h].status = "completed" THEN "reported" ELSE "tried"
      [] OTHER -> "used twice"

\* Whatever evaluators race for a holdout, with whichever candidates and policies,
\* and wherever they die, it is scored at most once, and with a candidate that the
\* numerical validator had validated (SealedTestGate.run, AlphaRegistry.transition).
Gate == INSTANCE OneShot WITH
            Items <- Holdouts, Takers <- Candidates, Nobody <- None,
            use <- [h \in Holdouts |-> UseOf(h)],
            by <- [h \in Holdouts |-> IF scored[h] = <<>> THEN None ELSE scored[h][1]],
            fit <- {c \in Candidates : \E v \in events :
                        v.candidate = c /\ v.to = "validated" /\ v.actor = Validator}
ImplementsOneShot == Gate!Spec
=============================================================================
