---------------------------- MODULE AlphaRegistry ----------------------------
(***************************************************************************)
(* The alpha registry of ledger.py: candidates enter it in batches and move*)
(* through a life cycle, with an event for each move.  Its events are a    *)
(* set, since no candidate returns to a status it has left.                *)
(*                                                                         *)
(* Each method holds the registry's lock and is one step.                  *)
(***************************************************************************)
EXTENDS Naturals, FiniteSets

CONSTANTS
    Candidates,   \* candidate ids
    SnapshotOf,   \* input_snapshot_hash of a candidate
    Actors,       \* who asks for transitions
    Validator,    \* "numerical-validator"
    None

VARIABLES
    status,   \* the registry's candidates
    events    \* its ledger

Statuses == {"proposed", "screened", "validated", "accepted", "rejected", "retired"}
Event(c, from, to, actor) == [candidate |-> c, from |-> from, to |-> to, actor |-> actor]
Events == [candidate: Candidates, from: Statuses \cup {"none"}, to: Statuses,
           actor: Actors \cup {"research-agent"}]

RegistryTypeOK ==
    /\ status \in [Candidates -> Statuses \cup {"none"}]
    /\ events \subseteq Events

RegistryInit ==
    /\ status = [c \in Candidates |-> "none"]
    /\ events = {}

Allowed ==
    {<<"proposed", "screened">>, <<"screened", "validated">>, <<"validated", "accepted">>,
     <<"accepted", "retired">>}
    \cup {<<s, "rejected">> : s \in {"proposed", "screened", "validated"}}

\* The ids of a batch are checked before the first of them is registered.
RegisterBatch(batch) ==
    /\ \A c \in batch : status[c] = "none"
    /\ status' = [c \in Candidates |-> IF c \in batch THEN "proposed" ELSE status[c]]
    /\ events' = events \cup {Event(c, "none", "proposed", "research-agent") : c \in batch}

Transition(c, to, actor) ==
    /\ to \in {"validated", "accepted"} => actor = Validator
    /\ <<status[c], to>> \in Allowed
    /\ status' = [status EXCEPT ![c] = to]
    /\ events' = events \cup {Event(c, status[c], to, actor)}
=============================================================================
