---------------------------- MODULE PointInTime ----------------------------
(***************************************************************************)
(* From dated records to a panel.  Sources, exposures, provider rows and   *)
(* universe vintages reach the archive at the moment they carry, some of   *)
(* them never.  Features are built from what is there, either through the  *)
(* registries (DataRegistry) or by the compiler of features.py, and a      *)
(* snapshot of them is written (SnapshotFiles) and read as a panel, from   *)
(* which predictions are made (WalkForward).                               *)
(*                                                                         *)
(* One snapshot is exported.  It is a copy of the archive and its creators *)
(* touch nothing else, so nothing arrives and no registry moves after the  *)
(* export: those steps commute with the creators' and are explored without *)
(* them.  View says so to TLC.                                             *)
(***************************************************************************)
EXTENDS DataRegistry, SnapshotFiles, WalkForward

CONSTANTS
    Sources, Exposures, Universe, Opens,  \* the records that may arrive
    Unreliable,  \* those of them that may never arrive
    Calendar,    \* the sessions: [day, open, decision]
    Plans,       \* the feature plans
    Formulas,    \* the formulas evaluated on a panel: [fn, window]
    MaxTime      \* bound: the clock

\* An observation of a field that is not the feature's.
ProviderRow(x) == x = Observation(x) /\ x.field # "feature" /\ x.available \in Nat

ASSUME FeedAssumption ==
    /\ \A s \in Sources : SourceVintage(s)
    /\ \A e \in Exposures : ExposureVintage(e)
    /\ \A u \in Universe : u.known \in Nat
    /\ \A x \in Opens : ProviderRow(x)
    /\ \A plan \in Plans : FeaturePlan(plan)
    /\ \A formula \in Formulas : Formula(formula)
    /\ Calendar \in Seq(Range(Calendar)) /\ Chronological(Calendar)
    /\ \A session \in Range(Calendar) : Session(session)
    /\ IsFiniteSet(Sources) /\ IsFiniteSet(Exposures) /\ IsFiniteSet(Opens)
    /\ MaxTime \in Nat

VARIABLES
    now,      \* the clock
    archive,  \* what has arrived, by kind
    export    \* what the snapshot holds, None before it

vars == <<now, archive, export, registryVars, filesVars>>

View == IF export = None THEN <<now, archive, export, registryVars, filesVars>>
                         ELSE <<export, filesVars>>

Arrivals(moment) ==
    [sources |-> {s \in Sources : s.extracted = moment},
     exposures |-> {e \in Exposures : e.available = moment},
     universe |-> {u \in Universe : u.known = moment},
     opens |-> {x \in Opens : x.available = moment}]

\* The calendar up to now.
Sessions == SubSeq(Calendar, 1, Cardinality({i \in DOMAIN Calendar : Calendar[i].decision <= now}))

TypeOK ==
    /\ now \in 0..MaxTime
    /\ archive \in [sources: SUBSET Sources, exposures: SUBSET Exposures,
                    universe: SUBSET Universe, opens: SUBSET Opens]
    /\ RegistryTypeOK
    /\ FilesTypeOK

Init ==
    /\ now = 0
    /\ archive = Arrivals(0)
    /\ export = None
    /\ RegistryInit
    /\ FilesInit

\* Time passes, and what is known at its new moment arrives, unless it is lost.
Tick ==
    /\ export = None /\ now < MaxTime
    /\ now' = now + 1
    /\ \E lost \in SUBSET Unreliable :
         LET arrived == Arrivals(now + 1)
         IN /\ lost \subseteq UNION {arrived.sources, arrived.exposures}
            /\ archive' = [archive EXCEPT !.sources = @ \cup (arrived.sources \ lost),
                                          !.exposures = @ \cup (arrived.exposures \ lost),
                                          !.universe = @ \cup arrived.universe,
                                          !.opens = @ \cup arrived.opens]
    /\ UNCHANGED <<export, registryVars, filesVars>>

Registries ==
    /\ export = None
    /\ RegistryNext(archive.sources, archive.universe, Sessions)
    /\ UNCHANGED <<now, archive, export, filesVars>>

\* The compiler as a tool of agents: it is given the records there are.
Compile(plan) == Materialize(plan, archive.sources, archive.exposures, Sessions)

\* A build is published with its evidence, and whoever merges its rows with the
\* provider's may lose the last session's.
Export(plan) ==
    LET build == Compile(plan)
    IN /\ export = None /\ build # None
       /\ \E kept \in {build.rows, {row \in build.rows : row.available < Last(Sessions).decision}} :
            export' = [build |-> build, calendar |-> Sessions, universe |-> archive.universe,
                       opens |-> archive.opens,
                       observations |-> {Observation(x) : x \in kept \cup archive.opens}]
       /\ UNCHANGED <<now, archive, registryVars, filesVars>>

Valid == Provenance(export.build, export.observations)

Create ==
    /\ export # None
    /\ \E p \in Creators : Begin(p) \/ ExclusiveCreate(p) \/ Write(p) \/ Open(p, Valid) \/ Kill(p)
    /\ UNCHANGED <<now, archive, export, registryVars>>

Next == Tick \/ Registries \/ (\E plan \in Plans : Export(plan)) \/ Create

Spec == Init /\ [][Next]_vars

-----------------------------------------------------------------------------
\* The panel that an export at a session's decision would have made of the records then
\* known, by extraction or in a replay by publication, with the calendar up to there.
Contemporary(i) ==
    LET build == export.build
        decision == export.calendar[i].decision
        sources == {s \in build.sources :
                      IF build.plan.clock = "as_run" THEN s.extracted <= decision ELSE s.published <= decision}
        exposures == {e \in build.exposures : e.available <= decision}
        calendar == SubSeq(export.calendar, 1, i)
        rows == IF Refused(build.plan, sources, exposures, calendar) THEN {}
                ELSE Materialize(build.plan, sources, exposures, calendar).rows
    IN SessionPanel({Observation(x) : x \in rows \cup {y \in export.opens : y.available <= decision}},
                    {u \in export.universe : u.known <= decision}, calendar)

Readable == export # None /\ Complete /\ Valid

\* No panel knows more than its time did.  Whatever arrives late (a revision, a
\* withdrawal, the end of a relation, a delisting, a restated price), any slice of the
\* panel of a snapshot that opens shows at each session what a panel made at the session's
\* decision would have shown (features.py:219-362, snapshots.py:256-352).
PanelKnowable ==
    Readable =>
        \A i \in DOMAIN export.calendar :
            LET contemporary == Contemporary(i)[i]
            IN \A first \in 1..i :
                 LET panel == Panel(export.observations, export.universe, export.calendar,
                                    export.calendar[first].day, export.calendar[Len(export.calendar)].day)
                 IN panel # None => panel[i - first + 1] = contemporary

\* Nor does a prediction: what is predicted at a session from the whole panel is fitted to
\* the same rows and asked about the same scores as if it had been predicted from the panel
\* made at the session's decision, so that no outcome of the test sessions, and no later
\* knowledge of any kind, enters a fold (numerical.py:178-239, panel.py:117-172, 223-261).
PredictionsKnowable ==
    Readable =>
        LET panel == Panel(export.observations, export.universe, export.calendar,
                           export.calendar[1].day, export.calendar[Len(export.calendar)].day)
        IN panel # None =>
             \A i \in DOMAIN panel, formula \in Formulas :
                 Predictions(panel, formula, i) = Predictions(Contemporary(i), formula, i)

\* A manifest vouches for its directory.  With several creators, killed at any point and
\* started again, once there is a manifest every part has its bytes, and the check of
\* the evidence, which repeats none of the compiler's code, accepts it exactly when no
\* row was lost on the way (snapshots.py:52-61, 75-121, 153-254).
SnapshotSound ==
    files["manifest"] # "absent" =>
        /\ \A i \in DOMAIN Parts : files[Parts[i]] = "whole"
        /\ Valid <=> Cardinality(export.observations) =
                       Cardinality(export.build.rows) + Cardinality(export.opens)

\* A feature rests on approvals that stand: its dataset is lawful and approved, the map it
\* came through was approved for that dataset, neither was or will be rejected, and what a
\* map delivers was available at the decision (alternative_data.py:470-570,
\* asset_mapping.py:261-303).
GovernedFeatures ==
    use # None =>
        LET candidate == candidates[use.candidate]
        IN /\ candidate.status = "approved" /\ Lawful(candidate.entry)
           /\ use.lineage.dataset = candidate.entry.dataset
           /\ use.map # None =>
                /\ maps[use.map] = "approved" /\ use.map.dataset = use.lineage.dataset
                /\ \A x \in use.observations : x.available <= use.decision
=============================================================================
