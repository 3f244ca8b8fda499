-------------------------- MODULE EvidenceFeatures --------------------------
(***************************************************************************)
(* The compiler of features.py and the panel of snapshots.py, as operators *)
(* on sets of dated records, and the check by which a snapshot validates   *)
(* the evidence of the features it holds.                                  *)
(*                                                                         *)
(* Every record carries the moments at which it became known.  A source    *)
(* vintage was published, retrieved and extracted; an exposure, a provider *)
(* row and a universe vintage became available at one moment.  Weights are *)
(* in percent, the decay of events (half_life_days) is left out, and the   *)
(* archived texts the records quote are taken to be there.                 *)
(*                                                                         *)
(* Operators whose names begin with Slip are wrong variants of the         *)
(* definition below them and no part of the specification.                 *)
(***************************************************************************)
EXTENDS Integers, Sequences, FiniteSets, FiniteSetsExt

CONSTANTS
    DayLength,  \* moments of a day
    None        \* no value, no end, no result

DateAt(moment) == moment \div DayLength
Before(a, b) == a[1] < b[1] \/ (a[1] = b[1] /\ a[2] < b[2])

\* An interval without an end is open.
Unended(x, day) == x.to = None \/ day <= x.to
InForce(x, day) == x.from <= day /\ Unended(x, day)

SourceVintage(s) ==
    /\ {s.published, s.retrieved, s.extracted} \subseteq Nat
    /\ s.published <= s.retrieved /\ s.retrieved <= s.extracted
    /\ s.day <= DateAt(s.published)

ExposureVintage(e) ==
    /\ e.available \in Nat
    /\ e.weight \in -100..100
    /\ e.to = None \/ e.from <= e.to

FeaturePlan(plan) ==
    /\ plan.mode \in {"event_sum", "latest_proxy"}
    /\ plan.clock \in {"as_run", "publication_replay"}
    /\ plan.max_age \in Nat /\ plan.lag \in Nat
    /\ plan.allow_llm \in BOOLEAN

Session(session) == {session.day, session.open, session.decision} \subseteq Nat

Chronological(sessions) ==
    /\ sessions # <<>>
    /\ \A i \in 1..(Len(sessions) - 1) :
         /\ sessions[i].day < sessions[i + 1].day
         /\ sessions[i].decision < sessions[i + 1].decision

SlipClock(plan, s) == s.published

\* When a source counts as known: when it was extracted, or, in a replay, when published.
Clock(plan, s) == IF plan.clock = "as_run" THEN s.extracted ELSE s.published

\* The first session that may use a source.
EligibleFrom(plan, s, sessions) ==
    Cardinality({i \in DOMAIN sessions : sessions[i].decision < Clock(plan, s)}) + 1 + plan.lag

\* A calendar that begins later cannot tell how many sessions have passed.
Truncated(plan, s, sessions) == plan.lag > 0 /\ Clock(plan, s) < sessions[1].decision

\* Two vintages that cannot both be in one build.
Conflict(plan, s, t) ==
    /\ s.key = t.key
    /\ IF s.obs = t.obs THEN s.day # t.day \/ s.published = t.published
                        ELSE plan.mode = "latest_proxy" /\ s.day = t.day

Relation(e) == <<e.asset, e.key>>

Refused(plan, sources, exposures, sessions) ==
    \/ exposures = {} \/ ~Chronological(sessions)
    \/ \E s \in sources :
         \/ s.dataset # plan.dataset
         \/ s.llm /\ plan.clock = "publication_replay" /\ ~plan.allow_llm
         \/ Truncated(plan, s, sessions)
         \/ \E t \in sources \ {s} : Conflict(plan, s, t)
    \/ \E e \in exposures : \E f \in exposures \ {e} :
         Relation(e) = Relation(f) /\ e.from = f.from /\ e.available = f.available

\* The exposures in force on a day as known at a decision.  The latest version of a
\* relation is chosen first: one that was terminated does not revive an earlier one.
ExposuresAt(exposures, day, decision) ==
    LET known == {e \in exposures : e.from <= day /\ e.available <= decision}
    IN {e \in known :
         /\ e.weight # 0 /\ Unended(e, day)
         /\ \A f \in known : Relation(f) = Relation(e) =>
              ~Before(<<e.from, e.available>>, <<f.from, f.available>>)}

\* The sources a session sees: the last vintage of each observation and, of a proxy,
\* the last observed day; those that are withdrawn or too old do not count.
LatestSources(plan, sources, sessions, i) ==
    LET eligible == {s \in sources : EligibleFrom(plan, s, sessions) <= i}
        latest == {s \in eligible : \A t \in eligible :
                     (t.key = s.key /\ t.obs = s.obs) => t.published <= s.published}
    IN IF plan.mode = "event_sum" THEN latest
       ELSE {s \in latest : \A t \in latest : t.key = s.key => t.day <= s.day}

ActiveSources(plan, sources, sessions, i) ==
    {s \in LatestSources(plan, sources, sessions, i) :
        s.value # None /\ sessions[i].day - s.day \in 0..plan.max_age}

\* An event counts by the exposures of its day, a proxy by those of the session.
Contributions(plan, sources, exposures, sessions, i) ==
    LET InForceFor(s) == ExposuresAt(exposures,
            IF plan.mode = "latest_proxy" THEN sessions[i].day ELSE s.day, sessions[i].decision)
    IN UNION {{<<s, e>> : e \in {f \in InForceFor(s) : f.key = s.key}} :
                s \in ActiveSources(plan, sources, sessions, i)}

\* The rows of a session.  A proxy of which one mapped source is missing has no row.
SessionRows(plan, sources, exposures, sessions, i) ==
    LET all == Contributions(plan, sources, exposures, sessions, i)
        Of(asset) == {c \in all : c[2].asset = asset}
        Expected(asset) ==
            {e.key : e \in {f \in ExposuresAt(exposures, sessions[i].day, sessions[i].decision) : f.asset = asset}}
    IN {[session |-> sessions[i].day, asset |-> asset, field |-> "feature",
         value |-> MapThenSumSet(LAMBDA c : c[1].value * c[2].weight, Of(asset)),
         available |-> sessions[i].decision, contributions |-> Of(asset)] :
        asset \in {a \in {c[2].asset : c \in all} :
                     plan.mode = "latest_proxy" => {c[1].key : c \in Of(a)} = Expected(a)}}

\* The build with its evidence, None where the compiler raises.
Materialize(plan, sources, exposures, sessions) ==
    IF Refused(plan, sources, exposures, sessions) THEN None
    ELSE [plan |-> plan, sources |-> sources, exposures |-> exposures, sessions |-> sessions,
          rows |-> UNION {SessionRows(plan, sources, exposures, sessions, i) : i \in DOMAIN sessions}]

\* The check of a snapshot: what a row claims to rest on was known in time, and the
\* snapshot's rows of the field are those of the build.
DependencyInTime(build, row, s, e) ==
    LET plan == build.plan
        index == CHOOSE i \in DOMAIN build.sessions : build.sessions[i].day = row.session
    IN /\ s.published <= s.retrieved /\ s.retrieved <= s.extracted
       /\ Clock(plan, s) <= row.available /\ e.available <= row.available
       /\ s.dataset = plan.dataset /\ s.key = e.key /\ e.asset = row.asset
       /\ ~Truncated(plan, s, build.sessions)
       /\ Cardinality({j \in DOMAIN build.sessions : build.sessions[j].decision < Clock(plan, s)})
            + plan.lag < index

FeatureClocksValid(build) ==
    /\ Chronological(build.sessions)
    /\ \A row \in build.rows :
         /\ row.contributions # {}
         /\ \E i \in DOMAIN build.sessions :
              build.sessions[i].day = row.session /\ build.sessions[i].decision = row.available
         /\ \A c \in row.contributions :
              /\ c[1] \in build.sources /\ c[2] \in build.exposures
              /\ DependencyInTime(build, row, c[1], c[2])

Observation(row) ==
    [session |-> row.session, asset |-> row.asset, field |-> row.field,
     value |-> row.value, available |-> row.available]

Provenance(build, observations) ==
    /\ (build.plan.clock = "publication_replay" /\ \E s \in build.sources : s.llm) => build.plan.allow_llm
    /\ FeatureClocksValid(build)
    /\ {x \in observations : x.field = "feature"} = {Observation(row) : row \in build.rows}

\* The panel of a snapshot: at each session the members and the values then known.
Members(universe, session) ==
    LET known == {u \in universe : u.from <= session.day /\ u.known <= session.decision}
    IN {u.asset : u \in {v \in known :
         /\ Unended(v, session.day)
         /\ \A w \in known : w.asset = v.asset => ~Before(<<v.from, v.known>>, <<w.from, w.known>>)}}

SessionValues(observations, session) ==
    LET known == {x \in observations : x.session = session.day /\ x.available <= session.decision}
    IN {[asset |-> x.asset, field |-> x.field, value |-> x.value] :
         x \in {y \in known : \A z \in known :
                  (z.asset = y.asset /\ z.field = y.field) => z.available <= y.available}}

\* Records a panel cannot be made of.
Ambiguous(observations, universe) ==
    \/ \E x \in observations : \E y \in observations \ {x} :
         /\ x.session = y.session /\ x.asset = y.asset
         /\ x.field = y.field /\ x.available = y.available
    \/ \E u \in universe : u.to # None /\ u.to < u.from
    \/ \E u \in universe : \E v \in universe \ {u} :
         u.asset = v.asset /\ u.from = v.from /\ u.known = v.known

\* A decision follows its session's open and precedes the next one.
ExecutionTiming(sessions) ==
    \A i \in DOMAIN sessions :
       /\ sessions[i].open <= sessions[i].decision
       /\ i < Len(sessions) => sessions[i].decision < sessions[i + 1].open

SessionPanel(observations, universe, sessions) ==
    [i \in DOMAIN sessions |->
        [members |-> Members(universe, sessions[i]), values |-> SessionValues(observations, sessions[i])]]

\* The sessions of a chronological calendar from one day to another, if there are any.
Slice(sessions, first, last) ==
    LET within == {i \in DOMAIN sessions : sessions[i].day \in first..last}
    IN SubSeq(sessions, Min(within), Max(within))

\* The panel of the sessions from one day to another, None where the code raises.
Panel(observations, universe, sessions, first, last) ==
    IF \/ ~Chronological(sessions) \/ ~ExecutionTiming(sessions) \/ universe = {}
       \/ Ambiguous(observations, universe)
       \/ ~({"feature", "open"} \subseteq {x.field : x \in observations})
       \/ ~({x.session : x \in observations} \subseteq {sessions[i].day : i \in DOMAIN sessions})
       \/ ~({x.asset : x \in observations} \subseteq {u.asset : u \in universe})
       \/ ~\E i \in DOMAIN sessions : sessions[i].day \in first..last
    THEN None
    ELSE SessionPanel(observations, universe, Slice(sessions, first, last))
=============================================================================
