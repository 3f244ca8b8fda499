---------------------------- MODULE DataRegistry ----------------------------
(***************************************************************************)
(* The registries of alternative_data.py and asset_mapping.py: datasets    *)
(* and exposure maps are discovered by agents and approved or rejected by  *)
(* a data steward, and the factory builds features from approved ones.     *)
(*                                                                         *)
(* Registry records are immutable: a caller that got a map keeps what it   *)
(* got, whatever the registry decides later.  Calls that raise change      *)
(* nothing and are left out.                                               *)
(*                                                                         *)
(* Operators whose names begin with Slip are wrong variants of the         *)
(* definition below them and no part of the specification.                 *)
(***************************************************************************)
EXTENDS EvidenceFeatures, SequencesExt

CONSTANTS
    Catalog,        \* entries of the supplied catalog: [dataset, rights]
    Maps,           \* exposure maps that may be submitted: [dataset, exposures]
    FeatureLag,     \* availability lag of the feature's definition, in moments
    MaxCandidates   \* bound: discoveries

\* What a dataset must be or allow: values as of their time, research on it, features
\* derived from it, nobody's personal data, a verified license.
Rights == {"point_in_time", "research", "derived_features", "impersonal", "verified"}
Lawful(entry) == entry.rights = Rights

Statuses == {"discovered", "approved", "rejected"}

ASSUME RegistryAssumption ==
    /\ None \notin Statuses
    /\ IsFiniteSet(Catalog)
    /\ \A entry \in Catalog : entry.rights \subseteq Rights
    /\ \A m \in Maps : m.exposures # {} /\ \A e \in m.exposures : ExposureVintage(e) /\ e.weight # 0
    /\ FeatureLag \in Nat /\ MaxCandidates \in Nat

VARIABLES
    candidates, \* discovered datasets, in order: [entry, status]
    maps,       \* status of every map, None before it is submitted
    copies,     \* versions of maps that callers have: [map, status]
    use         \* the first feature built from a dataset, None before it

registryVars == <<candidates, maps, copies, use>>

RegistryTypeOK ==
    /\ candidates \in Seq([entry: Catalog, status: Statuses])
    /\ maps \in [Maps -> Statuses \cup {None}]
    /\ copies \subseteq [map: Maps, status: Statuses]
    /\ use = None \/ use.candidate \in DOMAIN candidates

RegistryInit ==
    /\ candidates = <<>>
    /\ maps = [m \in Maps |-> None]
    /\ copies = {}
    /\ use = None

\* Agents register what a search found, but only what may lawfully be used.
Discover(found) ==
    LET lawful == SetToSeq({entry \in found : Lawful(entry)})
    IN /\ Len(candidates) + Len(lawful) <= MaxCandidates
       /\ candidates' = candidates \o [i \in DOMAIN lawful |-> [entry |-> lawful[i], status |-> "discovered"]]
       /\ UNCHANGED <<maps, copies, use>>

\* The registry itself takes any entry.
Register(entry) ==
    /\ Len(candidates) < MaxCandidates
    /\ candidates' = Append(candidates, [entry |-> entry, status |-> "discovered"])
    /\ UNCHANGED <<maps, copies, use>>

SlipUndecided(status) == status # None
Undecided(status) == status = "discovered"

\* Only a data steward approves.
Approve(c) ==
    /\ Undecided(candidates[c].status)
    /\ Lawful(candidates[c].entry)
    /\ candidates' = [candidates EXCEPT ![c].status = "approved"]
    /\ UNCHANGED <<maps, copies, use>>

Reject(c) ==
    /\ Undecided(candidates[c].status)
    /\ candidates' = [candidates EXCEPT ![c].status = "rejected"]
    /\ UNCHANGED <<maps, copies, use>>

\* A map's new version goes back to the caller.
PutMap(m, status) ==
    /\ maps' = [maps EXCEPT ![m] = status]
    /\ copies' = copies \cup {[map |-> m, status |-> status]}
    /\ UNCHANGED <<candidates, use>>

Submit(m) == maps[m] = None /\ PutMap(m, "discovered")

\* The steward names the dataset that the map is approved for.
ApproveMap(m, dataset) ==
    /\ Undecided(maps[m])
    /\ m.dataset = dataset
    /\ PutMap(m, "approved")

RejectMap(m) == Undecided(maps[m]) /\ PutMap(m, "rejected")

\* Lineage, and every use of a dataset, asks the registry for its status.
Approved(c) == candidates[c].status = "approved"

Lineage(c) == [dataset |-> candidates[c].entry.dataset]

Used(c, m, decision, observations) ==
    /\ use' = [candidate |-> c, lineage |-> Lineage(c), map |-> m, decision |-> decision,
               observations |-> observations]
    /\ UNCHANGED <<candidates, maps, copies>>

\* The raw rows of a dataset: its vintages that have a value.
RawRows(sources, c) == {s \in sources : s.dataset = candidates[c].entry.dataset /\ s.value # None}

BuildFeature(c, sources) ==
    /\ use = None /\ Approved(c)
    /\ Used(c, None, None,
            {[asset |-> s.key, value |-> s.value, available |-> s.published + FeatureLag] : s \in RawRows(sources, c)})

\* A row reaches an asset if both the row and the exposure were known at the decision.
Reaches(s, e, decision) ==
    /\ s.key = e.key
    /\ s.published + FeatureLag <= decision
    /\ e.available <= decision

\* What rows become through a map: those observed by a session, for the members exposed.
Mapped(m, rows, universe, session) ==
    LET relevant == {e \in m.exposures : InForce(e, session.day) /\
                       \E u \in universe : u.asset = e.asset /\ InForce(u, session.day)}
    IN {[asset |-> r[2].asset, value |-> r[1].value * r[2].weight,
         available |-> Max({r[1].published + FeatureLag, r[2].available})] :
          r \in {x \in {s \in rows : s.day <= session.day} \X relevant : Reaches(x[1], x[2], session.decision)}}

BuildMappedFeature(c, copy, sources, universe, session) ==
    /\ use = None /\ Approved(c)
    /\ copy.map.dataset = candidates[c].entry.dataset
    /\ copy.status = "approved"
    /\ Used(c, copy.map, session.decision, Mapped(copy.map, RawRows(sources, c), universe, session))

\* The hand-off of a hypothesis to the alpha registry.
HandOff(c) ==
    /\ use = None /\ Approved(c)
    /\ Used(c, None, None, {})

RegistryNext(sources, universe, sessions) ==
    \/ \E found \in SUBSET Catalog : found # {} /\ Discover(found)
    \/ \E entry \in Catalog : Register(entry)
    \/ \E c \in DOMAIN candidates :
         \/ Approve(c) \/ Reject(c)
         \/ BuildFeature(c, sources) \/ HandOff(c)
         \/ \E copy \in copies, i \in DOMAIN sessions :
              BuildMappedFeature(c, copy, sources, universe, sessions[i])
    \/ \E m \in Maps :
         \/ Submit(m) \/ RejectMap(m)
         \/ \E entry \in Catalog : ApproveMap(m, entry.dataset)
=============================================================================
