------------------------- MODULE PointInTimeProofs -------------------------
(***************************************************************************)
(* Theorems about PointInTime, for every value of its constants.           *)
(***************************************************************************)
EXTENDS PointInTime, FiniteSetTheorems, TLAPS

-----------------------------------------------------------------------------
(* Calendars. *)

LEMMA LeastNatural ==
    ASSUME NEW S, S \subseteq Nat, S # {}
    PROVE  \E n \in S : \A m \in S : n <= m
<1>1. PICK n \in S : \A m \in S : ~ (<<m, n>> \in OpToRel(<, Nat))
  BY NatLessThanWellFounded, WFMin
<1>2. ASSUME NEW m \in S PROVE n <= m
  <2>1. <<m, n>> \in Nat \X Nat /\ ~(m < n)
    BY <1>1 DEF OpToRel
  <2> QED
    BY <2>1
<1> QED
  BY <1>2

\* A calendar whose moments are numbers.
Dated(C) == C \in Seq(Range(C)) /\ \A i \in DOMAIN C : Session(C[i])

LEMMA DatedTypes ==
    ASSUME NEW C, Dated(C)
    PROVE  /\ Len(C) \in Nat /\ DOMAIN C = 1..Len(C)
           /\ \A i \in DOMAIN C : C[i].day \in Nat /\ C[i].decision \in Nat /\ C[i].open \in Nat
  BY DEF Dated, Session

\* Neighbours in order, all in order.
LEMMA Ordered ==
    ASSUME NEW C, Dated(C), Chronological(C), NEW i \in DOMAIN C, NEW j \in DOMAIN C, i < j
    PROVE  C[i].day < C[j].day /\ C[i].decision < C[j].decision
<1> DEFINE Bad == {k \in DOMAIN C : i < k /\ ~ (C[i].day < C[k].day /\
                                                  C[i].decision < C[k].decision)}
<1>1. SUFFICES ASSUME Bad # {} PROVE FALSE
  BY DEF Bad
<1>2. Bad \subseteq Nat
  BY DatedTypes
<1>3. PICK k \in Bad : \A m \in Bad : k <= m
  <2> HIDE DEF Bad
  <2> QED
    BY <1>1, <1>2, LeastNatural
<1>4. PICK m : m = k - 1
  OBVIOUS
<1>5. /\ Len(C) \in Nat /\ DOMAIN C = 1..Len(C)
      /\ \A x \in DOMAIN C : C[x].day \in Nat /\ C[x].decision \in Nat
  BY DatedTypes
<1>6. /\ m \in 1..(Len(C) - 1) /\ m \in DOMAIN C /\ m + 1 = k /\ m < k
      /\ k \in DOMAIN C /\ k \in Nat /\ i \in Nat /\ i < k
  BY <1>3, <1>4, <1>5
<1>7. C[m].day < C[k].day /\ C[m].decision < C[k].decision
  BY <1>6 DEF Chronological
<1>8. CASE i = m
  BY <1>3, <1>7, <1>8
<1>9. CASE i < m
  <2>1. m \notin Bad
    BY <1>3, <1>6
  <2>2. C[i].day < C[m].day /\ C[i].decision < C[m].decision
    BY <1>6, <1>9, <2>1
  <2>3. /\ C[i].day \in Nat /\ C[k].day \in Nat /\ C[m].day \in Nat
        /\ C[i].decision \in Nat /\ C[k].decision \in Nat /\ C[m].decision \in Nat
    BY <1>5, <1>6
  <2>4. C[i].day < C[k].day /\ C[i].decision < C[k].decision
    BY <1>7, <2>2, <2>3
  <2> QED
    BY <1>3, <2>4
<1> QED
  BY <1>6, <1>8, <1>9

LEMMA SameDay ==
    ASSUME NEW C, Dated(C), Chronological(C), NEW i \in DOMAIN C, NEW j \in DOMAIN C,
           C[i].day = C[j].day
    PROVE  i = j
<1>1. i \in Nat /\ j \in Nat /\ C[i].day \in Nat
  BY DatedTypes
<1>2. ~(i < j) /\ ~(j < i)
  BY <1>1, Ordered
<1> QED
  BY <1>1, <1>2

\* The calendar up to a session.
LEMMA UpTo ==
    ASSUME NEW C, Dated(C), Chronological(C), NEW i \in DOMAIN C
    PROVE  LET D == SubSeq(C, 1, i) IN
           /\ DOMAIN D = 1..i /\ Len(D) = i /\ \A j \in 1..i : D[j] = C[j]
           /\ Dated(D) /\ Chronological(D)
<1> DEFINE D == SubSeq(C, 1, i)
<1>1. i \in 1..Len(C) /\ C \in Seq(Range(C))
  BY DatedTypes DEF Dated
<1>2. D \in Seq(Range(C)) /\ Len(D) = i /\ DOMAIN D = 1..i /\ \A j \in 1..i : D[j] = C[j]
  BY <1>1
<1> HIDE DEF D
<1>3. D \in Seq(Range(D))
  <2>1. \A j \in 1..i : D[j] \in Range(D)
    BY <1>2 DEF Range
  <2> QED
    BY <1>1, <1>2, <2>1
<1>4. Dated(D)
  BY <1>1, <1>2, <1>3, DatedTypes DEF Dated
<1>5. Chronological(D)
  <2>1. D # <<>>
    BY <1>1, <1>2
  <2>2. ASSUME NEW j \in 1..(Len(D) - 1)
        PROVE  D[j].day < D[j + 1].day /\ D[j].decision < D[j + 1].decision
    <3>1. j \in 1..i /\ j + 1 \in 1..i /\ j \in 1..(Len(C) - 1)
      BY <1>1, <1>2
    <3>2. D[j] = C[j] /\ D[j + 1] = C[j + 1]
      BY <1>2, <3>1
    <3> QED
      BY <3>1, <3>2 DEF Chronological
  <2> QED
    BY <2>1, <2>2 DEF Chronological
<1> QED
  BY <1>2, <1>4, <1>5 DEF D

-----------------------------------------------------------------------------
(* The compiler.  What it makes of a session is the same when it is given only the     *)
(* records known at a later decision, and the calendar up to that.                     *)

\* The sessions decided before a moment.
Earlier(C, c) == {k \in DOMAIN C : C[k].decision < c}

LEMMA EarlierCount ==
    ASSUME NEW C, Dated(C), Chronological(C), NEW c \in Nat, NEW j \in DOMAIN C
    PROVE  /\ IsFiniteSet(Earlier(C, c)) /\ Cardinality(Earlier(C, c)) \in Nat
           /\ C[j].decision < c => j <= Cardinality(Earlier(C, c))
<1>1. IsFiniteSet(1..Len(C)) /\ Earlier(C, c) \subseteq 1..Len(C) /\ j \in 1..Len(C)
  <2>1. Len(C) \in Nat /\ DOMAIN C = 1..Len(C)
    BY DatedTypes
  <2>2. IsFiniteSet(1..Len(C))
    BY <2>1, FS_Interval
  <2> QED
    BY <2>1, <2>2 DEF Earlier
<1>2. IsFiniteSet(Earlier(C, c)) /\ Cardinality(Earlier(C, c)) \in Nat
  BY <1>1, FS_Subset, FS_CardinalityType
<1>3. ASSUME C[j].decision < c PROVE j <= Cardinality(Earlier(C, c))
  <2>1. ASSUME NEW k \in 1..j PROVE k \in Earlier(C, c)
    <3>1. k \in DOMAIN C /\ C[k].decision \in Nat /\ C[j].decision \in Nat
      BY <1>1, DatedTypes
    <3>2. k = j \/ k < j
      BY <1>1
    <3>3. C[k].decision < c
      BY <1>3, <3>1, <3>2, Ordered
    <3> QED
      BY <3>1, <3>3 DEF Earlier
  <2>2. 1..j \subseteq Earlier(C, c)
    BY <2>1
  <2>3. Cardinality(1..j) = j
    BY <1>1, FS_Interval
  <2> QED
    BY <1>2, <2>2, <2>3, FS_Subset
<1> QED
  BY <1>2, <1>3

\* A moment by a session's decision: no later session was decided before it.
LEMMA EarlierUpTo ==
    ASSUME NEW C, Dated(C), Chronological(C), NEW c \in Nat, NEW i \in DOMAIN C,
           c <= C[i].decision
    PROVE  Earlier(SubSeq(C, 1, i), c) = Earlier(C, c)
<1> DEFINE D == SubSeq(C, 1, i)
<1>1. DOMAIN D = 1..i /\ \A j \in 1..i : D[j] = C[j]
  BY UpTo
<1>2. i \in 1..Len(C) /\ DOMAIN C = 1..Len(C) /\ Len(C) \in Nat
  BY DatedTypes
<1>3. ASSUME NEW k \in Earlier(C, c) PROVE k \in 1..i
  <2>1. k \in DOMAIN C /\ C[k].decision < c /\ C[k].decision \in Nat /\ C[i].decision \in Nat
    BY DatedTypes DEF Earlier
  <2>2. ~(i < k)
    BY <2>1, Ordered
  <2> QED
    BY <1>2, <2>1, <2>2
<1> HIDE DEF D
<1>4. Earlier(D, c) = Earlier(C, c)
  BY <1>1, <1>2, <1>3 DEF Earlier
<1> QED
  BY <1>4 DEF D

LEMMA EligibleIs ==
    ASSUME NEW plan, NEW s, NEW C
    PROVE  EligibleFrom(plan, s, C) = Cardinality(Earlier(C, Clock(plan, s))) + 1 + plan.lag
  BY DEF EligibleFrom, Earlier

LEMMA ClockType ==
    ASSUME NEW plan, NEW s, SourceVintage(s)
    PROVE  Clock(plan, s) \in Nat
  BY DEF Clock, SourceVintage

\* The records a plan's clock knows at a moment.
Known(plan, S, d) == {s \in S : Clock(plan, s) <= d}
Available(X, d) == {x \in X : x.available <= d}

\* What is built: the inputs of a build, as they are when it is not refused.
Inputs(plan, S, E, C) ==
    /\ FeaturePlan(plan)
    /\ \A s \in S : SourceVintage(s)
    /\ \A e \in E : ExposureVintage(e)
    /\ Dated(C) /\ Chronological(C)

LEMMA SameEligible ==
    ASSUME NEW plan, NEW S, NEW E, NEW C, Inputs(plan, S, E, C),
           NEW i \in DOMAIN C, NEW j \in 1..i
    PROVE  {s \in S : EligibleFrom(plan, s, C) <= j}
             = {s \in Known(plan, S, C[i].decision) : EligibleFrom(plan, s, SubSeq(C, 1, i)) <= j}
<1> DEFINE D == SubSeq(C, 1, i)
<1>1. /\ i \in 1..Len(C) /\ j \in DOMAIN C /\ j \in Nat /\ i \in Nat /\ plan.lag \in Nat
      /\ C[i].decision \in Nat /\ C[j].decision \in Nat
      /\ C[j].decision <= C[i].decision
  <2>1. Dated(C) /\ Chronological(C) /\ plan.lag \in Nat
    BY DEF Inputs, FeaturePlan
  <2>2. i \in 1..Len(C) /\ DOMAIN C = 1..Len(C) /\ Len(C) \in Nat
    BY <2>1, DatedTypes
  <2>3. j \in DOMAIN C /\ (j = i \/ j < i)
    BY <2>2
  <2>4. C[i].decision \in Nat /\ C[j].decision \in Nat
    BY <2>1, <2>3, DatedTypes
  <2> QED
    BY <2>1, <2>2, <2>3, <2>4, Ordered
<1>2. ASSUME NEW s \in S, EligibleFrom(plan, s, C) <= j
      PROVE  Clock(plan, s) <= C[i].decision
  <2>1. Clock(plan, s) \in Nat
    BY ClockType DEF Inputs
  <2>2. /\ Cardinality(Earlier(C, Clock(plan, s))) \in Nat
        /\ C[j].decision < Clock(plan, s) => j <= Cardinality(Earlier(C, Clock(plan, s)))
    BY <1>1, <2>1, EarlierCount DEF Inputs
  <2>3. Cardinality(Earlier(C, Clock(plan, s))) + 1 + plan.lag <= j
    BY <1>2, EligibleIs
  <2> QED
    BY <1>1, <2>1, <2>2, <2>3
<1>3. ASSUME NEW s \in S, Clock(plan, s) <= C[i].decision
      PROVE  EligibleFrom(plan, s, C) = EligibleFrom(plan, s, D)
  <2>1. Clock(plan, s) \in Nat
    BY ClockType DEF Inputs
  <2>2. Earlier(D, Clock(plan, s)) = Earlier(C, Clock(plan, s))
    BY <1>3, <2>1, EarlierUpTo DEF Inputs
  <2> HIDE DEF D
  <2> QED
    BY <2>2, EligibleIs
<1> HIDE DEF D
<1> SUFFICES {s \in S : EligibleFrom(plan, s, C) <= j}
               = {s \in Known(plan, S, C[i].decision) : EligibleFrom(plan, s, D) <= j}
  BY DEF D
<1> QED
  BY <1>2, <1>3 DEF Known

\* The last vintages among the eligible ones.
LatestOf(plan, eligible) ==
    LET latest == {s \in eligible : \A t \in eligible :
                     (t.key = s.key /\ t.obs = s.obs) => t.published <= s.published}
    IN IF plan.mode = "event_sum" THEN latest
       ELSE {s \in latest : \A t \in latest : t.key = s.key => t.day <= s.day}

LEMMA SameActive ==
    ASSUME NEW plan, NEW S, NEW E, NEW C, Inputs(plan, S, E, C),
           NEW i \in DOMAIN C, NEW j \in 1..i
    PROVE  ActiveSources(plan, S, C, j)
             = ActiveSources(plan, Known(plan, S, C[i].decision), SubSeq(C, 1, i), j)
<1> DEFINE D == SubSeq(C, 1, i)
           T == Known(plan, S, C[i].decision)
           X == {s \in S : EligibleFrom(plan, s, C) <= j}
           Y == {s \in T : EligibleFrom(plan, s, D) <= j}
<1>1. X = Y
  BY SameEligible
<1>2. D[j] = C[j]
  BY UpTo DEF Inputs
<1> HIDE DEF D, T
<1>3. LatestSources(plan, S, C, j) = LatestOf(plan, X)
  BY DEF LatestSources, LatestOf
<1>4. LatestSources(plan, T, D, j) = LatestOf(plan, Y)
  BY DEF LatestSources, LatestOf
<1> HIDE DEF X, Y
<1>5. LatestSources(plan, S, C, j) = LatestSources(plan, T, D, j)
  BY <1>1, <1>3, <1>4
<1>6. ActiveSources(plan, S, C, j) = ActiveSources(plan, T, D, j)
  BY <1>2, <1>5 DEF ActiveSources
<1> QED
  BY <1>6 DEF D, T

LEMMA SameExposures ==
    ASSUME NEW E, NEW day, NEW d \in Nat, NEW e \in Nat, d <= e,
           \A x \in E : ExposureVintage(x)
    PROVE  ExposuresAt(E, day, d) = ExposuresAt(Available(E, e), day, d)
<1> DEFINE Before1 == {x \in E : x.from <= day /\ x.available <= d}
           Before2 == {x \in Available(E, e) : x.from <= day /\ x.available <= d}
<1>1. \A x \in E : x.available \in Nat
  BY DEF ExposureVintage
<1>2. Before1 = Before2
  BY <1>1 DEF Available
<1>3. ExposuresAt(E, day, d) = {x \in Before1 :
         /\ x.weight # 0 /\ Unended(x, day)
         /\ \A f \in Before1 : Relation(x) = Relation(f) =>
              ~Before(<<x.from, x.available>>, <<f.from, f.available>>)}
  BY DEF ExposuresAt
<1>4. ExposuresAt(Available(E, e), day, d) = {x \in Before2 :
         /\ x.weight # 0 /\ Unended(x, day)
         /\ \A f \in Before2 : Relation(x) = Relation(f) =>
              ~Before(<<x.from, x.available>>, <<f.from, f.available>>)}
  BY DEF ExposuresAt
<1> HIDE DEF Before1, Before2
<1> QED
  BY <1>2, <1>3, <1>4

\* The sum of contributions, and a session's rows of them.
Weighed(T) == MapThenSumSet(LAMBDA c : c[1].value * c[2].weight, T)

RowsOf(plan, session, all, expected) ==
    LET Of(asset) == {c \in all : c[2].asset = asset}
        Expected(asset) == {e.key : e \in {f \in expected : f.asset = asset}}
    IN {[session |-> session.day, asset |-> asset, field |-> "feature",
         value |-> Weighed(Of(asset)),
         available |-> session.decision, contributions |-> Of(asset)] :
        asset \in {a \in {c[2].asset : c \in all} :
                     plan.mode = "latest_proxy" => {c[1].key : c \in Of(a)} = Expected(a)}}

LEMMA SessionRowsAre ==
    ASSUME NEW plan, NEW S, NEW E, NEW C, NEW i
    PROVE  SessionRows(plan, S, E, C, i)
             = RowsOf(plan, C[i], Contributions(plan, S, E, C, i),
                      ExposuresAt(E, C[i].day, C[i].decision))
  BY DEF SessionRows, RowsOf, Weighed

LEMMA SameContributions ==
    ASSUME NEW plan, NEW S, NEW E, NEW C, Inputs(plan, S, E, C),
           NEW i \in DOMAIN C, NEW j \in 1..i
    PROVE  /\ Contributions(plan, S, E, C, j)
                = Contributions(plan, Known(plan, S, C[i].decision), Available(E, C[i].decision),
                                SubSeq(C, 1, i), j)
           /\ \A day : ExposuresAt(E, day, C[j].decision)
                         = ExposuresAt(Available(E, C[i].decision), day, C[j].decision)
<1> DEFINE d == C[i].decision
           D == SubSeq(C, 1, i)
           T == Known(plan, S, d)
           F == Available(E, d)
<1>1. D[j] = C[j]
  BY UpTo DEF Inputs
<1>2. d \in Nat /\ C[j].decision \in Nat /\ C[j].decision <= d
  <2>1. Dated(C) /\ Chronological(C)
    BY DEF Inputs
  <2>2. i \in 1..Len(C) /\ DOMAIN C = 1..Len(C) /\ Len(C) \in Nat
    BY <2>1, DatedTypes
  <2>3. j \in DOMAIN C /\ (j = i \/ j < i)
    BY <2>2
  <2>4. C[i].decision \in Nat /\ C[j].decision \in Nat
    BY <2>1, <2>3, DatedTypes
  <2> QED
    BY <2>1, <2>2, <2>3, <2>4, Ordered
<1>3. \A day : ExposuresAt(E, day, C[j].decision) = ExposuresAt(F, day, C[j].decision)
  BY <1>2, SameExposures DEF Inputs
<1>4. ActiveSources(plan, S, C, j) = ActiveSources(plan, T, D, j)
  BY SameActive
<1> HIDE DEF d, D, T, F
<1>5. Contributions(plan, S, E, C, j) = Contributions(plan, T, F, D, j)
  BY <1>1, <1>3, <1>4 DEF Contributions
<1> QED
  BY <1>1, <1>3, <1>5 DEF d, D, T, F

LEMMA SameRows ==
    ASSUME NEW plan, NEW S, NEW E, NEW C, Inputs(plan, S, E, C),
           NEW i \in DOMAIN C, NEW j \in 1..i
    PROVE  SessionRows(plan, S, E, C, j)
             = SessionRows(plan, Known(plan, S, C[i].decision), Available(E, C[i].decision),
                           SubSeq(C, 1, i), j)
<1> DEFINE d == C[i].decision
           D == SubSeq(C, 1, i)
           T == Known(plan, S, d)
           F == Available(E, d)
<1>1. /\ Contributions(plan, S, E, C, j) = Contributions(plan, T, F, D, j)
      /\ \A day : ExposuresAt(E, day, C[j].decision) = ExposuresAt(F, day, C[j].decision)
      /\ D[j] = C[j]
  <2>1. Contributions(plan, S, E, C, j) = Contributions(plan, T, F, D, j)
    BY SameContributions
  <2>2. \A day : ExposuresAt(E, day, C[j].decision) = ExposuresAt(F, day, C[j].decision)
    BY SameContributions
  <2>3. D[j] = C[j]
    BY UpTo DEF Inputs
  <2> QED
    BY <2>1, <2>2, <2>3
<1>2. SessionRows(plan, S, E, C, j)
        = RowsOf(plan, C[j], Contributions(plan, S, E, C, j),
                 ExposuresAt(E, C[j].day, C[j].decision))
  BY SessionRowsAre
<1>3. SessionRows(plan, T, F, D, j)
        = RowsOf(plan, D[j], Contributions(plan, T, F, D, j),
                 ExposuresAt(F, D[j].day, D[j].decision))
  BY SessionRowsAre
<1> HIDE DEF d, D, T, F
<1>4. SessionRows(plan, S, E, C, j) = SessionRows(plan, T, F, D, j)
  BY <1>1, <1>2, <1>3
<1> QED
  BY <1>4 DEF d, D, T, F

LEMMA StillAccepted ==
    ASSUME NEW plan, NEW S, NEW E, NEW C, Inputs(plan, S, E, C), ~Refused(plan, S, E, C),
           NEW i \in DOMAIN C, Available(E, C[i].decision) # {}
    PROVE  ~Refused(plan, Known(plan, S, C[i].decision), Available(E, C[i].decision),
                    SubSeq(C, 1, i))
<1> DEFINE D == SubSeq(C, 1, i)
           T == Known(plan, S, C[i].decision)
           F == Available(E, C[i].decision)
<1>1. /\ Dated(C) /\ Chronological(C) /\ i \in 1..Len(C) /\ Len(C) \in Nat
  BY DatedTypes DEF Inputs
<1>2. Chronological(D) /\ D[1] = C[1]
  <2>1. 1 \in 1..i
    BY <1>1
  <2>2. Chronological(D) /\ \A j \in 1..i : D[j] = C[j]
    BY <1>1, UpTo
  <2> HIDE DEF D
  <2> QED
    BY <2>1, <2>2
<1>3. T \subseteq S /\ F \subseteq E /\ F # {}
  BY DEF Known, Available
<1> HIDE DEF D, T, F
<1>4. \A s \in T : Truncated(plan, s, D) <=> Truncated(plan, s, C)
  BY <1>2 DEF Truncated
<1>5. ~Refused(plan, T, F, D)
  BY <1>2, <1>3, <1>4 DEF Refused
<1> QED
  BY <1>5 DEF D, T, F

LEMMA NoExposuresNoRows ==
    ASSUME NEW plan, NEW S, NEW C, NEW j
    PROVE  SessionRows(plan, S, {}, C, j) = {}
<1>1. \A day, d : ExposuresAt({}, day, d) = {}
  BY DEF ExposuresAt
<1>2. Contributions(plan, S, {}, C, j) = {}
  BY <1>1 DEF Contributions
<1>3. \A session, expected : RowsOf(plan, session, {}, expected) = {}
  BY DEF RowsOf
<1>4. SessionRows(plan, S, {}, C, j)
        = RowsOf(plan, C[j], Contributions(plan, S, {}, C, j),
                 ExposuresAt({}, C[j].day, C[j].decision))
  BY SessionRowsAre
<1> QED
  BY <1>2, <1>3, <1>4

LEMMA RowOfSession ==
    ASSUME NEW plan, NEW S, NEW E, NEW C, NEW j, NEW row \in SessionRows(plan, S, E, C, j)
    PROVE  /\ row.session = C[j].day /\ row.available = C[j].decision /\ row.field = "feature"
<1> DEFINE all == Contributions(plan, S, E, C, j)
           expected == ExposuresAt(E, C[j].day, C[j].decision)
<1>1. row \in RowsOf(plan, C[j], all, expected)
  BY SessionRowsAre
<1> HIDE DEF all, expected
<1>2. PICK asset : row = [session |-> C[j].day, asset |-> asset, field |-> "feature",
                          value |-> Weighed({c \in all : c[2].asset = asset}),
                          available |-> C[j].decision,
                          contributions |-> {c \in all : c[2].asset = asset}]
  BY <1>1 DEF RowsOf
<1> QED
  BY <1>2

BuiltRows(plan, S, E, C) == UNION {SessionRows(plan, S, E, C, j) : j \in DOMAIN C}

LEMMA BuildIs ==
    ASSUME NEW plan, NEW S, NEW E, NEW C, ~Refused(plan, S, E, C)
    PROVE  /\ Materialize(plan, S, E, C).plan = plan
           /\ Materialize(plan, S, E, C).sources = S
           /\ Materialize(plan, S, E, C).exposures = E
           /\ Materialize(plan, S, E, C).sessions = C
           /\ Materialize(plan, S, E, C).rows = BuiltRows(plan, S, E, C)
  BY DEF Materialize, BuiltRows

\* The rows of the records known at a session, None of them refused.
RowsThen(plan, S, E, C, i) ==
    LET T == Known(plan, S, C[i].decision)
        F == Available(E, C[i].decision)
    IN IF Refused(plan, T, F, SubSeq(C, 1, i)) THEN {}
       ELSE Materialize(plan, T, F, SubSeq(C, 1, i)).rows

\* They are the rows that the whole build has up to the session.
LEMMA RowsThenAre ==
    ASSUME NEW plan, NEW S, NEW E, NEW C, Inputs(plan, S, E, C), ~Refused(plan, S, E, C),
           NEW i \in DOMAIN C
    PROVE  RowsThen(plan, S, E, C, i) = UNION {SessionRows(plan, S, E, C, j) : j \in 1..i}
<1> DEFINE D == SubSeq(C, 1, i)
           T == Known(plan, S, C[i].decision)
           F == Available(E, C[i].decision)
<1>1. \A j \in 1..i : SessionRows(plan, S, E, C, j) = SessionRows(plan, T, F, D, j)
  BY SameRows
<1>2. DOMAIN D = 1..i
  BY UpTo DEF Inputs
<1>3. F # {} => ~Refused(plan, T, F, D)
  BY StillAccepted
<1>4. Refused(plan, T, {}, D)
  BY DEF Refused
<1>5. RowsThen(plan, S, E, C, i)
        = IF Refused(plan, T, F, D) THEN {} ELSE Materialize(plan, T, F, D).rows
  BY DEF RowsThen
<1> HIDE DEF D, T, F
<1>6. CASE F = {}
  <2>1. RowsThen(plan, S, E, C, i) = {}
    BY <1>4, <1>5, <1>6
  <2>2. \A j \in 1..i : SessionRows(plan, S, E, C, j) = {}
    BY <1>1, <1>6, NoExposuresNoRows
  <2> QED
    BY <2>1, <2>2
<1>7. CASE F # {}
  <2>1. RowsThen(plan, S, E, C, i) = BuiltRows(plan, T, F, D)
    BY <1>3, <1>5, <1>7, BuildIs
  <2> QED
    BY <1>1, <1>2, <2>1 DEF BuiltRows
<1> QED
  BY <1>6, <1>7

LEMMA RowsOfDay ==
    ASSUME NEW plan, NEW S, NEW E, NEW C, Inputs(plan, S, E, C),
           NEW row \in BuiltRows(plan, S, E, C), NEW j \in DOMAIN C, row.session = C[j].day
    PROVE  row \in SessionRows(plan, S, E, C, j)
<1>1. PICK k \in DOMAIN C : row \in SessionRows(plan, S, E, C, k)
  BY DEF BuiltRows
<1>2. C[k].day = C[j].day
  BY <1>1, RowOfSession
<1>3. k = j
  BY <1>2, SameDay DEF Inputs
<1> QED
  BY <1>1, <1>3

-----------------------------------------------------------------------------
(* The panel. *)

\* What a snapshot may hold: rows of a build, a provider's, and all of the former.
Holds(obs, rows, opens) ==
    /\ \E kept \in SUBSET rows : obs = {Observation(x) : x \in kept \cup opens}
    /\ {x \in obs : x.field = "feature"} = {Observation(row) : row \in rows}

ObservationsThen(plan, S, E, C, O, i) ==
    {Observation(x) : x \in RowsThen(plan, S, E, C, i) \cup Available(O, C[i].decision)}

LEMMA ObservationIs ==
    ASSUME NEW x
    PROVE  /\ Observation(x).session = x.session /\ Observation(x).asset = x.asset
           /\ Observation(x).field = x.field /\ Observation(x).value = x.value
           /\ Observation(x).available = x.available
  BY DEF Observation

LEMMA SameValues ==
    ASSUME NEW plan, NEW S, NEW E, NEW C, Inputs(plan, S, E, C), ~Refused(plan, S, E, C),
           NEW O, \A x \in O : x.available \in Nat,
           NEW obs, Holds(obs, BuiltRows(plan, S, E, C), O),
           NEW i \in DOMAIN C, NEW j \in 1..i
    PROVE  SessionValues(obs, C[j]) = SessionValues(ObservationsThen(plan, S, E, C, O, i), C[j])
<1> DEFINE then == ObservationsThen(plan, S, E, C, O, i)
           K(X) == {x \in X : x.session = C[j].day /\ x.available <= C[j].decision}
           rows == BuiltRows(plan, S, E, C)
<1>1. /\ j \in DOMAIN C
      /\ C[i].decision \in Nat /\ C[j].decision \in Nat /\ C[j].decision <= C[i].decision
  <2>1. Dated(C) /\ Chronological(C)
    BY DEF Inputs
  <2>2. i \in 1..Len(C) /\ DOMAIN C = 1..Len(C) /\ Len(C) \in Nat
    BY <2>1, DatedTypes
  <2>3. j \in DOMAIN C /\ (j = i \/ j < i)
    BY <2>2
  <2>4. C[i].decision \in Nat /\ C[j].decision \in Nat
    BY <2>1, <2>3, DatedTypes
  <2> QED
    BY <2>1, <2>2, <2>3, <2>4, Ordered
<1>2. PICK kept \in SUBSET rows : obs = {Observation(x) : x \in kept \cup O}
  BY DEF Holds
<1>3. \A row \in rows : Observation(row) \in obs
  BY DEF Holds
<1>4. RowsThen(plan, S, E, C, i) = UNION {SessionRows(plan, S, E, C, k) : k \in 1..i}
  BY RowsThenAre
<1>5. RowsThen(plan, S, E, C, i) \subseteq rows
  <2>1. 1..i \subseteq DOMAIN C
    BY DatedTypes DEF Inputs
  <2> QED
    BY <1>4, <2>1 DEF BuiltRows
<1>6. \A x \in then : x \in obs
  BY <1>2, <1>3, <1>5 DEF ObservationsThen, Available
<1>7. ASSUME NEW x \in obs, x.session = C[j].day, x.available <= C[j].decision
      PROVE  x \in then
  <2>1. PICK y \in kept \cup O : x = Observation(y)
    BY <1>2
  <2>2. y.session = C[j].day /\ y.available <= C[j].decision
    BY <1>7, <2>1, ObservationIs
  <2>3. CASE y \in kept
    <3>1. y \in SessionRows(plan, S, E, C, j)
      BY <1>1, <1>2, <2>2, <2>3, RowsOfDay
    <3> QED
      BY <1>4, <2>1, <3>1 DEF ObservationsThen
  <2>4. CASE y \in O
    <3>1. y.available <= C[i].decision
      BY <1>1, <2>2, <2>4
    <3> QED
      BY <2>1, <2>4, <3>1 DEF ObservationsThen, Available
  <2> QED
    BY <2>1, <2>3, <2>4
<1>8. K(obs) = K(then)
  BY <1>6, <1>7
<1>9. ASSUME NEW X
      PROVE  SessionValues(X, C[j]) =
               {[asset |-> x.asset, field |-> x.field, value |-> x.value] :
                  x \in {y \in K(X) : \A z \in K(X) :
                          (z.asset = y.asset /\ z.field = y.field) => z.available <= y.available}}
  BY DEF SessionValues
<1> HIDE DEF K, then
<1>10. SessionValues(obs, C[j]) = SessionValues(then, C[j])
  BY <1>8, <1>9
<1> QED
  BY <1>10 DEF then

LEMMA SameMembers ==
    ASSUME NEW U, \A u \in U : u.known \in Nat, NEW session, NEW d \in Nat,
           session.decision \in Nat, session.decision <= d
    PROVE  Members(U, session) = Members({u \in U : u.known <= d}, session)
<1> DEFINE V == {u \in U : u.known <= d}
           K(X) == {u \in X : u.from <= session.day /\ u.known <= session.decision}
<1>1. K(U) = K(V)
  OBVIOUS
<1>2. ASSUME NEW X
      PROVE  Members(X, session) =
               {u.asset : u \in {v \in K(X) :
                  /\ Unended(v, session.day)
                  /\ \A w \in K(X) : w.asset = v.asset =>
                       ~Before(<<v.from, v.known>>, <<w.from, w.known>>)}}
  BY DEF Members
<1> HIDE DEF K, V
<1>3. Members(U, session) = Members(V, session)
  BY <1>1, <1>2
<1> QED
  BY <1>3 DEF V

LEMMA SliceIs ==
    ASSUME NEW C, Dated(C), Chronological(C), NEW first \in DOMAIN C
    PROVE  Slice(C, C[first].day, C[Len(C)].day) = SubSeq(C, first, Len(C))
<1> DEFINE within == {i \in DOMAIN C : C[i].day \in C[first].day..C[Len(C)].day}
<1>1. /\ Len(C) \in Nat /\ DOMAIN C = 1..Len(C) /\ first \in 1..Len(C) /\ Len(C) \in DOMAIN C
      /\ \A i \in DOMAIN C : C[i].day \in Nat
  BY DatedTypes
<1>2. ASSUME NEW i \in DOMAIN C
      PROVE  i \in within <=> first <= i
  <2>1. i \in Nat /\ first \in Nat /\ C[i].day \in Nat /\ C[first].day \in Nat /\
          C[Len(C)].day \in Nat
    BY <1>1
  <2>2. i < first => C[i].day < C[first].day
    BY Ordered
  <2>3. first < i => C[first].day < C[i].day
    BY Ordered
  <2>4. i < Len(C) => C[i].day < C[Len(C)].day
    BY <1>1, Ordered
  <2>5. i = Len(C) \/ i < Len(C)
    BY <1>1
  <2> QED
    BY <2>1, <2>2, <2>3, <2>4, <2>5
<1>3. within = first..Len(C)
  BY <1>1, <1>2
<1> HIDE DEF within
<1>4. Min(within) = first /\ Max(within) = Len(C)
  BY <1>1, <1>3 DEF Min, Max
<1> QED
  BY <1>4 DEF Slice, within

\* The panel made of what was known at a session.
PanelThen(plan, S, E, C, O, U, i) ==
    SessionPanel(ObservationsThen(plan, S, E, C, O, i),
                 {u \in U : u.known <= C[i].decision}, SubSeq(C, 1, i))

\* What a snapshot holds, as it is when it is valid.
Snapshot(plan, S, E, C, O, U, obs) ==
    /\ Inputs(plan, S, E, C) /\ ~Refused(plan, S, E, C)
    /\ \A x \in O : x.available \in Nat
    /\ \A u \in U : u.known \in Nat
    /\ Holds(obs, BuiltRows(plan, S, E, C), O)

LEMMA SamePanel ==
    ASSUME NEW plan, NEW S, NEW E, NEW C, NEW O, NEW U, NEW obs,
           Snapshot(plan, S, E, C, O, U, obs),
           NEW i \in DOMAIN C, NEW j \in 1..i
    PROVE  /\ j \in DOMAIN PanelThen(plan, S, E, C, O, U, i)
           /\ PanelThen(plan, S, E, C, O, U, i)[j] =
                 [members |-> Members(U, C[j]), values |-> SessionValues(obs, C[j])]
<1> DEFINE D == SubSeq(C, 1, i)
           then == ObservationsThen(plan, S, E, C, O, i)
           V == {u \in U : u.known <= C[i].decision}
<1>1. Dated(C) /\ Chronological(C) /\ Inputs(plan, S, E, C)
  BY DEF Snapshot, Inputs
<1>2. /\ C[j].decision \in Nat /\ C[i].decision \in Nat /\ C[j].decision <= C[i].decision
  <2>2. i \in 1..Len(C) /\ DOMAIN C = 1..Len(C) /\ Len(C) \in Nat
    BY <1>1, DatedTypes
  <2>3. j \in DOMAIN C /\ (j = i \/ j < i)
    BY <2>2
  <2>4. C[i].decision \in Nat /\ C[j].decision \in Nat
    BY <1>1, <2>3, DatedTypes
  <2> QED
    BY <1>1, <2>2, <2>3, <2>4, Ordered
<1>3. DOMAIN D = 1..i /\ D[j] = C[j]
  BY <1>1, UpTo
<1>4. SessionValues(obs, C[j]) = SessionValues(then, C[j])
  BY <1>1, SameValues DEF Snapshot
<1>5. Members(U, C[j]) = Members(V, C[j])
  BY <1>2, SameMembers DEF Snapshot
<1> HIDE DEF D, then, V
<1>6. /\ j \in DOMAIN SessionPanel(then, V, D)
      /\ SessionPanel(then, V, D)[j] = [members |-> Members(V, D[j]),
           values |-> SessionValues(then, D[j])]
  BY <1>3 DEF SessionPanel
<1>7. PanelThen(plan, S, E, C, O, U, i) = SessionPanel(then, V, D)
  BY DEF PanelThen, then, V, D
<1> QED
  BY <1>3, <1>4, <1>5, <1>6, <1>7

\* A slice of the panel shows at each session what was known there.
LEMMA SlicePanel ==
    ASSUME NEW plan, NEW S, NEW E, NEW C, NEW O, NEW U, NEW obs,
           Snapshot(plan, S, E, C, O, U, obs),
           NEW i \in DOMAIN C, NEW first \in 1..i,
           Panel(obs, U, C, C[first].day, C[Len(C)].day) # None
    PROVE  Panel(obs, U, C, C[first].day, C[Len(C)].day)[i - first + 1]
             = PanelThen(plan, S, E, C, O, U, i)[i]
<1> DEFINE D == SubSeq(C, first, Len(C))
<1>1. Dated(C) /\ Chronological(C)
  BY DEF Snapshot, Inputs
<1>2. Len(C) \in Nat /\ DOMAIN C = 1..Len(C) /\ i \in 1..Len(C) /\ first \in 1..Len(C) /\ i \in 1..i
  BY <1>1, DatedTypes
<1>3. C \in Seq(Range(C))
  BY <1>1 DEF Dated
<1>4. i - first + 1 \in DOMAIN D /\ D[i - first + 1] = C[i]
  BY <1>2, <1>3
<1>5. Panel(obs, U, C, C[first].day, C[Len(C)].day) = SessionPanel(obs, U, D)
  <2>1. Slice(C, C[first].day, C[Len(C)].day) = D
    BY <1>1, <1>2, SliceIs
  <2>2. Panel(obs, U, C, C[first].day, C[Len(C)].day)
          = SessionPanel(obs, U, Slice(C, C[first].day, C[Len(C)].day))
    BY DEF Panel
  <2> QED
    BY <2>1, <2>2
<1> HIDE DEF D
<1>6. SessionPanel(obs, U, D)[i - first + 1]
        = [members |-> Members(U, D[i - first + 1]),
           values |-> SessionValues(obs, D[i - first + 1])]
  BY <1>4 DEF SessionPanel
<1> QED
  BY <1>2, <1>4, <1>5, <1>6, SamePanel

-----------------------------------------------------------------------------
(* The registries. *)

\* A finite set in some order.
LEMMA SetToSeqOf ==
    ASSUME NEW S, IsFiniteSet(S)
    PROVE  /\ SetToSeq(S) \in Seq(S)
           /\ \A i \in DOMAIN SetToSeq(S) : SetToSeq(S)[i] \in S
<1>1. /\ Cardinality(S) \in Nat
      /\ \E f \in [1..Cardinality(S) -> S] : IsInjective(f)
  BY FS_CardinalityType DEF ExistsBijection, Bijection, Injection
<1>2. SetToSeq(S) \in [1..Cardinality(S) -> S]
  BY <1>1 DEF SetToSeq
<1> QED
  BY <1>1, <1>2

Candidate == [entry: Catalog, status: Statuses]

\* A candidate, once approved, is and stays so; so does a map; what callers have of it is no
\* more than the registry decided.
RegistryInv ==
    /\ RegistryTypeOK
    /\ \A c \in DOMAIN candidates : candidates[c].status = "approved" => Lawful(candidates[c].entry)
    /\ \A copy \in copies : copy.status = "approved" => maps[copy.map] = "approved"
    /\ use # None =>
         /\ candidates[use.candidate].status = "approved"
         /\ use.lineage.dataset = candidates[use.candidate].entry.dataset
         /\ use.map # None =>
              /\ use.map \in Maps /\ maps[use.map] = "approved"
              /\ use.map.dataset = use.lineage.dataset
              /\ \A x \in use.observations : x.available <= use.decision

\* The discoveries are appended.
LEMMA DiscoverEffect ==
    ASSUME RegistryTypeOK, NEW found \in SUBSET Catalog, Discover(found)
    PROVE  \E more \in Seq(Candidate) :
             /\ candidates' = candidates \o more
             /\ \A i \in DOMAIN more : more[i].status = "discovered"
<1> DEFINE lawful == SetToSeq({entry \in found : Lawful(entry)})
           more == [i \in DOMAIN lawful |-> [entry |-> lawful[i], status |-> "discovered"]]
<1>1. IsFiniteSet({entry \in found : Lawful(entry)})
  BY FS_Subset, RegistryAssumption
<1>2. lawful \in Seq({entry \in found : Lawful(entry)})
      /\ \A i \in DOMAIN lawful : lawful[i] \in {entry \in found : Lawful(entry)}
  BY <1>1, SetToSeqOf
<1>3. candidates' = candidates \o more
  BY DEF Discover
<1> HIDE DEF lawful
<1>4. Len(lawful) \in Nat /\ DOMAIN lawful = 1..Len(lawful) /\
      \A i \in DOMAIN lawful : lawful[i] \in Catalog
  BY <1>2
<1>5. \A i \in DOMAIN lawful : more[i] \in Candidate
  BY <1>4 DEF Candidate, Statuses
<1>6. more \in Seq(Candidate)
  BY <1>4, <1>5
<1> QED
  BY <1>3, <1>6

\* Candidates come after those there are, and change nothing of them.
LEMMA MoreCandidates ==
    ASSUME RegistryInv, NEW more \in Seq(Candidate), candidates' = candidates \o more,
           \A i \in DOMAIN more : more[i].status = "discovered",
           UNCHANGED <<maps, copies, use>>
    PROVE  RegistryInv'
<1>1. candidates \in Seq(Candidate)
  BY DEF RegistryInv, RegistryTypeOK, Candidate
<1>2. /\ candidates' \in Seq(Candidate)
      /\ DOMAIN candidates \subseteq DOMAIN candidates'
      /\ \A i \in DOMAIN candidates : candidates'[i] = candidates[i]
  BY <1>1
<1>3. ASSUME NEW c \in DOMAIN candidates', c \notin DOMAIN candidates
      PROVE  candidates'[c].status = "discovered"
  <2>1. c - Len(candidates) \in DOMAIN more /\ candidates'[c] = more[c - Len(candidates)]
    BY <1>1, <1>3
  <2> QED
    BY <2>1
<1>4. RegistryTypeOK'
  BY <1>2 DEF RegistryInv, RegistryTypeOK, Candidate
<1>5. use # None => use.candidate \in DOMAIN candidates
  BY DEF RegistryInv, RegistryTypeOK
<1>6. \A c \in DOMAIN candidates' : candidates'[c].status = "approved" =>
        Lawful(candidates'[c].entry)
  BY <1>2, <1>3 DEF RegistryInv
<1> QED
  BY <1>2, <1>4, <1>5, <1>6 DEF RegistryInv

\* A decision on a candidate leaves the others alone.
LEMMA Decided ==
    ASSUME RegistryInv, NEW c \in DOMAIN candidates, NEW status \in Statuses,
           candidates[c].status = "discovered",
           status = "approved" => Lawful(candidates[c].entry),
           candidates' = [candidates EXCEPT ![c].status = status],
           UNCHANGED <<maps, copies, use>>
    PROVE  RegistryInv'
<1>1. candidates \in Seq(Candidate)
  BY DEF RegistryInv, RegistryTypeOK, Candidate
<1>2. candidates[c] \in Candidate
  BY <1>1
<1>3. [candidates[c] EXCEPT !.status = status] \in Candidate
      /\ [candidates[c] EXCEPT !.status = status].status = status
      /\ [candidates[c] EXCEPT !.status = status].entry = candidates[c].entry
  BY <1>2 DEF Candidate
<1>4. candidates' = [candidates EXCEPT ![c] = [candidates[c] EXCEPT !.status = status]]
  OBVIOUS
<1>5. /\ candidates' \in Seq(Candidate) /\ DOMAIN candidates' = DOMAIN candidates
      /\ candidates'[c] = [candidates[c] EXCEPT !.status = status]
      /\ \A d \in DOMAIN candidates : d # c => candidates'[d] = candidates[d]
  BY <1>1, <1>3, <1>4
<1>6. RegistryTypeOK'
  BY <1>5 DEF RegistryInv, RegistryTypeOK, Candidate
<1>7. \A d \in DOMAIN candidates' : candidates'[d].status = "approved" =>
        Lawful(candidates'[d].entry)
  BY <1>3, <1>5 DEF RegistryInv
<1>8. use # None => use.candidate \in DOMAIN candidates /\ use.candidate # c
  BY DEF RegistryInv, RegistryTypeOK
<1> QED
  BY <1>5, <1>6, <1>7, <1>8 DEF RegistryInv

LEMMA MapDecided ==
    ASSUME RegistryInv, NEW m \in Maps, NEW status \in Statuses, maps[m] # "approved",
           PutMap(m, status)
    PROVE  RegistryInv'
<1>1. maps \in [Maps -> Statuses \cup {None}] /\ copies \subseteq [map: Maps, status: Statuses]
  BY DEF RegistryInv, RegistryTypeOK
<1>2. /\ maps' \in [Maps -> Statuses \cup {None}] /\ maps'[m] = status
      /\ \A n \in Maps : n # m => maps'[n] = maps[n]
  BY <1>1 DEF PutMap
<1>3. copies' \subseteq [map: Maps, status: Statuses]
  BY <1>1 DEF PutMap
<1>4. ASSUME NEW copy \in copies', copy.status = "approved" PROVE maps'[copy.map] = "approved"
  <2>1. CASE copy \in copies
    <3>1. copy.map \in Maps /\ maps[copy.map] = "approved"
      BY <1>1, <1>4, <2>1 DEF RegistryInv
    <3> QED
      BY <1>2, <3>1
  <2>2. CASE copy = [map |-> m, status |-> status]
    BY <1>2, <1>4, <2>2
  <2> QED
    BY <2>1, <2>2 DEF PutMap
<1>5. UNCHANGED <<candidates, use>>
  BY DEF PutMap
<1>6. RegistryTypeOK'
  BY <1>2, <1>3, <1>5 DEF RegistryInv, RegistryTypeOK
<1>7. use # None /\ use.map # None => use.map \in Maps /\ use.map # m
  BY DEF RegistryInv
<1> QED
  BY <1>2, <1>4, <1>5, <1>6, <1>7 DEF RegistryInv

LEMMA MaxOfTwo ==
    ASSUME NEW a \in Nat, NEW b \in Nat, NEW c \in Nat, a <= c, b <= c
    PROVE  Max({a, b}) <= c
<1>1. \E x \in {a, b} : \A y \in {a, b} : x >= y
  <2>1. a >= b \/ b >= a
    OBVIOUS
  <2> QED
    BY <2>1
<1>2. Max({a, b}) \in {a, b}
  BY <1>1 DEF Max
<1> QED
  BY <1>2

\* What a map delivers was there at the decision.
LEMMA MappedInTime ==
    ASSUME NEW m \in Maps, NEW rows, \A s \in rows : SourceVintage(s),
           NEW universe, NEW session, Session(session), NEW x \in Mapped(m, rows, universe, session)
    PROVE  x.available <= session.decision
<1>1. PICK s \in rows, e \in m.exposures :
        /\ Reaches(s, e, session.decision)
        /\ x = [asset |-> e.asset, value |-> s.value * e.weight,
                available |-> Max({s.published + FeatureLag, e.available})]
  BY DEF Mapped
<1>2. s.published \in Nat /\ FeatureLag \in Nat /\ e.available \in Nat /\ session.decision \in Nat
  BY RegistryAssumption DEF SourceVintage, ExposureVintage, Session
<1>3. s.published + FeatureLag <= session.decision /\ e.available <= session.decision
  BY <1>1 DEF Reaches
<1>4. Max({s.published + FeatureLag, e.available}) <= session.decision
  BY <1>2, <1>3, MaxOfTwo
<1> QED
  BY <1>1, <1>4

\* A use of an approved candidate, through a map whose approved version the caller has.
LEMMA UsedApproved ==
    ASSUME RegistryInv, NEW c \in DOMAIN candidates, Approved(c),
           NEW m, NEW decision, NEW observations, Used(c, m, decision, observations),
           m # None => /\ m \in Maps /\ maps[m] = "approved"
                       /\ m.dataset = candidates[c].entry.dataset
                       /\ \A x \in observations : x.available <= decision
    PROVE  RegistryInv'
<1>1. UNCHANGED <<candidates, maps, copies>>
  BY DEF Used
<1>2. /\ use'.candidate = c /\ use'.map = m /\ use'.decision = decision
      /\ use'.observations = observations
      /\ use'.lineage.dataset = candidates[c].entry.dataset
  BY DEF Used, Lineage
<1>3. RegistryTypeOK'
  BY <1>1, <1>2 DEF RegistryInv, RegistryTypeOK
<1> QED
  BY <1>1, <1>2, <1>3 DEF RegistryInv, Approved

LEMMA RegistryStep ==
    ASSUME RegistryInv, NEW sources \in SUBSET Sources, NEW universe, NEW sessions,
           \A i \in DOMAIN sessions : Session(sessions[i]),
           RegistryNext(sources, universe, sessions)
    PROVE  RegistryInv'
<1>0. RegistryTypeOK
  BY DEF RegistryInv
<1>1. ASSUME NEW found \in SUBSET Catalog, Discover(found) PROVE RegistryInv'
  <2>1. PICK more \in Seq(Candidate) : /\ candidates' = candidates \o more
                                       /\ \A i \in DOMAIN more : more[i].status = "discovered"
    BY <1>0, <1>1, DiscoverEffect
  <2>2. UNCHANGED <<maps, copies, use>>
    BY <1>1 DEF Discover
  <2> QED
    BY <2>1, <2>2, MoreCandidates
<1>2. ASSUME NEW entry \in Catalog, Register(entry) PROVE RegistryInv'
  <2> DEFINE more == <<[entry |-> entry, status |-> "discovered"]>>
  <2>1. candidates \in Seq(Candidate) /\ [entry |-> entry, status |-> "discovered"] \in Candidate
    BY <1>0 DEF RegistryTypeOK, Candidate, Statuses
  <2>2. /\ more \in Seq(Candidate) /\ candidates' = candidates \o more
        /\ \A i \in DOMAIN more : more[i].status = "discovered"
    BY <1>2, <2>1 DEF Register
  <2>3. UNCHANGED <<maps, copies, use>>
    BY <1>2 DEF Register
  <2> HIDE DEF more
  <2> QED
    BY <2>2, <2>3, MoreCandidates
<1>3. ASSUME NEW c \in DOMAIN candidates, Approve(c) PROVE RegistryInv'
  BY <1>3, Decided DEF Approve, Undecided, Statuses
<1>4. ASSUME NEW c \in DOMAIN candidates, Reject(c) PROVE RegistryInv'
  BY <1>4, Decided DEF Reject, Undecided, Statuses
<1>5. ASSUME NEW c \in DOMAIN candidates, BuildFeature(c, sources) PROVE RegistryInv'
  BY <1>5, UsedApproved DEF BuildFeature
<1>6. ASSUME NEW c \in DOMAIN candidates, HandOff(c) PROVE RegistryInv'
  BY <1>6, UsedApproved DEF HandOff
<1>7. ASSUME NEW c \in DOMAIN candidates, NEW copy \in copies, NEW i \in DOMAIN sessions,
             BuildMappedFeature(c, copy, sources, universe, sessions[i])
      PROVE  RegistryInv'
  <2> DEFINE rows == RawRows(sources, c)
             delivered == Mapped(copy.map, rows, universe, sessions[i])
  <2>1. copy.map \in Maps
    BY <1>0 DEF RegistryTypeOK
  <2>2. /\ Approved(c) /\ copy.map.dataset = candidates[c].entry.dataset /\ copy.status = "approved"
        /\ Used(c, copy.map, sessions[i].decision, delivered)
    BY <1>7 DEF BuildMappedFeature
  <2>3. maps[copy.map] = "approved"
    BY <2>2 DEF RegistryInv
  <2>4. \A s \in rows : SourceVintage(s)
    BY FeedAssumption DEF RawRows
  <2> HIDE DEF rows
  <2>5. \A x \in delivered : x.available <= sessions[i].decision
    BY <2>1, <2>4, MappedInTime
  <2> HIDE DEF delivered
  <2> QED
    BY <2>1, <2>2, <2>3, <2>5, UsedApproved
<1>8. ASSUME NEW m \in Maps, Submit(m) PROVE RegistryInv'
  <2>1. maps[m] # "approved"
    BY <1>8, RegistryAssumption DEF Submit, Statuses
  <2> QED
    BY <1>8, <2>1, MapDecided DEF Submit, Statuses
<1>9. ASSUME NEW m \in Maps, RejectMap(m) PROVE RegistryInv'
  BY <1>9, MapDecided DEF RejectMap, Undecided, Statuses
<1>10. ASSUME NEW m \in Maps, NEW dataset, ApproveMap(m, dataset) PROVE RegistryInv'
  BY <1>10, MapDecided DEF ApproveMap, Undecided, Statuses
<1> QED
  BY <1>1, <1>2, <1>3, <1>4, <1>5, <1>6, <1>7, <1>8, <1>9, <1>10 DEF RegistryNext

-----------------------------------------------------------------------------
(* What a build may hold, and what the check of a snapshot makes of it. *)

LEMMA ContributionIs ==
    ASSUME NEW plan, NEW S, NEW E, NEW C, NEW j, NEW c \in Contributions(plan, S, E, C, j)
    PROVE  \E s \in S, e \in E :
             /\ c = <<s, e>> /\ EligibleFrom(plan, s, C) <= j
             /\ e.key = s.key /\ e.available <= C[j].decision
<1>1. PICK s \in ActiveSources(plan, S, C, j) :
        \E e \in ExposuresAt(E, IF plan.mode = "latest_proxy" THEN C[j].day ELSE s.day,
                                C[j].decision) :
          c = <<s, e>> /\ e.key = s.key
  BY DEF Contributions
<1>2. PICK e \in ExposuresAt(E, IF plan.mode = "latest_proxy" THEN C[j].day ELSE s.day,
                                   C[j].decision) :
        c = <<s, e>> /\ e.key = s.key
  BY <1>1
<1>3. s \in S /\ EligibleFrom(plan, s, C) <= j
  BY DEF ActiveSources, LatestSources
<1>4. e \in E /\ e.available <= C[j].decision
  BY DEF ExposuresAt
<1> QED
  BY <1>2, <1>3, <1>4

\* A row rests on contributions to its asset.
LEMMA RowRests ==
    ASSUME NEW plan, NEW S, NEW E, NEW C, NEW j, NEW row \in SessionRows(plan, S, E, C, j)
    PROVE  /\ row.contributions # {}
           /\ \A c \in row.contributions :
                c \in Contributions(plan, S, E, C, j) /\ c[2].asset = row.asset
<1> DEFINE all == Contributions(plan, S, E, C, j)
           expected == ExposuresAt(E, C[j].day, C[j].decision)
<1>1. row \in RowsOf(plan, C[j], all, expected)
  BY SessionRowsAre
<1> HIDE DEF all, expected
<1>2. PICK asset \in {c[2].asset : c \in all} :
        row = [session |-> C[j].day, asset |-> asset, field |-> "feature",
               value |-> Weighed({c \in all : c[2].asset = asset}),
               available |-> C[j].decision,
               contributions |-> {c \in all : c[2].asset = asset}]
  BY <1>1 DEF RowsOf
<1>3. row.asset = asset /\ row.contributions = {c \in all : c[2].asset = asset}
  BY <1>2
<1> QED
  BY <1>3 DEF all

\* A session has one row of an asset.
LEMMA OneRow ==
    ASSUME NEW plan, NEW S, NEW E, NEW C, NEW j,
           NEW r \in SessionRows(plan, S, E, C, j), NEW t \in SessionRows(plan, S, E, C, j),
           r.asset = t.asset
    PROVE  r = t
<1> DEFINE all == Contributions(plan, S, E, C, j)
           expected == ExposuresAt(E, C[j].day, C[j].decision)
           Row(asset) == [session |-> C[j].day, asset |-> asset, field |-> "feature",
                          value |-> Weighed({c \in all : c[2].asset = asset}),
                          available |-> C[j].decision,
                          contributions |-> {c \in all : c[2].asset = asset}]
<1>1. r \in RowsOf(plan, C[j], all, expected) /\ t \in RowsOf(plan, C[j], all, expected)
  BY SessionRowsAre
<1> HIDE DEF all, expected
<1>2. \A x \in RowsOf(plan, C[j], all, expected) : \E a : x = Row(a)
  BY DEF RowsOf
<1>3. PICK a, b : r = Row(a) /\ t = Row(b)
  BY <1>1, <1>2
<1>4. Row(a).asset = a /\ Row(b).asset = b
  OBVIOUS
<1> HIDE DEF Row
<1> QED
  BY <1>3, <1>4

LEMMA RowDetermined ==
    ASSUME NEW plan, NEW S, NEW E, NEW C, Inputs(plan, S, E, C),
           NEW r \in BuiltRows(plan, S, E, C), NEW t \in BuiltRows(plan, S, E, C),
           r.session = t.session, r.asset = t.asset
    PROVE  r = t
<1>1. PICK j \in DOMAIN C : r \in SessionRows(plan, S, E, C, j)
  BY DEF BuiltRows
<1>2. t.session = C[j].day
  BY <1>1, RowOfSession
<1>3. t \in SessionRows(plan, S, E, C, j)
  BY <1>2, RowsOfDay
<1> QED
  BY <1>1, <1>3, OneRow

LEMMA FiniteRows ==
    ASSUME NEW plan, NEW S, NEW E, NEW C, Inputs(plan, S, E, C), IsFiniteSet(E)
    PROVE  IsFiniteSet(BuiltRows(plan, S, E, C))
<1> DEFINE rows == BuiltRows(plan, S, E, C)
           place == [r \in rows |-> <<CHOOSE j \in DOMAIN C : C[j].day = r.session,
                                      CHOOSE e \in E : e.asset = r.asset>>]
<1>1. ASSUME NEW r \in rows
      PROVE  /\ \E j \in DOMAIN C : C[j].day = r.session
             /\ \E e \in E : e.asset = r.asset
  <2>1. PICK j \in DOMAIN C : r \in SessionRows(plan, S, E, C, j)
    BY DEF BuiltRows
  <2>2. C[j].day = r.session
    BY <2>1, RowOfSession
  <2>3. PICK c \in Contributions(plan, S, E, C, j) : c[2].asset = r.asset
    BY <2>1, RowRests
  <2>4. PICK s \in S, e \in E : c = <<s, e>>
    BY ContributionIs
  <2> QED
    BY <2>2, <2>3, <2>4
<1>2. place \in [rows -> (DOMAIN C) \X E]
  BY <1>1
<1>3. ASSUME NEW r \in rows, NEW t \in rows, place[r] = place[t] PROVE r = t
  <2>1. PICK j \in DOMAIN C, e \in E : place[r] = <<j, e>> /\
                                             C[j].day = r.session /\ e.asset = r.asset
    BY <1>1
  <2>2. PICK k \in DOMAIN C, f \in E : place[t] = <<k, f>> /\
                                             C[k].day = t.session /\ f.asset = t.asset
    BY <1>1
  <2> HIDE DEF place
  <2>3. j = k /\ e = f
    <3>1. <<j, e>> = <<k, f>>
      BY <1>3, <2>1, <2>2
    <3> QED
      BY ONLY <3>1
  <2> QED
    BY <2>1, <2>2, <2>3, RowDetermined
<1>4. place \in Injection(rows, (DOMAIN C) \X E)
  BY <1>2, <1>3 DEF Injection, IsInjective
<1>5. IsFiniteSet((DOMAIN C) \X E)
  <2>1. Len(C) \in Nat /\ DOMAIN C = 1..Len(C)
    BY DatedTypes DEF Inputs
  <2>2. IsFiniteSet(DOMAIN C)
    BY <2>1, FS_Interval
  <2> QED
    BY <2>2, FS_Product
<1> QED
  BY <1>4, <1>5, FS_Injection

\* Of a build that was not refused, every claim holds.
LEMMA ClocksValid ==
    ASSUME NEW plan, NEW S, NEW E, NEW C, Inputs(plan, S, E, C), ~Refused(plan, S, E, C)
    PROVE  FeatureClocksValid(Materialize(plan, S, E, C))
<1> DEFINE build == Materialize(plan, S, E, C)
<1>1. /\ build.plan = plan /\ build.sources = S /\ build.exposures = E /\ build.sessions = C
      /\ build.rows = BuiltRows(plan, S, E, C)
  BY BuildIs
<1> HIDE DEF build
<1>2. Dated(C) /\ Chronological(C)
  BY DEF Inputs
<1>3. ASSUME NEW row \in build.rows, NEW j \in DOMAIN C, row \in SessionRows(plan, S, E, C, j),
             NEW c \in row.contributions
      PROVE  c[1] \in S /\ c[2] \in E /\ DependencyInTime(build, row, c[1], c[2])
  <2>1. PICK s \in S, e \in E :
          /\ c = <<s, e>> /\ EligibleFrom(plan, s, C) <= j
          /\ e.key = s.key /\ e.available <= C[j].decision
    BY <1>3, RowRests, ContributionIs
  <2>2. e.asset = row.asset
    BY <1>3, <2>1, RowRests
  <2>3. row.session = C[j].day /\ row.available = C[j].decision
    BY <1>3, RowOfSession
  <2>4. (CHOOSE i \in DOMAIN C : C[i].day = row.session) = j
    BY <1>2, <2>3, SameDay
  <2>5. Clock(plan, s) \in Nat /\ SourceVintage(s) /\ plan.lag \in Nat
    BY ClockType DEF Inputs, FeaturePlan
  <2>6. /\ Cardinality(Earlier(C, Clock(plan, s))) \in Nat
        /\ C[j].decision < Clock(plan, s) => j <= Cardinality(Earlier(C, Clock(plan, s)))
    BY <1>2, <2>5, EarlierCount
  <2>7. Cardinality(Earlier(C, Clock(plan, s))) + 1 + plan.lag <= j
    BY <2>1, EligibleIs
  <2>8. j \in Nat /\ C[j].decision \in Nat
    BY <1>2, DatedTypes
  <2>9. Clock(plan, s) <= C[j].decision /\ Cardinality(Earlier(C, Clock(plan, s))) + plan.lag < j
    BY <2>5, <2>6, <2>7, <2>8
  <2>10. s.dataset = plan.dataset /\ ~Truncated(plan, s, C)
    BY DEF Refused
  <2>11. s.published <= s.retrieved /\ s.retrieved <= s.extracted
    BY <2>5 DEF SourceVintage
  <2>12. DependencyInTime(build, row, s, e)
    BY <1>1, <2>1, <2>2, <2>3, <2>4, <2>9, <2>10, <2>11 DEF DependencyInTime, Earlier
  <2> QED
    BY <2>1, <2>12
<1>4. ASSUME NEW row \in build.rows
      PROVE  /\ row.contributions # {}
             /\ \E i \in DOMAIN C : C[i].day = row.session /\ C[i].decision = row.available
             /\ \A c \in row.contributions :
                  c[1] \in S /\ c[2] \in E /\ DependencyInTime(build, row, c[1], c[2])
  <2>1. PICK j \in DOMAIN C : row \in SessionRows(plan, S, E, C, j)
    BY <1>1 DEF BuiltRows
  <2> QED
    BY <1>3, <2>1, RowRests, RowOfSession
<1>5. FeatureClocksValid(build)
  BY <1>1, <1>2, <1>4 DEF FeatureClocksValid
<1> QED
  BY <1>5 DEF build

\* Rows of a build and a provider's rows are as many observations.
LEMMA ObservationCount ==
    ASSUME NEW plan, NEW S, NEW E, NEW C, Inputs(plan, S, E, C), IsFiniteSet(E),
           NEW O, IsFiniteSet(O), \A x \in O : ProviderRow(x),
           NEW kept \in SUBSET BuiltRows(plan, S, E, C)
    PROVE  Cardinality({Observation(x) : x \in kept \cup O}) = Cardinality(kept) + Cardinality(O)
<1> DEFINE A == {Observation(x) : x \in kept}
           f == [x \in kept |-> Observation(x)]
           all == {Observation(x) : x \in kept \cup O}
<1>1. IsFiniteSet(kept)
  BY FiniteRows, FS_Subset
<1>2. ASSUME NEW x \in kept, NEW y \in kept, Observation(x) = Observation(y) PROVE x = y
  <2>1. x.session = y.session /\ x.asset = y.asset
    BY <1>2, ObservationIs
  <2> QED
    BY <2>1, RowDetermined
<1>3. f \in Bijection(kept, A)
  <2>1. f \in [kept -> A]
    OBVIOUS
  <2>2. IsInjective(f)
    BY <1>2 DEF IsInjective
  <2>3. \A a \in A : \E x \in kept : f[x] = a
    OBVIOUS
  <2> QED
    BY <2>1, <2>2, <2>3 DEF Bijection, Injection, Surjection
<1>4. IsFiniteSet(A) /\ Cardinality(A) = Cardinality(kept)
  BY <1>1, <1>3, FS_Bijection DEF ExistsBijection
<1>5. \A x \in O : x = Observation(x) /\ x.field # "feature"
  BY DEF ProviderRow
<1>6. ASSUME NEW x \in kept PROVE Observation(x).field = "feature"
  <2>1. PICK j \in DOMAIN C : x \in SessionRows(plan, S, E, C, j)
    BY DEF BuiltRows
  <2> QED
    BY <2>1, RowOfSession, ObservationIs
<1>7. A \cap O = {}
  BY <1>5, <1>6
<1>8. all = A \cup O
  BY <1>5
<1> SUFFICES Cardinality(all) = Cardinality(kept) + Cardinality(O)
  OBVIOUS
<1> HIDE DEF A, f, all
<1>9. Cardinality(A \cup O) = Cardinality(A) + Cardinality(O) - Cardinality(A \cap O)
  BY <1>4, FS_Union
<1>10. Cardinality(A \cap O) = 0
  BY <1>7, FS_EmptySet
<1>11. Cardinality(kept) \in Nat /\ Cardinality(O) \in Nat
  BY <1>1, FS_CardinalityType
<1> QED
  BY <1>4, <1>8, <1>9, <1>10, <1>11

\* The observations of the field are those of the rows that were kept.
LEMMA FeatureObservations ==
    ASSUME NEW plan, NEW S, NEW E, NEW C, NEW O, \A x \in O : ProviderRow(x),
           NEW kept \in SUBSET BuiltRows(plan, S, E, C)
    PROVE  {x \in {Observation(y) : y \in kept \cup O} : x.field = "feature"}
             = {Observation(row) : row \in kept}
<1>1. \A x \in O : x = Observation(x) /\ x.field # "feature"
  BY DEF ProviderRow
<1>2. ASSUME NEW x \in kept PROVE Observation(x).field = "feature"
  <2>1. PICK j \in DOMAIN C : x \in SessionRows(plan, S, E, C, j)
    BY DEF BuiltRows
  <2> QED
    BY <2>1, RowOfSession, ObservationIs
<1> QED
  BY <1>1, <1>2

\* The check accepts the observations exactly when no row was lost.
LEMMA AcceptedWhole ==
    ASSUME NEW plan, NEW S, NEW E, NEW C, Inputs(plan, S, E, C), ~Refused(plan, S, E, C),
           NEW O, \A x \in O : ProviderRow(x),
           NEW kept \in SUBSET BuiltRows(plan, S, E, C)
    PROVE  Provenance(Materialize(plan, S, E, C), {Observation(x) : x \in kept \cup O})
             <=> kept = BuiltRows(plan, S, E, C)
<1> DEFINE build == Materialize(plan, S, E, C)
           rows == BuiltRows(plan, S, E, C)
           obs == {Observation(x) : x \in kept \cup O}
<1>1. build.plan = plan /\ build.sources = S /\ build.rows = rows
  BY BuildIs
<1>2. FeatureClocksValid(build)
  BY ClocksValid
<1>3. (plan.clock = "publication_replay" /\ \E s \in S : s.llm) => plan.allow_llm
  BY DEF Refused
<1>4. {x \in obs : x.field = "feature"} = {Observation(row) : row \in kept}
  BY FeatureObservations
<1>5. ASSUME {Observation(row) : row \in kept} = {Observation(row) : row \in rows}
      PROVE  kept = rows
  <2>1. ASSUME NEW x \in rows PROVE x \in kept
    <3>1. Observation(x) \in {Observation(row) : row \in kept}
      BY <1>5
    <3>2. PICK y \in kept : Observation(x) = Observation(y)
      BY <3>1
    <3>3. x.session = y.session /\ x.asset = y.asset
      BY <3>2, ObservationIs
    <3>4. x = y
      BY <3>3, RowDetermined
    <3> QED
      BY <3>4
  <2> QED
    BY <2>1
<1> HIDE DEF build, rows, obs
<1>6. Provenance(build, obs) <=> kept = rows
  BY <1>1, <1>2, <1>3, <1>4, <1>5 DEF Provenance
<1> QED
  BY <1>6 DEF build, rows, obs

-----------------------------------------------------------------------------
(* The directory. *)

\* A creator has found or made whole every file before the one it is at, and a manifest is
\* begun only after all parts, of a snapshot that there is.
FilesInv ==
    /\ FilesTypeOK
    /\ \A p \in Creators : creator[p].step \in {"create", "write"} =>
         \A k \in 1..(creator[p].at - 1) : files[Files[k]] = "whole"
    /\ files["manifest"] # "absent" => \A i \in DOMAIN Parts : files[Parts[i]] = "whole"
    /\ export = None => files["manifest"] = "absent"

LEMMA FilesAre ==
    /\ Len(Files) = Len(Parts) + 1 /\ Len(Parts) \in Nat
    /\ Files[Len(Files)] = "manifest"
    /\ \A i \in DOMAIN Parts : i \in DOMAIN Files /\ Files[i] = Parts[i] /\ i < Len(Files)
    /\ DOMAIN Files = 1..Len(Files)
    /\ \A i \in DOMAIN Files : Files[i] = "manifest" => i = Len(Files)
<1>1. Parts \in Seq(STRING) /\ Len(Parts) \in Nat /\ DOMAIN Parts = 1..Len(Parts)
  BY FilesAssumption
<1>2. /\ Len(Files) = Len(Parts) + 1 /\ DOMAIN Files = 1..Len(Files)
      /\ Files[Len(Parts) + 1] = "manifest"
      /\ \A i \in 1..Len(Parts) : Files[i] = Parts[i]
  <2> DEFINE Names == STRING \cup {"manifest"}
  <2>1. Parts \in Seq(Names) /\ "manifest" \in Names /\ Files = Append(Parts, "manifest")
    BY <1>1 DEF Files
  <2> HIDE DEF Names
  <2>2. Files \in Seq(Names) /\ Len(Files) = Len(Parts) + 1
    BY <1>1, <2>1
  <2>3. /\ Files[Len(Parts) + 1] = "manifest"
        /\ \A i \in 1..Len(Parts) : Files[i] = Parts[i]
    BY <1>1, <2>1
  <2> QED
    BY <1>1, <2>2, <2>3
<1>3. \A i, j \in DOMAIN Files : i # j => Files[i] # Files[j]
  BY FilesAssumption
<1>4. Len(Files) \in DOMAIN Files
  BY <1>1, <1>2
<1> QED
  BY <1>1, <1>2, <1>3, <1>4

\* What no step of a creator undoes.
Kept == \A file \in DOMAIN files : files[file] = "whole" => files'[file] = "whole"

LEMMA ProceedEffect ==
    ASSUME FilesTypeOK, NEW p \in Creators, Proceed(p),
           creator[p].step \in {"create", "write"}
    PROVE  /\ creator' \in [Creators -> [step: {"idle", "create", "write", "open",
                                               "done", "failed"},
                                         at: DOMAIN Files, starts: 0..MaxStarts]]
           /\ \A q \in Creators : q # p => creator'[q] = creator[q]
           /\ \/ creator'[p].step = "create" /\ creator'[p].at = creator[p].at + 1
              \/ creator'[p].step = "open"
<1>1. creator \in [Creators -> [step: {"idle", "create", "write", "open", "done", "failed"},
                                at: DOMAIN Files, starts: 0..MaxStarts]]
  BY DEF FilesTypeOK
<1> DEFINE at == creator[p].at
           next == [step |-> "create", at |-> at + 1, starts |-> creator[p].starts]
           last == [step |-> "open", at |-> at, starts |-> creator[p].starts]
<1>2. at \in DOMAIN Files /\ creator[p].starts \in 0..MaxStarts
  BY <1>1
<1>3. CASE at < Len(Files)
  <2>1. creator' = [creator EXCEPT ![p] = next]
    BY <1>1, <1>3 DEF Proceed
  <2>2. next.at \in DOMAIN Files
    BY <1>2, <1>3, FilesAre
  <2> QED
    BY <1>1, <1>2, <2>1, <2>2
<1>4. CASE ~(at < Len(Files))
  <2>1. creator' = [creator EXCEPT ![p].step = "open"]
    BY <1>4 DEF Proceed
  <2>2. [creator[p] EXCEPT !.step = "open"] = last
    BY <1>1
  <2>3. creator' = [creator EXCEPT ![p] = last]
    BY <2>1, <2>2
  <2> QED
    BY <1>1, <1>2, <2>3
<1> QED
  BY <1>3, <1>4

\* A step of one creator that keeps what is whole, and begins a manifest only after the parts.
LEMMA CreatorStep ==
    ASSUME FilesInv, FilesTypeOK', NEW p \in Creators, Kept, export # None, UNCHANGED export,
           \A q \in Creators : q # p => creator'[q] = creator[q],
           creator'[p].step \in {"create", "write"} =>
             \A k \in 1..(creator'[p].at - 1) : files'[Files[k]] = "whole",
           files["manifest"] = "absent" /\ files'["manifest"] # "absent" =>
             \A i \in DOMAIN Parts : files[Parts[i]] = "whole"
    PROVE  FilesInv'
<1>1. ASSUME NEW q \in Creators, creator'[q].step \in {"create", "write"},
             NEW k \in 1..(creator'[q].at - 1)
      PROVE  files'[Files[k]] = "whole"
  <2>1. CASE q = p
    BY <1>1, <2>1
  <2>2. CASE q # p
    <3>1. creator'[q] = creator[q]
      BY <2>2
    <3>2. files[Files[k]] = "whole"
      BY <1>1, <3>1 DEF FilesInv
    <3>3. creator[q].at \in DOMAIN Files
      BY DEF FilesInv, FilesTypeOK
    <3>4. k \in DOMAIN Files
      BY <1>1, <3>1, <3>3, FilesAre
    <3>5. Files[k] \in DOMAIN files
      BY <3>4 DEF FilesInv, FilesTypeOK
    <3> QED
      BY <3>2, <3>5 DEF Kept
  <2> QED
    BY <2>1, <2>2
<1>2. ASSUME NEW i \in DOMAIN Parts, files'["manifest"] # "absent"
      PROVE  files'[Parts[i]] = "whole"
  <2>1. files[Parts[i]] = "whole"
    BY <1>2 DEF FilesInv
  <2>2. Parts[i] \in DOMAIN files
    BY FilesAre DEF FilesInv, FilesTypeOK
  <2> QED
    BY <2>1, <2>2 DEF Kept
<1> QED
  BY <1>1, <1>2 DEF FilesInv

LEMMA BeginStep ==
    ASSUME FilesInv, NEW p \in Creators, Begin(p), export # None, UNCHANGED export
    PROVE  FilesInv'
<1> DEFINE new == [step |-> "create", at |-> 1, starts |-> creator[p].starts + 1]
<1>1. /\ files' = files /\ FilesTypeOK
      /\ creator \in [Creators -> [step: {"idle", "create", "write", "open", "done", "failed"},
                                   at: DOMAIN Files, starts: 0..MaxStarts]]
  BY DEF FilesInv, FilesTypeOK, Begin
<1>2. creator' = [creator EXCEPT ![p] = new]
  BY DEF Begin
<1>3. new \in [step: {"idle", "create", "write", "open", "done", "failed"},
               at: DOMAIN Files, starts: 0..MaxStarts]
  <2>1. creator[p].starts \in 0..MaxStarts /\ creator[p].starts < MaxStarts
    BY <1>1 DEF Begin
  <2>2. 1 \in DOMAIN Files
    BY FilesAre
  <2>3. creator[p].starts + 1 \in 0..MaxStarts
    BY <2>1, FilesAssumption
  <2> QED
    BY <2>2, <2>3
<1>4. FilesTypeOK' /\ creator'[p] = new /\ \A q \in Creators : q # p => creator'[q] = creator[q]
  <2> HIDE DEF new
  <2> QED
    BY <1>1, <1>2, <1>3 DEF FilesTypeOK
<1>5. Kept
  BY <1>1 DEF Kept
<1>6. 1..(creator'[p].at - 1) = {}
  BY <1>4
<1> HIDE DEF new
<1> QED
  BY <1>1, <1>4, <1>5, <1>6, CreatorStep

\* A creator that ends a run, or its opening, changes no file.
LEMMA StopStep ==
    ASSUME FilesInv, NEW p \in Creators, NEW step \in {"done", "failed"},
           creator' = [creator EXCEPT ![p].step = step], files' = files,
           export # None, UNCHANGED export
    PROVE  FilesInv'
<1>1. creator \in [Creators -> [step: {"idle", "create", "write", "open", "done", "failed"},
                                at: DOMAIN Files, starts: 0..MaxStarts]]
  BY DEF FilesInv, FilesTypeOK
<1>2. /\ creator' \in [Creators -> [step: {"idle", "create", "write", "open", "done", "failed"},
                                    at: DOMAIN Files, starts: 0..MaxStarts]]
      /\ creator'[p].step = step
      /\ \A q \in Creators : q # p => creator'[q] = creator[q]
  BY <1>1
<1>3. FilesTypeOK' /\ Kept
  BY <1>2 DEF FilesInv, FilesTypeOK, Kept
<1> QED
  BY <1>2, <1>3, CreatorStep

LEMMA ExclusiveCreateStep ==
    ASSUME FilesInv, NEW p \in Creators, ExclusiveCreate(p), export # None, UNCHANGED export
    PROVE  FilesInv'
<1> DEFINE at == creator[p].at
           file == Files[at]
<1>1. /\ FilesTypeOK
      /\ creator \in [Creators -> [step: {"idle", "create", "write", "open", "done", "failed"},
                                   at: DOMAIN Files, starts: 0..MaxStarts]]
      /\ files \in [{Files[i] : i \in DOMAIN Files} -> {"absent", "torn", "whole"}]
      /\ at \in DOMAIN Files /\ at \in Nat /\ creator[p].step = "create" /\ file \in DOMAIN files
      /\ \A k \in 1..(at - 1) : files[Files[k]] = "whole"
  BY FilesAre DEF FilesInv, FilesTypeOK, ExclusiveCreate
<1>2. CASE /\ files[file] = "absent"
           /\ files' = [files EXCEPT ![file] = "torn"]
           /\ creator' = [creator EXCEPT ![p].step = "write"]
  <2>1. /\ creator' \in [Creators -> [step: {"idle", "create", "write", "open", "done", "failed"},
                                      at: DOMAIN Files, starts: 0..MaxStarts]]
        /\ creator'[p].step = "write" /\ creator'[p].at = at
        /\ \A q \in Creators : q # p => creator'[q] = creator[q]
    BY <1>1, <1>2
  <2>2. /\ files' \in [{Files[i] : i \in DOMAIN Files} -> {"absent", "torn", "whole"}]
        /\ \A f \in DOMAIN files : f # file => files'[f] = files[f]
    BY <1>1, <1>2
  <2>3. Kept /\ FilesTypeOK'
    BY <1>2, <2>1, <2>2 DEF Kept, FilesTypeOK
  <2>4. \A k \in 1..(at - 1) : files'[Files[k]] = "whole"
    <3>1. \A k \in 1..(at - 1) : k \in DOMAIN Files
      BY <1>1, FilesAre
    <3>2. \A k \in 1..(at - 1) : Files[k] \in DOMAIN files
      BY <1>1, <3>1
    <3> QED
      BY <1>1, <2>3, <3>2 DEF Kept
  <2>5. ASSUME files["manifest"] = "absent", files'["manifest"] # "absent", NEW i \in DOMAIN Parts
        PROVE  files[Parts[i]] = "whole"
    <3>1. "manifest" \in DOMAIN files
      BY <1>1, FilesAre
    <3>2. file = "manifest"
      BY <2>2, <2>5, <3>1
    <3>3. at = Len(Files)
      BY <1>1, <3>2, FilesAre
    <3>4. i \in 1..(at - 1)
      BY <3>3, FilesAre
    <3> QED
      BY <1>1, <3>4, FilesAre
  <2> QED
    BY <2>1, <2>3, <2>4, <2>5, CreatorStep
<1>3. CASE files[file] = "whole" /\ Proceed(p) /\ UNCHANGED files
  <2>1. /\ creator' \in [Creators -> [step: {"idle", "create", "write", "open", "done", "failed"},
                                      at: DOMAIN Files, starts: 0..MaxStarts]]
        /\ \A q \in Creators : q # p => creator'[q] = creator[q]
        /\ \/ creator'[p].step = "create" /\ creator'[p].at = at + 1
           \/ creator'[p].step = "open"
    BY <1>1, <1>3, ProceedEffect
  <2>2. FilesTypeOK' /\ Kept
    BY <1>1, <1>3, <2>1 DEF FilesTypeOK, Kept
  <2>3. ASSUME creator'[p].step \in {"create", "write"}, NEW k \in 1..(creator'[p].at - 1)
        PROVE  files'[Files[k]] = "whole"
    <3>1. k \in 1..at
      BY <1>1, <2>1, <2>3
    <3>2. k = at \/ k \in 1..(at - 1)
      BY <1>1, <3>1
    <3> QED
      BY <1>1, <1>3, <3>2
  <2> QED
    BY <1>3, <2>1, <2>2, <2>3, CreatorStep
<1>4. CASE creator' = [creator EXCEPT ![p].step = "failed"] /\ UNCHANGED files
  BY <1>4, StopStep
<1> QED
  BY <1>2, <1>3, <1>4 DEF ExclusiveCreate, Same

LEMMA WriteStep ==
    ASSUME FilesInv, NEW p \in Creators, Write(p), export # None, UNCHANGED export
    PROVE  FilesInv'
<1> DEFINE at == creator[p].at
           file == Files[at]
<1>1. /\ FilesTypeOK /\ creator[p].step = "write" /\ Proceed(p)
      /\ files' = [files EXCEPT ![file] = "whole"]
      /\ files \in [{Files[i] : i \in DOMAIN Files} -> {"absent", "torn", "whole"}]
      /\ at \in DOMAIN Files /\ at \in Nat /\ file \in DOMAIN files
      /\ \A k \in 1..(at - 1) : files[Files[k]] = "whole"
  BY FilesAre DEF FilesInv, FilesTypeOK, Write
<1>2. /\ creator' \in [Creators -> [step: {"idle", "create", "write", "open", "done", "failed"},
                                    at: DOMAIN Files, starts: 0..MaxStarts]]
      /\ \A q \in Creators : q # p => creator'[q] = creator[q]
      /\ \/ creator'[p].step = "create" /\ creator'[p].at = at + 1
         \/ creator'[p].step = "open"
  BY <1>1, ProceedEffect
<1>3. /\ files' \in [{Files[i] : i \in DOMAIN Files} -> {"absent", "torn", "whole"}]
      /\ files'[file] = "whole"
      /\ \A f \in DOMAIN files : f # file => files'[f] = files[f]
  BY <1>1
<1>4. Kept /\ FilesTypeOK'
  BY <1>2, <1>3 DEF Kept, FilesTypeOK
<1>5. ASSUME creator'[p].step \in {"create", "write"}, NEW k \in 1..(creator'[p].at - 1)
      PROVE  files'[Files[k]] = "whole"
  <2>1. k \in 1..at
    BY <1>1, <1>2, <1>5
  <2>2. CASE k = at
    BY <1>3, <2>2
  <2>3. CASE k # at
    <3>1. k \in 1..(at - 1) /\ k \in DOMAIN Files
      BY <1>1, <2>1, <2>3, FilesAre
    <3>2. files[Files[k]] = "whole" /\ Files[k] \in DOMAIN files
      BY <1>1, <3>1
    <3> QED
      BY <1>4, <3>2 DEF Kept
  <2> QED
    BY <2>2, <2>3
<1>6. ASSUME files["manifest"] = "absent", files'["manifest"] # "absent", NEW i \in DOMAIN Parts
      PROVE  files[Parts[i]] = "whole"
  <2>1. "manifest" \in DOMAIN files
    BY <1>1, FilesAre
  <2>2. file = "manifest"
    BY <1>3, <1>6, <2>1
  <2>3. at = Len(Files)
    BY <1>1, <2>2, FilesAre
  <2>4. i \in 1..(at - 1)
    BY <2>3, FilesAre
  <2> QED
    BY <1>1, <2>4, FilesAre
<1> QED
  BY <1>2, <1>4, <1>5, <1>6, CreatorStep

LEMMA CreateStep ==
    ASSUME FilesInv, Create
    PROVE  FilesInv'
<1>1. PICK p \in Creators : Begin(p) \/ ExclusiveCreate(p) \/ Write(p) \/ Open(p, Valid) \/ Kill(p)
  BY DEF Create
<1>2. export # None /\ UNCHANGED export
  BY DEF Create
<1>3. CASE Open(p, Valid)
  <2>1. files' = files
    BY <1>3 DEF Open
  <2>2. \E step \in {"done", "failed"} : creator' = [creator EXCEPT ![p].step = step]
    BY <1>3 DEF Open
  <2> QED
    BY <1>2, <2>1, <2>2, StopStep
<1>4. CASE Kill(p)
  BY <1>2, <1>4, StopStep DEF Kill
<1> QED
  BY <1>1, <1>2, <1>3, <1>4, BeginStep, ExclusiveCreateStep, WriteStep

-----------------------------------------------------------------------------
(* The snapshot. *)

Archive == [sources: SUBSET Sources, exposures: SUBSET Exposures,
            universe: SUBSET Universe, opens: SUBSET Opens]

FeedOK == now \in 0..MaxTime /\ archive \in Archive

\* The export is of a build that was not refused, of records that may be in the archive and
\* a calendar that is one, with some of the build's rows.
ExportOf(plan, S, E, kept) ==
    LET C == export.calendar
        O == export.opens
    IN /\ S \subseteq Sources /\ E \subseteq Exposures
       /\ Dated(C) /\ Chronological(C) /\ ~Refused(plan, S, E, C)
       /\ export.build = Materialize(plan, S, E, C)
       /\ export.universe \subseteq Universe /\ O \subseteq Opens
       /\ kept \subseteq BuiltRows(plan, S, E, C)
       /\ export.observations = {Observation(x) : x \in kept \cup O}

ExportInv == export # None => \E plan \in Plans : \E S, E, kept : ExportOf(plan, S, E, kept)

IInv == FeedOK /\ RegistryInv /\ FilesInv /\ ExportInv

LEMMA InitInv == ASSUME Init PROVE IInv
<1>1. FeedOK
  BY FeedAssumption DEF Init, FeedOK, Arrivals, Archive
<1>2. RegistryInv
  BY DEF Init, RegistryInit, RegistryInv, RegistryTypeOK
<1>3. FilesInv
  <2>1. FilesTypeOK
    <3>1. 1 \in DOMAIN Files /\ 0 \in 0..MaxStarts
      BY FilesAre, FilesAssumption
    <3> QED
      BY <3>1 DEF Init, FilesInit, FilesTypeOK
  <2>2. \A p \in Creators : creator[p].step = "idle"
    BY DEF Init, FilesInit
  <2>3. files["manifest"] = "absent"
    <3>1. "manifest" \in {Files[i] : i \in DOMAIN Files}
      BY FilesAre
    <3> QED
      BY <3>1 DEF Init, FilesInit
  <2> QED
    BY <2>1, <2>2, <2>3 DEF FilesInv
<1>4. ExportInv
  BY DEF Init, ExportInv
<1> QED
  BY <1>1, <1>2, <1>3, <1>4 DEF IInv

\* The calendar up to now is a calendar.
LEMMA SessionsDated ==
    /\ \A i \in DOMAIN Sessions : Session(Sessions[i])
    /\ Chronological(Sessions) => Dated(Sessions)
<1> DEFINE past == {i \in DOMAIN Calendar : Calendar[i].decision <= now}
           n == Cardinality(past)
<1>1. Calendar \in Seq(Range(Calendar)) /\ Len(Calendar) \in Nat /\
      DOMAIN Calendar = 1..Len(Calendar)
  BY FeedAssumption
<1>2. \A i \in DOMAIN Calendar : Session(Calendar[i])
  BY FeedAssumption DEF Range
<1>3. Dated(Calendar)
  BY <1>1, <1>2 DEF Dated
<1>4. n \in 0..Len(Calendar)
  <2>1. IsFiniteSet(1..Len(Calendar)) /\ Cardinality(1..Len(Calendar)) = Len(Calendar)
    BY <1>1, FS_Interval
  <2>2. past \subseteq 1..Len(Calendar)
    BY <1>1
  <2> HIDE DEF past
  <2>3. IsFiniteSet(past) /\ Cardinality(past) <= Len(Calendar)
    BY <2>1, <2>2, FS_Subset
  <2>4. Cardinality(past) \in Nat
    BY <2>3, FS_CardinalityType
  <2> QED
    BY <1>1, <2>3, <2>4
<1>5. Sessions = SubSeq(Calendar, 1, n)
  BY DEF Sessions
<1> HIDE DEF n
<1>6. /\ Len(Sessions) = n /\ DOMAIN Sessions = 1..n
      /\ \A i \in 1..n : i \in DOMAIN Calendar /\ Sessions[i] = Calendar[i]
  BY <1>1, <1>4, <1>5
<1>7. CASE n = 0
  <2>1. Sessions = <<>>
    BY <1>1, <1>5, <1>7
  <2> QED
    BY <1>6, <1>7, <2>1 DEF Chronological
<1>8. CASE n # 0
  <2>1. n \in DOMAIN Calendar
    BY <1>1, <1>4, <1>8
  <2>2. Chronological(Calendar)
    BY FeedAssumption
  <2>3. Dated(Sessions)
    BY <1>3, <1>5, <2>1, <2>2, UpTo
  <2> QED
    BY <1>2, <1>6, <2>3
<1> QED
  BY <1>7, <1>8

LEMMA ExportStep ==
    ASSUME FeedOK, NEW plan \in Plans, Export(plan)
    PROVE  ExportInv'
<1> DEFINE S == archive.sources
           E == archive.exposures
           C == Sessions
           build == Materialize(plan, S, E, C)
           rows == BuiltRows(plan, S, E, C)
<1>1. build # None
  BY DEF Export, Compile
<1>2. ~Refused(plan, S, E, C)
  BY <1>1 DEF Materialize
<1>3. build.rows = rows
  BY <1>2, BuildIs
<1>4. \E kept \in SUBSET rows :
        export' = [build |-> build, calendar |-> C, universe |-> archive.universe,
                   opens |-> archive.opens,
                   observations |-> {Observation(x) : x \in kept \cup archive.opens}]
  <2>1. PICK kept \in {build.rows, {row \in build.rows : row.available < Last(Sessions).decision}} :
          export' = [build |-> build, calendar |-> C, universe |-> archive.universe,
                     opens |-> archive.opens,
                     observations |-> {Observation(x) : x \in kept \cup archive.opens}]
    BY DEF Export, Compile
  <2>2. kept \in SUBSET rows
    BY <1>3
  <2> QED
    BY <2>1, <2>2
<1>5. PICK kept \in SUBSET rows :
        export' = [build |-> build, calendar |-> C, universe |-> archive.universe,
                   opens |-> archive.opens,
                   observations |-> {Observation(x) : x \in kept \cup archive.opens}]
  BY <1>4
<1>6. /\ export'.build = build /\ export'.calendar = C /\ export'.universe = archive.universe
      /\ export'.opens = archive.opens
      /\ export'.observations = {Observation(x) : x \in kept \cup archive.opens}
  BY <1>5
<1>7. Chronological(C) /\ Dated(C)
  BY <1>2, SessionsDated DEF Refused
<1>8. /\ S \subseteq Sources /\ E \subseteq Exposures
      /\ archive.universe \subseteq Universe /\ archive.opens \subseteq Opens
  BY DEF FeedOK, Archive
<1>9. UNCHANGED archive /\ UNCHANGED now
  BY DEF Export
<1> HIDE DEF C
<1>10. /\ S \subseteq Sources /\ E \subseteq Exposures
       /\ Dated(export'.calendar) /\ Chronological(export'.calendar)
       /\ ~Refused(plan, S, E, export'.calendar)
       /\ export'.build = Materialize(plan, S, E, export'.calendar)
       /\ export'.universe \subseteq Universe /\ export'.opens \subseteq Opens
       /\ kept \subseteq BuiltRows(plan, S, E, export'.calendar)
       /\ export'.observations = {Observation(x) : x \in kept \cup export'.opens}
  BY <1>2, <1>5, <1>6, <1>7, <1>8
<1>11. \E T, F, k : ExportOf(plan, T, F, k)'
  BY <1>10 DEF ExportOf
<1> QED
  BY <1>11 DEF ExportInv

LEMMA TickStep ==
    ASSUME FeedOK, Tick
    PROVE  FeedOK'
<1> DEFINE new == Arrivals(now + 1)
<1>1. now' \in 0..MaxTime
  BY FeedAssumption DEF FeedOK, Tick
<1>2. PICK lost \in SUBSET Unreliable :
        archive' = [archive EXCEPT !.sources = @ \cup (new.sources \ lost),
                                   !.exposures = @ \cup (new.exposures \ lost),
                                   !.universe = @ \cup new.universe,
                                   !.opens = @ \cup new.opens]
  BY DEF Tick
<1>3. new \in Archive
  BY DEF Arrivals, Archive
<1> HIDE DEF new
<1>4. archive' \in Archive
  BY <1>2, <1>3, Zenon DEF FeedOK, Archive
<1> QED
  BY <1>1, <1>4 DEF FeedOK

LEMMA NextInv ==
    ASSUME IInv, [Next]_vars
    PROVE  IInv'
<1>1. FeedOK /\ RegistryInv /\ FilesInv /\ ExportInv
  BY DEF IInv
<1>2. CASE Tick
  <2>1. FeedOK'
    BY <1>1, <1>2, TickStep
  <2>2. UNCHANGED <<export, candidates, maps, copies, use, files, creator>>
    BY <1>2 DEF Tick, registryVars, filesVars
  <2>3. RegistryInv' /\ FilesInv' /\ ExportInv'
    <3>1. RegistryInv'
      BY <1>1, <2>2 DEF RegistryInv, RegistryTypeOK
    <3>2. FilesInv'
      BY <1>1, <2>2 DEF FilesInv, FilesTypeOK
    <3>3. ExportInv'
      BY <1>1, <2>2 DEF ExportInv, ExportOf
    <3> QED
      BY <3>1, <3>2, <3>3
  <2> QED
    BY <2>1, <2>3 DEF IInv
<1>3. CASE Registries
  <2>1. archive.sources \in SUBSET Sources
    BY <1>1 DEF FeedOK, Archive
  <2>2. RegistryNext(archive.sources, archive.universe, Sessions)
    BY <1>3 DEF Registries
  <2>3. RegistryInv'
    BY <1>1, <2>1, <2>2, SessionsDated, RegistryStep
  <2>4. UNCHANGED <<now, archive, export, files, creator>>
    BY <1>3 DEF Registries, filesVars
  <2>5. FeedOK' /\ FilesInv' /\ ExportInv'
    BY <1>1, <2>4 DEF FeedOK, FilesInv, FilesTypeOK, ExportInv, ExportOf
  <2> QED
    BY <2>3, <2>5 DEF IInv
<1>4. ASSUME NEW plan \in Plans, Export(plan) PROVE IInv'
  <2>1. ExportInv'
    BY <1>1, <1>4, ExportStep
  <2>2. UNCHANGED <<now, archive, candidates, maps, copies, use, files, creator>> /\ export = None
    BY <1>4 DEF Export, registryVars, filesVars
  <2>3. FeedOK' /\ RegistryInv'
    BY <1>1, <2>2 DEF FeedOK, RegistryInv, RegistryTypeOK
  <2>4. FilesInv'
    BY <1>1, <2>2 DEF FilesInv, FilesTypeOK
  <2> QED
    BY <2>1, <2>3, <2>4 DEF IInv
<1>5. CASE Create
  <2>1. FilesInv'
    BY <1>1, <1>5, CreateStep
  <2>2. UNCHANGED <<now, archive, export, candidates, maps, copies, use>>
    BY <1>5 DEF Create, registryVars
  <2>3. FeedOK' /\ RegistryInv' /\ ExportInv'
    BY <1>1, <2>2 DEF FeedOK, RegistryInv, RegistryTypeOK, ExportInv, ExportOf
  <2> QED
    BY <2>1, <2>3 DEF IInv
<1>6. CASE UNCHANGED vars
  <2>1. UNCHANGED <<now, archive, export, candidates, maps, copies, use, files, creator>>
    BY <1>6 DEF vars, registryVars, filesVars
  <2>2. FeedOK' /\ RegistryInv'
    BY <1>1, <2>1 DEF FeedOK, RegistryInv, RegistryTypeOK
  <2>3. FilesInv' /\ ExportInv'
    BY <1>1, <2>1 DEF FilesInv, FilesTypeOK, ExportInv, ExportOf
  <2> QED
    BY <2>2, <2>3 DEF IInv
<1> QED
  BY <1>2, <1>3, <1>4, <1>5, <1>6 DEF Next

\* The archive, the registries, the export and the directory are as the invariant says in
\* every state that is reached.
THEOREM Invariance == Spec => []IInv
<1>1. Init => IInv
  BY InitInv
<1>2. IInv /\ [Next]_vars => IInv'
  BY NextInv
<1> QED
  BY <1>1, <1>2, PTL DEF Spec

\* Every variable has its type: what is in the archive arrived, a candidate has a status,
\* a creator is at one of the files.
THEOREM TypeCorrect == Spec => []TypeOK
<1>1. IInv => TypeOK
  BY DEF IInv, FeedOK, Archive, RegistryInv, FilesInv, TypeOK
<1> QED
  BY <1>1, Invariance, PTL

\* What a feature rests on was approved, and neither its dataset nor its map is rejected
\* afterwards; what the map delivers was there at the decision.
THEOREM Governed == Spec => []GovernedFeatures
<1>1. ASSUME IInv PROVE GovernedFeatures
  <2>1. RegistryInv
    BY <1>1 DEF IInv
  <2> SUFFICES ASSUME use # None
               PROVE  /\ candidates[use.candidate].status = "approved"
                      /\ Lawful(candidates[use.candidate].entry)
                      /\ use.lineage.dataset = candidates[use.candidate].entry.dataset
                      /\ use.map # None =>
                           /\ maps[use.map] = "approved" /\ use.map.dataset = use.lineage.dataset
                           /\ \A x \in use.observations : x.available <= use.decision
    BY DEF GovernedFeatures
  <2>2. use.candidate \in DOMAIN candidates
    BY <2>1 DEF RegistryInv, RegistryTypeOK
  <2> QED
    BY <2>1, <2>2 DEF RegistryInv
<1> QED
  BY <1>1, Invariance, PTL

\* A manifest comes after its parts, whoever writes and is killed, and the check of the
\* evidence accepts the snapshot exactly when it has every row of the build.
THEOREM Sound == Spec => []SnapshotSound
<1>1. ASSUME IInv PROVE SnapshotSound
  <2>1. FilesInv /\ ExportInv
    BY <1>1 DEF IInv
  <2> SUFFICES ASSUME files["manifest"] # "absent"
               PROVE  /\ \A i \in DOMAIN Parts : files[Parts[i]] = "whole"
                      /\ Valid <=> Cardinality(export.observations) =
                                     Cardinality(export.build.rows) + Cardinality(export.opens)
    BY DEF SnapshotSound
  <2>2. \A i \in DOMAIN Parts : files[Parts[i]] = "whole"
    BY <2>1 DEF FilesInv
  <2>3. PICK plan \in Plans : \E S, E, kept : ExportOf(plan, S, E, kept)
    BY <2>1 DEF FilesInv, ExportInv
  <2>4. PICK S, E, kept : ExportOf(plan, S, E, kept)
    BY <2>3
  <2> DEFINE C == export.calendar
             O == export.opens
             rows == BuiltRows(plan, S, E, C)
  <2>5. /\ Inputs(plan, S, E, C) /\ IsFiniteSet(E) /\ IsFiniteSet(O) /\ \A x \in O : ProviderRow(x)
    <3>1. S \subseteq Sources /\ E \subseteq Exposures /\ O \subseteq Opens /\ Dated(C) /\
            Chronological(C)
      BY <2>4 DEF ExportOf
    <3>2. Inputs(plan, S, E, C)
      BY <3>1, FeedAssumption DEF Inputs
    <3> QED
      BY <3>1, <3>2, FeedAssumption, FS_Subset
  <2>6. /\ ~Refused(plan, S, E, C) /\ kept \in SUBSET rows
        /\ export.build = Materialize(plan, S, E, C)
        /\ export.observations = {Observation(x) : x \in kept \cup O}
    BY <2>4 DEF ExportOf
  <2> HIDE DEF C, O
  <2>7. export.build.rows = rows
    BY <2>6, BuildIs
  <2>8. Valid <=> kept = rows
    <3>1. Provenance(Materialize(plan, S, E, C),
                     {Observation(x) : x \in kept \cup O}) <=> kept = rows
      BY <2>5, <2>6, AcceptedWhole
    <3> QED
      BY <2>6, <3>1 DEF Valid
  <2>9. Cardinality(export.observations) = Cardinality(kept) + Cardinality(O)
    BY <2>5, <2>6, ObservationCount
  <2>10. IsFiniteSet(rows)
    BY <2>5, FiniteRows
  <2>11. IsFiniteSet(kept) /\ (Cardinality(kept) = Cardinality(rows) => kept = rows)
    <3> HIDE DEF rows
    <3> QED
      BY <2>6, <2>10, FS_Subset
  <2>12. Cardinality(kept) \in Nat /\ Cardinality(rows) \in Nat /\ Cardinality(O) \in Nat
    BY <2>5, <2>10, <2>11, FS_CardinalityType
  <2>13. Cardinality(export.observations) = Cardinality(rows) + Cardinality(O) <=> kept = rows
    <3> HIDE DEF rows
    <3> QED
      BY <2>9, <2>11, <2>12
  <2> QED
    BY <2>2, <2>7, <2>8, <2>13 DEF O
<1> QED
  BY <1>1, Invariance, PTL

-----------------------------------------------------------------------------
(* What a reader of a snapshot may know. *)

\* A snapshot that opens, in the terms of the lemmas.
LEMMA ReadableSnapshot ==
    ASSUME IInv, Readable
    PROVE  \E plan \in Plans : \E S, E :
             /\ Snapshot(plan, S, E, export.calendar, export.opens, export.universe,
                         export.observations)
             /\ export.build = Materialize(plan, S, E, export.calendar)
<1>1. ExportInv /\ export # None /\ Valid
  BY DEF IInv, Readable
<1>2. PICK plan \in Plans : \E S, E, kept : ExportOf(plan, S, E, kept)
  BY <1>1 DEF ExportInv
<1>3. PICK S, E, kept : ExportOf(plan, S, E, kept)
  BY <1>2
<1> DEFINE C == export.calendar
           O == export.opens
           rows == BuiltRows(plan, S, E, C)
<1>4. /\ S \subseteq Sources /\ E \subseteq Exposures /\ O \subseteq Opens /\ Dated(C) /\
           Chronological(C)
      /\ export.universe \subseteq Universe
      /\ ~Refused(plan, S, E, C) /\ kept \in SUBSET rows
      /\ export.build = Materialize(plan, S, E, C)
      /\ export.observations = {Observation(x) : x \in kept \cup O}
  BY <1>3 DEF ExportOf
<1>5. Inputs(plan, S, E, C) /\ \A x \in O : ProviderRow(x)
  BY <1>4, FeedAssumption DEF Inputs
<1>6. kept = rows
  BY <1>1, <1>4, <1>5, AcceptedWhole DEF Valid
<1>7. {x \in export.observations : x.field = "feature"} = {Observation(row) : row \in rows}
  BY <1>4, <1>5, <1>6, FeatureObservations
<1>8. Holds(export.observations, rows, O)
  BY <1>4, <1>7 DEF Holds
<1>9. (\A x \in O : x.available \in Nat) /\ (\A u \in export.universe : u.known \in Nat)
  BY <1>4, <1>5, FeedAssumption DEF ProviderRow
<1>10. Snapshot(plan, S, E, C, O, export.universe, export.observations)
  BY <1>4, <1>5, <1>8, <1>9 DEF Snapshot
<1> QED
  BY <1>4, <1>10

LEMMA ContemporaryIs ==
    ASSUME NEW plan, NEW S, NEW E, NEW i,
           ~Refused(plan, S, E, export.calendar),
           export.build = Materialize(plan, S, E, export.calendar)
    PROVE  Contemporary(i)
             = PanelThen(plan, S, E, export.calendar, export.opens, export.universe, i)
<1> DEFINE C == export.calendar
           d == C[i].decision
<1>1. export.build.plan = plan /\ export.build.sources = S /\ export.build.exposures = E
  BY BuildIs
<1>2. {s \in S : IF plan.clock = "as_run" THEN s.extracted <= d ELSE s.published <= d}
        = Known(plan, S, d)
  BY DEF Known, Clock
<1>3. {e \in E : e.available <= d} = Available(E, d)
      /\ {y \in export.opens : y.available <= d} = Available(export.opens, d)
  BY DEF Available
<1> QED
  BY <1>1, <1>2, <1>3 DEF Contemporary, PanelThen, ObservationsThen, RowsThen

\* Nothing that arrives late, or that anyone revises, withdraws, ends or restates, shows in
\* a panel at a session before it.
THEOREM Knowable == Spec => []PanelKnowable
<1>1. ASSUME IInv PROVE PanelKnowable
  <2> DEFINE C == export.calendar
             panel(first) == Panel(export.observations, export.universe, C,
                                   C[first].day, C[Len(C)].day)
  <2> SUFFICES ASSUME Readable, NEW i \in DOMAIN C, NEW first \in 1..i, panel(first) # None
               PROVE  panel(first)[i - first + 1] = Contemporary(i)[i]
    BY DEF PanelKnowable
  <2>1. PICK plan \in Plans : \E S, E :
          /\ Snapshot(plan, S, E, C, export.opens, export.universe, export.observations)
          /\ export.build = Materialize(plan, S, E, C)
    BY <1>1, ReadableSnapshot
  <2>2. PICK S, E :
          /\ Snapshot(plan, S, E, C, export.opens, export.universe, export.observations)
          /\ export.build = Materialize(plan, S, E, C)
    BY <2>1
  <2>3. ~Refused(plan, S, E, C)
    BY <2>2 DEF Snapshot
  <2>4. Contemporary(i) = PanelThen(plan, S, E, C, export.opens, export.universe, i)
    BY <2>2, <2>3, ContemporaryIs
  <2>5. panel(first)[i - first + 1]
          = PanelThen(plan, S, E, C, export.opens, export.universe, i)[i]
    BY <2>2, SlicePanel
  <2> QED
    BY <2>4, <2>5
<1> QED
  BY <1>1, Invariance, PTL

-----------------------------------------------------------------------------
(* Predictions.  What is predicted at a session reads nothing of the panel after it. *)

\* q is p up to session i.
PanelUpTo(p, q, i) ==
    /\ i \in Nat \ {0} /\ DOMAIN q = 1..i
    /\ \E n \in Nat : DOMAIN p = 1..n /\ i <= n
    /\ \A j \in 1..i : p[j] = q[j]

LEMMA SameField ==
    ASSUME NEW p, NEW q, NEW i, PanelUpTo(p, q, i), NEW j \in 1..i
    PROVE  /\ AssetsOf(p, j) = AssetsOf(q, j)
           /\ \A field, a : FieldValue(p, field, j, a) = FieldValue(q, field, j, a)
<1>1. p[j] = q[j]
  BY DEF PanelUpTo
<1> QED
  BY <1>1 DEF AssetsOf, FieldValue

LEMMA ReadsBack ==
    ASSUME NEW formula, Formula(formula)
    PROVE  Reads(formula) \subseteq Nat
  BY DEF Formula, Reads

\* A score, of what its formula reads.
ScoreOf(formula, member, read) ==
    IF ~member \/ \E k \in Reads(formula) : read[k] = None THEN None
    ELSE CASE formula.fn = "ts_delta" -> read[0] - read[formula.window]
           [] OTHER -> MapThenSumSet(LAMBDA k : read[k], Reads(formula))

ReadOf(panel, formula, i, a) ==
    [k \in Reads(formula) |-> IF i > k /\ a \in panel[i - k].members
                              THEN FieldValue(panel, "feature", i - k, a) ELSE None]

LEMMA ScoreIs ==
    ASSUME NEW panel, NEW formula, NEW i, NEW a
    PROVE  Score(panel, formula, i, a)
             = ScoreOf(formula, a \in panel[i].members, ReadOf(panel, formula, i, a))
  BY DEF Score, ScoreOf, ReadOf

LEMMA SameScore ==
    ASSUME NEW p, NEW q, NEW i, PanelUpTo(p, q, i), NEW j \in 1..i,
           NEW formula, Formula(formula), NEW a
    PROVE  Score(p, formula, j, a) = Score(q, formula, j, a)
<1>1. ASSUME NEW k \in Reads(formula), j > k
      PROVE  /\ p[j - k] = q[j - k]
             /\ FieldValue(p, "feature", j - k, a) = FieldValue(q, "feature", j - k, a)
  <2>1. k \in Nat /\ j \in Nat /\ i \in Nat /\ j <= i
    BY ReadsBack DEF PanelUpTo
  <2>2. PICK m : m = j - k
    OBVIOUS
  <2>3. m \in 1..i
    BY <1>1, <2>1, <2>2
  <2>4. p[m] = q[m]
    BY <2>3 DEF PanelUpTo
  <2>5. FieldValue(p, "feature", m, a) = FieldValue(q, "feature", m, a)
    BY <2>3, SameField
  <2> QED
    BY <2>2, <2>4, <2>5
<1>2. ReadOf(p, formula, j, a) = ReadOf(q, formula, j, a)
  <2>1. \A k \in Reads(formula) :
          (IF j > k /\ a \in p[j - k].members THEN FieldValue(p, "feature", j - k, a) ELSE None)
            = (IF j > k /\ a \in q[j - k].members THEN FieldValue(q, "feature", j - k, a) ELSE None)
    BY <1>1
  <2> QED
    BY <2>1 DEF ReadOf
<1>3. p[j] = q[j]
  BY DEF PanelUpTo
<1> QED
  BY <1>2, <1>3, ScoreIs

LEMMA SameInference ==
    ASSUME NEW p, NEW q, NEW i, PanelUpTo(p, q, i), NEW j \in 1..i,
           NEW formula, Formula(formula)
    PROVE  Inference(p, formula, j) = Inference(q, formula, j)
<1> DEFINE P == {a \in AssetsOf(p, j) : Score(p, formula, j, a) # None}
           Q == {a \in AssetsOf(q, j) : Score(q, formula, j, a) # None}
<1>1. P = Q
  BY SameField, SameScore
<1>2. Inference(p, formula, j) = Enough(P) /\ Inference(q, formula, j) = Enough(Q)
  BY DEF Inference
<1> HIDE DEF P, Q
<1> QED
  BY <1>1, <1>2

\* Sessions whose outcomes were there by session i.
LEMMA SameLabel ==
    ASSUME NEW p, NEW q, NEW i, PanelUpTo(p, q, i), NEW t \in 1..i, t + Horizon + 1 <= i, NEW a
    PROVE  Label(p, t, a) = Label(q, t, a)
<1>1. t + Horizon + 1 \in 1..i /\ t + 1 \in 1..i /\ t \in Nat /\ Horizon \in Nat
  BY WalkForwardAssumption DEF PanelUpTo
<1>2. EndOf(p, t) = t + Horizon + 1 /\ EndOf(q, t) = t + Horizon + 1
  <2>1. t + Horizon + 1 \in DOMAIN p /\ t + Horizon + 1 \in DOMAIN q
    BY <1>1 DEF PanelUpTo
  <2> QED
    BY <2>1 DEF EndOf
<1>3. /\ FieldValue(p, "open", t + 1, a) = FieldValue(q, "open", t + 1, a)
      /\ FieldValue(p, "open", t + Horizon + 1, a) = FieldValue(q, "open", t + Horizon + 1, a)
      /\ p[t] = q[t]
  <2>1. PICK m, n : m = t + 1 /\ n = t + Horizon + 1
    OBVIOUS
  <2>2. m \in 1..i /\ n \in 1..i
    BY <1>1, <2>1
  <2>3. /\ FieldValue(p, "open", m, a) = FieldValue(q, "open", m, a)
        /\ FieldValue(p, "open", n, a) = FieldValue(q, "open", n, a)
    BY <2>2, SameField
  <2>4. p[t] = q[t]
    BY DEF PanelUpTo
  <2> QED
    BY <2>1, <2>3, <2>4
<1> QED
  BY <1>2, <1>3 DEF Label

Below(panel, t, a) == {b \in Labelled(panel, t) : Label(panel, t, b) < Label(panel, t, a)}
NotAbove(panel, t, a) == {b \in Labelled(panel, t) : Label(panel, t, b) <= Label(panel, t, a)}

LEMMA RankIs ==
    ASSUME NEW panel, NEW t, NEW a
    PROVE  TargetRank(panel, t, a) =
             Cardinality(Below(panel, t, a)) + Cardinality(NotAbove(panel, t, a))
  BY DEF TargetRank, Below, NotAbove

LEMMA SameRank ==
    ASSUME NEW p, NEW q, NEW i, PanelUpTo(p, q, i), NEW t \in 1..i, t + Horizon + 1 <= i, NEW a
    PROVE  TargetRank(p, t, a) = TargetRank(q, t, a)
<1>1. \A b : Label(p, t, b) = Label(q, t, b)
  BY SameLabel
<1>2. Labelled(p, t) = Labelled(q, t)
  BY <1>1, SameField DEF Labelled
<1>3. Below(p, t, a) = Below(q, t, a) /\ NotAbove(p, t, a) = NotAbove(q, t, a)
  BY <1>1, <1>2 DEF Below, NotAbove
<1> QED
  BY <1>3, RankIs

LEMMA SameValidRows ==
    ASSUME NEW p, NEW q, NEW i, PanelUpTo(p, q, i), NEW t \in 1..i, t + Horizon + 1 <= i,
           NEW formula, Formula(formula)
    PROVE  ValidRows(p, formula, t) = ValidRows(q, formula, t)
<1> DEFINE P == {a \in Inference(p, formula, t) : Label(p, t, a) # None}
           Q == {a \in Inference(q, formula, t) : Label(q, t, a) # None}
<1>1. P = Q
  BY SameInference, SameLabel
<1>2. ValidRows(p, formula, t) = Enough(P) /\ ValidRows(q, formula, t) = Enough(Q)
  BY DEF ValidRows
<1> HIDE DEF P, Q
<1> QED
  BY <1>1, <1>2

\* What trains a fold had its outcome before the fold, so by any session of it.
LEMMA SamePurged ==
    ASSUME NEW p, NEW q, NEW i, PanelUpTo(p, q, i), NEW first \in 1..i, NEW t \in 1..(first - 1)
    PROVE  /\ Purged(p, t, first) <=> Purged(q, t, first)
           /\ Purged(p, t, first) => t \in 1..i /\ t + Horizon + 1 <= i
<1> DEFINE end == t + Horizon + 1
<1>1. /\ t \in Nat /\ first \in Nat /\ i \in Nat /\ t \in 1..i /\ first <= i
      /\ end \in Nat /\ end >= 1 /\ Embargo \in Nat
  BY WalkForwardAssumption DEF PanelUpTo
<1>2. PICK n \in Nat : DOMAIN p = 1..n /\ i <= n /\ DOMAIN q = 1..i
  BY DEF PanelUpTo
<1>3. EndOf(p, t) = (IF end \in 1..n THEN end ELSE None) /\
      EndOf(q, t) = (IF end \in 1..i THEN end ELSE None)
  BY <1>2 DEF EndOf
<1> HIDE DEF end
<1>4. CASE end <= i
  <2>1. EndOf(p, t) = end /\ EndOf(q, t) = end
    BY <1>1, <1>2, <1>3, <1>4
  <2> QED
    BY <1>1, <1>4, <2>1 DEF Purged, end
<1>5. CASE ~(end <= i)
  <2>1. ~(end < first - Embargo)
    BY <1>1, <1>5
  <2>2. (EndOf(p, t) = end \/ EndOf(p, t) = None) /\ EndOf(q, t) = None
    BY <1>1, <1>2, <1>3, <1>5
  <2>3. ~Purged(p, t, first) /\ ~Purged(q, t, first)
    BY <2>1, <2>2 DEF Purged
  <2> QED
    BY <2>3
<1> QED
  BY <1>4, <1>5

TrainingRows(panel, formula, t) ==
    {[session |-> t, score |-> Score(panel, formula, t, a), target |-> TargetRank(panel, t, a),
      asset |-> a] :
       a \in ValidRows(panel, formula, t)}

LEMMA TrainingIs ==
    ASSUME NEW panel, NEW formula, NEW first
    PROVE  Training(panel, formula, first)
             = UNION {TrainingRows(panel, formula, t) : t \in TrainingDays(panel, formula, first)}
  BY DEF Training, TrainingRows

LEMMA SameTraining ==
    ASSUME NEW p, NEW q, NEW i, PanelUpTo(p, q, i), NEW first \in 1..i,
           NEW formula, Formula(formula)
    PROVE  /\ TrainingDays(p, formula, first) = TrainingDays(q, formula, first)
           /\ Training(p, formula, first) = Training(q, formula, first)
<1>1. TrainingDays(p, formula, first) = TrainingDays(q, formula, first)
  <2>1. \A t \in 1..(first - 1) : Purged(p, t, first) <=> Purged(q, t, first)
    BY SamePurged
  <2>2. \A t \in 1..(first - 1) : Purged(p, t, first) =>
          ValidRows(p, formula, t) = ValidRows(q, formula, t)
    BY SamePurged, SameValidRows
  <2> QED
    BY <2>1, <2>2 DEF TrainingDays
<1>2. ASSUME NEW t \in TrainingDays(p, formula, first)
      PROVE  TrainingRows(p, formula, t) = TrainingRows(q, formula, t)
  <2>1. t \in 1..i /\ t + Horizon + 1 <= i
    BY SamePurged DEF TrainingDays
  <2>2. ValidRows(p, formula, t) = ValidRows(q, formula, t)
    BY <2>1, SameValidRows
  <2>3. \A a : Score(p, formula, t, a) = Score(q, formula, t, a) /\
                 TargetRank(p, t, a) = TargetRank(q, t, a)
    BY <2>1, SameScore, SameRank
  <2> QED
    BY <2>2, <2>3 DEF TrainingRows
<1> QED
  BY <1>1, <1>2, TrainingIs

\* The last fold that has begun.
LEMMA LastNatural ==
    ASSUME NEW S, S \subseteq Nat, S # {}, NEW n \in Nat, \A x \in S : x <= n
    PROVE  Max(S) \in S
<1> DEFINE D == {n - x : x \in S}
<1>1. D \subseteq Nat /\ D # {}
  <2>1. ASSUME NEW x \in S PROVE n - x \in Nat
    OBVIOUS
  <2> QED
    BY <2>1
<1>2. PICK d \in D : \A e \in D : d <= e
  <2> HIDE DEF D
  <2> QED
    BY <1>1, LeastNatural
<1>3. PICK x \in S : d = n - x
  BY <1>2
<1>4. ASSUME NEW y \in S PROVE x >= y
  <2>1. n - y \in D
    OBVIOUS
  <2>2. n - x <= n - y
    BY <1>2, <1>3, <2>1
  <2> QED
    BY <2>2
<1> QED
  BY <1>3, <1>4 DEF Max

LEMMA SamePredictions ==
    ASSUME NEW p, NEW q, NEW i, PanelUpTo(p, q, i), NEW formula, Formula(formula)
    PROVE  Predictions(p, formula, i) = Predictions(q, formula, i)
<1> DEFINE P == {j \in TestStarts(p) : j <= i}
           Q == {j \in TestStarts(q) : j <= i}
<1>1. i \in Nat /\ i \in 1..i /\ FirstTest \in Nat /\ FirstTest >= 1 /\ TestDays \in Nat \ {0}
  BY WalkForwardAssumption DEF PanelUpTo, FirstTest
<1>2. P = Q /\ P \subseteq 1..i
  BY <1>1 DEF TestStarts, PanelUpTo
<1>3. CASE i < FirstTest
  BY <1>3 DEF Predictions
<1>4. CASE ~(i < FirstTest)
  <2>1. FirstTest \in P
    <3>1. (FirstTest - FirstTest) % TestDays = 0
      BY <1>1
    <3>2. FirstTest \in DOMAIN p /\ FirstTest <= i
      BY <1>1, <1>4 DEF PanelUpTo
    <3> QED
      BY <1>1, <3>1, <3>2 DEF TestStarts
  <2> DEFINE first == Max(P)
  <2>2. first \in 1..i
    <3>1. P \subseteq Nat /\ P # {} /\ \A x \in P : x <= i
      BY <1>1, <1>2, <2>1
    <3> HIDE DEF P
    <3> QED
      BY <1>1, <1>2, <3>1, LastNatural
  <2>3. /\ TrainingDays(p, formula, first) = TrainingDays(q, formula, first)
        /\ Training(p, formula, first) = Training(q, formula, first)
    <3> HIDE DEF first
    <3> QED
      BY <2>2, SameTraining
  <2>4. \A a : Score(p, formula, i, a) = Score(q, formula, i, a)
    BY <1>1, SameScore
  <2>5. Inference(p, formula, i) = Inference(q, formula, i)
    BY <1>1, SameInference
  <2>6. ASSUME NEW panel, {j \in TestStarts(panel) : j <= i} = P
        PROVE  Predictions(panel, formula, i) =
                 IF \/ Cardinality(Training(panel, formula, first)) < MinTrainRows
                    \/ Cardinality(TrainingDays(panel, formula, first)) < MinTrainDays
                 THEN {}
                 ELSE {[asset |-> a, score |-> Score(panel, formula, i, a),
                        training |-> Training(panel, formula, first)] :
                          a \in Inference(panel, formula, i)}
    <3> HIDE DEF P
    <3> QED
      BY <1>4, <2>6 DEF Predictions
  <2>7. {j \in TestStarts(p) : j <= i} = P /\ {j \in TestStarts(q) : j <= i} = P
    BY <1>2
  <2> HIDE DEF first, P, Q
  <2> QED
    BY <2>3, <2>4, <2>5, <2>6, <2>7
<1> QED
  BY <1>3, <1>4

\* No prediction is fitted to an outcome of its own time or later, or to anything that
\* became known later.
THEOREM PredictedKnowable == Spec => []PredictionsKnowable
<1>1. ASSUME IInv PROVE PredictionsKnowable
  <2> DEFINE C == export.calendar
             panel == Panel(export.observations, export.universe, C, C[1].day, C[Len(C)].day)
  <2> SUFFICES ASSUME Readable, panel # None, NEW i \in DOMAIN panel, NEW formula \in Formulas
               PROVE  Predictions(panel, formula, i) = Predictions(Contemporary(i), formula, i)
    BY DEF PredictionsKnowable
  <2>1. PICK plan \in Plans : \E S, E :
          /\ Snapshot(plan, S, E, C, export.opens, export.universe, export.observations)
          /\ export.build = Materialize(plan, S, E, C)
    BY <1>1, ReadableSnapshot
  <2>2. PICK S, E :
          /\ Snapshot(plan, S, E, C, export.opens, export.universe, export.observations)
          /\ export.build = Materialize(plan, S, E, C)
    BY <2>1
  <2>3. ~Refused(plan, S, E, C) /\ Dated(C) /\ Chronological(C)
    BY <2>2 DEF Snapshot, Inputs
  <2> DEFINE then == PanelThen(plan, S, E, C, export.opens, export.universe, i)
  <2>4. Contemporary(i) = then
    BY <2>2, <2>3, ContemporaryIs
  <2>5. Len(C) \in Nat /\ DOMAIN C = 1..Len(C) /\ Len(C) # 0
    BY <2>3, DatedTypes DEF Chronological
  <2>6. panel = SessionPanel(export.observations, export.universe, SubSeq(C, 1, Len(C)))
    <3>1. Slice(C, C[1].day, C[Len(C)].day) = SubSeq(C, 1, Len(C))
      <4>1. 1 \in DOMAIN C
        BY <2>5
      <4> HIDE DEF C
      <4> QED
        BY <2>3, <4>1, SliceIs
    <3> QED
      BY <3>1 DEF Panel
  <2>7. DOMAIN SubSeq(C, 1, Len(C)) = 1..Len(C) /\ \A j \in 1..Len(C) :
          SubSeq(C, 1, Len(C))[j] = C[j]
    BY <2>3, <2>5, UpTo
  <2> HIDE DEF C, panel, then
  <2>8. /\ DOMAIN panel = 1..Len(C)
        /\ \A j \in 1..Len(C) : panel[j] = [members |-> Members(export.universe, C[j]),
                                            values |-> SessionValues(export.observations, C[j])]
    BY <2>6, <2>7 DEF SessionPanel
  <2>9. i \in 1..Len(C) /\ i \in DOMAIN C
    BY <2>5, <2>8
  <2>10. DOMAIN then = 1..i
    <3>1. DOMAIN SubSeq(C, 1, i) = 1..i
      BY <2>3, <2>9, UpTo
    <3> QED
      BY <3>1 DEF then, PanelThen, SessionPanel
  <2>11. \A j \in 1..i : panel[j] = then[j]
    <3> SUFFICES ASSUME NEW j \in 1..i PROVE panel[j] = then[j]
      OBVIOUS
    <3>1. then[j] = [members |-> Members(export.universe, C[j]),
                     values |-> SessionValues(export.observations, C[j])]
      BY <2>2, <2>9, SamePanel DEF then
    <3>2. j \in 1..Len(C)
      BY <2>5, <2>9
    <3> QED
      BY <2>8, <3>1, <3>2
  <2>12. PanelUpTo(panel, then, i)
    BY <2>5, <2>8, <2>9, <2>10, <2>11 DEF PanelUpTo
  <2>13. Predictions(panel, formula, i) = Predictions(then, formula, i)
    BY <2>12, SamePredictions, FeedAssumption
  <2> QED
    BY <2>4, <2>13
<1> QED
  BY <1>1, Invariance, PTL
=============================================================================
