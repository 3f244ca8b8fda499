---------------------------- MODULE WalkForward ----------------------------
(***************************************************************************)
(* From a panel to predictions: the formulas and labels of panel.py and    *)
(* the walk-forward evaluation of numerical.py.  A prediction is modelled  *)
(* as what determines it, the rows its model was fitted to and the scores  *)
(* it was asked about, whatever the model is.                              *)
(*                                                                         *)
(* Left out: the baseline library, sector and market returns with the beta *)
(* that goes with them (further fields of the same sessions), and the      *)
(* measures that are computed from the predictions.                        *)
(*                                                                         *)
(* Operators whose names begin with Slip are wrong variants of the         *)
(* definition below them and no part of the specification.                 *)
(***************************************************************************)
EXTENDS EvidenceFeatures

CONSTANTS
    Horizon,       \* sessions between the opens of a label
    MinTrainDays, TestDays, Embargo, MinAssets, MinTrainRows  \* of WalkForwardConfig

ASSUME WalkForwardAssumption ==
    /\ {Horizon, MinTrainDays, TestDays, MinTrainRows} \subseteq Nat \ {0}
    /\ MinAssets \in Nat /\ MinAssets >= 3
    /\ Embargo \in Nat

AssetsOf(panel, i) == {x.asset : x \in panel[i].values}

\* The value of a field of the panel, None where there is none.
FieldValue(panel, field, i, a) ==
    IF \E x \in panel[i].values : x.asset = a /\ x.field = field
    THEN (CHOOSE x \in panel[i].values : x.asset = a /\ x.field = field).value
    ELSE None

\* A window is a whole number of sessions.
Formula(formula) ==
    formula.fn \in {"field", "lag", "ts_delta", "ts_mean"} /\ formula.window \in Nat

\* The sessions back at which a formula reads the feature.
Reads(formula) ==
    CASE formula.fn = "field" -> {0}
      [] formula.fn = "lag" -> {formula.window}
      [] formula.fn = "ts_delta" -> {0, formula.window}
      [] formula.fn = "ts_mean" -> 0..(formula.window - 1)

\* The score of an asset.  Fields count only while the asset is a member, and no part
\* of a window may be missing.  A mean is kept as its sum.
Score(panel, formula, i, a) ==
    LET read == [k \in Reads(formula) |->
                    IF i > k /\ a \in panel[i - k].members
                    THEN FieldValue(panel, "feature", i - k, a) ELSE None]
    IN IF a \notin panel[i].members \/ \E k \in Reads(formula) : read[k] = None THEN None
       ELSE CASE formula.fn = "ts_delta" -> read[0] - read[formula.window]
              [] OTHER -> MapThenSumSet(LAMBDA k : read[k], Reads(formula))

\* A label spans the opens of the next session and of Horizon sessions later.
EndOf(panel, t) == IF t + Horizon + 1 \in DOMAIN panel THEN t + Horizon + 1 ELSE None

\* The outcome in percent, None where it is not observed.
Label(panel, t, a) ==
    LET end == EndOf(panel, t)
        from == FieldValue(panel, "open", t + 1, a)
        to == FieldValue(panel, "open", end, a)
    IN IF end = None \/ a \notin panel[t].members THEN None
       ELSE IF from = None \/ to = None THEN None
       ELSE IF from <= 0 \/ to < 0 THEN None
       ELSE (100 * to) \div from

Labelled(panel, t) == {a \in AssetsOf(panel, t) : Label(panel, t, a) # None}

\* The rank of an outcome among those of its session, ties sharing theirs.
TargetRank(panel, t, a) ==
    LET Count(Test(_)) == Cardinality({b \in Labelled(panel, t) : Test(Label(panel, t, b))})
    IN Count(LAMBDA x : x < Label(panel, t, a)) + Count(LAMBDA x : x <= Label(panel, t, a))

Enough(rows) == IF Cardinality(rows) < MinAssets THEN {} ELSE rows

Inference(panel, formula, i) ==
    Enough({a \in AssetsOf(panel, i) : Score(panel, formula, i, a) # None})

ValidRows(panel, formula, t) ==
    Enough({a \in Inference(panel, formula, t) : Label(panel, t, a) # None})

SlipPurged(panel, t, first) == EndOf(panel, t) # None

\* A session trains a fold if its outcome was there before the fold, less the embargo.
Purged(panel, t, first) == EndOf(panel, t) # None /\ EndOf(panel, t) < first - Embargo

TrainingDays(panel, formula, first) ==
    {t \in 1..(first - 1) : Purged(panel, t, first) /\ ValidRows(panel, formula, t) # {}}

Training(panel, formula, first) ==
    UNION {{[session |-> t, score |-> Score(panel, formula, t, a), target |-> TargetRank(panel, t, a), asset |-> a] :
              a \in ValidRows(panel, formula, t)} : t \in TrainingDays(panel, formula, first)}

\* The first fold leaves room for the labels it trains on.
FirstTest == MinTrainDays + Horizon + Embargo + 2
TestStarts(panel) ==
    {i \in DOMAIN panel : i >= FirstTest /\ (i - FirstTest) % TestDays = 0}

\* The predictions of a session, by the fold it is in; a fold with too little is skipped.
Predictions(panel, formula, i) ==
    IF i < FirstTest THEN {}
    ELSE LET first == Max({j \in TestStarts(panel) : j <= i})
             training == Training(panel, formula, first)
         IN IF \/ Cardinality(training) < MinTrainRows
               \/ Cardinality(TrainingDays(panel, formula, first)) < MinTrainDays
            THEN {}
            ELSE {[asset |-> a, score |-> Score(panel, formula, i, a), training |-> training] :
                    a \in Inference(panel, formula, i)}
=============================================================================
