---------------------------- MODULE ScoringProofs ----------------------------
(***************************************************************************)
(* Proofs about the scores: how one is computed (Scoring) and how the      *)
(* tables of scores are written and read (ScoreStore).                     *)
(*                                                                         *)
(* Scoring, for any rows about an alert and any changes of them: both      *)
(* backends make the same inputs, a failed lookup that mattered is         *)
(* declared, and worse data never ranks an alert lower.  The last is the   *)
(* monotonicity of everything between the rows and the queue: each factor, *)
(* their weighted sum, the overrides, the tiers and the order of the       *)
(* queue.                                                                  *)
(*                                                                         *)
(* ScoreStore, for any requests, alerts, page size and rows to a score.    *)
(* No property of it is inductive.  StoreInv gives the types, which kinds  *)
(* of request come to a statement, and that the databases of HANA are one; *)
(* on it stand                                                             *)
(*   SaveInv   what of a save is in the connection's tables and in the     *)
(*             committed ones, statement by statement, if no other save of *)
(*             the alert met it;                                           *)
(*   GoneInv   that a request which has saved an alert, or has come so far *)
(*             in saving it, left no row of a request answered before it,  *)
(*             neither where it looks nor where a rollback would look;     *)
(*   CalmInv   that what a reader no save has disturbed has read so far is *)
(*             one save's, and still there;                                *)
(*   BatchInv  where the alerts of the pages passed are: scored, or left   *)
(*             in the page in hand.                                        *)
(***************************************************************************)
EXTENDS Scoring, ScoreStore, FiniteSetTheorems, FunctionTheorems, SequenceTheorems, TLAPS

-----------------------------------------------------------------------------
(* The rows.                                                               *)

LEMMA NoneIsNoNumber == None \notin Int
  BY ScoringAssumption

LEMMA BoundIsNumber == MaxChanges \in Nat
  BY ScoringAssumption

\* The types of the fields of the rows.
LEMMA WorldFields ==
  ASSUME NEW w \in World
  PROVE  /\ w.hours = None \/ w.hours \in Int
         /\ w.company = None \/ w.company \in [kyc : Optional({"EXPIRED", "REJECTED", "PENDING",
                                                               "VERIFIED", "other"}),
                                               restricted : Optional(BOOLEAN)]
         /\ w.profile = None \/ /\ w.profile.composite = None \/ w.profile.composite \in 0..100
                                /\ w.profile.country = None \/ w.profile.country \in 0..100
         /\ w.txn = None \/ w.txn.amount = None \/ w.txn.amount \in Nat
         /\ w.baseline = None \/ w.baseline \in Nat
         /\ w.terrorist \in BOOLEAN /\ w.sanctions \in BOOLEAN
         /\ w.cases \in Nat /\ w.parties \in Nat /\ w.owners \in Nat /\ w.countries \in Nat
         /\ w.related \in Nat /\ w.txns \in Nat
<1>1. w \in Fields(LAMBDA S : S)
  BY DEF World
<1> QED BY <1>1 DEF Fields, Optional

-----------------------------------------------------------------------------
(* Both backends.                                                          *)

\* Whatever the rows are.
LEMMA InputsAgree ==
  ASSUME NEW w
  PROVE  LocalInputs(w) = HanaInputs(w, {})
<1> DEFINE l == LocalInputs(w)
           h == HanaInputs(w, {})
<1>1. l.row = h.row /\ l.baseline = h.baseline /\ l.sanctions = h.sanctions /\ l.terrorist = h.terrorist
  BY DEF LocalInputs, HanaInputs
<1>2. l.restricted = h.restricted
  BY DEF LocalInputs, HanaInputs, IsTrue
<1>3. l.prior = h.prior
  BY DEF LocalInputs, HanaInputs
<1>4. l.unresolved = h.unresolved
  BY DEF LocalInputs, HanaInputs
<1>5. /\ l = [row |-> l.row, baseline |-> l.baseline, sanctions |-> l.sanctions,
              terrorist |-> l.terrorist, restricted |-> l.restricted, prior |-> l.prior,
              unresolved |-> l.unresolved]
      /\ h = [row |-> h.row, baseline |-> h.baseline, sanctions |-> h.sanctions,
              terrorist |-> h.terrorist, restricted |-> h.restricted, prior |-> h.prior,
              unresolved |-> h.unresolved]
  BY DEF LocalInputs, HanaInputs
<1> HIDE DEF l, h
<1>6. l = h
  BY <1>1, <1>2, <1>3, <1>4, <1>5
<1> QED BY <1>6 DEF l, h

\* Both backends make the same inputs of the same rows, but for the KYC of a company that
\* is not there.
THEOREM SameInputs == Spec => []BackendsAgree
<1>1. BackendsAgree
  <2>1. LocalInputs(world) = HanaInputs(world, {})
    BY InputsAgree
  <2>2. world.company # None => LocalComplexity(world) = HanaComplexity(world, {})
    BY DEF LocalComplexity, HanaComplexity, Column
  <2> QED BY <2>1, <2>2 DEF BackendsAgree
<1> QED BY <1>1, PTL

\* When every lookup worked the backend makes no difference to the inputs.
LEMMA CleanInputs ==
  ASSUME NEW b, NEW w
  PROVE  Inputs(b, w, {}) = LocalInputs(w)
  BY InputsAgree DEF Inputs

-----------------------------------------------------------------------------
(* The factors.                                                            *)

\* The least element of a set of integers is the one CHOOSE finds.
LEMMA LeastIs ==
  ASSUME NEW S \in SUBSET Int, NEW k \in S, \A j \in S : k <= j
  PROVE  (CHOOSE i \in S : \A j \in S : i <= j) = k
<1> DEFINE c == CHOOSE i \in S : \A j \in S : i <= j
<1>1. c \in S /\ \A j \in S : c <= j
  OBVIOUS
<1> HIDE DEF c
<1>2. c \in Int /\ k \in Int /\ c <= k /\ k <= c
  BY <1>1
<1>3. c = k
  BY <1>2
<1> QED BY <1>3 DEF c

\* The k-th point of a curve is the first whose limit the value does not pass.
IsFirst(k, value, unit, curve) ==
  /\ k \in DOMAIN curve.points
  /\ value <= curve.points[k][1] * unit
  /\ \A j \in DOMAIN curve.points : value <= curve.points[j][1] * unit => k <= j

\* Its score is what the curve gives.
LEMMA PointIs ==
  ASSUME NEW value, NEW unit, NEW curve, DOMAIN curve.points \subseteq Int,
         NEW k, IsFirst(k, value, unit, curve)
  PROVE  Piecewise(value, unit, curve) = curve.points[k][2]
<1> DEFINE hits == {i \in DOMAIN curve.points : value <= curve.points[i][1] * unit}
<1>1. hits \in SUBSET Int /\ k \in hits /\ \A j \in hits : k <= j
  BY DEF IsFirst
<1>2. (CHOOSE i \in hits : \A j \in hits : i <= j) = k
  BY <1>1, LeastIs
<1>3. Piecewise(value, unit, curve)
        = IF hits = {} THEN curve.above
          ELSE curve.points[CHOOSE i \in hits : \A j \in hits : i <= j][2]
  BY DEF Piecewise
<1> HIDE DEF hits
<1> QED BY <1>1, <1>2, <1>3

\* Beyond the last point.
LEMMA AboveIs ==
  ASSUME NEW value, NEW unit, NEW curve,
         \A j \in DOMAIN curve.points : ~(value <= curve.points[j][1] * unit)
  PROVE  Piecewise(value, unit, curve) = curve.above
  BY DEF Piecewise

LEMMA HoursScoreIs ==
  ASSUME NEW h \in Int
  PROVE  HoursScore(h) = IF h <= -1 THEN 100 ELSE IF h <= 24 THEN 90
                         ELSE IF h <= 72 THEN 70 ELSE IF h <= 168 THEN 45 ELSE 20
<1>1. /\ DOMAIN HoursCurve.points = 1..4 /\ HoursCurve.above = 20
      /\ HoursCurve.points[1][1] = -1 /\ HoursCurve.points[1][2] = 100 /\ HoursCurve.points[2][1] = 24 /\ HoursCurve.points[2][2] = 90
      /\ HoursCurve.points[3][1] = 72 /\ HoursCurve.points[3][2] = 70 /\ HoursCurve.points[4][1] = 168 /\ HoursCurve.points[4][2] = 45
  BY DEF HoursCurve
<1>0. DOMAIN HoursCurve.points \subseteq Int
  BY <1>1
<1>2. HoursScore(h) = Piecewise(h, 1, HoursCurve)
  BY NoneIsNoNumber DEF HoursScore
<1>3. \A j \in 1..4 : h <= HoursCurve.points[j][1] * 1 <=>
                      h <= (IF j = 1 THEN -1 ELSE IF j = 2 THEN 24 ELSE IF j = 3 THEN 72 ELSE 168)
  BY <1>1
<1>4. CASE h <= -1
  <2>1. IsFirst(1, h, 1, HoursCurve)
    BY <1>1, <1>3, <1>4 DEF IsFirst
  <2>2. Piecewise(h, 1, HoursCurve) = HoursCurve.points[1][2]
    BY <1>0, <2>1, PointIs
  <2> QED BY <1>1, <1>2, <1>4, <2>2
<1>5. CASE h > -1 /\ h <= 24
  <2>1. IsFirst(2, h, 1, HoursCurve)
    BY <1>1, <1>3, <1>5 DEF IsFirst
  <2>2. Piecewise(h, 1, HoursCurve) = HoursCurve.points[2][2]
    BY <1>0, <2>1, PointIs
  <2> QED BY <1>1, <1>2, <1>5, <2>2
<1>6. CASE h > 24 /\ h <= 72
  <2>1. IsFirst(3, h, 1, HoursCurve)
    BY <1>1, <1>3, <1>6 DEF IsFirst
  <2>2. Piecewise(h, 1, HoursCurve) = HoursCurve.points[3][2]
    BY <1>0, <2>1, PointIs
  <2> QED BY <1>1, <1>2, <1>6, <2>2
<1>7. CASE h > 72 /\ h <= 168
  <2>1. IsFirst(4, h, 1, HoursCurve)
    BY <1>1, <1>3, <1>7 DEF IsFirst
  <2>2. Piecewise(h, 1, HoursCurve) = HoursCurve.points[4][2]
    BY <1>0, <2>1, PointIs
  <2> QED BY <1>1, <1>2, <1>7, <2>2
<1>8. CASE h > 168
  <2>1. Piecewise(h, 1, HoursCurve) = HoursCurve.above
    BY <1>1, <1>3, <1>8, AboveIs
  <2> QED BY <1>1, <1>2, <1>8, <2>1
<1> QED BY <1>4, <1>5, <1>6, <1>7, <1>8

LEMMA RatioScoreIs ==
  ASSUME NEW a \in Nat, NEW u \in Nat \ {0}
  PROVE  RatioScore(a, u) = IF a <= u THEN 15 ELSE IF a <= 3 * u THEN 45
                            ELSE IF a <= 8 * u THEN 75 ELSE 100
<1>1. /\ DOMAIN RatioCurve.points = 1..3 /\ RatioCurve.above = 100
      /\ RatioCurve.points[1][1] = 1 /\ RatioCurve.points[1][2] = 15
      /\ RatioCurve.points[2][1] = 3 /\ RatioCurve.points[2][2] = 45
      /\ RatioCurve.points[3][1] = 8 /\ RatioCurve.points[3][2] = 75
  BY DEF RatioCurve
<1>0. DOMAIN RatioCurve.points \subseteq Int
  BY <1>1
<1>2. RatioScore(a, u) = Piecewise(a, u, RatioCurve)
  BY NoneIsNoNumber DEF RatioScore
<1>3. \A j \in 1..3 : a <= RatioCurve.points[j][1] * u <=>
                      a <= (IF j = 1 THEN u ELSE IF j = 2 THEN 3 * u ELSE 8 * u)
  BY <1>1
<1>4. CASE a <= u
  <2>1. IsFirst(1, a, u, RatioCurve)
    BY <1>1, <1>3, <1>4 DEF IsFirst
  <2>2. Piecewise(a, u, RatioCurve) = RatioCurve.points[1][2]
    BY <1>0, <2>1, PointIs
  <2> QED BY <1>1, <1>2, <1>4, <2>2
<1>5. CASE a > u /\ a <= 3 * u
  <2>1. IsFirst(2, a, u, RatioCurve)
    BY <1>1, <1>3, <1>5 DEF IsFirst
  <2>2. Piecewise(a, u, RatioCurve) = RatioCurve.points[2][2]
    BY <1>0, <2>1, PointIs
  <2> QED BY <1>1, <1>2, <1>5, <2>2
<1>6. CASE a > 3 * u /\ a <= 8 * u
  <2>1. IsFirst(3, a, u, RatioCurve)
    BY <1>1, <1>3, <1>6 DEF IsFirst
  <2>2. Piecewise(a, u, RatioCurve) = RatioCurve.points[3][2]
    BY <1>0, <2>1, PointIs
  <2> QED BY <1>1, <1>2, <1>6, <2>2
<1>7. CASE a > 8 * u
  <2>1. Piecewise(a, u, RatioCurve) = RatioCurve.above
    BY <1>1, <1>3, <1>7, AboveIs
  <2> QED BY <1>1, <1>2, <1>7, <2>1
<1> QED BY <1>4, <1>5, <1>6, <1>7

\* Less time left never scores less, ...
LEMMA HoursMonotone ==
  ASSUME NEW h \in Int \cup {None}, NEW k \in Int \cup {None}, AtMost(k, h)
  PROVE  HoursScore(h) \in 0..100 /\ HoursScore(k) \in 0..100 /\ HoursScore(h) <= HoursScore(k)
<1>1. CASE h = None
  BY <1>1 DEF AtMost, HoursScore, Default
<1>2. CASE h # None
  <2>1. h \in Int /\ k \in Int /\ k <= h
    BY <1>2 DEF AtMost
  <2> QED BY <2>1, HoursScoreIs
<1> QED BY <1>1, <1>2

\* ... nor does a larger amount against the same baseline.
LEMMA RatioMonotone ==
  ASSUME NEW a \in Nat \cup {None}, NEW b \in Nat \cup {None}, NEW u \in Nat \cup {None},
         AtMost(a, b)
  PROVE  RatioScore(a, u) \in 0..100 /\ RatioScore(b, u) \in 0..100
         /\ RatioScore(a, u) <= RatioScore(b, u)
<1>1. CASE a = None \/ u \in {None, 0}
  BY <1>1 DEF AtMost, RatioScore, Default
<1>2. CASE a # None /\ u \notin {None, 0}
  <2>1. a \in Nat /\ b \in Nat /\ a <= b /\ u \in Nat \ {0}
    BY <1>2 DEF AtMost
  <2> QED BY <2>1, RatioScoreIs
<1> QED BY <1>1, <1>2

\* A worse value on one of the scales of the policy never scores less.
LEMMA ScaleMonotone ==
  ASSUME NEW scale, NEW d \in Nat, \A x \in DOMAIN scale : scale[x] \in Nat,
         NEW a, NEW b, Worse(scale, a, b)
  PROVE  (IF a \in DOMAIN scale THEN scale[a] ELSE d)
         <= (IF b \in DOMAIN scale THEN scale[b] ELSE d)
  BY DEF Worse

-----------------------------------------------------------------------------
(* Two rows of which the second is the riskier.                            *)

LEMMA RiskierTypology ==
  ASSUME NEW v \in World, NEW w \in World, Riskier(v, w)
  PROVE  Typology(LocalInputs(v)) <= Typology(LocalInputs(w))
<1>1. Worse(PriorityScore, v.priority, w.priority)
  BY DEF Riskier
<1>2. \A x \in DOMAIN PriorityScore : PriorityScore[x] \in Nat
  BY DEF PriorityScore
<1>3. Default.typology \in Nat
  BY DEF Default
<1> QED BY <1>1, <1>2, <1>3, ScaleMonotone DEF Typology, LocalInputs, Joined

LEMMA RiskierEntity ==
  ASSUME NEW v \in World, NEW w \in World, Riskier(v, w)
  PROVE  EntityRisk(LocalInputs(v)) <= EntityRisk(LocalInputs(w))
<1> DEFINE bonus(k) == IF k \in DOMAIN KycPenalty THEN KycPenalty[k] ELSE 0
           a == Column(v.profile, "composite")
           b == Column(w.profile, "composite")
           p == bonus(Column(v.company, "kyc"))
           q == bonus(Column(w.company, "kyc"))
<1>1. \A x \in DOMAIN KycPenalty : KycPenalty[x] \in Nat
  BY DEF KycPenalty
<1>2. Worse(KycPenalty, Column(v.company, "kyc"), Column(w.company, "kyc"))
  BY DEF Riskier, SameRows, Column, Worse
<1>3. p <= q
  BY <1>1, <1>2, ScaleMonotone
<1>4. p \in Nat /\ q \in Nat
  BY <1>1
<1>5. AtMost(a, b)
  BY DEF Riskier, SameRows, Column, AtMost
<1>6. (a = None \/ a \in 0..100) /\ (b = None \/ b \in 0..100)
  BY WorldFields DEF Column
<1>7. /\ EntityRisk(LocalInputs(v)) = IF a = None THEN Default.entity ELSE Smaller(100, a + p)
      /\ EntityRisk(LocalInputs(w)) = IF b = None THEN Default.entity ELSE Smaller(100, b + q)
  BY DEF EntityRisk, LocalInputs, Joined
<1>8. Default.entity \in Nat
  BY DEF Default
<1> HIDE DEF a, b, p, q
<1> QED BY <1>3, <1>4, <1>5, <1>6, <1>7, <1>8 DEF AtMost, Smaller

LEMMA RiskierJurisdiction ==
  ASSUME NEW v \in World, NEW w \in World, Riskier(v, w)
  PROVE  Jurisdiction(LocalInputs(v)) <= Jurisdiction(LocalInputs(w))
<1> DEFINE floor(t) == IF t \in DOMAIN TierFloor THEN TierFloor[t] ELSE 0
           bonus(r) == IF IsTrue(Column(r.txn, "cross")) THEN CrossBorderBonus ELSE 0
           s == Column(v.profile, "tier")
           t == Column(w.profile, "tier")
           a == Column(v.profile, "country")
           b == Column(w.profile, "country")
           f == floor(s)
           g == floor(t)
           p == bonus(v)
           q == bonus(w)
<1>1. \A x \in DOMAIN TierFloor : TierFloor[x] \in Nat
  BY DEF TierFloor
<1>2. Worse(TierFloor, s, t)
  BY DEF Riskier, SameRows, Column, Worse
<1>3. f <= g /\ f \in Nat /\ g \in Nat
  BY <1>1, <1>2, ScaleMonotone
<1>4. p \in {0, 10} /\ q \in {0, 10} /\ p <= q
  BY DEF Riskier, SameRows, Column, IsTrue, CrossBorderBonus
<1>5. AtMost(a, b)
  BY DEF Riskier, SameRows, Column, AtMost
<1>6. (a = None \/ a \in 0..100) /\ (b = None \/ b \in 0..100)
  BY WorldFields DEF Column
<1>7. s = None <=> t = None
  BY <1>2, NamesAssumption DEF Worse
<1>8. a = None <=> b = None
  BY <1>5 DEF AtMost
<1>9. /\ Jurisdiction(LocalInputs(v)) = IF a = None /\ s = None THEN Default.jurisdiction
           ELSE Smaller(100, Larger(IF a = None THEN 0 ELSE a, f) + p)
      /\ Jurisdiction(LocalInputs(w)) = IF b = None /\ t = None THEN Default.jurisdiction
           ELSE Smaller(100, Larger(IF b = None THEN 0 ELSE b, g) + q)
  BY DEF Jurisdiction, LocalInputs, Joined
<1>10. Default.jurisdiction \in Nat
  BY DEF Default
<1> HIDE DEF a, b, f, g, p, q, s, t
<1> QED BY <1>3, <1>4, <1>5, <1>6, <1>7, <1>8, <1>9, <1>10 DEF AtMost, Smaller, Larger

LEMMA RiskierSla ==
  ASSUME NEW v \in World, NEW w \in World, Riskier(v, w)
  PROVE  SlaProximity(LocalInputs(v)) <= SlaProximity(LocalInputs(w))
<1>1. v.hours \in Int \cup {None} /\ w.hours \in Int \cup {None} /\ AtMost(w.hours, v.hours)
  BY WorldFields DEF Riskier
<1>2. HoursScore(v.hours) <= HoursScore(w.hours)
  BY <1>1, HoursMonotone
<1> QED BY <1>2 DEF SlaProximity, LocalInputs, Joined

LEMMA RiskierMateriality ==
  ASSUME NEW v \in World, NEW w \in World, Riskier(v, w)
  PROVE  Materiality(LocalInputs(v)) <= Materiality(LocalInputs(w))
<1> DEFINE a == Column(v.txn, "amount")
           b == Column(w.txn, "amount")
<1>1. a \in Nat \cup {None} /\ b \in Nat \cup {None}
  BY WorldFields DEF Column
<1>2. AtMost(a, b)
  BY DEF Riskier, SameRows, Column, AtMost
<1>3. v.baseline \in Nat \cup {None} /\ w.baseline = v.baseline
  BY WorldFields DEF Riskier
<1>4. RatioScore(a, v.baseline) <= RatioScore(b, w.baseline)
  <2> HIDE DEF a, b
  <2> QED BY <1>1, <1>2, <1>3, RatioMonotone
<1>5. /\ Materiality(LocalInputs(v)) = RatioScore(a, v.baseline)
      /\ Materiality(LocalInputs(w)) = RatioScore(b, w.baseline)
  BY DEF Materiality, LocalInputs, Joined
<1> QED BY <1>4, <1>5

\* Each factor is a number of points out of a hundred.
LEMMA FactorTypes ==
  ASSUME NEW w \in World, NEW l, l.row = Joined(w), l.baseline \in {w.baseline, None}
  PROVE  /\ Typology(l) \in 0..100 /\ EntityRisk(l) \in 0..100 /\ Jurisdiction(l) \in 0..100
         /\ SlaProximity(l) \in 0..100 /\ Materiality(l) \in 0..100
<1>1. Typology(l) \in 0..100
  BY DEF Typology, PriorityScore, Default
<1>2. EntityRisk(l) \in 0..100
  <2> DEFINE a == l.row.composite
  <2>1. a = None \/ a \in 0..100
    BY WorldFields DEF Joined, Column
  <2> HIDE DEF a
  <2> QED BY <2>1 DEF a, EntityRisk, KycPenalty, Default, Smaller
<1>3. Jurisdiction(l) \in 0..100
  <2> DEFINE a == l.row.country
  <2>1. a = None \/ a \in 0..100
    BY WorldFields DEF Joined, Column
  <2> HIDE DEF a
  <2> QED BY <2>1 DEF a, Jurisdiction, TierFloor, Default, CrossBorderBonus, Smaller, Larger
<1>4. SlaProximity(l) \in 0..100
  <2>1. w.hours \in Int \cup {None} /\ AtMost(w.hours, w.hours)
    BY WorldFields DEF AtMost
  <2>2. HoursScore(w.hours) \in 0..100
    BY <2>1, HoursMonotone
  <2> QED BY <2>2 DEF SlaProximity, Joined
<1>5. Materiality(l) \in 0..100
  <2> DEFINE a == l.row.amount
             u == l.baseline
  <2>1. a \in Nat \cup {None} /\ u \in Nat \cup {None} /\ AtMost(a, a)
    BY WorldFields DEF Joined, Column, AtMost
  <2> HIDE DEF a, u
  <2>2. RatioScore(a, u) \in 0..100
    BY <2>1, RatioMonotone
  <2> QED BY <2>2 DEF a, u, Materiality
<1> QED BY <1>1, <1>2, <1>3, <1>4, <1>5

LEMMA RiskierUrgency ==
  ASSUME NEW v \in World, NEW w \in World, Riskier(v, w)
  PROVE  /\ Urgency(LocalInputs(v)) <= Urgency(LocalInputs(w))
         /\ Urgency(LocalInputs(v)) \in 0..10000 /\ Urgency(LocalInputs(w)) \in 0..10000
<1> DEFINE l == LocalInputs(v)
           m == LocalInputs(w)
<1>1. /\ Typology(l) <= Typology(m) /\ EntityRisk(l) <= EntityRisk(m)
      /\ Jurisdiction(l) <= Jurisdiction(m) /\ SlaProximity(l) <= SlaProximity(m)
      /\ Materiality(l) <= Materiality(m)
  BY RiskierTypology, RiskierEntity, RiskierJurisdiction, RiskierSla, RiskierMateriality
<1>2. /\ Typology(l) \in 0..100 /\ EntityRisk(l) \in 0..100 /\ Jurisdiction(l) \in 0..100
      /\ SlaProximity(l) \in 0..100 /\ Materiality(l) \in 0..100
  BY FactorTypes DEF LocalInputs
<1>3. /\ Typology(m) \in 0..100 /\ EntityRisk(m) \in 0..100 /\ Jurisdiction(m) \in 0..100
      /\ SlaProximity(m) \in 0..100 /\ Materiality(m) \in 0..100
  BY FactorTypes DEF LocalInputs
<1>4. /\ Urgency(l) = 25 * Typology(l) + 20 * EntityRisk(l) + 20 * Jurisdiction(l)
                      + 20 * SlaProximity(l) + 15 * Materiality(l)
      /\ Urgency(m) = 25 * Typology(m) + 20 * EntityRisk(m) + 20 * Jurisdiction(m)
                      + 20 * SlaProximity(m) + 15 * Materiality(m)
  BY SMTT(30) DEF Urgency, Weight
<1> HIDE DEF l, m
<1>5. Urgency(l) <= Urgency(m) /\ Urgency(l) \in 0..10000 /\ Urgency(m) \in 0..10000
  <2>1. PICK a, b, c, d, e : /\ a = Typology(l) /\ b = EntityRisk(l) /\ c = Jurisdiction(l)
                             /\ d = SlaProximity(l) /\ e = Materiality(l)
    OBVIOUS
  <2>2. PICK f, g, h, i, j : /\ f = Typology(m) /\ g = EntityRisk(m) /\ h = Jurisdiction(m)
                             /\ i = SlaProximity(m) /\ j = Materiality(m)
    OBVIOUS
  <2>3. /\ a \in 0..100 /\ b \in 0..100 /\ c \in 0..100 /\ d \in 0..100 /\ e \in 0..100
        /\ f \in 0..100 /\ g \in 0..100 /\ h \in 0..100 /\ i \in 0..100 /\ j \in 0..100
        /\ a <= f /\ b <= g /\ c <= h /\ d <= i /\ e <= j
    BY <1>1, <1>2, <1>3, <2>1, <2>2
  <2>4. /\ Urgency(l) = 25 * a + 20 * b + 20 * c + 20 * d + 15 * e
        /\ Urgency(m) = 25 * f + 20 * g + 20 * h + 20 * i + 15 * j
    BY <1>4, <2>1, <2>2
  <2> QED BY <2>3, <2>4
<1> QED BY <1>5 DEF l, m

\* Every override the first triggers the second does too.
LEMMA RiskierTriggers ==
  ASSUME NEW v \in World, NEW w \in World, Riskier(v, w)
  PROVE  Triggered(LocalInputs(v)) \subseteq Triggered(LocalInputs(w))
<1> DEFINE l == LocalInputs(v)
           m == LocalInputs(w)
<1>1. IsTrue(l.sanctions) => IsTrue(m.sanctions)
  BY WorldFields DEF Riskier, LocalInputs, IsTrue
<1>2. l.terrorist => m.terrorist
  BY DEF Riskier, LocalInputs
<1>3. l.row.hours # None /\ l.row.hours <= 4 => m.row.hours # None /\ m.row.hours <= 4
  <2>1. /\ v.hours \in Int \cup {None} /\ w.hours \in Int \cup {None}
        /\ AtMost(w.hours, v.hours)
    BY WorldFields DEF Riskier
  <2>2. l.row.hours = v.hours /\ m.row.hours = w.hours
    BY DEF LocalInputs, Joined
  <2> QED BY <2>1, <2>2 DEF AtMost
<1>4. l.restricted => m.restricted
  BY DEF Riskier, SameRows, LocalInputs, Column, IsTrue
<1>5. l.prior => m.prior
  <2>1. v.cases \in Nat /\ w.cases \in Nat
    BY WorldFields
  <2>2. v.cases <= w.cases
    BY DEF Riskier
  <2>3. v.cases > 0 => w.cases > 0
    BY <2>1, <2>2
  <2> QED BY <2>3 DEF LocalInputs
<1> HIDE DEF l, m
<1>6. Triggered(l) \subseteq Triggered(m)
  BY <1>1, <1>2, <1>3, <1>4, <1>5 DEF Triggered, OverrideOrder
<1> QED BY <1>6 DEF l, m

\* What the engine's overrides amount to.
LEMMA OverrideIs ==
  ASSUME NEW in
  PROVE  /\ Override(in) = None <=> Triggered(in) = {}
         /\ Triggered(in) # {} =>
              ForcedTier[Override(in)]
                = IF Triggered(in) = {"REPEAT_ESCALATED_ALERT"} THEN "HIGH" ELSE "CRITICAL"
<1> DEFINE T == Triggered(in)
<1>1. T \in SUBSET DOMAIN OverrideOrder
  BY DEF Triggered
<1>2. None \notin T
  BY <1>1, NamesAssumption
<1>3. \A S \in SUBSET DOMAIN OverrideOrder :
        S # {} => \E o \in S : \A p \in S : OverrideOrder[o] <= OverrideOrder[p]
  BY DEF OverrideOrder
<1>5. T # {} => Override(in) \in T /\ \A p \in T : OverrideOrder[Override(in)] <= OverrideOrder[p]
  BY <1>1, <1>3 DEF Override
<1>6. T = {} => Override(in) = None
  BY DEF Override
<1> HIDE DEF T
<1>7. T # {} => ForcedTier[Override(in)]
                  = IF T = {"REPEAT_ESCALATED_ALERT"} THEN "HIGH" ELSE "CRITICAL"
  <2>1. SUFFICES ASSUME T # {}
                 PROVE  ForcedTier[Override(in)]
                          = IF T = {"REPEAT_ESCALATED_ALERT"} THEN "HIGH" ELSE "CRITICAL"
    OBVIOUS
  <2> DEFINE o == Override(in)
  <2>2. o \in T /\ \A p \in T : OverrideOrder[o] <= OverrideOrder[p]
    BY <1>5, <2>1
  <2> HIDE DEF o
  <2>3. o = "REPEAT_ESCALATED_ALERT" <=> T = {"REPEAT_ESCALATED_ALERT"}
    <3>1. /\ OverrideOrder["REPEAT_ESCALATED_ALERT"] = 5
          /\ \A p \in DOMAIN OverrideOrder \ {"REPEAT_ESCALATED_ALERT"} :
               OverrideOrder[p] \in Int /\ OverrideOrder[p] < 5
      BY DEF OverrideOrder
    <3> QED BY <1>1, <2>2, <3>1
  <2>4. ForcedTier[o] = IF o = "REPEAT_ESCALATED_ALERT" THEN "HIGH" ELSE "CRITICAL"
    BY <1>1, <2>2 DEF ForcedTier
  <2> QED BY <2>3, <2>4 DEF o
<1> QED BY <1>2, <1>5, <1>6, <1>7 DEF T

LEMMA TimesMonotone ==
  ASSUME NEW a \in Nat, NEW b \in Nat, NEW c \in Nat, NEW d \in Nat, a <= c, b <= d
  PROVE  a * b \in Nat /\ c * d \in Nat /\ a * b <= c * d
<1>1. PICK x \in Nat, y \in Nat : c = a + x /\ d = b + y
  <2>1. c - a \in Nat /\ d - b \in Nat /\ c = a + (c - a) /\ d = b + (d - b)
    OBVIOUS
  <2> QED BY <2>1
<1>2. c * d = a * b + a * y + x * b + x * y
  BY <1>1
<1>3. a * b \in Nat /\ a * y \in Nat /\ x * b \in Nat /\ x * y \in Nat /\ c * d \in Nat
  BY <1>1
<1> HIDE <1>1
<1> QED BY <1>2, <1>3

\* The counts the heuristic multiplies by.
LEMMA RiskierCounts ==
  ASSUME NEW v \in World, NEW w \in World, Riskier(v, w), NEW b
  PROVE  LET c == Complexity(b, v, {})
             d == Complexity(b, w, {})
         IN  /\ c.entities \in Nat /\ d.entities \in Nat /\ c.entities <= d.entities
             /\ c.countries \in Nat /\ d.countries \in Nat /\ c.countries <= d.countries
             /\ c.missingKyc \in Nat /\ d.missingKyc \in Nat /\ c.missingKyc <= d.missingKyc
             /\ c.related \in Nat /\ d.related \in Nat /\ c.related <= d.related
<1> DEFINE c == Complexity(b, v, {})
           d == Complexity(b, w, {})
<1>1. /\ v.parties \in Nat /\ v.owners \in Nat /\ v.countries \in Nat /\ v.related \in Nat
      /\ w.parties \in Nat /\ w.owners \in Nat /\ w.countries \in Nat /\ w.related \in Nat
  BY WorldFields
<1>2. /\ v.parties <= w.parties /\ v.owners <= w.owners /\ v.countries <= w.countries
      /\ v.related <= w.related /\ (v.txn = None <=> w.txn = None)
      /\ (v.company = None <=> w.company = None)
      /\ v.company # None => Worse(KycPenalty, v.company.kyc, w.company.kyc)
  BY DEF Riskier, SameRows
<1>3. /\ c.entities = (IF v.txn = None THEN 1 ELSE v.parties) + v.owners
      /\ d.entities = (IF w.txn = None THEN 1 ELSE w.parties) + w.owners
      /\ c.countries = (IF v.txn = None THEN 0 ELSE v.countries)
      /\ d.countries = (IF w.txn = None THEN 0 ELSE w.countries)
      /\ c.related = v.related /\ d.related = w.related
  BY DEF Complexity, LocalComplexity, HanaComplexity
<1>4. c.missingKyc \in {0, 1} /\ d.missingKyc \in {0, 1}
  BY DEF Complexity, LocalComplexity, HanaComplexity
<1>5. c.missingKyc = 1 => d.missingKyc = 1
  <2>1. v.company # None /\ w.company # None /\ v.company.kyc # "VERIFIED"
          => w.company.kyc # "VERIFIED"
    BY <1>2 DEF Worse, KycPenalty
  <2> QED BY <1>2, <2>1 DEF Complexity, LocalComplexity, HanaComplexity, Column
<1> HIDE DEF c, d
<1>6. /\ c.entities \in Nat /\ d.entities \in Nat /\ c.entities <= d.entities
      /\ c.countries \in Nat /\ d.countries \in Nat /\ c.countries <= d.countries
      /\ c.related \in Nat /\ d.related \in Nat /\ c.related <= d.related
  BY <1>1, <1>2, <1>3
<1> QED BY <1>4, <1>5, <1>6 DEF c, d

\* Riskier rows are expected to take at least as long.
LEMMA RiskierExpected ==
  ASSUME NEW v \in World, NEW w \in World, Riskier(v, w), NEW b
  PROVE  LET l == ExpectedHours(LocalInputs(v), Complexity(b, v, {}))
             m == ExpectedHours(LocalInputs(w), Complexity(b, w, {}))
         IN  l \in Nat /\ m \in Nat /\ l <= m
<1> DEFINE mult(p) == IF p \in DOMAIN PriorityMultiplier THEN PriorityMultiplier[p] ELSE 10
           risk(a) == 200 + (IF a = None THEN 50 ELSE a)
           total(x) == 100 + 8 * (x.entities + x.countries + x.missingKyc + x.related)
           c == Complexity(b, v, {})
           d == Complexity(b, w, {})
           r == Column(v.profile, "composite")
           s == Column(w.profile, "composite")
           m1 == mult(v.priority)
           m2 == mult(w.priority)
           r1 == risk(r)
           r2 == risk(s)
           t1 == total(c)
           t2 == total(d)
<1>1. m1 \in Nat /\ m2 \in Nat /\ m1 <= m2
  <2>1. Worse(PriorityScore, v.priority, w.priority)
    BY DEF Riskier
  <2> QED BY <2>1 DEF Worse, PriorityScore, PriorityMultiplier
<1>2. r1 \in Nat /\ r2 \in Nat /\ r1 <= r2
  <2>1. AtMost(r, s)
    BY DEF Riskier, SameRows, Column, AtMost
  <2>2. (r = None \/ r \in 0..100) /\ (s = None \/ s \in 0..100)
    BY WorldFields DEF Column
  <2> HIDE DEF r, s
  <2> QED BY <2>1, <2>2 DEF AtMost
<1>3. t1 \in Nat /\ t2 \in Nat /\ t1 <= t2
  <2>1. /\ c.entities \in Nat /\ d.entities \in Nat /\ c.entities <= d.entities
        /\ c.countries \in Nat /\ d.countries \in Nat /\ c.countries <= d.countries
        /\ c.missingKyc \in Nat /\ d.missingKyc \in Nat /\ c.missingKyc <= d.missingKyc
        /\ c.related \in Nat /\ d.related \in Nat /\ c.related <= d.related
    BY RiskierCounts
  <2> HIDE DEF c, d
  <2> QED BY <2>1
<1>4. /\ ExpectedHours(LocalInputs(v), c) = m1 * r1 * t1
      /\ ExpectedHours(LocalInputs(w), d) = m2 * r2 * t2
  BY DEF ExpectedHours, LocalInputs, Joined
<1> HIDE DEF m1, m2, r1, r2, t1, t2
<1>5. m1 * r1 \in Nat /\ m2 * r2 \in Nat /\ m1 * r1 <= m2 * r2
  BY <1>1, <1>2, TimesMonotone
<1>6. m1 * r1 * t1 \in Nat /\ m2 * r2 * t2 \in Nat /\ m1 * r1 * t1 <= m2 * r2 * t2
  BY <1>3, <1>5, TimesMonotone
<1> HIDE DEF c, d
<1>7. /\ ExpectedHours(LocalInputs(v), c) \in Nat /\ ExpectedHours(LocalInputs(w), d) \in Nat
      /\ ExpectedHours(LocalInputs(v), c) <= ExpectedHours(LocalInputs(w), d)
  BY <1>4, <1>6
<1> QED BY <1>7 DEF c, d

LEMMA RiskierMargin ==
  ASSUME NEW v \in World, NEW w \in World, Riskier(v, w), NEW b
  PROVE  AtMost(Margin(LocalInputs(w), Complexity(b, w, {})),
                Margin(LocalInputs(v), Complexity(b, v, {})))
<1> DEFINE l == ExpectedHours(LocalInputs(v), Complexity(b, v, {}))
           m == ExpectedHours(LocalInputs(w), Complexity(b, w, {}))
           mv == Margin(LocalInputs(v), Complexity(b, v, {}))
           mw == Margin(LocalInputs(w), Complexity(b, w, {}))
<1>1. l \in Nat /\ m \in Nat /\ l <= m
  BY RiskierExpected
<1>2. /\ mv = IF v.hours = None THEN None ELSE 500 * v.hours - l
      /\ mw = IF w.hours = None THEN None ELSE 500 * w.hours - m
  BY DEF Margin, LocalInputs, Joined
<1>3. v.hours \in Int \cup {None} /\ w.hours \in Int \cup {None} /\ AtMost(w.hours, v.hours)
  BY WorldFields DEF Riskier
<1> HIDE DEF l, m, mv, mw
<1>4. AtMost(mw, mv)
  <2>1. CASE v.hours = None
    BY <1>2, <1>3, <2>1 DEF AtMost
  <2>2. CASE v.hours # None
    <3>1. v.hours \in Int /\ w.hours \in Int /\ w.hours <= v.hours /\ w.hours # None
      BY <1>3, <2>2 DEF AtMost
    <3>2. mv = 500 * v.hours - l /\ mw = 500 * w.hours - m
      BY <1>2, <2>2, <3>1
    <3>3. mv \in Int /\ mw \in Int /\ mw <= mv
      BY <1>1, <3>1, <3>2
    <3> QED BY <3>3, NoneIsNoNumber DEF AtMost
  <2> QED BY <2>1, <2>2
<1> QED BY <1>4 DEF mv, mw

-----------------------------------------------------------------------------
(* The queue.                                                              *)

\* A score no smaller is in a tier no lower.
LEMMA TierMonotone ==
  ASSUME NEW s \in Int, NEW t \in Int, s <= t
  PROVE  /\ TierOf(s) \in DOMAIN TierRank /\ TierOf(t) \in DOMAIN TierRank
         /\ TierRank[TierOf(t)] <= TierRank[TierOf(s)]
<1>1. TierMinimum.CRITICAL = 85 /\ TierMinimum.HIGH = 65 /\ TierMinimum.MEDIUM = 40
  BY DEF TierMinimum
<1>2. /\ TierRank["CRITICAL"] = 0 /\ TierRank["HIGH"] = 1 /\ TierRank["MEDIUM"] = 2
      /\ TierRank["LOW"] = 3 /\ DOMAIN TierRank = {"CRITICAL", "HIGH", "MEDIUM", "LOW"}
  BY DEF TierRank
<1> QED BY <1>1, <1>2 DEF TierOf

\* What ScoreAlert and Assess put together.
LEMMA AssessIs ==
  ASSUME NEW b, NEW w \in World
  PROVE  LET a == Assess(b, w, {})
             in == LocalInputs(w)
         IN  /\ a.from = w
             /\ a.result.score = Urgency(in)
             /\ a.result.override = Override(in)
             /\ a.result.tier = IF Override(in) = None THEN TierOf(Urgency(in))
                                ELSE ForcedTier[Override(in)]
             /\ a.margin = Margin(in, Complexity(b, w, {}))
  BY CleanInputs DEF Assess, ScoreAlert

\* The riskier of two rows is not ranked lower.
LEMMA RiskierRank ==
  ASSUME NEW v \in World, NEW w \in World, Riskier(v, w), NEW b
  PROVE  ~Ahead(Assess(b, v, {}), Assess(b, w, {}))
<1> DEFINE l == LocalInputs(v)
           m == LocalInputs(w)
           s == Assess(b, v, {})
           t == Assess(b, w, {})
<1>1. /\ s.from = v /\ s.result.score = Urgency(l) /\ s.result.override = Override(l)
      /\ s.result.tier = IF Override(l) = None THEN TierOf(Urgency(l)) ELSE ForcedTier[Override(l)]
      /\ t.from = w /\ t.result.score = Urgency(m) /\ t.result.override = Override(m)
      /\ t.result.tier = IF Override(m) = None THEN TierOf(Urgency(m)) ELSE ForcedTier[Override(m)]
  BY AssessIs
<1>2. Urgency(l) \in Int /\ Urgency(m) \in Int /\ Urgency(l) <= Urgency(m)
  <2>1. Urgency(l) \in 0..10000 /\ Urgency(m) \in 0..10000 /\ Urgency(l) <= Urgency(m)
    BY RiskierUrgency
  <2>2. PICK x, y : x = Urgency(l) /\ y = Urgency(m)
    OBVIOUS
  <2>3. x \in 0..10000 /\ y \in 0..10000 /\ x <= y
    BY <2>1, <2>2
  <2>4. x \in Int /\ y \in Int /\ x <= y
    BY <2>3
  <2> QED BY <2>2, <2>4
<1>3. Triggered(l) \subseteq Triggered(m)
  BY RiskierTriggers
<1>4. /\ Override(l) = None <=> Triggered(l) = {}
      /\ Override(m) = None <=> Triggered(m) = {}
      /\ Triggered(l) # {} => ForcedTier[Override(l)]
           = IF Triggered(l) = {"REPEAT_ESCALATED_ALERT"} THEN "HIGH" ELSE "CRITICAL"
      /\ Triggered(m) # {} => ForcedTier[Override(m)]
           = IF Triggered(m) = {"REPEAT_ESCALATED_ALERT"} THEN "HIGH" ELSE "CRITICAL"
  BY OverrideIs
<1>5. v.hours \in Int \cup {None} /\ w.hours \in Int \cup {None} /\ AtMost(w.hours, v.hours)
  BY WorldFields DEF Riskier
<1> HIDE DEF l, m, s, t
<1>6. ~(Group(s) < Group(t))
  BY <1>1, <1>3, <1>4 DEF Group
<1>7. Group(s) = Group(t) => /\ s.result.tier \in DOMAIN TierRank /\ t.result.tier \in DOMAIN TierRank
                             /\ TierRank[t.result.tier] <= TierRank[s.result.tier]
  <2>1. CASE Triggered(l) = {} /\ Triggered(m) = {}
    <3>1. s.result.tier = TierOf(Urgency(l)) /\ t.result.tier = TierOf(Urgency(m))
      BY <1>1, <1>4, <2>1
    <3> QED BY <1>2, <3>1, TierMonotone
  <2>2. CASE Triggered(l) # {} /\ Triggered(m) # {}
    <3>1. /\ s.result.tier = IF Triggered(l) = {"REPEAT_ESCALATED_ALERT"} THEN "HIGH" ELSE "CRITICAL"
          /\ t.result.tier = IF Triggered(m) = {"REPEAT_ESCALATED_ALERT"} THEN "HIGH" ELSE "CRITICAL"
      BY <1>1, <1>4, <2>2
    <3>2. t.result.tier = "HIGH" => s.result.tier = "HIGH"
      BY <1>3, <2>2, <3>1
    <3> QED BY <3>1, <3>2 DEF TierRank
  <2>3. CASE Triggered(l) = {} /\ Triggered(m) # {}
    BY <1>1, <1>4, <2>3 DEF Group
  <2> QED BY <1>3, <2>1, <2>2, <2>3
<1>8. ~DueBefore(v.hours, w.hours)
  BY <1>5 DEF DueBefore, AtMost
<1>9. Group(s) = Group(t) => ~(TierRank[s.result.tier] < TierRank[t.result.tier])
  <2>1. \A x \in DOMAIN TierRank : TierRank[x] \in Int
    BY DEF TierRank
  <2> QED BY <1>7, <2>1
<1>10. ~(s.result.score > t.result.score)
  BY <1>1, <1>2
<1>11. ~Ahead(s, t)
  BY <1>1, <1>6, <1>8, <1>9, <1>10 DEF Ahead
<1> QED BY <1>11 DEF s, t

-----------------------------------------------------------------------------
(* The invariant.                                                          *)

\* The rows are rows, and the score stored is what the engine makes of the rows and the
\* failed lookups stored with it.
ScoresInv ==
  /\ world \in World
  /\ backend \in Backends
  /\ stored # None =>
       /\ stored.from \in World
       /\ stored.failed \subseteq Lookups
       /\ backend # "hana" => stored.failed = {}
       /\ stored = Assess(backend, stored.from, stored.failed)

\* Only a field that is there changes, to one of its values.
LEMMA ChangedWorld ==
  ASSUME NEW w \in World, NEW field \in DOMAIN w, NEW value \in Values[field]
  PROVE  [w EXCEPT ![field] = value] \in World
<1>1. w \in Fields(LAMBDA S : S) /\ Values \in Fields(LAMBDA S : SUBSET S)
  BY ScoringAssumption DEF World
<1>2. [w EXCEPT ![field] = value] \in Fields(LAMBDA S : S)
  BY <1>1 DEF Fields
<1> QED BY <1>2 DEF World

LEMMA ScoresInitially == Init => ScoresInv
  BY ScoringAssumption DEF Init, ScoresInv

LEMMA ScoresNext == ScoresInv /\ [Next]_vars => ScoresInv'
<1> SUFFICES ASSUME ScoresInv, [Next]_vars
             PROVE  ScoresInv'
  OBVIOUS
<1>1. CASE Change
  <2>1. world' \in World
    BY <1>1, ChangedWorld DEF Change, ScoresInv
  <2>2. backend' = backend /\ stored' = stored
    BY <1>1 DEF Change
  <2> QED BY <2>1, <2>2 DEF ScoresInv
<1>2. CASE Rescore
  <2>1. PICK failed \in SUBSET Lookups :
          /\ Cardinality(failed) <= IF backend = "hana" THEN MaxFailed ELSE 0
          /\ stored' = Assess(backend, world, failed)
    BY <1>2 DEF Rescore
  <2>2. backend' = backend /\ world' = world
    BY <1>2 DEF Rescore
  <2>3. backend # "hana" => failed = {}
    <3>1. IsFiniteSet(Lookups)
      <4>1. Lookups = {"baseline"} \cup {"sanctions"} \cup {"restricted"} \cup {"cases"}
                      \cup {"owners"} \cup {"kyc"}
        BY DEF Lookups
      <4> QED BY <4>1, FS_Singleton, FS_Union
    <3>2. IsFiniteSet(failed)
      BY <3>1, FS_Subset
    <3>3. Cardinality(failed) \in Nat /\ (Cardinality(failed) = 0 <=> failed = {})
      BY <3>2, FS_CardinalityType, FS_EmptySet
    <3> QED BY <2>1, <3>3
  <2>4. stored'.from = world /\ stored'.failed = failed
    BY <2>1 DEF Assess
  <2> QED BY <2>1, <2>2, <2>3, <2>4 DEF ScoresInv
<1>3. CASE UNCHANGED vars
  BY <1>3 DEF vars, ScoresInv
<1> QED BY <1>1, <1>2, <1>3 DEF Next

\* However the rows change, riskier rows never rank an alert lower or leave it more time.
THEOREM RiskierRanksHigher == Spec => RiskierNeverRanksLower
<1> DEFINE Higher == stored # None /\ stored' # None
                     /\ stored.failed = {} /\ stored'.failed = {} /\ Riskier(stored.from, stored'.from)
                     => ~Ahead(stored, stored') /\ AtMost(stored'.margin, stored.margin)
<1>1. ScoresInv /\ ScoresInv' /\ [Next]_vars => Higher
  <2> SUFFICES ASSUME ScoresInv, ScoresInv', [Next]_vars, stored # None, stored' # None,
                      stored.failed = {}, stored'.failed = {}, Riskier(stored.from, stored'.from)
               PROVE  ~Ahead(stored, stored') /\ AtMost(stored'.margin, stored.margin)
    OBVIOUS
  <2>1. PICK s : s = stored
    OBVIOUS
  <2>2. PICK t : t = stored'
    OBVIOUS
  <2>3. backend' = backend
    BY DEF Next, Change, Rescore, vars
  <2>4. s.from \in World /\ s = Assess(backend, s.from, {})
    BY <2>1 DEF ScoresInv
  <2>5. t.from \in World /\ t = Assess(backend, t.from, {})
    BY <2>2, <2>3 DEF ScoresInv
  <2>6. Riskier(s.from, t.from)
    BY <2>1, <2>2
  <2>7. ~Ahead(s, t)
    BY <2>4, <2>5, <2>6, RiskierRank
  <2>8. AtMost(t.margin, s.margin)
    <3>1. /\ s.margin = Margin(LocalInputs(s.from), Complexity(backend, s.from, {}))
          /\ t.margin = Margin(LocalInputs(t.from), Complexity(backend, t.from, {}))
      BY <2>4, <2>5, AssessIs
    <3> QED BY <2>4, <2>5, <2>6, <3>1, RiskierMargin
  <2> QED BY <2>1, <2>2, <2>7, <2>8
<1>2. ScoresInv /\ ScoresInv' /\ [Next]_vars => [Higher]_vars
  BY <1>1
<1> QED BY <1>2, ScoresInitially, ScoresNext, PTL DEF Spec, RiskierNeverRanksLower

\* A lookup that failed and mattered to the score, the tier or the override is declared.
THEOREM DeclaredLookups == Spec => []FailedLookupsAreDeclared
<1>1. ScoresInv => FailedLookupsAreDeclared
  <2> SUFFICES ASSUME ScoresInv, stored # None, NEW f \in stored.failed, f \notin stored.result.caveats
               PROVE  LET got == stored.result
                          better == Assess(backend, stored.from, stored.failed \ {f}).result
                      IN  got.score = better.score /\ got.tier = better.tier
                          /\ got.override = better.override
    BY DEF FailedLookupsAreDeclared
  <2> DEFINE w == stored.from
             F == stored.failed
             G == F \ {f}
  <2>1. backend = "hana" /\ F \subseteq Lookups /\ stored = Assess(backend, w, F)
    BY DEF ScoresInv
  <2>2. Inputs(backend, w, F) = HanaInputs(w, F) /\ Inputs(backend, w, G) = HanaInputs(w, G)
    BY <2>1 DEF Inputs
  <2>3. stored.result = ScoreAlert(HanaInputs(w, F), Complexity(backend, w, F))
    <3>1. Assess(backend, w, F).result = ScoreAlert(HanaInputs(w, F), Complexity(backend, w, F))
      BY <2>2 DEF Assess
    <3> HIDE DEF w, F
    <3> QED BY <2>1, <3>1
  <2>4. Assess(backend, w, G).result = ScoreAlert(HanaInputs(w, G), Complexity(backend, w, G))
    BY <2>2 DEF Assess
  <2>5. f \in {"owners", "kyc"}
    <3>1. stored.result.caveats = HanaInputs(w, F).unresolved
      BY <2>3 DEF ScoreAlert
    <3>2. F \cap {"baseline", "sanctions", "restricted", "cases"} \subseteq HanaInputs(w, F).unresolved
      BY DEF HanaInputs
    <3>3. f \in Lookups /\ f \in F
      BY <2>1
    <3> QED BY <3>1, <3>2, <3>3 DEF Lookups
  <2>6. HanaInputs(w, F) = HanaInputs(w, G)
    <3>1. /\ "baseline" \in F <=> "baseline" \in G
          /\ "sanctions" \in F <=> "sanctions" \in G
          /\ "restricted" \in F <=> "restricted" \in G
          /\ "cases" \in F <=> "cases" \in G
      BY <2>5
    <3>2. F \cap {"baseline", "sanctions", "restricted", "cases"}
            = G \cap {"baseline", "sanctions", "restricted", "cases"}
      BY <2>5
    <3> HIDE DEF w, F, G
    <3> QED BY <3>1, <3>2 DEF HanaInputs
  <2> QED BY <2>3, <2>4, <2>6 DEF ScoreAlert
<1> QED BY <1>1, ScoresInitially, ScoresNext, PTL DEF Spec

\* A score is between 0 and 100 points, whatever is missing and whichever lookup failed.
LEMMA ScoreTypes ==
  ASSUME NEW b, NEW w \in World, NEW failed
  PROVE  ScoreType(Assess(b, w, failed).result)
<1> DEFINE in == Inputs(b, w, failed)
           r == Assess(b, w, failed).result
<1>1. in.row = Joined(w) /\ in.baseline \in {w.baseline, None}
  BY DEF Inputs, LocalInputs, HanaInputs
<1>2. /\ r.score = Urgency(in)
      /\ r.tier = IF Override(in) = None THEN TierOf(Urgency(in)) ELSE ForcedTier[Override(in)]
  BY DEF Assess, ScoreAlert
<1> HIDE DEF in, r
<1>3. /\ Typology(in) \in 0..100 /\ EntityRisk(in) \in 0..100 /\ Jurisdiction(in) \in 0..100
      /\ SlaProximity(in) \in 0..100 /\ Materiality(in) \in 0..100
  BY <1>1, FactorTypes
<1>4. Urgency(in) = 25 * Typology(in) + 20 * EntityRisk(in) + 20 * Jurisdiction(in)
                    + 20 * SlaProximity(in) + 15 * Materiality(in)
  BY DEF Urgency, Weight
<1>5. Urgency(in) \in 0..10000 /\ Urgency(in) \in Int
  <2>1. PICK x, y, z, u, v : /\ x = Typology(in) /\ y = EntityRisk(in) /\ z = Jurisdiction(in)
                             /\ u = SlaProximity(in) /\ v = Materiality(in)
    OBVIOUS
  <2>2. /\ x \in 0..100 /\ y \in 0..100 /\ z \in 0..100 /\ u \in 0..100 /\ v \in 0..100
        /\ Urgency(in) = 25 * x + 20 * y + 20 * z + 20 * u + 15 * v
    BY <1>3, <1>4, <2>1
  <2>3. PICK n : n = Urgency(in)
    OBVIOUS
  <2>4. n \in 0..10000 /\ n \in Int
    BY <2>2, <2>3
  <2> QED BY <2>3, <2>4
<1>6. r.tier \in DOMAIN TierRank
  <2>1. CASE Override(in) = None
    <3>1. Urgency(in) \in Int
      BY <1>5
    <3> QED BY <1>2, <2>1, <3>1, TierMonotone
  <2>2. CASE Override(in) # None
    <3>1. ForcedTier[Override(in)] \in {"HIGH", "CRITICAL"}
      BY <2>2, OverrideIs
    <3> QED BY <1>2, <2>2, <3>1 DEF TierRank
  <2> QED BY <2>1, <2>2
<1>7. r.score \in 0..10000
  BY <1>2, <1>5
<1>8. ScoreType(r)
  BY <1>6, <1>7 DEF ScoreType
<1> QED BY <1>8 DEF r

\* Type correctness.
THEOREM TypeCorrect == Spec => []TypeOK
<1>1. Init => ScoresInv /\ changes \in 0..MaxChanges
  BY ScoresInitially, BoundIsNumber DEF Init
<1>2. ScoresInv /\ changes \in 0..MaxChanges /\ [Next]_vars
        => ScoresInv' /\ (changes \in 0..MaxChanges)'
  <2>1. ScoresInv /\ [Next]_vars => ScoresInv'
    BY ScoresNext
  <2>2. changes \in 0..MaxChanges /\ [Next]_vars => (changes \in 0..MaxChanges)'
    BY BoundIsNumber DEF Next, Change, Rescore, vars
  <2> QED BY <2>1, <2>2
<1>3. ScoresInv /\ changes \in 0..MaxChanges => TypeOK
  <2> SUFFICES ASSUME ScoresInv, changes \in 0..MaxChanges
               PROVE  TypeOK
    OBVIOUS
  <2>1. stored # None => ScoreType(stored.result)
    <3> SUFFICES ASSUME stored # None
                 PROVE  ScoreType(stored.result)
      OBVIOUS
    <3>1. PICK s : s = stored
      OBVIOUS
    <3>2. s.from \in World /\ s = Assess(backend, s.from, s.failed)
      BY <3>1 DEF ScoresInv
    <3>3. ScoreType(Assess(backend, s.from, s.failed).result)
      BY <3>2, ScoreTypes
    <3> QED BY <3>1, <3>2, <3>3
  <2> QED BY <2>1 DEF ScoresInv, TypeOK
<1> QED BY <1>1, <1>2, <1>3, PTL DEF Spec

-----------------------------------------------------------------------------
(* The tables of scores: types, and where a request is.                    *)

USE AlertsAssumption, SizesAssumption, AsksAssumption, DatabasesAssumption

\* Which requests come to a statement.
KindsAt ==
  [page |-> {"score_all"}, delete |-> {"score", "score_all"},
   insert |-> {"score", "score_all"}, clear |-> {"score", "score_all"},
   factors |-> {"score", "score_all"}, commit |-> {"score", "score_all", "predict"},
   predict |-> {"predict"}, read |-> {"get", "queue"}, readFactors |-> {"get"},
   readPrediction |-> {"get"}, count |-> {"queue"}]

PlaceInv ==
  \A r \in Requests :
    /\ pc[r] \in InFlight => ask[r].kind \in KindsAt[pc[r]]
    /\ pc[r] \in InBlock \cup {"delete", "predict"} => todo[r] # << >>
    /\ pc[r] = "page" => todo[r] = << >>
    /\ next[r] \in 1..Factors
    /\ pc[r] \notin {"factors", "failed"} => next[r] = 1

\* HANA commits every statement.
CommitInv ==
  /\ database = "hana" => committed = db
  /\ IsFiniteSet(db.scores) /\ IsFiniteSet(committed.scores)

StoreInv == StoreTypeOK /\ PlaceInv /\ CommitInv

LEMMA Places ==
  /\ InBlock = {"insert", "clear", "factors", "commit"}
  /\ InFlight = {"insert", "clear", "factors", "commit", "page", "delete", "predict", "read",
                 "readFactors", "readPrediction", "count"}
  /\ Ended = {"ok", "not_found", "failed"}
BY DEF InBlock, InFlight, Ended

LEMMA KindsAtPlaces ==
  /\ KindsAt["page"] = {"score_all"} /\ KindsAt["delete"] = {"score", "score_all"}
  /\ KindsAt["insert"] = {"score", "score_all"} /\ KindsAt["clear"] = {"score", "score_all"}
  /\ KindsAt["factors"] = {"score", "score_all"}
  /\ KindsAt["commit"] = {"score", "score_all", "predict"}
  /\ KindsAt["predict"] = {"predict"} /\ KindsAt["read"] = {"get", "queue"}
  /\ KindsAt["readFactors"] = {"get"} /\ KindsAt["readPrediction"] = {"get"}
  /\ KindsAt["count"] = {"queue"}
BY DEF KindsAt

\* A write to one of the tables leaves the others.
LEMMA ExecuteScores ==
  ASSUME StoreTypeOK, NEW rows \in SUBSET Score, Execute("scores", rows)
  PROVE  /\ db' \in Tables /\ committed' \in Tables
         /\ db'.scores = rows /\ db'.factors = db.factors /\ db'.predictions = db.predictions
         /\ IF database = "hana" THEN committed' = db' ELSE committed' = committed
BY DEF StoreTypeOK, Tables, Execute

LEMMA ExecuteFactors ==
  ASSUME StoreTypeOK, NEW rows \in SUBSET Factor, Execute("factors", rows)
  PROVE  /\ db' \in Tables /\ committed' \in Tables
         /\ db'.factors = rows /\ db'.scores = db.scores /\ db'.predictions = db.predictions
         /\ IF database = "hana" THEN committed' = db' ELSE committed' = committed
BY DEF StoreTypeOK, Tables, Execute

LEMMA ExecutePredictions ==
  ASSUME StoreTypeOK, NEW rows \in SUBSET Prediction, Execute("predictions", rows)
  PROVE  /\ db' \in Tables /\ committed' \in Tables
         /\ db'.predictions = rows /\ db'.scores = db.scores /\ db'.factors = db.factors
         /\ IF database = "hana" THEN committed' = db' ELSE committed' = committed
BY DEF StoreTypeOK, Tables, Execute

\* What a request moves.
LEMMA Moves ==
  ASSUME StoreTypeOK, NEW r \in Requests, NEW from, NEW to, Move(r, from, to)
  PROVE  /\ pc[r] = from /\ pc'[r] = to /\ database' = database /\ ask' = ask
         /\ \A s \in Requests \ {r} : pc'[s] = pc[s]
         /\ to \in {"idle"} \cup InFlight \cup Ended =>
              pc' \in [Requests -> {"idle"} \cup InFlight \cup Ended]
BY DEF StoreTypeOK, Move

LEMMA AskTypes ==
  ASSUME StoreTypeOK, NEW r \in Requests
  PROVE  ask[r].kind \in Kinds /\ ask[r].alert \in Alerts /\ ask[r].asOf \in Nat
BY DEF StoreTypeOK, Ask

LEMMA CurrentTypes ==
  ASSUME StoreTypeOK, NEW r \in Requests, todo[r] # << >>
  PROVE  /\ Current(r) \in Alerts /\ Tail(todo[r]) \in Seq(Alerts)
         /\ Len(Tail(todo[r])) = Len(todo[r]) - 1 /\ Len(todo[r]) \in Nat \ {0}
<1>1. todo[r] \in Seq(Alerts)
  BY DEF StoreTypeOK
<1> QED BY <1>1, HeadTailProperties, EmptySeq DEF Current

\* A request that moves keeps PlaceInv when it keeps it for itself.
LEMMA Placed ==
  ASSUME StoreInv, NEW r \in Requests, NEW from, NEW to, Move(r, from, to),
         \A s \in Requests \ {r} : todo'[s] = todo[s] /\ next'[s] = next[s],
         to \in InFlight => ask[r].kind \in KindsAt[to],
         to \in InBlock \cup {"delete", "predict"} => todo'[r] # << >>,
         to = "page" => todo'[r] = << >>,
         next'[r] \in 1..Factors,
         to \notin {"factors", "failed"} => next'[r] = 1
  PROVE  PlaceInv'
<1> SUFFICES ASSUME NEW s \in Requests
             PROVE  /\ pc'[s] \in InFlight => ask'[s].kind \in KindsAt[pc'[s]]
                    /\ pc'[s] \in InBlock \cup {"delete", "predict"} => todo'[s] # << >>
                    /\ pc'[s] = "page" => todo'[s] = << >>
                    /\ next'[s] \in 1..Factors
                    /\ pc'[s] \notin {"factors", "failed"} => next'[s] = 1
  BY DEF PlaceInv
<1>1. pc'[r] = to /\ ask' = ask /\ \A q \in Requests \ {r} : pc'[q] = pc[q]
  BY Moves DEF StoreInv
<1>2. CASE s = r
  BY <1>1, <1>2
<1>3. CASE s # r
  BY <1>1, <1>3 DEF StoreInv, PlaceInv
<1> QED BY <1>2, <1>3

\* A step that moves nothing of the batch.
LEMMA PlacedInPlace ==
  ASSUME StoreInv, NEW r \in Requests, NEW from, NEW to, Move(r, from, to), UNCHANGED work,
         to \in InFlight => ask[r].kind \in KindsAt[to],
         to \in InBlock \cup {"delete", "predict"} => todo[r] # << >>,
         to # "page",
         to \notin {"factors", "failed"} => next[r] = 1
  PROVE  PlaceInv'
<1>1. next[r] \in 1..Factors
  BY DEF StoreInv, PlaceInv
<1> QED BY <1>1, Placed DEF work

LEMMA StoreInitial == StoreInit => StoreInv
<1> SUFFICES ASSUME StoreInit PROVE StoreInv
  OBVIOUS
<1>1. /\ pc \in [Requests -> {"idle"} \cup InFlight \cup Ended]
      /\ todo \in [Requests -> Seq(Alerts)]
      /\ offset \in [Requests -> Nat] /\ next \in [Requests -> Nat]
      /\ before \in [Requests -> SUBSET Requests]
      /\ scored \in [Requests -> [Alerts -> {"no", "alone", "mixed"}]]
  BY DEF StoreInit
<1>2. db \in Tables /\ committed \in Tables
  BY DEF StoreInit, Tables, NoRows
<1>3. seen \in [Requests -> Reading]
  BY DEF StoreInit, Reading
<1>4. StoreTypeOK
  BY <1>1, <1>2, <1>3 DEF StoreInit, StoreTypeOK
<1>5. PlaceInv
  BY Places DEF StoreInit, PlaceInv
<1>6. CommitInv
  BY FS_EmptySet DEF StoreInit, CommitInv, NoRows
<1> QED BY <1>4, <1>5, <1>6 DEF StoreInv

\* Where the first step of a handler leads.
LEMMA ReceiveMoves ==
  ASSUME StoreInv, NEW r \in Requests, Receive(r)
  PROVE  \E to :
           /\ Move(r, "idle", to)
           /\ \/ ask[r].kind = "score_all" /\ to = "page"
              \/ ask[r].kind = "queue" /\ to = "read"
              \/ ask[r].kind \in {"score", "predict", "get"} /\ to = "not_found"
              \/ ask[r].kind = "score" /\ to = "delete"
              \/ ask[r].kind = "predict" /\ to = "predict"
              \/ ask[r].kind = "get" /\ to = "read"
<1>1. PICK to : /\ Move(r, "idle", to)
                /\ to = IF ask[r].kind = "score_all" THEN "page"
                        ELSE IF ask[r].kind = "queue" THEN "read"
                        ELSE IF ask[r].alert \notin Loaded THEN "not_found"
                        ELSE FirstStatement[ask[r].kind]
  BY DEF Receive
<1>2. ask[r].kind \in {"score", "score_all", "predict", "get", "queue"}
  BY AskTypes DEF StoreInv, Kinds
<1> QED BY <1>1, <1>2 DEF FirstStatement

LEMMA StoreReceive ==
  ASSUME StoreInv, NEW r \in Requests, Receive(r)
  PROVE  StoreInv'
<1>1. PICK to :
        /\ Move(r, "idle", to)
        /\ \/ ask[r].kind = "score_all" /\ to = "page"
           \/ ask[r].kind = "queue" /\ to = "read"
           \/ ask[r].kind \in {"score", "predict", "get"} /\ to = "not_found"
           \/ ask[r].kind = "score" /\ to = "delete"
           \/ ask[r].kind = "predict" /\ to = "predict"
           \/ ask[r].kind = "get" /\ to = "read"
  BY ReceiveMoves
<1>3. /\ todo' = [todo EXCEPT ![r] = IF ask[r].kind = "score_all" THEN << >> ELSE <<ask[r].alert>>]
      /\ before' = [before EXCEPT ![r] = {s \in Requests : pc[s] = "ok"}]
      /\ UNCHANGED <<db, committed, offset, next, seen, scored, mixed, disturbed, calm>>
  BY DEF Receive
<1>4. to \in InFlight \cup Ended
  BY <1>1, Places
<1>5. StoreTypeOK'
  <2>1. todo' \in [Requests -> Seq(Alerts)]
    BY <1>3, AskTypes DEF StoreInv, StoreTypeOK
  <2>2. before' \in [Requests -> SUBSET Requests]
    BY <1>3 DEF StoreInv, StoreTypeOK
  <2>3. /\ pc' \in [Requests -> {"idle"} \cup InFlight \cup Ended]
        /\ database' = database /\ ask' = ask
    BY <1>1, <1>4, Moves DEF StoreInv
  <2> QED BY <1>3, <2>1, <2>2, <2>3 DEF StoreInv, StoreTypeOK
<1>6. PlaceInv'
  <2>1. next'[r] = 1 /\ next'[r] \in 1..Factors /\ \A s \in Requests : next'[s] = next[s]
    BY <1>1, <1>3, Places, Moves DEF StoreInv, PlaceInv
  <2>2. /\ \A s \in Requests \ {r} : todo'[s] = todo[s]
        /\ todo'[r] = IF ask[r].kind = "score_all" THEN << >> ELSE <<ask[r].alert>>
    BY <1>3 DEF StoreInv, StoreTypeOK
  <2>3. /\ to \in InFlight => ask[r].kind \in KindsAt[to]
        /\ to \in InBlock \cup {"delete", "predict"} => ask[r].kind # "score_all"
        /\ to = "page" => ask[r].kind = "score_all"
    BY <1>1, Places, KindsAtPlaces
  <2>4. <<ask[r].alert>> # << >>
    OBVIOUS
  <2> QED BY <1>1, <2>1, <2>2, <2>3, <2>4, Placed
<1>7. CommitInv'
  BY <1>1, <1>3, Moves DEF StoreInv, CommitInv
<1> QED BY <1>5, <1>6, <1>7 DEF StoreInv

-----------------------------------------------------------------------------
(* The pages of score-all.                                                 *)

LoadedCount == Cardinality(Loaded)

\* A listing has every alert once, in the order of time.
LEMMA ListingIs ==
  ASSUME NEW s \in Listings
  PROVE  /\ LoadedCount \in Nat
         /\ s \in Seq(Loaded) /\ Len(s) = LoadedCount /\ DOMAIN s = 1..LoadedCount
         /\ \A i, j \in 1..LoadedCount : i # j => s[i] # s[j]
         /\ \A a \in Loaded : \E i \in 1..LoadedCount : s[i] = a
         /\ \A i, j \in 1..LoadedCount : i < j => Created[s[i]] <= Created[s[j]]
<1>1. LoadedCount \in Nat /\ IsFiniteSet(Loaded)
  BY FS_CardinalityType DEF LoadedCount
<1>2. /\ s \in [1..LoadedCount -> Loaded]
      /\ \A i, j \in 1..LoadedCount : i # j => s[i] # s[j]
  BY DEF Listings, SetToSeqs, LoadedCount
<1>3. s \in Seq(Loaded) /\ Len(s) = LoadedCount /\ DOMAIN s = 1..LoadedCount
  BY <1>1, <1>2
<1>4. s \in Injection(1..LoadedCount, Loaded)
  BY <1>2, Fun_IsInj
<1>5. IsFiniteSet(1..LoadedCount) /\ Cardinality(1..LoadedCount) = LoadedCount
  BY <1>1, FS_Interval
<1>6. s \in Surjection(1..LoadedCount, Loaded)
  BY <1>1, <1>4, <1>5, FS_Injection DEF LoadedCount
<1>7. \A a \in Loaded : \E i \in 1..LoadedCount : s[i] = a
  BY <1>6 DEF Surjection
<1>8. \A i, j \in 1..LoadedCount : i < j => Created[s[i]] <= Created[s[j]]
  BY <1>3 DEF Listings
<1> QED BY <1>1, <1>2, <1>3, <1>7, <1>8

LEMMA MinOfTwo ==
  ASSUME NEW m \in Nat, NEW n \in Nat
  PROVE  Min({m, n}) = IF m <= n THEN m ELSE n
<1> DEFINE S == {m, n}
           least == CHOOSE x \in S : \A y \in S : x <= y
           k == IF m <= n THEN m ELSE n
<1>1. k \in S /\ \A y \in S : k <= y
  OBVIOUS
<1>2. least \in S /\ \A y \in S : least <= y
  <2> HIDE DEF S, k
  <2> QED BY <1>1
<1>3. least = k
  <2> HIDE DEF least
  <2> QED BY <1>1, <1>2
<1> QED BY <1>3 DEF Min

\* A page is the part of a listing that begins after the offset.
LEMMA PageIs ==
  ASSUME NEW from \in Nat, NEW page \in Pages(from, PageSize)
  PROVE  /\ page \in Seq(Loaded)
         /\ \E s \in Listings :
              /\ Len(page) = IF from < LoadedCount
                             THEN (IF from + PageSize <= LoadedCount THEN from + PageSize
                                   ELSE LoadedCount) - from
                             ELSE 0
              /\ \A i \in 1..Len(page) : page[i] = s[from + i]
<1>1. PICK s \in Listings : page = SubSeq(s, from + 1, Min({from + PageSize, Len(s)}))
  BY DEF Pages
<1>2. LoadedCount \in Nat /\ s \in Seq(Loaded) /\ Len(s) = LoadedCount /\ DOMAIN s = 1..LoadedCount
  BY ListingIs
<1> DEFINE last == IF from + PageSize <= LoadedCount THEN from + PageSize ELSE LoadedCount
<1>3. Min({from + PageSize, Len(s)}) = last /\ last \in Nat /\ last <= LoadedCount
  BY <1>2, MinOfTwo
<1>4. page = SubSeq(s, from + 1, last)
  BY <1>1, <1>3
<1>5. \A i \in (from + 1)..last : s[i] \in Loaded
  BY <1>2, <1>3
<1>6. PageSize \in Nat \ {0}
  BY SizesAssumption
<1>7. /\ page \in Seq(Loaded)
      /\ Len(page) = IF from + 1 <= last THEN last - (from + 1) + 1 ELSE 0
      /\ \A i \in 1..(last - (from + 1) + 1) : page[i] = s[from + 1 + i - 1]
  <2> HIDE DEF last
  <2> QED BY <1>3, <1>4, <1>5, SubSeqProperties
<1>8. Len(page) = IF from < LoadedCount THEN last - from ELSE 0
  BY <1>2, <1>6, <1>7
<1>9. ASSUME NEW i \in 1..Len(page) PROVE page[i] = s[from + i]
  <2>1. from < LoadedCount /\ i \in 1..(last - from)
    BY <1>2, <1>3, <1>8
  <2>2. last - (from + 1) + 1 = last - from /\ from + 1 + i - 1 = from + i
    BY <1>3
  <2> QED BY <1>7, <2>1, <2>2
<1> QED BY <1>7, <1>8, <1>9

-----------------------------------------------------------------------------
(* Types, statement by statement.                                          *)

LEMMA StoreReadPage ==
  ASSUME StoreInv, NEW r \in Requests, ReadPage(r)
  PROVE  StoreInv'
<1>0. offset[r] \in Nat
  BY DEF StoreInv, StoreTypeOK
<1>1. PICK page \in Pages(offset[r], PageSize) :
        /\ Move(r, "page", IF page = << >> THEN "ok" ELSE "delete")
        /\ todo' = [todo EXCEPT ![r] = page]
  BY DEF ReadPage
<1>2. /\ offset' = [offset EXCEPT ![r] = @ + PageSize]
      /\ UNCHANGED <<next, db, committed, seen, history>>
  BY DEF ReadPage
<1>3. page \in Seq(Alerts)
  <2>1. page \in Seq(Loaded)
    BY <1>0, PageIs
  <2> QED BY <2>1
<1>4. PICK to : to = IF page = << >> THEN "ok" ELSE "delete"
  OBVIOUS
<1>5. Move(r, "page", to) /\ to \in {"ok", "delete"}
  BY <1>1, <1>4
<1>6. StoreTypeOK'
  <2>1. todo' \in [Requests -> Seq(Alerts)] /\ offset' \in [Requests -> Nat]
    BY <1>1, <1>2, <1>3 DEF StoreInv, StoreTypeOK
  <2>2. /\ pc' \in [Requests -> {"idle"} \cup InFlight \cup Ended]
        /\ database' = database /\ ask' = ask
    BY <1>5, Places, Moves DEF StoreInv
  <2> QED BY <1>2, <2>1, <2>2 DEF StoreInv, StoreTypeOK, history
<1>7. PlaceInv'
  <2>1. ask[r].kind = "score_all" /\ next[r] \in 1..Factors /\ next[r] = 1
    BY <1>5, Places, KindsAtPlaces, Moves DEF StoreInv, PlaceInv
  <2>2. /\ todo'[r] = page /\ next' = next
        /\ \A s \in Requests \ {r} : todo'[s] = todo[s]
    BY <1>1, <1>2 DEF StoreInv, StoreTypeOK
  <2> QED BY <1>4, <1>5, <2>1, <2>2, Places, KindsAtPlaces, Placed
<1>8. CommitInv'
  BY <1>1, <1>2, Moves DEF StoreInv, CommitInv
<1> QED BY <1>6, <1>7, <1>8 DEF StoreInv

LEMMA BlockBegins ==
  ASSUME StoreTypeOK, NEW r \in Requests, NEW a, BeginBlock(r, a)
  PROVE  mixed' \subseteq Requests
BY DEF StoreTypeOK, BeginBlock, Reaching, Blocks

LEMMA Committed ==
  ASSUME StoreInv, database' = database,
         \/ IF database = "hana" THEN committed' = db' ELSE committed' = committed
         \/ UNCHANGED <<db, committed>>,
         db'.scores = db.scores \/ IsFiniteSet(db'.scores)
  PROVE  CommitInv'
BY DEF StoreInv, CommitInv

\* What a request finds at a statement of its save.
LEMMA AtSave ==
  ASSUME StoreInv, NEW r \in Requests, pc[r] \in {"delete", "insert", "clear", "factors", "commit"}
  PROVE  /\ todo[r] # << >> /\ Current(r) \in Alerts /\ next[r] \in 1..Factors
         /\ ask[r].kind \in KindsAt[pc[r]]
         /\ pc[r] # "factors" => next[r] = 1
         /\ pc[r] # "commit" => ask[r].kind \in {"score", "score_all"}
         /\ pc[r] # "commit" => \A p \in {"delete", "insert", "clear", "factors", "commit"} :
                                  ask[r].kind \in KindsAt[p]
<1>1. /\ todo[r] # << >> /\ next[r] \in 1..Factors
      /\ ask[r].kind \in KindsAt[pc[r]]
      /\ pc[r] # "factors" => next[r] = 1
  BY Places DEF StoreInv, PlaceInv
<1>2. Current(r) \in Alerts
  BY <1>1, CurrentTypes DEF StoreInv
<1>3. pc[r] # "commit" => ask[r].kind \in {"score", "score_all"}
  BY <1>1, KindsAtPlaces
<1>4. pc[r] # "commit" => \A p \in {"delete", "insert", "clear", "factors", "commit"} :
                            ask[r].kind \in KindsAt[p]
  BY <1>3, KindsAtPlaces
<1> QED BY <1>1, <1>2, <1>3, <1>4

-----------------------------------------------------------------------------
(* What each statement does to the tables and to the blocks.               *)

LEMMA DeleteScoreIs ==
  ASSUME StoreInv, NEW r \in Requests, DeleteScore(r)
  PROVE  /\ UNCHANGED <<database, ask, work, disturbed, scored, before, seen>>
         /\ pc[r] = "delete" /\ pc'[r] = "insert" /\ \A s \in Requests \ {r} : pc'[s] = pc[s]
         /\ r \notin Blocks /\ Blocks' = Blocks \cup {r}
         /\ ask[r].kind # "predict" /\ todo[r] # << >> /\ Current(r) \in Alerts
         /\ BeginBlock(r, Current(r))
         /\ db' \in Tables /\ committed' \in Tables
         /\ db'.scores = {row \in db.scores : row.alert # Current(r)}
         /\ db'.factors = db.factors
         /\ IF database = "hana" THEN committed' = db' ELSE committed' = committed
<1>1. /\ Move(r, "delete", "insert") /\ BeginBlock(r, Current(r))
      /\ Execute("scores", {row \in db.scores : row.alert # Current(r)})
      /\ UNCHANGED <<work, seen, before, scored, disturbed>>
  BY DEF DeleteScore
<1>2. /\ pc[r] = "delete" /\ pc'[r] = "insert" /\ \A s \in Requests \ {r} : pc'[s] = pc[s]
      /\ database' = database /\ ask' = ask
  BY <1>1, Moves DEF StoreInv
<1>3. {row \in db.scores : row.alert # Current(r)} \in SUBSET Score
  BY DEF StoreInv, StoreTypeOK, Tables
<1>4. /\ db' \in Tables /\ committed' \in Tables
      /\ db'.scores = {row \in db.scores : row.alert # Current(r)} /\ db'.factors = db.factors
      /\ IF database = "hana" THEN committed' = db' ELSE committed' = committed
  BY <1>1, <1>3, ExecuteScores DEF StoreInv
<1>5. ask[r].kind # "predict" /\ todo[r] # << >> /\ Current(r) \in Alerts
  BY <1>2, AtSave
<1>6. r \notin Blocks /\ Blocks' = Blocks \cup {r}
  BY <1>2, Places DEF Blocks
<1> QED BY <1>1, <1>2, <1>4, <1>5, <1>6

LEMMA InsertScoreIs ==
  ASSUME StoreInv, NEW r \in Requests, InsertScore(r)
  PROVE  /\ UNCHANGED <<database, ask, work, seen, history>>
         /\ pc[r] = "insert" /\ pc'[r] = "clear" /\ \A s \in Requests \ {r} : pc'[s] = pc[s]
         /\ db' \in Tables /\ committed' \in Tables
         /\ db'.scores = db.scores \cup {[alert |-> Current(r), by |-> r]}
         /\ db'.factors = db.factors
         /\ IF database = "hana" THEN committed' = db' ELSE committed' = committed
<1>1. /\ Move(r, "insert", "clear")
      /\ Execute("scores", db.scores \cup {[alert |-> Current(r), by |-> r]})
      /\ UNCHANGED <<work, seen, history>>
  BY DEF InsertScore
<1>2. /\ pc[r] = "insert" /\ pc'[r] = "clear" /\ \A s \in Requests \ {r} : pc'[s] = pc[s]
      /\ database' = database /\ ask' = ask
  BY <1>1, Moves DEF StoreInv
<1>3. db.scores \cup {[alert |-> Current(r), by |-> r]} \in SUBSET Score
  BY <1>2, AtSave DEF StoreInv, StoreTypeOK, Tables, Score
<1> QED BY <1>1, <1>2, <1>3, ExecuteScores DEF StoreInv

LEMMA DeleteFactorsIs ==
  ASSUME StoreInv, NEW r \in Requests, DeleteFactors(r)
  PROVE  /\ UNCHANGED <<database, ask, work, seen, history>>
         /\ pc[r] = "clear" /\ pc'[r] = "factors" /\ \A s \in Requests \ {r} : pc'[s] = pc[s]
         /\ db' \in Tables /\ committed' \in Tables
         /\ db'.factors = {row \in db.factors : row.alert # Current(r)}
         /\ db'.scores = db.scores
         /\ IF database = "hana" THEN committed' = db' ELSE committed' = committed
<1>1. /\ Move(r, "clear", "factors")
      /\ Execute("factors", {row \in db.factors : row.alert # Current(r)})
      /\ UNCHANGED <<work, seen, history>>
  BY DEF DeleteFactors
<1>2. /\ pc[r] = "clear" /\ pc'[r] = "factors" /\ \A s \in Requests \ {r} : pc'[s] = pc[s]
      /\ database' = database /\ ask' = ask
  BY <1>1, Moves DEF StoreInv
<1>3. {row \in db.factors : row.alert # Current(r)} \in SUBSET Factor
  BY DEF StoreInv, StoreTypeOK, Tables
<1> QED BY <1>1, <1>2, <1>3, ExecuteFactors DEF StoreInv

\* The next factor, and the first one after the last.
LEMMA NextFactor ==
  ASSUME NEW n \in 1..Factors
  PROVE  (n % Factors) + 1 = IF n < Factors THEN n + 1 ELSE 1
<1>1. CASE n < Factors
  BY <1>1
<1>2. CASE n = Factors
  BY <1>2
<1> QED BY <1>1, <1>2

LEMMA InsertFactorIs ==
  ASSUME StoreInv, NEW r \in Requests, InsertFactor(r)
  PROVE  /\ UNCHANGED <<database, ask, todo, offset, seen, history>>
         /\ pc[r] = "factors" /\ \A s \in Requests \ {r} : pc'[s] = pc[s] /\ next'[s] = next[s]
         /\ next[r] \in 1..Factors /\ next' \in [Requests -> Nat]
         /\ \/ pc'[r] = "factors" /\ next'[r] = next[r] + 1 /\ next[r] < Factors
            \/ pc'[r] = "commit" /\ next[r] = Factors /\ next'[r] = 1
         /\ db' \in Tables /\ committed' \in Tables
         /\ db'.factors = db.factors \cup {[alert |-> Current(r), by |-> r, code |-> next[r]]}
         /\ db'.scores = db.scores
         /\ IF database = "hana" THEN committed' = db' ELSE committed' = committed
<1>0. PICK to : to = IF next[r] < Factors THEN "factors" ELSE "commit"
  OBVIOUS
<1>1. /\ Move(r, "factors", to)
      /\ Execute("factors", db.factors \cup {[alert |-> Current(r), by |-> r, code |-> next[r]]})
      /\ next' = [next EXCEPT ![r] = (@ % Factors) + 1]
      /\ UNCHANGED <<todo, offset, seen, history>>
  BY <1>0 DEF InsertFactor
<1>2. /\ pc[r] = "factors" /\ pc'[r] = to /\ \A s \in Requests \ {r} : pc'[s] = pc[s]
      /\ database' = database /\ ask' = ask
  BY <1>1, Moves DEF StoreInv
<1>3. next[r] \in 1..Factors /\ next \in [Requests -> Nat]
  BY <1>2, AtSave DEF StoreInv, StoreTypeOK
<1>4. (next[r] % Factors) + 1 = IF next[r] < Factors THEN next[r] + 1 ELSE 1
  BY <1>3, NextFactor
<1>5. next'[r] = (next[r] % Factors) + 1 /\ \A s \in Requests \ {r} : next'[s] = next[s]
  BY <1>1, <1>3
<1>6. \/ to = "factors" /\ next'[r] = next[r] + 1 /\ next[r] < Factors
      \/ to = "commit" /\ next[r] = Factors /\ next'[r] = 1
  BY <1>0, <1>3, <1>4, <1>5
<1>7. next' \in [Requests -> Nat]
  <2>1. (next[r] % Factors) + 1 \in Nat
    BY <1>3, <1>4
  <2> QED BY <1>1, <1>3, <2>1
<1>8. db.factors \cup {[alert |-> Current(r), by |-> r, code |-> next[r]]} \in SUBSET Factor
  BY <1>2, AtSave, SMTT(30) DEF StoreInv, StoreTypeOK, Tables, Factor
<1>9. /\ db' \in Tables /\ committed' \in Tables
      /\ db'.factors = db.factors \cup {[alert |-> Current(r), by |-> r, code |-> next[r]]}
      /\ db'.scores = db.scores
      /\ IF database = "hana" THEN committed' = db' ELSE committed' = committed
  BY <1>1, <1>8, ExecuteFactors DEF StoreInv
<1> QED BY <1>1, <1>2, <1>3, <1>5, <1>6, <1>7, <1>9

LEMMA EndBlockIs ==
  ASSUME StoreInv, NEW r \in Requests, EndBlock(r)
  PROVE  /\ UNCHANGED <<database, ask, offset, next, db, seen, before, mixed, calm>>
         /\ pc[r] = "commit" /\ pc'[r] \in {"ok", "page", "delete"}
         /\ pc'[r] = "ok" <=> ask[r].kind # "score_all"
         /\ \A s \in Requests \ {r} : pc'[s] = pc[s] /\ todo'[s] = todo[s]
         /\ todo'[r] = Tail(todo[r]) /\ todo[r] # << >> /\ Current(r) \in Alerts
         /\ todo' \in [Requests -> Seq(Alerts)]
         /\ r \in Blocks /\ Blocks' = Blocks \ {r}
         /\ committed' = db
<1>0. PICK to : to = IF ask[r].kind # "score_all" THEN "ok"
                     ELSE IF Len(todo[r]) = 1 THEN "page" ELSE "delete"
  OBVIOUS
<1>1. /\ Move(r, "commit", to)
      /\ todo' = [todo EXCEPT ![r] = Tail(@)] /\ committed' = db
      /\ UNCHANGED <<offset, next, db, seen, before, mixed, calm>>
  BY <1>0 DEF EndBlock
<1>2. /\ pc[r] = "commit" /\ pc'[r] = to /\ \A s \in Requests \ {r} : pc'[s] = pc[s]
      /\ database' = database /\ ask' = ask
  BY <1>1, Moves DEF StoreInv
<1>3. todo[r] # << >> /\ Current(r) \in Alerts /\ Tail(todo[r]) \in Seq(Alerts)
  BY <1>2, AtSave, CurrentTypes DEF StoreInv
<1>4. /\ todo'[r] = Tail(todo[r]) /\ \A s \in Requests \ {r} : todo'[s] = todo[s]
      /\ todo' \in [Requests -> Seq(Alerts)]
  BY <1>1, <1>3 DEF StoreInv, StoreTypeOK
<1>5. to \in {"ok", "page", "delete"} /\ (to = "ok" <=> ask[r].kind # "score_all")
  BY <1>0
<1>6. r \in Blocks /\ Blocks' = Blocks \ {r}
  BY <1>2, <1>5, Places DEF Blocks
<1> QED BY <1>1, <1>2, <1>3, <1>4, <1>5, <1>6

LEMMA SavePredictionIs ==
  ASSUME StoreInv, NEW r \in Requests, SavePrediction(r)
  PROVE  /\ UNCHANGED <<database, ask, work, seen, before, scored, disturbed, calm>>
         /\ ask[r].kind = "predict" /\ BeginBlock(r, ask[r].alert)
         /\ pc[r] = "predict" /\ pc'[r] = "commit" /\ \A s \in Requests \ {r} : pc'[s] = pc[s]
         /\ r \notin Blocks /\ Blocks' = Blocks \cup {r}
         /\ db' \in Tables /\ committed' \in Tables
         /\ db'.scores = db.scores /\ db'.factors = db.factors
         /\ committed'.scores = committed.scores /\ committed'.factors = committed.factors
         /\ IF database = "hana" THEN committed' = db' ELSE committed' = committed
<1>1. /\ Move(r, "predict", "commit") /\ BeginBlock(r, ask[r].alert)
      /\ Execute("predictions", db.predictions \cup
           {[alert |-> ask[r].alert, by |-> r, asOf |-> ask[r].asOf]})
      /\ UNCHANGED <<work, seen, before, scored, disturbed, calm>>
  BY DEF SavePrediction
<1>2. /\ pc[r] = "predict" /\ pc'[r] = "commit" /\ \A s \in Requests \ {r} : pc'[s] = pc[s]
      /\ database' = database /\ ask' = ask
  BY <1>1, Moves DEF StoreInv
<1>3. db.predictions \cup {[alert |-> ask[r].alert, by |-> r, asOf |-> ask[r].asOf]}
        \in SUBSET Prediction
  BY AskTypes, SMTT(30) DEF StoreInv, StoreTypeOK, Tables, Prediction
<1>4. /\ db' \in Tables /\ committed' \in Tables
      /\ db'.scores = db.scores /\ db'.factors = db.factors
      /\ IF database = "hana" THEN committed' = db' ELSE committed' = committed
  BY <1>1, <1>3, ExecutePredictions DEF StoreInv
<1>5. committed'.scores = committed.scores /\ committed'.factors = committed.factors
  BY <1>4 DEF StoreInv, CommitInv
<1>6. ask[r].kind = "predict"
  BY <1>2, Places, KindsAtPlaces DEF StoreInv, PlaceInv
<1>7. r \notin Blocks /\ Blocks' = Blocks \cup {r}
  BY <1>2, Places DEF Blocks
<1> QED BY <1>1, <1>2, <1>4, <1>5, <1>6, <1>7

\* A failure leaves the tables, or rolls back what is not committed; the blocks that are
\* open then are mixed.
Cut(r) ==
  \/ r \notin Blocks /\ UNCHANGED <<db, mixed, disturbed>>
  \/ /\ db' = committed
     /\ mixed' = IF database = "sqlite" THEN mixed \cup (Blocks \ {r}) ELSE mixed
     /\ disturbed' = IF r \in Blocks /\ ask[r].kind # "predict" /\ (database = "hana" \/ r \in mixed)
                       THEN disturbed \cup {Current(r)} ELSE disturbed

LEMMA FailIs ==
  ASSUME StoreInv, NEW r \in Requests, Fail(r)
  PROVE  /\ UNCHANGED <<database, ask, committed, work, seen, before, scored, calm>>
         /\ pc'[r] = "failed" /\ pc[r] \in InFlight /\ \A s \in Requests \ {r} : pc'[s] = pc[s]
         /\ Blocks' = Blocks \ {r}
         /\ Cut(r) /\ mixed \subseteq mixed'
         /\ db' = db \/ db' = committed
         /\ r \in Blocks => Current(r) \in Alerts
<1>0. PICK from : from = pc[r]
  OBVIOUS
<1>1. /\ Move(r, from, "failed") /\ from \in InFlight
      /\ UNCHANGED <<committed, work, seen, before, scored, calm>>
  <2>1. InBlock \cup {"delete", "predict"} \subseteq InFlight
    BY Places
  <2> QED BY <1>0, <2>1 DEF Fail, FailOutside, FailInBlock, history
<1>2. /\ pc'[r] = "failed" /\ pc[r] \in InFlight /\ \A s \in Requests \ {r} : pc'[s] = pc[s]
      /\ database' = database /\ ask' = ask
  BY <1>0, <1>1, Moves DEF StoreInv
<1>3. Blocks' = Blocks \ {r}
  BY <1>2, Places DEF Blocks
<1>4. r \in Blocks => Current(r) \in Alerts
  BY Places, AtSave DEF Blocks
<1>5. Cut(r)
  <2>1. CASE FailOutside(r)
    BY <2>1 DEF FailOutside, Cut, history, Blocks
  <2>2. CASE FailInBlock(r)
    BY <2>2 DEF FailInBlock, Cut
  <2> QED BY <2>1, <2>2 DEF Fail
<1>6. mixed \subseteq mixed' /\ (db' = db \/ db' = committed)
  BY <1>5 DEF Cut
<1> QED BY <1>1, <1>2, <1>3, <1>4, <1>5, <1>6

-----------------------------------------------------------------------------
(* Every step keeps the types and the places.                              *)

LEMMA StoreDeleteScore ==
  ASSUME StoreInv, NEW r \in Requests, DeleteScore(r)
  PROVE  StoreInv'
<1>1. /\ UNCHANGED <<database, ask, work, disturbed, scored, before, seen>>
      /\ pc[r] = "delete" /\ BeginBlock(r, Current(r))
      /\ db' \in Tables /\ committed' \in Tables
      /\ db'.scores = {row \in db.scores : row.alert # Current(r)}
      /\ IF database = "hana" THEN committed' = db' ELSE committed' = committed
  BY DeleteScoreIs
<1>2. /\ Move(r, "delete", "insert") /\ calm' \subseteq calm
      /\ pc' \in [Requests -> {"idle"} \cup InFlight \cup Ended]
  BY Places, Moves DEF DeleteScore, StoreInv
<1>3. IsFiniteSet(db'.scores)
  <2>1. db'.scores \subseteq db.scores /\ IsFiniteSet(db.scores)
    BY <1>1 DEF StoreInv, CommitInv
  <2> QED BY <2>1, FS_Subset
<1>4. StoreTypeOK'
  <2>1. mixed' \subseteq Requests
    BY <1>1, BlockBegins DEF StoreInv
  <2> QED BY <1>1, <1>2, <2>1 DEF StoreInv, StoreTypeOK, work
<1>5. PlaceInv'
  BY <1>1, <1>2, AtSave, PlacedInPlace
<1> QED BY <1>1, <1>3, <1>4, <1>5, Committed DEF StoreInv

LEMMA StoreInsertScore ==
  ASSUME StoreInv, NEW r \in Requests, InsertScore(r)
  PROVE  StoreInv'
<1>1. /\ UNCHANGED <<database, ask, work, seen, history>>
      /\ pc[r] = "insert"
      /\ db' \in Tables /\ committed' \in Tables
      /\ db'.scores = db.scores \cup {[alert |-> Current(r), by |-> r]}
      /\ IF database = "hana" THEN committed' = db' ELSE committed' = committed
  BY InsertScoreIs
<1>2. /\ Move(r, "insert", "clear")
      /\ pc' \in [Requests -> {"idle"} \cup InFlight \cup Ended]
  BY Places, Moves DEF InsertScore, StoreInv
<1>3. IsFiniteSet(db'.scores)
  <2>1. IsFiniteSet(db.scores \cup {[alert |-> Current(r), by |-> r]})
    BY FS_AddElement DEF StoreInv, CommitInv
  <2> QED BY <1>1, <2>1
<1>4. StoreTypeOK'
  BY <1>1, <1>2 DEF StoreInv, StoreTypeOK, work, history
<1>5. PlaceInv'
  BY <1>1, <1>2, AtSave, PlacedInPlace
<1> QED BY <1>1, <1>3, <1>4, <1>5, Committed DEF StoreInv

LEMMA StoreDeleteFactors ==
  ASSUME StoreInv, NEW r \in Requests, DeleteFactors(r)
  PROVE  StoreInv'
<1>1. /\ UNCHANGED <<database, ask, work, seen, history>>
      /\ pc[r] = "clear"
      /\ db' \in Tables /\ committed' \in Tables /\ db'.scores = db.scores
      /\ IF database = "hana" THEN committed' = db' ELSE committed' = committed
  BY DeleteFactorsIs
<1>2. /\ Move(r, "clear", "factors")
      /\ pc' \in [Requests -> {"idle"} \cup InFlight \cup Ended]
  BY Places, Moves DEF DeleteFactors, StoreInv
<1>3. StoreTypeOK'
  BY <1>1, <1>2 DEF StoreInv, StoreTypeOK, work, history
<1>4. PlaceInv'
  BY <1>1, <1>2, AtSave, PlacedInPlace
<1> QED BY <1>1, <1>3, <1>4, Committed DEF StoreInv

LEMMA StoreInsertFactor ==
  ASSUME StoreInv, NEW r \in Requests, InsertFactor(r)
  PROVE  StoreInv'
<1>1. /\ UNCHANGED <<database, ask, todo, offset, seen, history>>
      /\ pc[r] = "factors" /\ \A s \in Requests \ {r} : next'[s] = next[s]
      /\ next[r] \in 1..Factors /\ next' \in [Requests -> Nat]
      /\ \/ pc'[r] = "factors" /\ next'[r] = next[r] + 1 /\ next[r] < Factors
         \/ pc'[r] = "commit" /\ next[r] = Factors /\ next'[r] = 1
      /\ db' \in Tables /\ committed' \in Tables /\ db'.scores = db.scores
      /\ IF database = "hana" THEN committed' = db' ELSE committed' = committed
  BY InsertFactorIs
<1>2. PICK to : to = IF next[r] < Factors THEN "factors" ELSE "commit"
  OBVIOUS
<1>3. /\ Move(r, "factors", to) /\ to \in {"factors", "commit"} /\ pc'[r] = to
      /\ pc' \in [Requests -> {"idle"} \cup InFlight \cup Ended]
  BY <1>2, Places, Moves DEF InsertFactor, StoreInv
<1>4. StoreTypeOK'
  BY <1>1, <1>3 DEF StoreInv, StoreTypeOK, history
<1>5. PlaceInv'
  <2>1. next'[r] \in 1..Factors /\ (to = "commit" => next'[r] = 1)
    BY <1>1, <1>3
  <2>2. /\ ask[r].kind \in KindsAt[to]
        /\ todo'[r] # << >> /\ \A s \in Requests \ {r} : todo'[s] = todo[s]
    BY <1>1, <1>3, AtSave
  <2> QED BY <1>1, <1>3, <2>1, <2>2, Placed
<1> QED BY <1>1, <1>4, <1>5, Committed DEF StoreInv

LEMMA StoreEndBlock ==
  ASSUME StoreInv, NEW r \in Requests, EndBlock(r)
  PROVE  StoreInv'
<1>0. PICK to : to = IF ask[r].kind # "score_all" THEN "ok"
                     ELSE IF Len(todo[r]) = 1 THEN "page" ELSE "delete"
  OBVIOUS
<1>1. /\ UNCHANGED <<database, ask, offset, next, db, seen, before, mixed, calm>>
      /\ pc[r] = "commit"
      /\ \A s \in Requests \ {r} : todo'[s] = todo[s]
      /\ todo'[r] = Tail(todo[r]) /\ todo[r] # << >> /\ Current(r) \in Alerts
      /\ todo' \in [Requests -> Seq(Alerts)]
      /\ committed' = db
  BY EndBlockIs
<1>2. /\ Move(r, "commit", to) /\ to \in {"ok", "page", "delete"}
      /\ pc' \in [Requests -> {"idle"} \cup InFlight \cup Ended]
  BY <1>0, Places, Moves DEF EndBlock, StoreInv
<1>3. StoreTypeOK'
  <2>1. scored' \in [Requests -> [Alerts -> {"no", "alone", "mixed"}]]
    <3>1. CASE ask[r].kind = "predict"
      BY <3>1 DEF EndBlock, StoreInv, StoreTypeOK
    <3>2. CASE ask[r].kind # "predict"
      <4> DEFINE how == IF r \in mixed THEN "mixed" ELSE "alone"
      <4>1. scored' = [scored EXCEPT ![r][Current(r)] = how]
        BY <3>2 DEF EndBlock
      <4>2. how \in {"no", "alone", "mixed"}
        OBVIOUS
      <4> QED BY <1>1, <4>1, <4>2 DEF StoreInv, StoreTypeOK
    <3> QED BY <3>1, <3>2
  <2>2. disturbed' \subseteq Alerts
    BY <1>1 DEF EndBlock, StoreInv, StoreTypeOK
  <2> QED BY <1>1, <1>2, <2>1, <2>2 DEF StoreInv, StoreTypeOK
<1>4. PlaceInv'
  <2>1. Len(todo[r]) = 1 <=> todo'[r] = << >>
    <3>1. /\ todo'[r] \in Seq(Alerts) /\ Len(todo'[r]) = Len(todo[r]) - 1
          /\ Len(todo[r]) \in Nat \ {0}
      BY <1>1, CurrentTypes DEF StoreInv
    <3>2. todo'[r] = << >> => Len(todo'[r]) = 0
      BY EmptySeq
    <3>3. todo'[r] # << >> => Len(todo'[r]) \in Nat \ {0}
      BY <3>1, EmptySeq
    <3> QED BY <3>1, <3>2, <3>3
  <2>2. /\ to = "delete" => todo'[r] # << >> /\ ask[r].kind = "score_all"
        /\ to = "page" => todo'[r] = << >> /\ ask[r].kind = "score_all"
    BY <1>0, <2>1
  <2>3. next[r] = 1 /\ next[r] \in 1..Factors
    BY <1>1, AtSave
  <2>4. /\ to \in InFlight => to \in {"page", "delete"}
        /\ to \in InBlock \cup {"delete", "predict"} => to = "delete"
    BY <1>2, Places
  <2> QED BY <1>1, <1>2, <2>2, <2>3, <2>4, KindsAtPlaces, Placed
<1>5. CommitInv'
  BY <1>1 DEF StoreInv, CommitInv
<1> QED BY <1>3, <1>4, <1>5 DEF StoreInv

LEMMA StoreSavePrediction ==
  ASSUME StoreInv, NEW r \in Requests, SavePrediction(r)
  PROVE  StoreInv'
<1>1. /\ UNCHANGED <<database, ask, work, seen, before, scored, disturbed, calm>>
      /\ pc[r] = "predict" /\ BeginBlock(r, ask[r].alert)
      /\ db' \in Tables /\ committed' \in Tables /\ db'.scores = db.scores
      /\ IF database = "hana" THEN committed' = db' ELSE committed' = committed
  BY SavePredictionIs
<1>2. /\ Move(r, "predict", "commit")
      /\ pc' \in [Requests -> {"idle"} \cup InFlight \cup Ended]
  BY Places, Moves DEF SavePrediction, StoreInv
<1>3. StoreTypeOK'
  <2>1. mixed' \subseteq Requests
    BY <1>1, BlockBegins DEF StoreInv
  <2> QED BY <1>1, <1>2, <2>1 DEF StoreInv, StoreTypeOK, work
<1>4. PlaceInv'
  <2>1. /\ ask[r].kind = "predict" /\ todo[r] # << >> /\ next[r] = 1
        /\ ask[r].kind \in KindsAt["commit"]
    BY <1>1, Places, KindsAtPlaces DEF StoreInv, PlaceInv
  <2> QED BY <1>1, <1>2, <2>1, PlacedInPlace
<1> QED BY <1>1, <1>3, <1>4, Committed DEF StoreInv

LEMMA StoreFail ==
  ASSUME StoreInv, NEW r \in Requests, Fail(r)
  PROVE  StoreInv'
<1>0. PICK from : from = pc[r]
  OBVIOUS
<1>1. /\ UNCHANGED <<database, ask, committed, work, seen, before, scored, calm>>
      /\ db' = db \/ db' = committed
      /\ r \in Blocks => Current(r) \in Alerts
      /\ Cut(r)
  BY FailIs
<1>2. /\ Move(r, from, "failed")
      /\ pc' \in [Requests -> {"idle"} \cup InFlight \cup Ended]
  <2>1. Move(r, from, "failed")
    BY <1>0 DEF Fail, FailOutside, FailInBlock
  <2> QED BY <2>1, Places, Moves DEF StoreInv
<1>3. StoreTypeOK'
  <2>1. disturbed' \subseteq Alerts /\ mixed' \subseteq Requests
    BY <1>1 DEF Cut, Blocks, StoreInv, StoreTypeOK
  <2>2. db' \in Tables /\ committed' \in Tables
    BY <1>1 DEF StoreInv, StoreTypeOK
  <2> QED BY <1>1, <1>2, <2>1, <2>2 DEF StoreInv, StoreTypeOK, work
<1>4. PlaceInv'
  BY <1>1, <1>2, Places, PlacedInPlace
<1>5. CommitInv'
  BY <1>1 DEF StoreInv, CommitInv
<1> QED BY <1>3, <1>4, <1>5 DEF StoreInv

LEMMA StoreReadScore ==
  ASSUME StoreInv, NEW r \in Requests, ReadScore(r)
  PROVE  StoreInv'
<1> DEFINE rows == Of(db.scores, ask[r].alert)
<1>0. PICK to : to = IF rows = {} THEN "readPrediction" ELSE "readFactors"
  OBVIOUS
<1>1. /\ Move(r, "read", to) /\ ask[r].kind = "get" /\ calm' \subseteq calm \cup {r}
      /\ UNCHANGED <<db, committed, work, before, scored, mixed, disturbed>>
  BY <1>0 DEF ReadScore
<1>2. /\ pc[r] = "read" /\ pc' \in [Requests -> {"idle"} \cup InFlight \cup Ended]
      /\ database' = database /\ ask' = ask
  BY <1>0, <1>1, Places, Moves DEF StoreInv
<1>3. seen' \in [Requests -> Reading]
  <2>1. CASE rows = {}
    BY <2>1 DEF ReadScore, StoreInv, StoreTypeOK
  <2>2. CASE rows # {}
    <3>1. PICK row \in rows : seen' = [seen EXCEPT ![r].scores = {row}]
      BY <2>2 DEF ReadScore
    <3>2. row \in Score
      BY DEF Of, StoreInv, StoreTypeOK, Tables
    <3> QED BY <3>1, <3>2 DEF StoreInv, StoreTypeOK, Reading
  <2> QED BY <2>1, <2>2
<1>4. StoreTypeOK'
  BY <1>1, <1>2, <1>3 DEF StoreInv, StoreTypeOK, work
<1>5. PlaceInv'
  <2>1. next[r] = 1
    BY <1>2, Places DEF StoreInv, PlaceInv
  <2> QED BY <1>0, <1>1, <2>1, Places, KindsAtPlaces, PlacedInPlace
<1> QED BY <1>1, <1>2, <1>4, <1>5, Committed DEF StoreInv

LEMMA StoreReadFactors ==
  ASSUME StoreInv, NEW r \in Requests, ReadFactors(r)
  PROVE  StoreInv'
<1>1. /\ Move(r, "readFactors", "readPrediction")
      /\ seen' = [seen EXCEPT ![r].factors = Of(db.factors, ask[r].alert)]
      /\ UNCHANGED <<db, committed, work, history>>
  BY DEF ReadFactors
<1>2. /\ pc[r] = "readFactors" /\ pc' \in [Requests -> {"idle"} \cup InFlight \cup Ended]
      /\ database' = database /\ ask' = ask
  BY <1>1, Places, Moves DEF StoreInv
<1>3. seen' \in [Requests -> Reading]
  <2>1. Of(db.factors, ask[r].alert) \in SUBSET Factor
    BY DEF Of, StoreInv, StoreTypeOK, Tables
  <2> QED BY <1>1, <2>1, ZenonT(30) DEF StoreInv, StoreTypeOK, Reading
<1>4. StoreTypeOK'
  BY <1>1, <1>2, <1>3 DEF StoreInv, StoreTypeOK, work, history
<1>5. PlaceInv'
  <2>1. next[r] = 1 /\ ask[r].kind \in KindsAt["readPrediction"]
    BY <1>2, Places, KindsAtPlaces DEF StoreInv, PlaceInv
  <2> QED BY <1>1, <2>1, Places, PlacedInPlace
<1> QED BY <1>1, <1>2, <1>4, <1>5, Committed DEF StoreInv

LEMMA StoreReadPrediction ==
  ASSUME StoreInv, NEW r \in Requests, ReadPrediction(r)
  PROVE  StoreInv'
<1> DEFINE rows == Of(db.predictions, ask[r].alert)
<1>1. /\ Move(r, "readPrediction", "ok")
      /\ UNCHANGED <<db, committed, work, history>>
  BY DEF ReadPrediction
<1>2. /\ pc[r] = "readPrediction" /\ pc' \in [Requests -> {"idle"} \cup InFlight \cup Ended]
      /\ database' = database /\ ask' = ask
  BY <1>1, Places, Moves DEF StoreInv
<1>3. seen' \in [Requests -> Reading]
  <2>1. CASE rows = {}
    BY <2>1 DEF ReadPrediction, StoreInv, StoreTypeOK
  <2>2. CASE rows # {}
    <3>1. PICK p \in LatestPrediction(rows) : seen' = [seen EXCEPT ![r].predictions = {p}]
      BY <2>2 DEF ReadPrediction
    <3>2. p \in Prediction
      BY DEF Of, LatestPrediction, StoreInv, StoreTypeOK, Tables
    <3> QED BY <3>1, <3>2 DEF StoreInv, StoreTypeOK, Reading
  <2> QED BY <2>1, <2>2
<1>4. StoreTypeOK'
  BY <1>1, <1>2, <1>3 DEF StoreInv, StoreTypeOK, work, history
<1>5. PlaceInv'
  <2>1. next[r] = 1
    BY <1>2, Places DEF StoreInv, PlaceInv
  <2> QED BY <1>1, <2>1, Places, PlacedInPlace
<1> QED BY <1>1, <1>2, <1>4, <1>5, Committed DEF StoreInv

LEMMA StoreReadQueue ==
  ASSUME StoreInv, NEW r \in Requests, ReadQueue(r)
  PROVE  StoreInv'
<1>1. PICK rows \in SUBSET OpenRows :
      /\ Move(r, "read", "count") /\ ask[r].kind = "queue"
      /\ seen' = [seen EXCEPT ![r].scores = rows] /\ calm' \subseteq calm \cup {r}
      /\ UNCHANGED <<db, committed, work, before, scored, mixed, disturbed>>
  BY DEF ReadQueue
<1>2. /\ pc[r] = "read" /\ pc' \in [Requests -> {"idle"} \cup InFlight \cup Ended]
      /\ database' = database /\ ask' = ask
  BY <1>1, Places, Moves DEF StoreInv
<1>3. seen' \in [Requests -> Reading]
  <2>1. rows \in SUBSET Score
    BY DEF OpenRows, StoreInv, StoreTypeOK, Tables
  <2> QED BY <1>1, <2>1 DEF StoreInv, StoreTypeOK, Reading
<1>4. StoreTypeOK'
  BY <1>1, <1>2, <1>3 DEF StoreInv, StoreTypeOK, work
<1>5. PlaceInv'
  <2>1. next[r] = 1
    BY <1>2, Places DEF StoreInv, PlaceInv
  <2> QED BY <1>1, <2>1, Places, KindsAtPlaces, PlacedInPlace
<1> QED BY <1>1, <1>2, <1>4, <1>5, Committed DEF StoreInv

LEMMA StoreCountQueue ==
  ASSUME StoreInv, NEW r \in Requests, CountQueue(r)
  PROVE  StoreInv'
<1>1. /\ Move(r, "count", "ok")
      /\ seen' = [seen EXCEPT ![r].total = Cardinality(OpenRows)]
      /\ UNCHANGED <<db, committed, work, history>>
  BY DEF CountQueue
<1>2. /\ pc[r] = "count" /\ pc' \in [Requests -> {"idle"} \cup InFlight \cup Ended]
      /\ database' = database /\ ask' = ask
  BY <1>1, Places, Moves DEF StoreInv
<1>3. seen' \in [Requests -> Reading]
  <2>1. OpenRows \subseteq db.scores
    BY DEF OpenRows
  <2>2. Cardinality(OpenRows) \in Nat
    BY <2>1, FS_Subset, FS_CardinalityType DEF StoreInv, CommitInv
  <2> QED BY <1>1, <2>2 DEF StoreInv, StoreTypeOK, Reading
<1>4. StoreTypeOK'
  BY <1>1, <1>2, <1>3 DEF StoreInv, StoreTypeOK, work, history
<1>5. PlaceInv'
  <2>1. next[r] = 1
    BY <1>2, Places DEF StoreInv, PlaceInv
  <2> QED BY <1>1, <2>1, Places, PlacedInPlace
<1> QED BY <1>1, <1>2, <1>4, <1>5, Committed DEF StoreInv

LEMMA StoreStutter ==
  ASSUME StoreInv, UNCHANGED storeVars
  PROVE  StoreInv'
<1>1. UNCHANGED <<database, ask, db, committed, pc, todo, offset, next, seen,
                  before, scored, mixed, disturbed, calm>>
  BY DEF storeVars, work, history
<1>2. StoreTypeOK'
  BY <1>1 DEF StoreInv, StoreTypeOK
<1>3. PlaceInv' /\ CommitInv'
  BY <1>1 DEF StoreInv, PlaceInv, CommitInv
<1> QED BY <1>2, <1>3 DEF StoreInv

LEMMA StoreStep == StoreInv /\ [StoreNext]_storeVars => StoreInv'
<1> SUFFICES ASSUME StoreInv, [StoreNext]_storeVars PROVE StoreInv'
  OBVIOUS
<1>1. CASE UNCHANGED storeVars
  BY <1>1, StoreStutter
<1>2. CASE StoreNext
  <2>1. PICK r \in Requests : Step(r) \/ Fail(r)
    BY <1>2 DEF StoreNext
  <2>2. CASE Fail(r)
    BY <2>2, StoreFail
  <2>3. CASE Step(r)
    BY <2>3, StoreReceive, StoreReadPage, StoreDeleteScore, StoreInsertScore,
       StoreDeleteFactors, StoreInsertFactor, StoreEndBlock, StoreSavePrediction,
       StoreReadScore, StoreReadFactors, StoreReadPrediction, StoreReadQueue,
       StoreCountQueue DEF Step
  <2> QED BY <2>1, <2>2, <2>3
<1> QED BY <1>1, <1>2

LEMMA StoreInvariance == StoreSpec => []StoreInv
BY StoreInitial, StoreStep, PTL DEF StoreSpec

\* Types of the store: every row is about an alert and by a request that may be there,
\* and what a reader holds are rows of the tables and a number.
THEOREM StoreTypes == StoreSpec => []StoreTypeOK
BY StoreInvariance, PTL DEF StoreInv

-----------------------------------------------------------------------------
(* Blocks that can reach into each other, and what a save has done so far. *)

Saves(r) == r \in Blocks /\ ask[r].kind # "predict"

\* Two blocks meet on the connection, or on the rows of an alert.
Meet(r, s) ==
  \/ database = "sqlite"
  \/ ask[r].kind # "predict" /\ ask[s].kind # "predict" /\ Current(r) = Current(s)

MeetInv == \A r, s \in Blocks : r # s /\ Meet(r, s) => r \in mixed

FactorsOf(a, r, n) == {[alert |-> a, by |-> r, code |-> f] : f \in 1..n}

\* A save that met no other has done exactly the statements before the one it is at.
ProgressInv ==
  \A r \in Requests : Saves(r) /\ r \notin mixed =>
    LET a == Current(r)
    IN  /\ pc[r] = "insert" => Of(db.scores, a) = {}
        /\ pc[r] # "insert" => Of(db.scores, a) = {[alert |-> a, by |-> r]}
        /\ pc[r] = "factors" => Of(db.factors, a) = FactorsOf(a, r, next[r] - 1)
        /\ pc[r] = "commit" => Of(db.factors, a) = FactorsOf(a, r, Factors)

\* What a rollback leaves of an alert: one save, unless the last one was disturbed, or
\* one is going on whose statements are not only its own to take back; and what the
\* connection sees of an alert that nobody is saving is that.
CommittedInv ==
  \A a \in Alerts :
    /\ \/ a \in disturbed
       \/ \E r \in Requests : Saves(r) /\ Current(r) = a /\ (database = "hana" \/ r \in mixed)
       \/ Whole(a, Of(committed.scores, a), Of(committed.factors, a))
    /\ \/ Saving(a)
       \/ Of(db.scores, a) = Of(committed.scores, a) /\ Of(db.factors, a) = Of(committed.factors, a)

SaveInv == MeetInv /\ ProgressInv /\ CommittedInv

LEMMA SavingIs ==
  ASSUME NEW a
  PROVE  Saving(a) <=> \E r \in Requests : Saves(r) /\ Current(r) = a
BY DEF Saving, Saves, Blocks

\* The steps outside of the blocks.
Aside(r) ==
  \/ Receive(r) \/ ReadPage(r)
  \/ ReadScore(r) \/ ReadFactors(r) \/ ReadPrediction(r) \/ ReadQueue(r) \/ CountQueue(r)

LEMMA AsideLeavesBlocks ==
  ASSUME StoreInv, NEW r \in Requests, Aside(r)
  PROVE  /\ UNCHANGED <<database, ask, db, committed, mixed, disturbed, scored, next>>
         /\ r \notin Blocks /\ Blocks' = Blocks
         /\ \A s \in Requests \ {r} : pc'[s] = pc[s] /\ todo'[s] = todo[s]
<1>1. /\ UNCHANGED <<db, committed, mixed, disturbed, scored, next>>
      /\ \A s \in Requests \ {r} : todo'[s] = todo[s]
  BY DEF Aside, Receive, ReadPage, ReadScore, ReadFactors, ReadPrediction, ReadQueue, CountQueue,
         history, work, StoreInv, StoreTypeOK
<1>2. PICK from, to : Move(r, from, to) /\ from \notin InBlock /\ to \notin InBlock
  <2>1. CASE Receive(r)
    BY <2>1, ReceiveMoves, Places
  <2>2. CASE ReadPage(r)
    <3>1. PICK page \in Pages(offset[r], PageSize) :
            Move(r, "page", IF page = << >> THEN "ok" ELSE "delete")
      BY <2>2 DEF ReadPage
    <3> QED BY <3>1, Places
  <2>3. CASE ReadScore(r)
    <3>1. Move(r, "read", IF Of(db.scores, ask[r].alert) = {} THEN "readPrediction" ELSE "readFactors")
      BY <2>3 DEF ReadScore
    <3> QED BY <3>1, Places
  <2>4. CASE ReadFactors(r)
    BY <2>4, Places DEF ReadFactors
  <2>5. CASE ReadPrediction(r)
    BY <2>5, Places DEF ReadPrediction
  <2>6. CASE ReadQueue(r) \/ CountQueue(r)
    BY <2>6, Places DEF ReadQueue, CountQueue
  <2> QED BY <2>1, <2>2, <2>3, <2>4, <2>5, <2>6 DEF Aside
<1>3. /\ pc[r] = from /\ pc'[r] = to /\ database' = database /\ ask' = ask
      /\ \A s \in Requests \ {r} : pc'[s] = pc[s]
  BY <1>2, Moves DEF StoreInv
<1>4. r \notin Blocks /\ Blocks' = Blocks
  BY <1>2, <1>3 DEF Blocks
<1> QED BY <1>1, <1>3, <1>4

LEMMA SaveAside ==
  ASSUME StoreInv, SaveInv, NEW r \in Requests, Aside(r)
  PROVE  SaveInv'
<1>1. /\ UNCHANGED <<database, ask, db, committed, mixed, disturbed, scored, next>>
      /\ r \notin Blocks /\ Blocks' = Blocks
      /\ \A s \in Blocks : pc'[s] = pc[s] /\ todo'[s] = todo[s]
  BY AsideLeavesBlocks DEF Blocks
<1>2. /\ \A s \in Blocks : Current(s)' = Current(s)
      /\ \A s : Saves(s)' <=> Saves(s)
  BY <1>1 DEF Current, Saves
<1>3. MeetInv'
  BY <1>1, <1>2 DEF SaveInv, MeetInv, Meet
<1>4. ProgressInv'
  BY <1>1, <1>2 DEF SaveInv, ProgressInv, Saves, Of, FactorsOf
<1>5. CommittedInv'
  <2> SUFFICES ASSUME NEW a \in Alerts
               PROVE  /\ \/ a \in disturbed
                         \/ \E s \in Requests : /\ Saves(s)' /\ Current(s)' = a
                                                /\ database' = "hana" \/ s \in mixed
                         \/ Whole(a, Of(committed.scores, a), Of(committed.factors, a))
                      /\ \/ Saving(a)'
                         \/ /\ Of(db.scores, a) = Of(committed.scores, a)
                            /\ Of(db.factors, a) = Of(committed.factors, a)
    BY <1>1 DEF CommittedInv, Whole, Of
  <2>1. Saving(a)' <=> Saving(a)
    BY <1>1, <1>2 DEF Saving, Blocks, Saves
  <2> QED BY <1>1, <1>2, <2>1 DEF SaveInv, CommittedInv, Saves
<1> QED BY <1>3, <1>4, <1>5 DEF SaveInv

\* A block that begins draws in those it meets.
LEMMA BlockDraws ==
  ASSUME MeetInv, NEW r \in Requests, r \notin Blocks, NEW a, BeginBlock(r, a),
         Blocks' = Blocks \cup {r}, UNCHANGED <<database, ask, todo>>,
         ask[r].kind # "predict" => a = Current(r)
  PROVE  /\ MeetInv' /\ mixed \ {r} \subseteq mixed'
         /\ \A s \in Blocks : Meet(r, s) => s \in mixed' /\ r \in mixed'
<1> DEFINE others == Reaching(r, a)
<1>1. mixed' = IF others = {} THEN mixed \ {r} ELSE mixed \cup others \cup {r}
  BY DEF BeginBlock
<1>2. \A s \in Blocks : Meet(r, s) => s \in others
  BY DEF Reaching, Meet
<1>3. \A s \in Blocks : Meet(r, s) => s \in mixed' /\ r \in mixed'
  <2> HIDE DEF others
  <2> QED BY <1>1, <1>2
<1>4. mixed \ {r} \subseteq mixed'
  <2> HIDE DEF others
  <2> QED BY <1>1
<1>5. MeetInv'
  <2> SUFFICES ASSUME NEW s \in Blocks', NEW t \in Blocks', s # t, Meet(s, t)
               PROVE  s \in mixed'
    BY DEF MeetInv, Meet, Current
  <2>1. CASE s = r \/ t = r
    <3>1. Meet(t, s)
      BY DEF Meet
    <3> QED BY <1>3, <2>1, <3>1
  <2>2. CASE s # r /\ t # r
    BY <1>4, <2>2 DEF MeetInv
  <2> QED BY <2>1, <2>2
<1> QED BY <1>3, <1>4, <1>5

LEMMA SaveDeleteScore ==
  ASSUME StoreInv, SaveInv, NEW r \in Requests, DeleteScore(r)
  PROVE  SaveInv'
<1>1. /\ UNCHANGED <<database, ask, todo, next, disturbed, scored>>
      /\ pc[r] = "delete" /\ pc'[r] = "insert" /\ \A s \in Requests \ {r} : pc'[s] = pc[s]
      /\ r \notin Blocks /\ Blocks' = Blocks \cup {r}
      /\ ask[r].kind # "predict" /\ BeginBlock(r, Current(r))
      /\ db'.scores = {row \in db.scores : row.alert # Current(r)}
      /\ db'.factors = db.factors
      /\ IF database = "hana" THEN committed' = db' ELSE committed' = committed
  BY DeleteScoreIs DEF work
<1>2. /\ MeetInv' /\ mixed \ {r} \subseteq mixed'
      /\ \A s \in Blocks : Meet(r, s) => s \in mixed' /\ r \in mixed'
  BY <1>1, BlockDraws DEF SaveInv
<1>3. /\ \A s : Current(s)' = Current(s)
      /\ \A s : Saves(s)' <=> s = r \/ Saves(s)
  BY <1>1 DEF Current, Saves
<1>4. /\ Of(db'.scores, Current(r)) = {}
      /\ \A a : a # Current(r) => Of(db'.scores, a) = Of(db.scores, a)
      /\ \A a : Of(db'.factors, a) = Of(db.factors, a)
  BY <1>1 DEF Of
<1>5. ProgressInv'
  <2> SUFFICES ASSUME NEW s \in Requests, Saves(s)', s \notin mixed'
               PROVE  LET a == Current(s)
                      IN  /\ pc'[s] = "insert" => Of(db'.scores, a) = {}
                          /\ pc'[s] # "insert" => Of(db'.scores, a) = {[alert |-> a, by |-> s]}
                          /\ pc'[s] = "factors" => Of(db'.factors, a) = FactorsOf(a, s, next[s] - 1)
                          /\ pc'[s] = "commit" => Of(db'.factors, a) = FactorsOf(a, s, Factors)
    BY <1>1, <1>3 DEF ProgressInv, Of, FactorsOf
  <2>1. CASE s = r
    BY <1>1, <1>4, <2>1
  <2>2. CASE s # r
    <3>1. Saves(s) /\ s \notin mixed /\ ~Meet(r, s)
      BY <1>2, <1>3, <2>2 DEF Saves
    <3>2. Current(s) # Current(r)
      BY <1>1, <3>1 DEF Meet, Saves
    <3> QED BY <1>1, <1>4, <2>2, <3>1, <3>2 DEF SaveInv, ProgressInv
  <2> QED BY <2>1, <2>2
<1>6. CommittedInv'
  <2> SUFFICES ASSUME NEW a \in Alerts
               PROVE  /\ \/ a \in disturbed
                         \/ \E s \in Requests : /\ Saves(s)' /\ Current(s) = a
                                                /\ database = "hana" \/ s \in mixed'
                         \/ Whole(a, Of(committed'.scores, a), Of(committed'.factors, a))
                      /\ \/ \E s \in Requests : Saves(s)' /\ Current(s) = a
                         \/ /\ Of(db'.scores, a) = Of(committed'.scores, a)
                            /\ Of(db'.factors, a) = Of(committed'.factors, a)
    BY <1>1, <1>3, SavingIs DEF CommittedInv, Whole, Of, Saving, Saves, Blocks
  <2>1. CASE a = Current(r)
    <3>1. CASE database = "hana"
      BY <1>3, <2>1, <3>1
    <3>2. CASE database # "hana"
      BY <1>1, <1>2, <1>3, <2>1, <3>2 DEF SaveInv, CommittedInv, Saves
    <3> QED BY <3>1, <3>2
  <2>2. CASE a # Current(r)
    <3>1. /\ Of(committed'.scores, a) = Of(committed.scores, a)
          /\ Of(committed'.factors, a) = Of(committed.factors, a)
      BY <1>1, <1>4, <2>2 DEF StoreInv, CommitInv
    <3> QED BY <1>1, <1>2, <1>3, <1>4, <2>2, <3>1, SavingIs DEF SaveInv, CommittedInv, Saves
  <2> QED BY <2>1, <2>2
<1> QED BY <1>2, <1>5, <1>6 DEF SaveInv

\* The statements inside a save touch the rows of its alert.
Writes(r) == InsertScore(r) \/ DeleteFactors(r) \/ InsertFactor(r)

LEMMA WritesIs ==
  ASSUME StoreInv, NEW r \in Requests, Writes(r)
  PROVE  /\ UNCHANGED <<database, ask, todo, offset, seen, history>>
         /\ Saves(r) /\ Blocks' = Blocks /\ Current(r) \in Alerts
         /\ \A s \in Requests \ {r} : pc'[s] = pc[s] /\ next'[s] = next[s]
         /\ \A a : a # Current(r) =>
              Of(db'.scores, a) = Of(db.scores, a) /\ Of(db'.factors, a) = Of(db.factors, a)
         /\ IF database = "hana" THEN committed' = db' ELSE committed' = committed
<1>1. CASE InsertScore(r)
  <2>1. /\ UNCHANGED <<database, ask, work, seen, history>>
        /\ pc[r] = "insert" /\ pc'[r] = "clear" /\ \A s \in Requests \ {r} : pc'[s] = pc[s]
        /\ db'.scores = db.scores \cup {[alert |-> Current(r), by |-> r]}
        /\ db'.factors = db.factors
        /\ IF database = "hana" THEN committed' = db' ELSE committed' = committed
    BY <1>1, InsertScoreIs
  <2>2. Saves(r) /\ Blocks' = Blocks /\ Current(r) \in Alerts
    BY <2>1, AtSave, Places DEF Saves, Blocks
  <2> QED BY <2>1, <2>2 DEF Of, work
<1>2. CASE DeleteFactors(r)
  <2>1. /\ UNCHANGED <<database, ask, work, seen, history>>
        /\ pc[r] = "clear" /\ pc'[r] = "factors" /\ \A s \in Requests \ {r} : pc'[s] = pc[s]
        /\ db'.factors = {row \in db.factors : row.alert # Current(r)}
        /\ db'.scores = db.scores
        /\ IF database = "hana" THEN committed' = db' ELSE committed' = committed
    BY <1>2, DeleteFactorsIs
  <2>2. Saves(r) /\ Blocks' = Blocks /\ Current(r) \in Alerts
    BY <2>1, AtSave, Places DEF Saves, Blocks
  <2> QED BY <2>1, <2>2 DEF Of, work
<1>3. CASE InsertFactor(r)
  <2>1. /\ UNCHANGED <<database, ask, todo, offset, seen, history>>
        /\ pc[r] = "factors" /\ \A s \in Requests \ {r} : pc'[s] = pc[s] /\ next'[s] = next[s]
        /\ pc'[r] \in {"factors", "commit"}
        /\ db'.factors = db.factors \cup {[alert |-> Current(r), by |-> r, code |-> next[r]]}
        /\ db'.scores = db.scores
        /\ IF database = "hana" THEN committed' = db' ELSE committed' = committed
    BY <1>3, InsertFactorIs
  <2>2. Saves(r) /\ Blocks' = Blocks /\ Current(r) \in Alerts
    BY <2>1, AtSave, Places DEF Saves, Blocks
  <2> QED BY <2>1, <2>2 DEF Of
<1> QED BY <1>1, <1>2, <1>3 DEF Writes

\* The next statement adds what it is about to what was there.
LEMMA WritesProgress ==
  ASSUME StoreInv, SaveInv, NEW r \in Requests, Writes(r), r \notin mixed
  PROVE  LET a == Current(r)
         IN  /\ pc'[r] = "insert" => Of(db'.scores, a) = {}
             /\ pc'[r] # "insert" => Of(db'.scores, a) = {[alert |-> a, by |-> r]}
             /\ pc'[r] = "factors" => Of(db'.factors, a) = FactorsOf(a, r, next'[r] - 1)
             /\ pc'[r] = "commit" => Of(db'.factors, a) = FactorsOf(a, r, Factors)
<1> DEFINE a == Current(r)
<1>1. /\ pc[r] = "insert" => Of(db.scores, a) = {}
      /\ pc[r] # "insert" => Of(db.scores, a) = {[alert |-> a, by |-> r]}
      /\ pc[r] = "factors" => Of(db.factors, a) = FactorsOf(a, r, next[r] - 1)
  BY WritesIs DEF SaveInv, ProgressInv
<1>2. CASE InsertScore(r)
  <2>1. /\ pc[r] = "insert" /\ pc'[r] = "clear"
        /\ db'.scores = db.scores \cup {[alert |-> Current(r), by |-> r]}
    BY <1>2, InsertScoreIs
  <2>2. Of(db'.scores, a) = {[alert |-> a, by |-> r]}
    BY <1>1, <2>1 DEF Of
  <2> QED BY <2>1, <2>2
<1>3. CASE DeleteFactors(r)
  <2>1. /\ pc[r] = "clear" /\ pc'[r] = "factors"
        /\ db'.factors = {row \in db.factors : row.alert # a}
        /\ db'.scores = db.scores /\ next'[r] = next[r]
    BY <1>3, DeleteFactorsIs DEF work
  <2>2. next[r] = 1
    BY <2>1, AtSave
  <2>3. Of(db'.factors, a) = {} /\ FactorsOf(a, r, 0) = {}
    BY <2>1 DEF Of, FactorsOf
  <2>4. next'[r] - 1 = 0
    BY <2>1, <2>2
  <2>5. Of(db'.scores, a) = {[alert |-> a, by |-> r]}
    BY <1>1, <2>1
  <2> QED BY <2>1, <2>3, <2>4, <2>5
<1>4. CASE InsertFactor(r)
  <2>1. /\ pc[r] = "factors" /\ next[r] \in 1..Factors
        /\ \/ pc'[r] = "factors" /\ next'[r] = next[r] + 1
           \/ pc'[r] = "commit" /\ next[r] = Factors
        /\ db'.factors = db.factors \cup {[alert |-> a, by |-> r, code |-> next[r]]}
        /\ db'.scores = db.scores
    BY <1>4, InsertFactorIs
  <2>2. PICK n \in 1..Factors : n = next[r]
    BY <2>1
  <2>3. 1..n = (1..(n - 1)) \cup {n}
    OBVIOUS
  <2>4. FactorsOf(a, r, n) = FactorsOf(a, r, n - 1) \cup {[alert |-> a, by |-> r, code |-> n]}
    BY <2>3 DEF FactorsOf
  <2>5. Of(db'.factors, a) = Of(db.factors, a) \cup {[alert |-> a, by |-> r, code |-> n]}
    BY <2>1, <2>2 DEF Of
  <2>6. Of(db'.factors, a) = FactorsOf(a, r, n)
    BY <1>1, <2>1, <2>2, <2>4, <2>5
  <2>7. pc'[r] = "factors" => next'[r] - 1 = n
    BY <2>1, <2>2
  <2>8. Of(db'.scores, a) = {[alert |-> a, by |-> r]}
    BY <1>1, <2>1
  <2> QED BY <2>1, <2>2, <2>6, <2>7, <2>8
<1> QED BY <1>2, <1>3, <1>4 DEF Writes

LEMMA SaveWrites ==
  ASSUME StoreInv, SaveInv, NEW r \in Requests, Writes(r)
  PROVE  SaveInv'
<1>1. /\ UNCHANGED <<database, ask, todo, mixed, disturbed>>
      /\ Saves(r) /\ Blocks' = Blocks /\ Current(r) \in Alerts
      /\ \A s \in Requests \ {r} : pc'[s] = pc[s] /\ next'[s] = next[s]
      /\ \A a : a # Current(r) =>
           Of(db'.scores, a) = Of(db.scores, a) /\ Of(db'.factors, a) = Of(db.factors, a)
      /\ IF database = "hana" THEN committed' = db' ELSE committed' = committed
  BY WritesIs DEF history
<1>2. /\ \A s : Current(s)' = Current(s)
      /\ \A s : Saves(s)' <=> Saves(s)
  BY <1>1 DEF Current, Saves
<1>3. MeetInv'
  BY <1>1, <1>2 DEF SaveInv, MeetInv, Meet
<1>4. ProgressInv'
  <2> SUFFICES ASSUME NEW s \in Requests, Saves(s), s \notin mixed
               PROVE  LET a == Current(s)
                      IN  /\ pc'[s] = "insert" => Of(db'.scores, a) = {}
                          /\ pc'[s] # "insert" => Of(db'.scores, a) = {[alert |-> a, by |-> s]}
                          /\ pc'[s] = "factors" => Of(db'.factors, a) = FactorsOf(a, s, next'[s] - 1)
                          /\ pc'[s] = "commit" => Of(db'.factors, a) = FactorsOf(a, s, Factors)
    BY <1>1, <1>2 DEF ProgressInv, Of, FactorsOf
  <2>1. CASE s = r
    BY <2>1, WritesProgress
  <2>2. CASE s # r
    <3>1. ~Meet(s, r)
      BY <1>1, <2>2 DEF SaveInv, MeetInv, Saves
    <3>2. Current(s) # Current(r)
      BY <1>1, <3>1 DEF Meet, Saves
    <3> QED BY <1>1, <2>2, <3>2 DEF SaveInv, ProgressInv
  <2> QED BY <2>1, <2>2
<1>5. CommittedInv'
  <2> SUFFICES ASSUME NEW a \in Alerts
               PROVE  /\ \/ a \in disturbed
                         \/ \E s \in Requests : /\ Saves(s) /\ Current(s) = a
                                                /\ database = "hana" \/ s \in mixed
                         \/ Whole(a, Of(committed'.scores, a), Of(committed'.factors, a))
                      /\ \/ \E s \in Requests : Saves(s) /\ Current(s) = a
                         \/ /\ Of(db'.scores, a) = Of(committed'.scores, a)
                            /\ Of(db'.factors, a) = Of(committed'.factors, a)
    BY <1>1, <1>2, SavingIs DEF CommittedInv, Whole, Of, Saving, Saves, Blocks
  <2>1. CASE a = Current(r)
    <3>1. CASE database = "hana"
      BY <1>1, <2>1, <3>1
    <3>2. CASE database # "hana"
      BY <1>1, <2>1, <3>2 DEF SaveInv, CommittedInv
    <3> QED BY <3>1, <3>2
  <2>2. CASE a # Current(r)
    <3>1. /\ Of(committed'.scores, a) = Of(committed.scores, a)
          /\ Of(committed'.factors, a) = Of(committed.factors, a)
      BY <1>1, <2>2 DEF StoreInv, CommitInv
    <3> QED BY <1>1, <2>2, <3>1, SavingIs DEF SaveInv, CommittedInv
  <2> QED BY <2>1, <2>2
<1> QED BY <1>3, <1>4, <1>5 DEF SaveInv

\* A block that ends leaves the others where they were.
LEMMA BlockLeaves ==
  ASSUME SaveInv, NEW r \in Requests, Blocks' = Blocks \ {r}, UNCHANGED <<ask, database>>,
         mixed \subseteq mixed',
         \A s \in Requests \ {r} : pc'[s] = pc[s] /\ todo'[s] = todo[s]
  PROVE  /\ \A s \in Blocks \ {r} : Current(s)' = Current(s) /\ pc'[s] = pc[s]
         /\ \A s : Saves(s)' <=> s # r /\ Saves(s)
         /\ MeetInv'
<1>1. \A s \in Blocks \ {r} : Current(s)' = Current(s) /\ pc'[s] = pc[s]
  BY DEF Current, Blocks
<1>2. \A s : Saves(s)' <=> s # r /\ Saves(s)
  BY DEF Saves
<1>3. MeetInv'
  BY <1>1 DEF SaveInv, MeetInv, Meet
<1> QED BY <1>1, <1>2, <1>3

LEMMA SaveEndBlock ==
  ASSUME StoreInv, SaveInv, NEW r \in Requests, EndBlock(r)
  PROVE  SaveInv'
<1>1. /\ UNCHANGED <<database, ask, next, db, mixed>> /\ committed' = db
      /\ pc[r] = "commit" /\ r \in Blocks /\ Blocks' = Blocks \ {r} /\ Current(r) \in Alerts
      /\ \A s \in Requests \ {r} : pc'[s] = pc[s] /\ todo'[s] = todo[s]
  BY EndBlockIs
<1>2. /\ \A s \in Blocks \ {r} : Current(s)' = Current(s) /\ pc'[s] = pc[s]
      /\ \A s : Saves(s)' <=> s # r /\ Saves(s)
      /\ MeetInv'
  BY <1>1, BlockLeaves
<1>3. ProgressInv'
  BY <1>1, <1>2 DEF SaveInv, ProgressInv, Of, FactorsOf, Saves
<1>4. /\ ask[r].kind = "predict" => disturbed' = disturbed
      /\ ask[r].kind # "predict" /\ r \in mixed => disturbed' = disturbed \cup {Current(r)}
      /\ ask[r].kind # "predict" /\ r \notin mixed => disturbed' = disturbed \ {Current(r)}
  BY DEF EndBlock
<1>5. CommittedInv'
  <2> SUFFICES ASSUME NEW a \in Alerts
               PROVE  \/ a \in disturbed'
                      \/ \E s \in Requests : /\ Saves(s)' /\ Current(s)' = a
                                             /\ database = "hana" \/ s \in mixed
                      \/ Whole(a, Of(db.scores, a), Of(db.factors, a))
    BY <1>1 DEF CommittedInv, Whole, Of
  <2>1. CASE ask[r].kind # "predict" /\ Current(r) = a
    <3>1. CASE r \in mixed
      BY <1>4, <2>1, <3>1
    <3>2. CASE r \notin mixed
      <4>1. /\ Of(db.scores, a) = {[alert |-> a, by |-> r]}
            /\ Of(db.factors, a) = FactorsOf(a, r, Factors)
        BY <1>1, <2>1, <3>2 DEF SaveInv, ProgressInv, Saves
      <4> QED BY <4>1 DEF Whole, FactorsOf
    <3> QED BY <3>1, <3>2
  <2>2. CASE ~(ask[r].kind # "predict" /\ Current(r) = a)
    <3>1. a \in disturbed => a \in disturbed'
      BY <1>4, <2>2
    <3>2. CASE \E s \in Requests : Saves(s) /\ Current(s) = a
      <4>1. PICK s \in Requests : Saves(s) /\ Current(s) = a
        BY <3>2
      <4>2. s # r
        BY <2>2, <4>1 DEF Saves
      <4>3. Saves(s)' /\ Current(s)' = a
        BY <1>2, <4>1, <4>2 DEF Saves
      <4>4. database = "sqlite" => s \in mixed
        BY <1>1, <4>1, <4>2 DEF SaveInv, MeetInv, Meet, Saves
      <4>5. database \in {"hana", "sqlite"}
        BY DatabasesAssumption DEF StoreInv, StoreTypeOK
      <4> QED BY <4>3, <4>4, <4>5
    <3>3. CASE ~\E s \in Requests : Saves(s) /\ Current(s) = a
      <4>1. /\ Of(db.scores, a) = Of(committed.scores, a)
            /\ Of(db.factors, a) = Of(committed.factors, a)
            /\ a \in disturbed \/ Whole(a, Of(committed.scores, a), Of(committed.factors, a))
        BY <3>3, SavingIs DEF SaveInv, CommittedInv
      <4> QED BY <3>1, <4>1
    <3> QED BY <3>2, <3>3
  <2> QED BY <2>1, <2>2
<1> QED BY <1>2, <1>3, <1>5 DEF SaveInv

LEMMA SaveSavePrediction ==
  ASSUME StoreInv, SaveInv, NEW r \in Requests, SavePrediction(r)
  PROVE  SaveInv'
<1>1. /\ UNCHANGED <<database, ask, todo, next, disturbed>>
      /\ ask[r].kind = "predict" /\ BeginBlock(r, ask[r].alert)
      /\ \A s \in Requests \ {r} : pc'[s] = pc[s]
      /\ r \notin Blocks /\ Blocks' = Blocks \cup {r}
      /\ db'.scores = db.scores /\ db'.factors = db.factors
      /\ committed'.scores = committed.scores /\ committed'.factors = committed.factors
  BY SavePredictionIs DEF work
<1>2. MeetInv' /\ mixed \ {r} \subseteq mixed'
  BY <1>1, BlockDraws DEF SaveInv
<1>3. /\ \A s : Current(s)' = Current(s)
      /\ \A s : Saves(s)' <=> Saves(s)
      /\ \A s : Saves(s) => s # r
      /\ \A s : Saves(s) => pc'[s] = pc[s]
  BY <1>1 DEF Current, Saves, Blocks
<1>4. ProgressInv'
  BY <1>1, <1>2, <1>3 DEF SaveInv, ProgressInv, Of, FactorsOf
<1>5. CommittedInv'
  <2> SUFFICES ASSUME NEW a \in Alerts
               PROVE  /\ \/ a \in disturbed
                         \/ \E s \in Requests : /\ Saves(s) /\ Current(s) = a
                                                /\ database = "hana" \/ s \in mixed'
                         \/ Whole(a, Of(committed.scores, a), Of(committed.factors, a))
                      /\ \/ \E s \in Requests : Saves(s) /\ Current(s) = a
                         \/ /\ Of(db.scores, a) = Of(committed.scores, a)
                            /\ Of(db.factors, a) = Of(committed.factors, a)
    BY <1>1, <1>3, SavingIs DEF CommittedInv, Whole, Of, Saving, Saves, Blocks
  <2> QED BY <1>2, <1>3, SavingIs DEF SaveInv, CommittedInv
<1> QED BY <1>2, <1>4, <1>5 DEF SaveInv

LEMMA SaveFail ==
  ASSUME StoreInv, SaveInv, NEW r \in Requests, Fail(r)
  PROVE  SaveInv'
<1>1. /\ UNCHANGED <<database, ask, committed, todo, next>>
      /\ \A s \in Requests \ {r} : pc'[s] = pc[s]
      /\ Blocks' = Blocks \ {r}
      /\ Cut(r) /\ mixed \subseteq mixed'
  BY FailIs DEF work
<1>2. /\ \A s \in Blocks \ {r} : Current(s)' = Current(s) /\ pc'[s] = pc[s]
      /\ \A s : Saves(s)' <=> s # r /\ Saves(s)
      /\ MeetInv'
  BY <1>1, BlockLeaves
<1>3. database \in {"hana", "sqlite"}
  BY DatabasesAssumption DEF StoreInv, StoreTypeOK
<1>4. ProgressInv'
  <2> SUFFICES ASSUME NEW s \in Requests, Saves(s)', s \notin mixed'
               PROVE  LET a == Current(s)'
                      IN  /\ pc'[s] = "insert" => Of(db'.scores, a) = {}
                          /\ pc'[s] # "insert" => Of(db'.scores, a) = {[alert |-> a, by |-> s]}
                          /\ pc'[s] = "factors" => Of(db'.factors, a) = FactorsOf(a, s, next[s] - 1)
                          /\ pc'[s] = "commit" => Of(db'.factors, a) = FactorsOf(a, s, Factors)
    BY <1>1 DEF ProgressInv, Of, FactorsOf
  <2>1. s # r /\ Saves(s) /\ s \in Blocks /\ Current(s)' = Current(s) /\ pc'[s] = pc[s]
    BY <1>2 DEF Saves
  <2>2. db' = db
    BY <1>1, <1>3, <2>1 DEF Cut, StoreInv, CommitInv
  <2> QED BY <1>1, <2>1, <2>2 DEF SaveInv, ProgressInv
<1>5. CommittedInv'
  <2> SUFFICES ASSUME NEW a \in Alerts
               PROVE  /\ \/ a \in disturbed'
                         \/ \E s \in Requests : /\ Saves(s)' /\ Current(s)' = a
                                                /\ database = "hana" \/ s \in mixed'
                         \/ Whole(a, Of(committed.scores, a), Of(committed.factors, a))
                      /\ \/ \E s \in Requests : Saves(s)' /\ Current(s)' = a
                         \/ /\ Of(db'.scores, a) = Of(committed.scores, a)
                            /\ Of(db'.factors, a) = Of(committed.factors, a)
    BY <1>1, SavingIs DEF CommittedInv, Whole, Of, Saving, Saves, Blocks
  <2>1. /\ disturbed \subseteq disturbed'
        /\ Saves(r) /\ (database = "hana" \/ r \in mixed) => Current(r) \in disturbed'
    BY <1>1 DEF Cut, Saves
  <2>2. \/ a \in disturbed'
        \/ \E s \in Requests : Saves(s)' /\ Current(s)' = a /\ (database = "hana" \/ s \in mixed')
        \/ Whole(a, Of(committed.scores, a), Of(committed.factors, a))
    BY <1>1, <1>2, <2>1 DEF SaveInv, CommittedInv, Saves
  <2>3. CASE db' = committed
    BY <2>2, <2>3
  <2>4. CASE r \notin Blocks /\ db' = db
    BY <1>1, <1>2, <2>2, <2>4, SavingIs DEF SaveInv, CommittedInv, Saves
  <2> QED BY <1>1, <2>3, <2>4 DEF Cut
<1> QED BY <1>2, <1>4, <1>5 DEF SaveInv

\* The actions, by what they do to the blocks.
LEMMA StepKinds ==
  ASSUME NEW r \in Requests, Step(r) \/ Fail(r)
  PROVE  Aside(r) \/ DeleteScore(r) \/ Writes(r) \/ EndBlock(r) \/ SavePrediction(r) \/ Fail(r)
BY DEF Step, Aside, Writes

LEMMA StoreUnchanged ==
  ASSUME UNCHANGED storeVars
  PROVE  UNCHANGED <<database, ask, db, committed, pc, todo, offset, next, seen,
                     before, scored, mixed, disturbed, calm>>
BY DEF storeVars, work, history

LEMMA SaveInitial == StoreInit => SaveInv
<1> SUFFICES ASSUME StoreInit PROVE SaveInv
  OBVIOUS
<1>1. Blocks = {} /\ \A a : Of({}, a) = {}
  BY Places DEF StoreInit, Blocks, Of
<1> QED BY <1>1 DEF StoreInit, NoRows, SaveInv, MeetInv, ProgressInv, CommittedInv, Saves, Whole

LEMMA SaveStep == StoreInv /\ SaveInv /\ [StoreNext]_storeVars => SaveInv'
<1> SUFFICES ASSUME StoreInv, SaveInv, [StoreNext]_storeVars PROVE SaveInv'
  OBVIOUS
<1>1. CASE UNCHANGED storeVars
  <2>1. UNCHANGED <<database, ask, db, committed, pc, todo, next, mixed, disturbed>>
    BY <1>1, StoreUnchanged
  <2> QED BY <2>1 DEF SaveInv, MeetInv, ProgressInv, CommittedInv, Saves, Saving, Meet, Blocks,
                      Current, Whole, Of, FactorsOf
<1>2. CASE StoreNext
  <2>1. PICK r \in Requests : Step(r) \/ Fail(r)
    BY <1>2 DEF StoreNext
  <2> QED BY <2>1, StepKinds, SaveAside, SaveDeleteScore, SaveWrites, SaveEndBlock,
             SaveSavePrediction, SaveFail
<1> QED BY <1>1, <1>2

LEMMA SaveInvariance == StoreSpec => [](StoreInv /\ SaveInv)
BY StoreInitial, StoreStep, SaveInitial, SaveStep, PTL DEF StoreSpec

LEMMA SavesAreWhole == SaveInv => LoneSaveIsWhole
BY SavingIs DEF SaveInv, CommittedInv, LoneSaveIsWhole

\* However saves were interleaved, failed and were rolled back before: an alert whose last
\* save ran alone has one score with exactly its factors (save_score).
THEOREM LoneSaves == StoreSpec => []LoneSaveIsWhole
BY SaveInvariance, SavesAreWhole, PTL

-----------------------------------------------------------------------------
(* Rows of requests that were answered before another one was sent.        *)

Fresh(r, rows) == \A row \in rows : row.by \notin before[r]

\* The request has saved the alert, and no rollback but its own could undo that.
HasSaved(r, a) == scored[r][a] = "alone" \/ (scored[r][a] = "mixed" /\ database = "hana")

\* Requests that were answered before another one was sent are over, and that one is new.
BeforeInv ==
  \A r \in Requests :
    /\ \A s \in before[r] : s # r /\ pc[s] = "ok"
    /\ pc[r] = "idle" => \A a \in Alerts : scored[r][a] = "no"

\* Neither a request that has saved an alert nor one that is saving it has left such rows,
\* also where a rollback could bring them back.
GoneInv ==
  /\ \A r \in Requests, a \in Alerts : HasSaved(r, a) =>
       /\ Fresh(r, Of(db.scores, a)) /\ Fresh(r, Of(db.factors, a))
       /\ Fresh(r, Of(committed.scores, a)) /\ Fresh(r, Of(committed.factors, a))
  /\ \A r \in Requests : Saves(r) /\ (r \notin mixed \/ database = "hana") =>
       /\ Fresh(r, Of(db.scores, Current(r)))
       /\ pc[r] \in {"factors", "commit"} => Fresh(r, Of(db.factors, Current(r)))

\* No step makes a row but its own, or one that a rollback brings back.
LEMMA OldRows ==
  ASSUME StoreInv, NEW r \in Requests, Step(r) \/ Fail(r)
  PROVE  /\ \A row \in db'.scores \cup committed'.scores :
              row \in db.scores \cup committed.scores \/ row.by = r
         /\ \A row \in db'.factors \cup committed'.factors :
              row \in db.factors \cup committed.factors \/ row.by = r
<1>1. CASE Aside(r)
  BY <1>1, AsideLeavesBlocks
<1>2. CASE DeleteScore(r)
  BY <1>2, DeleteScoreIs
<1>3. CASE InsertScore(r)
  BY <1>3, InsertScoreIs
<1>4. CASE DeleteFactors(r)
  BY <1>4, DeleteFactorsIs
<1>5. CASE InsertFactor(r)
  BY <1>5, InsertFactorIs
<1>6. CASE EndBlock(r)
  BY <1>6, EndBlockIs
<1>7. CASE SavePrediction(r)
  BY <1>7, SavePredictionIs
<1>8. CASE Fail(r)
  BY <1>8, FailIs
<1> QED BY <1>1, <1>2, <1>3, <1>4, <1>5, <1>6, <1>7, <1>8, StepKinds DEF Writes

\* Answered requests take no step, and only a new one looks who was answered.
LEMMA StepMoves ==
  ASSUME StoreInv, NEW r \in Requests, Step(r) \/ Fail(r)
  PROVE  /\ pc[r] # "ok" /\ pc'[r] # "idle" /\ ask' = ask /\ database' = database
         /\ \A s \in Requests \ {r} : pc'[s] = pc[s]
         /\ Receive(r) \/ (before' = before /\ pc[r] # "idle")
<1>1. PICK from, to : Move(r, from, to) /\ from # "ok" /\ to # "idle"
                      /\ (Receive(r) \/ (before' = before /\ from # "idle"))
  <2>1. CASE Receive(r)
    BY <2>1, ReceiveMoves
  <2>2. CASE ReadPage(r)
    <3>1. PICK page \in Pages(offset[r], PageSize) :
            Move(r, "page", IF page = << >> THEN "ok" ELSE "delete")
      BY <2>2 DEF ReadPage
    <3> QED BY <2>2, <3>1 DEF ReadPage, history
  <2>3. CASE ReadScore(r)
    <3>1. Move(r, "read", IF Of(db.scores, ask[r].alert) = {} THEN "readPrediction" ELSE "readFactors")
      BY <2>3 DEF ReadScore
    <3> QED BY <2>3, <3>1 DEF ReadScore
  <2>4. CASE ReadFactors(r) \/ ReadPrediction(r) \/ ReadQueue(r) \/ CountQueue(r)
    BY <2>4 DEF ReadFactors, ReadPrediction, ReadQueue, CountQueue, history
  <2>5. CASE DeleteScore(r) \/ InsertScore(r) \/ DeleteFactors(r) \/ SavePrediction(r)
    BY <2>5 DEF DeleteScore, InsertScore, DeleteFactors, SavePrediction, history
  <2>6. CASE InsertFactor(r)
    BY <2>6 DEF InsertFactor, history
  <2>7. CASE EndBlock(r)
    <3>1. Move(r, "commit", IF ask[r].kind # "score_all" THEN "ok"
                            ELSE IF Len(todo[r]) = 1 THEN "page" ELSE "delete")
      BY <2>7 DEF EndBlock
    <3> QED BY <2>7, <3>1 DEF EndBlock
  <2>8. CASE Fail(r)
    <3>1. Move(r, pc[r], "failed") /\ pc[r] \notin {"ok", "idle"} /\ before' = before
      BY <2>8, Places DEF Fail, FailOutside, FailInBlock, history
    <3> QED BY <3>1
  <2> QED BY <2>1, <2>2, <2>3, <2>4, <2>5, <2>6, <2>7, <2>8 DEF Step
<1> QED BY <1>1, Moves DEF StoreInv

\* What is recorded as saved: only the end of a block adds to it.
LEMMA ScoredIs ==
  ASSUME StoreInv, NEW r \in Requests, Step(r) \/ Fail(r)
  PROVE  \/ scored' = scored
         \/ /\ EndBlock(r) /\ ask[r].kind # "predict"
            /\ \A s \in Requests, a \in Alerts : s # r \/ a # Current(r) => scored'[s][a] = scored[s][a]
            /\ scored'[r][Current(r)] = IF r \in mixed THEN "mixed" ELSE "alone"
<1>1. CASE EndBlock(r)
  <2>1. CASE ask[r].kind = "predict"
    BY <1>1, <2>1 DEF EndBlock
  <2>2. CASE ask[r].kind # "predict"
    <3> DEFINE how == IF r \in mixed THEN "mixed" ELSE "alone"
    <3>1. scored' = [scored EXCEPT ![r][Current(r)] = how]
      BY <1>1, <2>2 DEF EndBlock
    <3>2. Current(r) \in Alerts
      BY <1>1, EndBlockIs
    <3>3. /\ \A s \in Requests, a \in Alerts : s # r \/ a # Current(r) => scored'[s][a] = scored[s][a]
          /\ scored'[r][Current(r)] = how
      BY <3>1, <3>2 DEF StoreInv, StoreTypeOK
    <3> QED BY <1>1, <2>2, <3>3
  <2> QED BY <2>1, <2>2
<1>2. CASE ~EndBlock(r)
  BY <1>2, StepKinds, AsideLeavesBlocks, DeleteScoreIs, WritesIs, SavePredictionIs, FailIs DEF history
<1> QED BY <1>1, <1>2

LEMMA BeforeStep ==
  ASSUME StoreInv, BeforeInv, NEW r \in Requests, Step(r) \/ Fail(r)
  PROVE  BeforeInv'
<1>1. /\ pc[r] # "ok" /\ pc'[r] # "idle"
      /\ \A s \in Requests \ {r} : pc'[s] = pc[s]
      /\ Receive(r) \/ before' = before
  BY StepMoves
<1>2. before \in [Requests -> SUBSET Requests]
  BY DEF StoreInv, StoreTypeOK
<1>3. ASSUME NEW x \in Requests, NEW s \in before'[x]
      PROVE  s # x /\ pc'[s] = "ok"
  <2>1. CASE before'[x] = before[x]
    BY <1>1, <1>2, <1>3, <2>1 DEF BeforeInv
  <2>2. CASE before'[x] # before[x]
    <3>1. Receive(r) /\ x = r /\ before'[r] = {q \in Requests : pc[q] = "ok"}
      BY <1>1, <1>2, <2>2 DEF Receive
    <3> QED BY <1>1, <1>3, <3>1
  <2> QED BY <2>1, <2>2
<1>4. ASSUME NEW x \in Requests, pc'[x] = "idle", NEW a \in Alerts
      PROVE  scored'[x][a] = "no"
  <2>1. x # r /\ pc[x] = "idle"
    BY <1>1, <1>4
  <2>2. scored'[x][a] = scored[x][a]
    BY <2>1, ScoredIs
  <2> QED BY <2>1, <2>2 DEF BeforeInv
<1> QED BY <1>3, <1>4 DEF BeforeInv

\* No row that is made is one of a request answered before.
LEMMA FreshStep ==
  ASSUME StoreInv, BeforeInv, NEW r \in Requests, Step(r) \/ Fail(r),
         NEW x \in Requests, before'[x] = before[x], NEW a,
         Fresh(x, Of(db.scores, a)), Fresh(x, Of(committed.scores, a)),
         Fresh(x, Of(db.factors, a)), Fresh(x, Of(committed.factors, a))
  PROVE  /\ Fresh(x, Of(db.scores, a))' /\ Fresh(x, Of(committed.scores, a))'
         /\ Fresh(x, Of(db.factors, a))' /\ Fresh(x, Of(committed.factors, a))'
<1>1. r \notin before[x]
  BY StepMoves DEF BeforeInv
<1> QED BY <1>1, OldRows DEF Fresh, Of

\* A save that goes on: what the steps of another request leave of its alert.
LEMMA GoneForOthers ==
  ASSUME StoreInv, SaveInv, BeforeInv, GoneInv, NEW r \in Requests, Step(r) \/ Fail(r),
         NEW x \in Requests \ {r}, Saves(x)', x \notin mixed' \/ database' = "hana"
  PROVE  /\ Fresh(x, Of(db.scores, Current(x)))'
         /\ pc'[x] \in {"factors", "commit"} => Fresh(x, Of(db.factors, Current(x)))'
<1>1. /\ pc[r] # "ok" /\ ask' = ask /\ database' = database /\ pc'[x] = pc[x]
      /\ Receive(r) \/ before' = before
  BY StepMoves
<1>2. Saves(x) /\ x \in Blocks
  BY <1>1 DEF Saves, Blocks
<1>3. before'[x] = before[x] /\ r \notin before[x]
  BY <1>1 DEF Receive, StoreInv, StoreTypeOK, BeforeInv
<1>4. x \notin mixed \/ database = "hana"
  <2>1. x \in mixed => x \in mixed'
    <3>1. CASE DeleteScore(r)
      <4>1. BeginBlock(r, Current(r))
        BY <3>1, DeleteScoreIs
      <4> QED BY <4>1 DEF BeginBlock
    <3>2. CASE SavePrediction(r)
      <4>1. BeginBlock(r, ask[r].alert)
        BY <3>2, SavePredictionIs
      <4> QED BY <4>1 DEF BeginBlock
    <3> QED BY <3>1, <3>2, StepKinds, AsideLeavesBlocks, WritesIs, EndBlockIs, FailIs DEF history
  <2> QED BY <1>1, <2>1
<1>5. Current(x)' = Current(x)
  <2>1. todo'[x] = todo[x]
    BY StepKinds, AsideLeavesBlocks, DeleteScoreIs, WritesIs, EndBlockIs, SavePredictionIs, FailIs
       DEF work
  <2> QED BY <2>1 DEF Current
<1>6. /\ \A row \in db'.scores : row \in db.scores \/ row.by = r
      /\ \A row \in db'.factors : row \in db.factors \/ row.by = r
  <2>1. CASE Fail(r)
    <3>1. Cut(r)
      BY <2>1, FailIs
    <3>2. database \in {"hana", "sqlite"}
      BY DatabasesAssumption DEF StoreInv, StoreTypeOK
    <3>3. db' = db
      BY <1>1, <1>2, <3>1, <3>2 DEF Cut, StoreInv, CommitInv
    <3> QED BY <3>3
  <2>2. CASE Writes(r)
    BY <2>2, InsertScoreIs, DeleteFactorsIs, InsertFactorIs DEF Writes
  <2>3. CASE ~(Fail(r) \/ Writes(r))
    BY <2>3, StepKinds, AsideLeavesBlocks, DeleteScoreIs, EndBlockIs, SavePredictionIs
  <2> QED BY <2>1, <2>2, <2>3
<1>7. /\ Fresh(x, Of(db.scores, Current(x)))
      /\ pc[x] \in {"factors", "commit"} => Fresh(x, Of(db.factors, Current(x)))
  BY <1>2, <1>4 DEF GoneInv
<1> QED BY <1>1, <1>3, <1>5, <1>6, <1>7 DEF Fresh, Of

\* ... and what its own steps leave.
LEMMA GoneForSelf ==
  ASSUME StoreInv, SaveInv, BeforeInv, GoneInv, NEW r \in Requests, Step(r) \/ Fail(r),
         Saves(r)', r \notin mixed' \/ database' = "hana"
  PROVE  /\ Fresh(r, Of(db.scores, Current(r)))'
         /\ pc'[r] \in {"factors", "commit"} => Fresh(r, Of(db.factors, Current(r)))'
<1>0. r \notin before[r]
  BY DEF BeforeInv
<1>1. CASE DeleteScore(r)
  <2>1. /\ pc'[r] = "insert" /\ Current(r)' = Current(r)
        /\ db'.scores = {row \in db.scores : row.alert # Current(r)}
    BY <1>1, DeleteScoreIs DEF work, Current
  <2> QED BY <2>1 DEF Fresh, Of
<1>2. CASE InsertScore(r)
  <2>1. /\ pc'[r] = "clear" /\ Current(r)' = Current(r) /\ before' = before
        /\ db'.scores = db.scores \cup {[alert |-> Current(r), by |-> r]}
        /\ mixed' = mixed /\ database' = database
    BY <1>2, InsertScoreIs DEF work, Current, history
  <2>2. Fresh(r, Of(db.scores, Current(r)))
    BY <1>2, <2>1, WritesIs DEF Writes, GoneInv
  <2> QED BY <1>0, <2>1, <2>2 DEF Fresh, Of
<1>3. CASE DeleteFactors(r)
  <2>1. /\ Current(r)' = Current(r) /\ before' = before
        /\ db'.scores = db.scores
        /\ db'.factors = {row \in db.factors : row.alert # Current(r)}
        /\ mixed' = mixed /\ database' = database
    BY <1>3, DeleteFactorsIs DEF work, Current, history
  <2>2. Fresh(r, Of(db.scores, Current(r)))
    BY <1>3, <2>1, WritesIs DEF Writes, GoneInv
  <2> QED BY <2>1, <2>2 DEF Fresh, Of
<1>4. CASE InsertFactor(r)
  <2>1. /\ Current(r)' = Current(r) /\ before' = before /\ pc[r] = "factors"
        /\ db'.scores = db.scores
        /\ db'.factors = db.factors \cup {[alert |-> Current(r), by |-> r, code |-> next[r]]}
        /\ mixed' = mixed /\ database' = database
    BY <1>4, InsertFactorIs DEF Current, history
  <2>2. Fresh(r, Of(db.scores, Current(r))) /\ Fresh(r, Of(db.factors, Current(r)))
    BY <1>4, <2>1, WritesIs DEF Writes, GoneInv
  <2> QED BY <1>0, <2>1, <2>2 DEF Fresh, Of
<1>5. ~(Aside(r) \/ EndBlock(r) \/ Fail(r) \/ SavePrediction(r))
  BY AsideLeavesBlocks, EndBlockIs, FailIs, SavePredictionIs DEF Saves
<1> QED BY <1>1, <1>2, <1>3, <1>4, <1>5, StepKinds DEF Writes

LEMMA GoneStep ==
  ASSUME StoreInv, SaveInv, BeforeInv, GoneInv, NEW r \in Requests, Step(r) \/ Fail(r)
  PROVE  GoneInv'
<1>1. ASSUME NEW x \in Requests, NEW a \in Alerts, HasSaved(x, a)'
      PROVE  /\ Fresh(x, Of(db.scores, a))' /\ Fresh(x, Of(db.factors, a))'
             /\ Fresh(x, Of(committed.scores, a))' /\ Fresh(x, Of(committed.factors, a))'
  <2>1. database' = database /\ (Receive(r) \/ before' = before)
    BY StepMoves
  <2>2. CASE scored'[x][a] = scored[x][a]
    <3>1. HasSaved(x, a)
      BY <1>1, <2>1, <2>2 DEF HasSaved
    <3>2. before'[x] = before[x]
      <4>1. CASE before' = before
        BY <4>1
      <4>2. CASE Receive(r)
        <5>1. x # r
          <6>1. Receive(r) => pc[r] = "idle"
            BY ReceiveMoves, Moves DEF StoreInv
          <6> QED BY <3>1, <4>2, <6>1 DEF HasSaved, BeforeInv
        <5> QED BY <4>2, <5>1 DEF Receive, StoreInv, StoreTypeOK
      <4> QED BY <2>1, <4>1, <4>2
    <3> QED BY <3>1, <3>2, FreshStep DEF GoneInv
  <2>3. CASE scored'[x][a] # scored[x][a]
    <3>1. /\ EndBlock(r) /\ ask[r].kind # "predict" /\ x = r /\ a = Current(r)
          /\ scored'[r][a] = IF r \in mixed THEN "mixed" ELSE "alone"
      BY <2>3, ScoredIs
    <3>2. /\ db' = db /\ committed' = db /\ before' = before /\ r \in Blocks /\ pc[r] = "commit"
      BY <3>1, EndBlockIs
    <3>3. Fresh(r, Of(db.scores, a)) /\ Fresh(r, Of(db.factors, a))
      BY <1>1, <2>1, <3>1, <3>2 DEF GoneInv, HasSaved, Saves
    <3> QED BY <3>1, <3>2, <3>3 DEF Fresh, Of
  <2> QED BY <2>2, <2>3
<1> QED BY <1>1, GoneForSelf, GoneForOthers DEF GoneInv

LEMMA GoneInitial == StoreInit => BeforeInv /\ GoneInv
<1> SUFFICES ASSUME StoreInit PROVE BeforeInv /\ GoneInv
  OBVIOUS
<1>1. Blocks = {}
  BY Places DEF StoreInit, Blocks
<1> QED BY <1>1 DEF StoreInit, BeforeInv, GoneInv, HasSaved, Saves

LEMMA GoneNext ==
  StoreInv /\ SaveInv /\ BeforeInv /\ GoneInv /\ [StoreNext]_storeVars => BeforeInv' /\ GoneInv'
<1> SUFFICES ASSUME StoreInv, SaveInv, BeforeInv, GoneInv, [StoreNext]_storeVars
             PROVE  BeforeInv' /\ GoneInv'
  OBVIOUS
<1>1. CASE UNCHANGED storeVars
  <2>1. UNCHANGED <<database, ask, db, committed, pc, todo, before, scored, mixed>>
    BY <1>1, StoreUnchanged
  <2>2. BeforeInv'
    BY <2>1 DEF BeforeInv
  <2>3. GoneInv'
    BY <2>1 DEF GoneInv, HasSaved, Saves, Blocks, Current, Fresh, Of
  <2> QED BY <2>2, <2>3
<1>2. CASE StoreNext
  BY <1>2, BeforeStep, GoneStep DEF StoreNext
<1> QED BY <1>1, <1>2

LEMMA GoneIsFresh == GoneInv => NoStaleScore
BY DEF GoneInv, NoStaleScore, HasSaved, Fresh

\* When a request has saved an alert, no score or factor is left of one that was answered
\* before it was sent: save_score deletes them and nothing brings them back, but for a
\* rollback on SQLite that reaches into its block.
THEOREM StaleScoresGo == StoreSpec => []NoStaleScore
<1>1. StoreSpec => [](StoreInv /\ SaveInv)
  BY SaveInvariance
<1>2. StoreSpec => [](BeforeInv /\ GoneInv)
  BY <1>1, GoneInitial, GoneNext, PTL DEF StoreSpec
<1> QED BY <1>2, GoneIsFresh, PTL

-----------------------------------------------------------------------------
(* Readers that no save overlapped.                                        *)

AtMostOne(rows) == \A x, y \in rows : x = y

ReadWhole(r) == Whole(ask[r].alert, seen[r].scores, seen[r].factors)

\* What a reader has read so far is what is still there, and one save's.
CalmReader(r) ==
  /\ pc[r] \in {"readFactors", "readPrediction", "count", "ok", "failed"}
  /\ pc[r] = "readFactors" =>
       /\ ~Saving(ask[r].alert)
       /\ Whole(ask[r].alert, Of(db.scores, ask[r].alert), Of(db.factors, ask[r].alert))
       /\ seen[r].scores = Of(db.scores, ask[r].alert)
  /\ pc[r] = "readPrediction" => ReadWhole(r)
  /\ pc[r] = "count" =>
       /\ \A a \in Alerts : ~Saving(a)
       /\ Cardinality(seen[r].scores)
            = PageLength(Cardinality(OpenRows), ask[r].limit, ask[r].from)
  /\ pc[r] = "ok" /\ ask[r].kind = "get" => ReadWhole(r)
  /\ pc[r] = "count" \/ (pc[r] = "ok" /\ ask[r].kind # "get") =>
       \A a \in Alerts : AtMostOne(Of(seen[r].scores, a))
  /\ pc[r] = "ok" /\ ask[r].kind # "get" =>
       Cardinality(seen[r].scores) = PageLength(seen[r].total, ask[r].limit, ask[r].from)

NothingReadYet(r) ==
  pc[r] \in {"idle", "read"} => seen[r].scores = {} /\ seen[r].factors = {}

CalmInv ==
  /\ \A r \in Requests : NothingReadYet(r)
  /\ \A r \in calm : CalmReader(r)

\* Nothing happens to an alert that nobody saves, but that a save of it begins.
LEMMA QuietAlert ==
  ASSUME StoreInv, SaveInv, NEW r \in Requests, Step(r) \/ Fail(r), NEW a \in Alerts, ~Saving(a),
         ~(DeleteScore(r) /\ Current(r) = a)
  PROVE  /\ ~Saving(a)'
         /\ Of(db'.scores, a) = Of(db.scores, a) /\ Of(db'.factors, a) = Of(db.factors, a)
<1>0. \A s \in Requests : Saves(s) => Current(s) # a
  BY SavingIs
<1>1. ASSUME \A s \in Requests : Saves(s)' => Current(s)' # a
      PROVE  ~Saving(a)'
  BY <1>1 DEF Saving, Saves, Blocks
<1>2. CASE Aside(r)
  <2>1. /\ UNCHANGED <<db, ask>> /\ Blocks' = Blocks /\ r \notin Blocks
        /\ \A s \in Requests \ {r} : todo'[s] = todo[s]
    BY <1>2, AsideLeavesBlocks
  <2> QED BY <1>0, <1>1, <2>1 DEF Saves, Current, Of
<1>3. CASE DeleteScore(r)
  <2>1. /\ UNCHANGED <<ask, todo>> /\ Blocks' = Blocks \cup {r} /\ Current(r) # a
        /\ db'.scores = {row \in db.scores : row.alert # Current(r)} /\ db'.factors = db.factors
    BY <1>3, DeleteScoreIs DEF work
  <2> QED BY <1>0, <1>1, <2>1 DEF Saves, Current, Of
<1>4. CASE Writes(r)
  <2>1. /\ UNCHANGED <<ask, todo>> /\ Blocks' = Blocks /\ Saves(r)
        /\ \A b : b # Current(r) =>
             Of(db'.scores, b) = Of(db.scores, b) /\ Of(db'.factors, b) = Of(db.factors, b)
    BY <1>4, WritesIs
  <2> QED BY <1>0, <1>1, <2>1 DEF Saves, Current
<1>5. CASE EndBlock(r)
  <2>1. /\ UNCHANGED <<ask, db>> /\ Blocks' = Blocks \ {r}
        /\ \A s \in Requests \ {r} : todo'[s] = todo[s]
    BY <1>5, EndBlockIs
  <2> QED BY <1>0, <1>1, <2>1 DEF Saves, Current, Of
<1>6. CASE SavePrediction(r)
  <2>1. /\ UNCHANGED <<ask, todo>> /\ Blocks' = Blocks \cup {r} /\ ask[r].kind = "predict"
        /\ db'.scores = db.scores /\ db'.factors = db.factors
    BY <1>6, SavePredictionIs DEF work
  <2> QED BY <1>0, <1>1, <2>1 DEF Saves, Current, Of
<1>7. CASE Fail(r)
  <2>1. /\ UNCHANGED <<ask, todo>> /\ Blocks' = Blocks \ {r}
        /\ db' = db \/ db' = committed
    BY <1>7, FailIs DEF work
  <2>2. /\ Of(db.scores, a) = Of(committed.scores, a)
        /\ Of(db.factors, a) = Of(committed.factors, a)
    BY DEF SaveInv, CommittedInv
  <2> QED BY <1>0, <1>1, <2>1, <2>2 DEF Saves, Current, Of
<1> QED BY <1>2, <1>3, <1>4, <1>5, <1>6, <1>7, StepKinds

\* Nobody reads for another one, and a request becomes calm at its own first statement.
LEMMA SeenIs ==
  ASSUME StoreInv, NEW r \in Requests, Step(r) \/ Fail(r), NEW x \in Requests \ {r}
  PROVE  /\ seen'[x] = seen[x]
         /\ x \in calm' => x \in calm
         /\ x \in calm' /\ DeleteScore(r) =>
              pc[x] \in Ended \/ (ask[x].kind = "get" /\ ask[x].alert # Current(r))
<1>1. CASE Receive(r) \/ ReadPage(r) \/ DeleteScore(r) \/ Writes(r) \/ EndBlock(r)
           \/ SavePrediction(r) \/ Fail(r)
  <2>1. seen' = seen
    BY <1>1 DEF Receive, ReadPage, DeleteScore, Writes, InsertScore, DeleteFactors, InsertFactor,
                EndBlock, SavePrediction, Fail, FailOutside, FailInBlock, history
  <2>2. ~DeleteScore(r) => calm' = calm
    BY <1>1 DEF Receive, ReadPage, Writes, InsertScore, DeleteFactors, InsertFactor,
                EndBlock, SavePrediction, Fail, FailOutside, FailInBlock, history
  <2>3. DeleteScore(r) => calm' = {s \in calm : pc[s] \in Ended
                                     \/ (ask[s].kind = "get" /\ ask[s].alert # Current(r))}
    BY DEF DeleteScore
  <2> QED BY <2>1, <2>2, <2>3
<1>2. CASE ReadScore(r) \/ ReadFactors(r) \/ ReadPrediction(r) \/ ReadQueue(r) \/ CountQueue(r)
  <2>1. seen'[x] = seen[x]
    BY <1>2 DEF ReadScore, ReadFactors, ReadPrediction, ReadQueue, CountQueue, StoreInv, StoreTypeOK
  <2>2. calm' = calm \/ calm' = calm \cup {r}
    BY <1>2 DEF ReadScore, ReadFactors, ReadPrediction, ReadQueue, CountQueue, history
  <2>3. ~DeleteScore(r)
    <3>1. Aside(r)
      BY <1>2 DEF Aside
    <3> QED BY <3>1, AsideLeavesBlocks, DeleteScoreIs
  <2> QED BY <2>1, <2>2, <2>3
<1> QED BY <1>1, <1>2 DEF Step, Writes

LEMMA OpenRowsAre ==
  ASSUME StoreInv, \A a \in Alerts : Of(db'.scores, a) = Of(db.scores, a)
  PROVE  OpenRows' = OpenRows
<1>1. \A row : row \in db'.scores /\ row.alert \in Loaded \ Closed
               <=> row \in db.scores /\ row.alert \in Loaded \ Closed
  <2> SUFFICES ASSUME NEW row, row.alert \in Loaded
               PROVE  row \in db'.scores <=> row \in db.scores
    OBVIOUS
  <2>1. row \in Of(db'.scores, row.alert) <=> row \in Of(db.scores, row.alert)
    OBVIOUS
  <2> QED BY <2>1 DEF Of
<1> QED BY <1>1 DEF OpenRows

LEMMA CalmForOthers ==
  ASSUME StoreInv, SaveInv, CalmInv, NEW r \in Requests, Step(r) \/ Fail(r),
         NEW x \in Requests \ {r}
  PROVE  /\ NothingReadYet(x)'
         /\ x \in calm' => CalmReader(x)'
<1>1. /\ pc'[x] = pc[x] /\ ask' = ask
      /\ seen'[x] = seen[x]
      /\ x \in calm' => x \in calm
      /\ x \in calm' /\ DeleteScore(r) =>
           pc[x] \in Ended \/ (ask[x].kind = "get" /\ ask[x].alert # Current(r))
  BY StepMoves, SeenIs
<1>2. NothingReadYet(x)'
  BY <1>1 DEF NothingReadYet, CalmInv
<1>3. ASSUME x \in calm' PROVE CalmReader(x)'
  <2>1. CalmReader(x)
    BY <1>1, <1>3 DEF CalmInv
  <2>2. ReadWhole(x)' <=> ReadWhole(x)
    BY <1>1 DEF ReadWhole, Whole
  <2>3. PICK a \in Alerts : a = ask[x].alert /\ a = ask'[x].alert
    BY <1>1, AskTypes DEF StoreInv
  <2>4. ASSUME pc[x] = "count"
        PROVE  (\A c \in Alerts : ~Saving(c)') /\ OpenRows' = OpenRows
    <3>1. ask[x].kind = "queue"
      BY <2>4, Places, KindsAtPlaces DEF StoreInv, PlaceInv
    <3>2. ~DeleteScore(r)
      BY <1>1, <1>3, <2>4, <3>1, Places
    <3>3. \A c \in Alerts : ~Saving(c)' /\ Of(db'.scores, c) = Of(db.scores, c)
      BY <2>1, <2>4, <3>2, QuietAlert DEF CalmReader
    <3> QED BY <3>3, OpenRowsAre
  <2>5. CASE pc[x] = "readFactors"
    <3>1. /\ ~Saving(a) /\ Whole(a, Of(db.scores, a), Of(db.factors, a))
          /\ seen[x].scores = Of(db.scores, a)
      BY <2>1, <2>3, <2>5 DEF CalmReader
    <3>2. ~(DeleteScore(r) /\ Current(r) = a)
      BY <1>1, <1>3, <2>3, <2>5, Places
    <3>3. ~Saving(a)' /\ Of(db'.scores, a) = Of(db.scores, a) /\ Of(db'.factors, a) = Of(db.factors, a)
      BY <3>1, <3>2, QuietAlert
    <3>4. /\ Whole(a, Of(db'.scores, a), Of(db'.factors, a))
          /\ seen'[x].scores = Of(db'.scores, a)
      BY <1>1, <3>1, <3>3
    <3> QED BY <1>1, <2>3, <2>5, <3>3, <3>4 DEF CalmReader, Saving, Whole, Of
  <2>6. CASE pc[x] = "count"
    BY <1>1, <2>1, <2>4, <2>6 DEF CalmReader, Of
  <2>7. CASE pc[x] \notin {"readFactors", "count"}
    BY <1>1, <2>1, <2>2, <2>7 DEF CalmReader, Of
  <2> QED BY <2>5, <2>6, <2>7
<1> QED BY <1>2, <1>3

LEMMA SingletonIsOne == \A x : AtMostOne({x}) /\ AtMostOne({})
BY DEF AtMostOne

\* One save's rows are one score.
LEMMA WholeIsOne ==
  ASSUME NEW a, NEW scores, NEW factors, Whole(a, scores, factors)
  PROVE  /\ AtMostOne(scores)
         /\ scores = {} => factors = {}
         /\ \A row \in scores : scores = {row}
BY DEF Whole, AtMostOne

\* Nobody saves the alert and the last save of it ran alone: what is read is whole.
LEMMA CalmReadScore ==
  ASSUME StoreInv, SaveInv, CalmInv, NEW r \in Requests, ReadScore(r), r \in calm'
  PROVE  CalmReader(r)'
<1>1. PICK a \in Alerts : a = ask[r].alert
  BY AskTypes DEF StoreInv
<1> DEFINE rows == Of(db.scores, a)
<1>0. PICK to : to = IF rows = {} THEN "readPrediction" ELSE "readFactors"
  OBVIOUS
<1>2. /\ Move(r, "read", to) /\ ask[r].kind = "get"
      /\ UNCHANGED <<db, todo>>
      /\ IF rows = {} THEN UNCHANGED seen ELSE \E row \in rows : seen' = [seen EXCEPT ![r].scores = {row}]
      /\ calm' = IF Saving(a) \/ a \in disturbed THEN calm ELSE calm \cup {r}
  BY <1>0, <1>1 DEF ReadScore, work
<1>3. pc[r] = "read" /\ pc'[r] = to /\ ask' = ask
  BY <1>2, Moves DEF StoreInv
<1>4. ~Saving(a) /\ a \notin disturbed
  <2>1. r \notin calm
    BY <1>3 DEF CalmInv, CalmReader
  <2> QED BY <1>2, <2>1
<1>5. Whole(a, rows, Of(db.factors, a))
  BY <1>4, SavesAreWhole DEF LoneSaveIsWhole
<1>6. seen[r].scores = {} /\ seen[r].factors = {}
  BY <1>3 DEF CalmInv, NothingReadYet
<1>7. CASE rows = {}
  <2>1. seen' = seen /\ pc'[r] = "readPrediction"
    BY <1>0, <1>2, <1>3, <1>7
  <2> QED BY <1>1, <1>3, <1>6, <2>1 DEF CalmReader, ReadWhole, Whole
<1>8. CASE rows # {}
  <2>1. PICK row \in rows : seen' = [seen EXCEPT ![r].scores = {row}]
    BY <1>2, <1>8
  <2>2. seen'[r].scores = {row}
    BY <2>1 DEF StoreInv, StoreTypeOK, Reading
  <2>3. rows = {row}
    BY <1>5, <2>1, WholeIsOne
  <2>4. ~Saving(a)'
    <3>1. Aside(r)
      BY DEF Aside
    <3>2. Blocks' = Blocks /\ \A s \in Blocks : todo'[s] = todo[s]
      BY <1>2, <3>1, AsideLeavesBlocks
    <3> QED BY <1>3, <1>4, <3>2 DEF Saving, Current
  <2>5. pc'[r] = "readFactors"
    BY <1>0, <1>3, <1>8
  <2>6. seen'[r].scores = Of(db'.scores, a) /\ Whole(a, Of(db'.scores, a), Of(db'.factors, a))
    BY <1>2, <1>5, <2>2, <2>3
  <2> QED BY <1>1, <1>3, <2>4, <2>5, <2>6 DEF CalmReader, Saving, Whole, Of
<1> QED BY <1>7, <1>8

LEMMA CalmReadQueue ==
  ASSUME StoreInv, SaveInv, CalmInv, NEW r \in Requests, ReadQueue(r), r \in calm'
  PROVE  CalmReader(r)'
<1>1. PICK rows \in SUBSET OpenRows :
      /\ Move(r, "read", "count") /\ ask[r].kind = "queue"
      /\ Cardinality(rows) = PageLength(Cardinality(OpenRows), ask[r].limit, ask[r].from)
      /\ seen' = [seen EXCEPT ![r].scores = rows]
      /\ calm' = IF disturbed = {} /\ ~\E a \in Alerts : Saving(a) THEN calm \cup {r} ELSE calm
      /\ UNCHANGED <<db, todo>>
  BY DEF ReadQueue, work
<1>2. pc[r] = "read" /\ pc'[r] = "count" /\ ask' = ask
  BY <1>1, Moves DEF StoreInv
<1>3. disturbed = {} /\ \A a \in Alerts : ~Saving(a)
  <2>1. r \notin calm
    BY <1>2 DEF CalmInv, CalmReader
  <2> QED BY <1>1, <2>1
<1>4. seen'[r].scores = rows /\ OpenRows' = OpenRows
  BY <1>1 DEF StoreInv, StoreTypeOK, Reading, OpenRows
<1>5. \A a \in Alerts : AtMostOne(Of(rows, a))
  <2> SUFFICES ASSUME NEW a \in Alerts PROVE AtMostOne(Of(rows, a))
    OBVIOUS
  <2>1. AtMostOne(Of(db.scores, a))
    BY <1>3, SavesAreWhole, WholeIsOne DEF LoneSaveIsWhole
  <2>2. Of(rows, a) \subseteq Of(db.scores, a)
    BY DEF Of, OpenRows
  <2> QED BY <2>1, <2>2 DEF AtMostOne
<1>6. \A a \in Alerts : ~Saving(a)'
  <2>1. Aside(r)
    BY DEF Aside
  <2>2. Blocks' = Blocks /\ \A s \in Blocks : todo'[s] = todo[s]
    BY <1>1, <2>1, AsideLeavesBlocks
  <2> QED BY <1>2, <1>3, <2>2 DEF Saving, Current
<1>7. \A a \in Alerts : AtMostOne(Of(seen'[r].scores, a))
  BY <1>4, <1>5
<1>8. Cardinality(seen'[r].scores)
        = PageLength(Cardinality(OpenRows'), ask'[r].limit, ask'[r].from)
  BY <1>1, <1>2, <1>4
<1> QED BY <1>1, <1>2, <1>6, <1>7, <1>8 DEF CalmReader, AtMostOne, Of, PageLength, OpenRows

LEMMA CalmReadRest ==
  ASSUME StoreInv, CalmInv, NEW r \in Requests, r \in calm',
         ReadFactors(r) \/ ReadPrediction(r) \/ CountQueue(r)
  PROVE  CalmReader(r)'
<1>1. r \in calm /\ CalmReader(r)
  BY DEF ReadFactors, ReadPrediction, CountQueue, history, CalmInv
<1>2. CASE ReadFactors(r)
  <2>1. /\ Move(r, "readFactors", "readPrediction")
        /\ seen' = [seen EXCEPT ![r].factors = Of(db.factors, ask[r].alert)]
    BY <1>2 DEF ReadFactors
  <2>2. pc[r] = "readFactors" /\ pc'[r] = "readPrediction" /\ ask' = ask
    BY <2>1, Moves DEF StoreInv
  <2>3. seen'[r].scores = seen[r].scores /\ seen'[r].factors = Of(db.factors, ask[r].alert)
    BY <2>1 DEF StoreInv, StoreTypeOK, Reading
  <2>4. Whole(ask[r].alert, seen'[r].scores, seen'[r].factors)
    BY <1>1, <2>2, <2>3 DEF CalmReader
  <2> QED BY <2>2, <2>4 DEF CalmReader, ReadWhole, Whole
<1>3. CASE ReadPrediction(r)
  <2>1. /\ Move(r, "readPrediction", "ok")
        /\ IF Of(db.predictions, ask[r].alert) = {} THEN UNCHANGED seen
           ELSE \E p \in LatestPrediction(Of(db.predictions, ask[r].alert)) :
                  seen' = [seen EXCEPT ![r].predictions = {p}]
    BY <1>3 DEF ReadPrediction
  <2>2. pc[r] = "readPrediction" /\ pc'[r] = "ok" /\ ask' = ask
    BY <2>1, Moves DEF StoreInv
  <2>3. seen'[r].scores = seen[r].scores /\ seen'[r].factors = seen[r].factors
    BY <2>1 DEF StoreInv, StoreTypeOK, Reading
  <2>4. ask[r].kind = "get"
    BY <2>2, Places, KindsAtPlaces DEF StoreInv, PlaceInv
  <2>5. Whole(ask[r].alert, seen'[r].scores, seen'[r].factors)
    BY <1>1, <2>2, <2>3 DEF CalmReader, ReadWhole
  <2> QED BY <2>2, <2>4, <2>5 DEF CalmReader, ReadWhole, Whole
<1>4. CASE CountQueue(r)
  <2>1. /\ Move(r, "count", "ok")
        /\ seen' = [seen EXCEPT ![r].total = Cardinality(OpenRows)]
    BY <1>4 DEF CountQueue
  <2>2. pc[r] = "count" /\ pc'[r] = "ok" /\ ask' = ask
    BY <2>1, Moves DEF StoreInv
  <2>3. seen'[r].scores = seen[r].scores /\ seen'[r].total = Cardinality(OpenRows)
    BY <2>1 DEF StoreInv, StoreTypeOK, Reading
  <2>4. ask[r].kind = "queue"
    BY <2>2, Places, KindsAtPlaces DEF StoreInv, PlaceInv
  <2>5. /\ Cardinality(seen'[r].scores)
             = PageLength(seen'[r].total, ask'[r].limit, ask'[r].from)
        /\ \A a \in Alerts : AtMostOne(Of(seen'[r].scores, a))
    BY <1>1, <2>2, <2>3 DEF CalmReader
  <2> QED BY <2>2, <2>4, <2>5 DEF CalmReader, AtMostOne, Of
<1> QED BY <1>2, <1>3, <1>4

LEMMA CalmForSelf ==
  ASSUME StoreInv, SaveInv, CalmInv, NEW r \in Requests, Step(r) \/ Fail(r)
  PROVE  /\ NothingReadYet(r)'
         /\ r \in calm' => CalmReader(r)'
<1>1. CASE Receive(r)
  <2>1. pc[r] = "idle" /\ seen' = seen /\ calm' = calm
    BY <1>1, ReceiveMoves, Moves DEF Receive, StoreInv
  <2> QED BY <2>1 DEF CalmInv, NothingReadYet, CalmReader
<1>2. CASE ReadPage(r)
  <2>1. PICK page \in Pages(offset[r], PageSize) :
          Move(r, "page", IF page = << >> THEN "ok" ELSE "delete")
    BY <1>2 DEF ReadPage
  <2>2. pc[r] = "page" /\ pc'[r] \notin {"idle", "read"} /\ calm' = calm
    BY <1>2, <2>1, Moves DEF ReadPage, history, StoreInv
  <2> QED BY <2>2 DEF CalmInv, NothingReadYet, CalmReader
<1>3. CASE DeleteScore(r)
  <2>1. pc[r] = "delete" /\ pc'[r] = "insert"
    BY <1>3, DeleteScoreIs
  <2>2. calm' \subseteq calm
    BY <1>3 DEF DeleteScore
  <2> QED BY <2>1, <2>2 DEF CalmInv, NothingReadYet, CalmReader
<1>4. CASE Writes(r)
  <2>1. /\ pc[r] \in {"insert", "clear", "factors"} /\ pc'[r] \notin {"idle", "read"}
        /\ calm' = calm
    BY <1>4, InsertScoreIs, DeleteFactorsIs, InsertFactorIs DEF Writes, history
  <2> QED BY <2>1 DEF CalmInv, NothingReadYet, CalmReader
<1>5. CASE EndBlock(r)
  <2>1. pc[r] = "commit" /\ pc'[r] \in {"ok", "page", "delete"} /\ calm' = calm
    BY <1>5, EndBlockIs
  <2> QED BY <2>1 DEF CalmInv, NothingReadYet, CalmReader
<1>6. CASE SavePrediction(r)
  <2>1. pc[r] = "predict" /\ pc'[r] = "commit" /\ calm' = calm
    BY <1>6, SavePredictionIs
  <2> QED BY <2>1 DEF CalmInv, NothingReadYet, CalmReader
<1>7. CASE Fail(r)
  <2>1. pc'[r] = "failed"
    BY <1>7, FailIs
  <2> QED BY <2>1 DEF NothingReadYet, CalmReader
<1>8. CASE ReadScore(r)
  <2>1. pc'[r] \in {"readPrediction", "readFactors"}
    <3>1. Move(r, "read", IF Of(db.scores, ask[r].alert) = {} THEN "readPrediction" ELSE "readFactors")
      BY <1>8 DEF ReadScore
    <3> QED BY <3>1, Moves DEF StoreInv
  <2> QED BY <1>8, <2>1, CalmReadScore DEF NothingReadYet
<1>9. CASE ReadQueue(r) \/ ReadFactors(r) \/ ReadPrediction(r) \/ CountQueue(r)
  <2>1. pc'[r] \in {"count", "readPrediction", "ok"}
    BY <1>9, Moves DEF ReadQueue, ReadFactors, ReadPrediction, CountQueue, StoreInv
  <2> QED BY <1>9, <2>1, CalmReadQueue, CalmReadRest DEF NothingReadYet
<1> QED BY <1>1, <1>2, <1>3, <1>4, <1>5, <1>6, <1>7, <1>8, <1>9 DEF Step, Writes

LEMMA CalmNext == StoreInv /\ SaveInv /\ CalmInv /\ [StoreNext]_storeVars => CalmInv'
<1> SUFFICES ASSUME StoreInv, SaveInv, CalmInv, [StoreNext]_storeVars PROVE CalmInv'
  OBVIOUS
<1>1. CASE UNCHANGED storeVars
  <2>1. UNCHANGED <<database, ask, db, committed, pc, todo, seen, calm>>
    BY <1>1, StoreUnchanged
  <2>2. OpenRows' = OpenRows /\ \A a : Saving(a)' <=> Saving(a)
    BY <2>1 DEF OpenRows, Saving, Blocks, Current
  <2>3. \A x \in Requests : NothingReadYet(x) => NothingReadYet(x)'
    BY <2>1 DEF NothingReadYet
  <2>4. \A x \in Requests : CalmReader(x) => CalmReader(x)'
    <3> SUFFICES ASSUME NEW x \in Requests, CalmReader(x) PROVE CalmReader(x)'
      OBVIOUS
    <3>1. ReadWhole(x)' <=> ReadWhole(x)
      BY <2>1 DEF ReadWhole, Whole
    <3>2. \A a : Whole(a, Of(db'.scores, a), Of(db'.factors, a))
               <=> Whole(a, Of(db.scores, a), Of(db.factors, a))
      BY <2>1
    <3> QED BY <2>1, <2>2, <3>1, <3>2 DEF CalmReader, Whole, Of
  <2>5. calm' \subseteq Requests
    BY <2>1 DEF StoreInv, StoreTypeOK
  <2> QED BY <2>1, <2>3, <2>4, <2>5 DEF CalmInv
<1>2. CASE StoreNext
  <2>1. PICK r \in Requests : Step(r) \/ Fail(r)
    BY <1>2 DEF StoreNext
  <2>2. calm' \subseteq Requests
    BY <2>1, <1>2, StoreStep DEF StoreInv, StoreTypeOK
  <2>3. \A x \in Requests : NothingReadYet(x)' /\ (x \in calm' => CalmReader(x)')
    BY <2>1, CalmForOthers, CalmForSelf
  <2> QED BY <2>2, <2>3 DEF CalmInv
<1> QED BY <1>1, <1>2

LEMMA CalmInitial == StoreInit => CalmInv
BY DEF StoreInit, CalmInv, NothingReadYet

LEMMA CalmIsOneSave == StoreTypeOK /\ CalmInv => CalmReadersSeeOneSave
<1> SUFFICES ASSUME StoreTypeOK, CalmInv, NEW r \in calm, pc[r] = "ok"
             PROVE  IF ask[r].kind = "get" THEN Whole(ask[r].alert, seen[r].scores, seen[r].factors)
                    ELSE /\ \A a \in Alerts : Cardinality(Of(seen[r].scores, a)) <= 1
                         /\ Cardinality(seen[r].scores)
                              = PageLength(seen[r].total, ask[r].limit, ask[r].from)
  BY DEF CalmReadersSeeOneSave
<1>1. CalmReader(r)
  BY DEF CalmInv
<1>2. ASSUME NEW a \in Alerts, AtMostOne(Of(seen[r].scores, a))
      PROVE  Cardinality(Of(seen[r].scores, a)) <= 1
  <2> DEFINE rows == Of(seen[r].scores, a)
  <2>1. CASE rows = {}
    <3>1. Cardinality(rows) = 0
      BY <2>1, FS_EmptySet
    <3> QED BY <3>1
  <2>2. CASE rows # {}
    <3>1. PICK row : row \in rows
      BY <2>2
    <3>2. rows = {row}
      BY <1>2, <3>1 DEF AtMostOne
    <3>3. Cardinality(rows) = 1
      BY <3>2, FS_Singleton
    <3> QED BY <3>3
  <2> QED BY <2>1, <2>2
<1> QED BY <1>1, <1>2 DEF CalmReader, ReadWhole

\* A reader that no save overlapped, with no disturbed save behind it, sees one save: the
\* score of GET alerts/{id} comes with exactly its factors, and a page of the queue lists no
\* alert twice and is as long as the total beside it says.
THEOREM CalmReaders == StoreSpec => []CalmReadersSeeOneSave
<1>1. StoreSpec => [](StoreInv /\ SaveInv)
  BY SaveInvariance
<1>2. StoreSpec => []CalmInv
  BY <1>1, CalmInitial, CalmNext, PTL DEF StoreSpec
<1>3. StoreInv => StoreTypeOK
  BY DEF StoreInv
<1> QED BY <1>1, <1>2, <1>3, CalmIsOneSave, PTL

-----------------------------------------------------------------------------
(* What score-all has come to.                                             *)

Older(a) == {b \in Loaded : Created[b] < Created[a]}
Unique(a) == \A b \in Loaded \ {a} : Created[a] # Created[b]

\* An alert created at a time of its own has the same place in every listing.
LEMMA PlaceOfAlert ==
  ASSUME NEW s \in Listings, NEW a \in Loaded, Unique(a)
  PROVE  /\ Cardinality(Older(a)) \in Nat /\ Cardinality(Older(a)) < LoadedCount
         /\ s[Cardinality(Older(a)) + 1] = a
<1>1. /\ LoadedCount \in Nat /\ s \in Seq(Loaded) /\ DOMAIN s = 1..LoadedCount
      /\ \A i, j \in 1..LoadedCount : i # j => s[i] # s[j]
      /\ \A b \in Loaded : \E i \in 1..LoadedCount : s[i] = b
      /\ \A i, j \in 1..LoadedCount : i < j => Created[s[i]] <= Created[s[j]]
  BY ListingIs
<1>2. PICK k \in 1..LoadedCount : s[k] = a
  BY <1>1
<1>3. \A b \in Loaded : Created[b] \in Nat /\ s \in [1..LoadedCount -> Loaded]
  BY <1>1
<1>4. \A i \in 1..LoadedCount : Created[s[i]] < Created[a] <=> i < k
  <2> SUFFICES ASSUME NEW i \in 1..LoadedCount
               PROVE  Created[s[i]] < Created[a] <=> i < k
    OBVIOUS
  <2>1. s[i] \in Loaded /\ Created[s[i]] \in Nat /\ Created[a] \in Nat
    BY <1>3
  <2>2. CASE i < k
    <3>1. Created[s[i]] <= Created[a] /\ s[i] # a
      BY <1>1, <1>2, <2>2
    <3>2. Created[s[i]] # Created[a]
      BY <2>1, <3>1 DEF Unique
    <3> QED BY <2>1, <2>2, <3>1, <3>2
  <2>3. CASE i = k
    BY <1>2, <2>1, <2>3
  <2>4. CASE k < i
    <3>1. Created[a] <= Created[s[i]]
      BY <1>1, <1>2, <2>4
    <3> QED BY <2>1, <2>4, <3>1
  <2> QED BY <2>2, <2>3, <2>4
<1> DEFINE first == [i \in 1..(k - 1) |-> s[i]]
<1>5. first \in Bijection(1..(k - 1), Older(a))
  <2>1. \A i \in 1..(k - 1) : i \in 1..LoadedCount /\ i < k
    BY <1>1
  <2>2. first \in [1..(k - 1) -> Older(a)]
    BY <1>3, <1>4, <2>1 DEF Older
  <2>3. \A i, j \in 1..(k - 1) : first[i] = first[j] => i = j
    BY <1>1, <2>1
  <2>4. \A b \in Older(a) : \E i \in 1..(k - 1) : first[i] = b
    <3> SUFFICES ASSUME NEW b \in Older(a) PROVE \E i \in 1..(k - 1) : first[i] = b
      OBVIOUS
    <3>1. PICK i \in 1..LoadedCount : s[i] = b
      BY <1>1 DEF Older
    <3>2. i < k
      BY <1>4, <3>1 DEF Older
    <3>3. i \in 1..(k - 1)
      BY <1>1, <3>2
    <3> QED BY <3>1, <3>3
  <2> QED BY <2>2, <2>3, <2>4, Fun_IsBij
<1> HIDE DEF first
<1>6. Cardinality(Older(a)) = k - 1
  <2>1. 1 \in Int /\ k - 1 \in Int /\ k - 1 \in Nat
    BY <1>1
  <2> DEFINE last == k - 1
  <2> HIDE DEF last
  <2>2. 1 \in Int /\ last \in Int
    BY <2>1 DEF last
  <2>3. /\ IsFiniteSet(1..last)
        /\ Cardinality(1..last) = IF 1 > last THEN 0 ELSE last - 1 + 1
    BY <2>2, FS_Interval, Zenon
  <2>4. Cardinality(1..last) = last
    BY <2>1, <2>3 DEF last
  <2>5. ExistsBijection(1..last, Older(a))
    BY <1>5 DEF last, ExistsBijection
  <2>6. Cardinality(Older(a)) = Cardinality(1..last)
    BY <2>3, <2>5, FS_Bijection
  <2> QED BY <2>4, <2>6 DEF last
<1> QED BY <1>1, <1>2, <1>6

\* Every alert with a time of its own that the pages have passed was scored, or is left
\* in the batch; and the last page was empty.
BatchOf(r) ==
  /\ pc[r] = "idle" => offset[r] = 0
  /\ ask[r].kind = "score_all" => \A a \in Loaded : Unique(a) =>
       /\ Cardinality(Older(a)) < offset[r] =>
            scored[r][a] # "no" \/ \E i \in 1..Len(todo[r]) : todo[r][i] = a
       /\ pc[r] = "ok" => Cardinality(Older(a)) < offset[r] /\ Len(todo[r]) = 0

BatchInv == \A r \in Requests : BatchOf(r)

LEMMA BatchForOthers ==
  ASSUME StoreInv, BatchInv, NEW r \in Requests, Step(r) \/ Fail(r), NEW x \in Requests \ {r}
  PROVE  BatchOf(x)'
<1>1. pc'[x] = pc[x] /\ ask' = ask
  BY StepMoves
<1>2. \A a \in Alerts : scored'[x][a] = scored[x][a]
  BY ScoredIs
<1>3. todo'[x] = todo[x]
  BY StepKinds, AsideLeavesBlocks, DeleteScoreIs, WritesIs, EndBlockIs, SavePredictionIs, FailIs
     DEF work
<1>4. offset'[x] = offset[x]
  <2>1. CASE Aside(r)
    BY <2>1 DEF Aside, Receive, ReadPage, ReadScore, ReadFactors, ReadPrediction, ReadQueue,
                CountQueue, work, StoreInv, StoreTypeOK
  <2> QED BY <2>1, StepKinds, DeleteScoreIs, WritesIs, EndBlockIs, SavePredictionIs, FailIs DEF work
<1>5. BatchOf(x)
  BY DEF BatchInv
<1> QED BY <1>1, <1>2, <1>3, <1>4, <1>5 DEF BatchOf

\* The next page begins where the last one ended.
LEMMA BatchReadPage ==
  ASSUME StoreInv, BatchInv, NEW r \in Requests, ReadPage(r)
  PROVE  BatchOf(r)'
<1>1. PICK page \in Pages(offset[r], PageSize) :
        /\ Move(r, "page", IF page = << >> THEN "ok" ELSE "delete")
        /\ todo' = [todo EXCEPT ![r] = page]
  BY DEF ReadPage
<1>2. offset' = [offset EXCEPT ![r] = @ + PageSize] /\ scored' = scored
  BY DEF ReadPage, history
<1>3. PICK from \in Nat : from = offset[r]
  BY DEF StoreInv, StoreTypeOK
<1>4. /\ pc[r] = "page" /\ ask' = ask /\ todo'[r] = page /\ offset'[r] = from + PageSize
      /\ pc'[r] = IF page = << >> THEN "ok" ELSE "delete"
  BY <1>1, <1>2, <1>3, Moves DEF StoreInv, StoreTypeOK
<1>5. PICK s \in Listings :
        /\ Len(page) = IF from < LoadedCount
                       THEN (IF from + PageSize <= LoadedCount THEN from + PageSize
                             ELSE LoadedCount) - from
                       ELSE 0
        /\ \A i \in 1..Len(page) : page[i] = s[from + i]
  BY <1>3, PageIs
<1>6. LoadedCount \in Nat /\ PageSize \in Nat \ {0}
  BY <1>5, ListingIs, SizesAssumption
<1>7. todo[r] = << >>
  BY <1>4, Places DEF StoreInv, PlaceInv
<1>8. ASSUME ask[r].kind = "score_all", NEW a \in Loaded, Unique(a)
      PROVE  /\ Cardinality(Older(a)) < offset'[r] =>
                  scored[r][a] # "no" \/ \E i \in 1..Len(page) : page[i] = a
             /\ page = << >> => Cardinality(Older(a)) < offset'[r] /\ Len(page) = 0
  <2>1. PICK n \in Nat : n = Cardinality(Older(a)) /\ n < LoadedCount /\ s[n + 1] = a
    BY <1>5, <1>8, PlaceOfAlert
  <2>2. n < from => scored[r][a] # "no"
    <3>1. \A i \in 1..Len(todo[r]) : FALSE
      BY <1>7
    <3> QED BY <1>3, <1>8, <2>1, <3>1 DEF BatchInv, BatchOf
  <2>3. from <= n /\ n < from + PageSize => \E i \in 1..Len(page) : page[i] = a
    <3> SUFFICES ASSUME from <= n, n < from + PageSize
                 PROVE  \E i \in 1..Len(page) : page[i] = a
      OBVIOUS
    <3>1. (n + 1) - from \in 1..Len(page)
      BY <1>5, <1>6, <2>1
    <3>2. from + ((n + 1) - from) = n + 1
      OBVIOUS
    <3> QED BY <1>5, <2>1, <3>1, <3>2
  <2>4. page = << >> => n < from + PageSize /\ Len(page) = 0
    <3>1. page = << >> => Len(page) = 0
      OBVIOUS
    <3> QED BY <1>5, <1>6, <2>1, <3>1
  <2> QED BY <1>4, <2>1, <2>2, <2>3, <2>4
<1>9. pc'[r] # "idle" /\ (pc'[r] = "ok" => page = << >>)
  BY <1>4
<1> QED BY <1>2, <1>4, <1>8, <1>9 DEF BatchOf

LEMMA BatchEndBlock ==
  ASSUME StoreInv, BatchInv, NEW r \in Requests, EndBlock(r)
  PROVE  BatchOf(r)'
<1>1. /\ UNCHANGED <<ask, offset>> /\ pc[r] = "commit" /\ pc'[r] \in {"ok", "page", "delete"}
      /\ pc'[r] = "ok" <=> ask[r].kind # "score_all"
      /\ todo'[r] = Tail(todo[r]) /\ todo[r] # << >>
  BY EndBlockIs
<1>2. todo[r] \in Seq(Alerts)
  BY DEF StoreInv, StoreTypeOK
<1>3. /\ Len(Tail(todo[r])) = Len(todo[r]) - 1 /\ Len(todo[r]) \in Nat
      /\ \A i \in 1..Len(Tail(todo[r])) : Tail(todo[r])[i] = todo[r][i + 1]
  BY <1>1, <1>2, HeadTailProperties
<1>4. ASSUME ask[r].kind = "score_all", NEW a \in Loaded, Unique(a), Cardinality(Older(a)) < offset[r]
      PROVE  scored'[r][a] # "no" \/ \E i \in 1..Len(todo'[r]) : todo'[r][i] = a
  <2>1. \/ scored[r][a] # "no"
        \/ \E i \in 1..Len(todo[r]) : todo[r][i] = a
    BY <1>4 DEF BatchInv, BatchOf
  <2>2. /\ scored'[r][Current(r)] \in {"mixed", "alone"}
        /\ \A b \in Alerts \ {Current(r)} : scored'[r][b] = scored[r][b]
    <3>1. scored' = [scored EXCEPT ![r][Current(r)] = IF r \in mixed THEN "mixed" ELSE "alone"]
      BY <1>4 DEF EndBlock
    <3>2. Current(r) \in Alerts
      BY EndBlockIs
    <3> QED BY <3>1, <3>2 DEF StoreInv, StoreTypeOK
  <2>3. CASE a = Current(r)
    BY <2>2, <2>3
  <2>4. CASE a # Current(r) /\ scored[r][a] # "no"
    BY <2>2, <2>4
  <2>5. CASE a # Current(r) /\ \E i \in 1..Len(todo[r]) : todo[r][i] = a
    <3>1. PICK i \in 1..Len(todo[r]) : todo[r][i] = a
      BY <2>5
    <3>2. i # 1
      BY <2>5, <3>1 DEF Current
    <3>3. (i - 1) \in 1..Len(Tail(todo[r])) /\ (i - 1) + 1 = i
      BY <1>3, <3>1, <3>2
    <3> QED BY <1>1, <1>3, <3>1, <3>3
  <2> QED BY <2>1, <2>3, <2>4, <2>5
<1> QED BY <1>1, <1>4 DEF BatchOf

LEMMA BatchForSelf ==
  ASSUME StoreInv, BatchInv, NEW r \in Requests, Step(r) \/ Fail(r)
  PROVE  BatchOf(r)'
<1>0. pc'[r] # "idle" /\ ask' = ask
  BY StepMoves
<1>1. CASE Receive(r)
  <2>1. pc[r] = "idle" /\ (ask[r].kind = "score_all" => pc'[r] = "page")
    BY <1>1, ReceiveMoves, Moves DEF StoreInv
  <2>2. offset'[r] = 0
    BY <1>1, <2>1 DEF Receive, BatchInv, BatchOf
  <2>3. \A a \in Loaded : Unique(a) => ~(Cardinality(Older(a)) < 0)
    <3>1. ASSUME NEW a \in Loaded, Unique(a) PROVE Cardinality(Older(a)) \in Nat
      <4>1. Older(a) \subseteq Loaded
        BY DEF Older
      <4> QED BY <4>1, FS_Subset, FS_CardinalityType
    <3> QED BY <3>1
  <2> QED BY <1>0, <2>1, <2>2, <2>3 DEF BatchOf
<1>2. CASE DeleteScore(r) \/ Writes(r) \/ Fail(r)
  <2>1. UNCHANGED <<offset, todo, scored>> /\ pc'[r] # "ok"
    BY <1>2, DeleteScoreIs, WritesIs, InsertScoreIs, DeleteFactorsIs, InsertFactorIs, FailIs
       DEF Writes, work, history
  <2> QED BY <1>0, <2>1 DEF BatchInv, BatchOf
<1>3. CASE SavePrediction(r) \/ ReadScore(r) \/ ReadFactors(r) \/ ReadPrediction(r)
           \/ ReadQueue(r) \/ CountQueue(r)
  <2>1. pc[r] \in {"predict", "read", "readFactors", "readPrediction", "count"}
    BY <1>3, Moves DEF SavePrediction, ReadScore, ReadFactors, ReadPrediction, ReadQueue,
                       CountQueue, StoreInv
  <2>2. ask[r].kind # "score_all"
    BY <2>1, Places, KindsAtPlaces DEF StoreInv, PlaceInv
  <2> QED BY <1>0, <2>2 DEF BatchOf
<1> QED BY <1>1, <1>2, <1>3, BatchReadPage, BatchEndBlock DEF Step, Writes

LEMMA BatchInitial == StoreInit => BatchInv
<1> SUFFICES ASSUME StoreInit, NEW r \in Requests PROVE BatchOf(r)
  BY DEF BatchInv
<1>1. pc[r] = "idle" /\ offset[r] = 0
  BY DEF StoreInit
<1>2. \A a \in Loaded : ~(Cardinality(Older(a)) < 0)
  <2>1. ASSUME NEW a \in Loaded PROVE Cardinality(Older(a)) \in Nat
    <3>1. Older(a) \subseteq Loaded
      BY DEF Older
    <3> QED BY <3>1, FS_Subset, FS_CardinalityType
  <2> QED BY <2>1
<1> QED BY <1>1, <1>2 DEF BatchOf

LEMMA BatchNext == StoreInv /\ BatchInv /\ [StoreNext]_storeVars => BatchInv'
<1> SUFFICES ASSUME StoreInv, BatchInv, [StoreNext]_storeVars PROVE BatchInv'
  OBVIOUS
<1>1. CASE UNCHANGED storeVars
  <2>1. UNCHANGED <<ask, pc, todo, offset, scored>>
    BY <1>1, StoreUnchanged
  <2> QED BY <2>1 DEF BatchInv, BatchOf
<1>2. CASE StoreNext
  BY <1>2, BatchForOthers, BatchForSelf DEF StoreNext, BatchInv
<1> QED BY <1>1, <1>2

LEMMA BatchScores == BatchInv => BatchMissesOnlyTies
<1> SUFFICES ASSUME BatchInv, NEW r \in Requests, ask[r].kind = "score_all", pc[r] = "ok",
                    NEW a \in Loaded, Unique(a)
             PROVE  scored[r][a] # "no"
  BY DEF BatchMissesOnlyTies, Unique
<1>1. Cardinality(Older(a)) < offset[r] /\ Len(todo[r]) = 0
  BY DEF BatchInv, BatchOf
<1>2. \A i \in 1..Len(todo[r]) : FALSE
  BY <1>1
<1> QED BY <1>1, <1>2 DEF BatchInv, BatchOf

\* When score-all is answered it has scored every alert, but for alerts created at the
\* same time as another one: its pages are cut from listings that differ only in those.
THEOREM BatchIsComplete == StoreSpec => []BatchMissesOnlyTies
<1>1. StoreSpec => []BatchInv
  BY StoreInvariance, BatchInitial, BatchNext, PTL DEF StoreSpec
<1> QED BY <1>1, BatchScores, PTL

=============================================================================
