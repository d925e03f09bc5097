------------------------------- MODULE Scoring -------------------------------
(***************************************************************************)
(* Urgency of an alert: the rows the repositories look up for it, the      *)
(* policy of config/scoring_policy.yaml, the engine that turns one into a  *)
(* score (scoring/engine.py), its place in the queue, and the heuristic of *)
(* prediction/heuristic.py.                                                *)
(*                                                                         *)
(* One alert is scored again and again while the rows about it change from *)
(* outside.  A row that is not there, and a NULL column, is None.  Numbers *)
(* are whole: a score is in hundredths of a point and a margin in          *)
(* five-hundredths of an hour, which makes the code's roundings the        *)
(* identity.                                                               *)
(***************************************************************************)
EXTENDS Integers, FiniteSets

CONSTANTS
  None,         \* NULL
  Worlds,       \* the rows there may be about the alert at first
  Values,       \* what each field of the rows may change to
  MaxChanges,   \* bound: how often they change
  MaxFailed,    \* bound: how many lookups fail in one scoring
  Backends

Lookups == {"baseline", "sanctions", "restricted", "cases", "owners", "kyc"}

Optional(S) == S \cup {None}

\* A record with a value of P(S) for each field whose values are those of S.
Fields(P(_)) ==
  [priority : P(Optional({"CRITICAL", "HIGH", "MEDIUM", "LOW", "other"})),
   hours : P(Optional(Int)),
   company : P(Optional([kyc : Optional({"EXPIRED", "REJECTED", "PENDING", "VERIFIED", "other"}),
                         restricted : Optional(BOOLEAN)])),
   profile : P(Optional([composite : Optional(0..100), country : Optional(0..100),
                         tier : Optional({"CRITICAL", "HIGH", "MEDIUM", "LOW", "other"})])),
   txn : P(Optional([amount : Optional(Nat), cross : Optional(BOOLEAN)])),
   baseline : P(Optional(Nat)), terrorist : P(BOOLEAN), sanctions : P(BOOLEAN),
   cases : P(Nat), parties : P(Nat), owners : P(Nat), countries : P(Nat), related : P(Nat),
   txns : P(Nat)]
World == Fields(LAMBDA S : S)

ASSUME ScoringAssumption ==
  /\ None \notin Int
  /\ Worlds \subseteq World
  /\ Values \in Fields(LAMBDA S : SUBSET S)
  /\ MaxChanges \in Nat /\ MaxFailed \in Nat /\ Backends \subseteq {"sqlite", "hana"}

VARIABLES
  backend,      \* chosen when the program is installed, never changes
  world,        \* the rows about the alert
  changes,      \* how often they have changed
  stored        \* the last score, with the rows and the lookups it was made from, or None

vars == <<backend, world, changes, stored>>

-----------------------------------------------------------------------------
(* The policy.                                                             *)

PriorityScore == [CRITICAL |-> 100, HIGH |-> 80, MEDIUM |-> 50, LOW |-> 25]
KycPenalty == [EXPIRED |-> 20, REJECTED |-> 30, PENDING |-> 10, VERIFIED |-> 0]
TierFloor == [CRITICAL |-> 90, HIGH |-> 70, MEDIUM |-> 40, LOW |-> 0]
CrossBorderBonus == 10
Default == [typology |-> 50, entity |-> 50, jurisdiction |-> 40, sla |-> 50, materiality |-> 40]
Weight == [typology |-> 25, entity |-> 20, jurisdiction |-> 20, sla |-> 20, materiality |-> 15]
HoursCurve == [points |-> << <<-1, 100>>, <<24, 90>>, <<72, 70>>, <<168, 45>> >>, above |-> 20]
RatioCurve == [points |-> << <<1, 15>>, <<3, 45>>, <<8, 75>> >>, above |-> 100]
TierMinimum == [CRITICAL |-> 85, HIGH |-> 65, MEDIUM |-> 40]
BandMaximum == [LOW |-> 4, MEDIUM |-> 9, HIGH |-> 15]

OverrideOrder ==
  [SANCTIONS_MATCH |-> 1, TERRORIST_FINANCING_INDICATOR |-> 2, IMMINENT_SLA_BREACH |-> 3,
   RESTRICTED_CUSTOMER |-> 4, REPEAT_ESCALATED_ALERT |-> 5]
ForcedTier == [o \in DOMAIN OverrideOrder |->
                 IF o = "REPEAT_ESCALATED_ALERT" THEN "HIGH" ELSE "CRITICAL"]

\* NULL is not a name.
ASSUME NamesAssumption == None \notin DOMAIN TierFloor \cup DOMAIN OverrideOrder

-----------------------------------------------------------------------------
(* What the repositories look up.                                          *)

Column(row, name) == IF row = None THEN None ELSE row[name]
IsTrue(flag) == flag # None /\ flag

\* RISK_ALERTS LEFT JOIN COMPANIES, COMPANY_RISK_PROFILES and TRANSACTIONS.
Joined(w) ==
  [priority |-> w.priority, hours |-> w.hours,
   kyc |-> Column(w.company, "kyc"), composite |-> Column(w.profile, "composite"),
   country |-> Column(w.profile, "country"), tier |-> Column(w.profile, "tier"),
   amount |-> Column(w.txn, "amount"), cross |-> Column(w.txn, "cross")]

MissingSla(w) == IF w.hours = None THEN {"sla"} ELSE {}

LocalInputs(w) ==
  [row |-> Joined(w), baseline |-> w.baseline, sanctions |-> w.sanctions,
   terrorist |-> w.terrorist, restricted |-> IsTrue(Column(w.company, "restricted")),
   prior |-> w.cases > 0,
   unresolved |-> MissingSla(w) \cup (IF w.baseline = None THEN {"baseline"} ELSE {})]

\* Mutant: the failed lookup of SANCTIONS_LISTS leaves no note.
HanaInputsQuiet(w, failed) ==
  [row |-> Joined(w), baseline |-> IF "baseline" \in failed THEN None ELSE w.baseline,
   sanctions |-> IF "sanctions" \in failed THEN None ELSE w.sanctions,
   terrorist |-> w.terrorist,
   restricted |-> "restricted" \notin failed /\ IsTrue(Column(w.company, "restricted")),
   prior |-> "cases" \notin failed /\ w.cases > 0,
   unresolved |-> MissingSla(w)
     \cup (failed \cap {"baseline", "restricted", "cases"})
     \cup (IF w.baseline = None THEN {"baseline"} ELSE {})]

\* Mutant: the case of the alert itself is not counted as a prior one.
HanaInputsPrior(w, failed) ==
  [row |-> Joined(w), baseline |-> IF "baseline" \in failed THEN None ELSE w.baseline,
   sanctions |-> IF "sanctions" \in failed THEN None ELSE w.sanctions,
   terrorist |-> w.terrorist,
   restricted |-> "restricted" \notin failed /\ IsTrue(Column(w.company, "restricted")),
   prior |-> "cases" \notin failed /\ w.cases > 1,
   unresolved |-> MissingSla(w)
     \cup (failed \cap {"baseline", "sanctions", "restricted", "cases"})
     \cup (IF w.baseline = None THEN {"baseline"} ELSE {})]

\* On HANA each further lookup may fail; what it was for is noted and stays unknown, or
\* (the restriction, the prior cases) is taken for absent.
HanaInputs(w, failed) ==
  [row |-> Joined(w), baseline |-> IF "baseline" \in failed THEN None ELSE w.baseline,
   sanctions |-> IF "sanctions" \in failed THEN None ELSE w.sanctions,
   terrorist |-> w.terrorist,
   restricted |-> "restricted" \notin failed /\ IsTrue(Column(w.company, "restricted")),
   prior |-> "cases" \notin failed /\ w.cases > 0,
   unresolved |-> MissingSla(w)
     \cup (failed \cap {"baseline", "sanctions", "restricted", "cases"})
     \cup (IF w.baseline = None THEN {"baseline"} ELSE {})]

VolumeBand(n) == IF n < 10 THEN 0 ELSE IF n < 50 THEN 1 ELSE IF n < 200 THEN 2 ELSE 3

\* Parties of the transaction and its countries count when there is one; an absent
\* company is not a missing KYC here, ...
LocalComplexity(w) ==
  [entities |-> (IF w.txn = None THEN 1 ELSE w.parties) + w.owners,
   countries |-> IF w.txn = None THEN 0 ELSE w.countries,
   missingKyc |-> IF w.company # None /\ w.company.kyc # "VERIFIED" THEN 1 ELSE 0,
   related |-> w.related, volume |-> VolumeBand(w.txns)]

\* ... but is one on HANA, where two of the lookups may fail without a note.
HanaComplexity(w, failed) ==
  [entities |-> (IF w.txn = None THEN 1 ELSE w.parties)
                + (IF "owners" \in failed THEN 0 ELSE w.owners),
   countries |-> IF w.txn = None THEN 0 ELSE w.countries,
   missingKyc |-> IF "kyc" \notin failed /\ Column(w.company, "kyc") = "VERIFIED" THEN 0 ELSE 1,
   related |-> w.related, volume |-> VolumeBand(w.txns)]

Inputs(b, w, failed) == IF b = "hana" THEN HanaInputs(w, failed) ELSE LocalInputs(w)
Complexity(b, w, failed) ==
  IF b = "hana" THEN HanaComplexity(w, failed) ELSE LocalComplexity(w)

-----------------------------------------------------------------------------
(* The engine.                                                             *)

Smaller(a, b) == IF a <= b THEN a ELSE b
Larger(a, b) == IF a <= b THEN b ELSE a

\* The score of the first point whose limit, times unit, the value does not pass.
Piecewise(value, unit, curve) ==
  LET hits == {i \in DOMAIN curve.points : value <= curve.points[i][1] * unit}
  IN  IF hits = {} THEN curve.above
      ELSE curve.points[CHOOSE i \in hits : \A j \in hits : i <= j][2]

HoursScore(hours) ==
  IF hours = None THEN Default.sla ELSE Piecewise(hours, 1, HoursCurve)

RatioScore(amount, baseline) ==
  IF amount = None \/ baseline \in {None, 0} THEN Default.materiality
  ELSE Piecewise(amount, baseline, RatioCurve)

Typology(in) ==
  IF in.row.priority \in DOMAIN PriorityScore THEN PriorityScore[in.row.priority]
  ELSE Default.typology

EntityRisk(in) ==
  IF in.row.composite = None THEN Default.entity
  ELSE Smaller(100, in.row.composite
         + (IF in.row.kyc \in DOMAIN KycPenalty THEN KycPenalty[in.row.kyc] ELSE 0))

Jurisdiction(in) ==
  IF in.row.country = None /\ in.row.tier = None THEN Default.jurisdiction
  ELSE Smaller(100,
         Larger(IF in.row.country = None THEN 0 ELSE in.row.country,
                IF in.row.tier \in DOMAIN TierFloor THEN TierFloor[in.row.tier] ELSE 0)
         + (IF IsTrue(in.row.cross) THEN CrossBorderBonus ELSE 0))

SlaProximity(in) == HoursScore(in.row.hours)
Materiality(in) == RatioScore(in.row.amount, in.baseline)

Urgency(in) ==
  Weight.typology * Typology(in) + Weight.entity * EntityRisk(in)
  + Weight.jurisdiction * Jurisdiction(in) + Weight.sla * SlaProximity(in)
  + Weight.materiality * Materiality(in)

TierOf(score) ==
  IF score >= 100 * TierMinimum.CRITICAL THEN "CRITICAL"
  ELSE IF score >= 100 * TierMinimum.HIGH THEN "HIGH"
  ELSE IF score >= 100 * TierMinimum.MEDIUM THEN "MEDIUM" ELSE "LOW"

\* What is not known triggers nothing.
Triggered(in) ==
  {o \in DOMAIN OverrideOrder :
     CASE o = "SANCTIONS_MATCH" -> IsTrue(in.sanctions)
       [] o = "TERRORIST_FINANCING_INDICATOR" -> in.terrorist
       [] o = "IMMINENT_SLA_BREACH" -> in.row.hours # None /\ in.row.hours <= 4
       [] o = "RESTRICTED_CUSTOMER" -> in.restricted
       [] o = "REPEAT_ESCALATED_ALERT" -> in.prior}

\* Mutant: the last match wins.
LastOverride(in) ==
  IF Triggered(in) = {} THEN None
  ELSE CHOOSE o \in Triggered(in) :
         \A p \in Triggered(in) : OverrideOrder[p] <= OverrideOrder[o]

\* The first match wins.
Override(in) ==
  IF Triggered(in) = {} THEN None
  ELSE CHOOSE o \in Triggered(in) :
         \A p \in Triggered(in) : OverrideOrder[o] <= OverrideOrder[p]

\* One source system always.
Points(c) == c.entities + 2 * c.countries + 2 * c.missingKyc + 1 + 2 * c.related + c.volume
Band(points) ==
  IF points <= BandMaximum.LOW THEN "LOW" ELSE IF points <= BandMaximum.MEDIUM THEN "MEDIUM"
  ELSE IF points <= BandMaximum.HIGH THEN "HIGH" ELSE "VERY_HIGH"

ScoreAlert(in, c) ==
  LET score == Urgency(in)
      override == Override(in)
  IN  [score |-> score, override |-> override,
       tier |-> IF override = None THEN TierOf(score) ELSE ForcedTier[override],
       points |-> Points(c), band |-> Band(Points(c)), caveats |-> in.unresolved]

\* HeuristicSLAPredictor: 400 hours by priority, by risk and by complexity.
PriorityMultiplier == [CRITICAL |-> 18, HIGH |-> 14, MEDIUM |-> 10, LOW |-> 7]
ExpectedHours(in, c) ==
  (IF in.row.priority \in DOMAIN PriorityMultiplier THEN PriorityMultiplier[in.row.priority]
   ELSE 10)
  * (200 + (IF in.row.composite = None THEN 50 ELSE in.row.composite))
  * (100 + 8 * (c.entities + c.countries + c.missingKyc + c.related))

Margin(in, c) == IF in.row.hours = None THEN None ELSE 500 * in.row.hours - ExpectedHours(in, c)

-----------------------------------------------------------------------------
Assess(b, w, failed) ==
  [from |-> w, failed |-> failed,
   result |-> ScoreAlert(Inputs(b, w, failed), Complexity(b, w, failed)),
   margin |-> Margin(Inputs(b, w, failed), Complexity(b, w, failed))]

Init ==
  /\ backend \in Backends
  /\ world \in Worlds
  /\ changes = 0
  /\ stored = None

\* Outside the service, time passes and rows are corrected.
Change ==
  /\ changes < MaxChanges
  /\ changes' = changes + 1
  /\ \E field \in DOMAIN world : \E value \in Values[field] :
       world' = [world EXCEPT ![field] = value]
  /\ UNCHANGED <<backend, stored>>

\* POST alerts/{id}/score and predict-sla, and score-all for each alert.
Rescore ==
  /\ \E failed \in SUBSET Lookups :
       /\ Cardinality(failed) <= IF backend = "hana" THEN MaxFailed ELSE 0
       /\ stored' = Assess(backend, world, failed)
  /\ UNCHANGED <<backend, world, changes>>

Next == Change \/ Rescore
Spec == Init /\ [][Next]_vars

-----------------------------------------------------------------------------
(* The queue.                                                              *)

TierRank == [CRITICAL |-> 0, HIGH |-> 1, MEDIUM |-> 2, LOW |-> 3]
Group(s) == IF s.result.override = None THEN 1 ELSE 0
DueBefore(h, k) == k # None /\ (h = None \/ h < k)

\* Overrides, then the tier, the due date (NULL first) and the score.
Ahead(s, t) ==
  \/ Group(s) < Group(t)
  \/ /\ Group(s) = Group(t)
     /\ \/ TierRank[s.result.tier] < TierRank[t.result.tier]
        \/ /\ s.result.tier = t.result.tier
           /\ \/ DueBefore(s.from.hours, t.from.hours)
              \/ s.from.hours = t.from.hours /\ s.result.score > t.result.score

-----------------------------------------------------------------------------
(* Properties.                                                             *)

ScoreType(r) == r.score \in 0..10000 /\ r.tier \in DOMAIN TierRank

TypeOK ==
  /\ backend \in Backends
  /\ world \in World
  /\ changes \in 0..MaxChanges
  /\ stored # None =>
       /\ stored.from \in World
       /\ stored.failed \subseteq Lookups
       /\ ScoreType(stored.result)

AtMost(a, b) == a = b \/ (a # None /\ b # None /\ a <= b)
Worse(scale, a, b) == a = b \/ (a \in DOMAIN scale /\ b \in DOMAIN scale /\ scale[a] <= scale[b])
SameRows(v, w) == \A row \in {"company", "profile", "txn"} : (v[row] = None) = (w[row] = None)

\* In w, nothing known about the alert is less alarming than in v.
Riskier(v, w) ==
  /\ SameRows(v, w)
  /\ Worse(PriorityScore, v.priority, w.priority)
  /\ AtMost(w.hours, v.hours)
  /\ v.company # None => /\ Worse(KycPenalty, v.company.kyc, w.company.kyc)
                         /\ IsTrue(v.company.restricted) => IsTrue(w.company.restricted)
  /\ v.profile # None => /\ AtMost(v.profile.composite, w.profile.composite)
                         /\ AtMost(v.profile.country, w.profile.country)
                         /\ Worse(TierFloor, v.profile.tier, w.profile.tier)
  /\ v.txn # None => /\ AtMost(v.txn.amount, w.txn.amount)
                     /\ IsTrue(v.txn.cross) => IsTrue(w.txn.cross)
  /\ v.baseline = w.baseline
  /\ v.terrorist => w.terrorist
  /\ v.sanctions => w.sanctions
  /\ \A count \in {"cases", "parties", "owners", "countries", "related"} : v[count] <= w[count]

\* However an alert's data got worse between two scorings whose lookups worked, the
\* second never leaves it further down the queue than the first, nor with more time
\* to spare by the heuristic.
RiskierNeverRanksLower ==
  [][ stored # None /\ stored' # None
      /\ stored.failed = {} /\ stored'.failed = {} /\ Riskier(stored.from, stored'.from)
      => /\ ~Ahead(stored, stored')
         /\ AtMost(stored'.margin, stored.margin) ]_vars

\* Both backends make the same inputs of the same rows, but for the company that is not
\* there: its KYC is missing on HANA only.
BackendsAgree ==
  /\ LocalInputs(world) = HanaInputs(world, {})
  /\ world.company # None => LocalComplexity(world) = HanaComplexity(world, {})

\* A lookup that failed on HANA and, had it worked, would have given another score, tier
\* or override is named in the caveats.
FailedLookupsAreDeclared ==
  stored # None => \A f \in stored.failed :
    LET got == stored.result
        better == Assess(backend, stored.from, stored.failed \ {f}).result
    IN  \/ f \in got.caveats
        \/ got.score = better.score /\ got.tier = better.tier /\ got.override = better.override
=============================================================================
