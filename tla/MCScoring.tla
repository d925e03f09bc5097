------------------------------ MODULE MCScoring ------------------------------
(* Small instances of Scoring: one alert, a few values on both sides of each limit. *)
EXTENDS Scoring

Kyc(k) == [kyc |-> k, restricted |-> FALSE]
Profile(composite, country, tier) == [composite |-> composite, country |-> country, tier |-> tier]
Txn(amount, cross) == [amount |-> amount, cross |-> cross]

Base ==
  [priority |-> "HIGH", hours |-> 25, company |-> Kyc("VERIFIED"),
   profile |-> Profile(60, 50, "MEDIUM"), txn |-> Txn(30, FALSE), baseline |-> 10,
   terrorist |-> FALSE, sanctions |-> FALSE, cases |-> 0,
   parties |-> 2, owners |-> 1, countries |-> 1, related |-> 0, txns |-> 9]

\* An ordinary alert, one about which little is known, and one that ranks high.
SomeWorlds ==
  { Base,
    [Base EXCEPT !.priority = None, !.hours = None, !.company = None, !.profile = None,
                 !.txn = None, !.baseline = None],
    [Base EXCEPT !.priority = "CRITICAL", !.hours = 5, !.profile = Profile(95, 80, "HIGH"),
                 !.txn = Txn(81, TRUE), !.company = Kyc("EXPIRED")] }

SomeValues ==
  [priority |-> {None, "LOW", "MEDIUM", "HIGH", "CRITICAL"}, hours |-> {-1, 0, 4, 5, 24, 168, 169},
   company |-> {None, Kyc("PENDING"), Kyc("REJECTED"), [kyc |-> "VERIFIED", restricted |-> TRUE]},
   profile |-> {None, Profile(100, 95, "LOW"), Profile(60, None, "HIGH"),
                Profile(60, None, None), Profile(None, 50, "CRITICAL")},
   txn |-> {None, Txn(None, TRUE), Txn(10, FALSE), Txn(80, TRUE)},
   baseline |-> {None, 0}, terrorist |-> {TRUE}, sanctions |-> BOOLEAN, cases |-> {0, 1},
   parties |-> {3}, owners |-> {0}, countries |-> {2}, related |-> {2}, txns |-> {200}]
=============================================================================
