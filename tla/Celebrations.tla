---------------------------- MODULE Celebrations ----------------------------
(***************************************************************************)
(* The celebrations that extract.py --mode competitor detects: the trophy  *)
(* tiers and records of the competitor payload, compared with a snapshot   *)
(* (milestones.json) and queued for the live channel (celebrations.json).  *)
(* A run reads the ledger, the limits feed and the bottleneck database,    *)
(* replaces the snapshot, then the queue.                                  *)
(***************************************************************************)
EXTENDS Metrics

CONSTANTS
  Families,    \* CELEB_TROPHIES
  Thresholds,  \* Thresholds[family]: the values of its tiers, lowest first
  Records,     \* CELEB_RECORDS
  Overlapping, \* Overlapping[record]: the family that makes it implicit, or None
  Lasting,     \* CELEBRATION_WINDOW_SEC
  RowPool      \* the rows that may come into the ledger

\* What milestones.json may hold; an older version of it does not know every key.
Snapshots ==
  [tiers : [Families -> Nat \cup {None}], records : [Records -> Nat \cup {None}]]

ASSUME CelebrationsAssumption ==
  /\ Families \subseteq {"relentless", "grinder", "owl", "sesspush", "bottleneck", "marathon"}
  /\ Records \subseteq {"streak", "dayActive", "endurance"}
  /\ Thresholds \in [Families -> Seq(Nat)]
  /\ \A r \in RowPool : r \in SUBSET Nat /\ IsFiniteSet(r) /\ r # {}
  /\ None \notin Nat /\ None \notin Snapshots
  /\ Overlapping \in [Records -> Families \cup {None}]
  /\ \A f \in Families : \A i \in 1 .. Len(Thresholds[f]) - 1 : Thresholds[f][i] < Thresholds[f][i + 1]

VARIABLES
  rows,       \* the rows of the ledger
  milestones, \* None or [tiers, records]; a key it does not know has None
  queue,      \* the events in celebrations.json
  fresh,      \* the events of a run that has replaced the snapshot but not the queue
  announced,  \* history: every event ever queued
  baseline,   \* history: baseline[family]: the tier it was seeded with, or None
  lost        \* history: the families whose event was lost with a killed run

celebrationVars == <<rows, milestones, queue, fresh, announced, baseline, lost>>

\* build_competitor_payload, as far as a trophy or a record reads it; hits
\* and waited are 0 when their file could not be read.
Measured(hits, waited) ==
  LET c == Combined(rows)
      days == DOMAIN c.daily
  IN [streak    |-> LongestStreak(ActiveDays(rows)),
      active    |-> c.total,
      night     |-> c.night,
      pushed    |-> hits,
      waited    |-> waited,
      busiest   |-> SetMax({0} \cup {c.daily[d] : d \in days}),
      endurance |-> SetMax({0} \cup {Timeline(r).longest : r \in rows})]

\* The value functions of the tables.
TrophyValue(f, m) ==
  CASE f = "relentless" -> m.streak  [] f = "grinder" -> m.active [] f = "owl" -> m.night
    [] f = "sesspush"   -> m.pushed  [] f = "bottleneck" -> m.waited
    [] f = "marathon"   -> m.endurance

RecordValue(k, m) ==
  CASE k = "streak" -> m.streak [] k = "dayActive" -> m.busiest [] k = "endurance" -> m.endurance

TierOf(f, value) == Cardinality({i \in 1 .. Len(Thresholds[f]) : value >= Thresholds[f][i]})

Raised(old, new) == IF old = None THEN new ELSE SetMax({old, new})

TieredUp(tiers) ==
  {f \in Families : milestones.tiers[f] # None /\ tiers[f] > milestones.tiers[f]}

\* The events of a run: a tier reached, a record broken unless its trophy
\* says so; what the snapshot does not know is seeded in silence.
Detected(tiers, records) ==
  LET up == TieredUp(tiers)
      event(kind, key, value) ==
        [kind |-> kind, key |-> key, value |-> value, stamp |-> now, expires |-> now + Lasting]
  IN {event("trophy", f, tiers[f]) : f \in up}
       \cup {event("record", k, records[k]) :
               k \in {j \in Records : /\ milestones.records[j] # None
                                      /\ records[j] > milestones.records[j]
                                      /\ Overlapping[j] \notin up}}

\* Mutant: the snapshot is what was measured last.
LatestSnapshot(tiers, records) == [tiers |-> tiers, records |-> records]

\* The snapshot keeps the highest that was ever seen.
Snapshot(tiers, records) ==
  IF milestones = None THEN [tiers |-> tiers, records |-> records]
  ELSE [tiers   |-> [f \in Families |-> Raised(milestones.tiers[f], tiers[f])],
        records |-> [k \in Records |-> Raised(milestones.records[k], records[k])]]

\* A run up to the replaced snapshot.
Detect(hits, waited) ==
  LET m == Measured(hits, waited)
      tiers   == [f \in Families |-> TierOf(f, TrophyValue(f, m))]
      records == [k \in Records |-> RecordValue(k, m)]
      events  == IF milestones = None THEN {} ELSE Detected(tiers, records)
  IN /\ fresh = {}
     /\ milestones' = Snapshot(tiers, records)
     /\ fresh' = events
     /\ baseline' = [f \in Families |-> IF baseline[f] = None THEN tiers[f] ELSE baseline[f]]
     /\ UNCHANGED <<rows, queue, announced, lost>>

\* The new events and the old ones that have not expired, if the old queue
\* can be read.
WriteQueue(readable) ==
  /\ fresh # {}
  /\ queue' = fresh \cup (IF readable THEN {e \in queue : e.expires > now} ELSE {})
  /\ announced' = announced \cup fresh
  /\ fresh' = {}
  /\ UNCHANGED <<rows, milestones, baseline, lost>>

RunKilled ==
  /\ fresh # {} /\ fresh' = {}
  /\ lost' = lost \cup {e.key : e \in fresh}
  /\ UNCHANGED <<rows, milestones, queue, announced, baseline>>

\* A full run adds a session to the ledger.
Collect ==
  /\ \E r \in RowPool \ rows : rows' = rows \cup {r}
  /\ UNCHANGED <<milestones, queue, fresh, announced, baseline, lost>>

CelebrationsInit(known) ==
  /\ rows = {} /\ queue = {} /\ fresh = {} /\ announced = {} /\ lost = {}
  /\ milestones = known
  /\ baseline = [f \in Families |-> IF known = None THEN None ELSE known.tiers[f]]
=============================================================================
