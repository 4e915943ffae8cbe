------------------------------ MODULE Exporter ------------------------------
(***************************************************************************)
(* robot-dh-exporter (Go): every interval one goroutine queries PostgreSQL *)
(* family by family and sets the gauges that Prometheus reads; /healthz    *)
(* tells the readiness probe whether there is a connection pool.           *)
(*                                                                         *)
(* A family is what one query fills; its table is created by a migration   *)
(* at some time and never dropped.  Which tables there are is cached for a *)
(* minute.  Without an answer of the database at start the scrape loop is  *)
(* never started.                                                          *)
(***************************************************************************)
EXTENDS Integers, Sequences, FiniteSets, SequencesExt

CONSTANTS
  Families,      \* the families, in the order of the queries; "datasets" is the first
  Platform,      \* those of scrapePlatform and scrapeWarehouse
  MaxCreated,    \* bound: tables created and values changed
  MaxAbsences    \* bound: times the database goes away or comes back

ASSUME ExporterAssumption ==
  /\ Families \in Seq(ToSet(Families)) /\ Families # <<>> /\ IsInjective(Families)
  /\ Platform \subseteq ToSet(Families)
  /\ MaxCreated \in Nat /\ MaxAbsences \in Nat

VARIABLES
  answers,     \* the database answers
  value,       \* what the table of each family holds, 0 while it does not exist
  querier,     \* "none" until main has connected, then "pool", or "nil" for good
  known,       \* the tables in the cache
  cached,      \* fresh, old, or none
  pos,         \* the next family of the scrape under way, 0 between two scrapes
  allGood,     \* no query of the scrape has failed
  gauge,       \* what /metrics shows of each family
  up, connected,   \* robot_dh_exporter_up; db_connected of /healthz
  since,       \* the values each family has had since the scrape began
  expected,    \* the tables the scrape cannot miss: they were known, or would be, when it began
  created, absences

scrapeVars == <<known, cached, pos, allGood, gauge, up, connected, expected>>
exporterVars == <<answers, value, querier, scrapeVars, since, created, absences>>

Names == ToSet(Families)
Existing == {f \in Names : value[f] # 0}

-----------------------------------------------------------------------------

\* main: db.New pings once.
Connect ==
  /\ querier = "none"
  /\ querier' = IF answers THEN "pool" ELSE "nil"
  /\ UNCHANGED <<answers, value, scrapeVars, since, created, absences>>

\* The goroutine starts with a scrape, the ticker starts the others.
ScrapeStart ==
  /\ querier = "pool" /\ pos = 0
  /\ pos' = 1 /\ allGood' = TRUE
  /\ expected' = IF cached = "fresh" THEN known ELSE Existing
  /\ since' = [f \in Names |-> {value[f]}]
  /\ UNCHANGED <<answers, value, querier, known, cached, gauge, up, connected, created, absences>>

NeverAgain == cached # "none"                                         \* mutant
\* tablesPresent: what is in the cache serves for a minute.
Serves == cached = "fresh"

MainOnly(f) == f \notin Platform                                      \* mutant
\* An error of any query, those of the groups included, fails the scrape.
Counts(f) == f \in Names

\* A table that the cache says is missing is passed over without asking the database.
Query ==
  /\ pos \in 1 .. Len(Families)
  /\ LET f == Families[pos]
         present == IF Serves THEN known ELSE Existing
     IN  IF ~answers /\ (~Serves \/ f \in known)
         THEN /\ allGood' = (allGood /\ ~Counts(f))
              /\ UNCHANGED <<known, cached, gauge>>
         ELSE /\ known' = present
              /\ cached' = IF Serves THEN cached ELSE "fresh"
              /\ gauge' = IF f \in present THEN [gauge EXCEPT ![f] = value[f]]
                          ELSE IF f = "datasets" THEN [gauge EXCEPT ![f] = 0] ELSE gauge
              /\ UNCHANGED allGood
  /\ pos' = pos + 1
  /\ UNCHANGED <<answers, value, querier, up, connected, since, expected, created, absences>>

ScrapeEnd ==
  /\ pos = Len(Families) + 1
  /\ pos' = 0 /\ up' = allGood /\ connected' = TRUE
  /\ UNCHANGED <<answers, value, querier, known, cached, allGood, gauge, since, expected, created, absences>>

\* tableCacheTTL
Minute ==
  /\ cached = "fresh" /\ cached' = "old"
  /\ UNCHANGED <<answers, value, querier, known, pos, allGood, gauge, up, connected, since,
                 expected, created, absences>>

Write(f) ==
  /\ created < MaxCreated
  /\ created' = created + 1
  /\ value' = [value EXCEPT ![f] = @ + 1]
  /\ since' = [since EXCEPT ![f] = @ \cup {value'[f]}]
  /\ UNCHANGED <<answers, querier, scrapeVars, absences>>

DbFlips ==
  /\ absences < MaxAbsences
  /\ absences' = absences + 1
  /\ answers' = ~answers
  /\ UNCHANGED <<value, querier, scrapeVars, since, created>>

ExporterInit ==
  /\ answers \in BOOLEAN /\ value = [f \in Names |-> 0] /\ querier = "none"
  /\ known = {} /\ cached = "none" /\ pos = 0 /\ allGood = FALSE
  /\ gauge = [f \in Names |-> 0] /\ up = FALSE /\ connected = FALSE
  /\ since = [f \in Names |-> {0}] /\ expected = {}
  /\ created = 0 /\ absences = 0

Exports == Connect \/ ScrapeStart \/ Query \/ ScrapeEnd
ExporterNext == Exports \/ Minute \/ DbFlips \/ \E f \in Names : Write(f)

\* A live goroutine goes on, its ticker ticks, and the clock makes the cache old.
ExporterSpec ==
  ExporterInit /\ [][ExporterNext]_exporterVars
    /\ WF_exporterVars(Exports) /\ WF_exporterVars(Minute)

-----------------------------------------------------------------------------
(* Properties.                                                             *)

\* Between two scrapes, up = 1 vouches for every gauge: it shows what its table held at
\* some time of the last scrape, not what an earlier one saw (scrape: ok = false).
UpMeansFresh ==
  pos = 0 /\ up => \A f \in expected : gauge[f] \in since[f]

\* If it has connected once, the gauges come to show what the tables hold and up = 1,
\* whatever outages there were and whichever tables came late, when the database answers
\* in the end (Start, tablesPresent).
ExporterCatchesUp ==
  <>[](querier = "pool" /\ answers => up /\ gauge = value)
=============================================================================
