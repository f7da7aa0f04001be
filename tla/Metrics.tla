------------------------------ MODULE Metrics ------------------------------
(***************************************************************************)
(* The per-core counters of observability/metrics.c.  The two totals are   *)
(* added to atomically; the extremes are read, compared and stored by      *)
(* separate accesses, so two threads of one core can lose an update.       *)
(* `crowded' is a history of the cores where two such updates overlapped.  *)
(***************************************************************************)
EXTENDS Integers, FiniteSetsExt

CONSTANTS
  CoreCount,   \* IMG_MAX_CORES
  Reporters,   \* threads that report to the metrics
  Latencies,   \* cycle counts
  TopLatency,  \* UINT64_MAX
  MaxReports   \* bound: reports per thread

ASSUME CoreAssumption == CoreCount \in Nat \ {0}
ASSUME LatencyAssumption ==
  /\ Latencies \subseteq Nat /\ TopLatency \in Nat
  /\ \A l \in Latencies : l < TopLatency

VARIABLES
  reqs, cycles, max, min,   \* g_metrics.cores[c]
  mpc,         \* mpc[t]: the reporter's next access
  report,      \* report[t]: the core and latency it reports
  reports,     \* reports[t]: how many it has made
  told,        \* history: told[c]: the latencies reported so far, by reporter
  crowded,     \* history
  scan,        \* the export under way
  export       \* what img_metrics_export_prometheus last printed

counters  == <<reqs, cycles, max, min>>
reporting == <<mpc, report, reports, told, crowded>>
exporting == <<scan, export>>
metVars   == <<counters, reporting, exporting>>

Cores    == 0 .. CoreCount - 1
NoReport == [core |-> 0, lat |-> 0]
NoScan   == [at |-> "idle", core |-> 0, requests |-> 0, cycles |-> 0, max |-> 0]

Larger(a, b) == IF b > a THEN b ELSE a

\* img_metrics_init on the zeroed global.
MetInit ==
  /\ reqs = [c \in Cores |-> 0] /\ cycles = [c \in Cores |-> 0]
  /\ max = [c \in Cores |-> 0] /\ min = [c \in Cores |-> TopLatency]
  /\ mpc = [t \in Reporters |-> "idle"]
  /\ report = [t \in Reporters |-> NoReport]
  /\ reports = [t \in Reporters |-> 0]
  /\ told = [c \in Cores |-> {}] /\ crowded = {}
  /\ scan = NoScan /\ export = [requests |-> 0, avg |-> 0, max |-> 0]

MetAt(t, from, to) ==
  /\ mpc[t] = from
  /\ mpc' = [mpc EXCEPT ![t] = to]

-----------------------------------------------------------------------------
\* A request is counted, then its latency: img_metrics_inc.
Inc(t, c, l) ==
  /\ MetAt(t, "idle", "cycles")
  /\ reports[t] < MaxReports
  /\ reports' = [reports EXCEPT ![t] = @ + 1]
  /\ report' = [report EXCEPT ![t] = [core |-> c, lat |-> l]]
  /\ reqs' = [reqs EXCEPT ![c] = @ + 1]
  /\ UNCHANGED <<cycles, max, min, told, crowded, exporting>>

\* img_metrics_latency, its atomic add first.
AddCycles(t) ==
  LET r == report[t] IN
  /\ MetAt(t, "cycles", "readmax")
  /\ cycles' = [cycles EXCEPT ![r.core] = @ + r.lat]
  /\ told' = [told EXCEPT ![r.core] = @ \cup {<<t, reports[t], r.lat>>}]
  /\ crowded' = crowded \cup
       {c \in {r.core} : \E u \in Reporters \ {t} :
          report[u].core = c /\ mpc[u] \notin {"idle", "cycles"}}
  /\ UNCHANGED <<reqs, max, min, report, reports, exporting>>

\* Mutation: the running extreme is kept when it is the smaller one.
ReadMaxInverted(t) ==
  LET r == report[t] IN
  /\ MetAt(t, "readmax", IF r.lat < max[r.core] THEN "storemax" ELSE "readmin")
  /\ UNCHANGED <<reqs, cycles, max, min, report, reports, told, crowded, exporting>>

ReadMax(t) ==
  LET r == report[t] IN
  /\ MetAt(t, "readmax", IF r.lat > max[r.core] THEN "storemax" ELSE "readmin")
  /\ UNCHANGED <<reqs, cycles, max, min, report, reports, told, crowded, exporting>>

StoreMax(t) ==
  /\ MetAt(t, "storemax", "readmin")
  /\ max' = [max EXCEPT ![report[t].core] = report[t].lat]
  /\ UNCHANGED <<reqs, cycles, min, report, reports, told, crowded, exporting>>

ReadMin(t) ==
  LET r == report[t] IN
  /\ MetAt(t, "readmin", IF r.lat < min[r.core] THEN "storemin" ELSE "idle")
  /\ report' = IF mpc'[t] = "idle" THEN [report EXCEPT ![t] = NoReport] ELSE report
  /\ UNCHANGED <<reqs, cycles, max, min, reports, told, crowded, exporting>>

StoreMin(t) ==
  /\ MetAt(t, "storemin", "idle")
  /\ min' = [min EXCEPT ![report[t].core] = report[t].lat]
  /\ report' = [report EXCEPT ![t] = NoReport]
  /\ UNCHANGED <<reqs, cycles, max, reports, told, crowded, exporting>>

(* img_metrics_export_prometheus: the exporter reads the three counters of *)
(* one core after the other while reports go on.                           *)

ScanAt(from, to) == scan.at = from /\ scan' = to

ScanStart ==
  /\ ScanAt("idle", [at |-> "reqs", core |-> 0, requests |-> 0, cycles |-> 0, max |-> 0])
  /\ UNCHANGED <<counters, reporting, export>>

ScanRequests ==
  /\ ScanAt("reqs", [scan EXCEPT !.at = "cycles", !.requests = @ + reqs[scan.core]])
  /\ UNCHANGED <<counters, reporting, export>>

ScanCycles ==
  /\ ScanAt("cycles", [scan EXCEPT !.at = "max", !.cycles = @ + cycles[scan.core]])
  /\ UNCHANGED <<counters, reporting, export>>

ScanMax ==
  /\ ScanAt("max", [scan EXCEPT !.at = IF scan.core + 1 \in Cores THEN "reqs" ELSE "print",
                                !.core = @ + 1, !.max = Larger(@, max[scan.core])])
  /\ UNCHANGED <<counters, reporting, export>>

\* The division is guarded against no request.
ScanPrint ==
  /\ ScanAt("print", NoScan)
  /\ export' = [requests |-> scan.requests,
                avg |-> IF scan.requests = 0 THEN 0 ELSE scan.cycles \div scan.requests,
                max |-> scan.max]
  /\ UNCHANGED <<counters, reporting>>

-----------------------------------------------------------------------------
MetNext ==
  \/ ScanStart \/ ScanRequests \/ ScanCycles \/ ScanMax \/ ScanPrint
  \/ \E t \in Reporters :
       \/ \E c \in Cores, l \in Latencies : Inc(t, c, l)
       \/ AddCycles(t) \/ ReadMax(t) \/ StoreMax(t) \/ ReadMin(t) \/ StoreMin(t)

MetSpec == MetInit /\ [][MetNext]_metVars

-----------------------------------------------------------------------------
MetTypeOK ==
  /\ scan.core \in 0 .. CoreCount
  /\ \A c \in Cores : reqs[c] \in Nat /\ cycles[c] \in Nat /\ max[c] \in Nat
                      /\ min[c] \in Latencies \cup {TopLatency}
  /\ mpc \in [Reporters -> {"idle", "cycles", "readmax", "storemax", "readmin",
                            "storemin"}]

\* The latencies whose reports have returned.
Settled(c) ==
  {r \in told[c] : reports[r[1]] # r[2] \/ mpc[r[1]] = "idle"}

\* The counters say what was reported, whatever the interleaving: the totals
\* always, the extremes on every core that never had two reports at once
\* (metrics.c:32-36); and, where no core had, no later export shows fewer requests
\* or a smaller maximum than the last one did, although the exporter reads the
\* cores one after the other (metrics.c:45-52).
MetricsExact ==
  /\ \A c \in Cores : cycles[c] = MapThenSumSet(LAMBDA r : r[3], told[c])
  /\ \A c \in Cores \ crowded : \A r \in Settled(c) :
       min[c] <= r[3] /\ r[3] <= max[c]
  /\ scan.at = "print" =>
       /\ scan.requests >= export.requests
       /\ crowded = {} => scan.max >= export.max

=============================================================================
