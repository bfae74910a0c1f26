------------------------------ MODULE Reports ------------------------------
(***************************************************************************)
(* What is counted: the rows of vehicle_count_events and the buckets of    *)
(* traffic_aggregates as the storage workers and the development seeder    *)
(* write them (storage_worker.py, repositories.py, seed_db.py), and the    *)
(* answers the count, report and dashboard routes compute from them while  *)
(* the workers go on writing.  Time passes in slots, HourSlots to an hour  *)
(* and DayHours hours to a day; a lane stands for a lane and a vehicle     *)
(* type of a camera, and all that crosses it goes one way.                 *)
(***************************************************************************)
EXTENDS Integers, FiniteSets, Bags, FiniteSetsExt

CONSTANTS Lanes,      \* records [camera, lane, way]
          HourSlots, DayHours,
          LastSlot,   \* bound on time
          MaxLag,     \* bound on the slots a crossing waits to be stored
          MaxRows,    \* bound on the rows
          RowLimit    \* bucket rows a series reads at most (168 in the code)

ASSUME ReportsAssumption ==
    /\ {HourSlots, DayHours, RowLimit} \subseteq Nat \ {0}
    /\ {LastSlot, MaxLag, MaxRows} \subseteq Nat
    /\ IsFiniteSet(Lanes)
    /\ \A l \in Lanes : l.way \in {"forward", "backward", "none"}

(* The cameras rows may be stored of: those that were deleted keep theirs. *)
Cameras  == {l.camera : l \in Lanes}
Slots    == 0 .. LastSlot
Day      == HourSlots * DayHours
Hours    == 0 .. DayHours - 1
HourOf(t)    == t - (t % HourSlots)
DayOf(t)     == t - (t % Day)
HourOfDay(t) == (t % Day) \div HourSlots

VARIABLES
    now,      \* the time
    rows,     \* the rows, a bag; "rolled" is history: the row has its buckets
    buckets,  \* the hourly buckets: a bag of a lane and the start of an hour
    request   \* the summary that is being computed

reportVars == <<now, rows, buckets, request>>

Row     == [lane : Lanes, at : Slots, demo : BOOLEAN, rolled : BOOLEAN]
Bucket  == [lane : Lanes, hour : Slots]
IsPerLane(f) == DOMAIN f \subseteq Lanes /\ \A l \in DOMAIN f : f[l] \in Nat
Steps   == {"idle", "lanes", "total", "ways", "recent", "done"}
None    == [l \in {} |-> 0]  \* a figure for no lane
Idle    == [at |-> "idle", camera |-> "none", since |-> {}, until |-> {},
            asked |-> 0, lanes |-> None, total |-> 0, ways |-> None, last |-> {}]

ReportsTypeOK ==
    /\ now \in Slots
    /\ IsABag(rows) /\ BagToSet(rows) \subseteq Row
    /\ IsABag(buckets) /\ BagToSet(buckets) \subseteq Bucket
    /\ DOMAIN request = DOMAIN Idle
    /\ request.at \in Steps /\ request.camera \in Cameras \cup {"none"}
    /\ request.since \subseteq Slots /\ request.until \subseteq Int
    /\ {request.asked, request.total} \subseteq Nat /\ request.last \subseteq Slots
    /\ IsPerLane(request.lanes) /\ IsPerLane(request.ways)

ReportsInit ==
    /\ now = 0 /\ rows = EmptyBag /\ buckets = EmptyBag
    /\ request = Idle

-----------------------------------------------------------------------------
(* What the queries count.                                                 *)

SumOver(f, S) == MapThenSumSet(LAMBDA x : f[x], S)

Count(S) == SumOver(rows, S)

(* _filter_demo_jobs: rows of a demo job do not count.                     *)
Real(cams) == {r \in BagToSet(rows) : ~r.demo /\ r.lane.camera \in cams}

WithinHour(t, since, until) ==
    /\ \A s \in since : t >= s
    /\ IF until = {} THEN t >= now - HourSlots ELSE \A u \in until : t <= u

(* The window of a query: `since' and `until' are sets of at most one      *)
(* instant.  Without an end the window is cut to the last day as well.     *)
Within(t, since, until) ==
    /\ \A s \in since : t >= s
    /\ IF until = {} THEN t >= now - Day ELSE \A u \in until : t <= u

Counted(cam, since, until) == {r \in Real({cam}) : Within(r.at, since, until)}

CountByLane(S) == [l \in {r.lane : r \in S} |-> Count({r \in S : r.lane = l})]

CountsSummary(cam, since, until) == CountByLane(Counted(cam, since, until))

CountsTotalAfter(cam, since, until) ==
    Count({r \in Counted(cam, since, until) : \A s \in since : r.at > s})
CountsTotal(cam, since, until) == Count(Counted(cam, since, until))

DirectionSummary(cam, since, until) ==
    CountByLane({r \in Counted(cam, since, until) :
                    r.lane.way \in {"forward", "backward"}})

(* The last crossing of a camera, in whatever window.                      *)
RecentEvent(cam) == IF Real({cam}) = {} THEN {} ELSE {Max({r.at : r \in Real({cam})})}

(* The newest bucket rows of a series: which ones of an hour stay when the *)
(* limit cuts, the query leaves open.                                      *)
Newest(S) ==
    {T \in SUBSET S : /\ Cardinality(T) = Min({RowLimit, Cardinality(S)})
                      /\ \A b \in T, c \in S \ T : b.hour >= c.hour}

BucketsIn(cams, since, until) ==
    {b \in BagToSet(buckets) : b.lane.camera \in cams /\ Within(b.hour, since, until)}

(* get_counts_timeseries: the windows end with `until', inclusively.       *)
CountsTimeseries(cams, since, until) == Newest(BucketsIn(cams, since, until))

Sum(T) == SumOver(buckets, T)

(* get_counts_hourly_from_events: rows by the hour of the day, `until'     *)
(* exclusive.                                                              *)
HourlyFromEvents(cams, since, until) ==
    [h \in Hours |-> Count({r \in Real(cams) : /\ since <= r.at /\ r.at < until
                                               /\ HourOfDay(r.at) = h})]

(* _build_hourly_buckets: a day by its buckets; by its rows if there is    *)
(* none.  Asked of no camera, it takes those of every camera there was.    *)
HourlyBuckets(cams, start) ==
    {IF T = {} THEN HourlyFromEvents(cams, start, start + Day)
     ELSE [h \in Hours |-> Sum({b \in T : HourOfDay(b.hour) = h})] :
        T \in CountsTimeseries(cams, {start}, {start + Day})}

(* The series of a camera, hour by hour.  Computed from the rows, every    *)
(* hour of the day is put on the day the window begins.                    *)
Start(since, end) == IF since = {} THEN end - Day ELSE Max(since)

Chart(cam, start, end, T) ==
    LET byRow == HourlyFromEvents({cam}, start, end)
    IN  IF T = {}
        THEN [h \in {DayOf(start) + HourSlots * i : i \in Hours} |-> byRow[HourOfDay(h)]]
        ELSE [h \in {b.hour : b \in T} |-> Sum({b \in T : b.hour = h})]

CountsSeries(cam, since, until) ==
    LET end == IF until = {} THEN now ELSE Max(until)
    IN  {Chart(cam, Start(since, end), end, T) : T \in CountsTimeseries({cam}, since, until)}

(* dashboard_summary, given the cameras that have a file and what runs     *)
(* live: whether a camera's pipeline is registered and its stream active,  *)
(* and the tracks its session has seen.  What is stored of a camera        *)
(* without a file is left out; a pipeline of one that runs is listed.      *)
Pipelines == [on : {TRUE}, live : BOOLEAN, tracks : {0, 1}]
             \cup {[on |-> FALSE, live |-> FALSE, tracks |-> 0]}
Snapshots == [Cameras -> Pipelines]

Fleet(f) == SumOver(f, DOMAIN f)
Stored(cams) == [c \in cams |-> CountsTotal(c, {}, {})]

CameraRow(live, stored) ==
    [c \in DOMAIN stored \cup {c \in Cameras : live[c].on} |->
        IF c \in DOMAIN stored /\ ~(live[c].live /\ live[c].tracks > 0)
        THEN stored[c] ELSE live[c].tracks]

DashboardTotal(live, stored) ==
    LET tracks == Fleet([c \in Cameras |-> live[c].tracks])
    IN  IF tracks > 0 /\ \E c \in Cameras : live[c].live THEN tracks ELSE Fleet(stored)

-----------------------------------------------------------------------------
(* Writing rows and buckets.                                               *)

Insert(r) == BagCardinality(rows) < MaxRows /\ rows' = rows (+) SetToBag({r})

(* upsert_buckets: count + 1, or a new bucket of 1, in the hour of the     *)
(* crossing.                                                               *)
UpsertNow(l, at)  == buckets' = buckets (+) SetToBag({[lane |-> l, hour |-> HourOf(now)]})
Upsert(l, at)     == buckets' = buckets (+) SetToBag({[lane |-> l, hour |-> HourOf(at)]})

Times == {t \in now - MaxLag .. now : t >= 0}

(* A storage worker commits a crossing and its bucket together...          *)
Store(l, at) ==
    /\ at \in Times
    /\ Insert([lane |-> l, at |-> at, demo |-> FALSE, rolled |-> TRUE])
    /\ Upsert(l, at)
    /\ UNCHANGED <<now, request>>

(* ... or the crossing alone, when the upsert has raised.                  *)
StoreStale(l, at) ==
    /\ at \in Times
    /\ Insert([lane |-> l, at |-> at, demo |-> FALSE, rolled |-> FALSE])
    /\ UNCHANGED <<now, buckets, request>>

(* seed_database: rows of the demo job over the last day, no buckets.      *)
Seed(l, at) ==
    /\ at \in Slots /\ now - Day <= at /\ at <= now
    /\ Insert([lane |-> l, at |-> at, demo |-> TRUE, rolled |-> FALSE])
    /\ UNCHANGED <<now, buckets, request>>

Tick ==
    /\ now < LastSlot /\ now' = now + 1
    /\ UNCHANGED <<rows, buckets, request>>

-----------------------------------------------------------------------------
(* The summary and the lane report of a camera: four queries, each a       *)
(* statement of its own, and the workers commit between them.              *)

Ask(cam, since, until) ==
    /\ request = Idle
    /\ request' = [Idle EXCEPT !.at = "lanes", !.camera = cam, !.since = since,
                               !.until = until,
                               !.asked = CountsTotal(cam, since, until)]
    /\ UNCHANGED <<now, rows, buckets>>

Query(here, there, field, answer) ==
    /\ request.at = here
    /\ request' = [request EXCEPT !.at = there, ![field] = answer]
    /\ UNCHANGED <<now, rows, buckets>>

Args(Q(_, _, _)) == Q(request.camera, request.since, request.until)

ReadLanes == Query("lanes", "total", "lanes", Args(CountsSummary))
ReadTotal == Query("total", "ways", "total", Args(CountsTotal))
ReadWays  == Query("ways", "recent", "ways", Args(DirectionSummary))
ReadLast  == Query("recent", "done", "last", RecentEvent(request.camera))

(* The lanes of the summary: a lane none of whose crossings was there for  *)
(* the first query comes in by its directions.                             *)
LanesOut(q) == [l \in DOMAIN q.lanes \cup DOMAIN q.ways |->
                  IF l \in DOMAIN q.lanes THEN q.lanes[l] ELSE q.ways[l]]

Answer ==
    /\ request.at = "done" /\ request' = Idle
    /\ UNCHANGED <<now, rows, buckets>>

(* The windows that are asked for: from a day's beginning, or the day.     *)
Days == {t \in 0 .. now : t % Day = 0}

ReportsNext ==
    \/ \E l \in Lanes, at \in Slots : Store(l, at) \/ StoreStale(l, at) \/ Seed(l, at)
    \/ Tick
    \/ \E cam \in Cameras, d \in Days : Ask(cam, {d}, {}) \/ Ask(cam, {d}, {d + Day - 1})
    \/ ReadLanes \/ ReadTotal \/ ReadWays \/ ReadLast \/ Answer

ReportsSpec == ReportsInit /\ [][ReportsNext]_reportVars

-----------------------------------------------------------------------------
(* The inductive invariants.                                               *)

BucketOf(r) == [lane |-> r.lane, hour |-> HourOf(r.at)]
RowsOf(b)   == {r \in BagToSet(rows) : r.rolled /\ BucketOf(r) = b}

(* A bucket has the number of its rows, a row that has been rolled up has  *)
(* its bucket, and no row is of the future.                                *)
BucketsInv ==
    /\ \A b \in BagToSet(buckets) : buckets[b] = Count(RowsOf(b))
    /\ \A r \in BagToSet(rows) :
          /\ r.at <= now
          /\ r.rolled => ~r.demo /\ BucketOf(r) \in BagToSet(buckets)

(* The window of the request is not cut to the last day.                   *)
WindowHolds == request.until # {} \/ \A s \in request.since : s >= now - Day

NoMoreThan(f, g) == DOMAIN f \subseteq DOMAIN g /\ \A l \in DOMAIN f : f[l] <= g[l]

(* What a request has been told so far, against what is stored now.        *)
RequestInv ==
    request.at # "idle" /\ WindowHolds =>
        LET lanes == SumOver(request.lanes, DOMAIN request.lanes)
        IN  /\ request.at = "lanes" => request.asked <= Args(CountsTotal)
            /\ request.at # "lanes" => /\ request.asked <= lanes
                                       /\ NoMoreThan(request.lanes, Args(CountsSummary))
            /\ request.at \in {"ways", "recent", "done"} =>
                  lanes <= request.total /\ request.total <= Args(CountsTotal)
            /\ request.at \in {"recent", "done"} =>
                  NoMoreThan(request.ways, Args(CountsSummary))
            /\ request.at = "done" /\ request.total > 0 =>
                  \E t \in request.last : \A s \in request.since : t >= s

-----------------------------------------------------------------------------
(* Properties.                                                             *)

Rolled(cams, hour) == {r \in BagToSet(rows) : /\ ~r.demo /\ r.rolled
                                              /\ r.lane.camera \in cams
                                              /\ HourOf(r.at) = hour}
Raw(cams, hour) == {r \in BagToSet(rows) : /\ ~r.demo /\ r.lane.camera \in cams
                                           /\ HourOf(r.at) = hour}

(* The first hour of a day also gets the first hour of the next.           *)
DayCountsRows(cams, d) ==
    \A hourly \in HourlyBuckets(cams, d) : \A h \in Hours :
        LET hour   == d + HourSlots * h
            rolled == Count(Rolled(cams, hour))
                      + (IF h = 0 THEN Count(Rolled(cams, d + Day)) ELSE 0)
            series == BucketsIn(cams, {d}, {d + Day})
        IN  IF series = {} THEN hourly[h] = Count(Raw(cams, hour))
            ELSE /\ hourly[h] <= rolled
                 /\ Cardinality(series) <= RowLimit => hourly[h] = rolled

SeriesCountsRows(cam, since) ==
    \A series \in CountsSeries(cam, {since}, {}) : \A hour \in DOMAIN series :
        LET inBuckets == BucketsIn({cam}, {since}, {})
        IN  IF inBuckets = {}
            THEN series[hour] = Count({r \in Raw({cam}, hour) : r.at < now})
            ELSE Cardinality(inBuckets) <= RowLimit =>
                    series[hour] = Count(Rolled({cam}, hour))

(* Where a summary stands makes no difference to the one-query answers:    *)
(* every state of the tables is reached without one, and checked there.    *)
NoRequest == request = Idle

(* The two breakdowns by hour show the crossings of each hour.  A day of   *)
(* the dashboard (dashboard_hourly), of a camera or of the fleet, has all  *)
(* that have buckets: none twice but at midnight, none in the hour it was  *)
(* merely stored in, none of the seeder's, and short of some only where    *)
(* the row limit cuts the series; a day without any bucket has its rows.   *)
(* The chart of a camera from the present day's beginning                  *)
(* (get_counts_timeseries) agrees with its rows in the same way.           *)
HourlyCountsRows ==
    NoRequest =>
        /\ \A cams \in {{c} : c \in Cameras} \cup {Cameras}, d \in Days : DayCountsRows(cams, d)
        /\ \A cam \in Cameras : SeriesCountsRows(cam, DayOf(now))

(* The dashboard's figures agree (dashboard_summary, dashboard_hourly).    *)
(* When all cameras that have a file show their session, or no camera is   *)
(* live and none without a file runs, the rows add up to the fleet's       *)
(* total.  A total of stored crossings may be below what the hours of the  *)
(* present day add up to, as the hours take in the deleted cameras: by no  *)
(* more than what is stored of those.  Where some cameras are live and     *)
(* others are not, rows and total disagree, as they count different        *)
(* things.                                                                 *)
FleetAddsUp ==
    NoRequest =>
    LET today == {SumOver(hourly, Hours) : hourly \in HourlyBuckets(Cameras, DayOf(now))}
    IN  \A files \in SUBSET Cameras, live \in Snapshots :
            LET stored   == Stored(files)
                total    == DashboardTotal(live, stored)
                Shown(c) == live[c].live /\ live[c].tracks > 0
            IN  /\ \/ files # {} /\ \A c \in files : Shown(c)
                   \/ \A c \in Cameras : live[c].on => c \in files /\ ~live[c].live
                   => total = Fleet(CameraRow(live, stored))
                /\ (\A c \in Cameras : ~live[c].live) =>
                      \A sum \in today : sum <= total + Fleet(Stored(Cameras \ files))

(* A summary or lane report (get_counts_summary, _build_lane_report_rows)  *)
(* is no snapshot, but nothing is lost or made up on the way: what its     *)
(* lanes add up to, as its total, is at least what was stored when it was  *)
(* asked for and at most what is stored now, a lane it lists has no more   *)
(* than is stored of it now, and a total above zero comes with a last      *)
(* crossing in or after the window.  Its lanes add up to more than its     *)
(* total only where a lane first crossed while the report was made has     *)
(* come in by its directions.  That holds of a window with an end, and of  *)
(* one without while it begins within the last day.                        *)
SummaryOnlyGrows ==
    request.at = "done" /\ WindowHolds =>
        LET out    == LanesOut(request)
            stored == Args(CountsSummary)
        IN  /\ \A figure \in {SumOver(out, DOMAIN out), request.total} :
                  request.asked <= figure /\ figure <= Args(CountsTotal)
            /\ \A l \in DOMAIN out : l \in DOMAIN stored /\ out[l] <= stored[l]
            /\ DOMAIN request.ways \subseteq DOMAIN request.lanes =>
                  SumOver(out, DOMAIN out) <= request.total
            /\ request.total > 0 => \E t \in request.last : \A s \in request.since : t >= s
=============================================================================
