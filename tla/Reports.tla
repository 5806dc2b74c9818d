------------------------------ MODULE Reports ------------------------------
(***************************************************************************)
(* The totals behind GET /v1/reports/* (internal/reports) for one value of *)
(* the dimension a report groups by: one category or one app.  The closed  *)
(* days of the requested range come from a continuous aggregate, capped    *)
(* per device; the rest is a raw pass that clips and merges the intervals  *)
(* of each device.  The statements of one report run one after the other,  *)
(* without a transaction, while devices push events and tombstones and the *)
(* aggregate's refresh policy runs.                                        *)
(*                                                                         *)
(* Time is counted in ticks of a fraction of a second, since durations are *)
(* rounded to seconds, in three places and in two ways.                    *)
(***************************************************************************)
EXTENDS SequencesExt

CONSTANTS
    Devices,      \* devices of the account
    Events,       \* activity events of the category or app
    NoDevice,
    Second,       \* ticks per second
    Day,          \* ticks per day
    StartOffset,  \* start_offset of the refresh policy
    EndOffset,    \* end_offset of the refresh policy
    MaxTime       \* bound: ticks

Time == 0..MaxTime

ASSUME TimeAssumption ==
    /\ NoDevice \notin Devices
    /\ Second \in Nat \ {0}
    /\ \E n \in 1..Day : Day = n * Second
    /\ StartOffset \in Nat /\ EndOffset \in Nat /\ MaxTime \in Nat

\* An account's devices and events are rows of a table
ASSUME RowsAssumption == IsFiniteSet(Devices) /\ IsFiniteSet(Events)

VARIABLES
    now,          \* the clock
    event,        \* rows of activity_events
    materialized, \* per day and device: total_s in the materialized aggregate
    watermark,    \* days before it are read from there, later ones live
    report        \* the report being computed

vars == <<now, event, materialized, watermark, report>>

-----------------------------------------------------------------------------
(* window.go                                                               *)

Window == [from : Time, to : Time]
W(a, b) == [from |-> a, to |-> b]

DayStart(t) == t - (t % Day)
Days == {t \in Time : t = DayStart(t)}
Earlier(a, b) == IF a < b THEN a ELSE b

\* Faulty variant: without the check that start is before to
TrailingUnchecked(start, to) == <<W(start, to)>>

Trailing(start, to) == IF start < to THEN <<W(start, to)>> ELSE <<>>

\* splitClosedOpen: at most one window of closed days, and the raw windows
SplitClosedOpen(from, to, t) ==
    LET closedTo == Earlier(to, DayStart(t))
        aligned == from = DayStart(from)
        alignedFrom == IF aligned THEN from ELSE DayStart(from) + Day
        alignedTo == DayStart(closedTo)
        hasClosed == alignedFrom < alignedTo
        start == IF ~hasClosed /\ alignedTo < alignedFrom THEN alignedFrom ELSE alignedTo
    IN  IF closedTo <= from
        THEN [closed |-> <<>>, raw |-> <<W(from, to)>>]
        ELSE [closed |-> IF hasClosed THEN <<W(alignedFrom, alignedTo)>> ELSE <<>>,
              raw |-> (IF aligned THEN <<>> ELSE <<W(from, Earlier(to, alignedFrom))>>)
                      \o (IF alignedTo < to THEN Trailing(start, to) ELSE <<>>)]

-----------------------------------------------------------------------------
(* trim.go                                                                 *)

Stored == {e \in Events : event[e].device # NoDevice}

\* clipToWindow
Clip(w, S) ==
    LET clip(i) == [start |-> IF i.start < w.from THEN w.from ELSE i.start,
                    end |-> Earlier(i.end, w.to)]
    IN  {i \in {clip(j) : j \in S} : i.start < i.end}

\* int64(Duration.Seconds())
WholeSeconds(n) == n \div Second

\* Faulty variant: the end of the last interval read, not the largest one
LastEnd(end, i) == i.end

FurthestEnd(end, i) == IF i.end > end THEN i.end ELSE end

\* One turn of mergeAndSum's loop: i starts a new run or extends this one
MergeNext(run, i) ==
    IF i.start > run.end
    THEN [total |-> run.total + WholeSeconds(run.end - run.start),
          start |-> i.start, end |-> i.end]
    ELSE [run EXCEPT !.end = FurthestEnd(@, i)]

\* sort.Slice is not stable: intervals that start together come in any order
SortedByStart(S) ==
    {q \in SetToSeqs(S) : \A i, j \in 1..Len(q) : i < j => q[i].start <= q[j].start}

\* The loop's variables after each interval of a sorted slice
Runs(q) ==
    LET run[k \in 1..Len(q)] ==
            IF k = 1 THEN [total |-> 0, start |-> q[1].start, end |-> q[1].end]
            ELSE MergeNext(run[k - 1], q[k])
    IN  run

MergeAndSum(S) ==
    IF S = {} THEN 0
    ELSE LET sorted == CHOOSE q \in SortedByStart(S) : TRUE
             last == Runs(sorted)[Len(sorted)]
         IN  last.total + WholeSeconds(last.end - last.start)

\* RawActivityEventsForReport: events of a device that overlap the window
Overlapping(d, w) ==
    {[start |-> event[e].start, end |-> event[e].end] :
        e \in {f \in Stored : /\ event[f].device = d /\ ~event[f].deleted
                              /\ event[f].start < w.to /\ event[f].end > w.from}}

\* perDeviceSeconds
RawTotal(w) == SumFunction([d \in Devices |-> MergeAndSum(Clip(w, Overlapping(d, w)))])

-----------------------------------------------------------------------------
(* The continuous aggregate daily_app_totals or daily_category_totals.     *)

\* duration_s: the numeric is rounded to the nearest integer
DurationS(e) == (2 * (event[e].end - event[e].start) + Second) \div (2 * Second)

\* GROUP BY time_bucket('1 day', started_at), device_id; no WHERE
LiveTotal(day, d) ==
    LET rows == {e \in Stored : event[e].device = d /\ DayStart(event[e].start) = day}
    IN  SumFunction([e \in rows |-> DurationS(e)])

\* materialized_only = false
DailyTotal(day, d) == IF day < watermark THEN materialized[day][d] ELSE LiveTotal(day, d)

\* windowSeconds
WindowSeconds(w) == IF w.to - w.from < Second THEN 1 ELSE WholeSeconds(w.to - w.from)

\* Faulty variant: the device's sum as it is, as doc.go describes it
Uncapped(total, w) == total

\* LEAST(device_total_s, window_seconds)
Capped(total, w) == Earlier(total, WindowSeconds(w))

\* CategoryTotalsForRange, AppTotalsForRange
ClosedTotal(w) ==
    LET days == {day \in Days : w.from <= day /\ day < w.to}
        total(d) == SumFunction([day \in days |-> DailyTotal(day, d)])
    IN  SumFunction([d \in Devices |-> Capped(total(d), w)])

-----------------------------------------------------------------------------
NoEvent == [device |-> NoDevice, start |-> 0, end |-> 0, deleted |-> FALSE]
NoReport == [pc |-> "idle", from |-> 0, to |-> 0, closed |-> <<>>, raw |-> <<>>,
             total |-> 0]

Init ==
    /\ now = 0
    /\ event = [e \in Events |-> NoEvent]
    /\ materialized = [day \in Days |-> [d \in Devices |-> 0]]
    /\ watermark = 0
    /\ report = NoReport

Tick ==
    /\ now < MaxTime
    /\ now' = now + 1
    /\ UNCHANGED <<event, materialized, watermark, report>>

\* InsertActivityEvent of a push, however late; ended_at is not before
\* started_at, and a tombstone that comes first is stored as one.  The
\* devices' clocks are taken as right: no event ends in the future
Ingest(e, d, s, t, del) ==
    /\ e \notin Stored
    /\ s <= t /\ t <= now
    /\ event' = [event EXCEPT ![e] = [device |-> d, start |-> s, end |-> t,
                                      deleted |-> del]]
    /\ UNCHANGED <<now, materialized, watermark, report>>

\* TombstoneActivityEvent
Tombstone(e) ==
    /\ e \in Stored /\ ~event[e].deleted
    /\ event' = [event EXCEPT ![e].deleted = TRUE]
    /\ UNCHANGED <<now, materialized, watermark, report>>

\* The policy rewrites the days that lie in [now - start, now - end) whole.
\* The watermark follows, since other accounts have events on every day
Refresh ==
    LET end == DayStart(now - Earlier(now, EndOffset))
    IN  /\ materialized' =
              [day \in Days |->
                  IF now <= day + StartOffset /\ day + Day <= end
                  THEN [d \in Devices |-> LiveTotal(day, d)]
                  ELSE materialized[day]]
        /\ watermark' = IF watermark < end THEN end ELSE watermark
        /\ UNCHANGED <<now, event, report>>

-----------------------------------------------------------------------------
(* categoryTotals, appTotals, projectTotals                                *)

\* Without a filter the aggregate cannot serve, the range is split
StartSplit(from, to) ==
    /\ report.pc = "idle"
    /\ from <= to
    /\ LET split == SplitClosedOpen(from, to, now)
       IN  report' = [NoReport EXCEPT !.pc = "closed", !.from = from, !.to = to,
                                      !.closed = split.closed, !.raw = split.raw]
    /\ UNCHANGED <<now, event, materialized, watermark>>

\* By project, or filtered by device, precision or another dimension
StartRaw(from, to) ==
    /\ report.pc = "idle"
    /\ from <= to
    /\ report' = [NoReport EXCEPT !.pc = "raw", !.from = from, !.to = to,
                                  !.raw = <<W(from, to)>>]
    /\ UNCHANGED <<now, event, materialized, watermark>>

ReadClosed ==
    /\ report.pc = "closed"
    /\ report' = [report EXCEPT !.pc = "raw", !.closed = <<>>,
                                !.total = IF report.closed = <<>> THEN 0
                                          ELSE ClosedTotal(Head(report.closed))]
    /\ UNCHANGED <<now, event, materialized, watermark>>

\* mergeBucket
ReadRaw ==
    /\ report.pc = "raw" /\ report.raw # <<>>
    /\ report' = [report EXCEPT !.raw = Tail(@),
                                !.total = @ + RawTotal(Head(report.raw))]
    /\ UNCHANGED <<now, event, materialized, watermark>>

Done == report.pc = "raw" /\ report.raw = <<>>

Answer ==
    /\ Done
    /\ report' = NoReport
    /\ UNCHANGED <<now, event, materialized, watermark>>

Next ==
    \/ Tick \/ Refresh
    \/ \E e \in Events :
          \/ \E d \in Devices, s, t \in Time, del \in BOOLEAN : Ingest(e, d, s, t, del)
          \/ Tombstone(e)
    \/ \E from, to \in Time : StartSplit(from, to) \/ StartRaw(from, to)
    \/ ReadClosed \/ ReadRaw \/ Answer

Spec == Init /\ [][Next]_vars

-----------------------------------------------------------------------------
(* Properties.                                                             *)

\* splitClosedOpen: its pieces are "always disjoint and always cover [from,
\* to) exactly", none is inverted, and the closed one consists of whole days
\* before today.
SplitExact ==
    report.pc = "closed" =>
        LET all == report.closed \o report.raw
        IN  /\ \A i \in 1..Len(all) : all[i].from <= all[i].to
            /\ \A t \in Time :
                  Cardinality({i \in 1..Len(all) : all[i].from <= t /\ t < all[i].to})
                      = (IF report.from <= t /\ t < report.to THEN 1 ELSE 0)
            /\ \A i \in 1..Len(report.closed) :
                  /\ {all[i].from, all[i].to} \subseteq Days
                  /\ all[i].to <= DayStart(now)

\* The instants of a window that some interval of a device covers, and the
\* first instant of each unbroken stretch of them
Covered(d, w) == {t \in w.from..(w.to - 1) :
                     \E i \in Overlapping(d, w) : i.start <= t /\ t < i.end}
Starts(C) == {t \in C : t - 1 \notin C}
Stretch(C, s) == {t \in C : s <= t /\ s..t \subseteq C}

\* The raw pass: whatever overlaps, nests or touches, each instant of a
\* device counts once, in whole seconds per unbroken stretch.
TrimExact ==
    report.pc = "raw" /\ report.raw # <<>> =>
        \A d \in Devices :
            LET w == Head(report.raw)
                C == Covered(d, w)
            IN  MergeAndSum(Clip(w, Overlapping(d, w)))
                    = SumFunction([s \in Starts(C) |-> WholeSeconds(Cardinality(Stretch(C, s)))])

\* perDeviceSeconds and CategoryTotalsForRange's LEAST together, for one bucket as
\* trim.go states it: "a single device never contributes more active time to the
\* window than the window itself contains", though closed days and raw windows
\* are read at different times and from differently aged data, and overlapping
\* events of a device add up in the aggregate.  The package comment in doc.go
\* still calls the closed days "plain untrimmed sums, not device-capped": that
\* is the faulty variant Uncapped, under which this fails.
WithinWindow ==
    Done => report.total * Second <= Cardinality(Devices) * (report.to - report.from)

\* splitClosedOpen's conclusion, "summing their totals never double-counts":
\* a report never has more seconds than the events have together.
NeverDoubleCounts ==
    Done => report.total <= SumFunction([e \in Stored |-> DurationS(e)])

-----------------------------------------------------------------------------
(* The inductive invariant.  SplitExact holds since the clock only         *)
(* advances.  WithinWindow needs the types of what is summed, and what a   *)
(* report has when some of its windows are still to be read: no more than  *)
(* the windows already read contain.                                       *)

EventType == [device : Devices \cup {NoDevice}, start : Time, end : Time, deleted : BOOLEAN]

TypeOK ==
    /\ now \in Time
    /\ event \in [Events -> EventType] /\ \A e \in Events : event[e].start <= event[e].end
    /\ materialized \in [Days -> [Devices -> Nat]]
    /\ DOMAIN report = DOMAIN NoReport
    /\ {report.from, report.to} \subseteq Time
    /\ report.total \in Nat

\* At most one closed window, of at least a day, and at most two raw ones
WindowsOK ==
    /\ report.closed # <<>> => \E m, k \in Time : m + Day <= k /\ report.closed = <<W(m, k)>>
    /\ \/ report.raw = <<>>
       \/ \E m, k \in Time : m <= k /\ report.raw = <<W(m, k)>>
       \/ \E m, k, m2, k2 \in Time :
             m <= k /\ m2 <= k2 /\ report.raw = <<W(m, k), W(m2, k2)>>

Size(q, i) == IF i \in 1..Len(q) THEN q[i].to - q[i].from ELSE 0
Unread == Size(report.closed, 1) + Size(report.raw, 1) + Size(report.raw, 2)

ReadSoFar ==
    report.total * Second <= Cardinality(Devices) * (report.to - report.from - Unread)

IInv == TypeOK /\ WindowsOK /\ ReadSoFar /\ SplitExact
=============================================================================
