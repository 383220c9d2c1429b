--------------------------------- MODULE Hdr ---------------------------------
(***************************************************************************)
(* The latency histogram of the benchmark                                  *)
(* (HdrHistogram_c/src/hdr_histogram.c, used by HdrHistogramMeasurements): *)
(* the arithmetic from values to buckets and back, threads that record     *)
(* values with atomic operations, and the queries and iterators that the   *)
(* status thread runs meanwhile.                                           *)
(***************************************************************************)
EXTENDS Integers, Sequences, FiniteSets, SequencesExt, FiniteSetsExt

CONSTANTS
  lowest_discernible_value, highest_trackable_value, significant_figures,
  INT64_MAX,
  RecordingThreads,
  Values,      \* the values that are recorded
  Intervals,   \* the expected intervals of corrected recording
  MaxRecords   \* bound on the number of calls
-----------------------------------------------------------------------------
(* hdr_calculate_bucket_config.                                            *)

Log2Ceiling(n) == CHOOSE m \in 0 .. 62 : 2 ^ m >= n /\ \A k \in 0 .. m - 1 : 2 ^ k < n
Log2Floor(n) == CHOOSE m \in 0 .. 62 : 2 ^ m <= n /\ n < 2 ^ (m + 1)

sub_bucket_count_magnitude == Log2Ceiling(2 * 10 ^ significant_figures)
sub_bucket_half_count_magnitude == Max({sub_bucket_count_magnitude, 1}) - 1
unit_magnitude == Log2Floor(lowest_discernible_value)
sub_bucket_count == 2 ^ (sub_bucket_half_count_magnitude + 1)
sub_bucket_half_count == sub_bucket_count \div 2
sub_bucket_mask == (sub_bucket_count - 1) * 2 ^ unit_magnitude

buckets_needed_to_cover_value ==
  CHOOSE n \in 1 .. 62 :
    /\ sub_bucket_count * 2 ^ (unit_magnitude + n - 1) > highest_trackable_value
    /\ \A k \in 1 .. n - 1 : sub_bucket_count * 2 ^ (unit_magnitude + k - 1) <= highest_trackable_value

counts_len == (buckets_needed_to_cover_value + 1) * (sub_bucket_count \div 2)
Indexes == 0 .. counts_len - 1
-----------------------------------------------------------------------------
(* From a value to its place and back.                                     *)

\* The mask keeps small values in the first bucket.
get_bucket_index(value) ==
  LET pow2ceiling == Max({Log2Floor(IF value = 0 THEN 1 ELSE value) + 1,
                          Log2Floor(sub_bucket_mask) + 1})
  IN  pow2ceiling - unit_magnitude - (sub_bucket_half_count_magnitude + 1)

get_sub_bucket_index(value, bucket_index) == value \div 2 ^ (bucket_index + unit_magnitude)

counts_index_late(bucket_index, sub_bucket_index) ==
  (bucket_index + 1) * sub_bucket_half_count + sub_bucket_index - sub_bucket_half_count + 1

counts_index(bucket_index, sub_bucket_index) ==
  LET bucket_base_index == (bucket_index + 1) * 2 ^ sub_bucket_half_count_magnitude
      offset_in_bucket == sub_bucket_index - sub_bucket_half_count
  IN  bucket_base_index + offset_in_bucket

counts_index_for(value) ==
  LET b == get_bucket_index(value) IN counts_index(b, get_sub_bucket_index(value, b))

value_from_index(bucket_index, sub_bucket_index) ==
  sub_bucket_index * 2 ^ (bucket_index + unit_magnitude)

hdr_value_at_index(index) ==
  LET bucket == (index \div 2 ^ sub_bucket_half_count_magnitude) - 1
      sub == (index % sub_bucket_half_count) + sub_bucket_half_count
  IN  IF bucket < 0 THEN value_from_index(0, sub - sub_bucket_half_count)
                    ELSE value_from_index(bucket, sub)

lowest_equivalent_value(value) ==
  LET b == get_bucket_index(value) IN value_from_index(b, get_sub_bucket_index(value, b))

hdr_size_of_equivalent_value_range(value) ==
  LET b == get_bucket_index(value)
      adjusted == IF get_sub_bucket_index(value, b) >= sub_bucket_count THEN b + 1 ELSE b
  IN  2 ^ (unit_magnitude + adjusted)

hdr_next_non_equivalent_value(value) ==
  lowest_equivalent_value(value) + hdr_size_of_equivalent_value_range(value)
highest_equivalent_value(value) == hdr_next_non_equivalent_value(value) - 1
hdr_median_equivalent_value(value) ==
  lowest_equivalent_value(value) + (hdr_size_of_equivalent_value_range(value) \div 2)
-----------------------------------------------------------------------------
(* A histogram and its queries.                                            *)

VARIABLES
  h,        \* [counts, total, min, max]
  th,       \* [pc, todo: values still to record, seen: what a CAS expects]
  calls,
  counted   \* history: the values whose count was increased, in any order

vars == <<h, th, calls, counted>>

Empty == [counts |-> [i \in Indexes |-> 0], total |-> 0, min |-> INT64_MAX, max |-> 0]

hdr_max(x) == IF x.max = 0 THEN 0 ELSE highest_equivalent_value(x.max)

hdr_min(x) ==
  IF x.counts[0] > 0 THEN 0
  ELSE IF x.min = INT64_MAX THEN INT64_MAX ELSE lowest_equivalent_value(x.min)

RECURSIVE ValueAtCount(_, _, _)
ValueAtCount(x, i, count) ==
  IF i >= counts_len THEN 0
  ELSE IF x.counts[i] >= count THEN hdr_value_at_index(i)
  ELSE ValueAtCount(x, i + 1, count - x.counts[i])

get_value_from_idx_up_to_count(x, count) == ValueAtCount(x, 0, IF count > 0 THEN count ELSE 1)

\* (int64_t) (percentile / 100 * total_count + 0.5)
count_at_percentile(x, percentile) ==
  (2 * (IF percentile < 100 THEN percentile ELSE 100) * x.total + 100) \div 200

hdr_value_at_percentile(x, percentile) ==
  LET value == get_value_from_idx_up_to_count(x, count_at_percentile(x, percentile))
  IN  IF percentile = 0 THEN lowest_equivalent_value(value) ELSE highest_equivalent_value(value)

\* hdr_record_values on a histogram that nobody else uses.
Recorded(x, value, count) ==
  [counts |-> [x.counts EXCEPT ![counts_index_for(value)] = @ + count],
   total |-> x.total + count,
   min |-> IF value < x.min /\ value # 0 THEN value ELSE x.min,
   max |-> IF value > x.max THEN value ELSE x.max]

hdr_reset_internal_counters(x) ==
  LET used == {i \in Indexes : x.counts[i] > 0}
      nonzero == used \ {0}
  IN  [x EXCEPT !.total = MapThenSumSet(LAMBDA i : x.counts[i], used),
                !.max = IF used = {} THEN 0
                        ELSE highest_equivalent_value(hdr_value_at_index(Max(used))),
                !.min = IF nonzero = {} THEN INT64_MAX ELSE hdr_value_at_index(Min(nonzero))]
-----------------------------------------------------------------------------
(* The iterators.  Each yields the sequence of what it reports.            *)

IterInit == [index |-> -1, count |-> 0, cumulative |-> 0, value |-> 0]

has_next(x, it) == it.cumulative < x.total

move_next(x, it) ==
  LET i == it.index + 1
  IN  IF i >= counts_len THEN [it EXCEPT !.index = i]
      ELSE [index |-> i, count |-> x.counts[i], cumulative |-> it.cumulative + x.counts[i],
            value |-> hdr_value_at_index(i)]

RECURSIVE recorded_iter(_, _)
recorded_iter(x, it) ==
  IF ~has_next(x, it) \/ it.index >= counts_len THEN <<>>
  ELSE LET n == move_next(x, it)
       IN  (IF n.count # 0 THEN <<[value |-> n.value, count |-> n.count]>> ELSE <<>>)
             \o recorded_iter(x, n)

hdr_add(x, from) ==
  FoldLeft(LAMBDA y, step : Recorded(y, step.value, step.count), x, recorded_iter(from, IterInit))

\* hdr_mean, times total_count.
hdr_total(x) == FoldLeft(LAMBDA sum, step : sum + step.count * hdr_median_equivalent_value(step.value),
                         0, recorded_iter(x, IterInit))

next_value_greater_than_reporting_level_upper_bound(it, low) ==
  it.index < counts_len /\ hdr_value_at_index(it.index + 1) > low

NextLevel(kind, level, step) == IF kind = "linear" THEN level + step ELSE level * step

\* The do-while of iter_linear_next and log_iter_next: until the level is reached.
RECURSIVE ReachLevel(_, _, _, _)
ReachLevel(x, it, low, added) ==
  IF it.value >= low THEN [it |-> it, added |-> added, reached |-> TRUE]
  ELSE LET n == move_next(x, it)
       IN  IF n.index >= counts_len THEN [it |-> n, added |-> added, reached |-> FALSE]
           ELSE ReachLevel(x, n, low, added + n.count)

RECURSIVE LevelSteps(_, _, _, _, _)
LevelSteps(x, it, kind, level, step) ==
  LET low == lowest_equivalent_value(level) IN
  IF ~has_next(x, it) /\ ~next_value_greater_than_reporting_level_upper_bound(it, low) THEN <<>>
  ELSE LET r == ReachLevel(x, it, low, 0)
       IN  <<[level |-> level, added |-> r.added]>>
             \o LevelSteps(x, r.it, kind, IF r.reached THEN NextLevel(kind, level, step) ELSE level, step)

linear_iter(x, units) == LevelSteps(x, IterInit, "linear", units, units)
log_iter(x, first, base) == LevelSteps(x, IterInit, "log", first, base)

\* hdr_value_at_percentiles: one pass for a sorted list of percentiles.
RECURSIVE PercentilePass(_, _, _, _)
PercentilePass(x, wanted, i, total) ==
  IF wanted = <<>> \/ i >= counts_len THEN <<>>
  ELSE LET sum == total + x.counts[i]
           n == Cardinality({k \in DOMAIN wanted : \A j \in 1 .. k : sum >= wanted[j]})
           value == highest_equivalent_value(hdr_value_at_index(i))
       IN  [k \in 1 .. n |-> value] \o PercentilePass(x, SubSeq(wanted, n + 1, Len(wanted)), i + 1, sum)

hdr_value_at_percentiles(x, percentiles) ==
  PercentilePass(x, [k \in DOMAIN percentiles |-> Max({1, count_at_percentile(x, percentiles[k])})], 0, 0)
-----------------------------------------------------------------------------
(* Recording by several threads, with the atomic operations one by one.    *)

Init ==
  /\ h = Empty
  /\ th = [t \in RecordingThreads |-> [pc |-> "idle", todo |-> <<>>, seen |-> 0]]
  /\ calls = 0
  /\ counted = <<>>

\* hdr_record_corrected_values: the value, then those that the stall hid.
RECURSIVE Missing(_, _)
Missing(value, interval) ==
  IF value < interval THEN <<>> ELSE <<value>> \o Missing(value - interval, interval)

Corrected(value, interval) ==
  <<value>> \o (IF interval <= 0 \/ value <= interval THEN <<>> ELSE Missing(value - interval, interval))

Trackable(value) == value >= 0 /\ counts_index_for(value) \in Indexes

Record(t, value, interval) ==
  /\ th[t].pc = "idle" /\ calls < MaxRecords
  /\ calls' = calls + 1
  /\ IF Trackable(value)
     THEN th' = [th EXCEPT ![t] = [pc |-> "count", todo |-> Corrected(value, interval), seen |-> 0]]
     ELSE UNCHANGED th
  /\ UNCHANGED <<h, counted>>

Now(t) == Head(th[t].todo)
Goto(t, pc, seen) == th' = [th EXCEPT ![t].pc = pc, ![t].seen = seen]

counts_inc_total_first(x, step, value) ==
  IF step = "total" THEN [x EXCEPT !.counts[counts_index_for(value)] = @ + 1]
                    ELSE [x EXCEPT !.total = @ + 1]

\* The two additions of counts_inc_normalised_atomic.
counts_inc_normalised_atomic(x, step, value) ==
  IF step = "count" THEN [x EXCEPT !.counts[counts_index_for(value)] = @ + 1]
                    ELSE [x EXCEPT !.total = @ + 1]

IncrementCount(t) ==
  /\ th[t].pc = "count"
  /\ h' = counts_inc_normalised_atomic(h, "count", Now(t))
  /\ Goto(t, "total", 0)
  /\ counted' = Append(counted, Now(t))
  /\ UNCHANGED calls

IncrementTotal(t) ==
  /\ th[t].pc = "total"
  /\ h' = counts_inc_normalised_atomic(h, "total", Now(t))
  /\ Goto(t, "min", 0)
  /\ UNCHANGED <<calls, counted>>

\* update_min_max_atomic: load, compare, exchange if nobody else did.
LoadMin(t) ==
  /\ th[t].pc = "min"
  /\ IF Now(t) = 0 \/ h.min <= Now(t) THEN Goto(t, "max", 0) ELSE Goto(t, "casmin", h.min)
  /\ UNCHANGED <<h, calls, counted>>

CasMin(t) ==
  /\ th[t].pc = "casmin"
  /\ IF h.min = th[t].seen THEN h' = [h EXCEPT !.min = Now(t)] /\ Goto(t, "max", 0)
                           ELSE UNCHANGED h /\ Goto(t, "min", 0)
  /\ UNCHANGED <<calls, counted>>

Done(t) ==
  th' = [th EXCEPT ![t].todo = Tail(@), ![t].pc = IF Len(th[t].todo) = 1 THEN "idle" ELSE "count"]

LoadMax(t) ==
  /\ th[t].pc = "max"
  /\ IF Now(t) <= h.max THEN Done(t) ELSE Goto(t, "casmax", h.max)
  /\ UNCHANGED <<h, calls, counted>>

CasMaxBlind(t) ==
  /\ th[t].pc = "casmax"
  /\ h' = [h EXCEPT !.max = Now(t)]
  /\ Done(t)
  /\ UNCHANGED <<calls, counted>>

CasMax(t) ==
  /\ th[t].pc = "casmax"
  /\ IF h.max = th[t].seen THEN h' = [h EXCEPT !.max = Now(t)] /\ Done(t)
                           ELSE UNCHANGED h /\ Goto(t, "max", 0)
  /\ UNCHANGED <<calls, counted>>

Quiet == \A t \in RecordingThreads : th[t].pc = "idle"

\* HdrHistogramMeasurements::Reset, between the phases of the benchmark.
Reset ==
  /\ Quiet /\ h.total > 0
  /\ h' = Empty
  /\ counted' = <<>>
  /\ UNCHANGED <<th, calls>>

Next ==
  \/ \E t \in RecordingThreads :
       \/ \E value \in Values, interval \in Intervals : Record(t, value, interval)
       \/ IncrementCount(t) \/ IncrementTotal(t)
       \/ LoadMin(t) \/ CasMin(t) \/ LoadMax(t) \/ CasMax(t)
  \/ Reset

Spec == Init /\ [][Next]_vars
-----------------------------------------------------------------------------
Sorted == SortSeq(counted, <)
Nearest(percentile) == Sorted[Max({1, count_at_percentile(h, percentile)})]
Percentiles == <<1, 50, 90, 100>>

(***************************************************************************)
(* A status report in the middle of recording finds what it looks for: the *)
(* counts never fall behind total_count, so the search for a percentile    *)
(* does not run off the end and report 0, and the answer is a value that   *)
(* was recorded, rounded up within its bucket.                             *)
(***************************************************************************)
ReportsFindTheirValue ==
  h.total > 0 =>
    \A k \in DOMAIN Percentiles :
      \E i \in DOMAIN counted :
        hdr_value_at_percentile(h, Percentiles[k]) = highest_equivalent_value(counted[i])

(***************************************************************************)
(* When no call is in progress the histogram is the sequential one:        *)
(* percentiles are those of the sorted values up to the bucket's           *)
(* precision, both percentile functions agree, min and max survived the    *)
(* races between compare-and-exchange loops, and the total, the mean, the  *)
(* linear and the logarithmic iterator, hdr_add and                        *)
(* hdr_reset_internal_counters account for every value once.  (The last    *)
(* changes the maximum of a histogram that holds only zeros, from 0 to the *)
(* top of the first bucket.)                                               *)
(***************************************************************************)
QuietHistogramIsExact ==
  Quiet /\ counted # <<>> =>
    /\ h.total = Len(counted)
    /\ \A k \in DOMAIN Percentiles :
         hdr_value_at_percentile(h, Percentiles[k]) = highest_equivalent_value(Nearest(Percentiles[k]))
    /\ hdr_value_at_percentiles(h, Percentiles)
         = [k \in DOMAIN Percentiles |-> hdr_value_at_percentile(h, Percentiles[k])]
    /\ hdr_max(h) = (IF Last(Sorted) = 0 THEN 0 ELSE highest_equivalent_value(Last(Sorted)))
    /\ hdr_min(h) = lowest_equivalent_value(Sorted[1])
    /\ hdr_total(h) = FoldLeft(LAMBDA s, v : s + hdr_median_equivalent_value(v), 0, counted)
    /\ \A steps \in {linear_iter(h, 7), log_iter(h, 2, 3)} :
         FoldLeft(LAMBDA s, step : s + step.added, 0, steps) = h.total
    /\ hdr_add(Empty, h).counts = h.counts
    /\ hdr_reset_internal_counters(h).total = h.total
    /\ Last(Sorted) # 0 => hdr_max(hdr_reset_internal_counters(h)) = hdr_max(h)

(***************************************************************************)
(* Every trackable value falls into one bucket that contains it, no wider  *)
(* than the unit or the promised number of significant figures allows, and *)
(* the index of a bucket leads back to its lowest value.                   *)
(***************************************************************************)
BucketsPartitionValues ==
  calls = 0 =>
  /\ \A v \in 0 .. highest_trackable_value :
       /\ counts_index_for(v) \in Indexes
       /\ lowest_equivalent_value(v) <= v /\ v <= highest_equivalent_value(v)
       /\ hdr_value_at_index(counts_index_for(v)) = lowest_equivalent_value(v)
       /\ \/ hdr_size_of_equivalent_value_range(v) <= lowest_discernible_value
          \/ hdr_size_of_equivalent_value_range(v) * 10 ^ significant_figures <= v
  /\ \A i \in Indexes : counts_index_for(hdr_value_at_index(i)) = i
=============================================================================
