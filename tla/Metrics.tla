------------------------------- MODULE Metrics -------------------------------
(***************************************************************************)
(* How extract.py measures time: the active spans of one session           *)
(* (metrics_from_records), the union over concurrent sessions (combine,    *)
(* union_active) and the streak of active days; each beside the definition *)
(* it has to agree with.  Times are whole minutes; a row of the ledger is  *)
(* the set of its session's event times.  Days have one length: summer     *)
(* time is left out.                                                       *)
(***************************************************************************)
EXTENDS Ticks

CONSTANTS
  WorkSessionGap,  \* WORK_SESSION_GAP
  ActiveGapCap,    \* ACTIVE_GAP_CAP
  DayMinutes,      \* the length of a day
  NightMinutes     \* the night owl's part of it: midnight to 06:00

ASSUME MetricsAssumption ==
  /\ ActiveGapCap \in Nat \ {0} /\ WorkSessionGap \in Nat /\ ActiveGapCap <= WorkSessionGap
  /\ DayMinutes \in Nat /\ NightMinutes \in 1 .. DayMinutes

Sorted(S, before(_, _)) ==
  [i \in 1 .. Cardinality(S) |->
     CHOOSE x \in S : Cardinality({y \in S : before(y, x)}) = i - 1]
DayOf(t) == t \div DayMinutes

-----------------------------------------------------------------------------
\* One session: its timeline as [spans, start, prev, minutes, total, longest].

Opened(t, acc) == [acc EXCEPT !.start = t, !.prev = t]

Banked(acc) ==
  [acc EXCEPT !.total = @ + acc.minutes, !.minutes = 0,
              !.longest = IF acc.minutes > @ THEN acc.minutes ELSE @]

Closed(acc, end) ==
  IF end > acc.start THEN [acc EXCEPT !.spans = @ \cup {<<acc.start, end>>}] ELSE acc

\* Mutant: a break counts in full as long as it does not end the session.
FullBreak(acc, t) ==
  LET gap == t - acc.prev
  IN IF gap > WorkSessionGap THEN Opened(t, Banked(Closed(acc, acc.prev)))
     ELSE [acc EXCEPT !.minutes = @ + gap, !.prev = t]

NextEvent(acc, t) ==
  LET gap == t - acc.prev
  IN CASE gap > WorkSessionGap -> Opened(t, Banked(Closed(acc, acc.prev)))
       [] gap > ActiveGapCap /\ gap <= WorkSessionGap ->
            Opened(t, [Closed(acc, acc.prev + ActiveGapCap) EXCEPT !.minutes = @ + ActiveGapCap])
       [] OTHER -> [acc EXCEPT !.minutes = @ + gap, !.prev = t]

Timeline(events) ==
  LET order == Sorted(events, <)
      first == [spans |-> {}, start |-> order[1], prev |-> order[1],
                minutes |-> 0, total |-> 0, longest |-> 0]
      acc == FoldLeft(NextEvent, first, Tail(order))
  IN Banked(Closed(acc, acc.prev))

-----------------------------------------------------------------------------
\* All sessions.

\* _merge_intervals: overlapping and touching intervals become one.
MergeIntervals(spans) ==
  LET order == Sorted({s \in spans : s[2] > s[1]},
                      LAMBDA r, s : r[1] < s[1] \/ (r[1] = s[1] /\ r[2] < s[2]))
      add(merged, s) ==
        IF merged # <<>> /\ s[1] <= Last(merged)[2]
        THEN Front(merged) \o <<<<Last(merged)[1], SetMax({Last(merged)[2], s[2]})>>>>
        ELSE Append(merged, s)
  IN FoldLeft(add, <<>>, order)

Overlap(s, from, to) == SetMax({0, SetMin({s[2], to}) - SetMax({s[1], from})})

SumOver(merged, minutes(_)) == FoldLeft(LAMBDA n, s : n + minutes(s), 0, merged)

\* union_active: cut at midnight, and at the end of the night.
UnionActive(spans) ==
  LET merged == MergeIntervals(spans)
      days == UNION {DayOf(merged[i][1]) .. DayOf(merged[i][2] - 1) : i \in 1 .. Len(merged)}
      within(s, d, length) == Overlap(s, d * DayMinutes, d * DayMinutes + length)
      perDay == [d \in days |-> SumOver(merged, LAMBDA s : within(s, d, DayMinutes))]
      nights == [d \in days |-> SumOver(merged, LAMBDA s : within(s, d, NightMinutes))]
  IN [total |-> SumOver(merged, LAMBDA s : s[2] - s[1]),
      daily |-> perDay,
      night |-> FoldFunction(LAMBDA x, y : x + y, 0, nights)]

\* What combine makes of the rows' spans.
Combined(rows) == UnionActive(UNION {Timeline(r).spans : r \in rows})

ActiveDays(rows) == {DayOf(t) : t \in UNION rows}

\* longest_and_current_streak: the longest run of consecutive days.
LongestStreak(days) ==
  LET order == Sorted(days, <)
      step(acc, d) ==
        LET run == IF d = acc.day + 1 THEN acc.run + 1 ELSE 1
        IN [day |-> d, run |-> run, longest |-> SetMax({acc.longest, run})]
  IN IF days = {} THEN 0
     ELSE FoldLeft(step, [day |-> order[1], run |-> 1, longest |-> 1], Tail(order)).longest

-----------------------------------------------------------------------------
\* The definitions they have to agree with: sets of minutes and of days.

\* A minute of a session counts when the event before it is less than the cap
\* away and the next one no further than the work-session gap.
ActiveMinutes(events) ==
  UNION {LET later == {u \in events : u > t}
         IN IF later = {} \/ (later # {} /\ SetMin(later) - t > WorkSessionGap) THEN {}
            ELSE t .. SetMin({SetMin(later), t + ActiveGapCap}) - 1 : t \in events}

AllMinutes(rows) == UNION {ActiveMinutes(r) : r \in rows}

\* The active minutes of the longest stretch without a gap that ends it.
EnduranceOf(events) ==
  LET stretch(a, b) == {t \in events : a <= t /\ t <= b}
      unbroken(E) == \A t \in E : (\E u \in E : u > t) => \E u \in E : u > t /\ u - t <= WorkSessionGap
      stretches == {E \in {stretch(a, b) : a, b \in events} : unbroken(E)}
  IN SetMax({Cardinality(ActiveMinutes(E)) : E \in stretches})

StreakOf(days) ==
  IF days = {} THEN 0
  ELSE SetMax({n \in 1 .. Cardinality(days) : \E d \in days : d .. d + n - 1 \subseteq days})
=============================================================================
