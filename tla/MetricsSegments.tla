-------------------------- MODULE MetricsSegments --------------------------
(***************************************************************************)
(* Segmented.Add (metrics.go): two series of statistics over time are added  *)
(* up.  A series is a record: segment k covers the time from                *)
(* first + (k - 1) * step to first + k * step.  The statistics of a segment *)
(* are represented by one number; 0 is the zero value.                      *)
(***************************************************************************)
EXTENDS Naturals, Sequences

\* "FirstTime must be aligned to a start time that it a multiple of Interval"
\* (metrics.go:1789).
Series ==
  {s \in [step : Nat, first : Nat, segs : Seq(Nat)] : s.step > 0 => s.first % s.step = 0}
Empty == [step |-> 0, first |-> 0, segs |-> <<>>]

EndOf(s) == s.first + Len(s.segs) * s.step

Earlier(t, u) == IF t < u THEN t ELSE u
Later(t, u)   == IF t > u THEN t ELSE u

\* Mutant: both series are put at the start of the timeline.
Offset_None(s, start) == 0

\* Where s begins on a timeline that begins at start.
Offset(s, start) == (s.first - start) \div s.step

\* What the series s has at index i of a timeline that it enters at index off;
\* a segment that would lie outside the timeline is left out.
At(s, off, i) == IF i - 1 >= off /\ i - off <= Len(s.segs) THEN s.segs[i - off] ELSE 0

Overlaid(s, o) ==
  LET start == Earlier(s.first, o.first)
      slots == (Later(EndOf(s), EndOf(o)) - start) \div s.step
  IN [step |-> s.step, first |-> start,
      segs |-> [i \in 1..slots |->
                  At(s, Offset(s, start), i) + At(o, Offset(o, start), i)]]

SameTimes(s, o) == s.first = o.first /\ Len(s.segs) = Len(o.segs)

\* Series of different resolution are not added: the receiver stays.
SegmentsAdd(s, o) ==
  IF o.segs = <<>> THEN s
  ELSE IF s.segs = <<>> THEN o
  ELSE IF o.step = 0 \/ s.step # o.step THEN s
  ELSE IF SameTimes(s, o)
       THEN [s EXCEPT !.segs = [i \in DOMAIN s.segs |-> s.segs[i] + o.segs[i]]]
  ELSE Overlaid(s, o)

----------------------------------------------------------------------------
(* The reference: what a series says of a time.                             *)

Covers(s, t) == s.segs # <<>> /\ s.first <= t /\ t < EndOf(s)
ValueAt(s, t) == IF Covers(s, t) THEN s.segs[(t - s.first) \div s.step + 1] ELSE 0
=============================================================================
