------------------------------ MODULE MCPages -------------------------------
(* Instances of Pages and Series for TLC. *)
EXTENDS Strip

\* Three traces: two started together, two took equally long, two tie in both.
StartOf    == <<1, 1, 2>>
DurationOf == <<2, 2, 1>>

\* Everything, or without the newest.
WindowsOf == {<<0, 9>>, <<0, 2>>}

\* Each step divides the next.
ReachOf == [step \in {1, 2, 4} |-> CASE step = 1 -> 2 [] step = 2 -> 4 [] step = 4 -> 6]

\* Laws of the arithmetic, which no step can disturb.
ASSUME SampleLaws == PercentileIsNearestRank /\ MergeIsExact
ASSUME ChartLaws  == SeriesHasNoGap /\ ChartsAgreeWithTraces /\ WindowsMeet
=============================================================================
