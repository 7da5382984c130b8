---------------------------- MODULE MCStreamHub ----------------------------
(* Instances of StreamHub for TLC. *)
EXTENDS StreamHub, TLC

StreamSymmetry == Permutations(Slots) \cup Permutations(Timers)

\* Bound of stream_safety: traces and faults together.
FewEvents == published + faults <= 4
=============================================================================
