------------------------------ MODULE MCLimits ------------------------------
(* Instances of Limits for TLC. *)
EXTENDS Limits, Settings, TLC

Strict == [limit |-> 1, window |-> 2]

Alike == Permutations(Threads) \cup Permutations(Admins) \cup Permutations(Ips)

\* Laws of one bucket under its lock, which no other step can disturb, and of the
\* registry's panel and resets.
ASSUME BucketLaws == NeverOverRate /\ RetryIsEnough /\ SweepForgetsNothing
ASSUME PanelLaws  == ResetRenews /\ PanelShowsBusiest

\* Laws of the runtime settings and key limits, one update after the other.
ASSUME SettingsLaws == UpdateReadsBack /\ OwnerCaptures /\ PatchesDoNotMix
=============================================================================
