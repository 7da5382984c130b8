------------------------------- MODULE MCBoot -------------------------------
(* Instances of Boot for TLC. *)
EXTENDS Boot, TLC

CONSTANTS k1, s1, s2, s3

OneKey == k1 :> s1

\* Threads are alike, and so are the secrets the legacy file does not hold.
Alike == Permutations(Threads) \cup Permutations({s2, s3})
=============================================================================
