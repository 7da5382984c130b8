------------------------------ MODULE MCWriter ------------------------------
(* Instances of Writer for TLC. *)
EXTENDS Writer

\* Everything that can be queued, and the two kinds that never give way to another.
AllKinds    == {"kept", "error", "sampled", "log"}
FirmKinds   == {"error", "log"}
=============================================================================
