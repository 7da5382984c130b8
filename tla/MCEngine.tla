------------------------------ MODULE MCEngine ------------------------------
(* Instances of Engine for TLC. *)
EXTENDS Engine, TLC

CONSTANTS english, multilingual

Both    == {english, multilingual}
Staging == <<english, multilingual>>
Alone   == <<english>>
=============================================================================
