----------------------------- MODULE MCNetwork -----------------------------
(* The instance TLC checks takes plain values for the constants of Network. *)
EXTENDS Network
=============================================================================
