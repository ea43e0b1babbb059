----------------------------- MODULE MCHaPublish -----------------------------
(* A small instance of HaPublish for TLC. *)
EXTENDS HaPublish

\* A form that makes the chain longer, and one that makes it shorter.
MCCounts == {1, 2}
=============================================================================
