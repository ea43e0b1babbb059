----------------------------- MODULE MCFieldIo -----------------------------
(* Small instances of FieldIo for TLC. *)
EXTENDS FieldIo

MCCounts == 0 .. Boards
=============================================================================
