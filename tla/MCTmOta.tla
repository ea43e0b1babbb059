------------------------------ MODULE MCTmOta ------------------------------
(* A small instance of TmOta for TLC: chunks of whole words, and an image  *)
(* whose last word begins a page and is cut short.                         *)
EXTENDS TmOta

MCBytes == [u \in Uploaders |-> IF u = "a" THEN 5 ELSE IF u = "b" THEN 6 ELSE 8]
MCBoot == {0}
=============================================================================
