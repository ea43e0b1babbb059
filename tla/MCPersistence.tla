---------------------------- MODULE MCPersistence ----------------------------
(* Small instances of Persistence for TLC: an image that ends inside a     *)
(* flash word or not, one that needs a second page, one that is too long.  *)
EXTENDS Persistence, Integers

MCBytes == [u \in Uploaders |-> IF u = "a" THEN 3 ELSE IF u = "b" THEN 6 ELSE 10]
MCBoot == {0, 1}
MCValues == {1, 2}
=============================================================================
