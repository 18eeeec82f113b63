---------------------------- MODULE MCMigration ----------------------------
(* A finite instance of Migration: which build each process is.            *)
EXTENDS Migration

CONSTANTS old, new, newest

(* One process each of three builds that follow one another.               *)
Builds == [o \in Openers |-> IF o = old THEN 1 ELSE IF o = new THEN 2 ELSE 3]
=============================================================================
