---------------------------- MODULE MCMigrations ----------------------------
(* A small instance of Migrations for TLC: two processes, and three days on *)
(* which somebody upgraded to the last revision there was.                 *)
EXTENDS Migrations, TLC
CONSTANTS a, b
=============================================================================
