------------------------------ MODULE MCMigrations ------------------------------
(***************************************************************************)
(* Instances of Migrations for TLC.                                        *)
(***************************************************************************)
EXTENDS Migrations

\* Below zero, the largest that fits when MaxCooling is 2, and one beyond.
CoolingsTried == {-1, 2, 3}

=================================================================================
