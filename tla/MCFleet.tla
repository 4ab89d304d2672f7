--------------------------------- MODULE MCFleet ---------------------------------
(***************************************************************************)
(* An instance of FleetMigration for TLC.                                  *)
(***************************************************************************)
EXTENDS FleetMigration

FirstKey == CHOOSE authority \in Keys : TRUE

\* Half of the initial states, when every authority is one of two keys: swapping the
\* two turns the others into these.  TLC's own symmetry is not sound for liveness.
HalfInit == FleetInit /\ \A v \in Vaults : image[v].authority = FirstKey

HalfFleetSpec == HalfInit /\ [][FleetNext]_fleetVars /\ Fairness

=================================================================================
