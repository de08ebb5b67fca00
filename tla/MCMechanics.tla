---------------------------- MODULE MCMechanics ----------------------------
(* The mechanics queues with every fit counted for one text.                *)
EXTENDS Mechanics

MCReqOf == [f \in Fits |-> CHOOSE r \in Reqs : TRUE]

\* Nothing goes wrong but the channel: no statement throws and no process
\* restarts.
OutageNext == (\E l \in Lanes : LaneStep(l)) \/ HttpStep \/ Tick

OutageSpec == MechanicsInit /\ [][OutageNext]_mechanicsVars

=============================================================================
