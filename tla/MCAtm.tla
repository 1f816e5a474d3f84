-------------------------------- MODULE MCAtm --------------------------------
(* Bounded instances of the bank server.                                     *)
EXTENDS AtmProperties, TLC

\* Safety runs only.
MCSymmetry == Permutations(Connections)

\* An amount may be negative: nothing tests it.
MCSigned == {-3, 2, 3}

=============================================================================
