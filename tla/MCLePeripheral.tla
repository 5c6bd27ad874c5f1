--------------------------- MODULE MCLePeripheral ---------------------------
(* LePeripheral for TLC: no value and no name is told from another. *)
EXTENDS LePeripheral, TLC

PeripheralSymmetry == Permutations(Data) \cup Permutations(Names)

=============================================================================
