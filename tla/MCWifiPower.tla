----------------------------- MODULE MCWifiPower -----------------------------
(* Small instances of WifiPower for TLC.                                   *)
EXTENDS WifiPower, TLC

\* Application threads are interchangeable, and so are monitor threads.
ThreadSymmetry == Permutations(Apps) \cup Permutations(Monitors)

=============================================================================
