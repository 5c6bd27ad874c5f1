------------------------------- MODULE MCSink -------------------------------
(* Sink for TLC: no device and no configuration is told from another. *)
EXTENDS Sink, TLC

SinkSymmetry == Permutations(Devices) \cup Permutations(Configs)

====
