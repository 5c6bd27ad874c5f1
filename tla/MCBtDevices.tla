---------------------------- MODULE MCBtDevices ----------------------------
(* Instances of BtDevices for TLC: no device is told from another. *)
EXTENDS BtDevices, TLC

DeviceSymmetry == Permutations(Devices)

====
