---------------------------- MODULE MCGattClient ----------------------------
(* A device with one service, one characteristic and its descriptor.  No    *)
(* action tells one value from another.                                     *)
EXTENDS GattClient, TLC

CONSTANTS s1, c1, d1

OneService == (c1 :> s1) @@ (d1 :> c1)
DataSymmetry == Permutations(Data)

====
