----------------------------- MODULE MCWifiNames -----------------------------
(***************************************************************************)
(* WifiConnect and WifiNames for TLC.  The cells of mb_gb2uni_table are    *)
(* those of gbk_to_utf8.c for the pairs of the bytes 161, 164, 183, 194    *)
(* and 65: code points of two and of three UTF-8 bytes.  The GBK name      *)
(* <<161, 164>> and the UTF-8 name <<194, 183>> are shown alike.           *)
(***************************************************************************)
EXTENDS WifiConnect, WifiNames, TLC

Cell(lead, trail) == (lead - 129) * 191 + trail - 64

Cells(lead, points) ==
  LET trail == <<161, 164, 183, 194, 65>>
  IN [i \in {Cell(lead, trail[k]) : k \in 1..5} |->
        points[CHOOSE k \in 1..5 : i = Cell(lead, trail[k])]]

Gb2uni ==
     Cells(161, <<12288, 183, 12299, 247, 58567>>)
  @@ Cells(164, <<12353, 12356, 12375, 12386, 58855>>)
  @@ Cells(183, <<36144, 31567, 36137, 20223, 31263>>)
  @@ Cells(194, <<38534, 38471, 36335, 20387, 32743>>)

-----------------------------------------------------------------------------
(* The row wpa_cli list_network prints of a saved network in this state:   *)
(* its address is any unless one is pinned, and [CURRENT] or [DISABLED]    *)
(* follow it.                                                              *)
BssidOf(id) == IF sup.nets[id].bssid = None THEN AnyBssid ELSE Mac
FlagOf(id) == IF sup.assoc = id \/ ~sup.nets[id].enabled THEN Flag ELSE <<>>

(* Whatever a connect has done to a saved network, RK_wifi_getSavedInfo    *)
(* gives back every field of it, with a name of one or several words,      *)
(* escaped characters in it, an address or any, with or without flags.     *)
(* The status and the event of a wrong key, which undo the escapes in the  *)
(* opposite order (Rk_wifi.c:481, 961 and 2723), give the same name, and   *)
(* the status tells WEP from an open network although key_mgmt is NONE for *)
(* both (Rk_wifi.c:993).                                                   *)
SavedRowRead ==
  \A id \in Ids : sup.nets[id].ap # None => RowRead[BssidOf(id), FlagOf(id)]

(* When RK_wifi_connect looks up and configures the name an application    *)
(* picked from a scan, the scan has ended (ScanEnds), and the name stands  *)
(* for its access point until the next scan: the bytes configured are      *)
(* those of an access point of that scan shown under that name, what an    *)
(* earlier scan left in the lists is not used, and a name shown twice goes *)
(* to one of the two (Rk_wifi.c:1427, 2157, 2166).  The network saved by   *)
(* it is listed under the same name, so that RK_wifi_search_with_ssid      *)
(* finds it again, and the status agrees.                                  *)
ShownNameKept ==
  \A a \in Apps : app[a].pc \in {"search", "set"} => ScanEnds /\ NameKept

=============================================================================
