----------------------------- MODULE WifiConnect -----------------------------
(***************************************************************************)
(* The station-connect machinery of wifi/Rk_wifi.c: the API calls that     *)
(* start, cancel and forget a connection, the detached thread              *)
(* wifi_connect_state_check that each accepted call spawns, and the        *)
(* handlers of dispatch_event, all of which share the file's globals       *)
(* without a mutex.  One step stands for the code between two points at    *)
(* which another thread can be observed to run: a wpa_cli command, a       *)
(* callback, a sleep, or a read of a global that a later write depends on. *)
(*                                                                         *)
(* wpa_supplicant is external.  Its record sup holds the configured        *)
(* networks, the network it is associated with, whether that network has   *)
(* an address, whether auto-connection is on hold after a disconnect       *)
(* command, and the events not yet read from the monitor socket.           *)
(***************************************************************************)
EXTENDS Naturals, FiniteSets, Sequences

CONSTANTS
  Apps,          \* application threads
  Checkers,      \* wifi_connect_state_check threads (bound on live ones)
  Ids,           \* wpa_supplicant network ids (bound on configured networks)
  Aps,           \* (ssid, key_mgmt) pairs
  Bssids,        \* access point addresses
  Calls,         \* the API calls the applications make
  ConnectRetry,  \* WIFI_CONNECT_RETRY, 60 in the code
  CompleteBy,    \* the poll at which a station not COMPLETED gives up, 20
  MaxEvents,     \* bound on unread monitor events
  None

AllCalls ==
  {"connect", "wep", "with_ssid", "with_bssid", "cancel", "forget",
   "disconnect", "reset", "power"}

ASSUME ConstantsAssumption ==
  /\ Calls \subseteq AllCalls
  /\ ConnectRetry \in Nat \ {0}
  /\ CompleteBy \in 0 .. ConnectRetry - 1
  /\ MaxEvents \in Nat \ {0}
  /\ Ids \subseteq Nat /\ 0 \in Ids
  /\ None \notin Ids \cup Aps \cup Bssids

VARIABLES
  wifi_connect_lock, wifi_cancel, wifi_wrong_key, wifi_is_exist,
  is_wep, wep_id, connecting_id,
  gbssid,        \* gbssid while gbssid_flag is true, else None
  wifi_onoff_flag, \* wifi_onoff_flag, and not wpa_exit: read together only
  sup,           \* wpa_supplicant
  app,           \* app[a]: the call thread a is in
  chk,           \* chk[c]: the check thread c
  mon,           \* the monitor thread inside dispatch_event
  outcome        \* history: result reported since the last attempt began

globals == <<wifi_connect_lock, wifi_cancel, wifi_wrong_key, wifi_is_exist,
             is_wep, wep_id, connecting_id, gbssid, wifi_onoff_flag>>
vars == <<globals, sup, app, chk, mon, outcome>>

-----------------------------------------------------------------------------
(* wpa_supplicant and the wpa_cli commands the library issues.             *)

Absent == [ap |-> None, enabled |-> FALSE, bssid |-> None, known |-> FALSE]
Blank  == [Absent EXCEPT !.known = TRUE]

Known(id) == sup.nets[id].known

\* Losing the association raises an event on the monitor socket.
Disconnect(s) ==
  IF s.assoc = None THEN s
  ELSE [s EXCEPT !.assoc = None, !.ip = FALSE,
                 !.events = Append(@, "DISCONNECTED")]

\* disable_network, remove_network: the current network is left.
disable(s, S) ==
  LET t == [s EXCEPT !.nets = [i \in Ids |->
                IF i \in S THEN [s.nets[i] EXCEPT !.enabled = FALSE]
                ELSE s.nets[i]]]
  IN  IF s.assoc \in S THEN Disconnect(t) ELSE t

remove(s, id) == [disable(s, {id}) EXCEPT !.nets[id] = Absent]

\* enable_network all, reconnect: auto-connection may now choose any known
\* network.
enable_all(s) ==
  [s EXCEPT !.hold = FALSE,
            !.nets = [i \in Ids |->
               [s.nets[i] EXCEPT !.enabled = s.nets[i].known]]]

\* select_network disables every other network and ends a hold.
select(s, id) ==
  [disable(s, Ids \ {id}) EXCEPT !.nets[id].enabled = TRUE, !.hold = FALSE]

\* The supplicant on its own: association succeeds, a key is refused, the
\* access point rejects a shared-key WEP authentication, an address arrives,
\* the link drops.  Every event waits in a bounded socket buffer.
Room == Len(sup.events) < MaxEvents
Raise(s, e) == [s EXCEPT !.events = Append(@, e)]

Associate(id) ==
  /\ Room /\ sup.assoc = None /\ ~sup.hold
  /\ sup.nets[id].enabled /\ sup.nets[id].ap # None
  /\ sup' = Raise([sup EXCEPT !.assoc = id], "CONNECTED")
  /\ UNCHANGED <<globals, app, chk, mon, outcome>>

Refuse(id, type) ==
  /\ Room /\ sup.assoc = None /\ ~sup.hold
  /\ sup.nets[id].enabled /\ sup.nets[id].ap # None
  /\ sup' = Raise(sup, type)
  /\ UNCHANGED <<globals, app, chk, mon, outcome>>

GotAddress ==
  /\ sup.assoc # None /\ ~sup.ip
  /\ sup' = [sup EXCEPT !.ip = TRUE]
  /\ UNCHANGED <<globals, app, chk, mon, outcome>>

LinkLost ==
  /\ Room /\ sup.assoc # None
  /\ sup' = Disconnect(sup)
  /\ UNCHANGED <<globals, app, chk, mon, outcome>>

Supplicant ==
  \/ \E id \in Ids : Associate(id)
  \/ \E id \in Ids, t \in {"WRONG_KEY", "ASSOC_REJECT"} : Refuse(id, t)
  \/ GotAddress
  \/ LinkLost

-----------------------------------------------------------------------------
(* The application threads inside RK_wifi_connect,                         *)
(* RK_wifi_connect_with_ssid, RK_wifi_connect_with_bssid, RK_wifi_cancel   *)
(* and RK_wifi_forget_with_{ssid,bssid}.                                   *)

IdleApp == [pc |-> "idle", call |-> None, ap |-> None, bssid |-> None,
            wep |-> FALSE, id |-> None]

At(a, l) == app[a].pc = l
Goto(a, l) == app' = [app EXCEPT ![a].pc = l]
Return(a) == app' = [app EXCEPT ![a] = IdleApp]
Enter(a, l, call, ap, b, wep) ==
  app' = [app EXCEPT ![a] = [pc |-> l, call |-> call, ap |-> ap,
                             bssid |-> b, wep |-> wep, id |-> None]]

\* A lock already taken makes the first two calls return -1 with no effect.
RK_wifi_connect(a, ap, b, wep) ==
  /\ (IF wep THEN "wep" ELSE "connect") \in Calls /\ At(a, "idle")
  /\ ~wifi_connect_lock
  /\ Enter(a, "lock", "connect", ap, b, wep)
  /\ UNCHANGED <<globals, sup, chk, mon, outcome>>

RK_wifi_connect_with_ssid(a, ap) ==
  /\ "with_ssid" \in Calls /\ At(a, "idle")
  /\ ~wifi_connect_lock
  /\ Enter(a, "lock", "with_ssid", ap, None, FALSE)
  /\ UNCHANGED <<globals, sup, chk, mon, outcome>>

\* Here a lock already taken goes to the common fail label.
RK_wifi_connect_with_bssid(a, b) ==
  /\ "with_bssid" \in Calls /\ At(a, "idle")
  /\ Enter(a, IF wifi_connect_lock THEN "fail" ELSE "lock",
           "with_bssid", None, b, FALSE)
  /\ UNCHANGED <<globals, sup, chk, mon, outcome>>

\* Mutant: the lock is tested and never set.
TakeNoLock(a) ==
  /\ At(a, "lock")
  /\ wifi_wrong_key' = FALSE
  /\ outcome' = "none"
  /\ wifi_is_exist' = (app[a].call # "connect")
  /\ Goto(a, IF app[a].call = "connect" THEN "disable" ELSE "search")
  /\ UNCHANGED <<wifi_connect_lock, wifi_cancel, is_wep, wep_id, connecting_id,
                 gbssid, wifi_onoff_flag, sup, chk, mon>>

\* Take the lock; RK_wifi_connect also reports CONNECTING here.
TakeLock(a) ==
  /\ At(a, "lock")
  /\ wifi_connect_lock' = TRUE
  /\ wifi_wrong_key' = FALSE
  /\ outcome' = "none"
  /\ IF app[a].call = "connect"
     THEN /\ is_wep' = (is_wep \/ app[a].wep)
          /\ gbssid' = IF app[a].bssid # None THEN app[a].bssid ELSE gbssid
          /\ Goto(a, "disable")
          /\ UNCHANGED wifi_is_exist
     ELSE /\ wifi_is_exist' = TRUE
          /\ Goto(a, "search")
          /\ UNCHANGED <<is_wep, gbssid>>
  /\ UNCHANGED <<wifi_cancel, wep_id, connecting_id, wifi_onoff_flag,
                 sup, chk, mon>>

\* disable_network all.
DisableAll(a) ==
  /\ At(a, "disable")
  /\ sup' = disable(sup, Ids)
  /\ Goto(a, IF app[a].call = "connect" THEN "search" ELSE "select")
  /\ UNCHANGED <<globals, chk, mon, outcome>>

\* RK_wifi_search_with_ssid, RK_wifi_search_with_bssid.
Saved(a) ==
  {id \in Ids : /\ Known(id)
                /\ IF app[a].call = "with_bssid"
                   THEN sup.nets[id].bssid = app[a].bssid
                   ELSE sup.nets[id].ap = app[a].ap}

\* The saved network if there is one; RK_wifi_connect adds it otherwise.
Search(a) ==
  LET next == IF app[a].call = "connect" THEN "set" ELSE "disable"
  IN
  /\ At(a, "search")
  /\ \/ \E id \in Saved(a) :
          /\ connecting_id' = id
          /\ app' = [app EXCEPT ![a].id = id, ![a].pc = next]
          /\ UNCHANGED sup
     \/ /\ Saved(a) = {} /\ app[a].call = "connect"
        /\ \E id \in Ids :
             /\ ~Known(id)
             /\ sup' = [sup EXCEPT !.nets[id] = Blank]
             /\ connecting_id' = id
             /\ app' = [app EXCEPT ![a].id = id, ![a].pc = next]
     \/ /\ Saved(a) = {}
        /\ Goto(a, "fail")
        /\ UNCHANGED <<sup, connecting_id>>
  /\ UNCHANGED <<wifi_connect_lock, wifi_cancel, wifi_wrong_key, wifi_is_exist,
                 is_wep, wep_id, gbssid, wifi_onoff_flag,
                 chk, mon, outcome>>

\* set_network: bssid if gbssid_flag, then ssid, then the key.  A command
\* that wpa_cli does not answer with OK leaves the earlier ones applied.
SetNetwork(a) ==
  LET id     == app[a].id
      net    == sup.nets[id]
      pinned == [net EXCEPT !.bssid = IF gbssid # None THEN gbssid ELSE @]
      named  == [pinned EXCEPT !.ap = app[a].ap]
  IN
  /\ At(a, "set")
  /\ \/ /\ Known(id)
        /\ sup' = [sup EXCEPT !.nets[id] = named]
        /\ wep_id' = IF app[a].wep THEN id ELSE wep_id
        /\ Goto(a, "select")
     \/ /\ \E n \in IF Known(id) THEN {net, pinned, named} ELSE {net} :
             sup' = [sup EXCEPT !.nets[id] = n]
        /\ wep_id' \in IF app[a].wep THEN {wep_id, id} ELSE {wep_id}
        /\ Goto(a, "fail")
  /\ UNCHANGED <<wifi_connect_lock, wifi_cancel, wifi_wrong_key, wifi_is_exist,
                 is_wep, connecting_id, gbssid, wifi_onoff_flag,
                 chk, mon, outcome>>

\* set_hide_network (RK_wifi_connect only) may fail before select_network,
\* which consumes gbssid_flag or else clears the network's bssid.
SelectNetwork(a) ==
  LET id  == app[a].id
      clr == IF gbssid = None /\ Known(id)
             THEN [sup EXCEPT !.nets[id].bssid = None] ELSE sup
  IN
  /\ At(a, "select")
  /\ \/ /\ Known(id)
        /\ sup' = select(clr, id) /\ gbssid' = None
        /\ Goto(a, "enable")
     \/ /\ sup' = clr /\ gbssid' = None
        /\ Goto(a, "fail")
     \/ /\ app[a].call = "connect"
        /\ Goto(a, "fail")
        /\ UNCHANGED <<sup, gbssid>>
  /\ UNCHANGED <<wifi_connect_lock, wifi_cancel, wifi_wrong_key, wifi_is_exist,
                 is_wep, wep_id, connecting_id, wifi_onoff_flag,
                 chk, mon, outcome>>

\* enable_network, then a detached wifi_connect_state_check thread that is
\* given the address of the global connecting_id.
EnableNetwork(a) ==
  LET id == app[a].id IN
  /\ At(a, "enable")
  /\ \/ /\ Known(id)
        /\ sup' = [sup EXCEPT !.nets[id].enabled = TRUE]
        /\ \E c \in Checkers :
             /\ chk[c].pc = "none"
             /\ chk' = [chk EXCEPT ![c] = [pc |-> "read", id |-> None,
                           own |-> id, call |-> app[a].call,
                           polls |-> 0, ok |-> FALSE, report |-> FALSE]]
        /\ Return(a)
     \/ /\ Goto(a, "fail")
        /\ UNCHANGED <<sup, chk>>
  /\ UNCHANGED <<globals, mon, outcome>>

\* The fail label: report CONNECTFAILED, then release.
FailReport(a) ==
  /\ At(a, "fail")
  /\ outcome' = "CONNECTFAILED"
  /\ Goto(a, "unlock")
  /\ UNCHANGED <<globals, sup, chk, mon>>

\* Mutant: the error path forgets the lock.
FailKeepsLock(a) ==
  /\ At(a, "unlock")
  /\ is_wep' = FALSE
  /\ Return(a)
  /\ UNCHANGED <<wifi_connect_lock, wifi_cancel, wifi_wrong_key, wifi_is_exist,
                 wep_id, connecting_id, gbssid, wifi_onoff_flag,
                 sup, chk, mon, outcome>>

FailUnlock(a) ==
  /\ At(a, "unlock")
  /\ wifi_connect_lock' = FALSE
  /\ IF app[a].call = "connect"
     THEN is_wep' = FALSE /\ UNCHANGED wifi_is_exist
     ELSE wifi_is_exist' = FALSE /\ UNCHANGED is_wep
  /\ Return(a)
  /\ UNCHANGED <<wifi_cancel, wifi_wrong_key, wep_id, connecting_id, gbssid,
                 wifi_onoff_flag, sup, chk, mon, outcome>>

\* RK_wifi_cancel: test the lock, raise the flag, wait at most 8 s for the
\* check thread to lower it.
RK_wifi_cancel(a) ==
  /\ "cancel" \in Calls /\ At(a, "idle")
  /\ wifi_connect_lock
  /\ Enter(a, "raise", "cancel", None, None, FALSE)
  /\ UNCHANGED <<globals, sup, chk, mon, outcome>>

CancelRaise(a) ==
  /\ At(a, "raise")
  /\ wifi_cancel' = TRUE
  /\ Goto(a, "wait")
  /\ UNCHANGED <<wifi_connect_lock, wifi_wrong_key, wifi_is_exist, is_wep,
                 wep_id, connecting_id, gbssid, wifi_onoff_flag,
                 sup, chk, mon, outcome>>

\* The flag was lowered, or the eight polls ran out.
CancelReturn(a) ==
  /\ At(a, "wait")
  /\ Return(a)
  /\ UNCHANGED <<globals, sup, chk, mon, outcome>>

\* RK_wifi_forget_with_ssid, RK_wifi_forget_with_bssid: look the network up,
\* then remove it.
RK_wifi_forget(a, id) ==
  /\ "forget" \in Calls /\ At(a, "idle")
  /\ Known(id) /\ (sup.nets[id].ap # None \/ sup.nets[id].bssid # None)
  /\ app' = [app EXCEPT ![a] = [IdleApp EXCEPT !.pc = "forget",
                                 !.call = "forget", !.id = id]]
  /\ UNCHANGED <<globals, sup, chk, mon, outcome>>

ForgetRemove(a) ==
  /\ At(a, "forget")
  /\ sup' = remove(sup, app[a].id)
  /\ Return(a)
  /\ UNCHANGED <<globals, chk, mon, outcome>>

\* RK_wifi_disconnect_network, RK_wifi_reset: one command each.
RK_wifi_disconnect_network ==
  /\ "disconnect" \in Calls
  /\ sup' = [Disconnect(sup) EXCEPT !.hold = TRUE]
  /\ UNCHANGED <<globals, app, chk, mon, outcome>>

RK_wifi_reset ==
  /\ "reset" \in Calls
  /\ sup' = [Disconnect(sup) EXCEPT !.nets = [i \in Ids |-> Absent]]
  /\ UNCHANGED <<globals, app, chk, mon, outcome>>

Call(a) ==
  \/ \E ap \in Aps, b \in Bssids \cup {None}, wep \in BOOLEAN :
        RK_wifi_connect(a, ap, b, wep)
  \/ \E ap \in Aps : RK_wifi_connect_with_ssid(a, ap)
  \/ \E b \in Bssids : RK_wifi_connect_with_bssid(a, b)
  \/ RK_wifi_cancel(a)
  \/ \E id \in Ids : RK_wifi_forget(a, id)
  \/ At(a, "idle") /\ (RK_wifi_disconnect_network \/ RK_wifi_reset)

InCall(a) ==
  \/ TakeLock(a) \/ DisableAll(a) \/ Search(a) \/ SetNetwork(a)
  \/ SelectNetwork(a) \/ EnableNetwork(a) \/ FailReport(a) \/ FailUnlock(a)
  \/ CancelRaise(a) \/ CancelReturn(a) \/ ForgetRemove(a)

-----------------------------------------------------------------------------
(* The thread wifi_connect_state_check.                                    *)

NoChk == [pc |-> "none", id |-> None, own |-> None, call |-> None,
          polls |-> 0, ok |-> FALSE, report |-> FALSE]

ChkGoto(c, l) == chk' = [chk EXCEPT ![c].pc = l]

\* id = *((int * )arg): the global is read only once the thread runs.
CheckRead(c) ==
  /\ chk[c].pc = "read"
  /\ chk' = [chk EXCEPT ![c].id = connecting_id, ![c].pc = "poll"]
  /\ UNCHANGED <<globals, sup, app, mon, outcome>>

\* One turn of the loop of check_wifi_isconnected.  Any association with an
\* address counts, whichever network it is.
Connected == sup.assoc # None /\ sup.ip

\* Mutant: the retry count is never compared.
GiveUpNever(c) ==
  \/ sup.assoc = None /\ chk[c].polls = CompleteBy
  \/ ~wifi_onoff_flag \/ wifi_wrong_key \/ wifi_cancel

GiveUp(c) ==
  \/ sup.assoc = None /\ chk[c].polls = CompleteBy
  \/ ~wifi_onoff_flag \/ wifi_wrong_key \/ wifi_cancel
  \/ chk[c].polls + 1 = ConnectRetry

check_wifi_isconnected(c) ==
  /\ chk[c].pc = "poll"
  /\ \/ Connected /\ chk' = [chk EXCEPT ![c].ok = TRUE, ![c].pc = "decide"]
     \/ ~Connected /\ GiveUp(c) /\ ChkGoto(c, "decide")
     \/ ~Connected /\ ~GiveUp(c) /\ chk' = [chk EXCEPT ![c].polls = @ + 1]
  /\ UNCHANGED <<globals, sup, app, mon, outcome>>

\* Mutant: a failure is never reported.
DecideSilently(c) ==
  /\ chk[c].pc = "decide"
  /\ chk' = [chk EXCEPT ![c].report = chk[c].ok,
                        ![c].pc = IF chk[c].ok THEN "send" ELSE "drop"]
  /\ UNCHANGED <<globals, sup, app, mon, outcome>>

\* The result: success, failure, or nothing when a wrong key was already
\* reported by the monitor; wifi_connectfail_process on failure.
Decide(c) ==
  /\ chk[c].pc = "decide"
  /\ chk' = [chk EXCEPT ![c].report = chk[c].ok \/ ~wifi_wrong_key,
                        ![c].pc = IF chk[c].ok THEN "send" ELSE "drop"]
  /\ UNCHANGED <<globals, sup, app, mon, outcome>>

\* Mutant: the failed network is always removed.
RemoveAlways(c) ==
  /\ chk[c].pc = "drop"
  /\ sup' = remove(sup, chk[c].id)
  /\ ChkGoto(c, "send")
  /\ UNCHANGED <<globals, app, mon, outcome>>

wifi_connectfail_process(c) ==
  LET id == chk[c].id IN
  /\ chk[c].pc = "drop"
  /\ sup' = IF wifi_is_exist THEN disable(sup, {id}) ELSE remove(sup, id)
  /\ ChkGoto(c, "send")
  /\ UNCHANGED <<globals, app, mon, outcome>>

SendResult(c) ==
  /\ chk[c].pc = "send"
  /\ outcome' = IF ~chk[c].report THEN outcome
                ELSE IF chk[c].ok THEN "DHCP_OK" ELSE "CONNECTFAILED"
  /\ ChkGoto(c, "release")
  /\ UNCHANGED <<globals, sup, app, mon>>

\* The end label.
Release(c) ==
  /\ chk[c].pc = "release"
  /\ wifi_is_exist' = FALSE /\ wifi_connect_lock' = FALSE
  /\ is_wep' = FALSE /\ wifi_cancel' = FALSE
  /\ chk' = [chk EXCEPT ![c] = IF @.ok THEN NoChk
                               ELSE [NoChk EXCEPT !.pc = "tail"]]
  /\ UNCHANGED <<wifi_wrong_key, wep_id, connecting_id, gbssid,
                 wifi_onoff_flag, sup, app, mon, outcome>>

\* After the lock is released: enable_network all, reconnect.
ReenableAll(c) ==
  /\ chk[c].pc = "tail"
  /\ sup' = enable_all(sup)
  /\ chk' = [chk EXCEPT ![c] = NoChk]
  /\ UNCHANGED <<globals, app, mon, outcome>>

Checker(c) ==
  \/ CheckRead(c) \/ check_wifi_isconnected(c) \/ Decide(c)
  \/ wifi_connectfail_process(c) \/ SendResult(c) \/ Release(c)
  \/ ReenableAll(c)

-----------------------------------------------------------------------------
(* The monitor thread in dispatch_event.  Events that only lead to a       *)
(* callback (SCAN_RESULTS, "Trying to associate") are left out.            *)

Event(t) == /\ mon.pc = "wait" /\ sup.events # <<>>
            /\ Head(sup.events) = t

Read(s) == [s EXCEPT !.events = Tail(@)]
MonGoto(l) == mon' = [mon EXCEPT !.pc = l]

\* The address is flushed even if the station has associated again since.
OnDisconnected ==
  /\ Event("DISCONNECTED")
  /\ sup' = [Read(sup) EXCEPT !.ip = FALSE]
  /\ MonGoto("flushed")
  /\ UNCHANGED <<globals, app, chk, outcome>>

\* The lock is tested after the DISCONNECTED callback, and acted on later.
MonLockTest ==
  /\ mon.pc = "flushed"
  /\ MonGoto(IF wifi_connect_lock THEN "wait" ELSE "reenable")
  /\ UNCHANGED <<globals, sup, app, chk, outcome>>

MonReenable ==
  /\ mon.pc = "reenable"
  /\ sup' = enable_all(sup)
  /\ MonGoto("wait")
  /\ UNCHANGED <<globals, app, chk, outcome>>

\* disable_no_connected_ssid asks for the current network first; a station
\* that is no longer associated answers 0.
OnConnected ==
  /\ Event("CONNECTED")
  /\ sup' = Read(sup)
  /\ mon' = [pc |-> "others", id |-> IF sup.assoc = None THEN 0 ELSE sup.assoc]
  /\ UNCHANGED <<globals, app, chk, outcome>>

disable_no_connected_ssid ==
  /\ mon.pc = "others"
  /\ sup' = disable(sup, Ids \ {mon.id})
  /\ mon' = [pc |-> "check_ip", id |-> 0]
  /\ UNCHANGED <<globals, app, chk, outcome>>

\* With the lock free, up to 50 s in which no event is read and then DHCP_OK
\* or CONNECTFAILED; with the lock taken, nothing.
rkwifi_check_ip ==
  /\ mon.pc = "check_ip"
  /\ MonGoto("wait")
  /\ UNCHANGED <<globals, sup, app, chk, outcome>>

OnWrongKey ==
  /\ Event("WRONG_KEY")
  /\ sup' = Read(sup)
  /\ wifi_wrong_key' = TRUE
  /\ MonGoto("wrong_key")
  /\ UNCHANGED <<wifi_connect_lock, wifi_cancel, wifi_is_exist, is_wep, wep_id,
                 connecting_id, gbssid, wifi_onoff_flag,
                 app, chk, outcome>>

ReportWrongKey ==
  /\ mon.pc = "wrong_key"
  /\ outcome' = "WRONG_KEY"
  /\ MonGoto("wait")
  /\ UNCHANGED <<globals, sup, app, chk>>

\* ASSOC-REJECT status 13: retry the WEP network with open authentication.
OnAssocReject ==
  /\ Event("ASSOC_REJECT")
  /\ sup' = Read(sup)
  /\ MonGoto(IF is_wep THEN "wep" ELSE "wait")
  /\ UNCHANGED <<globals, app, chk, outcome>>

WepRetry ==
  /\ mon.pc = "wep"
  /\ sup' = IF wep_id \in Ids /\ Known(wep_id) THEN select(sup, wep_id) ELSE sup
  /\ MonGoto("wait")
  /\ UNCHANGED <<globals, app, chk, outcome>>

Monitor ==
  \/ OnDisconnected \/ MonLockTest \/ MonReenable \/ OnConnected
  \/ disable_no_connected_ssid \/ rkwifi_check_ip \/ OnWrongKey
  \/ ReportWrongKey \/ OnAssocReject \/ WepRetry

\* RK_wifi_enable in another thread, and the monitor loop that ends after it,
\* write the power flags.
PowerFlags ==
  /\ "power" \in Calls
  /\ wifi_onoff_flag' = ~wifi_onoff_flag
  /\ UNCHANGED <<wifi_connect_lock, wifi_cancel, wifi_wrong_key, wifi_is_exist,
                 is_wep, wep_id, connecting_id, gbssid,
                 sup, app, chk, mon, outcome>>

-----------------------------------------------------------------------------
Init ==
  /\ wifi_connect_lock = FALSE /\ wifi_cancel = FALSE
  /\ wifi_wrong_key = FALSE /\ wifi_is_exist = FALSE
  /\ is_wep = FALSE /\ wep_id = None /\ connecting_id = None
  /\ gbssid = None /\ wifi_onoff_flag = TRUE
  /\ \E ap \in Aps \cup {None} :
       sup = [nets |-> [i \in Ids |->
                 IF i = 0 /\ ap # None
                 THEN [Blank EXCEPT !.ap = ap, !.enabled = TRUE] ELSE Absent],
              assoc |-> None, ip |-> FALSE, hold |-> FALSE, events |-> <<>>]
  /\ app = [a \in Apps |-> IdleApp]
  /\ chk = [c \in Checkers |-> NoChk]
  /\ mon = [pc |-> "wait", id |-> 0]
  /\ outcome = "none"

Next ==
  \/ \E a \in Apps : Call(a) \/ InCall(a)
  \/ \E c \in Checkers : Checker(c)
  \/ Monitor
  \/ Supplicant
  \/ PowerFlags

Spec == Init /\ [][Next]_vars

\* Threads that are running keep running; applications need not call and
\* the supplicant need not succeed.
Fairness ==
  /\ \A a \in Apps : WF_vars(InCall(a))
  /\ \A c \in Checkers : WF_vars(Checker(c))
  /\ WF_vars(Monitor)

FairSpec == Spec /\ Fairness

-----------------------------------------------------------------------------
AppPcs == {"idle", "lock", "disable", "search", "set", "select", "enable",
           "fail", "unlock", "raise", "wait", "forget"}
ChkPcs == {"none", "read", "poll", "decide", "drop", "send", "release", "tail"}
MonPcs == {"wait", "flushed", "reenable", "others", "check_ip", "wrong_key",
           "wep"}
IdOrNone == Ids \cup {None}

Net == [ap : Aps \cup {None}, enabled : BOOLEAN, bssid : Bssids \cup {None},
        known : BOOLEAN]
EventTypes == {"CONNECTED", "DISCONNECTED", "WRONG_KEY", "ASSOC_REJECT"}

SupType == [nets : [Ids -> Net], assoc : IdOrNone, ip : BOOLEAN,
            hold : BOOLEAN, events : Seq(EventTypes)]
AppType == [pc : AppPcs, call : AllCalls \cup {None}, ap : Aps \cup {None},
            bssid : Bssids \cup {None}, wep : BOOLEAN, id : IdOrNone]
ChkType == [pc : ChkPcs, id : IdOrNone, own : IdOrNone,
            call : AllCalls \cup {None}, polls : 0 .. ConnectRetry - 1,
            ok : BOOLEAN, report : BOOLEAN]

\* Every global, thread and the supplicant stay in their ranges; the poll
\* counter of check_wifi_isconnected stays below WIFI_CONNECT_RETRY.
TypeOK ==
  /\ wifi_connect_lock \in BOOLEAN /\ wifi_cancel \in BOOLEAN
  /\ wifi_wrong_key \in BOOLEAN /\ wifi_is_exist \in BOOLEAN
  /\ is_wep \in BOOLEAN /\ wifi_onoff_flag \in BOOLEAN
  /\ wep_id \in IdOrNone /\ connecting_id \in IdOrNone
  /\ gbssid \in Bssids \cup {None}
  /\ sup \in SupType
  /\ app \in [Apps -> AppType]
  /\ chk \in [Checkers -> ChkType]
  /\ mon \in [pc : MonPcs, id : Ids]
  /\ outcome \in {"none", "CONNECTFAILED", "WRONG_KEY", "DHCP_OK"}

\* No command is issued for a network id that was never chosen.
IdsChosen ==
  /\ \A a \in Apps :
       /\ app[a].pc = "forget" => app[a].id \in Ids
       /\ \/ app[a].pc \in {"set", "select", "enable"}
          \/ app[a].pc = "disable" /\ app[a].call # "connect"
          => app[a].id \in Ids /\ connecting_id \in Ids
  /\ \A c \in Checkers :
       /\ chk[c].pc = "read" => connecting_id \in Ids
       /\ chk[c].pc \in {"poll", "decide", "drop", "send", "release"}
          => chk[c].id \in Ids

\* An application thread that is configuring wpa_supplicant for a connection,
\* or unwinding a failed one; a check thread that has not released the lock.
Configuring(a) == app[a].pc \in {"disable", "search", "set", "select", "enable"}
Unwinding(a) == app[a].pc \in {"fail", "unlock"}
Live(c) ==
  chk[c].pc \in {"read", "poll", "decide", "drop", "send", "release"}

\* "Only one connect at same time" (the comment where RK_wifi_connect takes
\* wifi_connect_lock): of all application threads configuring a connection
\* and all check threads, at most one exists.
OnlyOneConnect ==
  /\ \A a, b \in Apps : Configuring(a) /\ Configuring(b) => a = b
  /\ \A c, d \in Checkers : Live(c) /\ Live(d) => c = d
  /\ \A a \in Apps, c \in Checkers : ~(Configuring(a) /\ Live(c))

\* wifi_connect_lock is held exactly while a connect call or its check thread
\* is at work: no error path of RK_wifi_connect1, RK_wifi_connect_with_ssid or
\* wifi_connect_state_check leaks it or drops it early.
LockTracksAttempt ==
  wifi_connect_lock <=> \/ \E a \in Apps : Configuring(a) \/ Unwinding(a)
                        \/ \E c \in Checkers : Live(c)

\* However many threads call, and whichever calls they make, the lock is never
\* left behind: while it is held some connect call or check thread is still on
\* its way to releasing it.
LockNotLeaked ==
  wifi_connect_lock => \/ \E a \in Apps : Configuring(a) \/ Unwinding(a)
                       \/ \E c \in Checkers : Live(c)

\* The check thread is handed a pointer to the global connecting_id; it still
\* works on the network its own connect call configured.
ChecksOwnNetwork ==
  \A c \in Checkers :
    /\ chk[c].pc = "read" => connecting_id = chk[c].own
    /\ Live(c) /\ chk[c].pc # "read" => chk[c].id = chk[c].own

\* A saved network disappears only because it was forgotten or reset, or
\* because the RK_wifi_connect attempt that configured that very network
\* failed: a failing RK_wifi_connect_with_ssid only disables it.
SavedNetworkSurvives ==
  [][\A id \in Ids : sup.nets[id].known /\ ~sup'.nets[id].known =>
       \/ \E a \in Apps : At(a, "forget") /\ app[a].id = id
       \/ RK_wifi_reset
       \/ \E c \in Checkers : /\ chk[c].pc = "drop" /\ chk[c].own = id
                               /\ chk[c].call = "connect"]_vars

\* The inductive strengthening of the four properties above: who may hold the
\* lock, which network connecting_id names while a call configures it, and
\* that wifi_is_exist stays raised for the whole of a with_ssid attempt.
SerialInv ==
  /\ OnlyOneConnect /\ LockTracksAttempt /\ ChecksOwnNetwork
  /\ \A a \in Apps :
       /\ At(a, "lock") => ~wifi_connect_lock
       /\ At(a, "lock") \/ Configuring(a)
          => app[a].call \in {"connect", "with_ssid"}
       /\ Configuring(a) /\ app[a].call = "with_ssid" => wifi_is_exist
       /\ \/ app[a].pc \in {"set", "select", "enable"}
          \/ At(a, "disable") /\ app[a].call # "connect"
          => connecting_id = app[a].id
       /\ \A c \in Checkers : ~(Unwinding(a) /\ Live(c))
  /\ \A c \in Checkers :
       Live(c) => /\ chk[c].call \in {"connect", "with_ssid"}
                  /\ chk[c].call = "with_ssid" => wifi_is_exist

=============================================================================
