---------------------------- MODULE LePeripheral ----------------------------
(***************************************************************************)
(* The LE peripheral: the advertisement object (a2dp_source/advertising.c) *)
(* and the GATT server (gatt_config.c), as the main loop runs them between *)
(* the application, which queues idle callbacks (bt_hal.c), and bluetoothd,*)
(* which takes calls, answers them and may lose its controller or exit.    *)
(* Both directions of the bus keep their order.  When Bluetooth is closed  *)
(* the vendor callback of the application ends bluetoothd, as the one of   *)
(* test/bt_test.c does.                                                    *)
(***************************************************************************)
EXTENDS Naturals, Sequences, Functions

CONSTANTS
  Uuids,    \* characteristics the application may name
  Chrs,     \* those its GATT table has
  Data,     \* notified values
  Names,    \* names an application may advertise, for all it may advertise
  None,
  MaxIdle,   \* bound on the idle callbacks waiting
  MaxTraffic \* bound on the messages between the library and bluetoothd

ASSUME PeripheralAssumption ==
  Chrs \subseteq Uuids /\ None \notin Data \cup Uuids \cup Names /\ {MaxIdle, MaxTraffic} \subseteq Nat

VARIABLES
  opened,      \* between bluetooth_open and _bluetooth_close
  ble_name,    \* the name given to rk_bt_init, None if none was
  local_name,  \* ad.local_name
  ad_proxy,    \* does the client know the advertising manager
  exported,    \* is the advertisement object on the bus
  registered,  \* ad.registered
  ctrl,        \* does bluetoothd have a controller
  advertising, \* does bluetoothd advertise the object
  on_air,      \* the name it advertises
  gatt_app,    \* the GATT table at bluetoothd: none, served or refused
  calls,       \* calls on their way to bluetoothd
  inbox,       \* messages of bluetoothd the main loop has not read
  idle,        \* idle callbacks, oldest first
  ble_cfg,     \* the one notification buffer
  notifying,   \* characteristics with notifications on
  sent,        \* the last value of a characteristic announced on the bus
  echoed,      \* was that a value the remote device itself had written
  abandoned    \* did the last lost manager leave a registration to a later one

ad == <<ad_proxy, exported, registered>>
content == <<ble_name, local_name>>
air == <<advertising, on_air>>
bluetoothd == <<ctrl, air, gatt_app, calls>>
gatt == <<ble_cfg, notifying, sent, echoed>>
vars == <<opened, content, ad, bluetoothd, inbox, idle, gatt, abandoned>>

Config == [uuid : Uuids, data : Data]
Replies == {"registered", "register failed", "unregistered", "unregister failed"}

\* What the bus answers for the calls a lost manager leaves behind.  An answer
\* about the GATT table is only logged.
Errors(s) ==
  [i \in DOMAIN s |-> CASE s[i] = "register" -> "register failed"
                       [] s[i] = "unregister" -> "unregister failed"
                       [] OTHER -> "ignored"]

HasRoom == Len(calls) + Len(inbox) < MaxTraffic

Init ==
  /\ opened = FALSE /\ ble_name = None /\ local_name = None
  /\ ad_proxy = FALSE /\ exported = FALSE /\ registered = FALSE
  /\ ctrl = FALSE /\ advertising = FALSE /\ on_air = None /\ gatt_app = "none"
  /\ calls = << >> /\ inbox = << >>
  /\ idle = << >> /\ ble_cfg = None /\ notifying = {} /\ sent = None
  /\ echoed = FALSE /\ abandoned = FALSE

-----------------------------------------------------------------------------
(* bluetoothd.                                                             *)

\* What the property getters of the advertisement object return.
ad_properties == local_name

\* RegisterAdvertisement reads the object back and may refuse it.
TakeRegister ==
  /\ calls # << >> /\ Head(calls) = "register"
  /\ calls' = Tail(calls)
  /\ \/ /\ ctrl /\ exported /\ ~advertising
        /\ advertising' = TRUE /\ on_air' = ad_properties
        /\ inbox' = Append(inbox, "registered")
     \/ inbox' = Append(inbox, "register failed") /\ UNCHANGED <<advertising, on_air>>
  /\ UNCHANGED <<opened, content, ad, ctrl, gatt_app, idle, gatt, abandoned>>

TakeUnregister ==
  /\ calls # << >> /\ Head(calls) = "unregister"
  /\ calls' = Tail(calls)
  /\ advertising' = FALSE
  /\ inbox' = Append(inbox, IF advertising THEN "unregistered" ELSE "unregister failed")
  /\ UNCHANGED <<opened, content, ad, ctrl, on_air, gatt_app, idle, gatt, abandoned>>

\* RegisterApplication reads the whole table and may refuse it.
TakeRegisterApp ==
  /\ calls # << >> /\ Head(calls) = "register app"
  /\ calls' = Tail(calls)
  /\ IF ctrl /\ gatt_app # "served" THEN gatt_app' \in {"served", "refused"}
                                   ELSE UNCHANGED gatt_app
  /\ UNCHANGED <<opened, content, ad, ctrl, air, inbox, idle, gatt, abandoned>>

TakeUnregisterApp ==
  /\ calls # << >> /\ Head(calls) = "unregister app"
  /\ calls' = Tail(calls)
  /\ gatt_app' = "none"
  /\ UNCHANGED <<opened, content, ad, ctrl, air, inbox, idle, gatt, abandoned>>

\* bluetoothd ends the advertisement by itself and calls Release.
DropAdvertisement ==
  /\ advertising /\ HasRoom
  /\ advertising' = FALSE
  /\ inbox' = Append(inbox, "release")
  /\ UNCHANGED <<opened, content, ad, ctrl, on_air, gatt_app, calls, idle, gatt, abandoned>>

ControllerLost ==
  /\ ctrl /\ HasRoom
  /\ ctrl' = FALSE /\ advertising' = FALSE /\ gatt_app' = "none" /\ calls' = << >>
  /\ inbox' = Append(inbox, "manager removed") \o Errors(calls)
  /\ UNCHANGED <<opened, content, ad, on_air, idle, gatt, abandoned>>

ControllerFound ==
  /\ opened /\ ~ctrl /\ HasRoom
  /\ ctrl' = TRUE
  /\ inbox' = Append(inbox, "manager added")
  /\ UNCHANGED <<opened, content, ad, air, gatt_app, calls, idle, gatt, abandoned>>

-----------------------------------------------------------------------------
(* Messages of bluetoothd, as the main loop reads them.                     *)

ad_release == registered' = FALSE /\ exported' = FALSE

\* Mutant: a refused object stays on the bus.
RefusedStaysExported(m) ==
  \/ m = "registered" /\ registered' = TRUE /\ UNCHANGED <<ad_proxy, exported>>
  \/ m = "register failed" /\ UNCHANGED ad

register_reply(m) ==
  \/ m = "registered" /\ registered' = TRUE /\ UNCHANGED <<ad_proxy, exported>>
  \/ m = "register failed" /\ exported' = FALSE /\ UNCHANGED <<ad_proxy, registered>>

unregister_reply(m) ==
  \/ m = "unregistered" /\ ad_release /\ UNCHANGED ad_proxy
  \/ m = "unregister failed" /\ UNCHANGED ad

\* A Release that finds no object is refused by the bus.
release_advertising(m) ==
  /\ m = "release"
  /\ IF exported THEN ad_release ELSE UNCHANGED <<exported, registered>>
  /\ UNCHANGED ad_proxy

\* A message that changes nothing here.
Ignore(m) == m = "ignored" /\ UNCHANGED ad

\* A registration sent on the former manager will be answered by the next one.
AnsweredLate ==
  \/ "register" \in Range(calls)
  \/ \E i, j \in DOMAIN inbox : /\ i < j /\ inbox[i] = "manager added"
                              /\ inbox[j] \in {"registered", "register failed"}

\* Mutant: nothing is sent while another call is under way.
RegisterWhenQuiet == calls' = IF calls = << >> THEN <<"register app">> ELSE calls

register_app == calls' = Append(calls, "register app")

\* Sent although the manager is gone; the next one may be there to take it.
unregister_app == calls' = Append(calls, "unregister app")

\* proxy_added and proxy_removed of LEAdvertisingManager1 and GattManager1,
\* with their controller.
ManagerChanged(m) ==
  \/ /\ m = "manager added"
     /\ ad_proxy' = TRUE /\ register_app
     /\ UNCHANGED <<exported, registered, abandoned>>
  \/ /\ m = "manager removed"
     /\ ad_proxy' = FALSE /\ ad_release /\ unregister_app
     /\ abandoned' = AnsweredLate

Read ==
  /\ opened /\ inbox # << >>
  /\ LET m == Head(inbox) IN
       \/ ManagerChanged(m)
       \/ /\ register_reply(m) \/ unregister_reply(m) \/ release_advertising(m) \/ Ignore(m)
          /\ UNCHANGED <<calls, abandoned>>
  /\ inbox' = Tail(inbox)
  /\ UNCHANGED <<opened, content, ctrl, air, gatt_app, idle, gatt>>

-----------------------------------------------------------------------------
(* The remote device, through bluetoothd.                                   *)

\* A new value is announced whoever wrote it, and then notified.
chr_write(cfg) == sent' = cfg

chr_write_value(cfg) ==
  /\ opened /\ cfg.uuid \in Chrs
  /\ chr_write(cfg) /\ echoed' = TRUE
  /\ UNCHANGED <<opened, content, ad, bluetoothd, inbox, idle, ble_cfg, notifying, abandoned>>

chrc_start_notify(c) ==
  /\ opened /\ c \notin notifying
  /\ notifying' = notifying \cup {c}
  /\ UNCHANGED <<opened, content, ad, bluetoothd, inbox, idle, ble_cfg, sent, echoed, abandoned>>

chrc_stop_notify(c) ==
  /\ opened /\ c \in notifying
  /\ notifying' = notifying \ {c}
  /\ UNCHANGED <<opened, content, ad, bluetoothd, inbox, idle, ble_cfg, sent, echoed, abandoned>>

-----------------------------------------------------------------------------
(* The application.                                                         *)

\* rk_ble_adv_start and rk_ble_adv_stop; only the first needs Bluetooth open.
Advertise(r) ==
  /\ r = "start" => opened
  /\ Len(idle) < MaxIdle
  /\ idle' = Append(idle, r)
  /\ UNCHANGED <<opened, content, ad, bluetoothd, inbox, gatt, abandoned>>

rk_ble_send_notify(cfg) ==
  /\ Len(idle) < MaxIdle
  /\ ble_cfg' = cfg
  /\ idle' = Append(idle, "notify")
  /\ UNCHANGED <<opened, content, ad, bluetoothd, inbox, notifying, sent, echoed, abandoned>>

-----------------------------------------------------------------------------
(* Idle callbacks; after _bluetooth_close they still run, or run when the   *)
(* main loop runs again.                                                    *)

\* ad_register, from ble_enable_adv.
ad_register ==
  /\ Head(idle) = "start" /\ HasRoom
  /\ IF ad_proxy /\ ~registered /\ ~exported
     THEN exported' = TRUE /\ calls' = Append(calls, "register")
     ELSE UNCHANGED <<exported, calls>>
  /\ idle' = Tail(idle)
  /\ UNCHANGED <<ad_proxy, registered, gatt>>

\* ad_unregister, from ble_disable_adv.
ad_unregister ==
  /\ Head(idle) = "stop" /\ HasRoom
  /\ calls' = IF ad_proxy /\ registered THEN Append(calls, "unregister") ELSE calls
  /\ idle' = Tail(idle)
  /\ UNCHANGED <<ad, gatt>>

\* Mutant: a notification that finds no GATT table is dropped.
ClosedDropsNotify ==
  /\ Head(idle) = "notify"
  /\ IF opened /\ ble_cfg.uuid \in Chrs THEN chr_write(ble_cfg) /\ echoed' = FALSE
                                       ELSE UNCHANGED <<sent, echoed>>
  /\ idle' = Tail(idle)
  /\ UNCHANGED <<ad, calls, ble_cfg, notifying>>

\* An unknown uuid returns -1, which keeps the idle source: it runs again.
gatt_write_data ==
  /\ Head(idle) = "notify"
  /\ IF opened /\ ble_cfg.uuid \in Chrs
     THEN chr_write(ble_cfg) /\ echoed' = FALSE /\ idle' = Tail(idle)
     ELSE idle' = Append(Tail(idle), Head(idle)) /\ UNCHANGED <<sent, echoed>>
  /\ UNCHANGED <<ad, calls, ble_cfg, notifying>>

Dispatch ==
  /\ idle # << >>
  /\ ad_register \/ ad_unregister \/ gatt_write_data
  /\ UNCHANGED <<opened, content, ctrl, air, gatt_app, inbox, abandoned>>

-----------------------------------------------------------------------------
(* bluetooth_open runs gatt_init; _bluetooth_close drops every proxy, runs  *)
(* gatt_cleanup, and the vendor callback then ends bluetoothd.              *)

\* Mutant: the name of an earlier session is kept.
KeepFirstName(n) == local_name' = IF local_name = None THEN n ELSE local_name

\* What the application leaves out keeps the value of the session before.
iBle_init_adv(n) == local_name' = IF n # None THEN n ELSE local_name

bluetooth_open(n) ==
  /\ ~opened
  /\ opened' = TRUE
  /\ ble_name' = n /\ iBle_init_adv(n)
  /\ UNCHANGED <<ad, bluetoothd, inbox, idle, gatt, abandoned>>

\* Mutant: the characteristics outlive the session.
CleanupKeepsNotifying == UNCHANGED notifying

\* The watches of the client are gone; the replies to its calls are still read.
RemoveWatches(s) == [i \in DOMAIN s |-> IF s[i] \in Replies THEN s[i] ELSE "ignored"]

\* The characteristics are freed.
gatt_cleanup == notifying' = {}

bluetooth_close ==
  /\ opened
  /\ opened' = FALSE
  /\ ad_proxy' = FALSE /\ ad_release
  /\ ctrl' = FALSE /\ advertising' = FALSE /\ gatt_app' = "none" /\ calls' = << >>
  /\ inbox' = RemoveWatches(inbox) \o Errors(calls)
  /\ gatt_cleanup
  /\ abandoned' = ("registered" \in Range(inbox))
  /\ UNCHANGED <<content, on_air, idle, ble_cfg, sent, echoed>>

Next ==
  \/ TakeRegister \/ TakeUnregister \/ TakeRegisterApp \/ TakeUnregisterApp
  \/ DropAdvertisement \/ ControllerLost \/ ControllerFound
  \/ Read \/ Dispatch \/ bluetooth_close
  \/ \E n \in Names \cup {None} : bluetooth_open(n)
  \/ \E c \in Chrs : chrc_start_notify(c) \/ chrc_stop_notify(c)
  \/ \E r \in {"start", "stop"} : Advertise(r)
  \/ \E cfg \in Config : rk_ble_send_notify(cfg) \/ chr_write_value(cfg)

Spec == Init /\ [][Next]_vars

-----------------------------------------------------------------------------
(* Every variable has its type, and notifications are only on for the       *)
(* characteristics of an open GATT table.                                   *)
TypeOK ==
  /\ {opened, ad_proxy, exported, registered, ctrl, advertising} \subseteq BOOLEAN
  /\ {ble_name, local_name, on_air} \subseteq Names \cup {None}
  /\ calls \in Seq({"register", "unregister", "register app", "unregister app"})
  /\ gatt_app \in {"none", "served", "refused"}
  /\ inbox \in Seq(Replies \cup {"release", "manager added", "manager removed", "ignored"})
  /\ idle \in Seq({"start", "stop", "notify"})
  /\ ble_cfg \in Config \cup {None} /\ sent \in Config \cup {None}
  /\ {echoed, abandoned} \subseteq BOOLEAN
  /\ notifying \subseteq Chrs /\ (notifying # {} => opened)

Pending(call, reply) == call \in Range(calls) \/ Range(inbox) \cap reply # {}

(* The advertisement object is never left on the bus with nobody to take it *)
(* off again: while it is exported it is registered, or the answer to       *)
(* RegisterAdvertisement is still to come (register_reply, ad_release).  An *)
(* object left behind would make every later ad_register fail.  The one     *)
(* exception: the manager was lost, or Bluetooth closed, on a registration  *)
(* whose answer is read when the next manager is there; register_reply then *)
(* takes it for the answer to a new registration.                           *)
ExportTracked ==
  ~abandoned =>
    /\ exported => registered \/ Pending("register", {"registered", "register failed"})
    /\ registered => exported

(* Once no call or message is under way, bluetoothd holds what the library  *)
(* believes it holds, whatever order starts, stops, Release calls,          *)
(* controller losses and restarts came in: ad.registered says whether it    *)
(* advertises, and a controller that is there has taken the GATT table or   *)
(* refused it.  In particular no UnregisterApplication sent for a lost      *)
(* controller undoes the registration at the next one.                      *)
AgreedWhenQuiet ==
  opened /\ calls = << >> /\ inbox = << >> =>
    /\ ~abandoned => registered = advertising
    /\ ctrl => gatt_app # "none"

(* Whatever was advertised in earlier sessions, what the application gave   *)
(* to this session's rk_bt_init is what bluetoothd advertises               *)
(* (iBle_init_adv).  What it did not give is not promised: ad keeps it.     *)
AdvertisesContent == advertising /\ ble_name # None => on_air = ble_name

(* When no notification waits and the last one the application asked for    *)
(* names a characteristic it has, that one was the last to leave, although  *)
(* all share ble_cfg and Bluetooth may have been closed and opened since.   *)
(* Only a value the remote device wrote can have been announced after it.   *)
LastNotifyWins ==
  "notify" \notin Range(idle) /\ ble_cfg # None /\ ble_cfg.uuid \in Chrs
    => sent = ble_cfg \/ echoed
====
