------------------------------ MODULE BtDevices ------------------------------
(***************************************************************************)
(* The registry of remote devices kept by a2dp_source/a2dp_masterctrl.c,   *)
(* and the device requests of bluez/bt_hal.c.  A request runs in the       *)
(* application's thread, leaves an address in a static buffer and queues   *)
(* an idle callback; the callback runs in the glib main loop and calls     *)
(* bluetoothd, whose reply and whose signals arrive later, in that loop.   *)
(* There is one controller.  The proxies of gdbus/client.c follow the      *)
(* signals of bluetoothd in their order, so a proxy is modelled by what    *)
(* bluetoothd exports.                                                     *)
(***************************************************************************)
EXTENDS Naturals, Sequences, FiniteSets, Functions, Bags

CONSTANTS
  Devices,   \* remote devices, by address
  None,      \* no device
  Requests,  \* the requests the application makes
  MaxWork    \* bound on queued callbacks and pending method calls

ASSUME DevicesAssumption == None \notin Devices /\ MaxWork \in Nat

VARIABLES
  exported,      \* is the Adapter1 proxy known
  dev,           \* the Device1 proxies
  default_ctrl,  \* is there a default controller
  default_dev,
  app_devs,      \* the records of the default controller's devices
  scanning,      \* g_rkbt_content->scanning
  idle,          \* idle callbacks queued for the main loop
  addr,          \* the static address buffers of bt_hal.c
  calls,         \* the bag of method calls bluetoothd has not answered
  thread,        \* rk_bt_connect_by_addr's address while it waits
  asked,         \* the address whose RK_BT_STATE_CONNECT* is waited for
  gone,          \* that device was removed with its call unanswered
  crashed        \* default_ctrl was dereferenced when NULL

bus == <<exported, dev>>
registry == <<default_ctrl, default_dev, app_devs>>
app == <<thread, asked, gone>>
vars == <<bus, registry, scanning, idle, addr, calls, app, crashed>>

Absent == [here |-> FALSE, connected |-> FALSE, paired |-> FALSE]
Present(c, p) == [here |-> TRUE, connected |-> c, paired |-> p]

Callbacks == {"connect", "disconnect", "disconnect_current", "remove",
              "remove_all", "pair", "unpair", "start", "cancel"}
DeviceMethods == {"Connect", "Disconnect", "Pair"}      \* called on Device1
Methods == DeviceMethods \cup {"RemoveDevice", "Discovery"}   \* on Adapter1

\* What the callback of RK_BT_STATE_CONNECT* answers: an event without a
\* device answers whatever is waited for.
Answer(d) == asked' = IF d \in {asked, None} THEN None ELSE asked

\* set_default_device does not replace one device by another.
SetDefault(d) ==
  default_dev' = IF d # None /\ default_dev \notin {None, d}
                 THEN default_dev ELSE d

-----------------------------------------------------------------------------
(* The signals of bluetoothd: proxy_added, proxy_removed, property_changed. *)

\* A pending call keeps no reference to the proxy it was made on.
Orphan(D) ==
  LET hit(c) == c.method \in DeviceMethods /\ c.dev \in D
      now(c) == [c EXCEPT !.live = c.live /\ ~hit(c)]
      was(c) == [c EXCEPT !.live = TRUE]
      copies(c) == IF BagIn(c, calls) THEN calls[c] ELSE 0
  IN  [c \in {now(e) : e \in BagToSet(calls)} |->
         copies(c) + (IF hit(c) THEN copies(was(c)) ELSE 0)]

AwaitsReply(d) == \E c \in BagToSet(calls) : c.method = "Connect" /\ c.dev = d

Forget(D) ==
  /\ dev' = [d \in Devices |-> IF d \in D THEN Absent ELSE dev[d]]
  /\ app_devs' = [d \in Devices |-> IF d \in D THEN Absent ELSE app_devs[d]]
  /\ calls' = Orphan(D)
  /\ gone' = (gone \/ (asked \in D /\ AwaitsReply(asked)))

adapter_added ==
  /\ ~exported
  /\ exported' = TRUE
  /\ default_ctrl' = TRUE
  /\ UNCHANGED <<dev, default_dev, app_devs, scanning, idle, addr,
                 calls, app>>

\* bluetoothd withdraws a controller's devices before the controller.
adapter_removed ==
  /\ exported
  /\ \A d \in Devices : ~dev[d].here
  /\ exported' = FALSE
  /\ default_ctrl' = FALSE
  /\ SetDefault(None)
  /\ UNCHANGED <<dev, app_devs, scanning, idle, addr, calls, app>>

\* device_is_child: the controller the device's Adapter property names.
find_parent == exported

\* The branch of device_added that stores rdev->connected is never taken:
\* default_dev was set just before it is tested again.
device_added(d) ==
  /\ find_parent /\ ~dev[d].here
  /\ \E c, p \in BOOLEAN :
       /\ dev' = [dev EXCEPT ![d] = Present(c, p)]
       /\ app_devs' = [app_devs EXCEPT ![d] = Present(FALSE, p)]
       /\ IF c /\ default_dev = None THEN SetDefault(d) ELSE UNCHANGED default_dev
  /\ UNCHANGED <<exported, default_ctrl, scanning, idle, addr,
                 calls, app>>

\* Mutant: the record of a paired device stays in app_devs.
RemovedKeepsPaired(d) ==
  /\ dev[d].here
  /\ dev' = [dev EXCEPT ![d] = Absent]
  /\ app_devs' = [app_devs EXCEPT ![d] = IF @.paired THEN @ ELSE Absent]
  /\ calls' = Orphan({d})
  /\ gone' = (gone \/ (asked = d /\ AwaitsReply(d)))
  /\ IF default_dev = d THEN SetDefault(None) ELSE UNCHANGED default_dev
  /\ UNCHANGED <<exported, default_ctrl, scanning, idle, addr,
                 thread, asked>>

device_removed(d) ==
  /\ dev[d].here
  /\ Forget({d})
  /\ IF default_dev = d THEN SetDefault(None) ELSE UNCHANGED default_dev
  /\ UNCHANGED <<exported, default_ctrl, scanning, idle, addr,
                 thread, asked>>

\* Mutant: a disconnection leaves default_dev alone.
DisconnectKeepsDefault(d) ==
  /\ dev[d].here
  /\ LET now == ~dev[d].connected IN
       /\ dev' = [dev EXCEPT ![d].connected = now]
       /\ app_devs' = [app_devs EXCEPT ![d].connected = now]
       /\ IF now THEN SetDefault(d) /\ Answer(d) ELSE UNCHANGED <<default_dev, asked>>
  /\ UNCHANGED <<exported, default_ctrl, scanning, idle, addr,
                 calls, thread, gone>>

\* property_changed of Connected, and bt_state_change which it calls.
ConnectedChanged(d) ==
  /\ dev[d].here
  /\ LET now == ~dev[d].connected IN
       /\ dev' = [dev EXCEPT ![d].connected = now]
       /\ app_devs' = [app_devs EXCEPT ![d].connected = now]
       /\ IF now /\ default_dev = None THEN SetDefault(d)
          ELSE IF ~now /\ default_dev = d THEN SetDefault(None)
          ELSE UNCHANGED default_dev
       /\ IF now THEN Answer(d) ELSE UNCHANGED asked
  /\ UNCHANGED <<exported, default_ctrl, scanning, idle, addr,
                 calls, thread, gone>>

PairedChanged(d) ==
  /\ dev[d].here
  /\ dev' = [dev EXCEPT ![d].paired = ~@]
  /\ app_devs' = [app_devs EXCEPT ![d].paired = ~dev[d].paired]
  /\ UNCHANGED <<exported, default_ctrl, default_dev, scanning,
                 idle, addr, calls, app>>

DiscoveringChanged ==
  /\ exported
  /\ \E discovering \in BOOLEAN : scanning' = discovering
  /\ UNCHANGED <<exported, dev, registry, idle, addr, calls, app>>

\* bluetoothd leaves the bus: service_disconnect frees the proxies, the
\* controller's first, and disconnect_handler forgets the controllers.
service_disconnect ==
  /\ exported
  /\ exported' = FALSE
  /\ Forget(Devices)
  /\ default_ctrl' = FALSE
  /\ SetDefault(None)
  /\ UNCHANGED <<scanning, idle, addr, thread, asked>>

Signal ==
  \/ adapter_added \/ adapter_removed \/ DiscoveringChanged \/ service_disconnect
  \/ \E d \in Devices : \/ device_added(d) \/ device_removed(d)
                        \/ ConnectedChanged(d) \/ PairedChanged(d)

-----------------------------------------------------------------------------
(* The application's requests.                                             *)

HasRoom == Len(idle) + BagCardinality(calls) < MaxWork

Queue(c) == idle' = Append(idle, c)

\* The requests that leave an address and queue a callback.
Request(r, d) ==
  /\ r \in Requests \cap {"disconnect", "remove", "pair", "unpair"}
  /\ HasRoom
  /\ addr' = [addr EXCEPT ![r] = d]
  /\ Queue(r)
  /\ UNCHANGED <<bus, registry, scanning, calls, app>>

\* Those without one: a short address, "*", and the discovery requests,
\* which do nothing when scanning says there is nothing to do.
PlainRequest(r) ==
  /\ r \in Requests \cap {"disconnect_current", "remove_all", "start", "cancel"}
  /\ HasRoom
  /\ r = "start" => ~scanning
  /\ r = "cancel" => scanning
  /\ Queue(r)
  /\ UNCHANGED <<bus, registry, scanning, addr, calls, app>>

check_default_ctrl == default_ctrl

\* The calls of method m on, or about, the devices D.
Call(m, D) == calls (+) SetToBag([method : {m}, dev : D, live : {TRUE}])

\* cmd_scan: without a controller nothing is called.
CmdScan == calls' = IF check_default_ctrl THEN Call("Discovery", {None}) ELSE calls

\* rk_bt_connect_by_addr stops a discovery, in the application's thread.
rk_bt_connect_by_addr(d) ==
  /\ "connect" \in Requests
  /\ thread = None /\ asked = None /\ HasRoom
  /\ thread' = d /\ asked' = d
  /\ IF scanning THEN CmdScan ELSE UNCHANGED calls
  /\ UNCHANGED <<bus, registry, scanning, idle, addr, gone>>

\* It polls scanning for ten seconds.
ConnectWaited ==
  /\ thread # None
  /\ thread' = None
  /\ IF scanning THEN Answer(None) /\ UNCHANGED <<addr, idle>>
                 ELSE /\ addr' = [addr EXCEPT !["connect"] = thread]
                      /\ Queue("connect")
                      /\ UNCHANGED asked
  /\ UNCHANGED <<bus, registry, scanning, calls, gone>>

\* The application stops waiting for an answer that cannot come any more.
GiveUp ==
  /\ gone
  /\ gone' = FALSE /\ asked' = None
  /\ UNCHANGED <<bus, registry, scanning, idle, addr, calls, thread>>

\* It copies the proxy's properties into the record before it returns it.
bt_get_dev_info(d) ==
  /\ default_ctrl /\ app_devs[d].here
  /\ app_devs' = [app_devs EXCEPT ![d] = dev[d]]
  /\ UNCHANGED <<bus, default_ctrl, default_dev, scanning, idle, addr, calls, app>>

\* The addresses and the pairing state the application is shown.
bt_get_devices ==
  {<<d, app_devs[d].paired>> : d \in {e \in Devices : default_ctrl /\ app_devs[e].here}}

App ==
  \/ \E d \in Devices : bt_get_dev_info(d)
  \/ \E d \in Devices : rk_bt_connect_by_addr(d) \/ \E r \in Requests : Request(r, d)
  \/ \E r \in Requests : PlainRequest(r)
  \/ ConnectWaited \/ GiveUp

-----------------------------------------------------------------------------
(* The idle callbacks.                                                     *)

find_proxy_by_address(d) == dev[d].here

\* find_device_by_address, for the address now in the buffer.
Found(c) == check_default_ctrl /\ find_proxy_by_address(addr[c])

\* Mutant: an address that is not found is not reported.
NotFoundUnreported ==
  /\ Head(idle) = "connect"
  /\ LET d == addr["connect"] IN
       IF Found("connect") /\ ~dev[d].connected
       THEN calls' = Call("Connect", {d}) /\ UNCHANGED asked
       ELSE /\ IF Found("connect") THEN Answer(None) ELSE UNCHANGED asked
            /\ UNCHANGED calls
  /\ UNCHANGED default_dev

connect_by_address ==
  /\ Head(idle) = "connect"
  /\ LET d == addr["connect"] IN
       IF Found("connect") /\ ~dev[d].connected
       THEN calls' = Call("Connect", {d}) /\ UNCHANGED asked
       ELSE Answer(None) /\ UNCHANGED calls
  /\ UNCHANGED default_dev

bt_disconnect_by_address ==
  /\ Head(idle) = "disconnect"
  /\ LET d == addr["disconnect"] IN
       calls' = IF Found("disconnect") /\ dev[d].connected
                THEN Call("Disconnect", {d}) ELSE calls
  /\ UNCHANGED <<default_dev, asked>>

\* Mutant: default_dev is not tested.
DisconnectUntested ==
  /\ Head(idle) = "disconnect_current"
  /\ calls' = Call("Disconnect", {default_dev})
  /\ UNCHANGED <<default_dev, asked>>

disconnect_current_devices ==
  /\ Head(idle) = "disconnect_current"
  /\ calls' = IF default_dev # None THEN Call("Disconnect", {default_dev}) ELSE calls
  /\ UNCHANGED <<default_dev, asked>>

pair_by_addr ==
  /\ Head(idle) = "pair"
  /\ calls' = IF Found("pair") THEN Call("Pair", {addr["pair"]}) ELSE calls
  /\ UNCHANGED <<default_dev, asked>>

\* _bt_remove_by_address, of one device or of all ("*").
bt_remove_by_address ==
  /\ Head(idle) \in {"remove", "remove_all"}
  /\ calls' = IF Head(idle) = "remove" /\ Found("remove")
              THEN Call("RemoveDevice", {addr["remove"]})
              ELSE IF Head(idle) = "remove_all" /\ default_ctrl
              THEN Call("RemoveDevice", {d \in Devices : dev[d].here})
              ELSE calls
  /\ UNCHANGED <<default_dev, asked>>

unpair_by_addr ==
  /\ Head(idle) = "unpair"
  /\ calls' = IF Found("unpair") THEN Call("RemoveDevice", {addr["unpair"]}) ELSE calls
  /\ UNCHANGED <<default_dev, asked>>

\* reomve_unpaired_device, then cmd_scan.
bt_start_discovery ==
  /\ Head(idle) = "start"
  /\ calls' = IF default_ctrl
              THEN Call("RemoveDevice", {d \in Devices : dev[d] = Present(FALSE, FALSE)})
                   (+) SetToBag([method : {"Discovery"}, dev : {None}, live : {TRUE}])
              ELSE calls
  /\ UNCHANGED <<default_dev, asked>>

bt_cancel_discovery ==
  /\ Head(idle) = "cancel"
  /\ CmdScan
  /\ UNCHANGED <<default_dev, asked>>

\* The main loop runs the oldest idle callback.  A buffer is forgotten when no
\* queued callback will read it.
Dispatch ==
  /\ idle # <<>>
  /\ \/ connect_by_address \/ bt_disconnect_by_address \/ disconnect_current_devices
     \/ pair_by_addr \/ bt_remove_by_address \/ unpair_by_addr
     \/ bt_start_discovery \/ bt_cancel_discovery
  /\ idle' = Tail(idle)
  /\ addr' = [c \in Callbacks |-> IF c \in Range(Tail(idle)) THEN addr[c] ELSE None]
  /\ UNCHANGED <<bus, default_ctrl, app_devs, scanning, thread, gone, crashed>>

-----------------------------------------------------------------------------
(* The replies of bluetoothd, in any order.  It reports a connection before *)
(* it answers Connect.                                                      *)

\* bt_state_change on behalf of a failed call: the record is looked up by the
\* proxy, in the controller that was the default when the call was made.
Failed(c) ==
  /\ crashed' = (c.method \in DeviceMethods /\ ~default_ctrl)
  /\ IF c.method = "Connect" /\ default_ctrl /\ c.live THEN Answer(c.dev) ELSE UNCHANGED asked
  /\ UNCHANGED default_dev

Succeeded(c) ==
  /\ c.live
  /\ c.method = "Connect" => dev[c.dev].connected
  /\ \/ c.method = "Connect" /\ SetDefault(c.dev)
     \/ c.method = "Disconnect" /\ c.dev = default_dev /\ SetDefault(None)
     \/ /\ c.method # "Connect"
        /\ c.method = "Disconnect" => c.dev # default_dev
        /\ UNCHANGED default_dev
  /\ UNCHANGED <<asked, crashed>>

Reply(c) ==
  /\ Succeeded(c) \/ Failed(c)
  /\ calls' = calls (-) SetToBag({c})
  /\ UNCHANGED <<bus, default_ctrl, app_devs, scanning, idle, addr, thread, gone>>

-----------------------------------------------------------------------------

Init ==
  /\ exported = FALSE /\ scanning = FALSE
  /\ dev = [d \in Devices |-> Absent] /\ app_devs = dev
  /\ default_ctrl = FALSE /\ default_dev = None
  /\ idle = <<>> /\ calls = EmptyBag
  /\ addr = [c \in Callbacks |-> None]
  /\ thread = None /\ asked = None /\ gone = FALSE
  /\ crashed = FALSE

\* A process that dereferenced NULL takes no further step.
Next ==
  \/ ~crashed /\ (Signal \/ App) /\ UNCHANGED crashed
  \/ ~crashed /\ Dispatch
  \/ ~crashed /\ \E c \in BagToSet(calls) : Reply(c)
  \/ crashed /\ UNCHANGED vars

Spec == Init /\ [][Next]_vars

-----------------------------------------------------------------------------
(* Properties.                                                             *)

Record == [here : BOOLEAN, connected : BOOLEAN, paired : BOOLEAN]

\* The variables keep their types, and a device's method is called on a device
\* (disconnect_by_proxy, connect_by_address, cmd_pair, remove_device).
TypeOK ==
  /\ exported \in BOOLEAN /\ scanning \in BOOLEAN
  /\ dev \in [Devices -> Record] /\ app_devs \in [Devices -> Record]
  /\ default_ctrl \in BOOLEAN /\ default_dev \in Devices \cup {None}
  /\ idle \in Seq(Callbacks)
  /\ addr \in [Callbacks -> Devices \cup {None}]
  /\ IsABag(calls)
  /\ BagToSet(calls) \subseteq [method : Methods, dev : Devices \cup {None}, live : BOOLEAN]
  /\ \A c \in BagToSet(calls) :
       c.dev = None => c.method = "Discovery"
  /\ {thread, asked} \subseteq Devices \cup {None}
  /\ gone \in BOOLEAN /\ crashed \in BOOLEAN

\* The list bt_get_devices returns is the one bluetoothd exports, with the
\* pairing state of each device, and no record shows a device as connected that
\* is not (device_added, device_removed, bt_state_change, adapter_removed).
RegistryCurrent ==
  /\ bt_get_devices = {<<d, dev[d].paired>> : d \in {e \in Devices : dev[e].here}}
  /\ \A d \in Devices : app_devs[d].connected => dev[d].connected

\* default_dev, which disconnect_current_devices and the AVRCP commands use
\* without looking it up, is a live proxy of a connected device
\* (set_default_device and its callers).
DefaultConnected == default_dev # None => dev[default_dev].connected

\* A rk_bt_connect_by_addr whose RK_BT_STATE_CONNECT* has not come is never
\* dropped: its thread still waits, or its callback is queued with its own
\* address in con_addr, or bluetoothd owes the reply of a live proxy.  The one
\* exception is a device that went away while the reply was due
\* (rk_bt_connect_by_addr, connect_by_address, connect_by_address_reply).
ConnectNotDropped ==
  asked # None =>
    \/ crashed \/ gone
    \/ thread = asked
    \/ "connect" \in Range(idle) /\ addr["connect"] = asked
    \/ [method |-> "Connect", dev |-> asked, live |-> TRUE] \in BagToSet(calls)

====
