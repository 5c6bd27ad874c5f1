-------------------------------- MODULE Sink --------------------------------
(***************************************************************************)
(* Media players and transports of remote devices: bluez/avrcpctrl.c and   *)
(* bt_media_state_change of a2dp_source/a2dp_masterctrl.c, composed with   *)
(* the device registry they report through.  bluetoothd exports a player   *)
(* and a transport below a connected device and withdraws them before it.  *)
(* The application sends its commands from a thread of its own.            *)
(***************************************************************************)
EXTENDS Naturals, Bags

CONSTANTS
  Devices, None, Requests, MaxWork,   \* as in BtDevices
  Configs,  \* SBC configurations, those of four bytes
  Other,    \* any other codec's
  Reported, \* the values of Status that are reported
  Status    \* all of them

ASSUME SinkAssumption ==
  /\ {None, Other} \cap (Devices \cup Configs \cup Status) = {} /\ Reported \subseteq Status
  /\ MaxWork \in Nat

VARIABLES
  exported, dev, default_ctrl, default_dev, app_devs, scanning, idle, addr,
  calls, thread, asked, gone, crashed,   \* of BtDevices
  player,             \* the Status of a device's exported player
  transport,          \* the Configuration of its exported transport
  default_player,     \* the device of that player
  default_transport,  \* the device of that transport, kept when it is gone
  transport_media,    \* the Configuration in the one RkBtMedia of avrcpctrl.c
  media,              \* that in the record of each device
  cmd,                \* the proxy a command of the application is about to use
  streams,            \* history: devices whose last event was SRC_ADD or SINK_ADD
  status,             \* history: the Status told since a device's player came
  latest              \* history: the device whose SBC transport came last

Devs == INSTANCE BtDevices

registry == <<exported, dev, default_ctrl, default_dev, app_devs, scanning, idle, addr,
              calls, thread, asked, gone>>
bus == <<player, transport>>
defaults == <<default_player, default_transport>>
records == <<transport_media, media>>
history == <<streams, status, latest>>
vars == <<registry, crashed, bus, defaults, records, cmd, history>>

\* bt_media_state_change finds the device's record, or drops the event.
Heard(d) == default_ctrl /\ app_devs[d].here

-----------------------------------------------------------------------------
(* a2dp_sink_proxy_added, a2dp_sink_proxy_removed and                       *)
(* a2dp_sink_property_changed, in the main loop.                            *)

\* The Status the player comes with is not told.
player_added(d) ==
  /\ dev[d].connected /\ player[d] = None
  /\ \E s \in Status : player' = [player EXCEPT ![d] = s]
  /\ default_player' = d
  /\ status' = [status EXCEPT ![d] = None]
  /\ UNCHANGED <<transport, default_transport, records, streams, latest>>

\* Mutant: default_player is left alone.
PlayerKept(d) ==
  /\ player[d] # None
  /\ player' = [player EXCEPT ![d] = None]
  /\ UNCHANGED <<transport, defaults, records, history>>

\* Another player that may be there is not taken up.
player_removed(d) ==
  /\ player[d] # None
  /\ player' = [player EXCEPT ![d] = None]
  /\ default_player' = IF default_player = d THEN None ELSE default_player
  /\ UNCHANGED <<transport, default_transport, records, history>>

\* Seeking is not reported.
player_property_changed(d, s) ==
  /\ player[d] \notin {None, s}
  /\ player' = [player EXCEPT ![d] = s]
  /\ status' = IF s \in Reported /\ Heard(d) THEN [status EXCEPT ![d] = s] ELSE status
  /\ UNCHANGED <<transport, defaults, records, streams, latest>>

\* Mutant: the length of the Configuration is not looked at.
AnyCodec(d, c) ==
  /\ dev[d].connected /\ transport[d] = None
  /\ transport' = [transport EXCEPT ![d] = c]
  /\ default_transport' = d /\ latest' = d
  /\ transport_media' = c
  /\ media' = [media EXCEPT ![d] = c] /\ streams' = streams \cup {d}
  /\ UNCHANGED <<player, default_player, status>>

\* Mutant: the event is sent before transport_media is filled in.
TellsEarly(d, c) ==
  /\ dev[d].connected /\ transport[d] = None
  /\ transport' = [transport EXCEPT ![d] = c]
  /\ default_transport' = d
  /\ IF c \in Configs /\ Heard(d)
     THEN /\ transport_media' = c /\ latest' = d
          /\ media' = [media EXCEPT ![d] = transport_media] /\ streams' = streams \cup {d}
     ELSE UNCHANGED <<records, latest, streams>>
  /\ UNCHANGED <<player, default_player, status>>

\* Only SBC is supported: another codec is not reported when it is added.
transport_added(d, c) ==
  /\ dev[d].connected /\ transport[d] = None
  /\ transport' = [transport EXCEPT ![d] = c]
  /\ default_transport' = d
  /\ IF c \in Configs
     THEN /\ transport_media' = c /\ latest' = d
          /\ IF Heard(d) THEN media' = [media EXCEPT ![d] = c] /\ streams' = streams \cup {d}
                         ELSE UNCHANGED <<media, streams>>
     ELSE UNCHANGED <<records, latest, streams>>
  /\ UNCHANGED <<player, default_player, status>>

\* default_transport is not looked at.
transport_removed(d) ==
  /\ transport[d] # None
  /\ transport' = [transport EXCEPT ![d] = None]
  /\ IF Heard(d) THEN /\ media' = [media EXCEPT ![d] = transport_media]
                      /\ streams' = streams \ {d}
                 ELSE UNCHANGED <<media, streams>>
  /\ UNCHANGED <<player, defaults, transport_media, status, latest>>

\* State and Volume: the record gets the whole of transport_media.
transport_property_changed(d) ==
  /\ transport[d] # None /\ Heard(d)
  /\ media' = [media EXCEPT ![d] = transport_media]
  /\ UNCHANGED <<bus, defaults, transport_media, history>>

a2dp_sink_proxy_added(d) ==
  player_added(d) \/ \E c \in Configs \cup {Other} : transport_added(d, c)

a2dp_sink_proxy_removed(d) == player_removed(d) \/ transport_removed(d)

a2dp_sink_property_changed(d) ==
  transport_property_changed(d) \/ \E s \in Status : player_property_changed(d, s)

MediaSignal ==
  /\ \E d \in Devices : \/ a2dp_sink_proxy_added(d) \/ a2dp_sink_proxy_removed(d)
                         \/ a2dp_sink_property_changed(d)
  /\ UNCHANGED <<registry, crashed, cmd>>

-----------------------------------------------------------------------------
(* The registry below them.                                                 *)

\* A record is made with its device and freed with it.  Whether the device is
\* paired makes no difference here.
DeviceSignal ==
  /\ \/ (Devs!adapter_added \/ Devs!adapter_removed) /\ UNCHANGED media
     \/ \E d \in Devices :
          \/ Devs!ConnectedChanged(d) /\ UNCHANGED media
          \/ /\ \/ Devs!device_added(d) /\ ~dev'[d].paired
                \/ player[d] = None /\ transport[d] = None /\ Devs!device_removed(d)
             /\ media' = [media EXCEPT ![d] = None]
  /\ UNCHANGED <<bus, defaults, transport_media, cmd, history>>

\* bluetoothd leaves: its proxies go, the controller's first, so that no
\* transport's removal is told.
service_disconnect ==
  /\ Devs!service_disconnect
  /\ player' = [d \in Devices |-> None] /\ transport' = player' /\ media' = player'
  /\ default_player' = None
  /\ streams' = {}
  /\ UNCHANGED <<default_transport, transport_media, cmd, status, latest>>

-----------------------------------------------------------------------------
(* The application's thread, beside the main loop.  What a proxy that was  *)
(* freed under it does is undefined: the call fails or the process ends.   *)

\* check_default_player, and the second reading of default_player, in
\* play_avrcp, pause_avrcp, stop_avrcp, next_avrcp and previous_avrcp.
Command ==
  /\ cmd = None /\ default_player # None
  /\ cmd' = default_player
  /\ UNCHANGED <<registry, crashed, bus, defaults, records, history>>

\* g_dbus_proxy_method_call, g_dbus_proxy_set_property_basic.
Use(proxy) ==
  /\ crashed' \in IF proxy = None THEN BOOLEAN ELSE {FALSE}
  /\ UNCHANGED <<registry, bus, defaults, records, history>>

\* The call is made; getstatus_avrcp reads the Status in the same two steps.
UsePlayer ==
  /\ cmd # None
  /\ Use(player[cmd])
  /\ cmd' = None

transport_set_volume ==
  /\ default_transport # None
  /\ Use(transport[default_transport])
  /\ UNCHANGED cmd

-----------------------------------------------------------------------------
Init ==
  /\ Devs!Init
  /\ player = [d \in Devices |-> None] /\ transport = player
  /\ default_player = None /\ default_transport = None
  /\ transport_media = None /\ media = player
  /\ cmd = None
  /\ streams = {} /\ status = player /\ latest = None

Next ==
  \/ ~crashed /\ MediaSignal
  \/ ~crashed /\ (DeviceSignal \/ service_disconnect) /\ UNCHANGED crashed
  \/ ~crashed /\ (Command \/ UsePlayer \/ transport_set_volume)
  \/ crashed /\ UNCHANGED vars

Spec == Init /\ [][Next]_vars

-----------------------------------------------------------------------------
\* The variables keep their types, and only a device that has a record has
\* media in it (device_removed, service_disconnect).
TypeOK ==
  /\ player \in [Devices -> Status \cup {None}]
  /\ transport \in [Devices -> Configs \cup {Other, None}]
  /\ {default_player, default_transport, cmd, latest} \subseteq Devices \cup {None}
  /\ media \in [Devices -> Configs \cup {None}]
  /\ transport_media \in Configs \cup {None}
  /\ status \in [Devices -> Reported \cup {None}]
  /\ \A d \in Devices : ~app_devs[d].here => media[d] = None

\* An application that follows RK_BT_STATE_SRC_* and RK_BT_STATE_SINK_* knows,
\* while bluetoothd lives, which devices stream SBC to or from it, whatever
\* order devices, transports and other codecs come and go in.  The record of
\* the device configured last holds that configuration, although the State and
\* the Volume of every device pass through the one transport_media.
MediaFollowed ==
  /\ streams = {d \in Devices : transport[d] \in Configs}
  /\ latest \in streams => media[latest] = transport[latest]

\* The player that play, pause and rk_bt_sink_get_state turn to is one that is
\* there, and what the application was last told of a player is its Status,
\* once it was told anything (player_added, player_removed,
\* player_property_changed).
PlayerFollowed ==
  /\ default_player # None => player[default_player] # None
  /\ \A d \in Devices :
       player[d] \in Reported /\ status[d] # None => status[d] = player[d]
====
