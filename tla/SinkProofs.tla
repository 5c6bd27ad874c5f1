----------------------------- MODULE SinkProofs -----------------------------
(***************************************************************************)
(* MediaFollowed and PlayerFollowed of Sink, for any devices, SBC          *)
(* configurations and Status values; and that Sink, seen through its       *)
(* registry, implements BtDevices.                                         *)
(***************************************************************************)
EXTENDS Sink, TLAPS

Record == [here : BOOLEAN, connected : BOOLEAN, paired : BOOLEAN]

Types ==
  /\ exported \in BOOLEAN /\ default_ctrl \in BOOLEAN
  /\ dev \in [Devices -> Record] /\ app_devs \in [Devices -> Record]
  /\ player \in [Devices -> Status \cup {None}]
  /\ transport \in [Devices -> Configs \cup {Other, None}]
  /\ transport_media \in Configs \cup {None}
  /\ media \in [Devices -> Configs \cup {None}]
  /\ status \in [Devices -> Reported \cup {None}]
  /\ default_player \in Devices \cup {None} /\ default_transport \in Devices \cup {None}
  /\ latest \in Devices \cup {None} /\ cmd \in Devices \cup {None}
  /\ streams \subseteq Devices

(* Every device bluetoothd exports has a record at a controller, and what   *)
(* has a player or a transport is exported: no event of theirs is dropped.  *)
Nested ==
  /\ default_ctrl = exported
  /\ \A d \in Devices :
       /\ app_devs[d].here = dev[d].here
       /\ dev[d].connected => dev[d].here
       /\ dev[d].here => exported
       /\ player[d] # None \/ transport[d] # None => dev[d].here
       /\ ~dev[d].here => media[d] = None

(* The shared record holds the configuration of the stream that came last.  *)
Shared == latest \in streams => transport_media = transport[latest]

IInv == Types /\ Nested /\ Shared /\ MediaFollowed /\ PlayerFollowed

(* Players.                                                                 *)
LEMMA PlayerStep ==
  ASSUME IInv, NEW d \in Devices, UNCHANGED <<registry, crashed, cmd>>,
         \/ player_added(d) \/ player_removed(d)
         \/ \E s \in Status : player_property_changed(d, s)
  PROVE  IInv'
<1> USE SinkAssumption DEF IInv, registry, bus, defaults, records, history
<1>1. UNCHANGED <<transport, records, streams, latest, default_transport>>
  BY DEF player_added, player_removed, player_property_changed
<1>2. dev[d].here /\ Heard(d) /\ (player[d] # None \/ dev[d].connected)
  BY DEF Types, Nested, Heard, player_added, player_removed, player_property_changed
<1>3. CASE player_added(d)
  <2>1. PICK s \in Status : player' = [player EXCEPT ![d] = s] BY <1>3 DEF player_added
  <2>2. default_player' = d /\ status' = [status EXCEPT ![d] = None]
    BY <1>3 DEF player_added
  <2>3. Types' BY <1>1, <2>1, <2>2 DEF Types
  <2>4. Nested' BY <1>1, <1>2, <2>1 DEF Types, Nested
  <2>5. PlayerFollowed' BY <2>1, <2>2 DEF Types, PlayerFollowed
  <2> QED BY <1>1, <2>3, <2>4, <2>5 DEF Shared, MediaFollowed
<1>4. CASE player_removed(d)
  <2>1. /\ player' = [player EXCEPT ![d] = None] /\ UNCHANGED status
        /\ default_player' = IF default_player = d THEN None ELSE default_player
    BY <1>4 DEF player_removed
  <2>2. Types' BY <1>1, <2>1 DEF Types
  <2>3. Nested' BY <1>1, <2>1 DEF Types, Nested
  <2>4. PlayerFollowed' BY <2>1 DEF Types, PlayerFollowed
  <2> QED BY <1>1, <2>2, <2>3, <2>4 DEF Shared, MediaFollowed
<1>5. ASSUME NEW s \in Status, player_property_changed(d, s) PROVE IInv'
  <2>1. /\ player' = [player EXCEPT ![d] = s] /\ UNCHANGED default_player
        /\ status' = IF s \in Reported THEN [status EXCEPT ![d] = s] ELSE status
    BY <1>2, <1>5 DEF player_property_changed
  <2>2. Types' BY <1>1, <2>1 DEF Types
  <2>3. Nested' BY <1>1, <1>2, <2>1 DEF Types, Nested
  <2>4. PlayerFollowed' BY <2>1 DEF Types, PlayerFollowed
  <2> QED BY <1>1, <2>2, <2>3, <2>4 DEF Shared, MediaFollowed
<1> QED BY <1>3, <1>4, <1>5

(* Transports, whose records of all devices pass through transport_media.   *)
LEMMA TransportStep ==
  ASSUME IInv, NEW d \in Devices, UNCHANGED <<registry, crashed, cmd>>,
         \/ transport_removed(d) \/ transport_property_changed(d)
         \/ \E c \in Configs \cup {Other} : transport_added(d, c)
  PROVE  IInv'
<1> USE SinkAssumption DEF IInv, registry, bus, defaults, records, history
<1>1. UNCHANGED <<player, default_player, status>>
  BY DEF transport_removed, transport_property_changed, transport_added
<1>2. dev[d].here /\ Heard(d)
  BY DEF Types, Nested, Heard, transport_removed, transport_property_changed, transport_added
<1>3. PlayerFollowed' BY <1>1 DEF PlayerFollowed
<1>4. CASE transport_removed(d)
  <2>1. /\ transport' = [transport EXCEPT ![d] = None]
        /\ media' = [media EXCEPT ![d] = transport_media] /\ streams' = streams \ {d}
        /\ UNCHANGED <<default_transport, transport_media, latest>>
    BY <1>2, <1>4 DEF transport_removed
  <2>2. Types' BY <1>1, <2>1 DEF Types
  <2>3. Nested' BY <1>1, <1>2, <2>1 DEF Types, Nested
  <2>4. Shared' BY <2>1 DEF Types, Shared
  <2>5. MediaFollowed' BY <2>1 DEF Types, MediaFollowed
  <2> QED BY <1>3, <2>2, <2>3, <2>4, <2>5
<1>5. CASE transport_property_changed(d)
  <2>1. /\ media' = [media EXCEPT ![d] = transport_media]
        /\ UNCHANGED <<transport, default_transport, transport_media, streams, latest>>
    BY <1>5 DEF transport_property_changed
  <2>2. Types' BY <1>1, <2>1 DEF Types
  <2>3. Nested' BY <1>1, <1>2, <2>1 DEF Types, Nested
  <2>4. Shared' BY <2>1 DEF Shared
  <2>5. MediaFollowed' BY <2>1 DEF Types, Shared, MediaFollowed
  <2> QED BY <1>3, <2>2, <2>3, <2>4, <2>5
<1>6. ASSUME NEW c \in Configs, transport_added(d, c) PROVE IInv'
  <2>1. /\ transport' = [transport EXCEPT ![d] = c]
        /\ media' = [media EXCEPT ![d] = c] /\ streams' = streams \cup {d}
        /\ default_transport' = d /\ transport_media' = c /\ latest' = d
    BY <1>2, <1>6 DEF transport_added
  <2>2. Types' BY <1>1, <2>1 DEF Types
  <2>3. Nested' BY <1>1, <1>2, <2>1 DEF Types, Nested
  <2>4. Shared' BY <2>1 DEF Types, Shared
  <2>5. MediaFollowed' BY <2>1 DEF Types, MediaFollowed
  <2> QED BY <1>3, <2>2, <2>3, <2>4, <2>5
<1>7. CASE transport_added(d, Other)
  <2>1. Other \notin Configs /\ transport[d] = None BY <1>7 DEF transport_added
  <2>2. /\ transport' = [transport EXCEPT ![d] = Other] /\ default_transport' = d
        /\ UNCHANGED <<media, transport_media, streams, latest>>
    BY <1>7, <2>1 DEF transport_added
  <2>3. d \notin streams BY <2>1 DEF MediaFollowed
  <2>4. Types' BY <1>1, <2>2 DEF Types
  <2>5. Nested' BY <1>1, <1>2, <2>2 DEF Types, Nested
  <2>6. Shared' BY <2>2, <2>3 DEF Types, Shared
  <2>7. MediaFollowed' BY <2>1, <2>2, <2>3 DEF Types, MediaFollowed
  <2> QED BY <1>3, <2>4, <2>5, <2>6, <2>7
<1> QED BY <1>4, <1>5, <1>6, <1>7

(* Devices and the controller: a device leaves after what hangs on it.      *)
LEMMA DeviceStep ==
  ASSUME IInv, DeviceSignal
  PROVE  IInv'
<1> USE SinkAssumption DEF IInv, bus, defaults, history
<1>1. UNCHANGED <<player, transport, default_player, default_transport, transport_media,
                  cmd, streams, status, latest>>
  BY DEF DeviceSignal
<1>2. PlayerFollowed' /\ Shared' BY <1>1 DEF PlayerFollowed, Shared
<1>3. CASE (Devs!adapter_added \/ Devs!adapter_removed) /\ UNCHANGED media
  <2>1. /\ UNCHANGED <<dev, app_devs>> /\ default_ctrl' = exported' /\ exported' \in BOOLEAN
        /\ \A d \in Devices : dev[d].here => exported'
    BY <1>3 DEF Nested, Devs!adapter_added, Devs!adapter_removed
  <2>2. Types' BY <1>1, <1>3, <2>1 DEF Types
  <2>3. Nested' BY <1>1, <1>3, <2>1 DEF Nested
  <2> QED BY <1>1, <1>2, <1>3, <2>2, <2>3 DEF MediaFollowed
<1>4. ASSUME NEW d \in Devices, Devs!ConnectedChanged(d), UNCHANGED media PROVE IInv'
  <2>1. /\ dev[d].here /\ UNCHANGED <<exported, default_ctrl>>
        /\ dev' = [dev EXCEPT ![d] = [dev[d] EXCEPT !.connected = ~dev[d].connected]]
        /\ app_devs' =
             [app_devs EXCEPT ![d] = [app_devs[d] EXCEPT !.connected = ~dev[d].connected]]
    BY <1>4 DEF Devs!ConnectedChanged
  <2>2. Types'
    <3>1. dev[d] \in Record /\ app_devs[d] \in Record BY DEF Types
    <3>2. /\ [dev[d] EXCEPT !.connected = ~dev[d].connected] \in Record
          /\ [app_devs[d] EXCEPT !.connected = ~dev[d].connected] \in Record
      BY <3>1 DEF Record
    <3>3. dev' \in [Devices -> Record] /\ app_devs' \in [Devices -> Record]
      BY <2>1, <3>2 DEF Types
    <3> QED BY <1>1, <1>4, <2>1, <3>3 DEF Types
  <2>3. ASSUME NEW e \in Devices
        PROVE  dev'[e].here = dev[e].here /\ app_devs'[e].here = app_devs[e].here
    BY <2>1 DEF Types, Record
  <2>4. ASSUME NEW e \in Devices PROVE dev'[e].connected => dev[e].here
    BY <2>1 DEF Types, Nested, Record
  <2>5. Nested' BY <1>1, <1>4, <2>1, <2>3, <2>4 DEF Nested
  <2> QED BY <1>1, <1>2, <1>4, <2>2, <2>5 DEF MediaFollowed
<1>5. ASSUME NEW d \in Devices, Devs!device_added(d), media' = [media EXCEPT ![d] = None]
      PROVE  IInv'
  <2>1. ~dev[d].here /\ exported /\ UNCHANGED <<exported, default_ctrl>>
    BY <1>5 DEF Devs!device_added, Devs!find_parent
  <2>2. PICK c \in BOOLEAN, p \in BOOLEAN :
          /\ dev' = [dev EXCEPT ![d] = Devs!Present(c, p)]
          /\ app_devs' = [app_devs EXCEPT ![d] = Devs!Present(FALSE, p)]
    BY <1>5 DEF Devs!device_added
  <2>3. Types' BY <1>1, <1>5, <2>1, <2>2 DEF Types, Record, Devs!Present
  <2>4. Nested' BY <1>1, <1>5, <2>1, <2>2 DEF Types, Nested, Devs!Present
  <2>5. d \notin streams BY <2>1 DEF Nested, MediaFollowed
  <2>6. MediaFollowed' BY <1>1, <1>5, <2>5 DEF Types, MediaFollowed
  <2> QED BY <1>2, <2>3, <2>4, <2>6
<1>6. ASSUME NEW d \in Devices, player[d] = None, transport[d] = None,
             Devs!device_removed(d), media' = [media EXCEPT ![d] = None]
      PROVE  IInv'
  <2>1. /\ UNCHANGED <<exported, default_ctrl>>
        /\ dev' = [e \in Devices |-> IF e \in {d} THEN Devs!Absent ELSE dev[e]]
        /\ app_devs' = [e \in Devices |-> IF e \in {d} THEN Devs!Absent ELSE app_devs[e]]
    BY <1>6 DEF Devs!device_removed, Devs!Forget
  <2>2. Types' BY <1>1, <1>6, <2>1 DEF Types, Record, Devs!Absent
  <2>3. Nested' BY <1>1, <1>6, <2>1 DEF Types, Nested, Devs!Absent
  <2>4. d \notin streams BY <1>6 DEF MediaFollowed
  <2>5. MediaFollowed' BY <1>1, <1>6, <2>4 DEF Types, MediaFollowed
  <2> QED BY <1>2, <2>2, <2>3, <2>5
<1> QED BY <1>3, <1>4, <1>5, <1>6 DEF DeviceSignal

(* bluetoothd leaves.                                                       *)
LEMMA ServiceStep ==
  ASSUME IInv, service_disconnect
  PROVE  IInv'
<1> USE SinkAssumption DEF IInv
<1>1. /\ exported' = FALSE /\ default_ctrl' = FALSE
      /\ dev' = [e \in Devices |-> IF e \in Devices THEN Devs!Absent ELSE dev[e]]
      /\ app_devs' = [e \in Devices |-> IF e \in Devices THEN Devs!Absent ELSE app_devs[e]]
  BY DEF service_disconnect, Devs!service_disconnect, Devs!Forget
<1>2. /\ player' = [d \in Devices |-> None] /\ transport' = [d \in Devices |-> None]
      /\ media' = [d \in Devices |-> None] /\ default_player' = None /\ streams' = {}
      /\ UNCHANGED <<default_transport, transport_media, cmd, status, latest>>
  BY DEF service_disconnect
<1>3. Types' BY <1>1, <1>2 DEF Types, Record, Devs!Absent
<1>4. Nested' BY <1>1, <1>2 DEF Nested, Devs!Absent
<1>5. Shared' /\ MediaFollowed' BY <1>2 DEF Shared, MediaFollowed
<1>6. PlayerFollowed' BY <1>2 DEF PlayerFollowed
<1> QED BY <1>3, <1>4, <1>5, <1>6

(* The inductive invariant holds in every reachable state.                  *)
THEOREM Invariance == Spec => []IInv
<1>1. Init => IInv
  <2> SUFFICES ASSUME Init PROVE IInv OBVIOUS
  <2>1. /\ exported = FALSE /\ default_ctrl = FALSE
        /\ dev = [d \in Devices |-> Devs!Absent] /\ app_devs = dev
    BY DEF Init, Devs!Init
  <2>2. /\ player = [d \in Devices |-> None] /\ transport = [d \in Devices |-> None]
        /\ media = [d \in Devices |-> None] /\ status = [d \in Devices |-> None]
        /\ default_player = None /\ default_transport = None /\ transport_media = None
        /\ cmd = None /\ streams = {} /\ latest = None
    BY DEF Init
  <2>3. Types BY <2>1, <2>2 DEF Types, Record, Devs!Absent
  <2>4. Nested BY <2>1, <2>2 DEF Nested, Devs!Absent
  <2>5. Shared /\ MediaFollowed /\ PlayerFollowed
    BY <2>2, SinkAssumption DEF Shared, MediaFollowed, PlayerFollowed
  <2> QED BY <2>3, <2>4, <2>5 DEF IInv
<1>2. IInv /\ [Next]_vars => IInv'
  <2> SUFFICES ASSUME IInv, [Next]_vars PROVE IInv' OBVIOUS
  <2>1. CASE MediaSignal
    BY <2>1, PlayerStep, TransportStep
       DEF MediaSignal, a2dp_sink_proxy_added, a2dp_sink_proxy_removed,
           a2dp_sink_property_changed
  <2>2. CASE Command \/ UsePlayer \/ transport_set_volume \/ UNCHANGED vars
    <3>1. /\ UNCHANGED <<registry, bus, defaults, records, history>>
          /\ cmd' \in {cmd, default_player, None}
      BY <2>2 DEF Command, UsePlayer, transport_set_volume, Use, vars
    <3> USE <3>1 DEF IInv, registry, bus, defaults, records, history
    <3>2. Types' BY DEF Types
    <3>3. Nested' BY DEF Nested
    <3> QED BY <3>2, <3>3 DEF Shared, MediaFollowed, PlayerFollowed
  <2> QED BY <2>1, <2>2, DeviceStep, ServiceStep DEF Next
<1> QED BY <1>1, <1>2, PTL DEF Spec

(* Whatever order devices, transports of any codec and bluetoothd come and  *)
(* go in, an application that follows the SRC and SINK events knows which   *)
(* devices stream SBC, and the shared transport_media never gives the       *)
(* stream configured last the configuration of another.                     *)
THEOREM MediaFollowedHolds == Spec => []MediaFollowed
<1> QED BY Invariance, PTL DEF IInv

(* default_player is a player that exists, and what was last told of a      *)
(* player is its Status.                                                    *)
THEOREM PlayerFollowedHolds == Spec => []PlayerFollowed
<1> QED BY Invariance, PTL DEF IInv
(* The players, transports and records keep their types, and only a device  *)
(* that has a record has media in it (device_removed, service_disconnect).  *)
THEOREM SinkTypes == Spec => []TypeOK
<1>1. IInv => TypeOK BY DEF IInv, Types, Nested, TypeOK
<1> QED BY <1>1, Invariance, PTL
-----------------------------------------------------------------------------
(* Players and transports do to the registry only what the registry's own   *)
(* module lets it do.  A command on a freed proxy ends the process, which   *)
(* the registry does not see.                                               *)
Registry == INSTANCE BtDevicesProofs WITH crashed <- FALSE

(* Both instances see the same calls orphaned.                              *)
LEMMA SameForget ==
  ASSUME NEW D \in SUBSET Devices, Devs!Forget(D)
  PROVE  Registry!Forget(D)
<1>1. Devs!BagToSet(calls) = Registry!BagToSet(calls) /\ Devs!Absent = Registry!Absent
  BY DEF Devs!BagToSet, Registry!BagToSet, Devs!Absent, Registry!Absent
<1>2. Devs!Orphan(D) = Registry!Orphan(D)
  BY DEF Devs!Orphan, Registry!Orphan, Devs!BagToSet, Registry!BagToSet, Devs!BagIn,
         Registry!BagIn, Devs!DeviceMethods, Registry!DeviceMethods
<1>3. Devs!AwaitsReply(asked) <=> Registry!AwaitsReply(asked)
  BY <1>1 DEF Devs!AwaitsReply, Registry!AwaitsReply
<1>4. (gone \/ (asked \in D /\ Devs!AwaitsReply(asked)))
        = (gone \/ (asked \in D /\ Registry!AwaitsReply(asked)))
  BY <1>3
<1> QED BY <1>1, <1>2, <1>4 DEF Devs!Forget, Registry!Forget

(* Seen through its registry, Sink is BtDevices without requests: its       *)
(* composition adds no step to adapters, devices, default_ctrl, default_dev *)
(* or the records, whatever the application's thread does meanwhile.        *)
THEOREM ImplementsRegistry == Spec => Registry!Spec
<1>1. Init => Registry!Init
  <2>1. Devs!EmptyBag = Registry!EmptyBag
    BY DEF Devs!EmptyBag, Registry!EmptyBag, Devs!SetToBag, Registry!SetToBag
  <2> QED BY <2>1 DEF Init, Devs!Init, Registry!Init, Devs!Absent, Registry!Absent,
                      Devs!Callbacks, Registry!Callbacks
<1>2. [Next]_vars => [Registry!Next]_Registry!vars
  <2> SUFFICES ASSUME [Next]_vars PROVE [Registry!Next]_Registry!vars OBVIOUS
  <2>1. CASE UNCHANGED registry
    BY <2>1 DEF registry, Registry!vars, Registry!bus, Registry!registry, Registry!app
  <2>2. CASE DeviceSignal
    <3>1. (Devs!adapter_added => Registry!adapter_added)
          /\ (Devs!adapter_removed => Registry!adapter_removed)
      BY DEF Devs!adapter_added, Registry!adapter_added, Devs!adapter_removed,
             Registry!adapter_removed, Devs!SetDefault, Registry!SetDefault,
             Devs!app, Registry!app
    <3>2. ASSUME NEW d \in Devices
          PROVE  /\ Devs!ConnectedChanged(d) => Registry!ConnectedChanged(d)
                 /\ Devs!device_added(d) => Registry!device_added(d)
                 /\ Devs!device_removed(d) => Registry!device_removed(d)
      <4>1. Devs!ConnectedChanged(d) => Registry!ConnectedChanged(d)
        BY DEF Devs!ConnectedChanged, Registry!ConnectedChanged, Devs!SetDefault,
               Registry!SetDefault, Devs!Answer, Registry!Answer
      <4>2. Devs!device_added(d) => Registry!device_added(d)
        BY DEF Devs!device_added, Registry!device_added, Devs!SetDefault,
               Registry!SetDefault, Devs!Present, Registry!Present, Devs!find_parent,
               Registry!find_parent, Devs!app, Registry!app
      <4>3. Devs!device_removed(d) => Registry!device_removed(d)
        BY SameForget DEF Devs!device_removed, Registry!device_removed, Devs!SetDefault,
               Registry!SetDefault
      <4> QED BY <4>1, <4>2, <4>3
    <3> QED BY <2>2, <3>1, <3>2 DEF DeviceSignal, Registry!Next, Registry!Signal
  <2>3. CASE service_disconnect
    <3>1. Registry!service_disconnect
      BY <2>3, SameForget DEF service_disconnect, Devs!service_disconnect,
         Registry!service_disconnect, Devs!SetDefault, Registry!SetDefault
    <3> QED BY <3>1 DEF Registry!Next, Registry!Signal
  <2>4. \/ UNCHANGED registry \/ DeviceSignal \/ service_disconnect
    BY DEF Next, vars, MediaSignal, Command, UsePlayer, transport_set_volume, Use
  <2> QED BY <2>1, <2>2, <2>3, <2>4
<1> QED BY <1>1, <1>2, PTL DEF Spec, Registry!Spec

(* The registry's list of devices is the one bluetoothd exports, and        *)
(* default_dev is connected, in the composition as well.                    *)
THEOREM RegistryHolds == Spec => [](Registry!RegistryCurrent /\ Registry!DefaultConnected)
<1>1. Registry!DevicesAssumption BY SinkAssumption DEF Registry!DevicesAssumption
<1> QED
  BY <1>1, ImplementsRegistry, Registry!RegistryCurrentHolds, Registry!DefaultConnectedHolds, PTL
=============================================================================
