--------------------------- MODULE BtDevicesProofs ---------------------------
(***************************************************************************)
(* Proofs about BtDevices, for any devices and any number of requests.     *)
(***************************************************************************)
EXTENDS BtDevices, TLAPS

Addressed == {"connect", "disconnect", "remove", "pair", "unpair"}
Calls == [method : Methods, dev : Devices \cup {None}, live : BOOLEAN]

(* The types the other conjuncts need: a queued callback that reads a       *)
(* buffer finds an address in it, and a method of Device1 has a device.     *)
Types ==
  /\ exported \in BOOLEAN /\ default_ctrl \in BOOLEAN
  /\ gone \in BOOLEAN /\ crashed \in BOOLEAN
  /\ dev \in [Devices -> Record] /\ app_devs \in [Devices -> Record]
  /\ default_dev \in Devices \cup {None}
  /\ thread \in Devices \cup {None} /\ asked \in Devices \cup {None}
  /\ idle \in Seq(Callbacks) /\ addr \in [Callbacks -> Devices \cup {None}]
  /\ \A i \in 1 .. Len(idle) : idle[i] \in Addressed => addr[idle[i]] \in Devices
  /\ IsABag(calls)
  /\ \A c \in BagToSet(calls) : c \in Calls /\ (c.method \in DeviceMethods => c.dev \in Devices)

(* The controller's records follow bluetoothd's devices.                    *)
Mirror ==
  /\ default_ctrl = exported
  /\ \A d \in Devices :
       /\ app_devs[d].here = dev[d].here /\ app_devs[d].paired = dev[d].paired
       /\ app_devs[d].connected => dev[d].connected
       /\ dev[d].connected => dev[d].here
       /\ dev[d].here => exported

(* A call marked live is one on a proxy that still exists.                  *)
LiveHere ==
  \A c \in BagToSet(calls) : c.live /\ c.method \in DeviceMethods => dev[c.dev].here

(* A connection that is waited for is not there yet, unless the request has *)
(* not reached bluetoothd; otherwise its success would be reported by       *)
(* nobody, Connected having changed before.  One thread waits at a time.    *)
Queued(d) ==
  \/ thread = d
  \/ (\E i \in 1 .. Len(idle) : idle[i] = "connect") /\ addr["connect"] = d
LiveConnect(d) == [method |-> "Connect", dev |-> d, live |-> TRUE]

Pending ==
  /\ thread # None => asked \in {thread, None}
  /\ asked # None =>
       \/ crashed \/ gone \/ Queued(asked)
       \/ LiveConnect(asked) \in BagToSet(calls) /\ ~dev[asked].connected

IInv == Types /\ Mirror /\ LiveHere /\ DefaultConnected /\ Pending
-----------------------------------------------------------------------------
(* Bags.                                                                    *)

(* One more call of each kind in S.                                         *)
LEMMA AddedCalls ==
  ASSUME NEW B, IsABag(B), NEW S
  PROVE  IsABag(B (+) SetToBag(S)) /\ BagToSet(B (+) SetToBag(S)) = BagToSet(B) \cup S
<1> DEFINE N == B (+) SetToBag(S)
<1>1. DOMAIN N = DOMAIN B \cup S BY DEF (+), SetToBag
<1>2. ASSUME NEW e \in DOMAIN N PROVE N[e] \in {n \in Nat : n > 0}
  <2>1. N[e] = (IF e \in DOMAIN B THEN B[e] ELSE 0) + (IF e \in S THEN 1 ELSE 0)
    BY <1>2, <1>1 DEF (+), SetToBag
  <2>2. e \in DOMAIN B => B[e] \in Nat /\ B[e] > 0 BY DEF IsABag
  <2> QED BY <1>1, <1>2, <2>1, <2>2
<1>3. N = [e \in DOMAIN N |-> N[e]] BY DEF (+)
<1> QED BY <1>1, <1>2, <1>3 DEF IsABag, BagToSet

(* One call fewer: the others stay.                                         *)
LEMMA DroppedCall ==
  ASSUME NEW B, IsABag(B), NEW c
  PROVE  /\ IsABag(B (-) SetToBag({c}))
         /\ BagToSet(B (-) SetToBag({c})) \subseteq BagToSet(B)
         /\ \A e \in BagToSet(B) : e # c => e \in BagToSet(B (-) SetToBag({c}))
<1> DEFINE M == [e \in DOMAIN B |-> IF e \in {c} THEN B[e] - 1 ELSE B[e]]
           N == [e \in {d \in DOMAIN M : M[d] > 0} |-> M[e]]
<1>1. B (-) SetToBag({c}) = N BY DEF (-), SetToBag
<1>2. \A e \in DOMAIN B : B[e] \in Nat /\ B[e] > 0 BY DEF IsABag
<1>3. \A e \in DOMAIN B : M[e] \in Int /\ (e # c => M[e] = B[e]) BY <1>2
<1>4. DOMAIN N = {d \in DOMAIN B : M[d] > 0} OBVIOUS
<1>5. \A e \in DOMAIN N : N[e] \in {n \in Nat : n > 0} BY <1>3, <1>4
<1>6. N \in [DOMAIN N -> {n \in Nat : n > 0}] BY <1>5
<1>7. \A e \in DOMAIN B : e # c => e \in DOMAIN N BY <1>2, <1>3, <1>4
<1> HIDE DEF M, N
<1> QED BY <1>1, <1>4, <1>6, <1>7 DEF IsABag, BagToSet

(* Withdrawing proxies marks the calls on them, and changes no other.       *)
LEMMA OrphanedCalls ==
  ASSUME Types, NEW D \in SUBSET Devices
  PROVE  /\ IsABag(Orphan(D))
         /\ \A e \in BagToSet(Orphan(D)) :
              /\ e \in Calls /\ (e.method \in DeviceMethods => e.dev \in Devices)
              /\ e.live => e \in BagToSet(calls) /\ (e.method \in DeviceMethods => e.dev \notin D)
         /\ \A e \in BagToSet(calls) : e.dev \notin D => e \in BagToSet(Orphan(D))
<1> DEFINE hit(c) == c.method \in DeviceMethods /\ c.dev \in D
           now(c) == [c EXCEPT !.live = c.live /\ ~hit(c)]
           was(c) == [c EXCEPT !.live = TRUE]
           copies(c) == IF BagIn(c, calls) THEN calls[c] ELSE 0
           N == Orphan(D)
<1>1. \A c \in DOMAIN calls :
        /\ c \in Calls /\ (c.method \in DeviceMethods => c.dev \in Devices)
        /\ calls[c] \in Nat /\ calls[c] > 0
  BY DEF Types, IsABag, BagToSet
<1>2. DOMAIN N = {now(c) : c \in DOMAIN calls} BY DEF Orphan, BagToSet
<1>3. ASSUME NEW c \in DOMAIN calls
      PROVE  /\ now(c) \in Calls /\ now(c).method = c.method /\ now(c).dev = c.dev
             /\ now(c).live = (c.live /\ ~hit(c))
             /\ ~hit(c) => now(c) = c
             /\ hit(c) => now(c) = c \/ was(now(c)) = c
  BY <1>1 DEF Calls
<1>4. ASSUME NEW e \in DOMAIN N PROVE N[e] \in {n \in Nat : n > 0}
  <2>1. N[e] = copies(e) + (IF hit(e) THEN copies(was(e)) ELSE 0)
    BY <1>4 DEF Orphan, BagToSet
  <2>2. \A x : copies(x) \in Nat /\ (x \in DOMAIN calls => copies(x) > 0)
    BY <1>1 DEF BagIn, BagToSet
  <2>3. PICK c \in DOMAIN calls : e = now(c) BY <1>2, <1>4
  <2>4. e \in DOMAIN calls \/ (hit(e) /\ was(e) \in DOMAIN calls)
    BY <1>3, <2>3
  <2> HIDE DEF N, hit, was, now, copies
  <2> QED BY <2>1, <2>2, <2>4
<1>5. IsABag(N)
  <2>1. N = [e \in DOMAIN N |-> N[e]] BY DEF Orphan
  <2> HIDE DEF N
  <2> QED BY <2>1, <1>4 DEF IsABag
<1>6. \A e \in DOMAIN N :
        /\ e \in Calls /\ (e.method \in DeviceMethods => e.dev \in Devices)
        /\ e.live => e \in DOMAIN calls /\ (e.method \in DeviceMethods => e.dev \notin D)
  <2> SUFFICES ASSUME NEW e \in DOMAIN N
               PROVE  /\ e \in Calls /\ (e.method \in DeviceMethods => e.dev \in Devices)
                      /\ e.live => e \in DOMAIN calls /\ (e.method \in DeviceMethods => e.dev \notin D)
    OBVIOUS
  <2>1. PICK c \in DOMAIN calls : e = now(c) BY <1>2
  <2> QED BY <1>1, <1>3, <2>1
<1>7. \A e \in DOMAIN calls : e.dev \notin D => e \in DOMAIN N BY <1>2, <1>3
<1> QED BY <1>5, <1>6, <1>7 DEF BagToSet

-----------------------------------------------------------------------------
(* The signals of bluetoothd.                                               *)

(* Devices that go take their records, their calls and, if it was one of    *)
(* them, default_dev along (device_removed, service_disconnect).            *)
LEMMA ForgetStep ==
  ASSUME IInv, ~crashed, NEW D \in SUBSET Devices, Forget(D),
         default_dev' \in {default_dev, None}, default_dev \in D => default_dev' = None,
         exported' \in BOOLEAN, default_ctrl' = exported',
         exported' = exported \/ D = Devices,
         UNCHANGED <<scanning, idle, addr, thread, asked, crashed>>
  PROVE  IInv'
<1> USE DEF IInv, Forget
<1>1. /\ dev' \in [Devices -> Record] /\ app_devs' \in [Devices -> Record]
      /\ \A d \in Devices : d \notin D => dev'[d] = dev[d] /\ app_devs'[d] = app_devs[d]
      /\ \A d \in D : dev'[d] = Absent /\ app_devs'[d] = Absent
  BY DEF Types, Record, Absent
<1>2. calls' = Orphan(D) OBVIOUS
<1>3. Types' BY <1>1, <1>2, OrphanedCalls DEF Types
<1>4. Mirror'
  <2> SUFFICES ASSUME NEW d \in Devices
               PROVE  /\ app_devs'[d].here = dev'[d].here /\ app_devs'[d].paired = dev'[d].paired
                      /\ app_devs'[d].connected => dev'[d].connected
                      /\ dev'[d].connected => dev'[d].here
                      /\ dev'[d].here => exported'
    BY DEF Mirror
  <2>1. CASE d \in D BY <1>1, <2>1 DEF Absent
  <2>2. CASE d \notin D
    <3>1. dev'[d] = dev[d] /\ app_devs'[d] = app_devs[d] /\ exported' = exported
      BY <1>1, <2>2
    <3> QED BY <3>1 DEF Mirror
  <2> QED BY <2>1, <2>2
<1>5. LiveHere'
  <2> SUFFICES ASSUME NEW c \in BagToSet(calls'), c.live, c.method \in DeviceMethods
               PROVE  dev'[c.dev].here
    BY DEF LiveHere
  <2>1. c \in BagToSet(calls) /\ c.dev \in Devices /\ c.dev \notin D
    BY <1>2, OrphanedCalls
  <2> QED BY <1>1, <2>1 DEF LiveHere
<1>6. DefaultConnected' BY <1>1 DEF DefaultConnected, Types
<1>7. Pending'
  <2> SUFFICES ASSUME asked # None, ~gone', ~Queued(asked)'
               PROVE  LiveConnect(asked) \in BagToSet(calls') /\ ~dev'[asked].connected
    BY DEF Pending
  <2>1. ~gone /\ ~Queued(asked) BY DEF Types, Queued
  <2>2. LiveConnect(asked) \in BagToSet(calls) /\ ~dev[asked].connected
    BY <2>1 DEF Pending
  <2>3. AwaitsReply(asked) BY <2>2 DEF AwaitsReply, LiveConnect
  <2>4. asked \notin D BY <2>3
  <2>5. LiveConnect(asked) \in BagToSet(calls')
    BY <1>2, <2>2, <2>4, OrphanedCalls DEF LiveConnect
  <2> QED BY <1>1, <2>2, <2>4, <2>5 DEF Types
<1> QED BY <1>3, <1>4, <1>5, <1>6, <1>7

(* A device that is here changes, or a device that was not appears.         *)
LEMMA DeviceStep ==
  ASSUME IInv, ~crashed, NEW d \in Devices, UNCHANGED crashed,
         device_added(d) \/ ConnectedChanged(d) \/ PairedChanged(d)
  PROVE  IInv'
<1> USE DEF IInv, app
<1>1. PICK r \in Record, q \in Record :
        /\ dev' = [dev EXCEPT ![d] = r] /\ app_devs' = [app_devs EXCEPT ![d] = q]
        /\ r.here /\ q.here /\ q.paired = r.paired /\ (q.connected => r.connected)
        /\ dev[d].here /\ ~dev[d].connected /\ r.connected => asked' # d
        /\ asked' \in {asked, None}
        /\ default_dev' \in {default_dev, None, d}
        /\ default_dev' = d => r.connected
        /\ exported /\ UNCHANGED <<exported, default_ctrl, idle, addr, calls, thread, gone>>
  <2>1. CASE device_added(d)
    <3>1. PICK c \in BOOLEAN, p \in BOOLEAN :
            /\ dev' = [dev EXCEPT ![d] = Present(c, p)]
            /\ app_devs' = [app_devs EXCEPT ![d] = Present(FALSE, p)]
            /\ IF c /\ default_dev = None THEN SetDefault(d) ELSE UNCHANGED default_dev
      BY <2>1 DEF device_added
    <3>2. Present(c, p) \in Record /\ Present(FALSE, p) \in Record
      BY DEF Present, Record
    <3>3. default_dev # d BY <2>1, DevicesAssumption DEF device_added, DefaultConnected, Mirror, Types
    <3>4. default_dev' \in {default_dev, d} /\ (default_dev' = d => c)
      BY <3>1, <3>3 DEF SetDefault
    <3> QED BY <2>1, <3>1, <3>2, <3>4 DEF device_added, find_parent, Present
  <2>2. CASE ConnectedChanged(d)
    <3> DEFINE now == ~dev[d].connected
    <3>1. dev[d] \in Record /\ app_devs[d] \in Record /\ dev[d].here
      BY <2>2 DEF Types, ConnectedChanged
    <3>2. /\ [dev[d] EXCEPT !.connected = now] \in Record
          /\ [app_devs[d] EXCEPT !.connected = now] \in Record
      BY <3>1 DEF Record
    <3>3. /\ dev' = [dev EXCEPT ![d] = [dev[d] EXCEPT !.connected = now]]
          /\ app_devs' = [app_devs EXCEPT ![d] = [app_devs[d] EXCEPT !.connected = now]]
      BY <2>2 DEF ConnectedChanged
    <3>4. default_dev' \in {default_dev, None, d} /\ (default_dev' = d => now)
      BY <2>2, DevicesAssumption DEF ConnectedChanged, SetDefault, DefaultConnected
    <3>5. asked' \in {asked, None} /\ (now => asked' # d)
      BY <2>2, DevicesAssumption DEF ConnectedChanged, Answer
    <3>6. /\ app_devs[d].here = dev[d].here /\ app_devs[d].paired = dev[d].paired /\ exported
      BY <3>1 DEF Mirror
    <3> QED BY <2>2, <3>1, <3>2, <3>3, <3>4, <3>5, <3>6 DEF ConnectedChanged, Record
  <2>3. CASE PairedChanged(d)
    <3>1. dev[d] \in Record /\ app_devs[d] \in Record /\ dev[d].here
      BY <2>3 DEF Types, PairedChanged
    <3>2. /\ [dev[d] EXCEPT !.paired = ~dev[d].paired] \in Record
          /\ [app_devs[d] EXCEPT !.paired = ~dev[d].paired] \in Record
      BY <3>1 DEF Record
    <3>3. /\ dev' = [dev EXCEPT ![d] = [dev[d] EXCEPT !.paired = ~dev[d].paired]]
          /\ app_devs' = [app_devs EXCEPT ![d] = [app_devs[d] EXCEPT !.paired = ~dev[d].paired]]
      BY <2>3 DEF PairedChanged
    <3>4. default_dev' = default_dev /\ (default_dev = d => dev[d].connected)
      BY <2>3, DevicesAssumption DEF PairedChanged, DefaultConnected
    <3>5. /\ app_devs[d].here = dev[d].here /\ exported
          /\ app_devs[d].connected => dev[d].connected
      BY <3>1 DEF Mirror
    <3> QED BY <2>3, <3>1, <3>2, <3>3, <3>4, <3>5 DEF PairedChanged, Record
  <2> QED BY <2>1, <2>2, <2>3
<1>2. /\ \A e \in Devices : e # d => dev'[e] = dev[e] /\ app_devs'[e] = app_devs[e]
      /\ dev'[d] = r /\ app_devs'[d] = q
  BY <1>1 DEF Types
<1>3. Types' BY <1>1 DEF Types
<1>4. Mirror'
  <2> SUFFICES ASSUME NEW e \in Devices
               PROVE  /\ app_devs'[e].here = dev'[e].here /\ app_devs'[e].paired = dev'[e].paired
                      /\ app_devs'[e].connected => dev'[e].connected
                      /\ dev'[e].connected => dev'[e].here
                      /\ dev'[e].here => exported'
    BY <1>1 DEF Mirror
  <2>1. CASE e = d
    <3>1. r.here = TRUE /\ q.here = TRUE BY <1>1 DEF Record
    <3> QED BY <1>1, <1>2, <2>1, <3>1
  <2>2. CASE e # d
    <3>1. dev'[e] = dev[e] /\ app_devs'[e] = app_devs[e] /\ exported' = exported
      BY <1>1, <1>2, <2>2
    <3> QED BY <3>1 DEF Mirror
  <2> QED BY <2>1, <2>2
<1>5. LiveHere' BY <1>1, <1>2 DEF LiveHere, Types
<1>6. DefaultConnected' BY <1>1, <1>2 DEF DefaultConnected, Types
<1>7. Pending'
  <2> SUFFICES ASSUME asked' # None, ~gone, ~Queued(asked)
               PROVE  LiveConnect(asked) \in BagToSet(calls) /\ ~dev'[asked].connected
    BY <1>1 DEF Pending, Queued
  <2>1. asked' = asked /\ asked \in Devices BY <1>1 DEF Types
  <2>2. LiveConnect(asked) \in BagToSet(calls) /\ ~dev[asked].connected
    BY <2>1 DEF Pending
  <2>3. dev[asked].here
    BY <2>2 DEF LiveHere, LiveConnect, DeviceMethods
  <2> QED BY <1>1, <1>2, <2>1, <2>2, <2>3
<1> QED BY <1>3, <1>4, <1>5, <1>6, <1>7

(* A signal of any kind.                                                    *)
LEMMA SignalStep ==
  ASSUME IInv, ~crashed, Signal, UNCHANGED crashed
  PROVE  IInv'
<1> USE DEF IInv, app, registry
<1>1. CASE adapter_added
  <2> USE <1>1 DEF adapter_added
  <2>1. Types' BY DEF Types
  <2>2. Mirror' BY DEF Mirror
  <2>3. LiveHere' /\ DefaultConnected' BY DEF LiveHere, DefaultConnected
  <2>4. Pending' BY DEF Pending, Queued
  <2> QED BY <2>1, <2>2, <2>3, <2>4
<1>2. CASE adapter_removed
  <2> USE <1>2 DEF adapter_removed
  <2>0. default_dev' = None BY DEF SetDefault
  <2>1. Types' BY <2>0 DEF Types
  <2>2. Mirror' BY DEF Mirror
  <2>3. LiveHere' /\ DefaultConnected' BY <2>0 DEF LiveHere, DefaultConnected
  <2>4. Pending' BY DEF Pending, Queued
  <2> QED BY <2>1, <2>2, <2>3, <2>4
<1>3. CASE DiscoveringChanged
  <2> USE <1>3 DEF DiscoveringChanged
  <2>1. Types' BY DEF Types
  <2>2. Mirror' BY DEF Mirror
  <2>3. LiveHere' /\ DefaultConnected' BY DEF LiveHere, DefaultConnected
  <2>4. Pending' BY DEF Pending, Queued
  <2> QED BY <2>1, <2>2, <2>3, <2>4
<1>4. CASE service_disconnect
  <2>1. default_dev' = None BY <1>4 DEF service_disconnect, SetDefault
  <2> QED BY <1>4, <2>1, ForgetStep DEF service_disconnect
<1>5. ASSUME NEW d \in Devices, device_removed(d) PROVE IInv'
  <2>1. default_dev' \in {default_dev, None} /\ (default_dev = d => default_dev' = None)
    BY <1>5 DEF device_removed, SetDefault
  <2>2. exported' = exported /\ default_ctrl' = exported'
    BY <1>5 DEF device_removed, Mirror
  <2> QED BY <1>5, <2>1, <2>2, ForgetStep DEF device_removed, Types
<1> QED BY <1>1, <1>2, <1>3, <1>4, <1>5, DeviceStep DEF Signal

-----------------------------------------------------------------------------
(* The application.                                                         *)

(* What the last callback queued does not disturb.                          *)
LEMMA QueuedLast ==
  ASSUME Types, NEW c \in Callbacks, Queue(c),
         NEW b \in [Callbacks -> Devices \cup {None}], addr' = b,
         \A x \in Addressed : b[x] # addr[x] => b[x] \in Devices,
         c \in Addressed => b[c] \in Devices
  PROVE  /\ idle' \in Seq(Callbacks) /\ idle'[Len(idle')] = c /\ Len(idle') \in 1 .. Len(idle')
         /\ \A i \in 1 .. Len(idle') : idle'[i] \in Addressed => addr'[idle'[i]] \in Devices
         /\ \A i \in 1 .. Len(idle) : i \in 1 .. Len(idle') /\ idle'[i] = idle[i]
<1>1. idle' = Append(idle, c) /\ idle \in Seq(Callbacks) BY DEF Queue, Types
<1>2. /\ idle' \in Seq(Callbacks) /\ Len(idle') = Len(idle) + 1 /\ idle'[Len(idle) + 1] = c
      /\ \A i \in 1 .. Len(idle) : idle'[i] = idle[i] /\ i \in 1 .. Len(idle')
      /\ Len(idle) \in Nat
  BY <1>1
<1>3. ASSUME NEW i \in 1 .. Len(idle'), idle'[i] \in Addressed
      PROVE  addr'[idle'[i]] \in Devices
  <2>1. CASE i \in 1 .. Len(idle)
    <3>1. idle'[i] = idle[i] /\ addr[idle[i]] \in Devices BY <1>2, <1>3, <2>1 DEF Types
    <3> QED BY <1>3, <3>1
  <2>2. CASE i = Len(idle) + 1 BY <1>2, <1>3, <2>2
  <2> QED BY <1>2, <2>1, <2>2
<1> QED BY <1>2, <1>3

LEMMA AppStep ==
  ASSUME IInv, ~crashed, App, UNCHANGED crashed
  PROVE  IInv'
<1> USE DEF IInv, app, bus, registry
<1>1. ASSUME NEW d \in Devices, bt_get_dev_info(d) PROVE IInv'
  <2> USE <1>1 DEF bt_get_dev_info
  <2>1. dev[d] \in Record BY DEF Types
  <2>2. Types' BY <2>1 DEF Types
  <2>3. Mirror'
    <3> SUFFICES ASSUME NEW e \in Devices
                 PROVE  /\ app_devs'[e].here = dev[e].here /\ app_devs'[e].paired = dev[e].paired
                        /\ app_devs'[e].connected => dev[e].connected
                        /\ dev[e].connected => dev[e].here
                        /\ dev[e].here => exported
      BY DEF Mirror
    <3>1. app_devs'[e] = IF e = d THEN dev[e] ELSE app_devs[e] BY DEF Types
    <3>2. CASE e = d BY <3>1, <3>2 DEF Mirror
    <3>3. CASE e # d BY <3>1, <3>3 DEF Mirror
    <3> QED BY <3>2, <3>3
  <2>4. LiveHere' /\ DefaultConnected' BY DEF LiveHere, DefaultConnected
  <2>5. Pending' BY DEF Pending, Queued
  <2> QED BY <2>2, <2>3, <2>4, <2>5
<1>2. ASSUME NEW d \in Devices, rk_bt_connect_by_addr(d) PROVE IInv'
  <2> USE <1>2 DEF rk_bt_connect_by_addr
  <2> DEFINE S == [method : {"Discovery"}, dev : {None}, live : {TRUE}]
  <2>1. calls' = calls \/ calls' = calls (+) SetToBag(S) BY DEF CmdScan, Call
  <2>2. \A n \in S : n \in Calls /\ n.method \notin DeviceMethods
    <3> TAKE n \in S
    <3>1. n.method = "Discovery" OBVIOUS
    <3> QED BY <3>1 DEF Calls, Methods, DeviceMethods
  <2> HIDE DEF S
  <2>3. IsABag(calls') /\ BagToSet(calls') \subseteq BagToSet(calls) \cup S
    BY <2>1, AddedCalls DEF Types
  <2>4. Types' BY <2>2, <2>3 DEF Types
  <2>5. Mirror' /\ DefaultConnected' BY DEF Mirror, DefaultConnected
  <2>6. LiveHere' BY <2>2, <2>3 DEF LiveHere
  <2>7. Pending' BY DEF Pending, Queued
  <2> QED BY <2>4, <2>5, <2>6, <2>7
<1>3. ASSUME NEW d \in Devices, NEW r \in Requests, Request(r, d) PROVE IInv'
  <2> USE <1>3 DEF Request
  <2>1. r \in Callbacks /\ r \in Addressed /\ r # "connect" BY DEF Callbacks, Addressed
  <2>2. /\ addr' \in [Callbacks -> Devices \cup {None}] /\ addr'[r] = d
        /\ \A x \in Callbacks : x # r => addr'[x] = addr[x]
    BY <2>1 DEF Types
  <2>3. Addressed \subseteq Callbacks BY DEF Addressed, Callbacks
  <2>4. /\ idle' \in Seq(Callbacks)
        /\ \A i \in 1 .. Len(idle') : idle'[i] \in Addressed => addr'[idle'[i]] \in Devices
        /\ \A i \in 1 .. Len(idle) : i \in 1 .. Len(idle') /\ idle'[i] = idle[i]
    BY <2>1, <2>2, <2>3, QueuedLast
  <2>5. Types' BY <2>2, <2>4 DEF Types
  <2>6. Mirror' /\ DefaultConnected' /\ LiveHere' BY DEF Mirror, DefaultConnected, LiveHere
  <2>7. addr'["connect"] = addr["connect"] BY <2>1, <2>2, <2>3 DEF Addressed
  <2>8. Pending' BY <2>4, <2>7 DEF Pending, Queued
  <2> QED BY <2>5, <2>6, <2>8
<1>4. ASSUME NEW r \in Requests, PlainRequest(r) PROVE IInv'
  <2> USE <1>4 DEF PlainRequest
  <2>1. r \in Callbacks /\ r \notin Addressed BY DEF Callbacks, Addressed
  <2>2. /\ idle' \in Seq(Callbacks)
        /\ \A i \in 1 .. Len(idle') : idle'[i] \in Addressed => addr'[idle'[i]] \in Devices
        /\ \A i \in 1 .. Len(idle) : i \in 1 .. Len(idle') /\ idle'[i] = idle[i]
    BY <2>1, QueuedLast DEF Types
  <2>3. Types' BY <2>2 DEF Types
  <2>4. Mirror' /\ DefaultConnected' /\ LiveHere' BY DEF Mirror, DefaultConnected, LiveHere
  <2>5. Pending' BY <2>2 DEF Pending, Queued
  <2> QED BY <2>3, <2>4, <2>5
<1>5. CASE ConnectWaited
  <2> USE <1>5 DEF ConnectWaited
  <2>1. thread \in Devices BY DEF Types
  <2>2. Mirror' /\ DefaultConnected' /\ LiveHere' BY DEF Mirror, DefaultConnected, LiveHere
  <2>3. CASE scanning
    <3>1. asked' = None BY <2>3 DEF Answer
    <3>2. Types' BY <2>3, <3>1 DEF Types
    <3>3. Pending' BY <3>1 DEF Pending
    <3> QED BY <2>2, <3>2, <3>3
  <2>4. CASE ~scanning
    <3>1. /\ addr' \in [Callbacks -> Devices \cup {None}] /\ addr'["connect"] = thread
          /\ \A x \in Callbacks : x # "connect" => addr'[x] = addr[x]
      BY <2>1, <2>4 DEF Types, Callbacks
    <3>2. "connect" \in Callbacks /\ Addressed \subseteq Callbacks BY DEF Addressed, Callbacks
    <3>3. /\ idle' \in Seq(Callbacks) /\ idle'[Len(idle')] = "connect" /\ Len(idle') \in 1 .. Len(idle')
          /\ \A i \in 1 .. Len(idle') : idle'[i] \in Addressed => addr'[idle'[i]] \in Devices
      BY <2>1, <2>4, <3>1, <3>2, QueuedLast
    <3>4. Types' BY <2>4, <3>1, <3>3 DEF Types
    <3>5. Pending' BY <2>4, <3>1, <3>3 DEF Pending, Queued
    <3> QED BY <2>2, <3>4, <3>5
  <2> QED BY <2>3, <2>4
<1>6. CASE GiveUp
  BY <1>6 DEF GiveUp, Types, Mirror, DefaultConnected, LiveHere, Pending
<1> QED BY <1>1, <1>2, <1>3, <1>4, <1>5, <1>6 DEF App

-----------------------------------------------------------------------------
(* The main loop.                                                           *)

(* The method calls a callback may add: on proxies that are there.          *)
Callable(S) ==
  \A n \in S : n \in Calls /\ (n.method \in DeviceMethods => n.dev \in Devices /\ dev[n.dev].here)

(* A callback leaves the queue.  The connect that is waited for leaves it   *)
(* answered, or with its call made.                                         *)
LEMMA CallbackStep ==
  ASSUME IInv, ~crashed, idle # << >>, NEW S, Callable(S),
         IsABag(calls'), BagToSet(calls') = BagToSet(calls) \cup S,
         idle' = Tail(idle),
         addr' = [c \in Callbacks |-> IF c \in Range(Tail(idle)) THEN addr[c] ELSE None],
         asked' \in {asked, None},
         Head(idle) = "connect" /\ addr["connect"] = asked /\ asked' # None
           => LiveConnect(asked) \in S /\ ~dev[asked].connected,
         UNCHANGED <<bus, default_ctrl, app_devs, default_dev, scanning, thread, gone, crashed>>
  PROVE  IInv'
<1> USE DEF IInv, bus
<1>1. /\ idle' \in Seq(Callbacks) /\ Len(idle) \in Nat /\ Len(idle') = Len(idle) - 1
      /\ \A i \in 1 .. Len(idle') : i + 1 \in 1 .. Len(idle) /\ idle'[i] = idle[i + 1]
      /\ Head(idle) = idle[1]
  BY DEF Types
<1>2. \A i \in 1 .. Len(idle') : idle'[i] \in Range(Tail(idle)) /\ idle'[i] \in Callbacks
  <2>1. DOMAIN idle' = 1 .. Len(idle') BY <1>1
  <2>2. \A i \in 1 .. Len(idle') : idle'[i] \in Callbacks BY <1>1
  <2>3. \A i \in DOMAIN idle' : idle'[i] \in Range(idle') BY DEF Range
  <2> QED BY <2>1, <2>2, <2>3
<1>3. \A i \in 1 .. Len(idle') : addr'[idle'[i]] = addr[idle'[i]] BY <1>2
<1>4. addr' \in [Callbacks -> Devices \cup {None}] BY DEF Types
<1>5. \A i \in 1 .. Len(idle') : idle'[i] \in Addressed => addr'[idle'[i]] \in Devices
  BY <1>1, <1>3 DEF Types
<1>6. \A c \in BagToSet(calls') : c \in Calls /\ (c.method \in DeviceMethods => c.dev \in Devices)
  BY DEF Types, Callable
<1>7. Types' BY <1>1, <1>4, <1>5, <1>6 DEF Types
<1>8. Mirror' /\ DefaultConnected' BY DEF Mirror, DefaultConnected
<1>9. LiveHere' BY DEF LiveHere, Callable
<1>10. Pending'
  <2> SUFFICES ASSUME asked' # None, ~gone, ~Queued(asked)'
               PROVE  LiveConnect(asked) \in BagToSet(calls') /\ ~dev[asked].connected
    BY DEF Pending
  <2>1. asked' = asked OBVIOUS
  <2>2. CASE Queued(asked)
    <3>1. PICK i \in 1 .. Len(idle) : idle[i] = "connect" /\ addr["connect"] = asked
      BY <2>1, <2>2 DEF Queued
    <3>2. i = 1
      <4>1. i # 1 => i - 1 \in 1 .. Len(idle') /\ idle'[i - 1] = "connect" BY <1>1, <3>1
      <4> QED BY <1>3, <2>1, <3>1, <4>1 DEF Queued
    <3> QED BY <1>1, <2>1, <3>1, <3>2
  <2>3. CASE ~Queued(asked) BY <2>1, <2>3 DEF Pending
  <2> QED BY <2>2, <2>3
<1> QED BY <1>7, <1>8, <1>9, <1>10

(* The calls of one method on some devices.                                 *)
LEMMA CallStep ==
  ASSUME IInv, NEW m \in Methods, NEW D \in SUBSET (Devices \cup {None}),
         m \in DeviceMethods => \A d \in D : d \in Devices /\ dev[d].here
  PROVE  LET S == [method : {m}, dev : D, live : {TRUE}]
         IN  Callable(S) /\ IsABag(Call(m, D)) /\ BagToSet(Call(m, D)) = BagToSet(calls) \cup S
<1> DEFINE S == [method : {m}, dev : D, live : {TRUE}]
<1>1. \A n \in S : n \in Calls /\ n.method = m /\ n.dev \in D BY DEF Calls
<1>2. Callable(S) BY <1>1 DEF Callable
<1> HIDE DEF S
<1>3. IsABag(calls (+) SetToBag(S)) /\ BagToSet(calls (+) SetToBag(S)) = BagToSet(calls) \cup S
  BY AddedCalls DEF IInv, Types
<1> QED BY <1>2, <1>3 DEF Call, S

(* A callback that calls a method of one device that is here, and connects  *)
(* only a device that is not connected.                                     *)
LEMMA DeviceCallStep ==
  ASSUME IInv, ~crashed, idle # << >>, NEW m \in DeviceMethods,
         NEW d \in Devices, dev[d].here, calls' = Call(m, {d}),
         idle' = Tail(idle),
         addr' = [c \in Callbacks |-> IF c \in Range(Tail(idle)) THEN addr[c] ELSE None],
         asked' = asked,
         Head(idle) = "connect" => m = "Connect" /\ addr["connect"] = d /\ ~dev[d].connected,
         UNCHANGED <<bus, default_ctrl, app_devs, default_dev, scanning, thread, gone, crashed>>
  PROVE  IInv'
<1> DEFINE S == [method : {m}, dev : {d}, live : {TRUE}]
<1>1. m \in Methods /\ {d} \in SUBSET (Devices \cup {None}) BY DEF Methods
<1>2. Callable(S) /\ IsABag(calls') /\ BagToSet(calls') = BagToSet(calls) \cup S
  BY <1>1, CallStep
<1>3. m = "Connect" => LiveConnect(d) \in S BY DEF LiveConnect
<1> HIDE DEF S
<1> QED BY <1>2, <1>3, CallbackStep

(* The main loop runs a callback.                                           *)
LEMMA DispatchStep ==
  ASSUME IInv, ~crashed, Dispatch
  PROVE  IInv'
<1> USE DEF IInv
<1>1. /\ Head(idle) \in Callbacks /\ (Head(idle) \in Addressed => addr[Head(idle)] \in Devices)
  <2>1. idle # << >> /\ idle \in Seq(Callbacks) BY DEF Dispatch, Types
  <2>2. Head(idle) = idle[1] /\ 1 \in 1 .. Len(idle) BY <2>1
  <2> QED BY <2>1, <2>2 DEF Types
<1>2. Callable({}) BY DEF Callable
<1>3. Methods = {"Connect", "Disconnect", "Pair", "RemoveDevice", "Discovery"}
  BY DEF Methods, DeviceMethods
<1>4. calls' = calls => BagToSet(calls') = BagToSet(calls) \cup {} /\ IsABag(calls')
  BY DEF Types
<1>5. CASE connect_by_address
  <2> DEFINE d == addr["connect"]
  <2>1. Head(idle) = "connect" /\ d \in Devices
    BY <1>1, <1>5 DEF connect_by_address, Addressed
  <2>2. CASE Found("connect") /\ ~dev[d].connected
    <3>1. calls' = Call("Connect", {d}) /\ asked' = asked
      BY <1>5, <2>2 DEF connect_by_address
    <3>2. dev[d].here BY <2>2 DEF Found, find_proxy_by_address
    <3> QED BY <1>5, <2>1, <2>2, <3>1, <3>2, DeviceCallStep
            DEF Dispatch, DeviceMethods, connect_by_address
  <2>3. CASE ~(Found("connect") /\ ~dev[d].connected)
    <3>1. calls' = calls /\ asked' = None
      BY <1>5, <2>3 DEF connect_by_address, Answer
    <3> QED BY <1>2, <1>4, <1>5, <3>1, CallbackStep DEF Dispatch, connect_by_address
  <2> QED BY <2>2, <2>3
<1>6. CASE bt_disconnect_by_address
  <2> DEFINE d == addr["disconnect"]
  <2>1. Head(idle) = "disconnect" /\ d \in Devices
    BY <1>1, <1>6 DEF bt_disconnect_by_address, Addressed
  <2>2. CASE Found("disconnect") /\ dev[d].connected
    <3>1. calls' = Call("Disconnect", {d}) BY <1>6, <2>2 DEF bt_disconnect_by_address
    <3>2. dev[d].here BY <2>2 DEF Found, find_proxy_by_address
    <3> QED BY <1>6, <2>1, <3>1, <3>2, DeviceCallStep
            DEF Dispatch, DeviceMethods, bt_disconnect_by_address
  <2>3. CASE ~(Found("disconnect") /\ dev[d].connected)
    BY <1>2, <1>4, <1>6, <2>3, CallbackStep DEF Dispatch, bt_disconnect_by_address
  <2> QED BY <2>2, <2>3
<1>7. CASE disconnect_current_devices
  <2>1. CASE default_dev # None
    <3>1. default_dev \in Devices /\ dev[default_dev].here
      BY <2>1 DEF Types, DefaultConnected, Mirror
    <3>2. calls' = Call("Disconnect", {default_dev})
      BY <1>7, <2>1 DEF disconnect_current_devices
    <3> QED BY <1>7, <3>1, <3>2, DeviceCallStep
            DEF Dispatch, DeviceMethods, disconnect_current_devices
  <2>2. CASE default_dev = None
    BY <1>2, <1>4, <1>7, <2>2, CallbackStep DEF Dispatch, disconnect_current_devices
  <2> QED BY <2>1, <2>2
<1>8. CASE pair_by_addr
  <2> DEFINE d == addr["pair"]
  <2>1. Head(idle) = "pair" /\ d \in Devices BY <1>1, <1>8 DEF pair_by_addr, Addressed
  <2>2. CASE Found("pair")
    <3>1. calls' = Call("Pair", {d}) BY <1>8, <2>2 DEF pair_by_addr
    <3>2. dev[d].here BY <2>2 DEF Found, find_proxy_by_address
    <3> QED BY <1>8, <2>1, <3>1, <3>2, DeviceCallStep
            DEF Dispatch, DeviceMethods, pair_by_addr
  <2>3. CASE ~Found("pair")
    BY <1>2, <1>4, <1>8, <2>3, CallbackStep DEF Dispatch, pair_by_addr
  <2> QED BY <2>2, <2>3
<1>9. CASE bt_remove_by_address \/ unpair_by_addr
  <2>1. PICK D \in SUBSET Devices : calls' = Call("RemoveDevice", D) \/ calls' = calls
    <3>1. CASE Head(idle) = "remove" /\ Found("remove")
      <4>1. {addr["remove"]} \in SUBSET Devices BY <1>1, <3>1 DEF Addressed
      <4> QED BY <1>9, <3>1, <4>1 DEF bt_remove_by_address, unpair_by_addr
    <3>2. CASE Head(idle) = "unpair" /\ Found("unpair")
      <4>1. {addr["unpair"]} \in SUBSET Devices BY <1>1, <3>2 DEF Addressed
      <4> QED BY <1>9, <3>2, <4>1 DEF bt_remove_by_address, unpair_by_addr
    <3>3. CASE ~(Head(idle) = "remove" /\ Found("remove")) /\ ~(Head(idle) = "unpair" /\ Found("unpair"))
      <4>1. {d \in Devices : dev[d].here} \in SUBSET Devices OBVIOUS
      <4> QED BY <1>9, <3>3, <4>1 DEF bt_remove_by_address, unpair_by_addr
    <3> QED BY <3>1, <3>2, <3>3
  <2>2. "RemoveDevice" \notin DeviceMethods BY DEF DeviceMethods
  <2>3. asked' = asked /\ UNCHANGED default_dev /\ Head(idle) # "connect"
    BY <1>9 DEF bt_remove_by_address, unpair_by_addr
  <2>4. CASE calls' = Call("RemoveDevice", D)
    BY <1>3, <2>2, <2>3, <2>4, CallStep, CallbackStep DEF Dispatch
  <2>5. CASE calls' = calls
    BY <1>2, <1>4, <2>3, <2>5, CallbackStep DEF Dispatch
  <2> QED BY <2>1, <2>4, <2>5
<1>10. CASE bt_start_discovery
  <2> DEFINE D == {d \in Devices : dev[d] = Present(FALSE, FALSE)}
             S == [method : {"RemoveDevice"}, dev : D, live : {TRUE}]
             T == [method : {"Discovery"}, dev : {None}, live : {TRUE}]
  <2>1. asked' = asked /\ UNCHANGED default_dev /\ Head(idle) # "connect"
    BY <1>10 DEF bt_start_discovery
  <2>2. CASE default_ctrl
    <3>1. calls' = Call("RemoveDevice", D) (+) SetToBag(T) BY <1>10, <2>2 DEF bt_start_discovery
    <3>2. "RemoveDevice" \notin DeviceMethods /\ "Discovery" \notin DeviceMethods BY DEF DeviceMethods
    <3>3. /\ Callable(S) /\ IsABag(Call("RemoveDevice", D))
          /\ BagToSet(Call("RemoveDevice", D)) = BagToSet(calls) \cup S
      <4>1. D \in SUBSET (Devices \cup {None}) OBVIOUS
      <4> QED BY <1>3, <3>2, <4>1, CallStep
    <3>4. Callable(T)
      <4>1. {None} \in SUBSET (Devices \cup {None}) OBVIOUS
      <4> QED BY <1>3, <3>2, <4>1, CallStep
    <3> HIDE DEF S, T, D
    <3>5. IsABag(calls') /\ BagToSet(calls') = BagToSet(calls) \cup (S \cup T)
      BY <3>1, <3>3, AddedCalls
    <3>6. Callable(S \cup T) BY <3>3, <3>4 DEF Callable
    <3> QED BY <2>1, <3>5, <3>6, CallbackStep DEF Dispatch
  <2>3. CASE ~default_ctrl
    BY <1>2, <1>4, <1>10, <2>1, <2>3, CallbackStep DEF Dispatch, bt_start_discovery
  <2> QED BY <2>2, <2>3
<1>11. CASE bt_cancel_discovery
  <2>1. asked' = asked /\ UNCHANGED default_dev /\ Head(idle) # "connect"
    BY <1>11 DEF bt_cancel_discovery
  <2>2. "Discovery" \notin DeviceMethods BY DEF DeviceMethods
  <2>3. CASE calls' = Call("Discovery", {None})
    BY <1>3, <2>1, <2>2, <2>3, CallStep, CallbackStep DEF Dispatch
  <2>4. CASE calls' = calls
    BY <1>2, <1>4, <2>1, <2>4, CallbackStep DEF Dispatch
  <2> QED BY <1>11, <2>3, <2>4 DEF bt_cancel_discovery, CmdScan
<1> QED BY <1>5, <1>6, <1>7, <1>8, <1>9, <1>10, <1>11 DEF Dispatch

(* A reply: of Connect, with the connection reported before it; or an error *)
(* that answers the request if its proxy is still there.                    *)
LEMMA ReplyStep ==
  ASSUME IInv, ~crashed, NEW c \in BagToSet(calls), Reply(c)
  PROVE  IInv'
<1> USE DEF IInv, bus
<1>1. /\ IsABag(calls') /\ BagToSet(calls') \subseteq BagToSet(calls)
      /\ \A e \in BagToSet(calls) : e # c => e \in BagToSet(calls')
  BY DroppedCall DEF Reply, Types
<1>2. c \in Calls /\ (c.method \in DeviceMethods => c.dev \in Devices) BY DEF Types
<1>3. /\ crashed' \in BOOLEAN /\ asked' \in {asked, None}
      /\ default_dev' \in {default_dev, None, c.dev}
      /\ default_dev' # default_dev /\ default_dev' # None => c.dev \in Devices /\ dev[c.dev].connected
  BY <1>2 DEF Reply, Succeeded, Failed, SetDefault, Answer, DeviceMethods, Types
<1>4. Types' BY <1>1, <1>3 DEF Reply, Types
<1>5. Mirror' BY DEF Reply, Mirror
<1>6. LiveHere' BY <1>1 DEF Reply, LiveHere
<1>7. DefaultConnected' BY <1>3 DEF Reply, DefaultConnected
<1>8. Pending'
  <2>1. UNCHANGED <<thread, idle, addr, gone, dev>> BY DEF Reply
  <2>2. (thread # None => asked \in {thread, None})' BY <1>3, <2>1 DEF Pending
  <2> SUFFICES ASSUME asked' # None, ~gone, ~Queued(asked), ~crashed'
               PROVE  LiveConnect(asked) \in BagToSet(calls') /\ ~dev[asked].connected
    BY <1>3, <2>1, <2>2 DEF Pending, Queued
  <2>3. asked' = asked BY <1>3
  <2>4. LiveConnect(asked) \in BagToSet(calls) /\ ~dev[asked].connected
    BY <2>3 DEF Pending
  <2>5. c # LiveConnect(asked)
    <3> SUFFICES ASSUME c = LiveConnect(asked) PROVE FALSE OBVIOUS
    <3>1. c.method = "Connect" /\ c.dev = asked /\ c.live /\ c.method \in DeviceMethods
      BY DEF LiveConnect, DeviceMethods
    <3>2. CASE Succeeded(c) BY <2>4, <3>1, <3>2 DEF Succeeded
    <3>3. CASE Failed(c) BY <2>3, <3>1, <3>3 DEF Failed, Answer
    <3> QED BY <3>2, <3>3 DEF Reply
  <2> QED BY <1>1, <2>4, <2>5
<1> QED BY <1>4, <1>5, <1>6, <1>7, <1>8

-----------------------------------------------------------------------------
(* IInv holds in every reachable state.                                     *)
THEOREM Invariance == Spec => []IInv
<1>1. Init => IInv
  <2> SUFFICES ASSUME Init PROVE IInv OBVIOUS
  <2>1. BagToSet(calls) = {} /\ IsABag(calls)
    BY DEF Init, EmptyBag, SetToBag, BagToSet, IsABag
  <2>2. Types
    <3>1. Absent \in Record BY DEF Absent, Record
    <3>2. idle \in Seq(Callbacks) /\ Len(idle) = 0 BY DEF Init
    <3>3. exported \in BOOLEAN /\ default_ctrl \in BOOLEAN /\ gone \in BOOLEAN /\ crashed \in BOOLEAN
      BY DEF Init
    <3>4. dev \in [Devices -> Record] /\ app_devs \in [Devices -> Record] BY <3>1 DEF Init
    <3>5. addr \in [Callbacks -> Devices \cup {None}] BY DEF Init
    <3>6. {default_dev, thread, asked} \subseteq Devices \cup {None} BY DEF Init
    <3>7. \A i \in 1 .. Len(idle) : FALSE BY <3>2
    <3> QED BY <2>1, <3>2, <3>3, <3>4, <3>5, <3>6, <3>7 DEF Types
  <2>3. Mirror BY DEF Init, Mirror, Absent
  <2>4. LiveHere /\ DefaultConnected /\ Pending
    BY <2>1 DEF Init, LiveHere, DefaultConnected, Pending
  <2> QED BY <2>2, <2>3, <2>4 DEF IInv
<1>2. IInv /\ [Next]_vars => IInv'
  <2> SUFFICES ASSUME IInv, [Next]_vars PROVE IInv' OBVIOUS
  <2>1. CASE UNCHANGED vars
    <3> USE <2>1 DEF vars, bus, registry, app
    <3>1. Types' BY DEF IInv, Types
    <3>2. Mirror' BY DEF IInv, Mirror
    <3>3. LiveHere' /\ DefaultConnected' /\ Pending'
      BY DEF IInv, LiveHere, DefaultConnected, Pending, Queued
    <3> QED BY <3>1, <3>2, <3>3 DEF IInv
  <2>2. CASE ~crashed /\ (Signal \/ App) /\ UNCHANGED crashed
    BY <2>2, SignalStep, AppStep
  <2>3. CASE ~crashed /\ Dispatch BY <2>3, DispatchStep
  <2>4. CASE ~crashed /\ \E c \in BagToSet(calls) : Reply(c) BY <2>4, ReplyStep
  <2> QED BY <2>1, <2>2, <2>3, <2>4 DEF Next
<1> QED BY <1>1, <1>2, PTL DEF Spec

(* The list the application is shown is the one bluetoothd exports          *)
(* (bt_get_devices; device_added, device_removed, adapter_removed).         *)
THEOREM RegistryCurrentHolds == Spec => []RegistryCurrent
<1>1. IInv => RegistryCurrent
  <2> SUFFICES ASSUME Mirror PROVE RegistryCurrent BY DEF IInv
  <2>1. \A d \in Devices : default_ctrl /\ app_devs[d].here <=> dev[d].here
    BY DEF Mirror
  <2>2. {e \in Devices : default_ctrl /\ app_devs[e].here} = {e \in Devices : dev[e].here}
    BY <2>1
  <2>3. \A d \in Devices : app_devs[d].paired = dev[d].paired BY DEF Mirror
  <2>4. bt_get_devices = {<<d, dev[d].paired>> : d \in {e \in Devices : dev[e].here}}
    BY <2>2, <2>3 DEF bt_get_devices
  <2> QED BY <2>4 DEF RegistryCurrent, Mirror
<1> QED BY <1>1, Invariance, PTL

(* default_dev is a live proxy of a connected device (set_default_device).  *)
THEOREM DefaultConnectedHolds == Spec => []DefaultConnected
<1>1. IInv => DefaultConnected BY DEF IInv
<1> QED BY <1>1, Invariance, PTL

(* A rk_bt_connect_by_addr is never dropped, however its answer, the        *)
(* signals and other requests interleave.                                   *)
THEOREM ConnectNotDroppedHolds == Spec => []ConnectNotDropped
<1>1. IInv => ConnectNotDropped
  <2> SUFFICES ASSUME Types, Pending PROVE ConnectNotDropped BY DEF IInv
  <2>1. ASSUME NEW i \in 1 .. Len(idle), idle[i] = "connect" PROVE "connect" \in Range(idle)
    <3>1. DOMAIN idle = 1 .. Len(idle) BY DEF Types
    <3> QED BY <2>1, <3>1 DEF Range
  <2> QED BY <2>1 DEF Pending, Queued, LiveConnect, ConnectNotDropped
<1> QED BY <1>1, Invariance, PTL
-----------------------------------------------------------------------------
(* Types IInv does not name: only a discovery is asked for without a        *)
(* device, RemoveDevice of the adapter included.                            *)
Rest ==
  /\ scanning \in BOOLEAN
  /\ \A c \in BagToSet(calls) : c.dev = None => c.method = "Discovery"

(* A call that loses its proxy stays the call it was.                       *)
LEMMA OrphanedFrom ==
  ASSUME Types, NEW D
  PROVE  \A e \in BagToSet(Orphan(D)) :
           \E c \in BagToSet(calls) : e.method = c.method /\ e.dev = c.dev
<1> DEFINE hit(c) == c.method \in DeviceMethods /\ c.dev \in D
           now(c) == [c EXCEPT !.live = c.live /\ ~hit(c)]
<1>1. BagToSet(Orphan(D)) = {now(c) : c \in BagToSet(calls)} BY DEF Orphan, BagToSet
<1>2. ASSUME NEW c \in BagToSet(calls) PROVE now(c).method = c.method /\ now(c).dev = c.dev
  BY DEF Types, Calls
<1> HIDE DEF now
<1> QED BY <1>1, <1>2

\* Only discoveries are called without a device.
Proper(B) == IsABag(B) /\ \A c \in BagToSet(B) : c.dev = None => c.method = "Discovery"

(* The calls of method m on the devices D.                                  *)
LEMMA CalledOn ==
  ASSUME NEW B, Proper(B), NEW m, NEW D, m = "Discovery" \/ None \notin D
  PROVE  Proper(B (+) SetToBag([method : {m}, dev : D, live : {TRUE}]))
<1> DEFINE S == [method : {m}, dev : D, live : {TRUE}]
           N == B (+) SetToBag(S)
<1>1. \A c \in S : c.method = m /\ c.dev \in D OBVIOUS
<1> HIDE DEF S
<1>2. IsABag(B) BY DEF Proper
<1>3. IsABag(N) /\ BagToSet(N) = BagToSet(B) \cup S BY <1>2, AddedCalls
<1> HIDE DEF N
<1>4. Proper(N) BY <1>1, <1>3 DEF Proper
<1> QED BY <1>4 DEF N, S

(* The callbacks.  A queued one that reads a buffer finds an address.       *)
LEMMA DispatchRest ==
  ASSUME IInv, Rest, Dispatch
  PROVE  Rest'
<1>1. /\ UNCHANGED scanning /\ idle # << >> /\ IsABag(calls)
      /\ None \notin Devices /\ Proper(calls)
  BY DevicesAssumption DEF Dispatch, Rest, IInv, Types, Proper
<1>2. Head(idle) \in Addressed => addr[Head(idle)] \in Devices
  <2>1. /\ idle \in Seq(Callbacks)
        /\ \A i \in 1 .. Len(idle) : idle[i] \in Addressed => addr[idle[i]] \in Devices
    BY DEF IInv, Types
  <2>2. 1 \in 1 .. Len(idle) /\ Head(idle) = idle[1] BY <1>1, <2>1
  <2> QED BY <2>1, <2>2
<1>3. default_dev \in Devices \cup {None} BY DEF IInv, Types
<1> DEFINE Added(m, D) == calls' = calls (+) SetToBag([method : {m}, dev : D, live : {TRUE}])
           Kept == Proper(calls')
<1>4. ASSUME NEW m, NEW D, Added(m, D), m = "Discovery" \/ None \notin D PROVE Kept
  BY <1>1, <1>4, CalledOn
<1>5. CASE UNCHANGED calls BY <1>1, <1>5 DEF BagToSet, Rest
<1>6. CASE connect_by_address /\ ~UNCHANGED calls
  <2>1. Head(idle) = "connect" /\ Added("Connect", {addr["connect"]})
    BY <1>6 DEF connect_by_address, Call
  <2>2. addr["connect"] \in Devices BY <1>2, <2>1 DEF Addressed
  <2> HIDE DEF Added, Kept
  <2>3. Kept BY <1>1, <1>4, <2>1, <2>2
  <2> QED BY <1>1, <2>3 DEF Kept, Rest, Proper, BagToSet
<1>7. CASE (bt_disconnect_by_address \/ disconnect_current_devices) /\ ~UNCHANGED calls
  <2>1. \E d \in Devices : Added("Disconnect", {d})
    <3>1. CASE bt_disconnect_by_address
      BY <1>2, <1>7, <3>1 DEF bt_disconnect_by_address, Call, Addressed
    <3>2. CASE disconnect_current_devices
      BY <1>3, <1>7, <3>2 DEF disconnect_current_devices, Call
    <3> QED BY <1>7, <3>1, <3>2
  <2> HIDE DEF Added, Kept
  <2>2. Kept BY <1>1, <1>4, <2>1
  <2> QED BY <1>1, <2>2 DEF Kept, Rest, Proper, BagToSet
<1>8. CASE pair_by_addr /\ ~UNCHANGED calls
  <2>1. Head(idle) = "pair" /\ Added("Pair", {addr["pair"]})
    BY <1>8 DEF pair_by_addr, Call
  <2>2. addr["pair"] \in Devices BY <1>2, <2>1 DEF Addressed
  <2> HIDE DEF Added, Kept
  <2>3. Kept BY <1>1, <1>4, <2>1, <2>2
  <2> QED BY <1>1, <2>3 DEF Kept, Rest, Proper, BagToSet
<1>9. CASE (bt_remove_by_address \/ unpair_by_addr) /\ ~UNCHANGED calls
  <2>1. \E D \in SUBSET Devices : Added("RemoveDevice", D)
    <3>1. CASE bt_remove_by_address /\ Head(idle) = "remove"
      <4>1. Added("RemoveDevice", {addr["remove"]})
        BY <1>9, <3>1 DEF bt_remove_by_address, Call
      <4>2. {addr["remove"]} \in SUBSET Devices BY <1>2, <3>1 DEF Addressed
      <4> QED BY <4>1, <4>2
    <3>2. CASE bt_remove_by_address /\ Head(idle) # "remove"
      <4>1. Added("RemoveDevice", {d \in Devices : dev[d].here})
        BY <1>9, <3>2 DEF bt_remove_by_address, Call
      <4> QED BY <4>1
    <3>3. CASE unpair_by_addr
      <4>1. Head(idle) = "unpair" /\ Added("RemoveDevice", {addr["unpair"]})
        BY <1>9, <3>3 DEF unpair_by_addr, Call
      <4>2. {addr["unpair"]} \in SUBSET Devices BY <1>2, <4>1 DEF Addressed
      <4> QED BY <4>1, <4>2
    <3> QED BY <1>9, <3>1, <3>2, <3>3
  <2>2. PICK D \in SUBSET Devices : Added("RemoveDevice", D) BY <2>1
  <2>3. None \notin D BY <1>1
  <2> HIDE DEF Added, Kept
  <2>4. Kept BY <1>4, <2>2, <2>3
  <2> QED BY <1>1, <2>4 DEF Kept, Rest, Proper, BagToSet
<1>10. CASE bt_start_discovery /\ ~UNCHANGED calls
  <2> DEFINE D == {d \in Devices : dev[d] = Present(FALSE, FALSE)}
             B == calls (+) SetToBag([method : {"RemoveDevice"}, dev : D, live : {TRUE}])
  <2>1. calls' = B (+) SetToBag([method : {"Discovery"}, dev : {None}, live : {TRUE}])
    BY <1>10 DEF bt_start_discovery, Call
  <2>2. None \notin D BY <1>1
  <2>3. Proper(B)
    <3> HIDE DEF D
    <3> QED BY <1>1, <2>2, CalledOn
  <2> HIDE DEF B
  <2>4. Proper(calls') BY <2>1, <2>3, CalledOn
  <2> QED BY <1>1, <2>4 DEF Rest, Proper, BagToSet
<1>11. CASE bt_cancel_discovery /\ ~UNCHANGED calls
  <2>1. Added("Discovery", {None}) BY <1>11 DEF bt_cancel_discovery, CmdScan, Call
  <2> HIDE DEF Added, Kept
  <2>2. Kept BY <1>4, <2>1
  <2> QED BY <1>1, <2>2 DEF Kept, Rest, Proper, BagToSet
<1> QED BY <1>5, <1>6, <1>7, <1>8, <1>9, <1>10, <1>11 DEF Dispatch

(* The signals of bluetoothd and the requests of the application.           *)
LEMMA SignalRest ==
  ASSUME IInv, Rest, Signal \/ App
  PROVE  Rest'
<1>1. CASE UNCHANGED <<calls, scanning>> BY <1>1 DEF Rest, BagToSet
<1>2. CASE DiscoveringChanged BY <1>2 DEF DiscoveringChanged, Rest, BagToSet
<1>3. ASSUME NEW D, calls' = Orphan(D), UNCHANGED scanning PROVE Rest'
  <2>1. \A e \in BagToSet(calls') :
          \E c \in BagToSet(calls) : e.method = c.method /\ e.dev = c.dev
    BY <1>3, OrphanedFrom DEF IInv
  <2> QED BY <1>3, <2>1 DEF Rest, BagToSet
<1>4. ASSUME calls' = calls (+) SetToBag([method : {"Discovery"}, dev : {None}, live : {TRUE}]),
             UNCHANGED scanning
      PROVE  Rest'
  <2>1. Proper(calls) BY DEF IInv, Types, Rest, Proper
  <2>2. Proper(calls') BY <1>4, <2>1, CalledOn
  <2> QED BY <1>4, <2>2 DEF Rest, Proper, BagToSet
<1>5. CASE Signal
  <2>1. CASE adapter_added \/ adapter_removed
    BY <1>1, <2>1 DEF adapter_added, adapter_removed
  <2>2. CASE service_disconnect BY <1>3, <2>2 DEF service_disconnect, Forget
  <2>3. ASSUME NEW d \in Devices,
               \/ device_added(d) \/ device_removed(d)
               \/ ConnectedChanged(d) \/ PairedChanged(d)
        PROVE  Rest'
    <3>1. CASE device_removed(d) BY <1>3, <3>1 DEF device_removed, Forget
    <3>2. CASE device_added(d) \/ ConnectedChanged(d) \/ PairedChanged(d)
      BY <1>1, <3>2 DEF device_added, ConnectedChanged, PairedChanged
    <3> QED BY <2>3, <3>1, <3>2
  <2> QED BY <1>2, <1>5, <2>1, <2>2, <2>3 DEF Signal
<1>6. CASE App
  <2>1. ASSUME NEW d \in Devices, rk_bt_connect_by_addr(d) PROVE Rest'
    <3>1. UNCHANGED scanning BY <2>1 DEF rk_bt_connect_by_addr
    <3>2. CASE UNCHANGED calls BY <1>1, <3>1, <3>2
    <3>3. CASE ~UNCHANGED calls
      BY <1>4, <2>1, <3>1, <3>3 DEF rk_bt_connect_by_addr, CmdScan, Call
    <3> QED BY <3>2, <3>3
  <2>2. ASSUME ~\E d \in Devices : rk_bt_connect_by_addr(d)
        PROVE  UNCHANGED <<calls, scanning>>
    BY <1>6, <2>2 DEF App, bt_get_dev_info, Request, PlainRequest, ConnectWaited, GiveUp
  <2> QED BY <1>1, <2>1, <2>2
<1> QED BY <1>5, <1>6

(* Whatever order signals, requests, callbacks and replies come in, the     *)
(* registry keeps its types, and a method of a device, or about one, is     *)
(* called with a device: disconnect_by_proxy, connect_by_address, cmd_pair  *)
(* and remove_device never meet a NULL proxy.                               *)
THEOREM DevicesTypes == Spec => []TypeOK
<1>1. Init => Rest BY DEF Init, Rest, EmptyBag, SetToBag, BagToSet
<1>2. IInv /\ Rest /\ [Next]_vars => Rest'
  <2> SUFFICES ASSUME IInv, Rest, [Next]_vars PROVE Rest' OBVIOUS
  <2>1. ASSUME NEW c \in BagToSet(calls), Reply(c) PROVE Rest'
    <3>1. calls' = calls (-) SetToBag({c}) /\ UNCHANGED scanning BY <2>1 DEF Reply
    <3>2. BagToSet(calls') \subseteq BagToSet(calls) BY <3>1, DroppedCall DEF IInv, Types
    <3> QED BY <3>1, <3>2 DEF Rest, BagToSet
  <2>2. CASE UNCHANGED vars BY <2>2 DEF vars, Rest, BagToSet
  <2> QED BY <2>1, <2>2, DispatchRest, SignalRest DEF Next
<1>3. IInv /\ Rest => TypeOK BY DEF IInv, Types, Rest, Calls, TypeOK
<1> QED BY <1>1, <1>2, <1>3, Invariance, PTL DEF Spec
=============================================================================
