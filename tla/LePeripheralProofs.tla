-------------------------- MODULE LePeripheralProofs --------------------------
(***************************************************************************)
(* The invariants of LePeripheral for any names, characteristics, values   *)
(* and queues.                                                             *)
(***************************************************************************)
EXTENDS LePeripheral, WellFoundedInduction, TLAPS

(* What is on the air was read from the object, and nothing is on the air   *)
(* outside a session, where alone the object changes.                       *)
AirInv ==
  /\ opened \in BOOLEAN /\ ctrl \in BOOLEAN /\ advertising \in BOOLEAN
  /\ ctrl \/ advertising => opened
  /\ advertising => on_air = local_name
  /\ ble_name # None => local_name = ble_name

NotifyInv == idle \in Seq({"start", "stop", "notify"}) /\ LastNotifyWins

Calls == {"register", "unregister", "register app", "unregister app"}
Messages == Replies \cup {"release", "manager added", "manager removed", "ignored"}
Added(m) == m = "manager added"
Removed(m) == m = "manager removed"
Registered(m) == m = "registered"
Answer(m) == m \in {"registered", "register failed"}

(* The messages tell what happened at bluetoothd.  C and V are the places in *)
(* the inbox after whose message it had a controller, and after whose       *)
(* message it advertised.                                                   *)
TellsCtrl(m, i, C) ==
  \/ m = "manager added" /\ i - 1 \notin C /\ i \in C
  \/ m = "manager removed" /\ i - 1 \in C /\ i \notin C
  \/ m = "registered" /\ i - 1 \in C /\ i \in C
  \/ m \in Messages \ {"manager added", "manager removed", "registered"}
     /\ (i - 1 \in C <=> i \in C)

TellsAdv(m, i, V) ==
  \/ m = "registered" /\ i - 1 \notin V /\ i \in V
  \/ m \in {"unregistered", "release"} /\ i - 1 \in V /\ i \notin V
  \/ m = "manager removed" /\ i \notin V
  \/ m \in {"manager added", "register failed", "unregister failed", "ignored"}
     /\ (i - 1 \in V <=> i \in V)

(* The first k messages are left over from the session before; the rest tell *)
(* the controller, and the advertising, from what the library believes to   *)
(* what bluetoothd has.                                                     *)
Tells(s, k, C, V) ==
  /\ \A i \in 1 .. k : s[i] \in Replies \cup {"ignored"}
  /\ \A i \in k + 1 .. Len(s) : TellsCtrl(s[i], i, C) /\ TellsAdv(s[i], i, V)

\* No message up to place i says that the manager is gone.
SameManager(s, i) == \A j \in 1 .. i : ~Removed(s[j])

\* With no manager the object is off the bus, and no answer comes after a new one.
NoManager ==
  /\ ~exported /\ ~registered
  /\ \A i \in 1 .. Len(calls) : calls[i] # "register"
  /\ \A i \in 1 .. Len(inbox) : ~Registered(inbox[i])
  /\ \A i, j \in 1 .. Len(inbox) : i < j /\ Added(inbox[i]) => ~Answer(inbox[j])

\* An answer of the manager the library knows finds the object on the bus, and
\* nothing was advertised before it; it is the only one.
AnswerExpected(V) ==
  \A i \in 1 .. Len(inbox) : Answer(inbox[i]) /\ SameManager(inbox, i) =>
    /\ exported /\ \A j \in 0 .. i - 1 : j \notin V
    /\ \A j \in 1 .. i - 1 : ~Answer(inbox[j])

\* So does a call on its way to that manager.
CallExpected(V) ==
  \A i \in 1 .. Len(calls) : calls[i] = "register" /\ SameManager(inbox, Len(inbox)) =>
    /\ exported /\ \A j \in 0 .. Len(inbox) : j \notin V
    /\ \A j \in 1 .. Len(inbox) : ~Answer(inbox[j])
    /\ \A j \in 1 .. Len(calls) : calls[j] = "register" => j = i

Believes(k, C, V) ==
  /\ Len(inbox) \in C <=> ctrl
  /\ Len(inbox) \in V <=> advertising
  /\ k \in C <=> ad_proxy
  /\ k > 0 => k \notin C /\ k \notin V
  /\ ~abandoned =>
       /\ k \in V <=> registered
       /\ registered => exported
       /\ ~ad_proxy => NoManager
       /\ ad_proxy => AnswerExpected(V) /\ CallExpected(V)

Agrees ==
  \E k \in 0 .. Len(inbox) : \E C, V \in SUBSET (0 .. Len(inbox)) :
    Tells(inbox, k, C, V) /\ Believes(k, C, V)

\* An exported object is registered or has an answer to come.
Tracked ==
  exported => \/ registered
              \/ \E i \in 1 .. Len(calls) : calls[i] = "register"
              \/ \E i \in 1 .. Len(inbox) : Answer(inbox[i])

(* A controller has the GATT table, or the table is on its way to it, or the *)
(* news of it is on its way to the library; and what the library sends to   *)
(* unregister the table comes before.                                       *)
TableSent ==
  \/ \E i \in 1 .. Len(calls) :
       /\ calls[i] = "register app"
       /\ \A j \in i + 1 .. Len(calls) : calls[j] # "unregister app"
  \/ gatt_app # "none" /\ \A j \in 1 .. Len(calls) : calls[j] # "unregister app"
TableInv ==
  ctrl => \/ \E i \in 1 .. Len(inbox) :
               /\ Added(inbox[i])
               /\ \A j \in i + 1 .. Len(inbox) : ~Removed(inbox[j])
          \/ SameManager(inbox, Len(inbox)) /\ TableSent

PeerInv ==
  /\ calls \in Seq(Calls) /\ inbox \in Seq(Messages)
  /\ ad_proxy \in BOOLEAN /\ exported \in BOOLEAN /\ registered \in BOOLEAN
  /\ abandoned \in BOOLEAN /\ ctrl \in BOOLEAN /\ advertising \in BOOLEAN
  /\ gatt_app \in {"none", "served", "refused"}
  /\ Agrees /\ Tracked /\ TableInv

\* The types PeerInv does not name.
RestInv ==
  /\ opened \in BOOLEAN /\ echoed \in BOOLEAN
  /\ ble_name \in Names \cup {None} /\ local_name \in Names \cup {None}
  /\ on_air \in Names \cup {None}
  /\ idle \in Seq({"start", "stop", "notify"})
  /\ ble_cfg \in Config \cup {None} /\ sent \in Config \cup {None}
  /\ notifying \subseteq Chrs /\ (notifying # {} => opened)

(* Removing the oldest callback, one that notifies nothing, leaves the      *)
(* notifications that wait.                                                 *)
LEMMA TailKeepsNotify ==
  ASSUME NEW s \in Seq({"start", "stop", "notify"}), s # << >>, Head(s) # "notify",
         "notify" \notin Range(Tail(s))
  PROVE  "notify" \notin Range(s)
<1> SUFFICES ASSUME NEW i \in 1 .. Len(s), s[i] = "notify" PROVE FALSE
  BY DEF Range
<1>1. i # 1 OBVIOUS
<1>2. i - 1 \in DOMAIN Tail(s) /\ Tail(s)[i - 1] = s[i] BY <1>1
<1> QED BY <1>2 DEF Range

(* A callback that was just queued waits.                                   *)
LEMMA AppendWaits ==
  ASSUME NEW S, NEW s \in Seq(S), NEW e \in S
  PROVE  Range(Append(s, e)) = Range(s) \cup {e}
<1>1. ASSUME NEW x \in Range(Append(s, e)) PROVE x \in Range(s) \cup {e}
  <2>1. PICK i \in 1 .. Len(s) + 1 : Append(s, e)[i] = x BY <1>1 DEF Range
  <2> QED BY <2>1 DEF Range
<1>2. ASSUME NEW x \in Range(s) PROVE x \in Range(Append(s, e))
  <2>1. PICK i \in 1 .. Len(s) : s[i] = x BY <1>2 DEF Range
  <2> QED BY <2>1 DEF Range
<1>3. e \in Range(Append(s, e))
  <2>1. Len(s) + 1 \in DOMAIN Append(s, e) /\ Append(s, e)[Len(s) + 1] = e OBVIOUS
  <2> QED BY <2>1 DEF Range
<1> QED BY <1>1, <1>2, <1>3

(* Every step of Next.                                                      *)
LEMMA AirStep ==
  ASSUME AirInv, [Next]_vars
  PROVE  AirInv'
<1>a. CASE UNCHANGED <<opened, content, ctrl, air>> BY <1>a DEF AirInv, content, air
<1> USE DEF content, ad, air, bluetoothd, gatt
<1>1. CASE TakeRegister
  <2>1. /\ UNCHANGED <<opened, content, ctrl>>
        /\ \/ ctrl /\ advertising' = TRUE /\ on_air' = local_name
           \/ UNCHANGED air
    BY <1>1 DEF TakeRegister, ad_properties
  <2>2. CASE ctrl /\ advertising' = TRUE /\ on_air' = local_name
    BY <2>1, <2>2, Zenon DEF AirInv
  <2> QED BY <1>a, <2>1, <2>2
<1>2. CASE TakeUnregister
  <2>1. UNCHANGED <<opened, content, ctrl, on_air>> /\ advertising' = FALSE
    BY <1>2 DEF TakeUnregister
  <2> QED BY <2>1 DEF AirInv
<1>3. CASE TakeRegisterApp \/ TakeUnregisterApp
  BY <1>a, <1>3 DEF TakeRegisterApp, TakeUnregisterApp
<1>4. CASE DropAdvertisement BY <1>4 DEF AirInv, DropAdvertisement
<1>5. CASE ControllerLost \/ ControllerFound
  <2>1. /\ UNCHANGED <<opened, content, on_air>>
        /\ \/ ctrl' = FALSE /\ advertising' = FALSE
           \/ opened /\ ctrl' = TRUE /\ UNCHANGED advertising
    BY <1>5 DEF ControllerLost, ControllerFound
  <2>2. CASE ctrl' = FALSE /\ advertising' = FALSE BY <2>1, <2>2 DEF AirInv
  <2>3. CASE opened /\ ctrl' = TRUE /\ UNCHANGED advertising
    BY <2>1, <2>3, Zenon DEF AirInv
  <2> QED BY <2>1, <2>2, <2>3
<1>6. CASE Read BY <1>a, <1>6 DEF Read
<1>7. CASE Dispatch BY <1>a, <1>7 DEF Dispatch
<1>8. CASE bluetooth_close
  <2>1. UNCHANGED content /\ opened' = FALSE /\ ctrl' = FALSE /\ advertising' = FALSE
    BY <1>8 DEF bluetooth_close
  <2> QED BY <2>1 DEF AirInv
<1>9. ASSUME NEW n, bluetooth_open(n) PROVE AirInv'
  BY <1>9 DEF AirInv, bluetooth_open, iBle_init_adv
<1>10. ASSUME NEW c, chrc_start_notify(c) \/ chrc_stop_notify(c) PROVE AirInv'
  BY <1>a, <1>10 DEF chrc_start_notify, chrc_stop_notify
<1>11. ASSUME NEW r, Advertise(r) PROVE AirInv' BY <1>a, <1>11 DEF Advertise
<1>12. ASSUME NEW cfg, rk_ble_send_notify(cfg) \/ chr_write_value(cfg) PROVE AirInv'
  BY <1>a, <1>12 DEF rk_ble_send_notify, chr_write_value
<1>13. CASE UNCHANGED vars BY <1>a, <1>13 DEF vars
<1> QED BY <1>1, <1>2, <1>3, <1>4, <1>5, <1>6, <1>7, <1>8, <1>9, <1>10, <1>11, <1>12,
           <1>13 DEF Next

(* Idle callbacks.                                                          *)
LEMMA DispatchStep ==
  ASSUME NotifyInv, Dispatch
  PROVE  NotifyInv'
<1> DEFINE T == {"start", "stop", "notify"}
<1>1. idle \in Seq(T) /\ idle # << >> BY DEF NotifyInv, Dispatch
<1>2. Tail(idle) \in Seq(T) /\ Head(idle) \in T BY <1>1
<1>3. CASE ad_register \/ ad_unregister
  <2>1. idle' = Tail(idle) /\ Head(idle) # "notify" /\ UNCHANGED gatt
    BY <1>3 DEF ad_register, ad_unregister
  <2>2. "notify" \notin Range(idle') => "notify" \notin Range(idle)
    BY <1>1, <2>1, TailKeepsNotify
  <2> QED BY <1>2, <2>1, <2>2 DEF NotifyInv, LastNotifyWins, gatt
<1>4. CASE gatt_write_data /\ opened /\ ble_cfg.uuid \in Chrs
  <2>1. idle' = Tail(idle) /\ sent' = ble_cfg /\ UNCHANGED ble_cfg
    BY <1>4 DEF gatt_write_data, chr_write
  <2> QED BY <1>2, <2>1 DEF NotifyInv, LastNotifyWins
<1>5. CASE gatt_write_data /\ ~(opened /\ ble_cfg.uuid \in Chrs)
  <2>1. idle' = Append(Tail(idle), "notify") BY <1>5 DEF gatt_write_data
  <2>2. idle' \in Seq(T) BY <1>2, <2>1
  <2>3. "notify" \in T OBVIOUS
  <2> HIDE DEF T
  <2>4. Range(Append(Tail(idle), "notify")) = Range(Tail(idle)) \cup {"notify"}
    <3> DEFINE t == Tail(idle)
    <3>1. t \in Seq(T) BY <1>2
    <3> HIDE DEF t
    <3>2. Range(Append(t, "notify")) = Range(t) \cup {"notify"} BY <2>3, <3>1, AppendWaits
    <3> QED BY <3>2 DEF t
  <2>5. "notify" \in Range(idle') BY <2>1, <2>4, Zenon
  <2> QED BY <2>2, <2>5 DEF NotifyInv, LastNotifyWins, T
<1> QED BY <1>3, <1>4, <1>5 DEF Dispatch

(* Every step of Next: most leave the notifications alone.                  *)
LEMMA NotifyStep ==
  ASSUME NotifyInv, [Next]_vars
  PROVE  NotifyInv'
<1> USE DEF content, ad, air, bluetoothd, gatt
<1>1. CASE UNCHANGED <<idle, ble_cfg, sent, echoed>>
  BY <1>1 DEF NotifyInv, LastNotifyWins
<1>2. ASSUME NEW r \in {"start", "stop"}, Advertise(r) PROVE NotifyInv'
  <2>1. idle' = Append(idle, r) /\ UNCHANGED gatt BY <1>2 DEF Advertise
  <2>2. idle' \in Seq({"start", "stop", "notify"}) BY <2>1 DEF NotifyInv
  <2>3. "notify" \in Range(idle') <=> "notify" \in Range(idle)
    BY <2>1, AppendWaits DEF NotifyInv
  <2> QED BY <2>1, <2>2, <2>3 DEF NotifyInv, LastNotifyWins
<1>3. ASSUME NEW cfg, rk_ble_send_notify(cfg) PROVE NotifyInv'
  <2>1. idle' = Append(idle, "notify") BY <1>3 DEF rk_ble_send_notify
  <2>2. idle' \in Seq({"start", "stop", "notify"}) BY <2>1 DEF NotifyInv
  <2>3. "notify" \in Range(idle') BY <2>1, AppendWaits DEF NotifyInv
  <2> QED BY <2>2, <2>3 DEF NotifyInv, LastNotifyWins
<1>4. ASSUME NEW cfg, chr_write_value(cfg) PROVE NotifyInv'
  BY <1>4 DEF chr_write_value, NotifyInv, LastNotifyWins
<1>5. CASE Dispatch BY <1>5, DispatchStep
<1>6. CASE \/ TakeRegister \/ TakeUnregister \/ TakeRegisterApp \/ TakeUnregisterApp
           \/ DropAdvertisement \/ ControllerLost \/ ControllerFound
  BY <1>1, <1>6 DEF TakeRegister, TakeUnregister, TakeRegisterApp, TakeUnregisterApp,
     DropAdvertisement, ControllerLost, ControllerFound
<1>7. CASE Read BY <1>1, <1>7 DEF Read
<1>8. CASE bluetooth_close BY <1>1, <1>8 DEF bluetooth_close
<1>9. ASSUME NEW n, bluetooth_open(n) PROVE NotifyInv' BY <1>1, <1>9 DEF bluetooth_open
<1>10. ASSUME NEW c, chrc_start_notify(c) \/ chrc_stop_notify(c) PROVE NotifyInv'
  BY <1>1, <1>10 DEF chrc_start_notify, chrc_stop_notify
<1>11. CASE UNCHANGED vars BY <1>1, <1>11 DEF vars
<1> QED BY <1>2, <1>3, <1>4, <1>5, <1>6, <1>7, <1>8, <1>9, <1>10, <1>11 DEF Next

-----------------------------------------------------------------------------
(* What the messages tell.                                                  *)

(* Where a property comes to hold, it starts to hold somewhere.             *)
LEMMA Rise ==
  ASSUME NEW X, NEW a \in Nat, NEW b \in Nat, a <= b, a \notin X, b \in X
  PROVE  \E j \in a + 1 .. b : j - 1 \notin X /\ j \in X
<1> DEFINE T == {x \in a .. b : x \in X}
           R == {q \in Nat \X Nat : q[1] < q[2]}
<1>1. IsWellFoundedOn(R, Nat) BY NatLessThanWellFounded DEF OpToRel
<1>2. T \subseteq Nat /\ T # {} OBVIOUS
<1>3. \A m, n \in Nat : m < n => <<m, n>> \in R OBVIOUS
<1> HIDE DEF R, T
<1>4. PICK j \in T : \A i \in T : ~(<<i, j>> \in R) BY <1>1, <1>2, WFMin
<1>5. j \in a + 1 .. b /\ j \in X BY <1>4 DEF T
<1>6. j - 1 \in Nat /\ j - 1 < j /\ j - 1 \in a .. b /\ j \in Nat BY <1>5
<1>7. j - 1 \notin T BY <1>3, <1>4, <1>6
<1> QED BY <1>5, <1>6, <1>7 DEF T

(* One more message tells one more place.                                   *)
LEMMA TellsAppend ==
  ASSUME NEW s \in Seq(Messages), NEW m \in Messages, NEW k \in 0 .. Len(s),
         NEW C, NEW V, NEW C2, NEW V2, Tells(s, k, C, V),
         \A i \in 0 .. Len(s) : (i \in C2 <=> i \in C) /\ (i \in V2 <=> i \in V),
         TellsCtrl(m, Len(s) + 1, C2), TellsAdv(m, Len(s) + 1, V2)
  PROVE  Tells(Append(s, m), k, C2, V2)
<1> DEFINE n == Len(s)
           t == Append(s, m)
<1>1. n \in Nat /\ Len(t) = n + 1 /\ t[n + 1] = m /\ \A i \in 1 .. n : t[i] = s[i]
  OBVIOUS
<1> HIDE DEF t
<1>2. \A i \in 1 .. k : t[i] \in Replies \cup {"ignored"} BY <1>1 DEF Tells
<1>3. ASSUME NEW i \in k + 1 .. n + 1 PROVE TellsCtrl(t[i], i, C2) /\ TellsAdv(t[i], i, V2)
  <2>1. CASE i = n + 1 BY <1>1, <2>1
  <2>2. CASE i # n + 1
    <3>1. i \in k + 1 .. n /\ i \in 1 .. n /\ i \in 0 .. n /\ i - 1 \in 0 .. n BY <1>1, <2>2
    <3>2. TellsCtrl(s[i], i, C) /\ TellsAdv(s[i], i, V) BY <3>1 DEF Tells
    <3>3. t[i] = s[i] BY <1>1, <3>1
    <3>4. TellsCtrl(s[i], i, C2) BY <3>1, <3>2 DEF TellsCtrl
    <3>5. TellsAdv(s[i], i, V2) BY <3>1, <3>2 DEF TellsAdv
    <3> QED BY <3>3, <3>4, <3>5
  <2> QED BY <2>1, <2>2
<1> QED BY <1>1, <1>2, <1>3 DEF Tells, t

Shift(X, n) == {i \in 0 .. n : i + 1 \in X}

(* The places move down when the first message has been read.               *)
LEMMA TellsTail ==
  ASSUME NEW s \in Seq(Messages), s # << >>, NEW k \in 0 .. Len(s), NEW k2 \in Nat,
         k2 = (IF k = 0 THEN 0 ELSE k - 1),
         NEW C, NEW V, Tells(s, k, C, V)
  PROVE  Tells(Tail(s), k2, Shift(C, Len(s) - 1), Shift(V, Len(s) - 1))
<1> DEFINE n == Len(s)
           t == Tail(s)
           C2 == Shift(C, n - 1)
           V2 == Shift(V, n - 1)
<1>1. n \in Nat \ {0} /\ Len(t) = n - 1 /\ \A i \in 1 .. n - 1 : t[i] = s[i + 1]
  OBVIOUS
<1>2. \A i \in 0 .. n - 1 : (i \in C2 <=> i + 1 \in C) /\ (i \in V2 <=> i + 1 \in V)
  BY DEF Shift
<1> HIDE DEF n, t, C2, V2
<1>3. ASSUME NEW i \in 1 .. k2 PROVE t[i] \in Replies \cup {"ignored"}
  <2>1. i \in 1 .. n - 1 /\ i + 1 \in 1 .. k BY <1>1 DEF n
  <2> QED BY <1>1, <2>1 DEF Tells
<1>4. ASSUME NEW i \in k2 + 1 .. n - 1 PROVE TellsCtrl(t[i], i, C2) /\ TellsAdv(t[i], i, V2)
  <2>1. /\ i \in 1 .. n - 1 /\ i + 1 \in k + 1 .. n
        /\ i \in 0 .. n - 1 /\ i - 1 \in 0 .. n - 1 /\ (i + 1) - 1 = i /\ (i - 1) + 1 = i
    BY <1>1 DEF n
  <2>2. TellsCtrl(s[i + 1], i + 1, C) /\ TellsAdv(s[i + 1], i + 1, V)
    BY <2>1 DEF Tells, n
  <2>3. TellsCtrl(s[i + 1], i, C2) BY <1>2, <2>1, <2>2 DEF TellsCtrl
  <2>4. TellsAdv(s[i + 1], i, V2) BY <1>2, <2>1, <2>2 DEF TellsAdv
  <2> QED BY <1>1, <2>1, <2>3, <2>4
<1> QED BY <1>1, <1>3, <1>4 DEF Tells, C2, V2, n, t

-----------------------------------------------------------------------------
(* The steps of bluetoothd.                                                 *)

\* What bluetoothd does to its controller and its advertising as it sends m.
SendsCtrl(m) ==
  \/ m = "manager added" /\ ~ctrl /\ ctrl'
  \/ m = "registered" /\ ctrl /\ ctrl'
  \/ m \notin {"manager added", "manager removed", "registered"} /\ (ctrl' <=> ctrl)
SendsAdv(m) ==
  \/ m = "registered" /\ ~advertising /\ advertising'
  \/ m \in {"unregistered", "release"} /\ advertising /\ ~advertising'
  \/ m \notin {"registered", "unregistered", "release"} /\ (advertising' <=> advertising)

\* The message is sent, and a call may be taken for it; an answer takes its own.
Sends(m) ==
  /\ inbox' = Append(inbox, m)
  /\ calls' = calls \/ (calls # << >> /\ calls' = Tail(calls))
  /\ Answer(m) => calls # << >> /\ Head(calls) = "register" /\ calls' = Tail(calls)

(* A message of bluetoothd other than the loss of the manager.              *)
LEMMA AgreesAppend ==
  ASSUME PeerInv, UNCHANGED <<ad_proxy, exported, registered, abandoned>>,
         NEW m \in Messages, Sends(m), SendsCtrl(m), SendsAdv(m)
  PROVE  Agrees'
<1> DEFINE n == Len(inbox)
<1>1. PICK k \in 0 .. n : \E C, V \in SUBSET (0 .. n) : Tells(inbox, k, C, V) /\ Believes(k, C, V)
  BY DEF PeerInv, Agrees
<1>2. PICK C \in SUBSET (0 .. n), V \in SUBSET (0 .. n) :
        Tells(inbox, k, C, V) /\ Believes(k, C, V)
  BY <1>1
<1>3. n \in Nat BY DEF PeerInv
<1>a. inbox \in Seq(Messages) /\ calls \in Seq(Calls) BY DEF PeerInv
<1>4. Len(inbox') = n + 1 /\ inbox'[n + 1] = m /\ \A i \in 1 .. n : inbox'[i] = inbox[i]
  <2>1. inbox' = Append(inbox, m) BY DEF Sends
  <2> QED BY <1>a, <2>1
<1>5. PICK d \in {0, 1} :
        \A i \in 1 .. Len(calls') : i + d \in 1 .. Len(calls) /\ calls'[i] = calls[i + d]
  <2>1. CASE calls' = calls
    <3>1. \A i \in 1 .. Len(calls') : i + 0 \in 1 .. Len(calls) /\ calls'[i] = calls[i + 0]
      BY <1>a, <2>1
    <3> QED BY <3>1
  <2>2. CASE calls # << >> /\ calls' = Tail(calls)
    <3>1. \A i \in 1 .. Len(calls') : i + 1 \in 1 .. Len(calls) /\ calls'[i] = calls[i + 1]
      BY <1>a, <2>2
    <3> QED BY <3>1
  <2> QED BY <2>1, <2>2 DEF Sends
<1>6. Answer(m) => /\ 1 \in 1 .. Len(calls) /\ calls[1] = "register"
                   /\ \A i \in 1 .. Len(calls') :
                        i + 1 \in 1 .. Len(calls) /\ calls'[i] = calls[i + 1]
  <2> SUFFICES ASSUME Answer(m)
               PROVE  /\ 1 \in 1 .. Len(calls) /\ calls[1] = "register"
                      /\ \A i \in 1 .. Len(calls') :
                           i + 1 \in 1 .. Len(calls) /\ calls'[i] = calls[i + 1]
    OBVIOUS
  <2>1. calls # << >> /\ Head(calls) = "register" /\ calls' = Tail(calls) BY DEF Sends
  <2>2. /\ 1 \in 1 .. Len(calls) /\ calls[1] = Head(calls)
        /\ \A i \in 1 .. Len(Tail(calls)) :
             i + 1 \in 1 .. Len(calls) /\ Tail(calls)[i] = calls[i + 1]
    BY <1>a, <2>1
  <2> QED BY <2>1, <2>2
<1>7. Len(calls') \in Nat
  <2>1. CASE calls' = calls BY <1>a, <2>1
  <2>2. CASE calls # << >> /\ calls' = Tail(calls) BY <1>a, <2>2
  <2> QED BY <2>1, <2>2 DEF Sends
<1>8. PICK C2 \in SUBSET (0 .. n + 1), V2 \in SUBSET (0 .. n + 1) :
           /\ (n + 1 \in C2 <=> ctrl') /\ (n + 1 \in V2 <=> advertising')
           /\ \A i \in 0 .. n : (i \in C2 <=> i \in C) /\ (i \in V2 <=> i \in V)
  <2> DEFINE X == IF ctrl' THEN C \cup {n + 1} ELSE C
             Y == IF advertising' THEN V \cup {n + 1} ELSE V
  <2>1. X \in SUBSET (0 .. n + 1) /\ Y \in SUBSET (0 .. n + 1)
    <3>1. n + 1 \in 0 .. n + 1 /\ C \subseteq 0 .. n + 1 /\ V \subseteq 0 .. n + 1 BY <1>3
    <3>2. C \cup {n + 1} \subseteq 0 .. n + 1 /\ V \cup {n + 1} \subseteq 0 .. n + 1 BY <3>1
    <3> QED BY <3>1, <3>2
  <2>2. (n + 1 \in X <=> ctrl') /\ (n + 1 \in Y <=> advertising') BY <1>3
  <2>3. \A i \in 0 .. n : (i \in X <=> i \in C) /\ (i \in Y <=> i \in V) BY <1>3
  <2> QED BY <2>1, <2>2, <2>3
<1> HIDE DEF n
<1>9. /\ n \in C <=> ctrl
      /\ n \in V <=> advertising
  BY <1>2 DEF Believes, n
<1>10. TellsCtrl(m, n + 1, C2)
  <2>1. (n + 1) - 1 = n /\ n \in 0 .. n BY <1>3
  <2> QED BY <1>8, <1>9, <2>1 DEF TellsCtrl, SendsCtrl
<1>11. TellsAdv(m, n + 1, V2)
  <2>1. (n + 1) - 1 = n /\ n \in 0 .. n BY <1>3
  <2> QED BY <1>8, <1>9, <2>1 DEF TellsAdv, SendsAdv, SendsCtrl, Messages, Replies
<1>12. Tells(inbox', k, C2, V2)
  <2>1. Tells(Append(inbox, m), k, C2, V2)
    BY <1>2, <1>8, <1>10, <1>11, <1>a, TellsAppend DEF n
  <2> QED BY <2>1 DEF Sends
<1>13. \A i \in 0 .. n : SameManager(inbox', i) => SameManager(inbox, i)
  BY <1>3, <1>4 DEF SameManager
<1>14. SameManager(inbox', n + 1) => SameManager(inbox, n)
  BY <1>3, <1>4 DEF SameManager
<1>15. ASSUME ~abandoned, ~ad_proxy PROVE NoManager'
  <2>1. NoManager BY <1>2, <1>15 DEF Believes
  <2>2. ~Answer(m) BY <1>6, <2>1 DEF NoManager
  <2>3. \A i \in 1 .. Len(calls') : calls'[i] # "register" BY <1>5, <2>1 DEF NoManager
  <2>4. \A i \in 1 .. n + 1 : ~Registered(inbox'[i])
    <3>1. ~Registered(m) BY <2>2 DEF Answer, Registered
    <3>2. \A i \in 1 .. n : ~Registered(inbox[i]) BY <2>1 DEF NoManager, n
    <3> QED BY <1>3, <1>4, <3>1, <3>2
  <2>5. ASSUME NEW i \in 1 .. n + 1, NEW j \in 1 .. n + 1, i < j, Added(inbox'[i])
        PROVE  ~Answer(inbox'[j])
    <3>1. CASE j = n + 1 BY <1>4, <2>2, <3>1
    <3>2. CASE j # n + 1
      <4>1. i \in 1 .. n /\ j \in 1 .. n BY <1>3, <2>5, <3>2
      <4> QED BY <1>4, <2>1, <2>5, <4>1 DEF NoManager, n
    <3> QED BY <3>1, <3>2
  <2> QED BY <1>4, <2>1, <2>3, <2>4, <2>5 DEF NoManager, Answer, Added, Registered
<1>16. ASSUME ~abandoned, ad_proxy PROVE AnswerExpected(V2)' /\ CallExpected(V2)'
  <2>1. AnswerExpected(V) /\ CallExpected(V) BY <1>2, <1>16 DEF Believes
  <2>2. ASSUME NEW i \in 1 .. n + 1, Answer(inbox'[i]), SameManager(inbox', i)
        PROVE  /\ exported /\ \A j \in 0 .. i - 1 : j \notin V2
               /\ \A j \in 1 .. i - 1 : ~Answer(inbox'[j])
    <3>1. CASE i = n + 1
      <4>1. Answer(m) /\ SameManager(inbox, n) BY <1>4, <1>14, <2>2, <3>1
      <4>2. /\ exported /\ \A j \in 0 .. n : j \notin V
            /\ \A j \in 1 .. n : ~Answer(inbox[j])
        BY <1>6, <2>1, <4>1 DEF CallExpected, n
      <4>3. i - 1 = n BY <1>3, <3>1
      <4> QED BY <1>4, <1>8, <4>2, <4>3
    <3>2. CASE i # n + 1
      <4>1. i \in 1 .. n /\ i \in 0 .. n /\ Answer(inbox[i]) BY <1>3, <1>4, <2>2, <3>2
      <4>2. SameManager(inbox, i) BY <1>13, <2>2, <4>1
      <4>3. /\ exported /\ \A j \in 0 .. i - 1 : j \notin V
            /\ \A j \in 1 .. i - 1 : ~Answer(inbox[j])
        BY <2>1, <4>1, <4>2 DEF AnswerExpected, n
      <4>4. \A j \in 0 .. i - 1 : j \in 0 .. n BY <1>3, <4>1
      <4>5. \A j \in 1 .. i - 1 : j \in 1 .. n BY <1>3, <4>1
      <4> QED BY <1>4, <1>8, <4>3, <4>4, <4>5
    <3> QED BY <3>1, <3>2
  <2>3. ASSUME NEW i \in 1 .. Len(calls'), calls'[i] = "register", SameManager(inbox', n + 1)
        PROVE  /\ exported /\ \A j \in 0 .. n + 1 : j \notin V2
               /\ \A j \in 1 .. n + 1 : ~Answer(inbox'[j])
               /\ \A j \in 1 .. Len(calls') : calls'[j] = "register" => j = i
    <3>1. i + d \in 1 .. Len(calls) /\ calls[i + d] = "register" BY <1>5, <2>3
    <3>2. /\ exported /\ \A j \in 0 .. n : j \notin V
          /\ \A j \in 1 .. n : ~Answer(inbox[j])
          /\ \A j \in 1 .. Len(calls) : calls[j] = "register" => j = i + d
      BY <1>14, <2>1, <2>3, <3>1 DEF CallExpected, n
    <3>3. ~Answer(m)
      <4> SUFFICES ASSUME Answer(m) PROVE FALSE OBVIOUS
      <4>1. i + 1 \in 1 .. Len(calls) /\ calls[i + 1] = "register" /\ i + 1 # 1
        BY <1>6, <1>7, <2>3
      <4> QED BY <1>6, <3>2, <4>1
    <3>4. n + 1 \notin V2
      <4>1. ~advertising BY <1>3, <1>9, <3>2
      <4> QED BY <1>8, <3>3, <4>1 DEF Answer, SendsAdv
    <3>5. \A j \in 0 .. n + 1 : j \in 0 .. n \/ j = n + 1 BY <1>3
    <3>6. \A j \in 1 .. n + 1 : j \in 1 .. n \/ j = n + 1 BY <1>3
    <3>7. ASSUME NEW j \in 1 .. Len(calls'), calls'[j] = "register" PROVE j = i
      <4>1. j + d \in 1 .. Len(calls) /\ calls[j + d] = "register" BY <1>5, <3>7
      <4>2. j + d = i + d BY <3>2, <4>1
      <4> QED BY <1>7, <4>2
    <3> QED BY <1>4, <1>8, <3>2, <3>3, <3>4, <3>5, <3>6, <3>7
  <2> QED BY <1>4, <2>2, <2>3 DEF AnswerExpected, CallExpected, Answer, SameManager, Removed
<1>17. Believes(k, C2, V2)'
  <2>1. k \in 0 .. n /\ (k \in C2 <=> k \in C) /\ (k \in V2 <=> k \in V)
    BY <1>1, <1>8 DEF n
  <2>2. (k \in C <=> ad_proxy) /\ (k > 0 => k \notin C /\ k \notin V)
        /\ (~abandoned => (k \in V <=> registered) /\ (registered => exported))
    BY <1>2 DEF Believes
  <2> QED BY <1>4, <1>8, <1>15, <1>16, <2>1, <2>2 DEF Believes
<1>18. k \in 0 .. n + 1 BY <1>1, <1>3 DEF n
<1> QED BY <1>4, <1>8, <1>12, <1>17, <1>18 DEF Agrees

(* Calls that are taken, or sent, other than registrations.                 *)
LEMMA AgreesCalls ==
  ASSUME PeerInv,
         UNCHANGED <<ad_proxy, exported, registered, abandoned, ctrl, advertising, inbox>>,
         NEW d \in {0, 1},
         \A i \in 1 .. Len(calls') : calls'[i] = "register" =>
           i + d \in 1 .. Len(calls) /\ calls[i + d] = "register",
         Len(calls') \in Nat
  PROVE  Agrees'
<1> DEFINE n == Len(inbox)
<1>1. PICK k \in 0 .. n : \E C, V \in SUBSET (0 .. n) : Tells(inbox, k, C, V) /\ Believes(k, C, V)
  BY DEF PeerInv, Agrees
<1>2. PICK C \in SUBSET (0 .. n), V \in SUBSET (0 .. n) :
        Tells(inbox, k, C, V) /\ Believes(k, C, V)
  BY <1>1
<1>3. NoManager => NoManager' BY DEF NoManager, Registered, Added, Answer
<1>4. AnswerExpected(V) => AnswerExpected(V)' BY DEF AnswerExpected, Answer, SameManager, Removed
<1>5. ASSUME CallExpected(V), NEW i \in 1 .. Len(calls'), calls'[i] = "register",
             SameManager(inbox, n)
      PROVE  /\ exported /\ \A j \in 0 .. n : j \notin V
             /\ \A j \in 1 .. n : ~Answer(inbox[j])
             /\ \A j \in 1 .. Len(calls') : calls'[j] = "register" => j = i
  <2>1. /\ exported /\ \A j \in 0 .. n : j \notin V
        /\ \A j \in 1 .. n : ~Answer(inbox[j])
        /\ \A j \in 1 .. Len(calls) : calls[j] = "register" => j = i + d
    BY <1>5 DEF CallExpected
  <2>2. ASSUME NEW j \in 1 .. Len(calls'), calls'[j] = "register" PROVE j = i
    <3>1. j + d = i + d BY <2>1, <2>2
    <3> QED BY <3>1
  <2> QED BY <2>1, <2>2
<1>6. CallExpected(V) => CallExpected(V)'
  BY <1>5 DEF CallExpected, Answer, SameManager, Removed
<1>7. Believes(k, C, V)' BY <1>2, <1>3, <1>4, <1>6 DEF Believes
<1>8. Tells(inbox, k, C, V)' BY <1>2
<1> QED BY <1>2, <1>7, <1>8 DEF Agrees

ErrorReplies == {"register failed", "unregister failed", "ignored"}

(* What is left of the calls when the manager goes.                         *)
LEMMA ErrorsOf ==
  ASSUME NEW s \in Seq(Calls)
  PROVE  /\ Errors(s) \in Seq(ErrorReplies)
         /\ Len(Errors(s)) = Len(s)
         /\ \A i \in 1 .. Len(s) : Answer(Errors(s)[i]) => s[i] = "register"
         /\ \A i \in 1 .. Len(s) : s[i] = "register" => Answer(Errors(s)[i])
<1>1. DOMAIN s = 1 .. Len(s) /\ Len(s) \in Nat OBVIOUS
<1>2. \A i \in 1 .. Len(s) :
        Errors(s)[i] = (CASE s[i] = "register" -> "register failed"
                          [] s[i] = "unregister" -> "unregister failed"
                          [] OTHER -> "ignored")
  BY <1>1 DEF Errors
<1>3. \A i \in 1 .. Len(s) :
        /\ Errors(s)[i] \in ErrorReplies
        /\ Errors(s)[i] = "register failed" <=> s[i] = "register"
        /\ Errors(s)[i] # "registered"
  BY <1>2 DEF ErrorReplies
<1>4. Errors(s) = [i \in 1 .. Len(s) |-> Errors(s)[i]] BY <1>1 DEF Errors
<1>5. Errors(s) \in [1 .. Len(s) -> ErrorReplies]
  BY <1>3, <1>4
<1>6. Errors(s) \in Seq(ErrorReplies)
      /\ Len(Errors(s)) = Len(s)
  <2>1. \A M, f, n : n \in Nat /\ f \in [1 .. n -> M] => f \in Seq(M) /\ Len(f) = n
    OBVIOUS
  <2> QED BY <1>1, <1>5, <2>1, Zenon
<1> QED BY <1>3, <1>6 DEF Answer

(* The start of an advertisement, with the manager the library knows.       *)
LEMMA AgreesRegister ==
  ASSUME PeerInv, UNCHANGED <<ad_proxy, registered, abandoned, ctrl, advertising, inbox>>,
         ad_proxy, ~registered, ~exported, exported', calls' = Append(calls, "register")
  PROVE  Agrees'
<1> DEFINE n == Len(inbox)
<1>1. PICK k \in 0 .. n : \E C, V \in SUBSET (0 .. n) : Tells(inbox, k, C, V) /\ Believes(k, C, V)
  BY DEF PeerInv, Agrees
<1>2. PICK C \in SUBSET (0 .. n), V \in SUBSET (0 .. n) :
        Tells(inbox, k, C, V) /\ Believes(k, C, V)
  BY <1>1
<1>3. n \in Nat BY DEF PeerInv
<1>4. k = 0 BY <1>1, <1>2, <1>3 DEF Believes
<1>5. /\ Len(calls') = Len(calls) + 1 /\ Len(calls) \in Nat
      /\ \A i \in 1 .. Len(calls) : calls'[i] = calls[i]
  <2>1. calls \in Seq(Calls) BY DEF PeerInv
  <2> QED BY <2>1
<1>6. ASSUME ~abandoned PROVE AnswerExpected(V)' /\ CallExpected(V)'
  <2>1. 0 \notin V /\ AnswerExpected(V) /\ CallExpected(V) BY <1>2, <1>4, <1>6 DEF Believes
  <2>2. \A i \in 1 .. n : ~(Answer(inbox[i]) /\ SameManager(inbox, i))
    BY <2>1 DEF AnswerExpected
  <2>3. AnswerExpected(V)' BY <2>2 DEF AnswerExpected, Answer, SameManager, Removed
  <2>4. ASSUME SameManager(inbox, n)
        PROVE  /\ \A j \in 0 .. n : j \notin V
               /\ \A j \in 1 .. n : ~Answer(inbox[j])
               /\ \A i \in 1 .. Len(calls) : calls[i] # "register"
    <3>1. \A j \in 1 .. n : SameManager(inbox, j) BY <1>3, <2>4 DEF SameManager
    <3>2. \A j \in 1 .. n : ~Answer(inbox[j]) BY <2>2, <3>1
    <3>3. ASSUME NEW j \in 0 .. n, j \in V PROVE FALSE
      <4>1. PICK i \in 0 + 1 .. j : i - 1 \notin V /\ i \in V BY <1>3, <2>1, <3>3, Rise
      <4>2. i \in k + 1 .. n /\ i \in 1 .. n BY <1>3, <1>4
      <4>3. TellsAdv(inbox[i], i, V) BY <1>2, <4>2 DEF Tells
      <4>4. Answer(inbox[i]) BY <4>1, <4>3 DEF TellsAdv, Answer
      <4> QED BY <3>2, <4>2, <4>4
    <3>4. \A i \in 1 .. Len(calls) : calls[i] # "register" BY <2>1, <2>4 DEF CallExpected
    <3> QED BY <3>2, <3>3, <3>4
  <2>5. ASSUME NEW i \in 1 .. Len(calls'), calls'[i] = "register", SameManager(inbox, n)
        PROVE  \A j \in 1 .. Len(calls') : calls'[j] = "register" => j = i
    <3>1. \A j \in 1 .. Len(calls') : calls'[j] = "register" => j = Len(calls) + 1
      BY <1>5, <2>4, <2>5
    <3> QED BY <2>5, <3>1
  <2>6. CallExpected(V)'
    BY <2>4, <2>5 DEF CallExpected, Answer, SameManager, Removed
  <2> QED BY <2>3, <2>6
<1>7. Believes(k, C, V)' BY <1>2, <1>6 DEF Believes
<1>8. Tells(inbox, k, C, V)' BY <1>2
<1> QED BY <1>2, <1>7, <1>8 DEF Agrees

(* A queue and what is put behind it.                                       *)
LEMMA ConcatOf ==
  ASSUME NEW M, NEW s \in Seq(M), NEW t \in Seq(M)
  PROVE  /\ s \o t \in Seq(M) /\ Len(s \o t) = Len(s) + Len(t)
         /\ \A i \in 1 .. Len(s) : (s \o t)[i] = s[i]
         /\ \A i \in 1 .. Len(t) : (s \o t)[Len(s) + i] = t[i]
OBVIOUS

(* The loss of the manager, with the answers to the calls it leaves behind. *)
LEMMA AgreesLost ==
  ASSUME PeerInv, ControllerLost
  PROVE  Agrees'
<1> DEFINE n == Len(inbox)
           c == Len(calls)
<1>1. PICK k \in 0 .. n : \E C, V \in SUBSET (0 .. n) : Tells(inbox, k, C, V) /\ Believes(k, C, V)
  BY DEF PeerInv, Agrees
<1>2. PICK C \in SUBSET (0 .. n), V \in SUBSET (0 .. n) :
        Tells(inbox, k, C, V) /\ Believes(k, C, V)
  BY <1>1
<1>3. inbox \in Seq(Messages) /\ calls \in Seq(Calls) /\ n \in Nat /\ c \in Nat BY DEF PeerInv
<1>4. /\ ctrl /\ ~ctrl' /\ ~advertising' /\ calls' = << >>
      /\ UNCHANGED <<ad_proxy, exported, registered, abandoned>>
  BY DEF ControllerLost, ad
<1>5. PICK m, F : /\ m = "manager removed" /\ F = Errors(calls)
                  /\ inbox' = Append(inbox, m) \o F
  BY DEF ControllerLost
<1>6. /\ F \in Seq(ErrorReplies) /\ Len(F) = c
      /\ \A i \in 1 .. c : Answer(F[i]) => calls[i] = "register"
  BY <1>3, <1>5, ErrorsOf
<1>7. /\ Len(inbox') = n + 1 + c /\ \A i \in 1 .. n : inbox'[i] = inbox[i]
      /\ inbox'[n + 1] = m /\ \A i \in 1 .. c : inbox'[n + 1 + i] = F[i]
  <2>1. m \in Messages BY <1>5 DEF Messages
  <2>2. F \in Seq(Messages)
    <3>1. ErrorReplies \subseteq Messages BY DEF ErrorReplies, Messages, Replies
    <3>2. \A A, B : A \subseteq B => Seq(A) \subseteq Seq(B) OBVIOUS
    <3> QED BY <1>6, <3>1, <3>2, Zenon
  <2> DEFINE a == Append(inbox, m)
  <2>3. /\ a \in Seq(Messages) /\ Len(a) = n + 1 /\ a[n + 1] = m
        /\ \A i \in 1 .. n : a[i] = inbox[i]
    BY <1>3, <2>1
  <2>4. inbox' = a \o F BY <1>5
  <2> HIDE DEF a, n, c
  <2>5. /\ Len(a \o F) = Len(a) + Len(F) /\ \A i \in 1 .. Len(a) : (a \o F)[i] = a[i]
        /\ \A i \in 1 .. Len(F) : (a \o F)[Len(a) + i] = F[i]
    <3>1. a \in Seq(Messages) BY <2>3
    <3> QED BY <2>2, <3>1, ConcatOf
  <2>6. n + 1 \in 1 .. n + 1 /\ \A i \in 1 .. n : i \in 1 .. n + 1 BY <1>3
  <2>7. Len(F) = c BY <1>6
  <2> QED BY <2>3, <2>4, <2>5, <2>6, <2>7
<1>8. /\ Removed(m) /\ ~Answer(m) /\ ~Registered(m)
      /\ \A i \in 1 .. c : F[i] \in ErrorReplies /\ ~Registered(F[i]) /\ ~Added(F[i])
  <2>1. Removed(m) /\ ~Answer(m) /\ ~Registered(m) BY <1>5 DEF Removed, Answer, Registered
  <2>2. \A x \in ErrorReplies : ~Registered(x) /\ ~Added(x)
    BY DEF ErrorReplies, Registered, Added
  <2>3. \A i \in 1 .. c : F[i] \in ErrorReplies BY <1>6
  <2> QED BY <2>1, <2>2, <2>3
<1>9. \A i \in 1 .. Len(inbox') :
        i \in 1 .. n \/ i = n + 1 \/ \E j \in 1 .. c : i = n + 1 + j
  <2> SUFFICES ASSUME NEW i \in 1 .. Len(inbox'), i \notin 1 .. n, i # n + 1
               PROVE  \E j \in 1 .. c : i = n + 1 + j
    OBVIOUS
  <2>1. i - (n + 1) \in 1 .. c /\ i = n + 1 + (i - (n + 1)) BY <1>3, <1>7
  <2> QED BY <2>1
<1> HIDE DEF n, c
<1>10. Tells(inbox', k, C, V)
  <2>1. ASSUME NEW i \in 1 .. k PROVE inbox'[i] \in Replies \cup {"ignored"}
    <3>1. i \in 1 .. n BY <1>1, <1>3
    <3> QED BY <1>2, <1>7, <3>1 DEF Tells
  <2>2. ASSUME NEW i \in k + 1 .. Len(inbox')
        PROVE  TellsCtrl(inbox'[i], i, C) /\ TellsAdv(inbox'[i], i, V)
    <3>1. i \in 1 .. Len(inbox') BY <1>1, <1>3
    <3>2. CASE i \in 1 .. n
      <4>1. i \in k + 1 .. Len(inbox) BY <1>3, <3>2 DEF n
      <4> QED BY <1>2, <1>7, <3>2, <4>1 DEF Tells
    <3>3. CASE i = n + 1
      <4>1. i - 1 = n /\ i \notin C /\ i \notin V BY <1>2, <1>3, <3>3
      <4>2. n \in C BY <1>2, <1>4 DEF Believes, n
      <4>3. TellsCtrl(m, i, C) /\ TellsAdv(m, i, V) BY <1>5, <4>1, <4>2 DEF TellsCtrl, TellsAdv
      <4> QED BY <1>7, <3>3, <4>3
    <3>4. ASSUME NEW j \in 1 .. c, i = n + 1 + j
          PROVE  TellsCtrl(inbox'[i], i, C) /\ TellsAdv(inbox'[i], i, V)
      <4>1. i \notin C /\ i - 1 \notin C /\ i \notin V /\ i - 1 \notin V
        BY <1>2, <1>3, <3>4
      <4>2. F[j] \in ErrorReplies BY <1>8
      <4>3. \A x \in ErrorReplies : TellsCtrl(x, i, C) /\ TellsAdv(x, i, V)
        BY <4>1 DEF TellsCtrl, TellsAdv, ErrorReplies, Messages, Replies
      <4> QED BY <1>7, <3>4, <4>2, <4>3
    <3> QED BY <1>9, <3>1, <3>2, <3>3, <3>4
  <2> QED BY <2>1, <2>2 DEF Tells
<1>11. ASSUME NoManager PROVE NoManager'
  <2>1. \A i \in 1 .. Len(inbox') : ~Registered(inbox'[i])
    BY <1>7, <1>8, <1>9, <1>11 DEF NoManager, n
  <2>2. ASSUME NEW i \in 1 .. Len(inbox'), NEW j \in 1 .. Len(inbox'), i < j,
               Added(inbox'[i])
        PROVE  ~Answer(inbox'[j])
    <3> SUFFICES ASSUME Answer(inbox'[j]) PROVE FALSE OBVIOUS
    <3>1. j \in 1 .. n
      <4>1. \A x \in 1 .. c : ~Answer(F[x]) BY <1>6, <1>11 DEF NoManager, c
      <4> QED BY <1>7, <1>8, <1>9, <2>2, <4>1
    <3>2. i \in 1 .. n BY <1>3, <2>2, <3>1
    <3> QED BY <1>7, <1>11, <2>2, <3>1, <3>2 DEF NoManager, n
  <2>3. \A i \in 1 .. Len(calls') : calls'[i] # "register" BY <1>4
  <2>4. ~exported' /\ ~registered' BY <1>4, <1>11 DEF NoManager
  <2> QED BY <2>1, <2>2, <2>3, <2>4, Zenon DEF NoManager, Answer, Added, Registered
<1>12. \A i \in 1 .. Len(inbox') : SameManager(inbox', i) => i \in 1 .. n /\ SameManager(inbox, i)
  <2> SUFFICES ASSUME NEW i \in 1 .. Len(inbox'), SameManager(inbox', i)
               PROVE  i \in 1 .. n /\ SameManager(inbox, i)
    OBVIOUS
  <2>1. n + 1 \notin 1 .. i BY <1>7, <1>8 DEF SameManager
  <2>2. i \in 1 .. n BY <1>3, <1>7, <2>1
  <2>3. \A j \in 1 .. i : j \in 1 .. n BY <1>3, <2>2
  <2> QED BY <1>7, <2>2, <2>3 DEF SameManager
<1>13. ASSUME AnswerExpected(V) PROVE AnswerExpected(V)'
  <2> SUFFICES ASSUME NEW i \in 1 .. Len(inbox'), Answer(inbox'[i]), SameManager(inbox', i)
               PROVE  /\ exported' /\ \A j \in 0 .. i - 1 : j \notin V
                      /\ \A j \in 1 .. i - 1 : ~Answer(inbox'[j])
    BY DEF AnswerExpected, Answer, SameManager, Removed
  <2>1. i \in 1 .. n /\ SameManager(inbox, i) BY <1>12
  <2>2. /\ exported /\ \A j \in 0 .. i - 1 : j \notin V
        /\ \A j \in 1 .. i - 1 : ~Answer(inbox[j])
    BY <1>7, <1>13, <2>1 DEF AnswerExpected, n
  <2>3. \A j \in 1 .. i - 1 : j \in 1 .. n BY <1>3, <2>1
  <2> QED BY <1>4, <1>7, <2>2, <2>3
<1>14. CallExpected(V)'
  <2>1. Len(calls') = 0 BY <1>4
  <2> QED BY <2>1 DEF CallExpected
<1>15. Believes(k, C, V)'
  <2>1. Len(inbox') \notin C /\ Len(inbox') \notin V BY <1>2, <1>3, <1>7
  <2> QED BY <1>2, <1>4, <1>11, <1>13, <1>14, <2>1 DEF Believes
<1>16. /\ k \in 0 .. Len(inbox')
       /\ C \in SUBSET (0 .. Len(inbox')) /\ V \in SUBSET (0 .. Len(inbox'))
  BY <1>1, <1>2, <1>3, <1>7
<1> QED BY <1>10, <1>15, <1>16 DEF Agrees

(* The end of the session: what is left in the queue tells nothing.         *)
LEMMA AgreesClose ==
  ASSUME PeerInv, bluetooth_close
  PROVE  Agrees'
<1> DEFINE n == Len(inbox)
           c == Len(calls)
           W == RemoveWatches(inbox)
           F == Errors(calls)
<1>1. inbox \in Seq(Messages) /\ calls \in Seq(Calls) /\ n \in Nat /\ c \in Nat BY DEF PeerInv
<1>2. /\ ~ctrl' /\ ~advertising' /\ calls' = << >>
      /\ ~ad_proxy' /\ ~exported' /\ ~registered'
      /\ inbox' = W \o F
  BY DEF bluetooth_close, ad_release
<1>3. /\ F \in Seq(ErrorReplies) /\ Len(F) = c
  BY <1>1, ErrorsOf
<1>4. /\ W \in Seq(Replies \cup {"ignored"}) /\ Len(W) = n
      /\ \A i \in 1 .. n : Registered(W[i]) => Registered(inbox[i])
  <2>1. W = [i \in 1 .. n |-> IF inbox[i] \in Replies THEN inbox[i] ELSE "ignored"]
    BY <1>1 DEF RemoveWatches
  <2> HIDE DEF W
  <2>2. W \in [1 .. n -> Replies \cup {"ignored"}] BY <2>1
  <2>3. \A M, f, x : x \in Nat /\ f \in [1 .. x -> M] => f \in Seq(M) /\ Len(f) = x
    OBVIOUS
  <2>4. W \in Seq(Replies \cup {"ignored"}) /\ Len(W) = n BY <1>1, <2>2, <2>3, Zenon
  <2>5. \A i \in 1 .. n : W[i] = IF inbox[i] \in Replies THEN inbox[i] ELSE "ignored"
    BY <2>1
  <2>6. \A i \in 1 .. n : Registered(W[i]) => Registered(inbox[i])
    <3> HIDE DEF n
    <3> QED BY <2>5 DEF Registered
  <2> QED BY <2>4, <2>6
<1> HIDE DEF W, F
<1>5. /\ Len(inbox') = n + c /\ \A i \in 1 .. n : inbox'[i] = W[i]
      /\ \A i \in 1 .. c : inbox'[n + i] = F[i]
  <2>2. F \in Seq(Replies \cup {"ignored"})
    <3>1. ErrorReplies \subseteq Replies \cup {"ignored"} BY DEF ErrorReplies, Replies
    <3>2. \A A, B : A \subseteq B => Seq(A) \subseteq Seq(B) OBVIOUS
    <3> QED BY <1>3, <3>1, <3>2, Zenon
  <2>3. /\ Len(W \o F) = Len(W) + Len(F) /\ \A i \in 1 .. Len(W) : (W \o F)[i] = W[i]
        /\ \A i \in 1 .. Len(F) : (W \o F)[Len(W) + i] = F[i]
    <3> DEFINE M == Replies \cup {"ignored"}
    <3>1. W \in Seq(M) /\ F \in Seq(M) BY <1>4, <2>2
    <3> HIDE DEF M
    <3> QED BY <3>1, ConcatOf
  <2>4. Len(W) = n /\ Len(F) = c BY <1>3, <1>4
  <2> QED BY <1>2, <2>3, <2>4
<1>6. \A i \in 1 .. Len(inbox') : i \in 1 .. n \/ \E j \in 1 .. c : i = n + j
  <2> SUFFICES ASSUME NEW i \in 1 .. Len(inbox'), i \notin 1 .. n
               PROVE  \E j \in 1 .. c : i = n + j
    OBVIOUS
  <2>1. i - n \in 1 .. c /\ i = n + (i - n) BY <1>1, <1>5
  <2> QED BY <2>1
<1> HIDE DEF n, c
<1>7. \A i \in 1 .. n : W[i] \in Replies \cup {"ignored"}
  BY <1>4
<1>8. \A i \in 1 .. c : F[i] \in Replies \cup {"ignored"} /\ ~Registered(F[i])
  <2>1. \A i \in 1 .. c : F[i] \in ErrorReplies BY <1>3
  <2>2. \A x \in ErrorReplies : x \in Replies \cup {"ignored"} /\ ~Registered(x)
    BY DEF ErrorReplies, Replies, Registered
  <2> QED BY <2>1, <2>2
<1>9. \A i \in 1 .. Len(inbox') : inbox'[i] \in Replies \cup {"ignored"}
  BY <1>5, <1>6, <1>7, <1>8
<1>10. PICK x : x = Len(inbox') OBVIOUS
<1>11. ASSUME ~abandoned' PROVE NoManager'
  <2>1. \A i \in 1 .. n : ~Registered(inbox[i])
    <3>1. "registered" \notin Range(inbox) BY <1>11 DEF bluetooth_close
    <3>2. DOMAIN inbox = 1 .. n BY <1>1 DEF n
    <3> QED BY <3>1, <3>2, Zenon DEF Range, Registered
  <2>2. \A i \in 1 .. Len(inbox') : ~Registered(inbox'[i])
    BY <1>4, <1>5, <1>6, <1>8, <2>1
  <2>3. \A i \in 1 .. Len(inbox') : ~Added(inbox'[i])
    <3>1. \A y \in Replies \cup {"ignored"} : ~Added(y) BY DEF Replies, Added
    <3> QED BY <1>9, <3>1
  <2>4. \A i \in 1 .. Len(calls') : calls'[i] # "register" BY <1>2
  <2> QED BY <1>2, <2>2, <2>3, <2>4, Zenon DEF NoManager, Answer, Added, Registered
<1>12. Believes(x, {}, {})' BY <1>2, <1>11 DEF Believes
<1>13. x \in Nat BY <1>1, <1>5, <1>10
<1>14. Tells(inbox', x, {}, {})
  <2>1. x + 1 .. x = {} BY <1>13
  <2> QED BY <1>9, <1>10, <2>1 DEF Tells
<1>15. x \in 0 .. x /\ {} \in SUBSET (0 .. x) BY <1>13
<1> QED BY <1>10, <1>12, <1>14, <1>15 DEF Agrees

-----------------------------------------------------------------------------
(* The messages of bluetoothd, as they are read.                            *)

\* The first message is read; no registration is sent for it.
Takes ==
  /\ inbox # << >> /\ inbox' = Tail(inbox)
  /\ UNCHANGED <<ctrl, advertising>>
  /\ \A i \in 1 .. Len(calls') :
       calls'[i] = "register" => i \in 1 .. Len(calls) /\ calls[i] = "register"

\* The library knows no manager, or a manager it expects the answers of.
Settled(V) ==
  /\ ~ad_proxy => NoManager
  /\ ad_proxy => AnswerExpected(V) /\ CallExpected(V)

(* What the rest of the inbox tells.                                        *)
LEMMA AgreesTail ==
  ASSUME PeerInv, Takes, NEW k \in 0 .. Len(inbox), NEW k2 \in Nat,
         k2 = (IF k = 0 THEN 0 ELSE k - 1),
         NEW C \in SUBSET (0 .. Len(inbox)), NEW V \in SUBSET (0 .. Len(inbox)),
         Tells(inbox, k, C, V), Believes(k, C, V),
         NEW V2, V2 = Shift(V, Len(inbox) - 1),
         k2 + 1 \in C <=> ad_proxy', k2 > 0 => k2 + 1 \notin C /\ k2 + 1 \notin V,
         ~abandoned' => /\ k2 + 1 \in V <=> registered'
                        /\ registered' => exported'
                        /\ Settled(V2)'
  PROVE  Agrees'
<1> DEFINE n == Len(inbox)
<1> PICK C2 : C2 = Shift(C, n - 1) OBVIOUS
<1>1. inbox \in Seq(Messages) /\ inbox # << >> /\ inbox' = Tail(inbox) BY DEF PeerInv, Takes
<1>2. n \in Nat \ {0} /\ Len(inbox') = n - 1 BY <1>1
<1>3. Tells(inbox', k2, C2, V2) BY <1>1, TellsTail
<1> HIDE DEF n
<1>4. /\ k2 \in 0 .. n - 1 /\ n - 1 \in 0 .. n - 1
      /\ C2 \in SUBSET (0 .. n - 1) /\ V2 \in SUBSET (0 .. n - 1)
  BY <1>2 DEF Shift, n
<1>5. /\ k2 \in C2 <=> k2 + 1 \in C
      /\ k2 \in V2 <=> k2 + 1 \in V
      /\ n - 1 \in C2 <=> n \in C
      /\ n - 1 \in V2 <=> n \in V
  BY <1>2, <1>4 DEF Shift, n
<1>6. (n \in C <=> ctrl') /\ (n \in V <=> advertising')
  BY DEF Believes, Takes, n
<1>7. Believes(k2, C2, V2)' BY <1>2, <1>5, <1>6 DEF Believes, Settled
<1> QED BY <1>2, <1>3, <1>4, <1>7 DEF Agrees

(* Without a manager nothing new is expected.                               *)
LEMMA NoManagerTail ==
  ASSUME PeerInv, Takes, NoManager, ~exported', ~registered'
  PROVE  NoManager'
<1> DEFINE n == Len(inbox)
<1>1. inbox \in Seq(Messages) /\ inbox # << >> /\ inbox' = Tail(inbox) BY DEF PeerInv, Takes
<1>2. n \in Nat \ {0} /\ Len(inbox') = n - 1 /\ \A i \in 1 .. n - 1 : inbox'[i] = inbox[i + 1]
  BY <1>1
<1>3. \A i \in 1 .. Len(calls') : calls'[i] # "register" BY DEF Takes, NoManager
<1>4. \A i \in 1 .. n - 1 : i + 1 \in 1 .. n BY <1>2
<1>5. \A i \in 1 .. n - 1 : ~Registered(inbox'[i]) BY <1>2, <1>4 DEF NoManager
<1>6. ASSUME NEW i \in 1 .. n - 1, NEW j \in 1 .. n - 1, i < j, Added(inbox'[i])
      PROVE  ~Answer(inbox'[j])
  <2>1. i + 1 \in 1 .. n /\ j + 1 \in 1 .. n /\ i + 1 < j + 1 BY <1>2, <1>6
  <2>2. inbox'[i] = inbox[i + 1] /\ inbox'[j] = inbox[j + 1] BY <1>2
  <2> QED BY <1>6, <2>1, <2>2 DEF NoManager
<1> HIDE DEF n
<1> QED BY <1>2, <1>3, <1>5, <1>6, Zenon DEF NoManager, Answer, Added, Registered

(* With the same manager, what was expected behind the message is expected  *)
(* still.                                                                   *)
LEMMA ExpectedTail ==
  ASSUME PeerInv, Takes, ~Removed(inbox[1]), NEW V, AnswerExpected(V), CallExpected(V),
         NEW V2, V2 = Shift(V, Len(inbox) - 1),
         exported /\ 0 \notin V /\ ~Answer(inbox[1]) => exported'
  PROVE  AnswerExpected(V2)' /\ CallExpected(V2)'
<1> DEFINE n == Len(inbox)
<1>1. inbox \in Seq(Messages) /\ inbox # << >> /\ inbox' = Tail(inbox) BY DEF PeerInv, Takes
<1>2. n \in Nat \ {0} /\ Len(inbox') = n - 1 /\ \A i \in 1 .. n - 1 : inbox'[i] = inbox[i + 1]
  BY <1>1
<1>3. \A j \in 0 .. n - 1 : j \in V2 <=> j + 1 \in V BY DEF Shift
<1>a. Len(inbox) = n OBVIOUS
<1> HIDE DEF n
<1>4. ASSUME NEW i \in 0 .. n - 1, SameManager(inbox', i) PROVE SameManager(inbox, i + 1)
  <2> SUFFICES ASSUME NEW j \in 1 .. i + 1 PROVE ~Removed(inbox[j]) BY DEF SameManager
  <2>1. CASE j = 1 BY <2>1
  <2>2. CASE j # 1
    <3>1. j - 1 \in 1 .. i /\ j - 1 \in 1 .. n - 1 /\ (j - 1) + 1 = j BY <1>2, <2>2
    <3> QED BY <1>2, <1>4, <3>1 DEF SameManager
  <2> QED BY <2>1, <2>2
<1>5. ASSUME NEW i \in 0 .. n - 1, \A j \in 0 .. i : j + 1 \notin V
      PROVE  \A j \in 0 .. i : j \notin V2
  BY <1>2, <1>3, <1>5
<1>6. ASSUME NEW i \in 1 .. n - 1, Answer(inbox'[i]), SameManager(inbox', i)
      PROVE  /\ exported' /\ \A j \in 0 .. i - 1 : j \notin V2
             /\ \A j \in 1 .. i - 1 : ~Answer(inbox'[j])
  <2>1. /\ i + 1 \in 1 .. n /\ i \in 0 .. n - 1 /\ i - 1 \in 0 .. n - 1
        /\ (i + 1) - 1 = i /\ 0 \in 0 .. i /\ 1 \in 1 .. i
    BY <1>2
  <2>2. Answer(inbox[i + 1]) /\ SameManager(inbox, i + 1) BY <1>2, <1>4, <1>6, <2>1
  <2>3. /\ exported /\ \A j \in 0 .. i : j \notin V
        /\ \A j \in 1 .. i : ~Answer(inbox[j])
    BY <1>a, <2>1, <2>2 DEF AnswerExpected
  <2>4. exported' BY <2>1, <2>3
  <2>5. \A j \in 0 .. i - 1 : j + 1 \notin V
    <3>1. \A j \in 0 .. i - 1 : j + 1 \in 0 .. i BY <2>1
    <3> QED BY <2>3, <3>1
  <2>6. \A j \in 1 .. i - 1 : j \in 1 .. n - 1 /\ j + 1 \in 1 .. i BY <1>2, <2>1
  <2> QED BY <1>2, <1>5, <2>1, <2>3, <2>4, <2>5, <2>6
<1>7. ASSUME NEW i \in 1 .. Len(calls'), calls'[i] = "register", SameManager(inbox', n - 1)
      PROVE  /\ exported' /\ \A j \in 0 .. n - 1 : j \notin V2
             /\ \A j \in 1 .. n - 1 : ~Answer(inbox'[j])
             /\ \A j \in 1 .. Len(calls') : calls'[j] = "register" => j = i
  <2>1. n - 1 \in 0 .. n - 1 /\ (n - 1) + 1 = n /\ 0 \in 0 .. n /\ 1 \in 1 .. n BY <1>2
  <2>2. i \in 1 .. Len(calls) /\ calls[i] = "register" BY <1>7 DEF Takes
  <2>3. SameManager(inbox, n) BY <1>4, <1>7, <2>1
  <2>4. /\ exported /\ \A j \in 0 .. n : j \notin V
        /\ \A j \in 1 .. n : ~Answer(inbox[j])
        /\ \A j \in 1 .. Len(calls) : calls[j] = "register" => j = i
    BY <1>a, <2>2, <2>3 DEF CallExpected
  <2>5. exported' BY <2>1, <2>4
  <2>6. \A j \in 0 .. n - 1 : j + 1 \notin V
    <3>1. \A j \in 0 .. n - 1 : j + 1 \in 0 .. n BY <1>2
    <3> QED BY <2>4, <3>1
  <2>7. \A j \in 1 .. n - 1 : j + 1 \in 1 .. n BY <1>2
  <2>8. \A j \in 1 .. Len(calls') : calls'[j] = "register" => j = i BY <2>4 DEF Takes
  <2> QED BY <1>2, <1>5, <2>1, <2>4, <2>5, <2>6, <2>7, <2>8
<1> QED BY <1>2, <1>6, <1>7 DEF AnswerExpected, CallExpected, Answer, SameManager, Removed

\* What reading a message does to the library.
ReadsTo(m) ==
  \/ ManagerChanged(m)
  \/ /\ register_reply(m) \/ unregister_reply(m) \/ release_advertising(m) \/ Ignore(m)
     /\ UNCHANGED <<calls, abandoned>>

(* A message that a closed session left behind.                             *)
LEMMA AgreesLeftover ==
  ASSUME PeerInv, Takes, NEW k \in 1 .. Len(inbox),
         NEW C \in SUBSET (0 .. Len(inbox)), NEW V \in SUBSET (0 .. Len(inbox)),
         Tells(inbox, k, C, V), Believes(k, C, V), ReadsTo(inbox[1])
  PROVE  Agrees'
<1>1. Len(inbox) \in Nat BY DEF PeerInv
<1>2. 1 \in 1 .. k /\ k \in Nat /\ k > 0 /\ k - 1 \in Nat /\ (k - 1) + 1 = k /\ k \in 0 .. Len(inbox)
      /\ k # 0
  BY <1>1
<1>3. PICK m : m = inbox[1] OBVIOUS
<1>4. m \in Replies \cup {"ignored"} /\ ReadsTo(m) BY <1>2, <1>3 DEF Tells
<1>5. /\ UNCHANGED <<ad_proxy, abandoned>>
      /\ \/ m = "registered"
         \/ exported' \in {exported, FALSE} /\ registered' \in {registered, FALSE}
  <2>1. ~ManagerChanged(m) BY <1>4 DEF ManagerChanged, Replies
  <2>2. UNCHANGED abandoned BY <1>4, <2>1 DEF ReadsTo
  <2>3. register_reply(m) \/ unregister_reply(m) \/ release_advertising(m) \/ Ignore(m)
    BY <1>4, <2>1 DEF ReadsTo
  <2>4. CASE register_reply(m) BY <2>2, <2>4 DEF register_reply
  <2>5. CASE unregister_reply(m) BY <2>2, <2>5 DEF unregister_reply, ad, ad_release
  <2>6. CASE release_advertising(m) BY <2>2, <2>6 DEF release_advertising, ad_release
  <2>7. CASE Ignore(m) BY <2>2, <2>7 DEF Ignore, ad
  <2> QED BY <2>3, <2>4, <2>5, <2>6, <2>7
<1>6. k \notin C /\ k \notin V /\ ~ad_proxy BY <1>2 DEF Believes
<1>7. ASSUME ~abandoned' PROVE ~registered' /\ NoManager'
  <2>1. NoManager BY <1>5, <1>6, <1>7 DEF Believes
  <2>2. ~Registered(inbox[1]) /\ ~exported /\ ~registered
    <3>1. 1 \in 1 .. Len(inbox) BY <1>1, <1>2
    <3> QED BY <2>1, <3>1 DEF NoManager
  <2>3. ~exported' /\ ~registered'
    <3>1. m # "registered" BY <1>3, <2>2 DEF Registered
    <3>2. /\ exported' = exported \/ exported' = FALSE
          /\ registered' = registered \/ registered' = FALSE
      BY <1>5, <3>1
    <3>3. exported = FALSE /\ registered = FALSE BY <2>2 DEF PeerInv
    <3> QED BY <3>2, <3>3
  <2> QED BY <2>1, <2>3, NoManagerTail
<1>8. PICK V2 : V2 = Shift(V, Len(inbox) - 1) OBVIOUS
<1>9. ~abandoned' => Settled(V2)' BY <1>5, <1>6, <1>7 DEF Settled
<1> QED BY <1>2, <1>5, <1>6, <1>7, <1>8, <1>9, AgreesTail

(* A message about the manager.                                             *)
LEMMA AgreesManager ==
  ASSUME PeerInv, Takes,
         NEW C \in SUBSET (0 .. Len(inbox)), NEW V \in SUBSET (0 .. Len(inbox)),
         Tells(inbox, 0, C, V), Believes(0, C, V), ManagerChanged(inbox[1])
  PROVE  Agrees'
<1>1. inbox \in Seq(Messages) /\ calls \in Seq(Calls) /\ inbox # << >> /\ inbox' = Tail(inbox)
  BY DEF PeerInv, Takes
<1>2. /\ Len(inbox) \in Nat \ {0} /\ Len(inbox') = Len(inbox) - 1
      /\ \A i \in 1 .. Len(inbox) - 1 : inbox'[i] = inbox[i + 1]
      /\ 0 \in 0 .. Len(inbox) /\ 1 \in 1 .. Len(inbox) /\ 0 + 1 = 1 /\ 1 - 1 = 0
  BY <1>1
<1>3. PICK m : m = inbox[1] OBVIOUS
<1>4. TellsCtrl(m, 1, C) /\ TellsAdv(m, 1, V) BY <1>2, <1>3 DEF Tells
<1>5. (0 \in C <=> ad_proxy) /\ (~abandoned => (0 \in V <=> registered))
  BY DEF Believes
<1>6. PICK V2 : V2 = Shift(V, Len(inbox) - 1) OBVIOUS
<1>7. CASE m = "manager added"
  <2>1. ad_proxy' /\ UNCHANGED <<exported, registered, abandoned>>
    BY <1>3, <1>7 DEF ManagerChanged
  <2>2. 0 \notin C /\ 1 \in C /\ (0 \in V <=> 1 \in V)
    BY <1>2, <1>4, <1>7 DEF TellsCtrl, TellsAdv
  <2>3. ASSUME ~abandoned
        PROVE  /\ NoManager /\ ~registered /\ 1 \notin V
               /\ AnswerExpected(V2)' /\ CallExpected(V2)'
    <3>1. NoManager BY <1>5, <2>2, <2>3 DEF Believes
    <3>2. ~registered /\ 1 \notin V BY <1>5, <2>2, <2>3, <3>1 DEF NoManager
    <3>3. \A i \in 1 .. Len(inbox') : ~Answer(inbox'[i])
      <4>1. \A i \in 1 .. Len(inbox') : i + 1 \in 1 .. Len(inbox) /\ 1 < i + 1
                                        /\ inbox'[i] = inbox[i + 1]
        BY <1>2
      <4>2. Added(inbox[1]) BY <1>3, <1>7 DEF Added
      <4> QED BY <1>2, <3>1, <4>1, <4>2 DEF NoManager
    <3>4. \A i \in 1 .. Len(calls') : calls'[i] # "register" BY <3>1 DEF Takes, NoManager
    <3>5. AnswerExpected(V2)' BY <3>3, Zenon DEF AnswerExpected, Answer
    <3>6. CallExpected(V2)' BY <3>4, Zenon DEF CallExpected
    <3> QED BY <3>1, <3>2, <3>5, <3>6
  <2>4. ~abandoned' => /\ 1 \in V <=> registered'
                       /\ registered' => exported'
                       /\ Settled(V2)'
    BY <2>1, <2>3 DEF Settled
  <2> QED BY <1>2, <1>6, <2>1, <2>2, <2>4, AgreesTail
<1>8. CASE m = "manager removed"
  <2>1. /\ ~ad_proxy' /\ ~exported' /\ ~registered' /\ abandoned' = AnsweredLate
    BY <1>3, <1>8 DEF ManagerChanged, ad_release
  <2>2. 1 \notin C /\ 1 \notin V BY <1>2, <1>4, <1>8 DEF TellsCtrl, TellsAdv
  <2>3. ASSUME ~AnsweredLate PROVE NoManager'
    <3>1. \A i \in 1 .. Len(calls) : calls[i] # "register"
      <4>1. DOMAIN calls = 1 .. Len(calls) BY <1>1
      <4>2. "register" \notin Range(calls) BY <2>3 DEF AnsweredLate
      <4> QED BY <4>1, <4>2, Zenon DEF Range
    <3>2. \A i, j \in 1 .. Len(inbox) : i < j /\ Added(inbox[i]) => ~Answer(inbox[j])
      <4>1. DOMAIN inbox = 1 .. Len(inbox) BY <1>1
      <4> QED BY <2>3, <4>1, Zenon DEF AnsweredLate, Added, Answer
    <3>3. ASSUME NEW i \in 1 .. Len(inbox), Registered(inbox[i]), i > 1 PROVE FALSE
      <4>1. i \in 0 + 1 .. Len(inbox) /\ i \in Nat /\ 1 \in Nat /\ 1 <= i /\ i - 1 \in 0 .. Len(inbox)
            /\ i - 1 \in Nat /\ 1 <= i - 1
        BY <1>2, <3>3
      <4>2. TellsCtrl(inbox[i], i, C) BY <4>1 DEF Tells
      <4>3. i - 1 \in C BY <3>3, <4>2 DEF TellsCtrl, Registered
      <4>4. PICK j \in 1 + 1 .. i - 1 : j - 1 \notin C /\ j \in C BY <2>2, <4>1, <4>3, Rise
      <4>5. j \in 0 + 1 .. Len(inbox) /\ j \in 1 .. Len(inbox) /\ j < i BY <1>2, <4>1
      <4>6. TellsCtrl(inbox[j], j, C) BY <4>5 DEF Tells
      <4>7. Added(inbox[j]) BY <4>4, <4>6 DEF TellsCtrl, Added
      <4>8. Answer(inbox[i]) BY <3>3 DEF Answer, Registered
      <4> QED BY <3>2, <4>5, <4>7, <4>8
    <3>4. \A i \in 1 .. Len(calls') : calls'[i] # "register" BY <3>1 DEF Takes
    <3>5. \A i \in 1 .. Len(inbox') : i + 1 \in 1 .. Len(inbox) /\ i + 1 > 1
                                      /\ inbox'[i] = inbox[i + 1]
      BY <1>2
    <3>6. \A i \in 1 .. Len(inbox') : ~Registered(inbox'[i]) BY <3>3, <3>5
    <3>7. ASSUME NEW i \in 1 .. Len(inbox'), NEW j \in 1 .. Len(inbox'), i < j, Added(inbox'[i])
          PROVE  ~Answer(inbox'[j])
      <4>1. i + 1 < j + 1 BY <1>2, <3>7
      <4> QED BY <3>2, <3>5, <3>7, <4>1
    <3> QED BY <2>1, <3>4, <3>6, <3>7, Zenon DEF NoManager, Answer, Added, Registered
  <2>4. ~abandoned' => /\ 1 \in V <=> registered'
                       /\ registered' => exported'
                       /\ Settled(V2)'
    BY <2>1, <2>2, <2>3 DEF Settled
  <2> QED BY <1>2, <1>6, <2>1, <2>2, <2>4, AgreesTail
<1> QED BY <1>3, <1>7, <1>8 DEF ManagerChanged

(* An answer, or the end of the advertisement.                              *)
LEMMA AgreesReply ==
  ASSUME PeerInv, Takes,
         NEW C \in SUBSET (0 .. Len(inbox)), NEW V \in SUBSET (0 .. Len(inbox)),
         Tells(inbox, 0, C, V), Believes(0, C, V),
         \/ register_reply(inbox[1]) \/ unregister_reply(inbox[1])
         \/ release_advertising(inbox[1]) \/ Ignore(inbox[1]),
         UNCHANGED <<calls, abandoned>>
  PROVE  Agrees'
<1>1. Len(inbox) \in Nat \ {0} /\ 0 \in 0 .. Len(inbox) /\ 1 \in 1 .. Len(inbox)
      /\ 0 + 1 = 1 /\ 1 - 1 = 0
  <2>1. inbox \in Seq(Messages) /\ inbox # << >> BY DEF PeerInv, Takes
  <2> QED BY <2>1
<1>2. PICK m : m = inbox[1] OBVIOUS
<1>3. TellsCtrl(m, 1, C) /\ TellsAdv(m, 1, V) BY <1>1, <1>2 DEF Tells
<1>4. register_reply(m) \/ unregister_reply(m) \/ release_advertising(m) \/ Ignore(m) BY <1>2
<1>5. UNCHANGED ad_proxy /\ (0 \in C <=> 1 \in C) /\ ~Removed(m)
  BY <1>1, <1>3, <1>4 DEF register_reply, unregister_reply, release_advertising, Ignore, ad,
     TellsCtrl, Removed
<1>6. (0 \in C <=> ad_proxy) BY DEF Believes
<1>7. PICK V2 : V2 = Shift(V, Len(inbox) - 1) OBVIOUS
<1>8. ASSUME ~abandoned
      PROVE  /\ 0 \in V <=> registered
             /\ registered => exported
             /\ ~ad_proxy => NoManager
             /\ ad_proxy => AnswerExpected(V) /\ CallExpected(V)
  BY <1>8 DEF Believes
<1>9. ASSUME ~abandoned, Answer(m)
      PROVE  /\ ad_proxy => exported /\ 0 \notin V
             /\ ~ad_proxy => ~Registered(m)
             /\ ~registered
  <2>1. ASSUME ad_proxy PROVE exported /\ 0 \notin V
    <3>1. SameManager(inbox, 1)
      <4>1. \A j \in 1 .. 1 : j = 1 OBVIOUS
      <4> QED BY <1>2, <1>5, <4>1 DEF SameManager
    <3>2. 0 \in 0 .. 1 - 1 OBVIOUS
    <3> QED BY <1>1, <1>2, <1>8, <1>9, <2>1, <3>1, <3>2 DEF AnswerExpected
  <2>2. ASSUME ~ad_proxy PROVE ~Registered(m) /\ ~registered
    BY <1>1, <1>2, <1>8, <1>9, <2>2 DEF NoManager
  <2> QED BY <1>8, <1>9, <2>1, <2>2
<1>10. ASSUME ~abandoned
       PROVE  /\ 1 \in V <=> registered'
              /\ registered' => exported'
              /\ ~ad_proxy => ~exported' /\ ~registered'
              /\ exported /\ 0 \notin V /\ ~Answer(m) => exported'
  <2>1. ~ad_proxy => ~exported /\ ~registered BY <1>8, <1>10 DEF NoManager
  <2>2. CASE m = "registered"
    <3>1. registered' /\ UNCHANGED exported
      BY <1>4, <2>2 DEF register_reply, unregister_reply, release_advertising, Ignore
    <3>2. 1 \in V BY <1>1, <1>3, <2>2 DEF TellsAdv
    <3>3. Answer(m) /\ Registered(m) BY <2>2 DEF Answer, Registered
    <3> QED BY <1>9, <1>10, <3>1, <3>2, <3>3
  <2>3. CASE m = "register failed"
    <3>1. ~exported' /\ UNCHANGED registered
      BY <1>4, <2>3 DEF register_reply, unregister_reply, release_advertising, Ignore
    <3>2. 0 \in V <=> 1 \in V BY <1>1, <1>3, <2>3 DEF TellsAdv
    <3>3. Answer(m) BY <2>3 DEF Answer
    <3> QED BY <1>8, <1>9, <1>10, <3>1, <3>2, <3>3
  <2>4. CASE m \in {"unregistered", "release"}
    <3>1. 0 \in V /\ 1 \notin V BY <1>1, <1>3, <2>4 DEF TellsAdv
    <3>2. exported BY <1>8, <1>10, <3>1
    <3>3. ~exported' /\ ~registered'
      BY <1>4, <2>4, <3>2 DEF register_reply, unregister_reply, release_advertising, Ignore,
         ad_release
    <3> QED BY <3>1, <3>3
  <2>5. CASE m \in {"unregister failed", "ignored"}
    <3>1. 0 \in V <=> 1 \in V BY <1>1, <1>3, <2>5 DEF TellsAdv
    <3>2. UNCHANGED <<exported, registered>>
      BY <1>4, <2>5 DEF register_reply, unregister_reply, release_advertising, Ignore, ad
    <3> QED BY <1>8, <1>10, <2>1, <3>1, <3>2
  <2> QED BY <1>4, <2>2, <2>3, <2>4, <2>5 DEF register_reply, unregister_reply,
         release_advertising, Ignore
<1>11. ASSUME ~abandoned PROVE Settled(V2)'
  <2>1. ASSUME ~ad_proxy PROVE NoManager' BY <1>8, <1>10, <1>11, <2>1, NoManagerTail
  <2>2. ASSUME ad_proxy PROVE AnswerExpected(V2)' /\ CallExpected(V2)'
    <3>1. exported /\ 0 \notin V /\ ~Answer(inbox[1]) => exported' BY <1>2, <1>10, <1>11
    <3>2. ~Removed(inbox[1]) BY <1>2, <1>5
    <3> QED BY <1>7, <1>8, <1>11, <2>2, <3>1, <3>2, ExpectedTail
  <2> QED BY <1>5, <2>1, <2>2 DEF Settled
<1> QED BY <1>1, <1>5, <1>6, <1>7, <1>10, <1>11, AgreesTail

(* Whatever the main loop reads.                                            *)
LEMMA AgreesRead ==
  ASSUME PeerInv, Read
  PROVE  Agrees'
<1>1. PICK k \in 0 .. Len(inbox) :
        \E C, V \in SUBSET (0 .. Len(inbox)) : Tells(inbox, k, C, V) /\ Believes(k, C, V)
  BY DEF PeerInv, Agrees
<1>2. PICK C \in SUBSET (0 .. Len(inbox)), V \in SUBSET (0 .. Len(inbox)) :
        Tells(inbox, k, C, V) /\ Believes(k, C, V)
  BY <1>1
<1>3. inbox \in Seq(Messages) /\ calls \in Seq(Calls) BY DEF PeerInv
<1>4. inbox # << >> /\ inbox' = Tail(inbox) /\ Head(inbox) = inbox[1] BY <1>3 DEF Read
<1>5. ReadsTo(inbox[1])
  <2>1. ReadsTo(Head(inbox)) BY DEF Read, ReadsTo
  <2> QED BY <1>4, <2>1
<1>6. Takes
  <2>1. PICK c : c \in {"register app", "unregister app"} /\ calls' \in {calls, Append(calls, c)}
    BY <1>5 DEF ReadsTo, ManagerChanged, register_app, unregister_app
  <2>2. c # "register" /\ c \in Calls BY <2>1 DEF Calls
  <2>3. CASE calls' = calls BY <1>3, <1>4, <2>3 DEF Takes, Read, air
  <2>4. CASE calls' = Append(calls, c)
    <3>1. /\ Len(calls') = Len(calls) + 1 /\ calls'[Len(calls) + 1] = c
          /\ Len(calls) \in Nat /\ \A i \in 1 .. Len(calls) : calls'[i] = calls[i]
      <4>1. c \in Calls BY <2>2
      <4> QED BY <1>3, <2>4, <4>1
    <3>2. \A i \in 1 .. Len(calls') : calls'[i] = "register" => i # Len(calls) + 1
      BY <2>2, <3>1, Zenon
    <3>3. \A i \in 1 .. Len(calls') : i # Len(calls) + 1 => i \in 1 .. Len(calls)
      BY <3>1
    <3>4. UNCHANGED <<ctrl, advertising>> BY DEF Read, air
    <3> QED BY <1>4, <3>1, <3>2, <3>3, <3>4, Zenon DEF Takes
  <2> QED BY <2>1, <2>3, <2>4
<1>7. CASE k # 0
  <2>1. k \in 1 .. Len(inbox) BY <1>1, <1>3, <1>7
  <2> QED BY <1>2, <1>5, <1>6, <2>1, AgreesLeftover
<1>8. CASE k = 0 /\ ManagerChanged(inbox[1]) BY <1>2, <1>6, <1>8, AgreesManager
<1>9. CASE k = 0 /\ ~ManagerChanged(inbox[1])
  BY <1>2, <1>5, <1>6, <1>9, AgreesReply DEF ReadsTo
<1> QED BY <1>7, <1>8, <1>9

-----------------------------------------------------------------------------
(* The exported object, and the GATT table.                                 *)

\* t is s with e put behind it, and s without its first element.
Appended(t, s, e) ==
  /\ Len(s) \in Nat /\ Len(t) = Len(s) + 1 /\ t[Len(s) + 1] = e
  /\ \A i \in 1 .. Len(s) : t[i] = s[i]
Shortened(t, s) ==
  /\ Len(s) \in Nat \ {0} /\ Len(t) = Len(s) - 1
  /\ \A i \in 1 .. Len(s) - 1 : t[i] = s[i + 1]

(* What Append does.                                                        *)
LEMMA AppendedOf ==
  ASSUME NEW M, NEW s \in Seq(M), NEW e \in M
  PROVE  Appended(Append(s, e), s, e) /\ Append(s, e) \in Seq(M)
BY DEF Appended

(* What Tail does.                                                          *)
LEMMA ShortenedOf ==
  ASSUME NEW M, NEW s \in Seq(M), s # << >>
  PROVE  /\ Shortened(Tail(s), s) /\ Tail(s) \in Seq(M)
         /\ Head(s) = s[1] /\ s[1] \in M
BY DEF Shortened

\* A call that leaves the GATT table, and the taking of the first call.
KeepsTable(c) == c # "unregister app"
TakesTable ==
  /\ calls[1] = "register app" => gatt_app' # "none"
  /\ calls[1] # "unregister app" /\ gatt_app # "none" => gatt_app' # "none"

(* A call that is sent, other than UnregisterApplication, leaves the table  *)
(* sent.                                                                    *)
LEMMA SentAppend ==
  ASSUME TableSent, NEW c, Appended(calls', calls, c), KeepsTable(c), UNCHANGED gatt_app
  PROVE  TableSent'
<1> DEFINE n == Len(calls)
<1>1. /\ n \in Nat /\ Len(calls') = n + 1 /\ calls'[n + 1] = c
      /\ \A i \in 1 .. n : calls'[i] = calls[i]
  BY DEF Appended
<1>a. Len(calls) = n OBVIOUS
<1>b. n \in Nat BY <1>1, Zenon
<1> HIDE DEF n
<1>2. \A i \in 1 .. n + 1 : i \in 1 .. n \/ i = n + 1 BY <1>b
<1>3. ASSUME NEW i \in 1 .. n, calls[i] = "register app",
             \A j \in i + 1 .. n : calls[j] # "unregister app"
      PROVE  TableSent'
  <2>1. i \in 1 .. n + 1 /\ \A j \in i + 1 .. n + 1 : j \in 1 .. n + 1 /\ (j \in i + 1 .. n \/ j = n + 1)
    BY <1>b
  <2>2. \A j \in i + 1 .. n + 1 : calls'[j] # "unregister app"
    BY <1>1, <1>2, <1>3, <2>1, Zenon DEF KeepsTable
  <2>3. calls'[i] = "register app" BY <1>1, <1>3
  <2> QED BY <1>1, <2>1, <2>2, <2>3, Zenon DEF TableSent
<1>4. ASSUME gatt_app # "none", \A j \in 1 .. n : calls[j] # "unregister app"
      PROVE  TableSent'
  <2>1. \A j \in 1 .. n + 1 : calls'[j] # "unregister app" BY <1>1, <1>2, <1>4, Zenon DEF KeepsTable
  <2> QED BY <1>1, <1>4, <2>1, Zenon DEF TableSent
<1> QED BY <1>3, <1>4, <1>a, Zenon DEF TableSent

(* So does one that bluetoothd takes.                                       *)
LEMMA SentTail ==
  ASSUME TableSent, Shortened(calls', calls), TakesTable
  PROVE  TableSent'
<1> DEFINE n == Len(calls)
<1>1. /\ n \in Nat \ {0} /\ Len(calls') = n - 1 /\ \A i \in 1 .. n - 1 : calls'[i] = calls[i + 1]
  BY DEF Shortened
<1>a. Len(calls) = n OBVIOUS
<1>b. n \in Nat \ {0} BY <1>1, Zenon
<1> HIDE DEF n
<1>2. \A i \in 1 .. n - 1 : i + 1 \in 1 .. n /\ i + 1 \in 2 .. n BY <1>b
<1>3. ASSUME NEW i \in 1 .. n, calls[i] = "register app",
             \A j \in i + 1 .. n : calls[j] # "unregister app"
      PROVE  TableSent'
  <2>1. CASE i = 1
    <3>1. \A j \in 1 .. n - 1 : j + 1 \in i + 1 .. n BY <1>b, <2>1
    <3>2. \A j \in 1 .. n - 1 : calls'[j] # "unregister app" BY <1>1, <1>3, <3>1, Zenon
    <3>3. gatt_app' # "none" BY <1>3, <2>1, Zenon DEF TakesTable
    <3> QED BY <1>1, <3>2, <3>3, Zenon DEF TableSent
  <2>2. CASE i # 1
    <3>1. /\ i - 1 \in 1 .. n - 1 /\ (i - 1) + 1 = i
          /\ \A j \in (i - 1) + 1 .. n - 1 : j \in 1 .. n - 1 /\ j + 1 \in i + 1 .. n
      BY <1>b, <2>2
    <3>2. calls'[i - 1] = "register app" BY <1>1, <1>3, <3>1, Zenon
    <3>3. \A j \in (i - 1) + 1 .. n - 1 : calls'[j] # "unregister app"
      BY <1>1, <1>3, <3>1, Zenon
    <3> QED BY <1>1, <3>1, <3>2, <3>3, Zenon DEF TableSent
  <2> QED BY <2>1, <2>2
<1>4. ASSUME gatt_app # "none", \A j \in 1 .. n : calls[j] # "unregister app"
      PROVE  TableSent'
  <2>1. \A j \in 1 .. n - 1 : calls'[j] # "unregister app" BY <1>1, <1>2, <1>4, Zenon
  <2>2. 1 \in 1 .. n BY <1>b
  <2>3. gatt_app' # "none" BY <1>4, <2>2, Zenon DEF TakesTable
  <2> QED BY <1>1, <2>1, <2>3, Zenon DEF TableSent
<1> QED BY <1>3, <1>4, <1>a, Zenon DEF TableSent

(* A message other than the loss of the manager.                            *)
LEMMA TableAppend ==
  ASSUME TableInv, NEW m, Appended(inbox', inbox, m), ~Removed(m), ctrl,
         TableSent => TableSent'
  PROVE  TableInv'
<1> DEFINE n == Len(inbox)
<1>1. /\ n \in Nat /\ Len(inbox') = n + 1 /\ inbox'[n + 1] = m
      /\ \A i \in 1 .. n : inbox'[i] = inbox[i]
  BY DEF Appended
<1>a. Len(inbox) = n OBVIOUS
<1> HIDE DEF n
<1>2. \A i \in 1 .. n + 1 : i \in 1 .. n \/ i = n + 1 BY <1>1
<1>3. ASSUME NEW i \in 1 .. n, Added(inbox[i]), \A j \in i + 1 .. n : ~Removed(inbox[j])
      PROVE  TableInv'
  <2>1. i \in 1 .. n + 1 /\ \A j \in i + 1 .. n + 1 : j \in 1 .. n + 1 /\ (j \in i + 1 .. n \/ j = n + 1)
    BY <1>1
  <2>2. \A j \in i + 1 .. n + 1 : ~Removed(inbox'[j])
    BY <1>1, <1>2, <1>3, <2>1, Zenon
  <2>3. Added(inbox'[i]) BY <1>1, <1>3
  <2> QED BY <1>1, <2>1, <2>2, <2>3, Zenon DEF TableInv, Added, Removed
<1>4. ASSUME SameManager(inbox, n), TableSent PROVE TableInv'
  <2>1. SameManager(inbox', n + 1) BY <1>1, <1>2, <1>4, Zenon DEF SameManager
  <2> QED BY <1>1, <1>4, <2>1, Zenon DEF TableInv, SameManager
<1> QED BY <1>3, <1>4, <1>a, Zenon DEF TableInv

(* A message that is read.                                                  *)
LEMMA TableTail ==
  ASSUME TableInv, Shortened(inbox', inbox), UNCHANGED ctrl,
         Added(inbox[1]) => TableSent',
         ~Removed(inbox[1]) /\ TableSent => TableSent'
  PROVE  TableInv'
<1> SUFFICES ASSUME ctrl PROVE TableInv' BY DEF TableInv
<1> DEFINE n == Len(inbox)
<1>1. /\ n \in Nat \ {0} /\ Len(inbox') = n - 1 /\ \A i \in 1 .. n - 1 : inbox'[i] = inbox[i + 1]
  BY DEF Shortened
<1>a. Len(inbox) = n OBVIOUS
<1> HIDE DEF n
<1>2. ASSUME \A j \in 2 .. n : ~Removed(inbox[j]), TableSent' PROVE TableInv'
  <2>1. \A j \in 1 .. n - 1 : j + 1 \in 2 .. n BY <1>1
  <2>2. SameManager(inbox', n - 1) BY <1>1, <1>2, <2>1, Zenon DEF SameManager
  <2> QED BY <1>1, <1>2, <2>2, Zenon DEF TableInv, SameManager
<1>3. ASSUME NEW i \in 1 .. n, Added(inbox[i]), \A j \in i + 1 .. n : ~Removed(inbox[j])
      PROVE  TableInv'
  <2>1. CASE i = 1
    <3>1. i + 1 = 2 BY <2>1
    <3> QED BY <1>2, <1>3, <2>1, <3>1
  <2>2. CASE i # 1
    <3>1. /\ i - 1 \in 1 .. n - 1 /\ (i - 1) + 1 = i
          /\ \A j \in (i - 1) + 1 .. n - 1 : j \in 1 .. n - 1 /\ j + 1 \in i + 1 .. n
      BY <1>1, <2>2
    <3>2. Added(inbox'[i - 1]) BY <1>1, <1>3, <3>1, Zenon
    <3>3. \A j \in (i - 1) + 1 .. n - 1 : ~Removed(inbox'[j])
      BY <1>1, <1>3, <3>1, Zenon
    <3> QED BY <1>1, <3>1, <3>2, <3>3, Zenon DEF TableInv, Added, Removed
  <2> QED BY <2>1, <2>2
<1>4. ASSUME SameManager(inbox, n), TableSent PROVE TableInv'
  <2>1. 1 \in 1 .. n /\ \A j \in 2 .. n : j \in 1 .. n BY <1>1
  <2>2. ~Removed(inbox[1]) /\ \A j \in 2 .. n : ~Removed(inbox[j])
    BY <1>4, <2>1 DEF SameManager
  <2> QED BY <1>2, <1>4, <2>2
<1> QED BY <1>3, <1>4, <1>a, Zenon DEF TableInv

\* Calls and answers under way.
Asked == \E i \in 1 .. Len(calls) : calls[i] = "register"
Answered == \E i \in 1 .. Len(inbox) : Answer(inbox[i])

(* A message behind the others leaves their answers.                        *)
LEMMA AnsweredAppend ==
  ASSUME NEW m, Appended(inbox', inbox, m)
  PROVE  (Answered => Answered') /\ (Answer(m) => Answered')
<1>1. /\ Len(inbox) \in Nat /\ Len(inbox') = Len(inbox) + 1 /\ inbox'[Len(inbox) + 1] = m
      /\ \A i \in 1 .. Len(inbox) : inbox'[i] = inbox[i]
  BY DEF Appended
<1>2. /\ Len(inbox) + 1 \in 1 .. Len(inbox')
      /\ \A i \in 1 .. Len(inbox) : i \in 1 .. Len(inbox')
  BY <1>1
<1> QED BY <1>1, <1>2, Zenon DEF Answered, Answer

(* The reading of a message other than an answer leaves the answers.        *)
LEMMA AnsweredTail ==
  ASSUME Shortened(inbox', inbox), ~Answer(inbox[1])
  PROVE  Answered => Answered'
<1>1. /\ Len(inbox) \in Nat \ {0} /\ Len(inbox') = Len(inbox) - 1
      /\ \A i \in 1 .. Len(inbox) - 1 : inbox'[i] = inbox[i + 1]
  BY DEF Shortened
<1>2. ASSUME NEW i \in 1 .. Len(inbox), Answer(inbox[i]) PROVE Answered'
  <2>1. i - 1 \in 1 .. Len(inbox') /\ i - 1 \in 1 .. Len(inbox) - 1 /\ (i - 1) + 1 = i
    BY <1>1, <1>2
  <2>2. Answer(inbox'[i - 1]) BY <1>1, <1>2, <2>1
  <2> QED BY <2>1, <2>2, Zenon DEF Answered, Answer
<1> QED BY <1>2 DEF Answered

\* The first call is no registration.
OtherFirst == calls[1] # "register"

(* The calls but for the first.                                             *)
LEMMA AskedTail ==
  ASSUME Shortened(calls', calls), OtherFirst
  PROVE  Asked => Asked'
<1>1. /\ Len(calls) \in Nat \ {0} /\ Len(calls') = Len(calls) - 1
      /\ \A i \in 1 .. Len(calls) - 1 : calls'[i] = calls[i + 1]
  BY DEF Shortened
<1>2. ASSUME NEW i \in 1 .. Len(calls), calls[i] = "register" PROVE Asked'
  <2>1. i # 1 BY <1>2, Zenon DEF OtherFirst
  <2>2. i - 1 \in 1 .. Len(calls') /\ i - 1 \in 1 .. Len(calls) - 1 /\ (i - 1) + 1 = i
    <3> HIDE <1>2
    <3> QED BY <1>1, <2>1
  <2>3. calls'[i - 1] = "register" BY <1>1, <1>2, <2>2, Zenon
  <2> QED BY <2>2, <2>3, Zenon DEF Asked
<1> QED BY <1>2 DEF Asked

(* The calls and one more.                                                  *)
LEMMA AskedAppend ==
  ASSUME NEW c, Appended(calls', calls, c)
  PROVE  (Asked => Asked') /\ (c = "register" => Asked')
<1>1. /\ Len(calls) \in Nat /\ Len(calls') = Len(calls) + 1 /\ calls'[Len(calls) + 1] = c
      /\ \A i \in 1 .. Len(calls) : calls'[i] = calls[i]
  BY DEF Appended
<1>2. /\ Len(calls) + 1 \in 1 .. Len(calls')
      /\ \A i \in 1 .. Len(calls) : i \in 1 .. Len(calls')
  BY <1>1
<1> QED BY <1>1, <1>2, Zenon DEF Asked

\* bluetoothd sends m, by itself or for the call it takes.
Serves(m) ==
  /\ inbox' = Append(inbox, m)
  /\ \/ calls' = calls /\ ~Answer(m)
     \/ /\ calls # << >> /\ calls' = Tail(calls)
        /\ Head(calls) \in {"register", "unregister"}
        /\ Head(calls) = "register" <=> Answer(m)

(* What bluetoothd does, the loss of the manager and the GATT table aside.  *)
LEMMA ServesStep ==
  ASSUME PeerInv, UNCHANGED <<ad_proxy, exported, registered, abandoned, gatt_app>>,
         NEW m \in Messages, Serves(m), SendsCtrl(m), SendsAdv(m),
         ctrl' \in BOOLEAN, advertising' \in BOOLEAN
  PROVE  PeerInv'
<1>1. inbox \in Seq(Messages) /\ calls \in Seq(Calls) BY DEF PeerInv
<1>2. Appended(inbox', inbox, m) /\ inbox' \in Seq(Messages)
  BY <1>1, AppendedOf DEF Serves
<1>3. \/ calls' = calls /\ ~Answer(m)
      \/ /\ Shortened(calls', calls) /\ calls' \in Seq(Calls)
         /\ calls[1] \in {"register", "unregister"} /\ (calls[1] = "register" <=> Answer(m))
  <2>1. CASE calls # << >> /\ calls' = Tail(calls)
    <3>1. /\ Shortened(calls', calls) /\ calls' \in Seq(Calls) /\ Head(calls) = calls[1]
      BY <1>1, <2>1, ShortenedOf
    <3> QED BY <3>1, Zenon DEF Serves
  <2> QED BY <2>1, Zenon DEF Serves
<1>4. calls' \in Seq(Calls) BY <1>1, <1>3, Zenon
<1>5. Agrees'
  <2>1. Sends(m) BY Zenon DEF Serves, Sends
  <2> QED BY <2>1, AgreesAppend
<1>6. Tracked'
  <2>1. Answered => Answered' BY <1>2, AnsweredAppend
  <2>2. Answer(m) => Answered' BY <1>2, AnsweredAppend
  <2>3. Asked => Asked' \/ Answer(m)
    <3>1. CASE calls' = calls BY <3>1, Zenon DEF Asked
    <3>2. CASE Shortened(calls', calls) /\ (calls[1] = "register" <=> Answer(m))
      BY <3>2, AskedTail, Zenon DEF OtherFirst
    <3> QED BY <1>3, <3>1, <3>2, Zenon
  <2>4. Tracked BY DEF PeerInv
  <2> QED BY <2>1, <2>2, <2>3, <2>4, Zenon DEF Tracked, Asked, Answered
<1>7. TableInv'
  <2>1. TableSent => TableSent'
    <3>1. CASE calls' = calls BY <3>1, Zenon DEF TableSent
    <3>2. CASE Shortened(calls', calls) /\ calls[1] \in {"register", "unregister"}
      <4>1. TakesTable BY <3>2, Zenon DEF TakesTable
      <4> QED BY <3>2, <4>1, SentTail
    <3> QED BY <1>3, <3>1, <3>2, Zenon
  <2>2. CASE m = "manager added"
    <3>1. /\ Len(inbox) \in Nat /\ Len(inbox') = Len(inbox) + 1 /\ inbox'[Len(inbox) + 1] = m
      BY <1>2 DEF Appended
    <3>2. /\ Len(inbox) + 1 \in 1 .. Len(inbox')
          /\ (Len(inbox) + 1) + 1 .. Len(inbox') = {}
      BY <3>1
    <3>3. Added(inbox'[Len(inbox) + 1]) BY <2>2, <3>1, Zenon DEF Added
    <3>4. \A j \in (Len(inbox) + 1) + 1 .. Len(inbox') : ~Removed(inbox'[j]) BY <3>2, Zenon
    <3> QED BY <3>2, <3>3, <3>4, Zenon DEF TableInv, Added, Removed
  <2>3. CASE m # "manager added"
    <3>1. ~Removed(m) /\ (ctrl' => ctrl) BY <2>3 DEF SendsCtrl, Removed
    <3>2. CASE ctrl'
      <4>1. ctrl /\ TableInv BY <3>1, <3>2 DEF PeerInv
      <4> QED BY <1>2, <2>1, <3>1, <4>1, TableAppend
    <3>3. CASE ~ctrl' BY <3>3, Zenon DEF TableInv
    <3> QED BY <3>2, <3>3
  <2> QED BY <2>2, <2>3
<1> QED BY <1>2, <1>4, <1>5, <1>6, <1>7 DEF PeerInv

(* The calls and the messages of bluetoothd.                                *)
LEMMA ServerStep ==
  ASSUME PeerInv,
         TakeRegister \/ TakeUnregister \/ DropAdvertisement \/ ControllerFound
  PROVE  PeerInv'
<1> DEFINE Effect(m) ==
      /\ m \in Messages /\ Serves(m) /\ SendsCtrl(m) /\ SendsAdv(m)
      /\ ctrl' \in BOOLEAN /\ advertising' \in BOOLEAN
      /\ UNCHANGED <<ad_proxy, exported, registered, abandoned, gatt_app>>
<1>1. ctrl \in BOOLEAN /\ advertising \in BOOLEAN BY DEF PeerInv
<1>2. CASE TakeRegister
  <2>1. CASE /\ ctrl /\ ~advertising /\ advertising' = TRUE
             /\ inbox' = Append(inbox, "registered")
    <3>1. UNCHANGED <<ad_proxy, exported, registered, abandoned, gatt_app, ctrl>>
      BY <1>2 DEF TakeRegister, ad
    <3>2. Serves("registered")
      BY <1>2, <2>1, Zenon DEF TakeRegister, Serves, Answer
    <3>3. SendsCtrl("registered") BY <2>1, <3>1 DEF SendsCtrl
    <3>4. SendsAdv("registered") BY <2>1 DEF SendsAdv
    <3>5. "registered" \in Messages BY DEF Messages, Replies
    <3>6. Effect("registered") BY <1>1, <2>1, <3>1, <3>2, <3>3, <3>4, <3>5
    <3> HIDE DEF Effect
    <3> QED BY <3>6, ServesStep DEF Effect
  <2>2. CASE inbox' = Append(inbox, "register failed") /\ UNCHANGED <<advertising, on_air>>
    <3>1. UNCHANGED <<ad_proxy, exported, registered, abandoned, gatt_app, ctrl, advertising>>
      BY <1>2, <2>2 DEF TakeRegister, ad
    <3>2. Serves("register failed")
      BY <1>2, <2>2, Zenon DEF TakeRegister, Serves, Answer
    <3>3. SendsCtrl("register failed") BY <3>1 DEF SendsCtrl
    <3>4. SendsAdv("register failed") BY <3>1 DEF SendsAdv
    <3>5. "register failed" \in Messages BY DEF Messages, Replies
    <3>6. Effect("register failed") BY <1>1, <3>1, <3>2, <3>3, <3>4, <3>5
    <3> HIDE DEF Effect
    <3> QED BY <3>6, ServesStep DEF Effect
  <2> QED BY <1>2, <2>1, <2>2 DEF TakeRegister
<1>3. CASE TakeUnregister
  <2> PICK m : m = (IF advertising THEN "unregistered" ELSE "unregister failed") OBVIOUS
  <2>1. /\ UNCHANGED <<ad_proxy, exported, registered, abandoned, gatt_app, ctrl>>
        /\ advertising' = FALSE /\ inbox' = Append(inbox, m)
    BY <1>3 DEF TakeUnregister, ad
  <2>2. m \in {"unregistered", "unregister failed"} /\ (m = "unregistered" <=> advertising)
    OBVIOUS
  <2>3. ~Answer(m) BY <2>2 DEF Answer
  <2>4. Serves(m)
    <3>1. calls # << >> /\ calls' = Tail(calls) /\ Head(calls) = "unregister"
      BY <1>3 DEF TakeUnregister
    <3> QED BY <2>1, <2>3, <3>1, Zenon DEF Serves
  <2>5. SendsCtrl(m) BY <2>1, <2>2 DEF SendsCtrl
  <2>6. SendsAdv(m) BY <2>1, <2>2 DEF SendsAdv
  <2>7. m \in Messages BY <2>2 DEF Messages, Replies
  <2>8. Effect(m) BY <1>1, <2>1, <2>4, <2>5, <2>6, <2>7
  <2> HIDE DEF Effect
  <2> QED BY <2>8, ServesStep DEF Effect
<1>4. CASE DropAdvertisement
  <2>1. /\ UNCHANGED <<ad_proxy, exported, registered, abandoned, gatt_app, ctrl, calls>>
        /\ advertising /\ advertising' = FALSE /\ inbox' = Append(inbox, "release")
    BY <1>4 DEF DropAdvertisement, ad
  <2>2. Serves("release") BY <2>1, Zenon DEF Serves, Answer
  <2>3. SendsCtrl("release") BY <2>1 DEF SendsCtrl
  <2>4. SendsAdv("release") BY <2>1 DEF SendsAdv
  <2>5. "release" \in Messages BY DEF Messages, Replies
  <2>6. Effect("release") BY <1>1, <2>1, <2>2, <2>3, <2>4, <2>5
  <2> HIDE DEF Effect
  <2> QED BY <2>6, ServesStep DEF Effect
<1>5. CASE ControllerFound
  <2>1. /\ UNCHANGED <<ad_proxy, exported, registered, abandoned, gatt_app, advertising, calls>>
        /\ ~ctrl /\ ctrl' = TRUE /\ inbox' = Append(inbox, "manager added")
    BY <1>5 DEF ControllerFound, ad, air
  <2>2. Serves("manager added") BY <2>1, Zenon DEF Serves, Answer
  <2>3. SendsCtrl("manager added") BY <2>1 DEF SendsCtrl
  <2>4. SendsAdv("manager added") BY <2>1 DEF SendsAdv
  <2>5. "manager added" \in Messages BY DEF Messages, Replies
  <2>6. Effect("manager added") BY <1>1, <2>1, <2>2, <2>3, <2>4, <2>5
  <2> HIDE DEF Effect
  <2> QED BY <2>6, ServesStep DEF Effect
<1> QED BY <1>2, <1>3, <1>4, <1>5

(* The GATT table, taken by bluetoothd or given up.                         *)
LEMMA TableStep ==
  ASSUME PeerInv, TakeRegisterApp \/ TakeUnregisterApp
  PROVE  PeerInv'
<1>1. calls \in Seq(Calls) /\ calls # << >> /\ calls' = Tail(calls)
  BY DEF PeerInv, TakeRegisterApp, TakeUnregisterApp
<1>2. /\ Shortened(calls', calls) /\ calls' \in Seq(Calls) /\ Head(calls) = calls[1]
  BY <1>1, ShortenedOf
<1>3. UNCHANGED <<ad_proxy, exported, registered, abandoned, ctrl, advertising, inbox>>
  BY DEF TakeRegisterApp, TakeUnregisterApp, ad, air
<1>4. calls[1] \in {"register app", "unregister app"}
  BY <1>2, Zenon DEF TakeRegisterApp, TakeUnregisterApp
<1>5. Agrees'
  <2>1. /\ \A i \in 1 .. Len(calls') : i + 1 \in 1 .. Len(calls) /\ calls'[i] = calls[i + 1]
        /\ Len(calls') \in Nat
    BY <1>2 DEF Shortened
  <2> QED BY <1>3, <2>1, AgreesCalls
<1>6. Tracked'
  <2>1. OtherFirst BY <1>4 DEF OtherFirst
  <2>2. Asked => Asked' BY <1>2, <2>1, AskedTail
  <2>3. Tracked BY DEF PeerInv
  <2> QED BY <1>3, <2>2, <2>3, Zenon DEF Tracked, Asked, Answer
<1>7. TableInv'
  <2>1. ASSUME ctrl PROVE TakesTable
    <3>1. CASE TakeRegisterApp
      <4>1. gatt_app' # "none" BY <2>1, <3>1 DEF TakeRegisterApp
      <4> QED BY <4>1, Zenon DEF TakesTable
    <3>2. CASE TakeUnregisterApp
      <4>1. calls[1] = "unregister app" BY <1>2, <3>2, Zenon DEF TakeUnregisterApp
      <4> QED BY <4>1, Zenon DEF TakesTable
    <3> QED BY <3>1, <3>2
  <2>2. ASSUME ctrl, TableSent PROVE TableSent' BY <1>2, <2>1, <2>2, SentTail
  <2>3. TableInv BY DEF PeerInv
  <2> QED BY <1>3, <2>2, <2>3, Zenon DEF TableInv, SameManager, Added, Removed
<1>8. gatt_app' \in {"none", "served", "refused"}
  BY DEF PeerInv, TakeRegisterApp, TakeUnregisterApp
<1> QED BY <1>2, <1>3, <1>5, <1>6, <1>7, <1>8 DEF PeerInv

(* The loss of the manager.                                                 *)
LEMMA LostStep ==
  ASSUME PeerInv, ControllerLost
  PROVE  PeerInv'
<1>1. inbox \in Seq(Messages) /\ calls \in Seq(Calls) BY DEF PeerInv
<1>2. /\ ctrl' = FALSE /\ advertising' = FALSE /\ calls' = << >> /\ gatt_app' = "none"
      /\ UNCHANGED <<ad_proxy, exported, registered, abandoned>>
  BY DEF ControllerLost, ad
<1>3. PICK m, F : /\ m = "manager removed" /\ F = Errors(calls)
                  /\ inbox' = Append(inbox, m) \o F
  BY DEF ControllerLost
<1>4. /\ F \in Seq(ErrorReplies) /\ Len(F) = Len(calls)
      /\ \A i \in 1 .. Len(calls) : calls[i] = "register" => Answer(F[i])
  BY <1>1, <1>3, ErrorsOf
<1>5. F \in Seq(Messages)
  <2>1. ErrorReplies \subseteq Messages BY DEF ErrorReplies, Messages, Replies
  <2>2. \A A, B : A \subseteq B => Seq(A) \subseteq Seq(B) OBVIOUS
  <2> QED BY <1>4, <2>1, <2>2, Zenon
<1>6. m \in Messages BY <1>3 DEF Messages
<1> DEFINE a == Append(inbox, m)
<1>7. Appended(a, inbox, m) /\ a \in Seq(Messages) BY <1>1, <1>6, AppendedOf
<1>8. inbox' = a \o F BY <1>3
<1> HIDE DEF a
<1>9. /\ a \o F \in Seq(Messages) /\ Len(a \o F) = Len(a) + Len(F)
      /\ \A i \in 1 .. Len(a) : (a \o F)[i] = a[i]
      /\ \A i \in 1 .. Len(F) : (a \o F)[Len(a) + i] = F[i]
  <2>1. a \in Seq(Messages) BY <1>7
  <2> QED BY <1>5, <2>1, ConcatOf
<1>10. /\ Len(inbox) \in Nat /\ Len(a) = Len(inbox) + 1 /\ Len(calls) \in Nat
       /\ \A i \in 1 .. Len(inbox) : a[i] = inbox[i]
  <2>1. Len(calls) \in Nat BY <1>1
  <2> QED BY <1>7, <2>1 DEF Appended
<1>11. /\ \A i \in 1 .. Len(inbox) : i \in 1 .. Len(a) /\ i \in 1 .. Len(a) + Len(calls)
       /\ \A i \in 1 .. Len(calls) : Len(a) + i \in 1 .. Len(a) + Len(calls)
  BY <1>10
<1>12. Answered => Answered'
  BY <1>4, <1>8, <1>9, <1>10, <1>11, Zenon DEF Answered, Answer
<1>13. Asked => Answered'
  BY <1>4, <1>8, <1>9, <1>11, Zenon DEF Asked, Answered, Answer
<1>14. Tracked'
  <2>1. Tracked BY DEF PeerInv
  <2> QED BY <1>2, <1>12, <1>13, <2>1, Zenon DEF Tracked, Asked, Answered
<1>15. Agrees' BY AgreesLost
<1>16. TableInv' BY <1>2, Zenon DEF TableInv
<1>17. calls' \in Seq(Calls) BY <1>2
<1>18. inbox' \in Seq(Messages) BY <1>8, <1>9
<1> QED BY <1>2, <1>14, <1>15, <1>16, <1>17, <1>18 DEF PeerInv

(* The end of a session.                                                    *)
LEMMA CloseStep ==
  ASSUME PeerInv, bluetooth_close
  PROVE  PeerInv'
<1>1. inbox \in Seq(Messages) /\ calls \in Seq(Calls) BY DEF PeerInv
<1>2. /\ ctrl' = FALSE /\ advertising' = FALSE /\ calls' = << >> /\ gatt_app' = "none"
      /\ ad_proxy' = FALSE /\ exported' = FALSE /\ registered' = FALSE
      /\ inbox' = RemoveWatches(inbox) \o Errors(calls)
      /\ abandoned' = ("registered" \in Range(inbox))
  BY DEF bluetooth_close, ad_release
<1>3. RemoveWatches(inbox) \in Seq(Messages)
  <2>1. DOMAIN inbox = 1 .. Len(inbox) /\ Len(inbox) \in Nat BY <1>1
  <2>2. Replies \cup {"ignored"} \subseteq Messages BY DEF Messages
  <2>3. RemoveWatches(inbox) \in [1 .. Len(inbox) -> Messages]
    BY <2>1, <2>2 DEF RemoveWatches
  <2>4. \A M, f, x : x \in Nat /\ f \in [1 .. x -> M] => f \in Seq(M) OBVIOUS
  <2> QED BY <2>1, <2>3, <2>4, Zenon
<1>4. Errors(calls) \in Seq(Messages)
  <2>1. ErrorReplies \subseteq Messages BY DEF ErrorReplies, Messages, Replies
  <2>2. \A A, B : A \subseteq B => Seq(A) \subseteq Seq(B) OBVIOUS
  <2>3. Errors(calls) \in Seq(ErrorReplies) BY <1>1, ErrorsOf
  <2> QED BY <2>1, <2>2, <2>3, Zenon
<1>5. inbox' \in Seq(Messages)
  <2>1. RemoveWatches(inbox) \o Errors(calls) \in Seq(Messages) BY <1>3, <1>4, ConcatOf
  <2> QED BY <1>2, <2>1
<1>6. Agrees' BY AgreesClose
<1>7. Tracked' BY <1>2, Zenon DEF Tracked
<1>8. TableInv' BY <1>2, Zenon DEF TableInv
<1>9. calls' \in Seq(Calls) BY <1>2
<1>10. abandoned' \in BOOLEAN
  <2>1. \A x, S : (x \in S) \in BOOLEAN OBVIOUS
  <2> QED BY <1>2, <2>1, Zenon
<1> QED BY <1>2, <1>5, <1>6, <1>7, <1>8, <1>9, <1>10 DEF PeerInv

(* The idle callbacks.                                                      *)
LEMMA IdleStep ==
  ASSUME PeerInv, Dispatch
  PROVE  PeerInv'
<1>1. calls \in Seq(Calls) BY DEF PeerInv
<1>2. UNCHANGED <<ad_proxy, registered, abandoned, ctrl, advertising, inbox, gatt_app>>
  BY DEF Dispatch, ad_register, ad_unregister, gatt_write_data, ad, air
<1>3. \/ UNCHANGED <<exported, calls>>
      \/ /\ ad_proxy /\ ~registered /\ ~exported /\ exported' = TRUE
         /\ calls' = Append(calls, "register")
      \/ UNCHANGED exported /\ calls' = Append(calls, "unregister")
  <2>1. CASE ad_register BY <2>1 DEF ad_register
  <2>2. CASE ad_unregister BY <2>2 DEF ad_unregister, ad
  <2>3. CASE gatt_write_data BY <2>3 DEF gatt_write_data, ad
  <2> QED BY <2>1, <2>2, <2>3 DEF Dispatch
<1>4. Tracked /\ TableInv /\ Agrees BY DEF PeerInv
<1>5. ASSUME NEW c, c \in {"register", "unregister"}, calls' = Append(calls, c)
      PROVE  /\ Appended(calls', calls, c) /\ calls' \in Seq(Calls) /\ TableInv'
  <2>1. c \in Calls BY <1>5 DEF Calls
  <2>2. Appended(calls', calls, c) /\ calls' \in Seq(Calls)
    <3>1. Appended(Append(calls, c), calls, c) /\ Append(calls, c) \in Seq(Calls)
      BY <1>1, <2>1, AppendedOf
    <3> QED BY <1>5, <3>1, Zenon
  <2>3. KeepsTable(c) BY <1>5 DEF KeepsTable
  <2>4. TableSent => TableSent' BY <1>2, <2>2, <2>3, SentAppend
  <2> QED BY <1>2, <1>4, <2>2, <2>4, Zenon DEF TableInv, SameManager, Added, Removed
<1>6. CASE UNCHANGED <<exported, calls>>
  <2>1. /\ \A i \in 1 .. Len(calls') : i + 0 \in 1 .. Len(calls) /\ calls'[i] = calls[i + 0]
        /\ Len(calls') \in Nat
    BY <1>1, <1>6
  <2>2. Agrees' BY <1>2, <1>6, <2>1, AgreesCalls
  <2>3. Tracked' BY <1>2, <1>4, <1>6, Zenon DEF Tracked, Answer
  <2>4. TableInv'
    <3>1. TableSent => TableSent' BY <1>2, <1>6, Zenon DEF TableSent
    <3> QED BY <1>2, <1>4, <3>1, Zenon DEF TableInv, SameManager, Added, Removed
  <2> QED BY <1>2, <1>6, <2>2, <2>3, <2>4 DEF PeerInv
<1>7. CASE /\ ad_proxy /\ ~registered /\ ~exported /\ exported' = TRUE
           /\ calls' = Append(calls, "register")
  <2>1. Appended(calls', calls, "register") /\ calls' \in Seq(Calls) /\ TableInv'
    BY <1>5, <1>7
  <2>2. Agrees' BY <1>2, <1>7, AgreesRegister
  <2>3. Asked' BY <2>1, AskedAppend
  <2>4. Tracked' BY <2>3, Zenon DEF Tracked, Asked
  <2> QED BY <1>2, <1>7, <2>1, <2>2, <2>4 DEF PeerInv
<1>8. CASE UNCHANGED exported /\ calls' = Append(calls, "unregister")
  <2>1. Appended(calls', calls, "unregister") /\ calls' \in Seq(Calls) /\ TableInv'
    BY <1>5, <1>8
  <2>2. Agrees'
    <3>1. /\ Len(calls) \in Nat /\ Len(calls') = Len(calls) + 1
          /\ calls'[Len(calls) + 1] = "unregister"
          /\ \A i \in 1 .. Len(calls) : calls'[i] = calls[i]
      BY <2>1, Zenon DEF Appended
    <3>2. \A i \in 1 .. Len(calls') : i # Len(calls) + 1 => i \in 1 .. Len(calls) /\ i + 0 = i
      <4>1. Len(calls) \in Nat /\ Len(calls') = Len(calls) + 1 BY <3>1
      <4> QED BY <4>1
    <3>3. "unregister" # "register" OBVIOUS
    <3>4. \A i \in 1 .. Len(calls') : calls'[i] = "register" =>
            i + 0 \in 1 .. Len(calls) /\ calls[i + 0] = "register"
      BY <3>1, <3>2, <3>3, Zenon
    <3>5. Len(calls') \in Nat
      <4>1. Len(calls) \in Nat /\ Len(calls') = Len(calls) + 1 BY <3>1
      <4> QED BY <4>1
    <3> QED BY <1>2, <1>8, <3>4, <3>5, AgreesCalls
  <2>3. Asked => Asked' BY <2>1, AskedAppend
  <2>4. Tracked' BY <1>2, <1>4, <1>8, <2>3, Zenon DEF Tracked, Asked, Answer
  <2> QED BY <1>2, <1>8, <2>1, <2>2, <2>4 DEF PeerInv
<1> QED BY <1>3, <1>6, <1>7, <1>8

(* The reading of a message.                                                *)
LEMMA ReadStep ==
  ASSUME PeerInv, Read
  PROVE  PeerInv'
<1>1. inbox \in Seq(Messages) /\ calls \in Seq(Calls) BY DEF PeerInv
<1>2. inbox # << >> /\ inbox' = Tail(inbox) BY DEF Read
<1>3. /\ Shortened(inbox', inbox) /\ inbox' \in Seq(Messages)
      /\ Head(inbox) = inbox[1] /\ inbox[1] \in Messages
  BY <1>1, <1>2, ShortenedOf
<1>4. UNCHANGED <<ctrl, advertising, gatt_app>> BY DEF Read, air
<1>5. PICK m : m = inbox[1] OBVIOUS
<1>6. ReadsTo(m) /\ m \in Messages
  <2>1. ReadsTo(Head(inbox)) BY DEF Read, ReadsTo
  <2> QED BY <1>3, <1>5, <2>1
<1>7. Tracked /\ TableInv BY DEF PeerInv
<1>8. Agrees' BY AgreesRead
<1>9. \/ /\ m = "manager added" /\ ad_proxy' = TRUE /\ calls' = Append(calls, "register app")
         /\ UNCHANGED <<exported, registered, abandoned>>
      \/ /\ m = "manager removed" /\ ad_proxy' = FALSE /\ registered' = FALSE
         /\ exported' = FALSE /\ calls' = Append(calls, "unregister app")
         /\ abandoned' = AnsweredLate
      \/ /\ ~Added(m) /\ ~Removed(m) /\ UNCHANGED <<ad_proxy, calls, abandoned>>
         /\ exported' \in {exported, FALSE} /\ registered' \in {TRUE, FALSE, registered}
         /\ \/ exported' = FALSE
            \/ registered' = TRUE
            \/ ~Answer(m) /\ UNCHANGED <<exported, registered>>
  <2>1. CASE ManagerChanged(m)
    BY <2>1 DEF ManagerChanged, register_app, unregister_app, ad_release
  <2>2. CASE register_reply(m) /\ UNCHANGED <<calls, abandoned>>
    BY <2>2 DEF register_reply, Added, Removed
  <2>3. CASE unregister_reply(m) /\ UNCHANGED <<calls, abandoned>>
    BY <2>3 DEF unregister_reply, ad, ad_release, Added, Removed, Answer
  <2>4. CASE release_advertising(m) /\ UNCHANGED <<calls, abandoned>>
    BY <2>4 DEF release_advertising, ad_release, Added, Removed, Answer
  <2>5. CASE Ignore(m) /\ UNCHANGED <<calls, abandoned>>
    BY <2>5 DEF Ignore, ad, Added, Removed, Answer
  <2> QED BY <1>6, <2>1, <2>2, <2>3, <2>4, <2>5 DEF ReadsTo
<1>10. ASSUME NEW c, c \in Calls, calls' = Append(calls, c)
       PROVE  Appended(calls', calls, c) /\ calls' \in Seq(Calls)
  <2>1. Appended(Append(calls, c), calls, c) /\ Append(calls, c) \in Seq(Calls)
    BY <1>1, <1>10, AppendedOf
  <2> QED BY <1>10, <2>1, Zenon
<1>11. CASE /\ m = "manager added" /\ ad_proxy' = TRUE /\ calls' = Append(calls, "register app")
            /\ UNCHANGED <<exported, registered, abandoned>>
  <2>1. "register app" \in Calls BY DEF Calls
  <2>2. Appended(calls', calls, "register app") /\ calls' \in Seq(Calls) BY <1>10, <1>11, <2>1
  <2>3. ~Answer(inbox[1]) BY <1>5, <1>11 DEF Answer
  <2>4. Tracked'
    <3>1. Answered => Answered' BY <1>3, <2>3, AnsweredTail
    <3>2. Asked => Asked' BY <2>2, AskedAppend
    <3> QED BY <1>7, <1>11, <3>1, <3>2, Zenon DEF Tracked, Asked, Answered
  <2>5. TableSent'
    <3>1. /\ Len(calls) \in Nat /\ Len(calls') = Len(calls) + 1
          /\ calls'[Len(calls) + 1] = "register app"
      BY <2>2, Zenon DEF Appended
    <3>2. /\ Len(calls) + 1 \in 1 .. Len(calls')
          /\ (Len(calls) + 1) + 1 .. Len(calls') = {}
      <4>1. Len(calls) \in Nat /\ Len(calls') = Len(calls) + 1 BY <3>1
      <4> QED BY <4>1
    <3> QED BY <3>1, <3>2, Zenon DEF TableSent
  <2>6. TableInv' BY <1>3, <1>4, <1>7, <2>5, TableTail
  <2> QED BY <1>3, <1>4, <1>8, <1>11, <2>2, <2>4, <2>6 DEF PeerInv
<1>12. CASE /\ m = "manager removed" /\ ad_proxy' = FALSE /\ registered' = FALSE
            /\ exported' = FALSE /\ calls' = Append(calls, "unregister app")
            /\ abandoned' = AnsweredLate
  <2>1. "unregister app" \in Calls BY DEF Calls
  <2>2. calls' \in Seq(Calls) BY <1>10, <1>12, <2>1
  <2>3. Tracked' BY <1>12, Zenon DEF Tracked
  <2>4. TableInv'
    <3>1. Removed(inbox[1]) /\ ~Added(inbox[1]) BY <1>5, <1>12 DEF Removed, Added
    <3> QED BY <1>3, <1>4, <1>7, <3>1, TableTail
  <2>5. abandoned' \in BOOLEAN
    <3>1. AnsweredLate \in BOOLEAN BY Zenon DEF AnsweredLate
    <3> QED BY <1>12, <3>1
  <2> QED BY <1>3, <1>4, <1>8, <1>12, <2>2, <2>3, <2>4, <2>5 DEF PeerInv
<1>13. CASE /\ ~Added(m) /\ ~Removed(m) /\ UNCHANGED <<ad_proxy, calls, abandoned>>
            /\ exported' \in {exported, FALSE} /\ registered' \in {TRUE, FALSE, registered}
            /\ \/ exported' = FALSE
               \/ registered' = TRUE
               \/ ~Answer(m) /\ UNCHANGED <<exported, registered>>
  <2>1. TableInv'
    <3>1. ~Added(inbox[1]) /\ ~Removed(inbox[1]) BY <1>5, <1>13
    <3>2. TableSent => TableSent' BY <1>4, <1>13, Zenon DEF TableSent
    <3> QED BY <1>3, <1>4, <1>7, <3>1, <3>2, TableTail
  <2>2. Tracked'
    <3>1. CASE exported' = FALSE BY <3>1, Zenon DEF Tracked
    <3>2. CASE registered' = TRUE BY <3>2, Zenon DEF Tracked
    <3>3. CASE ~Answer(m) /\ UNCHANGED <<exported, registered>>
      <4>1. Answered => Answered' BY <1>3, <1>5, <3>3, AnsweredTail
      <4>2. UNCHANGED calls BY <1>13
      <4> QED BY <1>7, <3>3, <4>1, <4>2, Zenon DEF Tracked, Answered
    <3> QED BY <1>13, <3>1, <3>2, <3>3
  <2>3. exported' \in BOOLEAN /\ registered' \in BOOLEAN BY <1>13 DEF PeerInv
  <2> QED BY <1>3, <1>4, <1>8, <1>13, <2>1, <2>2, <2>3 DEF PeerInv
<1> QED BY <1>9, <1>11, <1>12, <1>13

(* Every step of Next.                                                      *)
LEMMA PeerStep ==
  ASSUME PeerInv, [Next]_vars
  PROVE  PeerInv'
<1>1. CASE UNCHANGED <<ad, bluetoothd, inbox, abandoned>>
  <2>1. UNCHANGED <<ad_proxy, exported, registered, ctrl, advertising, gatt_app, calls, inbox,
                    abandoned>>
    BY <1>1 DEF ad, bluetoothd, air
  <2>2. calls \in Seq(Calls) BY DEF PeerInv
  <2>3. /\ \A i \in 1 .. Len(calls') : i + 0 \in 1 .. Len(calls) /\ calls'[i] = calls[i + 0]
        /\ Len(calls') \in Nat
    BY <2>1, <2>2
  <2>4. Agrees' BY <2>1, <2>3, AgreesCalls
  <2>5. Tracked /\ TableInv BY DEF PeerInv
  <2>6. Tracked' BY <2>1, <2>5, Zenon DEF Tracked, Answer
  <2>7. TableInv'
    <3>1. TableSent => TableSent' BY <2>1, Zenon DEF TableSent
    <3> QED BY <2>1, <2>5, <3>1, Zenon DEF TableInv, SameManager, Added, Removed
  <2> QED BY <2>1, <2>4, <2>6, <2>7 DEF PeerInv
<1>2. CASE TakeRegister \/ TakeUnregister \/ DropAdvertisement \/ ControllerFound
  BY <1>2, ServerStep
<1>3. CASE TakeRegisterApp \/ TakeUnregisterApp BY <1>3, TableStep
<1>4. CASE ControllerLost BY <1>4, LostStep
<1>5. CASE Read BY <1>5, ReadStep
<1>6. CASE Dispatch BY <1>6, IdleStep
<1>7. CASE bluetooth_close BY <1>7, CloseStep
<1>8. ASSUME NEW n, bluetooth_open(n) PROVE PeerInv' BY <1>1, <1>8 DEF bluetooth_open
<1>9. ASSUME NEW c, chrc_start_notify(c) \/ chrc_stop_notify(c) PROVE PeerInv'
  BY <1>1, <1>9 DEF chrc_start_notify, chrc_stop_notify
<1>10. ASSUME NEW r, Advertise(r) PROVE PeerInv' BY <1>1, <1>10 DEF Advertise
<1>11. ASSUME NEW cfg, rk_ble_send_notify(cfg) \/ chr_write_value(cfg) PROVE PeerInv'
  BY <1>1, <1>11 DEF rk_ble_send_notify, chr_write_value
<1>12. CASE UNCHANGED vars BY <1>1, <1>12 DEF vars
<1> QED BY <1>2, <1>3, <1>4, <1>5, <1>6, <1>7, <1>8, <1>9, <1>10, <1>11, <1>12 DEF Next

(* Whatever was advertised in earlier sessions, and whatever bluetoothd     *)
(* releases or loses, it advertises what this session's rk_bt_init gave.    *)
THEOREM AdvertisesContentHolds == Spec => []AdvertisesContent
<1>1. Init => AirInv BY DEF Init, AirInv
<1>2. AirInv => AdvertisesContent BY DEF AirInv, AdvertisesContent
<1> QED BY <1>1, <1>2, AirStep, PTL DEF Spec

(* However many notifications share ble_cfg, and however often Bluetooth    *)
(* closes while they wait, the last one asked for is the last to leave.     *)
THEOREM LastNotifyWinsHolds == Spec => []LastNotifyWins
<1>1. Init => NotifyInv BY DEF Init, NotifyInv, LastNotifyWins
<1>2. NotifyInv => LastNotifyWins BY DEF NotifyInv
<1> QED BY <1>1, <1>2, NotifyStep, PTL DEF Spec

(* The initial state.                                                       *)
LEMMA PeerInit ==
  ASSUME Init
  PROVE  PeerInv
<1>1. /\ calls = << >> /\ inbox = << >> /\ ctrl = FALSE /\ advertising = FALSE
      /\ ad_proxy = FALSE /\ exported = FALSE /\ registered = FALSE /\ abandoned = FALSE
      /\ gatt_app = "none"
  BY DEF Init
<1>2. Len(inbox) = 0 /\ Len(calls) = 0 /\ 1 .. 0 = {} /\ 0 + 1 = 1 BY <1>1
<1>3. Tells(inbox, 0, {}, {}) BY <1>2 DEF Tells
<1>4. NoManager BY <1>1, <1>2 DEF NoManager
<1>5. Believes(0, {}, {}) BY <1>1, <1>2, <1>4 DEF Believes
<1>6. 0 \in 0 .. Len(inbox) /\ {} \in SUBSET (0 .. Len(inbox)) BY <1>2
<1>7. Agrees BY <1>3, <1>5, <1>6 DEF Agrees
<1>8. Tracked /\ TableInv BY <1>1, Zenon DEF Tracked, TableInv
<1>9. calls \in Seq(Calls) /\ inbox \in Seq(Messages) BY <1>1
<1> QED BY <1>1, <1>7, <1>8, <1>9 DEF PeerInv

(* Every step keeps the remaining types.                                    *)
LEMMA RestStep ==
  ASSUME RestInv, [Next]_vars
  PROVE  RestInv'
<1> USE DEF content, ad, air, bluetoothd, gatt
<1>1. CASE UNCHANGED <<opened, content, on_air, idle, gatt>> BY <1>1 DEF RestInv
<1>2. CASE TakeRegister
  <2>1. UNCHANGED <<opened, content, idle, gatt>> /\ on_air' \in {local_name, on_air}
    BY <1>2 DEF TakeRegister, ad_properties
  <2> QED BY <2>1 DEF RestInv
<1>3. CASE \/ TakeUnregister \/ TakeRegisterApp \/ TakeUnregisterApp \/ DropAdvertisement
           \/ ControllerLost \/ ControllerFound \/ Read
  BY <1>1, <1>3 DEF TakeUnregister, TakeRegisterApp, TakeUnregisterApp, DropAdvertisement,
     ControllerLost, ControllerFound, Read
<1>4. CASE Dispatch
  <2>1. idle # << >> /\ UNCHANGED <<opened, content, on_air, ble_cfg, notifying>>
    BY <1>4 DEF Dispatch, ad_register, ad_unregister, gatt_write_data
  <2>2. \/ idle' = Tail(idle) \/ idle' = Append(Tail(idle), Head(idle))
    BY <1>4 DEF Dispatch, ad_register, ad_unregister, gatt_write_data
  <2>3. sent' \in {sent, ble_cfg} /\ echoed' \in {echoed, FALSE}
    BY <1>4 DEF Dispatch, ad_register, ad_unregister, gatt_write_data, chr_write
  <2>4. idle' \in Seq({"start", "stop", "notify"})
    <3> DEFINE T == {"start", "stop", "notify"}
    <3>1. idle \in Seq(T) BY DEF RestInv
    <3> HIDE DEF T
    <3>2. Tail(idle) \in Seq(T) /\ Head(idle) \in T BY <2>1, <3>1
    <3>3. idle' \in Seq(T) BY <2>2, <3>2
    <3> QED BY <3>3 DEF T
  <2> QED BY <2>1, <2>3, <2>4 DEF RestInv
<1>5. CASE bluetooth_close
  <2>1. /\ opened' = FALSE /\ notifying' = {}
        /\ UNCHANGED <<content, on_air, idle, ble_cfg, sent, echoed>>
    BY <1>5 DEF bluetooth_close, gatt_cleanup
  <2> QED BY <2>1 DEF RestInv
<1>6. ASSUME NEW n \in Names \cup {None}, bluetooth_open(n) PROVE RestInv'
  <2>1. /\ opened' = TRUE /\ ble_name' = n /\ local_name' \in {n, local_name}
        /\ UNCHANGED <<on_air, idle, gatt>>
    BY <1>6 DEF bluetooth_open, iBle_init_adv
  <2> QED BY <2>1 DEF RestInv
<1>7. ASSUME NEW c \in Chrs, chrc_start_notify(c) \/ chrc_stop_notify(c) PROVE RestInv'
  <2>1. /\ opened /\ notifying' \in {notifying \cup {c}, notifying \ {c}}
        /\ UNCHANGED <<opened, content, on_air, idle, ble_cfg, sent, echoed>>
    BY <1>7 DEF chrc_start_notify, chrc_stop_notify
  <2> QED BY <2>1 DEF RestInv
<1>8. ASSUME NEW r \in {"start", "stop"}, Advertise(r) PROVE RestInv'
  <2>1. idle' = Append(idle, r) /\ UNCHANGED <<opened, content, on_air, gatt>>
    BY <1>8 DEF Advertise
  <2> QED BY <2>1 DEF RestInv
<1>9. ASSUME NEW cfg \in Config, rk_ble_send_notify(cfg) PROVE RestInv'
  <2>1. /\ idle' = Append(idle, "notify") /\ ble_cfg' = cfg
        /\ UNCHANGED <<opened, content, on_air, notifying, sent, echoed>>
    BY <1>9 DEF rk_ble_send_notify
  <2> QED BY <2>1 DEF RestInv
<1>10. ASSUME NEW cfg \in Config, chr_write_value(cfg) PROVE RestInv'
  <2>1. /\ sent' = cfg /\ echoed' = TRUE
        /\ UNCHANGED <<opened, content, on_air, idle, ble_cfg, notifying>>
    BY <1>10 DEF chr_write_value, chr_write
  <2> QED BY <2>1 DEF RestInv
<1>11. CASE UNCHANGED vars BY <1>1, <1>11 DEF vars
<1> QED BY <1>2, <1>3, <1>4, <1>5, <1>6, <1>7, <1>8, <1>9, <1>10, <1>11 DEF Next

(* Whatever order the answers of bluetoothd, its Release calls and the      *)
(* losses of its controller are read in, the advertisement object is taken  *)
(* off the bus again or its answer is still to come (register_reply,        *)
(* unregister_reply, ad_release, proxy_removed).                            *)
THEOREM ExportTrackedHolds == Spec => []ExportTracked
<1>1. ASSUME PeerInv PROVE ExportTracked
  <2>1. DOMAIN calls = 1 .. Len(calls) /\ DOMAIN inbox = 1 .. Len(inbox)
    <3>1. calls \in Seq(Calls) /\ inbox \in Seq(Messages) BY <1>1 DEF PeerInv
    <3> QED BY <3>1
  <2>2. Asked => "register" \in Range(calls) BY <2>1, Zenon DEF Asked, Range
  <2>3. Answered => Range(inbox) \cap {"registered", "register failed"} # {}
    <3> SUFFICES ASSUME NEW i \in 1 .. Len(inbox), Answer(inbox[i])
                 PROVE  Range(inbox) \cap {"registered", "register failed"} # {}
      BY DEF Answered
    <3>1. inbox[i] \in Range(inbox) BY <2>1 DEF Range
    <3> QED BY <3>1, Zenon DEF Answer
  <2>4. exported => registered \/ Pending("register", {"registered", "register failed"})
    BY <1>1, <2>2, <2>3, Zenon DEF PeerInv, Tracked, Asked, Answered, Pending
  <2>5. ~abandoned => (registered => exported) BY <1>1 DEF PeerInv, Agrees, Believes
  <2> QED BY <2>4, <2>5 DEF ExportTracked
<1> QED BY <1>1, PeerInit, PeerStep, PTL DEF Spec

(* Once nothing is under way, ad.registered says whether bluetoothd         *)
(* advertises and a controller that is there was given the GATT table, over *)
(* any number of starts, stops, losses and sessions.                        *)
THEOREM AgreedWhenQuietHolds == Spec => []AgreedWhenQuiet
<1>1. ASSUME PeerInv PROVE AgreedWhenQuiet
  <2> SUFFICES ASSUME calls = << >>, inbox = << >>
               PROVE  (~abandoned => registered = advertising) /\ (ctrl => gatt_app # "none")
    BY DEF AgreedWhenQuiet
  <2>1. Len(calls) = 0 /\ Len(inbox) = 0 OBVIOUS
  <2>2. ASSUME ~abandoned PROVE registered = advertising
    <3>1. PICK k \in 0 .. 0 : \E C, V \in SUBSET (0 .. 0) : Believes(k, C, V)
      BY <1>1, <2>1 DEF PeerInv, Agrees
    <3>2. PICK C \in SUBSET (0 .. 0), V \in SUBSET (0 .. 0) : Believes(k, C, V) BY <3>1
    <3>3. k = 0 OBVIOUS
    <3>4. registered <=> advertising BY <2>1, <2>2, <3>2, <3>3 DEF Believes
    <3>5. registered \in BOOLEAN /\ advertising \in BOOLEAN BY <1>1 DEF PeerInv
    <3> QED BY <3>4, <3>5
  <2>3. ASSUME ctrl PROVE gatt_app # "none"
    <3>1. TableInv BY <1>1 DEF PeerInv
    <3>2. 1 .. 0 = {} OBVIOUS
    <3> QED BY <2>1, <2>3, <3>1, <3>2, Zenon DEF TableInv, TableSent
  <2> QED BY <2>2, <2>3
<1> QED BY <1>1, PeerInit, PeerStep, PTL DEF Spec

(* Every variable keeps its type, and notifications are only on for the     *)
(* characteristics of an open GATT table (gatt_cleanup).                    *)
THEOREM PeripheralTypes == Spec => []TypeOK
<1>1. ASSUME Init PROVE RestInv
  <2>1. idle = << >> BY <1>1 DEF Init
  <2>2. idle \in Seq({"start", "stop", "notify"}) BY <2>1
  <2>3. /\ opened = FALSE /\ echoed = FALSE /\ ble_name = None /\ local_name = None
        /\ on_air = None /\ ble_cfg = None /\ sent = None /\ notifying = {}
    BY <1>1 DEF Init
  <2> QED BY <2>2, <2>3 DEF RestInv
<1>2. PeerInv /\ RestInv => TypeOK BY DEF PeerInv, RestInv, TypeOK, Calls, Messages
<1> QED BY <1>1, <1>2, PeerInit, PeerStep, RestStep, PTL DEF Spec
=============================================================================
