----------------------------- MODULE GattClient -----------------------------
(***************************************************************************)
(* The GATT client: gatt_client.c, the client half of a2dp_source/gatt.c,  *)
(* and the calls of bt_hal.c.  rk_ble_client_read and rk_ble_client_write  *)
(* fill one shared buffer and queue an idle callback; the others run in    *)
(* the thread of the application.  All of them go through default_attr,    *)
(* which no lock protects: a callback of the main loop sets it and reads   *)
(* it again, and an application thread may come between.                   *)
(*                                                                         *)
(* One remote device; the uuids of its attributes are distinct, so an      *)
(* attribute stands for its uuid.  A call through a NULL or freed proxy    *)
(* ends the process.                                                       *)
(***************************************************************************)
EXTENDS Naturals, SequencesExt

CONSTANTS
  Services, Characteristics, Descriptors,
  Parent,   \* of a characteristic or a descriptor
  Unknown,  \* a uuid the device does not have
  Data,     \* values written
  None,
  MaxIdle,  \* bound on the idle callbacks waiting
  MaxCalls  \* no request starts with so many calls not answered

Attrs == Services \cup Characteristics \cup Descriptors
Uuids == Attrs \cup {Unknown}

Requests == [op : {"read", "write"}, uuid : Uuids, data : Data \cup {None}]

ASSUME ClientAssumption ==
  /\ Services \cap Characteristics = {}
  /\ Parent \in [Characteristics \cup Descriptors -> Services \cup Characteristics]
  /\ \A c \in Characteristics : Parent[c] \in Services
  /\ \A d \in Descriptors : Parent[d] \in Characteristics
  /\ {Unknown, None} \cap (Attrs \cup Data) = {} /\ None \notin Requests
  /\ {MaxIdle, MaxCalls} \subseteq Nat

VARIABLES
  opened,      \* bt_is_open
  device,      \* "absent", "known" to the controller, or the "default" device
  attrs,       \* services, characteristics, descriptors: the three lists
  default_attr,
  gatt_client_uuid, rk_gatt_data,  \* the buffers of bt_hal.c
  idle,        \* idle callbacks, oldest first
  loop,        \* the request whose attribute the main loop has selected
  thread,      \* the direct call of an application thread
  calls,       \* method calls bluetoothd has not answered
  asked,       \* the last read or write asked for
  issued,      \* the last read or write that left, or was refused
  owed,        \* writes the application has no answer for
  overtaken,   \* an application thread set default_attr under the main loop
  stray,       \* or set it to an attribute that was gone
  crashed      \* "no", or which of the two ended the process

lists == <<opened, device, attrs>>
buffers == <<gatt_client_uuid, rk_gatt_data>>
ghosts == <<asked, issued, owed, overtaken, stray>>
vars == <<lists, default_attr, buffers, idle, loop, thread, calls, ghosts, crashed>>

Methods == {"read", "write", "notify"}

Init ==
  /\ opened = FALSE /\ device = "absent" /\ attrs = {} /\ default_attr = None
  /\ gatt_client_uuid = None /\ rk_gatt_data = None /\ idle = << >>
  /\ loop = None /\ thread = None /\ calls = << >>
  /\ asked = None /\ issued = None /\ owed = 0
  /\ overtaken = FALSE /\ stray = FALSE /\ crashed = "no"

-----------------------------------------------------------------------------
(* Signals of bluetoothd, handled by the main loop between two callbacks.   *)

Signal(dev, as, attr) ==
  /\ opened /\ loop = None
  /\ device' = dev /\ attrs' = as /\ default_attr' = attr
  /\ UNCHANGED <<opened, buffers, idle, loop, thread, calls, ghosts, crashed>>

device_added == device = "absent" /\ Signal("known", attrs, default_attr)

\* bluetoothd removes the attributes of a device before the device.
device_removed == device # "absent" /\ attrs = {} /\ Signal("absent", attrs, None)

\* Connected turns true, and false: set_default_device.
set_default_device ==
  \/ device = "known" /\ Signal("default", attrs, default_attr)
  \/ device = "default" /\ Signal("known", attrs, None)

\* service_is_child, chrc_is_child, descriptor_is_child.
is_child(a) ==
  IF a \in Services THEN device # "absent" ELSE Parent[a] \in attrs

\* Mutant: a characteristic is listed whether or not its service is.
AddAny(a) ==
  a \notin attrs /\ device # "absent" /\ Signal(device, attrs \cup {a}, default_attr)

gatt_add(a) ==
  /\ a \notin attrs /\ is_child(a)
  /\ Signal(device, attrs \cup {a}, default_attr)

\* Mutant: the selected attribute stays selected.
RemoveKeepsDefault(a) ==
  /\ a \in attrs /\ \A b \in attrs \ Services : Parent[b] # a
  /\ Signal(device, attrs \ {a}, default_attr)

\* Children first, as bluetoothd sends it.
gatt_remove(a) ==
  /\ a \in attrs /\ \A b \in attrs \ Services : Parent[b] # a
  /\ Signal(device, attrs \ {a}, IF default_attr = a THEN None ELSE default_attr)

-----------------------------------------------------------------------------
(* The application.                                                         *)

\* Mutant: the value is copied only when the uuid is a new one.
WriteKeepsData(u, d) ==
  /\ opened /\ Len(idle) < MaxIdle
  /\ gatt_client_uuid' = u
  /\ rk_gatt_data' = IF gatt_client_uuid = u /\ rk_gatt_data # None THEN rk_gatt_data ELSE d
  /\ idle' = Append(idle, "write")
  /\ asked' = [op |-> "write", uuid |-> u, data |-> d] /\ owed' = owed + 1
  /\ UNCHANGED <<lists, default_attr, loop, thread, calls, issued, overtaken, stray, crashed>>

rk_ble_client_write(u, d) ==
  /\ opened /\ Len(idle) < MaxIdle
  /\ gatt_client_uuid' = u /\ rk_gatt_data' = d
  /\ idle' = Append(idle, "write")
  /\ asked' = [op |-> "write", uuid |-> u, data |-> d] /\ owed' = owed + 1
  /\ UNCHANGED <<lists, default_attr, loop, thread, calls, issued, overtaken, stray, crashed>>

rk_ble_client_read(u) ==
  /\ opened /\ Len(idle) < MaxIdle
  /\ gatt_client_uuid' = u
  /\ idle' = Append(idle, "read")
  /\ asked' = [op |-> "read", uuid |-> u, data |-> None]
  /\ UNCHANGED <<lists, default_attr, rk_gatt_data, loop, thread, calls>>
  /\ UNCHANGED <<issued, owed, overtaken, stray, crashed>>

-----------------------------------------------------------------------------
(* Going through default_attr.                                              *)

\* Mutant: set_default_device is called without the device.
ClearsDefault(a) == default_attr' = None

\* With no default device, set_default_device clears what was just set.
set_default_attribute(a) == default_attr' = IF device = "default" THEN a ELSE None

\* gatt_read_attribute, gatt_write_attribute: strcmp on a NULL interface.
Usable == default_attr \in attrs

\* read_attribute, write_attribute, notify_attribute; bluetoothd gets the call.
Call(op, d) == calls' = Append(calls, [op |-> op, attr |-> default_attr, data |-> d])

-----------------------------------------------------------------------------
(* gatt_client_read and gatt_client_write: select, then use.                *)

Request == [op |-> Head(idle), uuid |-> gatt_client_uuid,
            data |-> IF Head(idle) = "write" THEN rk_gatt_data ELSE None]

\* Mutant: a write to an unknown uuid is dropped without WRITE_ERR.
RefuseSilently(r) == issued' = r /\ UNCHANGED owed

\* Mutant: READ_ERR is reported as WRITE_ERR.
RefuseAsWrite(r) == issued' = r /\ owed' = owed - 1

\* READ_ERR or WRITE_ERR.
Refuse(r) == issued' = r /\ owed' = IF r.op = "write" THEN owed - 1 ELSE owed

gatt_client_select_attribute ==
  /\ loop = None /\ idle # << >> /\ Len(calls) < MaxCalls
  /\ idle' = Tail(idle)
  /\ IF gatt_client_uuid \in attrs
     THEN /\ set_default_attribute(gatt_client_uuid)
          /\ loop' = Request /\ overtaken' = FALSE
          /\ UNCHANGED <<issued, owed>>
     ELSE Refuse(Request) /\ UNCHANGED <<default_attr, loop, overtaken>>
  /\ UNCHANGED <<lists, buffers, thread, calls, asked, stray, crashed>>

LoopCall ==
  /\ loop # None
  /\ loop' = None
  /\ IF ~Usable
     THEN crashed' = "loop" /\ UNCHANGED <<calls, issued, owed>>
     ELSE /\ IF default_attr \in Services
             THEN Refuse([loop EXCEPT !.uuid = default_attr]) /\ UNCHANGED calls
             ELSE /\ Call(loop.op, loop.data)
                  /\ issued' = [loop EXCEPT !.uuid = default_attr]
                  /\ UNCHANGED owed
          /\ UNCHANGED crashed
  /\ UNCHANGED <<lists, default_attr, buffers, idle, thread, asked, overtaken, stray>>

-----------------------------------------------------------------------------
(* gatt_client_notify and gatt_client_is_notifying, in a thread of the      *)
(* application: find the attribute, set default_attr, use it.               *)

Direct(f, u) ==
  /\ thread = None /\ u \in attrs /\ Len(calls) < MaxCalls
  /\ thread' = [call |-> f, attr |-> u, set |-> FALSE]
  /\ UNCHANGED <<lists, default_attr, buffers, idle, loop, calls, ghosts, crashed>>

DirectSet ==
  /\ thread # None /\ ~thread.set
  /\ set_default_attribute(thread.attr)
  /\ thread' = [thread EXCEPT !.set = TRUE]
  /\ overtaken' = (overtaken \/ loop # None)
  /\ stray' = (stray \/ thread.attr \notin attrs)
  /\ UNCHANGED <<lists, buffers, idle, loop, calls, asked, issued, owed, crashed>>

Outcome(ok) == IF ok THEN "no" ELSE "thread"

\* gatt_get_notifying looks at a NULL proxy; gatt_notify_attribute may not.
DirectUse ==
  /\ thread # None /\ thread.set
  /\ thread' = None
  /\ IF thread.call = "is_notifying"
     THEN crashed' = Outcome(Usable \/ default_attr = None) /\ UNCHANGED calls
     ELSE /\ crashed' = Outcome(Usable)
          /\ IF default_attr \in attrs \cap Characteristics THEN Call("notify", None)
                                                            ELSE UNCHANGED calls
  /\ UNCHANGED <<lists, default_attr, buffers, idle, loop, ghosts>>

-----------------------------------------------------------------------------
(* The answer, value or error: read_reply, write_reply, notify_reply.       *)
(* Errors stand for the calls of a bluetoothd that left.                    *)
Reply(i) ==
  /\ loop = None
  /\ calls' = RemoveAt(calls, i)
  /\ owed' = IF calls[i].op = "write" THEN owed - 1 ELSE owed
  /\ crashed' = IF calls[i].op # "notify" \/ Usable \/ default_attr = None THEN "no" ELSE "loop"
  /\ UNCHANGED <<lists, default_attr, buffers, idle, loop, thread>>
  /\ UNCHANGED <<asked, issued, overtaken, stray>>

-----------------------------------------------------------------------------
(* rk_ble_client_get_service_info: what an application is shown, found by   *)
(* walking down from the services of the device.                            *)
Below(ps) == {a \in attrs \ Services : Parent[a] \in ps}

get_list_attributes ==
  LET ss == attrs \cap Services
      cs == Below(ss) \cap Characteristics
  IN  ss \cup cs \cup (Below(cs) \cap Descriptors)

gatt_client_get_service_info ==
  IF device = "absent" THEN {} ELSE get_list_attributes

-----------------------------------------------------------------------------
bluetooth_open ==
  /\ ~opened /\ loop = None
  /\ opened' = TRUE /\ default_attr' = None
  /\ UNCHANGED <<device, attrs, buffers, idle, loop, thread, calls, ghosts, crashed>>

\* g_dbus_client_unref removes every proxy.
bluetooth_close ==
  /\ opened /\ loop = None
  /\ opened' = FALSE /\ device' = "absent" /\ attrs' = {} /\ default_attr' = None
  /\ UNCHANGED <<buffers, idle, loop, thread, calls, ghosts, crashed>>

Step ==
  \/ device_added \/ device_removed \/ set_default_device
  \/ \E a \in Attrs : gatt_add(a) \/ gatt_remove(a)
  \/ \E u \in Uuids : \/ rk_ble_client_read(u)
                      \/ \E d \in Data : rk_ble_client_write(u, d)
                      \/ \E f \in {"notify", "is_notifying"} : Direct(f, u)
  \/ gatt_client_select_attribute \/ LoopCall
  \/ DirectSet \/ DirectUse
  \/ \E i \in DOMAIN calls : Reply(i)
  \/ bluetooth_open \/ bluetooth_close

Next == \/ crashed = "no" /\ Step
        \/ crashed # "no" /\ UNCHANGED vars

Spec == Init /\ [][Next]_vars

-----------------------------------------------------------------------------
(* Every variable has its type, and no write is answered twice.             *)
TypeOK ==
  /\ {opened, overtaken, stray} \subseteq BOOLEAN /\ crashed \in {"no", "loop", "thread"}
  /\ device \in {"absent", "known", "default"}
  /\ attrs \subseteq Attrs /\ default_attr \in Attrs \cup {None}
  /\ gatt_client_uuid \in Uuids \cup {None} /\ rk_gatt_data \in Data \cup {None}
  /\ idle \in Seq({"read", "write"})
  /\ {loop, asked, issued} \subseteq Requests \cup {None}
  /\ thread \in [call : {"notify", "is_notifying"}, attr : Attrs, set : BOOLEAN] \cup {None}
  /\ calls \in Seq([op : Methods, attr : Attrs, data : Data \cup {None}])
  /\ owed \in Nat

(* What rk_ble_client_get_service_info shows, walking down from the         *)
(* services, is exactly what a uuid can select: no characteristic or        *)
(* descriptor is listed without the service above it, in whatever order     *)
(* they appear and go.                                                      *)
AttributesRooted == gatt_client_get_service_info = attrs

(* default_attr never refers to a freed proxy, whatever order attributes,   *)
(* connections and sessions come and go in, unless an application thread    *)
(* set it to an attribute it had found before that one went away.           *)
DefaultAttrLive == default_attr # None /\ ~stray => default_attr \in attrs

WritesQueued == {i \in DOMAIN idle : idle[i] = "write"}
WritesCalled == {i \in DOMAIN calls : calls[i].op = "write"}

(* Every write the application asked for is answered exactly once: those it *)
(* has no answer for are queued, at work, or with bluetoothd.               *)
WritesAnswered ==
  crashed = "no" =>
    owed = Cardinality(WritesQueued)
           + (IF loop # None /\ loop.op = "write" THEN 1 ELSE 0)
           + Cardinality(WritesCalled)

(* Although all requests share one uuid and one data buffer, once the queue *)
(* is empty the last request asked for is the last one that left or was     *)
(* refused, on its own attribute and with its own data.  Only an            *)
(* application thread that sets default_attr between the two halves of the  *)
(* callback can send it elsewhere.                                          *)
LastRequestWins ==
  idle = << >> /\ loop = None /\ asked # None /\ ~overtaken /\ crashed = "no"
    => issued = asked

(* While a default device is connected a queued request never crashes the   *)
(* main loop, nor does the answer to a notify call, unless an application   *)
(* thread interfered; without one, set_default_attribute leaves NULL.       *)
LoopSurvives == crashed = "loop" => device # "default" \/ overtaken \/ stray
====
