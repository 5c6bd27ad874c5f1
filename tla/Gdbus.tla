-------------------------------- MODULE Gdbus --------------------------------
(***************************************************************************)
(* The two halves of the gdbus library, joined by the message bus: a       *)
(* service that exports objects (gdbus/object.c) and a client that keeps a *)
(* proxy for each of them (gdbus/client.c), told by gdbus/watch.c when the *)
(* service gets or loses its name.  The bus delivers to the client, in one *)
(* order, the signals of the service, the replies to the client's calls    *)
(* and the NameOwnerChanged signals.  An object here is one interface of   *)
(* one path, and all its properties are one value.                         *)
(***************************************************************************)
EXTENDS Naturals, Sequences, FiniteSets, Functions

CONSTANTS
  Objects,   \* (path, interface) pairs the service may export
  Values,    \* property values
  None,      \* not exported, no proxy
  MaxChan    \* bound on the messages in flight

ASSUME GdbusAssumption == None \notin Values /\ MaxChan \in Nat

VARIABLES
  up,        \* does a service own the name
  objs,      \* data->interfaces and their property values
  chan,      \* messages on their way to the client
  names,     \* is GetNameOwner unanswered
  request,   \* is GetManagedObjects unanswered by its receiver
  client,    \* is there a client
  connected,
  get_objects_call,  \* does the client wait for GetManagedObjects
  proxies,   \* the proxies' properties
  told,      \* what the callbacks told the application of each object
  leftover   \* objects announced to a former client in messages still unread

service == <<up, objs>>
view == <<client, connected, get_objects_call, proxies, told>>
vars == <<service, chan, names, request, view, leftover>>

Nothing == [o \in Objects |-> None]
HasRoom == Len(chan) < MaxChan

\* The bus has the match rules of the client and of its watches, which ask for
\* every signal of the service and of the service's name.
Matched == client

\* The bus delivers what a match rule of the client, or a call of it, asks for.
Send(m) == chan' = IF Matched THEN Append(chan, m) ELSE chan

-----------------------------------------------------------------------------
(* What the bus carries.                                                   *)

NameOwnerChanged(b) == [type |-> "owner", up |-> b]
InterfacesAdded(o, v) == [type |-> "added", obj |-> o, val |-> v]
InterfacesRemoved(o) == [type |-> "removed", obj |-> o]
PropertiesChanged(o, v) == [type |-> "changed", obj |-> o, val |-> v]
Error == [type |-> "error"]
Unheard == [type |-> "unheard"]  \* the reply to a call that was cancelled

-----------------------------------------------------------------------------
(* The service.  add_pending runs process_changes at once, so a signal      *)
(* leaves before anything else the service sends.                           *)

ServiceStart ==
  /\ ~up /\ HasRoom
  /\ up' = TRUE
  /\ Send(NameOwnerChanged(TRUE))
  /\ UNCHANGED <<objs, names, request, view, leftover>>

\* The bus drops the name, then answers the calls the service leaves behind.
ServiceStop ==
  /\ up /\ HasRoom
  /\ up' = FALSE /\ objs' = Nothing
  /\ IF request THEN chan' = chan \o <<NameOwnerChanged(FALSE), Error>>
     ELSE Send(NameOwnerChanged(FALSE))
  /\ request' = FALSE
  /\ UNCHANGED <<names, view, leftover>>

add_interface(o, v) ==
  /\ up /\ objs[o] = None /\ HasRoom
  /\ objs' = [objs EXCEPT ![o] = v]
  /\ Send(InterfacesAdded(o, v))
  /\ UNCHANGED <<up, names, request, view, leftover>>

remove_interface(o) ==
  /\ objs[o] # None /\ HasRoom
  /\ objs' = [objs EXCEPT ![o] = None]
  /\ Send(InterfacesRemoved(o))
  /\ UNCHANGED <<up, names, request, view, leftover>>

\* Mutant: the signal is left out while a GetManagedObjects waits to be answered.
EmitUnlessAsked(o, v) ==
  /\ objs[o] \notin {None, v} /\ HasRoom
  /\ objs' = [objs EXCEPT ![o] = v]
  /\ IF request THEN UNCHANGED chan ELSE Send(PropertiesChanged(o, v))
  /\ UNCHANGED <<up, names, request, view, leftover>>

\* A property is stored, and g_dbus_emit_property_changed called.
emit_property_changed(o, v) ==
  /\ objs[o] \notin {None, v} /\ HasRoom
  /\ objs' = [objs EXCEPT ![o] = v]
  /\ Send(PropertiesChanged(o, v))
  /\ UNCHANGED <<up, names, request, view, leftover>>

\* GetManagedObjects; the bus itself answers when the name has no owner.
get_objects ==
  /\ request /\ HasRoom
  /\ request' = FALSE
  /\ Send(IF up THEN [type |-> "objects", objs |-> objs] ELSE Error)
  /\ UNCHANGED <<service, names, view, leftover>>

\* GetNameOwner is answered by the bus.
GetNameOwner ==
  /\ names /\ HasRoom
  /\ names' = FALSE
  /\ Send([type |-> "reply", up |-> up])
  /\ UNCHANGED <<service, request, view, leftover>>

Service ==
  \/ ServiceStart \/ ServiceStop \/ get_objects \/ GetNameOwner
  \/ \E o \in Objects : \/ remove_interface(o)
                        \/ \E v \in Values : add_interface(o, v) \/ emit_property_changed(o, v)

-----------------------------------------------------------------------------
(* The client.                                                             *)

\* g_dbus_client_new; g_dbus_add_service_watch asks who owns the name.
g_dbus_client_new ==
  /\ ~client
  /\ client' = TRUE
  /\ names' = TRUE
  /\ leftover' = {m.obj : m \in {x \in Range(chan) : x.type = "added"}}
  /\ UNCHANGED <<service, chan, request, connected, get_objects_call, proxies, told>>

Signals == {"owner", "added", "removed", "changed"}

\* g_dbus_remove_watch cancels the calls of the watches it removes; what was
\* already delivered to the connection stays unread on it.
RemoveWatches ==
  /\ names' = FALSE
  /\ chan' = [i \in DOMAIN chan |-> IF chan[i].type \in Signals THEN chan[i] ELSE Unheard]

\* The proxies of os are freed, and their removal told.
proxy_remove(os) ==
  /\ proxies' = [o \in Objects |-> IF o \in os THEN None ELSE proxies[o]]
  /\ told' = [o \in Objects |-> IF o \in os THEN None ELSE told[o]]

g_dbus_client_unref ==
  /\ client
  /\ client' = FALSE /\ connected' = FALSE
  /\ get_objects_call' = FALSE /\ request' = FALSE
  /\ proxy_remove(Objects)
  /\ RemoveWatches
  /\ leftover' = {}
  /\ UNCHANGED service

\* Mutant: the objects are asked for, and the client is not marked as connected.
ConnectUnmarked ==
  /\ get_objects_call' = TRUE
  /\ request' = (request \/ ~get_objects_call)
  /\ UNCHANGED <<connected, proxies, told>>

\* service_connect, which calls get_managed_objects.
service_connect ==
  /\ connected' = TRUE
  /\ get_objects_call' = TRUE
  /\ request' = (request \/ ~get_objects_call)
  /\ UNCHANGED <<proxies, told>>

\* Mutant: a lost service also forgets the call it left unanswered.
DisconnectForgetsCall ==
  /\ connected' = FALSE /\ get_objects_call' = FALSE
  /\ proxy_remove(Objects)
  /\ UNCHANGED request

\* Mutant: the proxies of a lost service are kept for its return.
DisconnectKeepsProxies ==
  /\ connected' = FALSE
  /\ UNCHANGED <<request, get_objects_call, proxies, told>>

service_disconnect ==
  /\ connected' = FALSE
  /\ proxy_remove(Objects)
  /\ UNCHANGED <<request, get_objects_call>>

service_filter(m) ==
  /\ m.type = "owner"
  /\ IF m.up THEN service_connect ELSE service_disconnect

\* A GetNameOwner that fails does nothing.
service_reply(m) ==
  /\ m.type = "reply"
  /\ IF m.up THEN service_connect
     ELSE UNCHANGED <<connected, get_objects_call, request, proxies, told>>

Known(o) == proxies[o] # None

\* add_property stores each value, and calls property_changed if it is to.
update_properties(o, v, send_changed) ==
  /\ proxies' = [proxies EXCEPT ![o] = v]
  /\ told' = IF send_changed THEN [told EXCEPT ![o] = v] ELSE told

\* parse_properties for every object of new: a known proxy is updated in
\* silence, another one is made, given its properties and then announced.
Parse(new) ==
  /\ proxies' = [o \in Objects |-> IF new[o] = None THEN proxies[o] ELSE new[o]]
  /\ told' = [o \in Objects |-> IF Known(o) THEN told[o] ELSE new[o]]

interfaces_added(m) ==
  /\ m.type = "added"
  /\ Parse([Nothing EXCEPT ![m.obj] = m.val])

interfaces_removed(m) ==
  /\ m.type = "removed"
  /\ proxy_remove({m.obj})

properties_changed(m) ==
  /\ m.type = "changed"
  /\ update_properties(m.obj, m.val, TRUE)

\* Is there filter data for the signal?  A proxy adds a watch for its own
\* PropertiesChanged; the client's watches are there as long as the client.
Watched(m) == m.type = "changed" => Known(m.obj)

\* message_filter gives a signal to the callbacks of its watch.
signal_filter(m) ==
  /\ m.type \in {"added", "removed", "changed"}
  /\ \/ Watched(m) /\ (interfaces_added(m) \/ interfaces_removed(m) \/ properties_changed(m))
     \/ ~Watched(m) /\ UNCHANGED <<proxies, told>>
  /\ UNCHANGED <<connected, get_objects_call, request>>

get_managed_objects_reply(m) ==
  /\ m.type \in {"objects", "error"}
  /\ get_objects_call' = FALSE
  /\ IF m.type = "objects" THEN Parse(m.objs) ELSE UNCHANGED <<proxies, told>>
  /\ UNCHANGED <<connected, request>>

\* libdbus finds no pending call for the message.
NoPendingCall(m) ==
  /\ m.type = "unheard"
  /\ UNCHANGED <<connected, get_objects_call, request, proxies, told>>

\* The client takes the next message off its connection.
Receive ==
  /\ client /\ chan # << >>
  /\ LET m == Head(chan) IN
       \/ service_filter(m) \/ service_reply(m)
       \/ signal_filter(m) \/ get_managed_objects_reply(m) \/ NoPendingCall(m)
  /\ chan' = Tail(chan)
  /\ UNCHANGED <<service, names, client, leftover>>

\* No listener is left: message_filter drops the message.
Discard ==
  /\ ~client /\ chan # << >>
  /\ chan' = Tail(chan)
  /\ UNCHANGED <<service, names, request, view, leftover>>

Init ==
  /\ up \in BOOLEAN /\ objs = Nothing
  /\ chan = << >> /\ names = FALSE /\ request = FALSE
  /\ client = FALSE /\ connected = FALSE /\ get_objects_call = FALSE
  /\ proxies = Nothing /\ told = Nothing /\ leftover = {}

Next == Service \/ g_dbus_client_new \/ g_dbus_client_unref \/ Receive \/ Discard

(* The main loop reads the connection, and the bus and the service answer.  *)
Fairness == WF_vars(Receive) /\ SF_vars(get_objects) /\ SF_vars(GetNameOwner)

Spec == Init /\ [][Next]_vars /\ Fairness

-----------------------------------------------------------------------------
View == [Objects -> Values \cup {None}]
Message ==
  [type : {"owner", "reply"}, up : BOOLEAN]
    \cup [type : {"added", "changed"}, obj : Objects, val : Values]
    \cup [type : {"removed"}, obj : Objects]
    \cup [type : {"objects"}, objs : View] \cup [type : {"error", "unheard"}]

(* Every variable has its type, and the client waits for exactly one of a   *)
(* request on its way and a reply on its way when it says it does.          *)
TypeOK ==
  /\ up \in BOOLEAN /\ client \in BOOLEAN /\ connected \in BOOLEAN
  /\ names \in BOOLEAN /\ leftover \subseteq Objects
  /\ objs \in View /\ proxies \in View /\ told \in View
  /\ \A i \in DOMAIN chan : chan[i] \in Message
  /\ Cardinality({i \in DOMAIN chan : chan[i].type \in {"objects", "error"}})
       + (IF request THEN 1 ELSE 0) = (IF get_objects_call THEN 1 ELSE 0)

(* Once nothing is in flight the client has a proxy for every exported      *)
(* object, with the current properties, and for no other object, however    *)
(* the service registers, changes, unregisters, exits and returns around    *)
(* GetManagedObjects (get_managed_objects_reply, client.c).  Only an object *)
(* whose announcement was left unread by a former client may outlive its    *)
(* removal: GetManagedObjects never removes a proxy.                        *)
Mirrors ==
  client /\ chan = << >> /\ ~names /\ ~request =>
    \A o \in Objects : \/ proxies[o] = objs[o]
                       \/ objs[o] = None /\ o \in leftover

(* What proxy_added, proxy_removed and property_changed have told the       *)
(* application is what the proxies hold, although parse_properties updates  *)
(* a known proxy without a callback: every change was signalled before the  *)
(* reply that repeats it.                                                   *)
ToldAll == \A o \in Objects \ leftover : told[o] = proxies[o]

(* A client whose service has its name is connected in the end, whether the *)
(* service appeared before, while or after the client asked for its owner.  *)
Connects == client /\ up ~> connected \/ ~up \/ ~client
====
