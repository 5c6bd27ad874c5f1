--------------------------- MODULE ConnectService ---------------------------
(***************************************************************************)
(* What connecting to an access point promises the application, with no    *)
(* threads, no lock and no wpa_supplicant: attempts come one at a time,    *)
(* each works on one network, each ends, and none ends untold.  A wrong    *)
(* key is the one result told by somebody else, who may be late.           *)
(***************************************************************************)
CONSTANTS
  Networks,  \* the networks that may be saved
  None

VARIABLES
  attempts,  \* the attempts under way
  saved,     \* the saved networks
  result,    \* what the application was told since the last attempt began
  owed       \* is it about to be told that its key is wrong

vars == <<attempts, saved, result, owed>>

Init == attempts = {} /\ saved \in SUBSET Networks /\ result = "none" /\ owed = FALSE

Begin(call) ==
  /\ attempts = {}
  /\ attempts' = {[call |-> call, net |-> None, phase |-> "working"]}
  /\ result' = "none"
  /\ UNCHANGED <<saved, owed>>

\* A saved network is used again; only "connect" may save a new one.
Choose(t, id) ==
  /\ t.phase = "working" /\ t.net = None
  /\ id \in saved \/ t.call = "connect"
  /\ attempts' = {[t EXCEPT !.net = id]}
  /\ saved' = saved \cup {id}
  /\ UNCHANGED <<result, owed>>

Fail(t) ==
  /\ t.phase = "working"
  /\ attempts' = {[t EXCEPT !.phase = "failing"]}
  /\ UNCHANGED <<saved, result, owed>>

Tell(t) ==
  /\ \/ t.phase = "working" /\ t.net # None /\ result' = "DHCP_OK"
     \/ t.phase = "failing" /\ result' = "CONNECTFAILED"
     \/ t.phase = "failing" /\ (result # "none" \/ owed) /\ UNCHANGED result
  /\ attempts' = {[t EXCEPT !.phase = "told"]}
  /\ UNCHANGED <<saved, owed>>

End(t) ==
  /\ t.phase = "told"
  /\ attempts' = {}
  /\ UNCHANGED <<saved, result, owed>>

RefuseKey ==
  /\ owed' = TRUE
  /\ UNCHANGED <<attempts, saved, result>>

TellWrongKey ==
  /\ owed
  /\ owed' = FALSE /\ result' = "WRONG_KEY"
  /\ UNCHANGED <<attempts, saved>>

\* The application forgets networks, or a failed "connect" drops its own.
Forget(nets) ==
  /\ saved' = saved \ nets
  /\ UNCHANGED <<attempts, result, owed>>

Next ==
  \/ \E nets \in SUBSET Networks : Forget(nets)
  \/ RefuseKey \/ TellWrongKey
  \/ \E t \in attempts : \/ Fail(t) \/ Tell(t) \/ End(t)
                         \/ \E id \in Networks : Choose(t, id)
  \/ \E call \in {"connect", "with_ssid"} : Begin(call)

Safety == Init /\ [][Next]_vars

\* No attempt lasts for ever, and none leaves the application untold for ever.
Spec == Safety /\ (attempts # {} ~> attempts = {} /\ result # "none")

=============================================================================
