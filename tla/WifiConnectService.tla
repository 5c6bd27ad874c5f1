------------------------- MODULE WifiConnectService -------------------------
(***************************************************************************)
(* WifiConnect as an implementation of ConnectService.  An attempt is a    *)
(* connect call from the moment it holds wifi_connect_lock, and then the   *)
(* check thread it leaves behind until that thread releases the lock.      *)
(***************************************************************************)
EXTENDS WifiConnect

CallPhase(a) ==
  CASE At(a, "fail") -> "failing"
    [] At(a, "unlock") -> "told"
    [] OTHER -> "working"

CheckPhase(c) ==
  CASE chk[c].pc \in {"drop", "send"} /\ ~chk[c].ok -> "failing"
    [] chk[c].pc = "release" -> "told"
    [] OTHER -> "working"

CallAttempt(a) == [call |-> app[a].call, net |-> app[a].id, phase |-> CallPhase(a)]
CheckAttempt(c) == [call |-> chk[c].call, net |-> chk[c].own, phase |-> CheckPhase(c)]

Attempts ==
  {CallAttempt(a) : a \in {x \in Apps : Configuring(x) \/ Unwinding(x)}}
    \cup {CheckAttempt(c) : c \in {x \in Checkers : Live(x)}}

SavedNetworks == {id \in Ids : Known(id)}

Service == INSTANCE ConnectService
             WITH Networks <- Ids, attempts <- Attempts, saved <- SavedNetworks,
                  result <- outcome, owed <- (mon.pc = "wrong_key")

\* Seen through its attempts, saved networks and reports, the library with its
\* threads, lock and shared globals is the connect service, when one thread
\* makes the calls and RK_wifi_connect_with_bssid is not among them.
ImplementsService == Service!Spec

-----------------------------------------------------------------------------
Told == outcome # "none" \/ mon.pc = "wrong_key"

\* What the refinement needs besides SerialInv: a check thread that reports
\* nothing relies on a wrong key that was told or is about to be, and a call
\* has no network before its search.
ToldInv ==
  /\ wifi_wrong_key => Told
  /\ \A a \in Apps : \/ app[a].pc \in {"lock", "search"}
                     \/ At(a, "disable") /\ app[a].call = "connect"
                     => app[a].id = None
  /\ \A c \in Checkers :
       /\ chk[c].pc = "drop" => ~chk[c].ok
       /\ chk[c].pc \in {"drop", "send"} /\ ~chk[c].report => ~chk[c].ok /\ Told

=============================================================================
