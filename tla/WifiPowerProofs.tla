--------------------------- MODULE WifiPowerProofs ---------------------------
(***************************************************************************)
(* OpenMeansRunning of WifiPower for any number of callers, monitors and   *)
(* supplicants, when an application waits for the previous call and its    *)
(* monitor to settle; and that a monitor moves towards its end while       *)
(* wifi_onoff_flag is down.                                                *)
(***************************************************************************)
EXTENDS WifiPower, FiniteSetTheorems, TLAPS

Settled == WaitFor = "settled"

Early == {"begin", "connect", "failed", "abort"}

Types ==
  /\ gstate \in {"OPEN", "OFF"}
  /\ starts \in Nat
  /\ call \in [Threads -> CallPcs]
  /\ mon \in [Monitors -> MonPcs]

Disabling == {"lower", "wait", "term", "off", "kill9"}

(* One thread at a time is in a call of the application, or a monitor that  *)
(* has not connected yet and may call RK_wifi_enable(0) itself.             *)
Busy(t) ==
  \/ t \in Apps /\ call[t] # "idle"
  \/ t \in Monitors /\ mon[t] \in Early

OneBusy ==
  /\ \A t, u \in Threads : Busy(t) /\ Busy(u) => t = u
  /\ \A m \in Monitors :
       call[m] # "idle" => mon[m] = "abort" /\ call[m] \in Disabling

(* The supplicant that runs is the one started last.  A call has it away    *)
(* only while OFF is still to be reported or another one to be started, and *)
(* kills it at its end only after OFF.                                      *)
Away == {"kill_old", "start", "off"}
Supplicant ==
  /\ wpa \in {0, starts}
  /\ \A t \in Threads : call[t] = "start" => wpa = 0
  /\ \A t \in Threads : call[t] = "kill9" => gstate = "OFF"
  /\ (\E t \in Threads : call[t] = "open") \/ gstate = "OPEN" =>
       \/ wpa # 0 \/ starts \in lost
       \/ \E t \in Threads : call[t] \in Away

IInv == Types /\ OneBusy /\ Supplicant

(* Whoever is inside RK_wifi_enable is there alone.                         *)
LEMMA Alone ==
  ASSUME Types, OneBusy, NEW t \in Threads, call[t] # "idle"
  PROVE  \A u \in Threads : u # t => call[u] = "idle"
BY PowerAssumption DEF Types, OneBusy, Busy, Early, Threads

(* A call begins when nobody is busy.                                       *)
LEMMA BeginStep ==
  ASSUME Settled, IInv, NEW t \in Apps, Call(t)
  PROVE  IInv'
<1>1. PICK l \in {"idle", "on", "lower"} : call' = [call EXCEPT ![t] = l]
  BY DEF Call, EnableCall, DisableCall, Goto
<1>2. UNCHANGED <<gstate, wpa, starts, lost, mon>> BY DEF Call, EnableCall, DisableCall
<1>3. /\ call[t] = "idle" /\ \A u \in Apps : call[u] = "idle"
      /\ \A m \in Monitors : mon[m] \notin Early
  BY DEF Call, EnableCall, DisableCall, MayCall, Settled, Early
<1> USE DEF IInv, Threads
<1>4. Types' BY <1>1, <1>2 DEF Types, CallPcs
<1>5. /\ call'[t] = l
      /\ \A u \in Threads : u # t => call'[u] = call[u]
  BY <1>1 DEF Types
<1>6. OneBusy' BY <1>2, <1>3, <1>5, PowerAssumption DEF OneBusy, Busy, Early
<1>7. Supplicant'
  <2>1. \A u \in Threads : \A p \in {"start", "kill9", "open"} \cup Away :
          call'[u] = p <=> call[u] = p
    BY <1>3, <1>5 DEF Away
  <2> QED BY <1>2, <2>1 DEF Supplicant, Away
<1> QED BY <1>4, <1>6, <1>7

(* t is at l, and nobody else is in a call.                                 *)
Only(t, l) == call[t] = l /\ \A u \in Threads : u # t => call[u] = "idle"

(* A call goes on.                                                          *)
LEMMA StayStep ==
  ASSUME Types, OneBusy, NEW t \in Threads, call[t] # "idle",
         NEW l \in CallPcs \ {"idle"}, call[t] \in Disabling => l \in Disabling,
         Goto(t, l), UNCHANGED mon
  PROVE  OneBusy' /\ Only(t, l)' /\ call' \in [Threads -> CallPcs]
<1>1. \A u \in Threads : u # t => call[u] = "idle" BY Alone
<1>2. call' \in [Threads -> CallPcs] BY DEF Types, Goto
<1>3. Only(t, l)' BY <1>1 DEF Types, Goto, Only
<1>4. OneBusy' BY <1>1, <1>3, PowerAssumption DEF OneBusy, Busy, Only, Threads
<1> QED BY <1>2, <1>3, <1>4

(* A call returns: of an application, which may leave a new monitor, or of  *)
(* a monitor, which ends.                                                   *)
LEMMA LeaveStep ==
  ASSUME Types, OneBusy, NEW t \in Threads, call[t] # "idle", Goto(t, "idle"),
         \/ t \in Apps /\ UNCHANGED mon
         \/ t \in Apps /\ \E m \in Monitors : MonGoto(m, "begin")
         \/ t \in Monitors /\ MonGoto(t, "none")
  PROVE  OneBusy' /\ Only(t, "idle")' /\ call' \in [Threads -> CallPcs]
                  /\ mon' \in [Monitors -> MonPcs]
<1>1. \A u \in Threads : u # t => call[u] = "idle" BY Alone
<1>2. call' \in [Threads -> CallPcs] BY DEF Types, Goto, CallPcs
<1>3. mon' \in [Monitors -> MonPcs] BY DEF Types, MonGoto, MonPcs
<1>4. Only(t, "idle")' BY <1>1 DEF Types, Goto, Only
<1>5. \A m, n \in Monitors : mon'[m] \in Early /\ mon'[n] \in Early => m = n
  <2>1. CASE t \in Apps
    <3>1. \A m \in Monitors : mon[m] \notin Early
      BY <2>1, PowerAssumption DEF OneBusy, Busy, Threads
    <3> QED BY <2>1, <3>1, PowerAssumption DEF Types, MonGoto
  <2>2. CASE t \in Monitors
    <3>1. MonGoto(t, "none") BY <2>2, PowerAssumption
    <3>2. \A m, n \in Monitors : mon[m] \in Early /\ mon[n] \in Early => m = n
      BY DEF OneBusy, Busy, Threads
    <3> QED BY <3>1, <3>2 DEF Types, MonGoto, Early
  <2> QED BY <2>1, <2>2 DEF Threads
<1>6. OneBusy' BY <1>4, <1>5 DEF OneBusy, Busy, Only, Threads
<1> QED BY <1>2, <1>3, <1>4, <1>6

(* The steps of a call that was begun.                                      *)
LEMMA CallStep ==
  ASSUME IInv, NEW t \in Threads, InCall(t)
  PROVE  IInv'
<1> USE DEF IInv
<1>0. /\ call[t] \notin {"idle"} \cup Disabling => t \in Apps
      /\ call[t] # "idle" => \A u \in Threads : u # t => call[u] = "idle"
  BY Alone DEF OneBusy, Threads
<1>1. CASE RaiseFlag(t) \/ LowerFlag(t) \/ WaitExit(t)
  <2>1. PICK l \in {"term_old", "wait", "term"} :
          /\ call[t] \in {"on", "lower", "wait"} /\ Goto(t, l)
          /\ call[t] \in Disabling => l \in Disabling
    BY <1>1 DEF RaiseFlag, LowerFlag, WaitExit, Disabling
  <2>2. UNCHANGED <<gstate, wpa, starts, lost, mon>> BY <1>1 DEF RaiseFlag, LowerFlag, WaitExit
  <2>3. OneBusy' /\ Only(t, l)' /\ call' \in [Threads -> CallPcs]
    BY <2>1, <2>2, StayStep DEF CallPcs
  <2>4. Supplicant' BY <1>0, <2>1, <2>2, <2>3 DEF Supplicant, Only, Away
  <2> QED BY <2>2, <2>3, <2>4 DEF Types
<1>2. CASE TermOld(t) \/ Terminate(t)
  <2>1. PICK l \in {"kill_old", "off"} :
          /\ call[t] \in {"term_old", "term"} /\ Goto(t, l)
          /\ call[t] \in Disabling => l \in Disabling
    BY <1>2 DEF TermOld, Terminate, Disabling
  <2>2. wpa' \in {0, wpa} /\ UNCHANGED <<gstate, starts, lost, mon>>
    BY <1>2 DEF TermOld, Terminate
  <2>3. OneBusy' /\ Only(t, l)' /\ call' \in [Threads -> CallPcs]
    BY <2>1, <2>2, StayStep DEF CallPcs
  <2>4. Supplicant' BY <2>1, <2>2, <2>3 DEF Supplicant, Only, Away
  <2> QED BY <2>2, <2>3, <2>4 DEF Types
<1>3. CASE KillOld(t)
  <2>1. OneBusy' /\ Only(t, "start")' /\ call' \in [Threads -> CallPcs]
    BY <1>3, StayStep DEF KillOld, CallPcs, Disabling
  <2>2. Supplicant' BY <1>3, <2>1 DEF KillOld, Supplicant, Only, Away
  <2> QED BY <1>3, <2>1, <2>2 DEF KillOld, Types
<1>4. CASE StartSupplicant(t)
  <2>1. OneBusy' /\ Only(t, "open")' /\ call' \in [Threads -> CallPcs]
    BY <1>4, StayStep DEF StartSupplicant, CallPcs, Disabling
  <2>2. /\ starts \in Nat /\ starts' = starts + 1
        /\ wpa' = starts' \/ (wpa' = 0 /\ starts' \in lost')
    BY <1>4 DEF StartSupplicant, Supplicant, Types
  <2>3. UNCHANGED <<gstate, mon>> BY <1>4 DEF StartSupplicant
  <2>4. Supplicant' BY <2>1, <2>2, <2>3 DEF Supplicant, Only
  <2> QED BY <2>1, <2>2, <2>3, <2>4 DEF Types
<1>5. CASE ReportOpen(t)
  <2>1. OneBusy' /\ Only(t, "spawn")' /\ call' \in [Threads -> CallPcs]
    BY <1>5, StayStep DEF ReportOpen, CallPcs, Disabling
  <2>2. wpa # 0 \/ starts \in lost
    BY <1>0, <1>5 DEF ReportOpen, Supplicant, Away
  <2>3. Supplicant' BY <1>5, <2>1, <2>2 DEF ReportOpen, Supplicant, Only
  <2> QED BY <1>5, <2>1, <2>3 DEF ReportOpen, Types
<1>6. CASE ReportOff(t)
  <2>1. OneBusy' /\ Only(t, "kill9")' /\ call' \in [Threads -> CallPcs]
    BY <1>6, StayStep DEF ReportOff, CallPcs, Disabling
  <2>2. Supplicant' BY <1>6, <2>1 DEF ReportOff, Supplicant, Only
  <2> QED BY <1>6, <2>1, <2>2 DEF ReportOff, Types
<1>7. CASE Spawn(t) \/ SpawnFails(t)
  <2>1. call[t] = "spawn" /\ t \in Apps
    BY <1>0, <1>7 DEF Spawn, SpawnFails, Disabling
  <2>2. OneBusy' /\ Only(t, "idle")' /\ call' \in [Threads -> CallPcs]
                 /\ mon' \in [Monitors -> MonPcs]
    BY <1>7, <2>1, LeaveStep DEF Spawn, SpawnFails
  <2>3. gstate' \in {gstate, "OFF"} /\ UNCHANGED <<wpa, starts, lost>>
    BY <1>7 DEF Spawn, SpawnFails
  <2>4. Supplicant' BY <1>0, <2>1, <2>2, <2>3 DEF Supplicant, Only, Away
  <2> QED BY <2>2, <2>3, <2>4 DEF Types
<1>8. CASE KillRemaining(t)
  <2>1. call[t] = "kill9" /\ gstate = "OFF" BY <1>8 DEF KillRemaining, Supplicant
  <2>2. OneBusy' /\ Only(t, "idle")' /\ call' \in [Threads -> CallPcs]
                 /\ mon' \in [Monitors -> MonPcs]
    BY <1>8, <2>1, LeaveStep, PowerAssumption DEF KillRemaining, Return, MonGoto, Threads
  <2>3. Supplicant' BY <1>8, <2>1, <2>2 DEF KillRemaining, Supplicant, Only
  <2> QED BY <1>8, <2>2, <2>3 DEF KillRemaining, Types
<1> QED BY <1>1, <1>2, <1>3, <1>4, <1>5, <1>6, <1>7, <1>8 DEF InCall

(* The steps of a monitor, of which only the call of RK_wifi_enable(0)      *)
(* matters: it begins where the monitor was the only one busy.              *)
LEMMA MonitorStep ==
  ASSUME IInv, NEW m \in Monitors, Monitor(m)
  PROVE  IInv'
<1> USE DEF IInv
<1>1. UNCHANGED <<gstate, wpa, starts, lost>>
  BY DEF Monitor, MonBegin, MonConnect, MonConnectFails, MonAbort, MonWait, MonNotice,
     MonEvent, MonHandled, MonLeave, MonClose
<1>2. CASE MonAbort(m) /\ is_wifi_enable
  <2>1. mon[m] = "failed" /\ Goto(m, "lower") /\ MonGoto(m, "abort") BY <1>2 DEF MonAbort
  <2>2. call[m] = "idle" BY <2>1 DEF OneBusy
  <2>3. Types' BY <1>1, <2>1 DEF Types, Goto, MonGoto, CallPcs, MonPcs
  <2>4. /\ call'[m] = "lower" /\ mon'[m] = "abort"
        /\ \A u \in Threads : u # m => call'[u] = call[u]
        /\ \A n \in Monitors : n # m => mon'[n] = mon[n]
    BY <2>1 DEF Types, Goto, MonGoto, Threads
  <2>5. OneBusy'
    BY <2>1, <2>4, PowerAssumption DEF OneBusy, Busy, Early, Disabling, Threads
  <2>6. Supplicant' BY <1>1, <2>2, <2>4 DEF Supplicant, Away, Threads
  <2> QED BY <2>3, <2>5, <2>6
<1>3. CASE ~(MonAbort(m) /\ is_wifi_enable)
  <2>1. PICK l \in MonPcs : MonGoto(m, l) /\ UNCHANGED call
                            /\ (l \in Early => mon[m] \in Early) /\ mon[m] # "abort"
    BY <1>3 DEF Monitor, MonBegin, MonConnect, MonConnectFails, MonAbort, MonWait,
       MonNotice, MonEvent, MonHandled, MonLeave, MonClose, MonPcs, Early
  <2>2. Types' BY <1>1, <2>1 DEF Types, MonGoto
  <2>3. mon'[m] = l /\ \A n \in Monitors : n # m => mon'[n] = mon[n]
    BY <2>1 DEF Types, MonGoto
  <2>4. OneBusy' BY <2>1, <2>3, PowerAssumption DEF OneBusy, Busy, Threads
  <2>5. Supplicant' BY <1>1, <2>1 DEF Supplicant
  <2> QED BY <2>2, <2>4, <2>5
<1> QED BY <1>2, <1>3

(* The inductive invariant holds in every reachable state.                  *)
THEOREM Invariance == Settled => (Spec => []IInv)
<1> SUFFICES ASSUME Settled PROVE Spec => []IInv OBVIOUS
<1>1. Init => IInv
  BY DEF Init, IInv, Types, CallPcs, MonPcs, OneBusy, Busy, Early, Supplicant, Away, Threads
<1>2. IInv /\ [Next]_vars => IInv'
  <2> SUFFICES ASSUME IInv, [Next]_vars PROVE IInv' OBVIOUS
  <2>1. CASE Crash
    BY <2>1 DEF Crash, IInv, Types, OneBusy, Busy, Supplicant
  <2>2. CASE UNCHANGED vars
    BY <2>2 DEF vars, IInv, Types, OneBusy, Busy, Supplicant
  <2> QED BY <2>1, <2>2, BeginStep, CallStep, MonitorStep DEF Next
<1> QED BY <1>1, <1>2, PTL DEF Spec

(* RK_wifi_enable from any threads, monitors that give up and switch the    *)
(* station off, killall without a process id, and supplicants that fail to  *)
(* start or die: between calls the supplicant of an open station runs, or   *)
(* failed by itself, when an application lets each call and its monitor     *)
(* settle.                                                                  *)
THEOREM OpenMeansRunningHolds == Settled => (Spec => []OpenMeansRunning)
<1>1. IInv => OpenMeansRunning
  BY DEF IInv, Supplicant, Away, OpenMeansRunning, Quiet
<1> QED BY <1>1, Invariance, PTL
-----------------------------------------------------------------------------
(* The ranges, whatever an application waits for.                           *)

Ranges ==
  /\ gstate \in {"OPEN", "OFF"}
  /\ wifi_onoff_flag \in BOOLEAN /\ wpa_exit \in BOOLEAN
  /\ starts \in Nat
  /\ conn \in 0 .. starts /\ wpa \in 0 .. starts /\ lost \subseteq 1 .. starts

(* A monitor calls RK_wifi_enable(0) only, and only when it failed.         *)
Places ==
  /\ call \in [Threads -> CallPcs] /\ mon \in [Monitors -> MonPcs]
  /\ \A m \in Monitors : /\ call[m] # "idle" <=> mon[m] = "abort"
                         /\ call[m] \in Disabling \cup {"idle"}

(* The calls on the way to start a supplicant are counted before they do.   *)
Budget == IsFiniteSet(Starting) /\ starts + Cardinality(Starting) <= MaxStarts

TInv == Ranges /\ Places /\ Budget

StartPcs == {"on", "term_old", "kill_old", "start"}

(* A thread that stays on the way, or off it, does not change the count.    *)
LEMMA SameBudget ==
  ASSUME Places, Budget, NEW t \in Threads, NEW l, Goto(t, l), starts' = starts,
         call[t] \in StartPcs <=> l \in StartPcs
  PROVE  Budget'
<1>1. \A u \in Threads : call'[u] \in StartPcs <=> call[u] \in StartPcs
  BY DEF Places, Goto
<1>2. Starting' = Starting BY <1>1 DEF Starting, StartPcs
<1> QED BY <1>2 DEF Budget

(* A call that begins takes one of the starts that are left, and gives it   *)
(* back when it starts its supplicant.                                      *)
LEMMA BudgetStep ==
  ASSUME Places, Budget, starts \in Nat, NEW t \in Threads, NEW l, Goto(t, l),
         \/ /\ call[t] \notin StartPcs /\ l \in StartPcs
            /\ starts' = starts /\ starts + Cardinality(Starting) < MaxStarts
         \/ call[t] \in StartPcs /\ l \notin StartPcs /\ starts' = starts + 1
  PROVE  Budget'
<1>1. \A u \in Threads : u # t => (call'[u] \in StartPcs <=> call[u] \in StartPcs)
  BY DEF Places, Goto
<1>2. call'[t] = l BY DEF Places, Goto
<1>3. /\ IsFiniteSet(Starting) /\ Cardinality(Starting) \in Nat
  BY FS_CardinalityType DEF Budget
<1>4. CASE call[t] \notin StartPcs /\ l \in StartPcs
  <2>1. Starting' = Starting \cup {t} /\ t \notin Starting
    BY <1>1, <1>2, <1>4 DEF Starting, StartPcs
  <2>2. IsFiniteSet(Starting') /\ Cardinality(Starting') = Cardinality(Starting) + 1
    BY <1>3, <2>1, FS_AddElement
  <2>3. starts' = starts /\ starts + Cardinality(Starting) < MaxStarts BY <1>4
  <2> QED BY <1>3, <2>2, <2>3, PowerAssumption DEF Budget
<1>5. CASE call[t] \in StartPcs /\ l \notin StartPcs
  <2>1. Starting' = Starting \ {t} /\ t \in Starting
    BY <1>1, <1>2, <1>5 DEF Starting, StartPcs
  <2>2. IsFiniteSet(Starting') /\ Cardinality(Starting') = Cardinality(Starting) - 1
    BY <1>3, <2>1, FS_RemoveElement
  <2>3. starts' = starts + 1 BY <1>5
  <2> QED BY <1>3, <2>2, <2>3, PowerAssumption DEF Budget
<1> QED BY <1>4, <1>5

(* An application begins a call.                                            *)
LEMMA BeginTypes ==
  ASSUME TInv, NEW t \in Apps, Call(t)
  PROVE  TInv'
<1> USE DEF TInv
<1>1. t \in Threads /\ t \notin Monitors BY PowerAssumption DEF Threads
<1>2. PICK l \in {"idle", "on", "lower"} :
        /\ Goto(t, l) /\ call[t] = "idle"
        /\ l = "on" => starts + Cardinality(Starting) < MaxStarts
  BY DEF Call, EnableCall, DisableCall, MayCall
<1>3. UNCHANGED <<gstate, wifi_onoff_flag, wpa_exit, conn, wpa, starts, lost, mon>>
  BY DEF Call, EnableCall, DisableCall
<1>4. Ranges' BY <1>3 DEF Ranges
<1>5. Places' BY <1>1, <1>2, <1>3 DEF Places, Goto, CallPcs
<1>6. Budget'
  <2>1. CASE l = "on"
    BY <1>1, <1>2, <1>3, <2>1, BudgetStep DEF Ranges, StartPcs
  <2>2. CASE l # "on"
    BY <1>1, <1>2, <1>3, <2>2, SameBudget DEF StartPcs
  <2> QED BY <2>1, <2>2
<1> QED BY <1>4, <1>5, <1>6

(* The steps of a call that was begun.                                      *)
LEMMA CallTypes ==
  ASSUME TInv, NEW t \in Threads, InCall(t)
  PROVE  TInv'
<1> USE DEF TInv
<1>1. CASE RaiseFlag(t) \/ TermOld(t) \/ KillOld(t)
  <2>1. PICK l \in StartPcs : call[t] \in StartPcs /\ Goto(t, l)
    BY <1>1 DEF RaiseFlag, TermOld, KillOld, StartPcs
  <2>2. /\ wpa' \in {0, wpa} /\ wifi_onoff_flag' \in BOOLEAN
        /\ UNCHANGED <<gstate, wpa_exit, conn, starts, lost, mon>>
    BY <1>1 DEF RaiseFlag, TermOld, KillOld, Ranges
  <2>3. Ranges' BY <2>2 DEF Ranges
  <2>4. t \notin Monitors BY <2>1 DEF Places, StartPcs, Disabling
  <2>5. Places' BY <2>1, <2>2, <2>4 DEF Places, Goto, CallPcs, StartPcs
  <2>6. Budget' BY <2>1, <2>2, SameBudget
  <2> QED BY <2>3, <2>5, <2>6
<1>2. CASE StartSupplicant(t)
  <2>1. call[t] = "start" /\ Goto(t, "open") /\ starts' = starts + 1
    BY <1>2 DEF StartSupplicant
  <2>2. /\ wpa' \in {wpa, starts + 1} /\ lost' \in {lost, lost \cup {starts + 1}}
        /\ UNCHANGED <<gstate, wifi_onoff_flag, wpa_exit, conn, mon>>
    BY <1>2 DEF StartSupplicant
  <2>3. Ranges' BY <2>1, <2>2 DEF Ranges
  <2>4. t \notin Monitors BY <2>1 DEF Places, Disabling
  <2>5. Places' BY <2>1, <2>2, <2>4 DEF Places, Goto, CallPcs
  <2>6. Budget' BY <2>1, BudgetStep DEF StartPcs, Ranges
  <2> QED BY <2>3, <2>5, <2>6
<1>3. CASE ReportOpen(t)
  <2>1. call[t] = "open" /\ Goto(t, "spawn") BY <1>3 DEF ReportOpen
  <2>2. /\ gstate' = "OPEN"
        /\ UNCHANGED <<wifi_onoff_flag, wpa_exit, conn, wpa, starts, lost, mon>>
    BY <1>3 DEF ReportOpen
  <2>3. Ranges' BY <2>2 DEF Ranges
  <2>4. t \notin Monitors BY <2>1 DEF Places, Disabling
  <2>5. Places' BY <2>1, <2>2, <2>4 DEF Places, Goto, CallPcs
  <2>6. Budget' BY <2>1, <2>2, SameBudget DEF StartPcs
  <2> QED BY <2>3, <2>5, <2>6
<1>4. CASE Spawn(t) \/ SpawnFails(t)
  <2>1. call[t] = "spawn" /\ Goto(t, "idle") BY <1>4 DEF Spawn, SpawnFails
  <2>2. /\ gstate' \in {gstate, "OFF"} /\ wifi_onoff_flag' \in {wifi_onoff_flag, FALSE}
        /\ UNCHANGED <<wpa_exit, conn, wpa, starts, lost>>
    BY <1>4 DEF Spawn, SpawnFails
  <2>3. Ranges' BY <2>2 DEF Ranges
  <2>4. t \notin Monitors BY <2>1 DEF Places, Disabling
  <2>5. \/ UNCHANGED mon
        \/ \E m \in Monitors : mon[m] = "none" /\ MonGoto(m, "begin")
    BY <1>4 DEF Spawn, SpawnFails
  <2>6. Places' BY <2>1, <2>4, <2>5 DEF Places, Goto, MonGoto, CallPcs, MonPcs
  <2>7. Budget' BY <2>1, <2>2, SameBudget DEF StartPcs
  <2> QED BY <2>3, <2>6, <2>7
<1>5. CASE LowerFlag(t) \/ WaitExit(t) \/ Terminate(t) \/ ReportOff(t)
  <2>1. PICK l \in Disabling : call[t] \in Disabling /\ Goto(t, l)
    BY <1>5 DEF LowerFlag, WaitExit, Terminate, ReportOff, Disabling
  <2>2. /\ wpa' \in {0, wpa} /\ wifi_onoff_flag' \in BOOLEAN /\ gstate' \in {gstate, "OFF"}
        /\ UNCHANGED <<wpa_exit, conn, starts, lost, mon>>
    BY <1>5 DEF LowerFlag, WaitExit, Terminate, ReportOff, Ranges
  <2>3. Ranges' BY <2>2 DEF Ranges
  <2>4. Places' BY <2>1, <2>2 DEF Places, Goto, CallPcs, Disabling
  <2>5. Budget' BY <2>1, <2>2, SameBudget DEF StartPcs, Disabling
  <2> QED BY <2>3, <2>4, <2>5
<1>6. CASE KillRemaining(t)
  <2>1. call[t] = "kill9" /\ Goto(t, "idle") BY <1>6 DEF KillRemaining, Return
  <2>2. wpa' = 0 /\ UNCHANGED <<gstate, wifi_onoff_flag, wpa_exit, conn, starts, lost>>
    BY <1>6 DEF KillRemaining
  <2>3. Ranges' BY <2>2 DEF Ranges
  <2>4. mon' = IF t \in Monitors THEN [mon EXCEPT ![t] = "none"] ELSE mon
    BY <1>6 DEF KillRemaining, Return
  <2>5. Places' BY <2>1, <2>4 DEF Places, Goto, CallPcs, MonPcs
  <2>6. Budget' BY <2>1, <2>2, SameBudget DEF StartPcs
  <2> QED BY <2>3, <2>5, <2>6
<1> QED BY <1>1, <1>2, <1>3, <1>4, <1>5, <1>6 DEF InCall

(* The steps of a monitor.                                                  *)
LEMMA MonitorTypes ==
  ASSUME TInv, NEW m \in Monitors, Monitor(m)
  PROVE  TInv'
<1> USE DEF TInv
<1>1. /\ UNCHANGED <<gstate, wifi_onoff_flag, wpa, starts, lost>>
      /\ wpa_exit' \in BOOLEAN /\ conn' \in {0, conn, wpa}
  BY DEF Monitor, MonBegin, MonConnect, MonConnectFails, MonAbort, MonWait, MonNotice,
     MonEvent, MonHandled, MonLeave, MonClose, Ranges
<1>2. Ranges' BY <1>1 DEF Ranges
<1>3. CASE MonAbort(m) /\ is_wifi_enable
  <2>1. mon[m] = "failed" /\ Goto(m, "lower") /\ MonGoto(m, "abort") BY <1>3 DEF MonAbort
  <2>2. call[m] = "idle" /\ m \in Threads BY <2>1 DEF Places, Threads
  <2>3. Places' BY <2>1, <2>2 DEF Places, Goto, MonGoto, CallPcs, MonPcs, Disabling
  <2>4. Budget' BY <1>1, <2>1, <2>2, SameBudget DEF StartPcs
  <2> QED BY <1>2, <2>3, <2>4
<1>4. CASE ~(MonAbort(m) /\ is_wifi_enable)
  <2>1. PICK l \in MonPcs : MonGoto(m, l) /\ UNCHANGED call /\ l # "abort" /\ mon[m] # "abort"
    BY <1>4 DEF Monitor, MonBegin, MonConnect, MonConnectFails, MonAbort, MonWait,
       MonNotice, MonEvent, MonHandled, MonLeave, MonClose, MonPcs
  <2>2. Places' BY <2>1 DEF Places, MonGoto
  <2>3. Budget' BY <1>1, <2>1 DEF Budget, Starting
  <2> QED BY <1>2, <2>2, <2>3
<1> QED BY <1>3, <1>4

(* Whatever the callers wait for and whatever fails, the flags, the sockets *)
(* and the processes stay in their ranges, no more supplicants are started  *)
(* than calls were let through, and a monitor is inside RK_wifi_enable only *)
(* after it failed to connect.                                              *)
THEOREM PowerTypes == Spec => []TypeOK
<1>1. Init => TInv
  <2> SUFFICES ASSUME Init PROVE TInv OBVIOUS
  <2>1. Ranges
    <3>1. /\ gstate = "OFF" /\ wifi_onoff_flag \in BOOLEAN /\ wpa_exit \in BOOLEAN
          /\ starts = 0 /\ conn = 0 /\ wpa = 0 /\ lost = {}
      BY DEF Init
    <3>2. 0 \in Nat /\ 0 \in 0 .. 0 /\ {} \subseteq 1 .. 0 OBVIOUS
    <3> QED BY <3>1, <3>2 DEF Ranges
  <2>2. Places BY DEF Init, Places, CallPcs, MonPcs, Threads
  <2>3. Starting = {} BY DEF Init, Starting
  <2>4. Budget BY <2>3, FS_EmptySet, PowerAssumption DEF Init, Budget
  <2> QED BY <2>1, <2>2, <2>4 DEF TInv
<1>2. TInv /\ [Next]_vars => TInv'
  <2> SUFFICES ASSUME TInv, [Next]_vars PROVE TInv' OBVIOUS
  <2>1. CASE Crash
    <3>1. Ranges' BY <2>1 DEF Crash, TInv, Ranges
    <3>2. Places' /\ Budget' BY <2>1 DEF Crash, TInv, Places, Budget, Starting
    <3> QED BY <3>1, <3>2 DEF TInv
  <2>2. CASE UNCHANGED vars
    BY <2>2 DEF vars, TInv, Ranges, Places, Budget, Starting
  <2> QED BY <2>1, <2>2, BeginTypes, CallTypes, MonitorTypes DEF Next
<1>3. TInv => TypeOK
  <2> SUFFICES ASSUME TInv PROVE TypeOK OBVIOUS
  <2>1. Cardinality(Starting) \in Nat BY FS_CardinalityType DEF TInv, Budget
  <2>2. starts \in 0 .. MaxStarts BY <2>1, PowerAssumption DEF TInv, Ranges, Budget
  <2> QED BY <2>2 DEF TInv, Ranges, Places, TypeOK
<1> QED BY <1>1, <1>2, <1>3, PTL DEF Spec
-----------------------------------------------------------------------------
(* The safety half of MonitorStops, and of the wait in RK_wifi_enable(0).   *)

(* How far a monitor is from its end once wifi_onoff_flag is down.          *)
StopRank(m) ==
  CASE mon[m] = "none" -> 0 [] mon[m] = "close" -> 1
    [] mon[m] = "loop" -> (IF wpa_exit THEN 2 ELSE 4)
    [] mon[m] = "recv" -> 3 [] mon[m] = "handler" -> 5
    [] mon[m] = "abort" -> 6 [] mon[m] = "failed" -> 7 [] OTHER -> 8

(* While wifi_onoff_flag is down every monitor that moves comes nearer to   *)
(* its end, and none is set back by another: wpa_exit, which they share and *)
(* a new monitor clears, is not cleared under those that are to stop.       *)
MonitorsMoveOn ==
  [][~wifi_onoff_flag /\ ~wifi_onoff_flag' =>
       \A m \in Monitors : /\ StopRank(m)' <= StopRank(m)
                           /\ mon'[m] # mon[m] => StopRank(m)' < StopRank(m)]_vars

(* The flag is up while a supplicant and its monitor are being started.     *)
Raised == {"term_old", "kill_old", "start", "open", "spawn"}
FlagUp ==
  /\ \A t \in Threads : call[t] \in Raised => wifi_onoff_flag
  /\ \A m \in Monitors : mon[m] \in {"begin", "connect"} => wifi_onoff_flag

(* A monitor that is being started and a call exclude each other.           *)
LEMMA StartedAlone ==
  ASSUME OneBusy, NEW t \in Threads, call[t] # "idle"
  PROVE  \A m \in Monitors : mon[m] \notin {"begin", "connect"}
<1>1. Busy(t)
  BY DEF OneBusy, Busy, Early, Threads
<1>2. t \in Monitors => mon[t] = "abort" BY DEF OneBusy
<1> QED BY <1>1, <1>2 DEF OneBusy, Busy, Early, Threads

(* Every step keeps FlagUp.                                                 *)
LEMMA FlagStep ==
  ASSUME IInv, FlagUp, Next
  PROVE  FlagUp'
<1> USE DEF IInv, FlagUp
<1>0. call \in [Threads -> CallPcs] /\ mon \in [Monitors -> MonPcs] BY DEF Types
<1>1. ASSUME NEW t \in Apps, Call(t) PROVE FlagUp'
  <2>1. /\ UNCHANGED <<mon, wifi_onoff_flag>> /\ t \in Threads
        /\ \E l \in {"idle", "on", "lower"} : call' = [call EXCEPT ![t] = l]
    BY <1>1 DEF Call, EnableCall, DisableCall, Goto, Threads
  <2> QED BY <1>0, <2>1 DEF Raised
<1>2. ASSUME NEW t \in Threads, InCall(t) PROVE FlagUp'
  <2>0. call[t] # "idle"
    BY <1>2 DEF InCall, RaiseFlag, TermOld, KillOld, StartSupplicant, ReportOpen, Spawn,
       SpawnFails, LowerFlag, WaitExit, Terminate, ReportOff, KillRemaining
  <2>1. /\ \A u \in Threads : u # t => call[u] = "idle"
        /\ \A m \in Monitors : mon[m] \notin {"begin", "connect"}
    BY <2>0, Alone, StartedAlone
  <2>2. CASE RaiseFlag(t)
    BY <2>2 DEF RaiseFlag
  <2>3. CASE TermOld(t) \/ KillOld(t) \/ StartSupplicant(t) \/ ReportOpen(t)
    <3>1. /\ call[t] \in Raised /\ UNCHANGED <<mon, wifi_onoff_flag>>
      BY <2>3 DEF TermOld, KillOld, StartSupplicant, ReportOpen, Raised
    <3> QED BY <3>1
  <2>4. CASE Spawn(t)
    <3>1. call[t] \in Raised /\ UNCHANGED wifi_onoff_flag BY <2>4 DEF Spawn, Raised
    <3> QED BY <3>1
  <2>5. CASE SpawnFails(t) \/ LowerFlag(t) \/ WaitExit(t) \/ Terminate(t) \/ ReportOff(t)
    <3>1. /\ UNCHANGED mon
          /\ \E l \in {"idle", "wait", "term", "off", "kill9"} : call' = [call EXCEPT ![t] = l]
      BY <2>5 DEF SpawnFails, LowerFlag, WaitExit, Terminate, ReportOff, Goto
    <3> QED BY <1>0, <2>1, <3>1 DEF Raised
  <2>6. CASE KillRemaining(t)
    <3>1. /\ call' = [call EXCEPT ![t] = "idle"]
          /\ UNCHANGED mon \/ (t \in Monitors /\ mon' = [mon EXCEPT ![t] = "none"])
      BY <2>6 DEF KillRemaining, Return, Goto
    <3> QED BY <1>0, <2>1, <3>1 DEF Raised
  <2> QED BY <1>2, <2>2, <2>3, <2>4, <2>5, <2>6 DEF InCall
<1>3. ASSUME NEW m \in Monitors, Monitor(m) PROVE FlagUp'
  <2>1. /\ UNCHANGED wifi_onoff_flag
        /\ UNCHANGED call \/ call' = [call EXCEPT ![m] = "lower"]
        /\ \E l \in MonPcs \ {"begin"} : /\ mon' = [mon EXCEPT ![m] = l]
                                         /\ l = "connect" => mon[m] = "begin"
    <3> USE DEF MonGoto, MonPcs
    <3>1. CASE MonBegin(m) BY <3>1 DEF MonBegin
    <3>2. CASE MonConnect(m) \/ MonConnectFails(m) BY <3>2 DEF MonConnect, MonConnectFails
    <3>3. CASE MonAbort(m) BY <3>3 DEF MonAbort, Goto
    <3>4. CASE MonWait(m) \/ MonNotice(m) BY <3>4 DEF MonWait, MonNotice
    <3>5. CASE MonEvent(m) \/ MonHandled(m) BY <3>5 DEF MonEvent, MonHandled
    <3>6. CASE MonLeave(m) \/ MonClose(m) BY <3>6 DEF MonLeave, MonClose
    <3> QED BY <1>3, <3>1, <3>2, <3>3, <3>4, <3>5, <3>6 DEF Monitor
  <2> QED BY <1>0, <2>1 DEF Raised, Threads
<1>4. CASE Crash BY <1>4 DEF Crash
<1> QED BY <1>1, <1>2, <1>3, <1>4 DEF Next

(* A step of a monitor with the flag down.                                  *)
LEMMA MonitorMovesOn ==
  ASSUME IInv, FlagUp, wpa_exit \in BOOLEAN, ~wifi_onoff_flag,
         NEW m \in Monitors, Monitor(m), NEW n \in Monitors
  PROVE  /\ StopRank(n)' <= StopRank(n)
         /\ mon'[n] # mon[n] => StopRank(n)' < StopRank(n)
<1>0. mon \in [Monitors -> MonPcs] BY DEF IInv, Types
<1>1. mon[m] \notin {"begin", "connect"} BY DEF FlagUp
<1>2. /\ mon'[m] # mon[m] /\ (n # m => mon'[n] = mon[n])
      /\ wpa_exit' \in BOOLEAN /\ (wpa_exit => wpa_exit')
  BY <1>0, <1>1 DEF Monitor, MonBegin, MonConnect, MonConnectFails, MonAbort, MonWait,
     MonNotice, MonEvent, MonHandled, MonLeave, MonClose, MonGoto
<1>3. StopRank(m)' < StopRank(m)
  <2> USE DEF StopRank, MonGoto
  <2>1. CASE MonAbort(m) BY <1>0, <2>1 DEF MonAbort
  <2>2. CASE MonWait(m) BY <1>0, <2>2 DEF MonWait
  <2>3. CASE MonNotice(m) BY <1>0, <2>3 DEF MonNotice
  <2>4. CASE MonHandled(m) BY <1>0, <2>4 DEF MonHandled
  <2>5. CASE MonLeave(m) BY <1>0, <2>5 DEF MonLeave
  <2>6. CASE MonClose(m) BY <1>0, <2>6 DEF MonClose
  <2> QED BY <1>1, <2>1, <2>2, <2>3, <2>4, <2>5, <2>6
          DEF Monitor, MonBegin, MonConnect, MonConnectFails, MonEvent
<1>4. mon'[n] = mon[n] => StopRank(n)' <= StopRank(n)
  BY <1>2 DEF StopRank
<1>5. StopRank(m) \in Nat /\ StopRank(m)' \in Nat BY DEF StopRank
<1> QED BY <1>2, <1>3, <1>4, <1>5

(* When an application lets calls settle, a monitor takes at most seven     *)
(* steps while wifi_onoff_flag is down, in RK_wifi_enable(0) and after it,  *)
(* wherever the flag found it.                                              *)
THEOREM MonitorsMoveOnHolds == Settled => (Spec => MonitorsMoveOn)
<1> SUFFICES ASSUME Settled PROVE Spec => MonitorsMoveOn OBVIOUS
<1>1. Init => FlagUp BY DEF Init, FlagUp, Raised
<1>2. IInv /\ FlagUp /\ [Next]_vars => FlagUp'
  <2> SUFFICES ASSUME IInv, FlagUp, [Next]_vars PROVE FlagUp' OBVIOUS
  <2>1. CASE UNCHANGED vars BY <2>1 DEF vars, FlagUp
  <2> QED BY <2>1, FlagStep
<1>3. ASSUME IInv, FlagUp, TypeOK, Next, ~wifi_onoff_flag, ~wifi_onoff_flag', NEW n \in Monitors
      PROVE  /\ StopRank(n)' <= StopRank(n)
             /\ mon'[n] # mon[n] => StopRank(n)' < StopRank(n)
  <2>0. wpa_exit \in BOOLEAN /\ mon \in [Monitors -> MonPcs] BY <1>3 DEF TypeOK
  <2>1. ASSUME NEW m \in Monitors, Monitor(m)
        PROVE  /\ StopRank(n)' <= StopRank(n)
               /\ mon'[n] # mon[n] => StopRank(n)' < StopRank(n)
    BY <1>3, <2>0, <2>1, MonitorMovesOn
  <2>2. StopRank(n) \in Nat /\ StopRank(n)' \in Nat BY DEF StopRank
  <2>3. CASE UNCHANGED <<mon, wpa_exit>>
    <3>1. StopRank(n)' = StopRank(n) BY <2>3 DEF StopRank
    <3> QED BY <2>2, <2>3, <3>1
  <2>4. ASSUME NEW t \in Threads, InCall(t), ~UNCHANGED <<mon, wpa_exit>>
        PROVE  t \in Monitors /\ mon' = [mon EXCEPT ![t] = "none"] /\ mon[t] # "none"
                              /\ UNCHANGED wpa_exit
    <3>1. ~Spawn(t) BY <1>3, <2>4 DEF Spawn, FlagUp, Raised
    <3>2. KillRemaining(t)
      BY <2>4, <3>1 DEF InCall, RaiseFlag, TermOld, KillOld, StartSupplicant, ReportOpen,
         SpawnFails, LowerFlag, WaitExit, Terminate, ReportOff
    <3>3. t \in Monitors /\ mon' = [mon EXCEPT ![t] = "none"] /\ UNCHANGED wpa_exit
      BY <2>4, <3>2 DEF KillRemaining, Return
    <3> QED BY <1>3, <3>2, <3>3 DEF KillRemaining, IInv, OneBusy
  <2>5. ASSUME NEW t \in Threads, InCall(t), ~UNCHANGED <<mon, wpa_exit>>
        PROVE  /\ StopRank(n)' <= StopRank(n)
               /\ mon'[n] # mon[n] => StopRank(n)' < StopRank(n)
    <3>1. mon'[n] = mon[n] \/ (mon'[n] = "none" /\ mon[n] # "none") BY <2>0, <2>4, <2>5
    <3>2. mon'[n] = mon[n] => StopRank(n)' = StopRank(n) BY <2>4, <2>5 DEF StopRank
    <3>3. mon'[n] = "none" /\ mon[n] # "none" => StopRank(n)' < StopRank(n)
      BY DEF StopRank
    <3> QED BY <2>2, <3>1, <3>2, <3>3
  <2>6. ASSUME NEW t \in Apps, Call(t) PROVE UNCHANGED <<mon, wpa_exit>>
    BY <2>6 DEF Call, EnableCall, DisableCall
  <2>7. CASE Crash BY <2>3, <2>7 DEF Crash
  <2> QED BY <1>3, <2>1, <2>3, <2>5, <2>6, <2>7 DEF Next
<1>4. IInv /\ FlagUp /\ TypeOK /\ [Next]_vars
        => [~wifi_onoff_flag /\ ~wifi_onoff_flag' =>
              \A m \in Monitors : /\ StopRank(m)' <= StopRank(m)
                                  /\ mon'[m] # mon[m] => StopRank(m)' < StopRank(m)]_vars
  BY <1>3
<1> QED BY <1>1, <1>2, <1>4, Invariance, PowerTypes, PTL DEF Spec, MonitorsMoveOn
=============================================================================
