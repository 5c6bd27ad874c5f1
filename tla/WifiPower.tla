------------------------------ MODULE WifiPower ------------------------------
(***************************************************************************)
(* Switching the station on and off in wifi/Rk_wifi.c: RK_wifi_enable,     *)
(* which starts and kills wpa_supplicant, and RK_wifi_start_monitor, the   *)
(* detached thread that RK_wifi_enable(1) spawns and RK_wifi_enable(0)     *)
(* asks to end through wifi_onoff_flag, waiting ten seconds at most for    *)
(* wpa_exit.  The flags, gstate and the two control sockets are globals    *)
(* that the callers and every monitor thread share.                        *)
(***************************************************************************)
EXTENDS Naturals, FiniteSets

CONSTANTS
  Apps,       \* application threads
  Monitors,   \* RK_wifi_start_monitor threads (bound on live ones)
  MaxStarts,  \* bound on the supplicant processes started
  WaitFor,    \* what an application waits for before its next call: the
              \* "event" of the last call, its "return", or until the
              \* monitor thread has also "settled"; or for "nothing"
  Faults      \* "crash": wpa_supplicant may die by itself;
              \* "start": it may fail to start;
              \* "connect": its control socket may refuse a connection;
              \* "thread": pthread_create may fail

ASSUME PowerAssumption ==
  /\ MaxStarts \in Nat
  /\ IsFiniteSet(Monitors) /\ MaxStarts <= Cardinality(Monitors)
  /\ WaitFor \in {"settled", "return", "event", "nothing"}
  /\ Faults \subseteq {"crash", "start", "connect", "thread"}
  /\ Apps \cap Monitors = {}

Threads == Apps \cup Monitors

VARIABLES
  gstate,            \* the last state reported, OPEN or OFF
  wifi_onoff_flag, wpa_exit,
  conn,              \* the process ctrl_conn and monitor_conn lead to, or 0
  wpa,               \* the running wpa_supplicant process, or 0
  starts,            \* processes started so far
  lost,              \* those that never ran or died by themselves
  call,              \* call[t]: where t is inside RK_wifi_enable
  mon                \* mon[m]: where monitor thread m is

vars == <<gstate, wifi_onoff_flag, wpa_exit, conn, wpa, starts, lost, call, mon>>

Goto(t, l) == call' = [call EXCEPT ![t] = l]
MonGoto(m, l) == mon' = [mon EXCEPT ![m] = l]

\* Mutant: a monitor whose RK_wifi_enable(0) returned goes on.
ReturnOnly(t) == Goto(t, "idle") /\ UNCHANGED mon

\* RK_wifi_enable has returned: a monitor that called it ends.
Return(t) ==
  /\ Goto(t, "idle")
  /\ mon' = IF t \in Monitors THEN [mon EXCEPT ![t] = "none"] ELSE mon

\* is_wifi_enable.
is_wifi_enable == gstate = "OPEN" /\ wpa # 0

-----------------------------------------------------------------------------
(* RK_wifi_enable(1).                                                      *)

\* A caller that follows the programming notes has seen the event of the
\* call before: OPEN is reported before "spawn", OFF before "kill9".
MayCall(t) ==
  /\ call[t] = "idle"
  /\ WaitFor = "event" =>
       \A u \in Apps : call[u] \in {"idle", "spawn", "kill9"}
  /\ WaitFor \in {"return", "settled"} => \A u \in Apps : call[u] = "idle"
  /\ WaitFor = "settled" =>
       \A m \in Monitors : mon[m] \notin {"begin", "connect", "failed", "abort"}

\* Supplicants started and about to be: the bound on calls that start one.
Starting == {t \in Threads : call[t] \in {"on", "term_old", "kill_old", "start"}}

EnableCall(t) ==
  /\ MayCall(t)
  /\ starts + Cardinality(Starting) < MaxStarts
  /\ Goto(t, IF is_wifi_enable THEN "idle" ELSE "on")
  /\ UNCHANGED <<gstate, wifi_onoff_flag, wpa_exit, conn, wpa, starts, lost, mon>>

RaiseFlag(t) ==
  /\ call[t] = "on"
  /\ wifi_onoff_flag' = TRUE
  /\ Goto(t, "term_old")
  /\ UNCHANGED <<gstate, wpa_exit, conn, wpa, starts, lost, mon>>

\* killall -15 of whatever supplicant still runs, and -9 if that did not do.
TermOld(t) ==
  /\ call[t] = "term_old"
  /\ wpa' \in {0, wpa}
  /\ Goto(t, "kill_old")
  /\ UNCHANGED <<gstate, wifi_onoff_flag, wpa_exit, conn, starts, lost, mon>>

KillOld(t) ==
  /\ call[t] = "kill_old"
  /\ wpa' = 0
  /\ Goto(t, "start")
  /\ UNCHANGED <<gstate, wifi_onoff_flag, wpa_exit, conn, starts, lost, mon>>

\* The exit status is not looked at.  A supplicant does not start on an
\* interface another one drives.
StartSupplicant(t) ==
  /\ call[t] = "start"
  /\ starts' = starts + 1
  /\ \/ wpa' = (IF wpa = 0 THEN starts + 1 ELSE wpa) /\ UNCHANGED lost
     \/ "start" \in Faults /\ wpa' = wpa /\ lost' = lost \cup {starts + 1}
  /\ Goto(t, "open")
  /\ UNCHANGED <<gstate, wifi_onoff_flag, wpa_exit, conn, mon>>

ReportOpen(t) ==
  /\ call[t] = "open"
  /\ gstate' = "OPEN"
  /\ Goto(t, "spawn")
  /\ UNCHANGED <<wifi_onoff_flag, wpa_exit, conn, wpa, starts, lost, mon>>

Spawn(t) ==
  /\ call[t] = "spawn"
  /\ \E m \in Monitors : mon[m] = "none" /\ MonGoto(m, "begin")
  /\ Goto(t, "idle")
  /\ UNCHANGED <<gstate, wifi_onoff_flag, wpa_exit, conn, wpa, starts, lost>>

\* pthread_create failed: report OFF, leave the supplicant running.
SpawnFails(t) ==
  /\ call[t] = "spawn" /\ "thread" \in Faults
  /\ gstate' = "OFF" /\ wifi_onoff_flag' = FALSE
  /\ Goto(t, "idle")
  /\ UNCHANGED <<wpa_exit, conn, wpa, starts, lost, mon>>

-----------------------------------------------------------------------------
(* RK_wifi_enable(0), called by an application or by a monitor thread that *)
(* could not reach the supplicant.                                         *)

DisableCall(t) ==
  /\ MayCall(t)
  /\ Goto(t, IF is_wifi_enable THEN "lower" ELSE "idle")
  /\ UNCHANGED <<gstate, wifi_onoff_flag, wpa_exit, conn, wpa, starts, lost, mon>>

\* enable_network all, save_config, then the flag the monitor looks at.
LowerFlag(t) ==
  /\ call[t] = "lower"
  /\ wifi_onoff_flag' = FALSE
  /\ Goto(t, "wait")
  /\ UNCHANGED <<gstate, wpa_exit, conn, wpa, starts, lost, mon>>

\* A monitor that waits for an event looks at wifi_onoff_flag once a second,
\* well within the ten seconds granted; one inside a handler (rkwifi_check_ip
\* takes up to 50 s), still connecting, or without a socket does not.
Answering(m) ==
  /\ ~wifi_onoff_flag
  /\ mon[m] = "recv" \/ (mon[m] = "loop" /\ conn # 0)

\* Mutant: no bound on the wait for wpa_exit.
WaitForever(t) ==
  /\ call[t] = "wait"
  /\ Goto(t, IF wpa_exit THEN "term" ELSE "wait")
  /\ UNCHANGED <<gstate, wifi_onoff_flag, wpa_exit, conn, wpa, starts, lost, mon>>

WaitExit(t) ==
  /\ call[t] = "wait"
  /\ wpa_exit \/ \A m \in Monitors : ~Answering(m)
  /\ Goto(t, "term")
  /\ UNCHANGED <<gstate, wifi_onoff_flag, wpa_exit, conn, wpa, starts, lost, mon>>

\* ifconfig down, killall -15: the process may take longer to go.
Terminate(t) ==
  /\ call[t] = "term"
  /\ wpa' \in {0, wpa}
  /\ Goto(t, "off")
  /\ UNCHANGED <<gstate, wifi_onoff_flag, wpa_exit, conn, starts, lost, mon>>

\* Mutant: OFF is reported to the callback but not recorded in gstate.
ReportOffOnly(t) ==
  /\ call[t] = "off"
  /\ Goto(t, "kill9")
  /\ UNCHANGED <<gstate, wifi_onoff_flag, wpa_exit, conn, wpa, starts, lost, mon>>

ReportOff(t) ==
  /\ call[t] = "off"
  /\ gstate' = "OFF"
  /\ Goto(t, "kill9")
  /\ UNCHANGED <<wifi_onoff_flag, wpa_exit, conn, wpa, starts, lost, mon>>

\* killall -9 names no process: any wpa_supplicant running now is killed.
KillRemaining(t) ==
  /\ call[t] = "kill9"
  /\ wpa' = 0
  /\ Return(t)
  /\ UNCHANGED <<gstate, wifi_onoff_flag, wpa_exit, conn, starts, lost>>

Call(t) == EnableCall(t) \/ DisableCall(t)

InCall(t) ==
  \/ RaiseFlag(t) \/ TermOld(t) \/ KillOld(t) \/ StartSupplicant(t) \/ ReportOpen(t)
  \/ Spawn(t) \/ SpawnFails(t)
  \/ LowerFlag(t) \/ WaitExit(t) \/ Terminate(t) \/ ReportOff(t)
  \/ KillRemaining(t)

-----------------------------------------------------------------------------
(* RK_wifi_start_monitor.                                                  *)

MonBegin(m) ==
  /\ mon[m] = "begin"
  /\ wpa_exit' = FALSE
  /\ MonGoto(m, "connect")
  /\ UNCHANGED <<gstate, wifi_onoff_flag, conn, wpa, starts, lost, call>>

\* wifi_connect_to_supplicant: the sockets are globals.
MonConnect(m) ==
  /\ mon[m] = "connect"
  /\ wpa # 0
  /\ conn' = wpa
  /\ MonGoto(m, "loop")
  /\ UNCHANGED <<gstate, wifi_onoff_flag, wpa_exit, wpa, starts, lost, call>>

\* No supplicant, or no socket; monitor_conn is NULL or as it was, depending
\* on which of the calls failed.
MonConnectFails(m) ==
  /\ mon[m] = "connect"
  /\ wpa = 0 \/ "connect" \in Faults
  /\ conn' \in {0, conn}
  /\ MonGoto(m, "failed")
  /\ UNCHANGED <<gstate, wifi_onoff_flag, wpa_exit, wpa, starts, lost, call>>

\* RK_wifi_enable(0) in this thread, which does nothing unless is_wifi_enable.
MonAbort(m) ==
  /\ mon[m] = "failed"
  /\ wpa_exit' = TRUE
  /\ IF is_wifi_enable THEN Goto(m, "lower") /\ MonGoto(m, "abort")
                       ELSE MonGoto(m, "none") /\ UNCHANGED call
  /\ UNCHANGED <<gstate, wifi_onoff_flag, conn, wpa, starts, lost>>

\* A loop without a socket is handed a made-up TERMINATING event, which
\* dispatch_event ignores: it spins without looking at wifi_onoff_flag.
MonWait(m) ==
  /\ mon[m] = "loop" /\ ~wpa_exit
  /\ conn # 0
  /\ MonGoto(m, "recv")
  /\ UNCHANGED <<gstate, wifi_onoff_flag, wpa_exit, conn, wpa, starts, lost, call>>

\* Mutant: the receive loop is left without raising wpa_exit.
NoticeOnly(m) ==
  /\ mon[m] = "recv" /\ ~wifi_onoff_flag
  /\ MonGoto(m, "loop")
  /\ UNCHANGED <<gstate, wifi_onoff_flag, wpa_exit, conn, wpa, starts, lost, call>>

MonNotice(m) ==
  /\ mon[m] = "recv" /\ ~wifi_onoff_flag
  /\ wpa_exit' = TRUE
  /\ MonGoto(m, "loop")
  /\ UNCHANGED <<gstate, wifi_onoff_flag, conn, wpa, starts, lost, call>>

\* An event is read and handled, which may take longer than RK_wifi_enable(0)
\* is willing to wait; or the socket was closed by another thread.
MonEvent(m) ==
  /\ mon[m] = "recv" /\ wifi_onoff_flag
  /\ \/ conn # 0 /\ conn = wpa /\ MonGoto(m, "handler")
     \/ conn = 0 /\ MonGoto(m, "loop")
  /\ UNCHANGED <<gstate, wifi_onoff_flag, wpa_exit, conn, wpa, starts, lost, call>>

MonHandled(m) ==
  /\ mon[m] = "handler"
  /\ MonGoto(m, "loop")
  /\ UNCHANGED <<gstate, wifi_onoff_flag, wpa_exit, conn, wpa, starts, lost, call>>

MonLeave(m) ==
  /\ mon[m] = "loop" /\ wpa_exit
  /\ MonGoto(m, "close")
  /\ UNCHANGED <<gstate, wifi_onoff_flag, wpa_exit, conn, wpa, starts, lost, call>>

\* wifi_close_sockets closes the globals, whoever opened them.
MonClose(m) ==
  /\ mon[m] = "close"
  /\ conn' = 0
  /\ MonGoto(m, "none")
  /\ UNCHANGED <<gstate, wifi_onoff_flag, wpa_exit, wpa, starts, lost, call>>

Monitor(m) ==
  \/ MonBegin(m) \/ MonConnect(m) \/ MonConnectFails(m) \/ MonAbort(m)
  \/ MonWait(m) \/ MonNotice(m) \/ MonEvent(m) \/ MonHandled(m) \/ MonLeave(m) \/ MonClose(m)

\* wpa_supplicant dies; no event is sent, and the monitor's check of the
\* process (check_wpa_supplicant_state) never reports it.
Crash ==
  /\ "crash" \in Faults
  /\ wpa # 0 /\ wpa' = 0 /\ lost' = lost \cup {wpa}
  /\ UNCHANGED <<gstate, wifi_onoff_flag, wpa_exit, conn, starts, call, mon>>

-----------------------------------------------------------------------------
Init ==
  /\ gstate = "OFF"
  /\ wifi_onoff_flag = TRUE  \* initialised to -1, a bool
  /\ wpa_exit = FALSE
  /\ conn = 0 /\ wpa = 0 /\ starts = 0 /\ lost = {}
  /\ call = [t \in Threads |-> "idle"]
  /\ mon = [m \in Monitors |-> "none"]

Next ==
  \/ \E t \in Apps : Call(t)
  \/ \E t \in Threads : InCall(t)
  \/ \E m \in Monitors : Monitor(m)
  \/ Crash

Spec == Init /\ [][Next]_vars

\* Threads that are running keep running; nobody has to call, and the
\* supplicant need not send events.
Fairness ==
  /\ \A t \in Threads : WF_vars(InCall(t))
  /\ \A m \in Monitors : WF_vars(Monitor(m))

FairSpec == Spec /\ Fairness

-----------------------------------------------------------------------------
CallPcs == {"idle", "on", "term_old", "kill_old", "start", "open", "spawn",
            "lower", "wait", "term", "off", "kill9"}
MonPcs == {"none", "begin", "connect", "failed", "abort", "loop", "recv", "handler", "close"}

\* Flags, sockets, processes and threads stay in their ranges; a monitor is in
\* a call of RK_wifi_enable only after it failed to connect.
TypeOK ==
  /\ gstate \in {"OPEN", "OFF"}
  /\ wifi_onoff_flag \in BOOLEAN /\ wpa_exit \in BOOLEAN
  /\ starts \in 0 .. MaxStarts
  /\ conn \in 0 .. starts /\ wpa \in 0 .. starts /\ lost \subseteq 1 .. starts
  /\ call \in [Threads -> CallPcs]
  /\ mon \in [Monitors -> MonPcs]
  /\ \A m \in Monitors : call[m] # "idle" <=> mon[m] = "abort"

Quiet == \A t \in Threads : call[t] = "idle"

\* is_wifi_enable calls it a bug when the station is reported OPEN and no
\* wpa_supplicant runs; RK_wifi_enable(0) then does nothing and reports
\* nothing.  With no call in progress the supplicant of an open station is
\* missing only if it failed by itself: no call or monitor has killed it.
OpenMeansRunning == Quiet /\ gstate = "OPEN" => wpa # 0 \/ starts \in lost

\* RK_wifi_enable returns: RK_wifi_enable(0) gives up waiting for wpa_exit.
CallReturns == \A t \in Threads : (call[t] # "idle") ~> (call[t] = "idle")

\* A station switched off for good ends its monitor threads, however long the
\* handler one was in: wifi_onoff_flag outlives the wait for wpa_exit.  The
\* exception is a monitor whose sockets an older one closed.
MonitorStops ==
  <>[](gstate = "OFF") =>
    <>[](\A m \in Monitors : mon[m] = "none" \/ (mon[m] = "loop" /\ conn = 0))

=============================================================================
