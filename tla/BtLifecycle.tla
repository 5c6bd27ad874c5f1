----------------------------- MODULE BtLifecycle -----------------------------
(***************************************************************************)
(* Starting and stopping the Bluetooth stack: rk_bt_init and rk_bt_deinit  *)
(* of bluez/bt_hal.c, which do their work in detached threads; the glib    *)
(* main loop thread and its queue of idle callbacks; bt_open and bt_close  *)
(* of a2dp_source/a2dp_masterctrl.c, which run in that loop; and the       *)
(* pairing agent (agent.c) whose registration is what reports INIT_ON.     *)
(***************************************************************************)
EXTENDS Naturals, Sequences, FiniteSets

CONSTANTS
  Inits,      \* _rk_bt_init threads, a bound on the live ones
  Deinits,    \* _rk_bt_deinit threads, a bound on the live ones
  MaxInits,   \* bound on the calls of rk_bt_init
  Polite,     \* the application waits for INIT_ON and for INIT_OFF
  Vendor,     \* a vendor callback starts and stops bluetoothd
  Faults      \* "vendor", "bus", "agent": that step of the start may fail

ASSUME LifecycleAssumption ==
  /\ MaxInits \in Nat
  /\ Polite \in BOOLEAN /\ Vendor \in BOOLEAN
  /\ Faults \subseteq {"vendor", "bus", "agent"}

VARIABLES
  init,             \* g_rkbt_content->init
  rk_bt_init_thread, main_loop_thread,  \* is the handle set
  BT_OPENED,
  cb,               \* is a state callback registered
  daemon,           \* is bluetoothd running
  ini, dei,         \* where each thread is
  loop,             \* the main loop thread: none, start, made, run, quit
  idle,             \* idle callbacks queued in the default context
  client,           \* is there a btsrc_client
  agent_manager,    \* is its AgentManager1 proxy known
  agent,            \* none, asked (RegisterAgent sent), registered
  pending_message,  \* does the agent hold a request it has not answered
  seen,             \* the last of INIT_ON, INIT_OFF the application saw
  app,              \* what the application is about: off, registered,
                    \* starting, stopping
  calls             \* calls of rk_bt_init so far

flags == <<init, BT_OPENED, cb, seen>>
handles == <<rk_bt_init_thread, main_loop_thread>>
pairing == <<agent_manager, agent, pending_message>>
vars == <<init, rk_bt_init_thread, main_loop_thread, BT_OPENED, cb, daemon,
          ini, dei, loop, idle, client, agent_manager, agent, pending_message,
          seen, app, calls>>

bt_is_open == init /\ daemon

\* bt_state_send: nothing happens without a callback.
Send(e) == seen' = IF cb THEN e ELSE seen

IniGoto(i, l) == ini' = [ini EXCEPT ![i] = l]
DeiGoto(d, l) == dei' = [dei EXCEPT ![d] = l]

-----------------------------------------------------------------------------
(* The application.  rk_bt_init is preceded by a registration of the state *)
(* callback, which rk_bt_deinit undoes.                                    *)

rk_bt_register_state_callback ==
  /\ app = "off"
  /\ Polite => seen # "ON"
  /\ cb' = TRUE
  /\ app' = "registered"
  /\ UNCHANGED <<init, handles, BT_OPENED, daemon, ini, dei, loop, idle,
                 client, pairing, seen, calls>>

rk_bt_init ==
  /\ app = "registered" /\ calls < MaxInits
  /\ calls' = calls + 1
  /\ app' = "starting"
  /\ IF bt_is_open \/ rk_bt_init_thread
     THEN UNCHANGED <<rk_bt_init_thread, ini>>
     ELSE /\ rk_bt_init_thread' = TRUE
          /\ \E i \in Inits : ini[i] = "none" /\ IniGoto(i, "check")
  /\ UNCHANGED <<flags, main_loop_thread, daemon, dei, loop, idle, client,
                 pairing>>

rk_bt_deinit ==
  /\ app = "starting"
  /\ Polite => seen = "ON"
  /\ app' = "stopping"
  /\ \E d \in Deinits : dei[d] = "none" /\ DeiGoto(d, "forget")
  /\ UNCHANGED <<flags, handles, daemon, ini, loop, idle, client,
                 pairing, calls>>

AppStopped ==
  /\ app = "stopping"
  /\ Polite => seen = "OFF"
  /\ app' = "off"
  /\ UNCHANGED <<flags, handles, daemon, ini, dei, loop, idle, client,
                 pairing, calls>>

App == rk_bt_register_state_callback \/ rk_bt_init \/ rk_bt_deinit \/ AppStopped

-----------------------------------------------------------------------------
(* _rk_bt_init, and bt_open which it calls.                                *)

InitCheck(i) ==
  /\ ini[i] = "check"
  /\ IniGoto(i, IF bt_is_open THEN "end" ELSE "loop")
  /\ UNCHANGED <<flags, handles, daemon, dei, loop, idle, client,
                 pairing, app, calls>>

main_loop_init(i) ==
  /\ ini[i] = "loop"
  /\ IF main_loop_thread THEN UNCHANGED <<main_loop_thread, loop>>
                         ELSE main_loop_thread' = TRUE /\ loop' = "start"
  /\ IniGoto(i, "vendor")
  /\ UNCHANGED <<flags, rk_bt_init_thread, daemon, dei, idle, client,
                 pairing, app, calls>>

InitVendor(i) ==
  /\ ini[i] = "vendor"
  /\ \/ ~Vendor /\ IniGoto(i, "post") /\ UNCHANGED daemon
     \/ Vendor /\ daemon' = TRUE /\ IniGoto(i, "post")
     \/ Vendor /\ "vendor" \in Faults /\ IniGoto(i, "fail") /\ UNCHANGED daemon
  /\ UNCHANGED <<flags, handles, dei, loop, idle, client, pairing, app, calls>>

\* bt_open hands bluetooth_open to the loop, and clears BT_OPENED afterwards.
PostOpen(i) ==
  /\ ini[i] = "post"
  /\ idle' = Append(idle, "open")
  /\ IniGoto(i, "clear")
  /\ UNCHANGED <<flags, handles, daemon, dei, loop, client, pairing, app, calls>>

ClearOpened(i) ==
  /\ ini[i] = "clear"
  /\ BT_OPENED' = FALSE
  /\ IniGoto(i, "poll")
  /\ UNCHANGED <<init, cb, seen, handles, daemon, dei, loop, idle, client,
                 pairing, app, calls>>

\* A loop that starts or runs dispatches what is queued well within the five
\* seconds for which BT_OPENED is polled.
PollOpened(i) ==
  /\ ini[i] = "poll"
  /\ \/ BT_OPENED /\ IniGoto(i, "end")
     \/ /\ ~BT_OPENED
        /\ loop \in {"none", "quit"} \/ \A k \in DOMAIN idle : idle[k] # "open"
        /\ IniGoto(i, "fail")
  /\ UNCHANGED <<flags, handles, daemon, dei, loop, idle, client,
                 pairing, app, calls>>

InitDone(i) ==
  /\ ini[i] \in {"end", "fail"}
  /\ init' = (ini[i] = "end")
  /\ IniGoto(i, "none")
  /\ UNCHANGED <<BT_OPENED, cb, seen, handles, daemon, dei, loop, idle,
                 client, pairing, app, calls>>

InitThread(i) ==
  \/ InitCheck(i) \/ main_loop_init(i) \/ InitVendor(i) \/ PostOpen(i)
  \/ ClearOpened(i) \/ PollOpened(i) \/ InitDone(i)

-----------------------------------------------------------------------------
(* _rk_bt_deinit.                                                          *)

DeinitCheck(d) ==
  /\ dei[d] = "forget"
  /\ rk_bt_init_thread' = FALSE
  /\ DeiGoto(d, IF bt_is_open THEN "close" ELSE "none")
  /\ UNCHANGED <<flags, main_loop_thread, daemon, ini, loop, idle, client,
                 pairing, app, calls>>

\* bt_close.
PostClose(d) ==
  /\ dei[d] = "close"
  /\ idle' = Append(idle, "close")
  /\ DeiGoto(d, "quit")
  /\ UNCHANGED <<flags, handles, daemon, ini, loop, client, pairing, app, calls>>

\* Mutant: the loop is joined without being told to quit.
QuitNever(d) ==
  /\ dei[d] = "quit"
  /\ DeiGoto(d, "join")
  /\ UNCHANGED <<flags, handles, daemon, ini, loop, idle, client, pairing, app, calls>>

\* main_loop_deinit: g_main_loop_quit does nothing to a loop that does not run
\* yet, and is skipped while there is none.
QuitLoop(d) ==
  /\ dei[d] = "quit"
  /\ loop' = IF loop = "run" THEN "quit" ELSE loop
  /\ DeiGoto(d, "join")
  /\ UNCHANGED <<flags, handles, daemon, ini, idle, client, pairing, app, calls>>

\* Mutant: the handle is forgotten without joining the thread.
ForgetLoop(d) ==
  /\ dei[d] = "join"
  /\ main_loop_thread' = FALSE
  /\ DeiGoto(d, "vendor")
  /\ UNCHANGED <<flags, rk_bt_init_thread, daemon, ini, loop, idle, client,
                 pairing, app, calls>>

JoinLoop(d) ==
  /\ dei[d] = "join"
  /\ main_loop_thread => loop = "none"
  /\ main_loop_thread' = FALSE
  /\ DeiGoto(d, "vendor")
  /\ UNCHANGED <<flags, rk_bt_init_thread, daemon, ini, loop, idle, client,
                 pairing, app, calls>>

DeinitVendor(d) ==
  /\ dei[d] = "vendor"
  /\ daemon' = (daemon /\ ~Vendor)
  /\ DeiGoto(d, "init")
  /\ UNCHANGED <<flags, handles, ini, loop, idle, client, pairing, app, calls>>

DeinitClear(d) ==
  /\ dei[d] = "init"
  /\ init' = FALSE
  /\ DeiGoto(d, "report")
  /\ UNCHANGED <<BT_OPENED, cb, seen, handles, daemon, ini, loop, idle,
                 client, pairing, app, calls>>

DeinitReport(d) ==
  /\ dei[d] = "report"
  /\ Send("OFF")
  /\ DeiGoto(d, "deregister")
  /\ UNCHANGED <<init, BT_OPENED, cb, handles, daemon, ini, loop, idle,
                 client, pairing, app, calls>>

bt_deregister_state_callback(d) ==
  /\ dei[d] = "deregister"
  /\ cb' = FALSE
  /\ DeiGoto(d, "none")
  /\ UNCHANGED <<init, BT_OPENED, seen, handles, daemon, ini, loop, idle,
                 client, pairing, app, calls>>

DeinitThread(d) ==
  \/ DeinitCheck(d) \/ PostClose(d) \/ QuitLoop(d) \/ JoinLoop(d)
  \/ DeinitVendor(d) \/ DeinitClear(d) \/ DeinitReport(d)
  \/ bt_deregister_state_callback(d)

-----------------------------------------------------------------------------
(* The main loop thread.                                                   *)

LoopStart ==
  /\ loop \in {"start", "made"}
  /\ loop' = IF loop = "start" THEN "made" ELSE "run"
  /\ UNCHANGED <<flags, handles, daemon, ini, dei, idle, client,
                 pairing, app, calls>>

\* The iteration in progress when the loop is told to quit is completed.
Dispatching == loop \in {"run", "quit"}

\* Every global of the last session is reset.
bluetooth_open ==
  /\ Dispatching /\ idle # <<>> /\ Head(idle) = "open"
  /\ idle' = Tail(idle)
  /\ agent_manager' = FALSE
  /\ \/ client' = TRUE /\ BT_OPENED' = TRUE
     \/ "bus" \in Faults /\ client' = FALSE /\ UNCHANGED BT_OPENED
  /\ UNCHANGED <<init, cb, seen, handles, daemon, ini, dei, loop, agent,
                 pending_message, app, calls>>

\* The agent goes, with the request it still held.
agent_release == agent' = "none" /\ pending_message' = FALSE

\* The AgentManager1 proxy is gone already: no UnregisterAgent is sent.
agent_unregister ==
  IF agent = "registered" THEN agent_release ELSE UNCHANGED <<agent, pending_message>>

\* g_dbus_client_unref removes the AgentManager1 proxy, and with it an agent
\* that is registered; one that only asked keeps its object.
bluetooth_close ==
  /\ Dispatching /\ idle # <<>> /\ Head(idle) = "close"
  /\ idle' = Tail(idle)
  /\ client' = FALSE /\ agent_manager' = FALSE
  /\ IF agent_manager THEN agent_unregister ELSE UNCHANGED <<agent, pending_message>>
  /\ UNCHANGED <<flags, handles, daemon, ini, dei, loop, app, calls>>

\* proxy_added for org.bluez.AgentManager1.  An agent object left behind makes
\* g_dbus_register_interface fail.
agent_register ==
  /\ Dispatching /\ client /\ daemon
  /\ ~agent_manager /\ agent_manager' = TRUE
  /\ agent' = IF agent = "none" THEN "asked" ELSE agent
  /\ UNCHANGED <<flags, handles, daemon, ini, dei, loop, idle, client,
                 pending_message, app, calls>>

register_agent_reply ==
  /\ Dispatching /\ agent = "asked"
  /\ \/ /\ daemon
        /\ agent' = "registered"
        /\ init' = TRUE
        /\ Send("ON")
     \/ /\ "agent" \in Faults \/ ~daemon
        /\ agent' = "none"
        /\ UNCHANGED <<init, seen>>
  /\ UNCHANGED <<BT_OPENED, cb, handles, daemon, ini, dei, loop, idle, client,
                 agent_manager, pending_message, app, calls>>

\* Mutant: a loop takes its queue with it.
LoopExitDrops ==
  /\ loop = "quit"
  /\ loop' = "none" /\ idle' = <<>>
  /\ UNCHANGED <<flags, handles, daemon, ini, dei, client, pairing, app, calls>>

LoopExit ==
  /\ loop = "quit"
  /\ loop' = "none"
  /\ UNCHANGED <<flags, handles, daemon, ini, dei, idle, client,
                 pairing, app, calls>>

Loop ==
  \/ LoopStart \/ LoopExit
  \/ bluetooth_open \/ bluetooth_close \/ agent_register \/ register_agent_reply

-----------------------------------------------------------------------------
(* bluetoothd's calls on the agent.  Display, confirmation and authorisation *)
(* are answered at once and leave nothing behind.                          *)

AgentCalled(pending) ==
  /\ Dispatching /\ daemon /\ agent = "registered"
  /\ pending_message' = pending
  /\ UNCHANGED <<flags, handles, daemon, ini, dei, loop, idle, client,
                 agent_manager, app, calls>>

\* RequestPinCode, RequestPasskey: the prompt that would answer is a stub.
request_pincode == AgentCalled(TRUE) /\ UNCHANGED agent

\* With nothing pending it gives libdbus a NULL message, which libdbus refuses.
cancel_request == AgentCalled(FALSE) /\ UNCHANGED agent

release_agent == AgentCalled(FALSE) /\ agent_release

Agent == request_pincode \/ cancel_request \/ release_agent

-----------------------------------------------------------------------------
Init ==
  /\ init = FALSE
  /\ rk_bt_init_thread = FALSE /\ main_loop_thread = FALSE
  /\ BT_OPENED = FALSE /\ cb = FALSE
  /\ daemon \in {~Vendor, FALSE}
  /\ ini = [i \in Inits |-> "none"] /\ dei = [d \in Deinits |-> "none"]
  /\ loop = "none" /\ idle = <<>>
  /\ client = FALSE /\ agent_manager = FALSE /\ agent = "none" /\ pending_message = FALSE
  /\ seen = "none" /\ app = "off" /\ calls = 0

Next ==
  \/ App
  \/ \E i \in Inits : InitThread(i)
  \/ \E d \in Deinits : DeinitThread(d)
  \/ Loop
  \/ Agent

Spec == Init /\ [][Next]_vars

\* Threads that exist run, and bluetoothd answers; the application need not
\* call anything, nor bluetoothd the agent.
FairSpec ==
  /\ Spec
  /\ \A i \in Inits : WF_vars(InitThread(i))
  /\ \A d \in Deinits : WF_vars(DeinitThread(d))
  /\ WF_vars(Loop)

-----------------------------------------------------------------------------
InitPcs == {"none", "check", "loop", "vendor", "post", "clear", "poll", "end", "fail"}
DeinitPcs == {"none", "forget", "close", "quit", "join", "vendor", "init",
              "report", "deregister"}

\* Types; the main loop thread exists only under a set handle, and no request
\* outlives the registration of the agent that holds it.
TypeOK ==
  /\ {init, rk_bt_init_thread, main_loop_thread, BT_OPENED, cb, daemon,
      client, agent_manager, pending_message} \subseteq BOOLEAN
  /\ ini \in [Inits -> InitPcs] /\ dei \in [Deinits -> DeinitPcs]
  /\ loop \in {"none", "start", "made", "run", "quit"}
  /\ loop # "none" => main_loop_thread
  /\ idle \in Seq({"open", "close"})
  /\ agent \in {"none", "asked", "registered"}
  /\ pending_message => agent = "registered"
  /\ seen \in {"none", "ON", "OFF"}
  /\ app \in {"off", "registered", "starting", "stopping"}
  /\ calls \in 0 .. MaxInits

\* A close that bt_close queued but the loop did not get to before it quit is
\* run by the next loop before the next open: bluetooth_open never overwrites
\* a live client.
ClientNotLeaked == [][bluetooth_open => ~client]_vars

\* rk_bt_deinit ends: the loop it joins has been told to quit.
DeinitEnds == \A d \in Deinits : (dei[d] # "none") ~> (dei[d] = "none")

\* rk_bt_init is answered by INIT_ON.
InitAnswered == (app = "starting") ~> (seen = "ON")

=============================================================================
