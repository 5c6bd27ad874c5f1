---------------------------- MODULE SessionProofs ----------------------------
(***************************************************************************)
(* What a session leaves behind, for any number of threads: the serial     *)
(* port (Spp) when bt_spp_server_close has ended, and the start and stop   *)
(* of the stack (BtLifecycle), whose next session finds no client of the   *)
(* last.  The last part is about how a close ends.                         *)
(***************************************************************************)
EXTENDS Spp, BtLifecycle, TLAPS

ServerPlaces == {"none", "socket", "bind", "mark", "while", "select", "accept",
                 "connected", "read", "out", "exit"}
ClientPlaces == {"none", "socket", "bind", "connect", "poll", "out"}

(* The types that the argument needs.                                       *)
Types ==
  /\ server_running \in BOOLEAN /\ tid \in BOOLEAN
  /\ srv \in ServerPlaces
  /\ cli \in [Clients -> ClientPlaces]
  /\ call \in {"idle", "client", "server", "join"}

(* tid is set while there is a server thread, and only between socket and   *)
(* out does that thread have a descriptor.                                  *)
Handles ==
  /\ tid <=> srv # "none"
  /\ srv \in {"none", "socket", "exit"} => server_fd = 0

(* Once the flag was raised, and while a close is under way, the server     *)
(* thread is past the place where it raises the flag: a close is never      *)
(* undone by it.                                                            *)
Past == srv \notin {"none", "socket", "bind", "mark"}
Lowered ==
  /\ server_running => Past
  /\ call # "idle" => ~server_running /\ Past

(* Without a server thread only a client that is connected, or was and has  *)
(* not yet cleaned up, keeps the state from IDLE: a failed bind returns     *)
(* without cleaning up, but it has changed nothing.                         *)
Idle ==
  ~tid /\ (\A c \in Clients : cli[c] \notin {"poll", "out"}) => server_state = "IDLE"

IInv == Types /\ Handles /\ Lowered /\ Idle

(* Every step of spp_server_thread.                                         *)
LEMMA ServerStep ==
  ASSUME IInv, Server
  PROVE  IInv'
<1> USE DEF IInv, Types, ServerPlaces, Handles, Lowered, Past, Idle, handler
<1>1. CASE SrvSocket BY <1>1 DEF SrvSocket
<1>2. CASE SrvListen BY <1>2 DEF SrvListen
<1>3. CASE SrvMark BY <1>3 DEF SrvMark
<1>4. CASE SrvWhile BY <1>4 DEF SrvWhile
<1>5. CASE SrvSelect BY <1>5 DEF SrvSelect
<1>6. CASE SrvAccept BY <1>6 DEF SrvAccept
<1>7. CASE SrvConnected BY <1>7 DEF SrvConnected
<1>8. CASE SrvRead BY <1>8 DEF SrvRead
<1>9. CASE SrvOut BY <1>9 DEF SrvOut
<1> QED BY <1>1, <1>2, <1>3, <1>4, <1>5, <1>6, <1>7, <1>8, <1>9 DEF Server

(* Every step of a spp_client_thread, which may also take the server's      *)
(* descriptor away.                                                         *)
LEMMA ClientStep ==
  ASSUME IInv, NEW c \in Clients, Client(c)
  PROVE  IInv'
<1> USE DEF IInv, Types, ClientPlaces, Handles, Lowered, Past, Idle, handler, CliGoto
<1>1. CASE CliSocket(c) BY <1>1 DEF CliSocket
<1>2. CASE CliBind(c) BY <1>2 DEF CliBind
<1>3. CASE CliConnect(c) BY <1>3 DEF CliConnect
<1>4. CASE CliPoll(c) BY <1>4 DEF CliPoll
<1>5. CASE CliOut(c) BY <1>5 DEF CliOut
<1> QED BY <1>1, <1>2, <1>3, <1>4, <1>5 DEF Client

(* Every call of the application, bt_spp_server_close in its steps.         *)
LEMMA CallStep ==
  ASSUME IInv, rk_bt_spp
  PROVE  IInv'
<1> USE DEF IInv, Types, ServerPlaces, ClientPlaces, Handles, Lowered, Past, Idle, CliGoto
<1>1. CASE bt_spp_server_open BY <1>1 DEF bt_spp_server_open
<1>2. CASE bt_spp_register_status_callback BY <1>2 DEF bt_spp_register_status_callback
<1>3. CASE bt_spp_client_open BY <1>3 DEF bt_spp_client_open
<1>4. CASE CloseStop BY <1>4 DEF CloseStop
<1>5. CASE CloseClient BY <1>5 DEF CloseClient
<1>6. CASE CloseServer BY <1>6 DEF CloseServer
<1>7. CASE CloseJoin BY <1>7 DEF CloseJoin
<1> QED BY <1>1, <1>2, <1>3, <1>4, <1>5, <1>6, <1>7 DEF rk_bt_spp, Close

(* The inductive invariant holds in every reachable state.                  *)
THEOREM Invariance == SppSpec => []IInv
<1>1. SppInit => IInv
  BY DEF SppInit, IInv, Types, ServerPlaces, ClientPlaces, Handles, Lowered, Past, Idle
<1>2. IInv /\ [SppNext]_sppvars => IInv'
  <2> SUFFICES ASSUME IInv, [SppNext]_sppvars PROVE IInv' OBVIOUS
  <2> USE DEF IInv, Types, Handles, Lowered, Past, Idle, handler
  <2>1. CASE Hangup BY <2>1 DEF Hangup
  <2>2. CASE UNCHANGED sppvars BY <2>2 DEF sppvars
  <2> QED BY <2>1, <2>2, ServerStep, ClientStep, CallStep DEF SppNext
<1> QED BY <1>1, <1>2, PTL DEF SppSpec

(* However servers, clients, peers and failures interleave, and whatever a  *)
(* client did to the server's descriptor, a server that bt_spp_server_close *)
(* has joined leaves no listening descriptor and no raised flag, and the    *)
(* state is IDLE once the clients are gone.                                 *)
THEOREM ClosedIsCleanHolds == SppSpec => []ClosedIsClean
<1>1. IInv => ClosedIsClean
  BY DEF IInv, Handles, Lowered, Past, Idle, ClosedIsClean
<1> QED BY <1>1, Invariance, PTL
-----------------------------------------------------------------------------
(* The types IInv does not name.                                            *)
SocketStates == {"unused", "made", "listening", "up", "down"}
RestTypes ==
  /\ client_fd \in Fds /\ server_fd \in Fds
  /\ cid \in BOOLEAN /\ state_cb \in BOOLEAN
  /\ server_state \in States /\ reported \in States \cup {"none"}
  /\ polled \in [Clients -> Fds] /\ sock \in [Fds -> SocketStates]

(* A descriptor that socket or accept returns is a valid one.               *)
LEMMA NextFd == 0 \in Fds /\ NextFds \subseteq Fds
BY SppAssumption DEF Fds, NextFds, Unused

(* The sockets keep their states when some are shut down.                   *)
LEMMA ShutTypes ==
  ASSUME NEW F, sock \in [Fds -> SocketStates], Shut(F)
  PROVE  sock' \in [Fds -> SocketStates]
BY DEF Shut, SocketStates

(* Every step of spp_server_thread.                                         *)
LEMMA ServerTypes ==
  ASSUME RestTypes, Server
  PROVE  RestTypes'
<1> USE NextFd DEF RestTypes, handler
<1>1. CASE SrvSocket BY <1>1 DEF SrvSocket, SocketStates
<1>2. CASE SrvListen BY <1>2 DEF SrvListen, SocketStates
<1>3. CASE SrvMark BY <1>3 DEF SrvMark
<1>4. CASE SrvWhile BY <1>4 DEF SrvWhile
<1>5. CASE SrvSelect BY <1>5 DEF SrvSelect
<1>6. CASE SrvAccept BY <1>6 DEF SrvAccept, SocketStates
<1>7. CASE SrvConnected BY <1>7 DEF SrvConnected, spp_state_send, States
<1>8. CASE SrvRead BY <1>8, ShutTypes DEF SrvRead, spp_state_send, States
<1>9. CASE SrvOut BY <1>9, ShutTypes DEF SrvOut, States
<1> QED BY <1>1, <1>2, <1>3, <1>4, <1>5, <1>6, <1>7, <1>8, <1>9 DEF Server

(* Every step of a spp_client_thread.                                       *)
LEMMA ClientTypes ==
  ASSUME RestTypes, NEW c \in Clients, Client(c)
  PROVE  RestTypes'
<1> USE NextFd DEF RestTypes, handler
<1>1. CASE CliSocket(c) BY <1>1 DEF CliSocket, SocketStates
<1>2. CASE CliBind(c) BY <1>2 DEF CliBind
<1>3. CASE CliConnect(c)
  <2>1. /\ UNCHANGED <<client_fd, server_fd, state_cb>> /\ cid' \in {FALSE, cid}
        /\ server_state' \in {"CONNECT", server_state}
        /\ reported' \in {"CONNECT", "CONNECT_FAILED", reported}
    BY <1>3 DEF CliConnect, spp_state_send
  <2>2. polled' \in [Clients -> Fds] BY <1>3 DEF CliConnect
  <2>3. sock' \in [Fds -> SocketStates] BY <1>3 DEF CliConnect, SocketStates
  <2> QED BY <2>1, <2>2, <2>3 DEF States
<1>4. CASE CliPoll(c) BY <1>4 DEF CliPoll, spp_state_send, States
<1>5. CASE CliOut(c) BY <1>5, ShutTypes DEF CliOut, States
<1> QED BY <1>1, <1>2, <1>3, <1>4, <1>5 DEF Client

(* Every call of the application.                                           *)
LEMMA CallTypes ==
  ASSUME RestTypes, rk_bt_spp
  PROVE  RestTypes'
<1> USE NextFd DEF RestTypes
<1>1. CASE bt_spp_server_open BY <1>1 DEF bt_spp_server_open
<1>2. CASE bt_spp_register_status_callback BY <1>2 DEF bt_spp_register_status_callback
<1>3. CASE bt_spp_client_open BY <1>3 DEF bt_spp_client_open
<1>4. CASE CloseStop BY <1>4 DEF CloseStop
<1>5. CASE CloseClient BY <1>5, ShutTypes DEF CloseClient
<1>6. CASE CloseServer BY <1>6, ShutTypes DEF CloseServer
<1>7. CASE CloseJoin BY <1>7 DEF CloseJoin, States
<1> QED BY <1>1, <1>2, <1>3, <1>4, <1>5, <1>6, <1>7 DEF rk_bt_spp, Close

(* Whatever the threads do to each other's descriptors, g_spp_handler and   *)
(* the threads stay in their types, no descriptor outside the limit is      *)
(* used, and tid is set exactly while there is a server thread to join.     *)
THEOREM SppTypes == SppSpec => []SppTypeOK
<1>1. SppInit => RestTypes
  BY NextFd DEF SppInit, RestTypes, States, SocketStates
<1>2. RestTypes /\ [SppNext]_sppvars => RestTypes'
  <2> SUFFICES ASSUME RestTypes, [SppNext]_sppvars PROVE RestTypes' OBVIOUS
  <2>1. CASE Hangup BY <2>1 DEF Hangup, handler, RestTypes, SocketStates
  <2>2. CASE UNCHANGED sppvars BY <2>2 DEF sppvars, handler, RestTypes
  <2> QED BY <2>1, <2>2, ServerTypes, ClientTypes, CallTypes DEF SppNext
<1>3. IInv /\ RestTypes => SppTypeOK
  BY DEF IInv, Types, Handles, ServerPlaces, ClientPlaces, RestTypes, SocketStates, SppTypeOK
<1> QED BY <1>1, <1>2, <1>3, Invariance, PTL DEF SppSpec

-----------------------------------------------------------------------------
(* BtLifecycle.                                                             *)

(* What bt_open and bt_close leave for the main loop.                       *)
Nothing == << >>
OnlyOpen == <<"open">>
OnlyClose == <<"close">>
CloseOpen == <<"close", "open">>

LifeTypes ==
  /\ ini \in [Inits -> InitPcs] /\ dei \in [Deinits -> DeinitPcs]
  /\ agent \in {"none", "asked", "registered"}
  /\ client \in BOOLEAN /\ agent_manager \in BOOLEAN

(* A thread of rk_bt_init that has not posted its open yet, one of          *)
(* rk_bt_deinit that has not reported, and not even posted its close.       *)
Beginning(i) == ini[i] \in {"check", "loop", "vendor", "post"}
Working(d) == dei[d] \notin {"none", "deregister"}
Unposted(d) == dei[d] \in {"forget", "close"}

(* The client of a session that was reported ON has had its agent; it goes  *)
(* with the close that is queued, before anything else is dispatched.       *)
Answered == agent # "asked" /\ (client => agent_manager)
Closing == client => idle \in {OnlyClose, CloseOpen}
Ended == Answered /\ Closing

(* One thread at a time: an application that waits for INIT_ON and INIT_OFF *)
(* starts the next one when the one before is past what it posts.           *)
OneThread ==
  /\ \A i, j \in Inits : Beginning(i) /\ Beginning(j) => i = j
  /\ \A d, e \in Deinits : Working(d) /\ Working(e) => d = e
  /\ \A i \in Inits :
       Beginning(i) => /\ app = "starting" /\ seen # "ON"
                       /\ idle \in {Nothing, OnlyClose} /\ Ended
  /\ \A d \in Deinits : Working(d) => app = "stopping" /\ seen = "ON"

(* What is queued at each stage of the application.                         *)
Stages ==
  /\ app \in {"off", "registered", "starting", "stopping"}
  /\ agent_manager => client
  /\ agent = "asked" => agent_manager
  /\ app \in {"off", "registered"} => seen # "ON" /\ idle \in {Nothing, OnlyClose} /\ Ended
  /\ app = "starting" /\ seen # "ON" =>
       idle = Nothing \/ (Ended /\ idle \in {OnlyOpen, OnlyClose, CloseOpen})
  /\ app = "starting" /\ seen = "ON" => idle = Nothing /\ Answered
  /\ app = "stopping" =>
       /\ Answered /\ idle \in {Nothing, OnlyClose}
       /\ (\E d \in Deinits : Unposted(d)) => idle = Nothing
       /\ seen # "ON" \/ (\E d \in Deinits : Working(d) /\ ~Unposted(d)) => Closing

LifeInv == LifeTypes /\ OneThread /\ Stages
(* Queueing and dispatching.                                                *)
LEMMA Queues ==
  /\ Append(Nothing, "open") = OnlyOpen /\ Append(OnlyClose, "open") = CloseOpen
  /\ Append(Nothing, "close") = OnlyClose
  /\ Tail(OnlyOpen) = Nothing /\ Tail(OnlyClose) = Nothing /\ Tail(CloseOpen) = OnlyOpen
  /\ Head(OnlyOpen) = "open" /\ Head(OnlyClose) = "close" /\ Head(CloseOpen) = "close"
  /\ OnlyOpen # Nothing /\ OnlyClose # Nothing /\ CloseOpen # Nothing
  /\ OnlyOpen # OnlyClose /\ OnlyOpen # CloseOpen /\ OnlyClose # CloseOpen
<1>1. /\ Append(Nothing, "open") = OnlyOpen /\ Append(OnlyClose, "open") = CloseOpen
      /\ Append(Nothing, "close") = OnlyClose
  <2>1. Append(Nothing, "open") = OnlyOpen BY DEF Nothing, OnlyOpen
  <2>2. Append(Nothing, "close") = OnlyClose BY DEF Nothing, OnlyClose
  <2>3. Append(OnlyClose, "open") = CloseOpen
    <3>1. ASSUME NEW a, NEW b PROVE Append(<<a>>, b) = <<a, b>>
      <4>1. /\ <<a, b>> \in Seq({a, b}) /\ Len(<<a, b>>) = 2
            /\ <<a, b>>[1] = a /\ <<a, b>>[2] = b
            /\ <<a>> \in Seq({a, b}) /\ Len(<<a>>) = 1 /\ <<a>>[1] = a
        OBVIOUS
      <4>2. /\ Append(<<a>>, b) \in Seq({a, b}) /\ Len(Append(<<a>>, b)) = 2
            /\ Append(<<a>>, b)[1] = a /\ Append(<<a>>, b)[2] = b
        BY <4>1
      <4>3. \A i \in 1 .. 2 : i = 1 \/ i = 2 OBVIOUS
      <4>4. \A i \in 1 .. 2 : Append(<<a>>, b)[i] = <<a, b>>[i] BY <4>1, <4>2, <4>3
      <4> DEFINE s == Append(<<a>>, b)
                 t == <<a, b>>
      <4>5. /\ s \in Seq({a, b}) /\ t \in Seq({a, b}) /\ Len(s) = 2 /\ Len(t) = 2
            /\ \A i \in 1 .. 2 : s[i] = t[i]
        BY <4>1, <4>2, <4>4
      <4> HIDE DEF s, t
      <4>6. s = t BY <4>5
      <4> QED BY <4>6 DEF s, t
    <3> QED BY <3>1, Zenon DEF CloseOpen, OnlyClose
  <2> QED BY <2>1, <2>2, <2>3
<1>2. Tail(OnlyOpen) = Nothing /\ Tail(OnlyClose) = Nothing /\ Tail(CloseOpen) = OnlyOpen
  <2>1. Tail(OnlyOpen) = Nothing BY DEF Nothing, OnlyOpen
  <2>2. Tail(OnlyClose) = Nothing BY DEF Nothing, OnlyClose
  <2>3. Tail(CloseOpen) = OnlyOpen
    <3>1. ASSUME NEW a, NEW b PROVE Tail(<<a, b>>) = <<b>>
      <4>1. /\ <<a, b>> \in Seq({a, b}) /\ Len(<<a, b>>) = 2 /\ <<a, b>>[2] = b
            /\ <<b>> \in Seq({a, b}) /\ Len(<<b>>) = 1 /\ <<b>>[1] = b
        OBVIOUS
      <4>2. /\ Tail(<<a, b>>) \in Seq({a, b}) /\ Len(Tail(<<a, b>>)) = 1
            /\ Tail(<<a, b>>)[1] = b
        BY <4>1
      <4> QED BY <4>1, <4>2
    <3> QED BY <3>1, Zenon DEF CloseOpen, OnlyOpen
  <2> QED BY <2>1, <2>2, <2>3
<1>3. Head(OnlyOpen) = "open" /\ Head(OnlyClose) = "close" /\ Head(CloseOpen) = "close"
  BY DEF OnlyOpen, OnlyClose, CloseOpen
<1>4. OnlyOpen # Nothing /\ OnlyClose # Nothing /\ CloseOpen # Nothing
  BY DEF Nothing, OnlyOpen, OnlyClose, CloseOpen
<1>5. OnlyOpen # OnlyClose /\ OnlyOpen # CloseOpen /\ OnlyClose # CloseOpen
  <2>1. OnlyOpen[1] = "open" /\ OnlyClose[1] = "close" /\ CloseOpen[1] = "close"
    BY DEF OnlyOpen, OnlyClose, CloseOpen
  <2>2. Len(OnlyClose) = 1 /\ Len(CloseOpen) = 2 BY DEF OnlyClose, CloseOpen
  <2> QED BY <2>1, <2>2
<1> QED BY <1>1, <1>2, <1>3, <1>4, <1>5

(* What the application does, waiting for INIT_ON and for INIT_OFF.         *)
LEMMA AppLife ==
  ASSUME Polite, LifeInv, App
  PROVE  LifeInv'
<1> USE DEF LifeInv
<1>1. UNCHANGED <<seen, idle, client, agent_manager, agent>>
  BY DEF App, rk_bt_register_state_callback, rk_bt_init, rk_bt_deinit,
         AppStopped, flags, pairing
<1>2. UNCHANGED <<Answered, Closing>> BY <1>1 DEF Answered, Closing
<1>3. CASE rk_bt_register_state_callback
  <2>1. app = "off" /\ app' = "registered" /\ UNCHANGED <<ini, dei>>
    BY <1>3 DEF rk_bt_register_state_callback
  <2>2. LifeTypes' BY <1>1, <2>1 DEF LifeTypes
  <2>3. OneThread' BY <1>1, <2>1 DEF OneThread, Beginning, Working
  <2>4. Stages' BY <1>1, <1>2, <2>1 DEF Stages, Ended
  <2> QED BY <2>2, <2>3, <2>4
<1>4. CASE rk_bt_init
  <2>1. app = "registered" /\ app' = "starting" /\ UNCHANGED dei
    BY <1>4 DEF rk_bt_init
  <2>2. UNCHANGED ini \/ \E i \in Inits : ini' = [ini EXCEPT ![i] = "check"]
    BY <1>4 DEF rk_bt_init, IniGoto
  <2>3. LifeTypes' BY <1>1, <2>1, <2>2 DEF LifeTypes, InitPcs
  <2>4. \A i \in Inits : ~Beginning(i) BY <2>1 DEF OneThread
  <2>5. \A i, j \in Inits : Beginning(i)' /\ Beginning(j)' => i = j
    BY <2>2, <2>4 DEF LifeTypes, Beginning
  <2>6. \A d \in Deinits : ~Working(d) /\ ~Working(d)' BY <2>1 DEF OneThread, Working
  <2>7. seen # "ON" /\ idle \in {Nothing, OnlyClose} /\ Ended BY <2>1 DEF Stages
  <2>8. OneThread' BY <1>1, <1>2, <2>1, <2>5, <2>6, <2>7 DEF OneThread, Ended
  <2>9. Stages' BY <1>1, <1>2, <2>1, <2>7 DEF Stages, Ended
  <2> QED BY <2>3, <2>8, <2>9
<1>5. CASE rk_bt_deinit
  <2>1. app = "starting" /\ app' = "stopping" /\ UNCHANGED ini /\ seen = "ON"
    BY <1>5 DEF rk_bt_deinit
  <2>2. PICK d \in Deinits : dei' = [dei EXCEPT ![d] = "forget"]
    BY <1>5 DEF rk_bt_deinit, DeiGoto
  <2>3. LifeTypes' BY <1>1, <2>1, <2>2 DEF LifeTypes, DeinitPcs
  <2>4. \A e \in Deinits : ~Working(e) BY <2>1 DEF OneThread
  <2>5. \A e \in Deinits : Working(e)' => e = d /\ Unposted(e)'
    BY <2>2, <2>4 DEF LifeTypes, Working, Unposted
  <2>6. \A i \in Inits : ~Beginning(i) /\ ~Beginning(i)' BY <2>1 DEF OneThread, Beginning
  <2>7. OneThread' BY <1>1, <2>1, <2>5, <2>6 DEF OneThread
  <2>8. Stages' BY <1>1, <1>2, <2>1, <2>5 DEF Stages
  <2> QED BY <2>3, <2>7, <2>8
<1>6. CASE AppStopped
  <2>1. app = "stopping" /\ app' = "off" /\ UNCHANGED <<ini, dei>> /\ seen = "OFF"
    BY <1>6 DEF AppStopped
  <2>2. LifeTypes' BY <1>1, <2>1 DEF LifeTypes
  <2>3. OneThread' BY <1>1, <2>1 DEF OneThread, Beginning, Working
  <2>4. Stages' BY <1>1, <1>2, <2>1 DEF Stages, Ended
  <2> QED BY <2>2, <2>3, <2>4
<1> QED BY <1>3, <1>4, <1>5, <1>6 DEF App

(* A thread of rk_bt_init posts one open, behind the close of the session   *)
(* before if that is still queued.                                          *)
LEMMA InitLife ==
  ASSUME LifeInv, NEW i \in Inits, InitThread(i)
  PROVE  LifeInv'
<1> USE DEF LifeInv
<1>1. UNCHANGED <<dei, client, agent_manager, agent, seen, app>>
  BY DEF InitThread, InitCheck, main_loop_init, InitVendor,
         PostOpen, ClearOpened, PollOpened, InitDone, flags,
         pairing
<1>2. PICK l \in InitPcs :
        /\ ini' = [ini EXCEPT ![i] = l]
        /\ l \in {"check", "loop", "vendor", "post"} => Beginning(i) /\ UNCHANGED idle
        /\ \/ UNCHANGED idle
           \/ Beginning(i) /\ idle' = Append(idle, "open")
  <2>1. CASE PostOpen(i)
    BY <2>1 DEF PostOpen, IniGoto, InitPcs, Beginning
  <2>2. CASE InitCheck(i) \/ main_loop_init(i) \/ InitVendor(i)
    BY <2>2 DEF InitCheck, main_loop_init, InitVendor, IniGoto,
                InitPcs, Beginning
  <2>3. CASE ClearOpened(i) \/ PollOpened(i) \/ InitDone(i)
    BY <2>3 DEF ClearOpened, PollOpened, InitDone, IniGoto, InitPcs
  <2> QED BY <2>1, <2>2, <2>3 DEF InitThread
<1>3. LifeTypes' BY <1>1, <1>2 DEF LifeTypes
<1>4. /\ ini'[i] = l
      /\ \A j \in Inits : j # i => ini'[j] = ini[j]
  BY <1>2 DEF LifeTypes
<1>5. \A j \in Inits : Beginning(j)' => Beginning(j)
  BY <1>2, <1>4 DEF Beginning
<1>6. \A d \in Deinits : Working(d)' = Working(d) /\ Unposted(d)' = Unposted(d)
  BY <1>1 DEF Working, Unposted
<1>7. UNCHANGED Answered BY <1>1 DEF Answered
<1>8. CASE UNCHANGED idle
  <2>1. UNCHANGED Closing BY <1>1, <1>8 DEF Closing
  <2>2. OneThread' BY <1>1, <1>5, <1>6, <1>7, <1>8, <2>1 DEF OneThread, Ended
  <2>3. Stages' BY <1>1, <1>6, <1>7, <1>8, <2>1 DEF Stages, Ended
  <2> QED BY <1>3, <2>2, <2>3
<1>9. CASE ~UNCHANGED idle
  <2>1. Beginning(i) /\ idle' = Append(idle, "open") /\ ~Beginning(i)'
    BY <1>2, <1>4, <1>9 DEF Beginning
  <2>2. app = "starting" /\ seen # "ON" /\ idle \in {Nothing, OnlyClose} /\ Ended
    BY <2>1 DEF OneThread
  <2>3. idle' = (IF idle = Nothing THEN OnlyOpen ELSE CloseOpen) BY <2>1, <2>2, Queues
  <2>4. Ended' BY <1>1, <1>7, <2>2, <2>3, Queues DEF Ended, Closing
  <2>5. \A j \in Inits : ~Beginning(j)' BY <1>5, <2>1 DEF OneThread
  <2>6. OneThread' BY <1>1, <1>6, <2>5 DEF OneThread
  <2>7. Stages' BY <1>1, <2>2, <2>3, <2>4, Queues DEF Stages
  <2> QED BY <1>3, <2>6, <2>7
<1> QED BY <1>8, <1>9

(* A thread of rk_bt_deinit posts one close, and reports after it.          *)
LEMMA DeinitLife ==
  ASSUME LifeInv, NEW d \in Deinits, DeinitThread(d)
  PROVE  LifeInv'
<1> USE DEF LifeInv
<1>1. UNCHANGED <<ini, client, agent_manager, agent, app>>
  BY DEF DeinitThread, DeinitCheck, PostClose, QuitLoop, JoinLoop,
         DeinitVendor, DeinitClear, DeinitReport,
         bt_deregister_state_callback, flags, pairing
<1>2. PICK l \in DeinitPcs : dei' = [dei EXCEPT ![d] = l]
  BY DEF DeinitThread, DeinitCheck, PostClose, QuitLoop, JoinLoop,
         DeinitVendor, DeinitClear, DeinitReport,
         bt_deregister_state_callback, DeiGoto, DeinitPcs
<1>3. LifeTypes' BY <1>1, <1>2 DEF LifeTypes
<1>4. dei'[d] = l /\ \A e \in Deinits : e # d => dei'[e] = dei[e] BY <1>2 DEF LifeTypes
<1>5. UNCHANGED Answered /\ \A i \in Inits : Beginning(i)' = Beginning(i)
  BY <1>1 DEF Answered, Beginning
<1>6. \A e \in Deinits : e # d => Working(e)' = Working(e) /\ Unposted(e)' = Unposted(e)
  BY <1>4 DEF Working, Unposted
<1>7. CASE DeinitCheck(d)
  <2>1. dei[d] = "forget" /\ l \in {"close", "none"} /\ UNCHANGED <<idle, seen>>
    BY <1>4, <1>7 DEF DeinitCheck, DeiGoto, flags, LifeTypes
  <2>2. /\ Working(d) /\ Unposted(d) /\ (Working(d)' => Unposted(d)')
    BY <1>4, <2>1 DEF Working, Unposted
  <2>3. UNCHANGED Closing BY <1>1, <2>1 DEF Closing
  <2>4. OneThread' BY <1>1, <1>5, <1>6, <2>1, <2>2, <2>3 DEF OneThread, Ended
  <2>5. app = "stopping" /\ seen = "ON" /\ idle = Nothing BY <2>2 DEF OneThread, Stages
  <2>6. \A e \in Deinits : Working(e)' => e = d BY <1>6, <2>2 DEF OneThread
  <2>7. Stages' BY <1>1, <1>5, <2>1, <2>2, <2>5, <2>6 DEF Stages
  <2> QED BY <1>3, <2>4, <2>7
<1>8. CASE PostClose(d)
  <2>1. dei[d] = "close" /\ l = "quit" /\ idle' = Append(idle, "close") /\ UNCHANGED seen
    BY <1>4, <1>8 DEF PostClose, DeiGoto, flags, LifeTypes
  <2>2. Working(d) /\ Unposted(d) /\ Working(d)' /\ ~Unposted(d)'
    BY <1>4, <2>1 DEF Working, Unposted
  <2>3. app = "stopping" /\ seen = "ON" /\ idle = Nothing BY <2>2 DEF OneThread, Stages
  <2>4. idle' = OnlyClose BY <2>1, <2>3, Queues
  <2>5. Closing' BY <2>4 DEF Closing
  <2>6. \A e \in Deinits : (Working(e)' => e = d) /\ ~Unposted(e)'
    BY <1>6, <2>2 DEF OneThread, Working, Unposted
  <2>7. \A i \in Inits : ~Beginning(i)' BY <1>5, <2>3 DEF OneThread
  <2>8. OneThread' BY <1>1, <2>1, <2>3, <2>6, <2>7 DEF OneThread
  <2>9. Stages' BY <1>1, <1>5, <2>1, <2>3, <2>4, <2>5, <2>6 DEF Stages
  <2> QED BY <1>3, <2>8, <2>9
<1>9. CASE QuitLoop(d) \/ JoinLoop(d) \/ DeinitVendor(d) \/ DeinitClear(d)
  <2>1. /\ dei[d] \in {"quit", "join", "vendor", "init"}
        /\ l \in {"join", "vendor", "init", "report"} /\ UNCHANGED <<idle, seen>>
    BY <1>4, <1>9 DEF QuitLoop, JoinLoop, DeinitVendor, DeinitClear,
       DeiGoto, flags, LifeTypes
  <2>2. Working(d) /\ ~Unposted(d) /\ Working(d)' /\ ~Unposted(d)'
    BY <1>4, <2>1 DEF Working, Unposted
  <2>3. UNCHANGED Closing BY <1>1, <2>1 DEF Closing
  <2>4. ASSUME NEW e \in Deinits
        PROVE  Working(e)' = Working(e) /\ Unposted(e)' = Unposted(e)
    <3>1. CASE e = d BY <2>2, <3>1 DEF Working, Unposted
    <3>2. CASE e # d BY <1>6, <3>2
    <3> QED BY <3>1, <3>2
  <2>5. OneThread' BY <1>1, <1>5, <2>1, <2>3, <2>4 DEF OneThread, Ended
  <2>6. Stages' BY <1>1, <1>5, <2>1, <2>3, <2>4 DEF Stages, Ended
  <2> QED BY <1>3, <2>5, <2>6
<1>10. CASE DeinitReport(d)
  <2>1. dei[d] = "report" /\ l = "deregister" /\ UNCHANGED idle /\ seen' \in {seen, "OFF"}
    BY <1>4, <1>10 DEF DeinitReport, DeiGoto, Send, LifeTypes
  <2>2. Working(d) /\ ~Unposted(d) /\ ~Working(d)' BY <1>4, <2>1 DEF Working, Unposted
  <2>3. app = "stopping" /\ seen = "ON" /\ Closing /\ UNCHANGED Closing
    BY <1>1, <2>1, <2>2 DEF OneThread, Stages, Closing
  <2>4. \A e \in Deinits : ~Working(e)' /\ ~Unposted(e)'
    BY <1>6, <2>2 DEF OneThread, Working, Unposted
  <2>5. \A i \in Inits : ~Beginning(i)' BY <1>5, <2>3 DEF OneThread
  <2>6. OneThread' BY <2>4, <2>5 DEF OneThread
  <2>7. Stages' BY <1>1, <1>5, <2>1, <2>3, <2>4 DEF Stages
  <2> QED BY <1>3, <2>6, <2>7
<1>11. CASE bt_deregister_state_callback(d)
  <2>1. dei[d] = "deregister" /\ l = "none" /\ UNCHANGED <<idle, seen>>
    BY <1>4, <1>11 DEF bt_deregister_state_callback, DeiGoto, LifeTypes
  <2>2. UNCHANGED Closing BY <1>1, <2>1 DEF Closing
  <2>3. \A e \in Deinits : Working(e)' = Working(e) /\ Unposted(e)' = Unposted(e)
    BY <1>4, <2>1 DEF Working, Unposted
  <2>4. OneThread' BY <1>1, <1>5, <2>1, <2>2, <2>3 DEF OneThread, Ended
  <2>5. Stages' BY <1>1, <1>5, <2>1, <2>2, <2>3 DEF Stages, Ended
  <2> QED BY <1>3, <2>4, <2>5
<1> QED BY <1>7, <1>8, <1>9, <1>10, <1>11 DEF DeinitThread

(* The loop finds an open at the head of its queue only when the client of  *)
(* the session before has gone.                                             *)
LEMMA OpenFinds ==
  ASSUME LifeInv, idle # << >>, Head(idle) = "open"
  PROVE  idle = OnlyOpen /\ ~client /\ app = "starting" /\ seen # "ON"
<1>0. idle # Nothing BY DEF Nothing
<1>1. app \in {"off", "registered", "starting", "stopping"} BY DEF LifeInv, Stages
<1>2. idle \notin {OnlyClose, CloseOpen} BY Queues
<1> QED BY <1>0, <1>1, <1>2 DEF LifeInv, Stages, Ended, Closing

(* The main loop, and what bluetoothd asks of the agent.                    *)
LEMMA LoopLife ==
  ASSUME LifeInv, Loop \/ Agent
  PROVE  LifeInv'
<1> USE DEF LifeInv
<1>1. UNCHANGED <<ini, dei, app>>
  BY DEF Loop, Agent, LoopStart, LoopExit, bluetooth_open,
         bluetooth_close, agent_register, register_agent_reply,
         request_pincode, cancel_request, release_agent, AgentCalled
<1>2. /\ \A i \in Inits : Beginning(i)' = Beginning(i)
      /\ \A d \in Deinits : Working(d)' = Working(d) /\ Unposted(d)' = Unposted(d)
  BY <1>1 DEF Beginning, Working, Unposted
<1>3. CASE LoopStart \/ LoopExit \/ Agent
  <2>1. /\ UNCHANGED <<idle, client, agent_manager, seen>>
        /\ agent' = agent \/ (agent = "registered" /\ agent' = "none")
    BY <1>3 DEF LoopStart, LoopExit, Agent, request_pincode,
       cancel_request, release_agent, agent_release, AgentCalled,
       flags, pairing
  <2>2. UNCHANGED Closing /\ (Answered => Answered') BY <2>1 DEF Closing, Answered
  <2>3. LifeTypes' BY <1>1, <2>1 DEF LifeTypes
  <2>4. OneThread' BY <1>1, <1>2, <2>1, <2>2 DEF OneThread, Ended
  <2>5. Stages' BY <1>1, <1>2, <2>1, <2>2 DEF Stages, Ended
  <2> QED BY <2>3, <2>4, <2>5
<1>4. CASE bluetooth_open
  <2>1. /\ idle # << >> /\ Head(idle) = "open" /\ idle' = Tail(idle) /\ agent_manager' = FALSE
        /\ client' \in BOOLEAN /\ UNCHANGED <<agent, seen>>
    BY <1>4 DEF bluetooth_open
  <2>2. idle = OnlyOpen /\ ~client /\ app = "starting" /\ seen # "ON" BY <2>1, OpenFinds
  <2>3. idle' = Nothing BY <2>1, <2>2, Queues
  <2>4. agent # "asked" BY <2>2, Queues DEF Stages, Ended, Answered
  <2>5. \A i \in Inits : ~Beginning(i) BY <2>2, Queues DEF OneThread
  <2>6. \A d \in Deinits : ~Working(d) BY <2>2 DEF OneThread
  <2>7. LifeTypes' BY <1>1, <2>1 DEF LifeTypes
  <2>8. OneThread' BY <1>2, <2>5, <2>6 DEF OneThread
  <2>9. Stages' BY <1>1, <2>1, <2>2, <2>3, <2>4 DEF Stages
  <2> QED BY <2>7, <2>8, <2>9
<1>5. CASE bluetooth_close
  <2>1. /\ idle # << >> /\ Head(idle) = "close" /\ idle' = Tail(idle)
        /\ agent_manager' = FALSE /\ client' = FALSE /\ UNCHANGED seen
        /\ agent' = agent \/ (agent = "registered" /\ agent' = "none")
    BY <1>5 DEF bluetooth_close, agent_unregister, agent_release, flags
  <2>2. idle \in {OnlyClose, CloseOpen}
    <3>1. app \in {"off", "registered", "starting", "stopping"} BY DEF Stages
    <3>2. idle # Nothing BY <2>1 DEF Nothing
    <3> QED BY <2>1, <3>1, <3>2, Queues DEF Stages
  <2>3. idle' = (IF idle = OnlyClose THEN Nothing ELSE OnlyOpen) BY <2>1, <2>2, Queues
  <2>4. agent # "asked" BY <2>2, Queues DEF Stages, Ended, Answered
  <2>5. Ended' BY <2>1, <2>4 DEF Ended, Answered, Closing
  <2>6. LifeTypes' BY <1>1, <2>1 DEF LifeTypes
  <2>7. OneThread' BY <1>1, <1>2, <2>1, <2>2, <2>3, <2>5, Queues DEF OneThread
  <2>8. Stages' BY <1>1, <1>2, <2>1, <2>2, <2>3, <2>4, <2>5, Queues DEF Stages, Ended
  <2> QED BY <2>6, <2>7, <2>8
<1>6. CASE agent_register
  <2>1. /\ client /\ ~agent_manager /\ agent_manager' = TRUE /\ UNCHANGED <<idle, client, seen>>
        /\ agent' = IF agent = "none" THEN "asked" ELSE agent
    BY <1>6 DEF agent_register, flags
  <2>2. ~Answered BY <2>1 DEF Answered
  <2>3. app = "starting" /\ seen # "ON" /\ idle = Nothing BY <2>2 DEF Stages, Ended
  <2>4. \A i \in Inits : ~Beginning(i) BY <2>2 DEF OneThread, Ended
  <2>5. LifeTypes' BY <1>1, <2>1 DEF LifeTypes
  <2>6. \A d \in Deinits : ~Working(d) BY <2>3 DEF OneThread
  <2>7. OneThread' BY <1>2, <2>4, <2>6 DEF OneThread
  <2>8. Stages' BY <1>1, <2>1, <2>3 DEF Stages
  <2> QED BY <2>5, <2>7, <2>8
<1>7. CASE register_agent_reply
  <2>1. /\ agent = "asked" /\ agent' \in {"registered", "none"}
        /\ UNCHANGED <<idle, client, agent_manager>> /\ seen' \in {seen, "ON"}
    BY <1>7 DEF register_agent_reply, Send
  <2>2. ~Answered /\ agent_manager BY <2>1 DEF Answered, Stages
  <2>3. app = "starting" /\ seen # "ON" /\ idle = Nothing BY <2>2 DEF Stages, Ended
  <2>4. \A i \in Inits : ~Beginning(i) BY <2>2 DEF OneThread, Ended
  <2>5. \A d \in Deinits : ~Working(d) BY <2>3 DEF OneThread
  <2>6. Answered' BY <2>1, <2>2 DEF Answered
  <2>7. LifeTypes' BY <1>1, <2>1 DEF LifeTypes
  <2>8. OneThread' BY <1>2, <2>4, <2>5 DEF OneThread
  <2>9. Stages' BY <1>1, <2>1, <2>3, <2>6 DEF Stages
  <2> QED BY <2>7, <2>8, <2>9
<1> QED BY <1>3, <1>4, <1>5, <1>6, <1>7 DEF Loop

(* LifeInv holds in every reachable state.                                  *)
LEMMA LifeInvariance == Polite => (Spec => []LifeInv)
<1> SUFFICES ASSUME Polite PROVE Spec => []LifeInv OBVIOUS
<1>1. Init => LifeInv
  <2> SUFFICES ASSUME Init PROVE LifeInv OBVIOUS
  <2>1. /\ ini = [i \in Inits |-> "none"] /\ dei = [d \in Deinits |-> "none"]
        /\ idle = Nothing /\ client = FALSE /\ agent_manager = FALSE /\ agent = "none"
        /\ seen = "none" /\ app = "off"
    BY DEF Init, Nothing
  <2>2. LifeTypes BY <2>1 DEF LifeTypes, InitPcs, DeinitPcs
  <2>3. \A i \in Inits : ~Beginning(i) BY <2>1 DEF Beginning
  <2>4. \A d \in Deinits : ~Working(d) BY <2>1 DEF Working
  <2>5. OneThread BY <2>3, <2>4 DEF OneThread
  <2>6. Stages BY <2>1 DEF Stages, Ended, Answered, Closing
  <2> QED BY <2>2, <2>5, <2>6 DEF LifeInv
<1>2. LifeInv /\ [Next]_vars => LifeInv'
  <2> SUFFICES ASSUME LifeInv, [Next]_vars PROVE LifeInv' OBVIOUS
  <2>1. CASE UNCHANGED vars
    BY <2>1 DEF vars, LifeInv, LifeTypes, OneThread, Beginning, Working, Unposted,
       Stages, Ended, Answered, Closing
  <2> QED BY <2>1, AppLife, InitLife, DeinitLife, LoopLife DEF Next
<1> QED BY <1>1, <1>2, PTL DEF Spec

(* When the application waits for INIT_ON and INIT_OFF, bluetooth_open      *)
(* never overwrites a live client, whatever fails and however late the old  *)
(* threads are: a close that the loop did not get to before it quit is run  *)
(* by the next loop, before the next open.                                  *)
THEOREM ClientNotLeakedHolds == Polite => (Spec => ClientNotLeaked)
<1> SUFFICES ASSUME Polite PROVE Spec => ClientNotLeaked OBVIOUS
<1>1. LifeInv /\ bluetooth_open => ~client
  <2> SUFFICES ASSUME LifeInv, bluetooth_open PROVE ~client OBVIOUS
  <2>1. idle # << >> /\ Head(idle) = "open" BY DEF bluetooth_open
  <2> QED BY <2>1, OpenFinds
<1>2. LifeInv /\ [Next]_vars
        => [bluetooth_open => ~client]_vars
  BY <1>1
<1>3. Spec => []LifeInv BY LifeInvariance
<1> QED BY <1>2, <1>3, PTL DEF Spec, ClientNotLeaked
(* The types, whether or not the application waits.                         *)
LifeFlags ==
  /\ init \in BOOLEAN /\ rk_bt_init_thread \in BOOLEAN /\ main_loop_thread \in BOOLEAN
  /\ BT_OPENED \in BOOLEAN /\ cb \in BOOLEAN /\ daemon \in BOOLEAN
  /\ client \in BOOLEAN /\ agent_manager \in BOOLEAN /\ pending_message \in BOOLEAN

LifeRest ==
  /\ loop \in {"none", "start", "made", "run", "quit"} /\ (loop # "none" => main_loop_thread)
  /\ agent \in {"none", "asked", "registered"} /\ (pending_message => agent = "registered")
  /\ seen \in {"none", "ON", "OFF"}
  /\ app \in {"off", "registered", "starting", "stopping"}
  /\ calls \in 0 .. MaxInits

LifePlaces == ini \in [Inits -> InitPcs] /\ dei \in [Deinits -> DeinitPcs]
LifeQueue == idle \in Seq({"open", "close"})
LifeAll == LifeFlags /\ LifeRest /\ LifePlaces /\ LifeQueue

(* The application.                                                         *)
LEMMA AppTypes ==
  ASSUME MaxInits \in Nat, LifeAll, App
  PROVE  LifeAll'
<1> USE DEF LifeAll, flags, handles, pairing
<1>1. CASE rk_bt_register_state_callback
  <2> USE <1>1 DEF rk_bt_register_state_callback
  <2>1. LifeFlags' BY DEF LifeFlags
  <2>2. LifeRest' BY DEF LifeRest
  <2>3. LifePlaces' BY DEF LifePlaces
  <2>4. LifeQueue' BY DEF LifeQueue
  <2> QED BY <2>1, <2>2, <2>3, <2>4
<1>2. CASE rk_bt_init
  <2> USE <1>2 DEF rk_bt_init
  <2>1. LifeFlags' BY DEF LifeFlags
  <2>2. LifeRest'
    <3>1. app' = "starting" /\ UNCHANGED <<loop, main_loop_thread, agent, pending_message, seen>>
      OBVIOUS
    <3>2. calls \in 0 .. MaxInits /\ calls < MaxInits /\ calls' = calls + 1 BY DEF LifeRest
    <3> HIDE <1>2 DEF rk_bt_init
    <3>3. calls' \in 0 .. MaxInits BY <3>2
    <3> QED BY <3>1, <3>3 DEF LifeRest
  <2>3. LifePlaces' BY DEF LifePlaces, IniGoto, InitPcs
  <2>4. LifeQueue' BY DEF LifeQueue
  <2> QED BY <2>1, <2>2, <2>3, <2>4
<1>3. CASE rk_bt_deinit
  <2> USE <1>3 DEF rk_bt_deinit
  <2>1. LifeFlags' BY DEF LifeFlags
  <2>2. LifeRest' BY DEF LifeRest
  <2>3. LifePlaces' BY DEF LifePlaces, DeiGoto, DeinitPcs
  <2>4. LifeQueue' BY DEF LifeQueue
  <2> QED BY <2>1, <2>2, <2>3, <2>4
<1>4. CASE AppStopped
  <2> USE <1>4 DEF AppStopped
  <2>1. LifeFlags' BY DEF LifeFlags
  <2>2. LifeRest' BY DEF LifeRest
  <2>3. LifePlaces' BY DEF LifePlaces
  <2>4. LifeQueue' BY DEF LifeQueue
  <2> QED BY <2>1, <2>2, <2>3, <2>4
<1> QED BY <1>1, <1>2, <1>3, <1>4 DEF App

(* A thread of rk_bt_init.                                                  *)
LEMMA InitTypes ==
  ASSUME LifeAll, NEW i \in Inits, InitThread(i)
  PROVE  LifeAll'
<1> USE DEF LifeAll, flags, handles, pairing
<1>1. CASE InitCheck(i)
  <2> USE <1>1 DEF InitCheck
  <2>1. LifeFlags' BY DEF LifeFlags
  <2>2. LifeRest' BY DEF LifeRest
  <2>3. LifePlaces' BY DEF LifePlaces, IniGoto, InitPcs
  <2>4. LifeQueue' BY DEF LifeQueue
  <2> QED BY <2>1, <2>2, <2>3, <2>4
<1>2. CASE main_loop_init(i)
  <2> USE <1>2 DEF main_loop_init
  <2>1. LifeFlags' BY DEF LifeFlags
  <2>2. LifeRest' BY DEF LifeRest
  <2>3. LifePlaces' BY DEF LifePlaces, IniGoto, InitPcs
  <2>4. LifeQueue' BY DEF LifeQueue
  <2> QED BY <2>1, <2>2, <2>3, <2>4
<1>3. CASE InitVendor(i)
  <2> USE <1>3 DEF InitVendor
  <2>1. LifeFlags' BY DEF LifeFlags
  <2>2. LifeRest' BY DEF LifeRest
  <2>3. LifePlaces' BY DEF LifePlaces, IniGoto, InitPcs
  <2>4. LifeQueue' BY DEF LifeQueue
  <2> QED BY <2>1, <2>2, <2>3, <2>4
<1>4. CASE PostOpen(i)
  <2> USE <1>4 DEF PostOpen
  <2>1. LifeFlags' BY DEF LifeFlags
  <2>2. LifeRest' BY DEF LifeRest
  <2>3. LifePlaces' BY DEF LifePlaces, IniGoto, InitPcs
  <2>4. LifeQueue' BY DEF LifeQueue
  <2> QED BY <2>1, <2>2, <2>3, <2>4
<1>5. CASE ClearOpened(i)
  <2> USE <1>5 DEF ClearOpened
  <2>1. LifeFlags' BY DEF LifeFlags
  <2>2. LifeRest' BY DEF LifeRest
  <2>3. LifePlaces' BY DEF LifePlaces, IniGoto, InitPcs
  <2>4. LifeQueue' BY DEF LifeQueue
  <2> QED BY <2>1, <2>2, <2>3, <2>4
<1>6. CASE PollOpened(i)
  <2> USE <1>6 DEF PollOpened
  <2>1. LifeFlags' BY DEF LifeFlags
  <2>2. LifeRest' BY DEF LifeRest
  <2>3. LifePlaces' BY DEF LifePlaces, IniGoto, InitPcs
  <2>4. LifeQueue' BY DEF LifeQueue
  <2> QED BY <2>1, <2>2, <2>3, <2>4
<1>7. CASE InitDone(i)
  <2> USE <1>7 DEF InitDone
  <2>1. LifeFlags' BY DEF LifeFlags
  <2>2. LifeRest' BY DEF LifeRest
  <2>3. LifePlaces' BY DEF LifePlaces, IniGoto, InitPcs
  <2>4. LifeQueue' BY DEF LifeQueue
  <2> QED BY <2>1, <2>2, <2>3, <2>4
<1> QED BY <1>1, <1>2, <1>3, <1>4, <1>5, <1>6, <1>7 DEF InitThread

(* A thread of rk_bt_deinit: the loop is gone when its handle is cleared.   *)
LEMMA DeinitTypes ==
  ASSUME Vendor \in BOOLEAN, LifeAll, NEW d \in Deinits, DeinitThread(d)
  PROVE  LifeAll'
<1> USE DEF LifeAll, flags, handles, pairing
<1>1. CASE DeinitCheck(d)
  <2> USE <1>1 DEF DeinitCheck
  <2>1. LifeFlags' BY DEF LifeFlags
  <2>2. LifeRest' BY DEF LifeRest
  <2>3. LifePlaces' BY DEF LifePlaces, DeiGoto, DeinitPcs
  <2>4. LifeQueue' BY DEF LifeQueue
  <2> QED BY <2>1, <2>2, <2>3, <2>4
<1>2. CASE PostClose(d)
  <2> USE <1>2 DEF PostClose
  <2>1. LifeFlags' BY DEF LifeFlags
  <2>2. LifeRest' BY DEF LifeRest
  <2>3. LifePlaces' BY DEF LifePlaces, DeiGoto, DeinitPcs
  <2>4. LifeQueue' BY DEF LifeQueue
  <2> QED BY <2>1, <2>2, <2>3, <2>4
<1>3. CASE QuitLoop(d)
  <2> USE <1>3 DEF QuitLoop
  <2>1. LifeFlags' BY DEF LifeFlags
  <2>2. LifeRest' BY DEF LifeRest
  <2>3. LifePlaces' BY DEF LifePlaces, DeiGoto, DeinitPcs
  <2>4. LifeQueue' BY DEF LifeQueue
  <2> QED BY <2>1, <2>2, <2>3, <2>4
<1>4. CASE JoinLoop(d)
  <2> USE <1>4 DEF JoinLoop
  <2>1. LifeFlags' BY DEF LifeFlags
  <2>2. LifeRest' BY DEF LifeRest, LifeFlags
  <2>3. LifePlaces' BY DEF LifePlaces, DeiGoto, DeinitPcs
  <2>4. LifeQueue' BY DEF LifeQueue
  <2> QED BY <2>1, <2>2, <2>3, <2>4
<1>5. CASE DeinitVendor(d)
  <2> USE <1>5 DEF DeinitVendor
  <2>1. LifeFlags' BY DEF LifeFlags
  <2>2. LifeRest' BY DEF LifeRest
  <2>3. LifePlaces' BY DEF LifePlaces, DeiGoto, DeinitPcs
  <2>4. LifeQueue' BY DEF LifeQueue
  <2> QED BY <2>1, <2>2, <2>3, <2>4
<1>6. CASE DeinitClear(d)
  <2> USE <1>6 DEF DeinitClear
  <2>1. LifeFlags' BY DEF LifeFlags
  <2>2. LifeRest' BY DEF LifeRest, LifeFlags
  <2>3. LifePlaces' BY DEF LifePlaces, DeiGoto, DeinitPcs
  <2>4. LifeQueue' BY DEF LifeQueue
  <2> QED BY <2>1, <2>2, <2>3, <2>4
<1>7. CASE DeinitReport(d)
  <2> USE <1>7 DEF DeinitReport
  <2>1. LifeFlags' BY DEF LifeFlags
  <2>2. LifeRest' BY DEF LifeRest, Send
  <2>3. LifePlaces' BY DEF LifePlaces, DeiGoto, DeinitPcs
  <2>4. LifeQueue' BY DEF LifeQueue
  <2> QED BY <2>1, <2>2, <2>3, <2>4
<1>8. CASE bt_deregister_state_callback(d)
  <2> USE <1>8 DEF bt_deregister_state_callback
  <2>1. LifeFlags' BY DEF LifeFlags
  <2>2. LifeRest' BY DEF LifeRest
  <2>3. LifePlaces' BY DEF LifePlaces, DeiGoto, DeinitPcs
  <2>4. LifeQueue' BY DEF LifeQueue
  <2> QED BY <2>1, <2>2, <2>3, <2>4
<1> QED BY <1>1, <1>2, <1>3, <1>4, <1>5, <1>6, <1>7, <1>8 DEF DeinitThread

(* The main loop.                                                           *)
LEMMA LoopTypes ==
  ASSUME LifeAll, Loop
  PROVE  LifeAll'
<1> USE DEF LifeAll, flags, handles, pairing
<1>1. CASE LoopStart
  <2> USE <1>1 DEF LoopStart
  <2>1. LifeFlags' BY DEF LifeFlags
  <2>2. LifeRest' BY DEF LifeRest
  <2>3. LifePlaces' BY DEF LifePlaces
  <2>4. LifeQueue' BY DEF LifeQueue
  <2> QED BY <2>1, <2>2, <2>3, <2>4
<1>2. CASE LoopExit
  <2> USE <1>2 DEF LoopExit
  <2>1. LifeFlags' BY DEF LifeFlags
  <2>2. LifeRest' BY DEF LifeRest
  <2>3. LifePlaces' BY DEF LifePlaces
  <2>4. LifeQueue' BY DEF LifeQueue
  <2> QED BY <2>1, <2>2, <2>3, <2>4
<1>3. CASE bluetooth_open
  <2> USE <1>3 DEF bluetooth_open
  <2>1. LifeFlags' BY DEF LifeFlags
  <2>2. LifeRest' BY DEF LifeRest
  <2>3. LifePlaces' BY DEF LifePlaces
  <2>4. LifeQueue' BY DEF LifeQueue
  <2> QED BY <2>1, <2>2, <2>3, <2>4
<1>4. CASE bluetooth_close
  <2> USE <1>4 DEF bluetooth_close
  <2>1. LifeFlags' BY DEF LifeFlags, agent_unregister, agent_release
  <2>2. LifeRest' BY DEF LifeRest, agent_unregister, agent_release
  <2>3. LifePlaces' BY DEF LifePlaces
  <2>4. LifeQueue' BY DEF LifeQueue
  <2> QED BY <2>1, <2>2, <2>3, <2>4
<1>5. CASE agent_register
  <2> USE <1>5 DEF agent_register
  <2>1. LifeFlags' BY DEF LifeFlags
  <2>2. LifeRest' BY DEF LifeRest
  <2>3. LifePlaces' BY DEF LifePlaces
  <2>4. LifeQueue' BY DEF LifeQueue
  <2> QED BY <2>1, <2>2, <2>3, <2>4
<1>6. CASE register_agent_reply
  <2> USE <1>6 DEF register_agent_reply
  <2>1. LifeFlags' BY DEF LifeFlags
  <2>2. LifeRest' BY DEF LifeRest, Send
  <2>3. LifePlaces' BY DEF LifePlaces
  <2>4. LifeQueue' BY DEF LifeQueue
  <2> QED BY <2>1, <2>2, <2>3, <2>4
<1> QED BY <1>1, <1>2, <1>3, <1>4, <1>5, <1>6 DEF Loop

(* The calls of bluetoothd on the agent.                                    *)
LEMMA AgentTypes ==
  ASSUME LifeAll, Agent
  PROVE  LifeAll'
<1> USE DEF LifeAll, flags, handles
<1> USE DEF Agent, request_pincode, cancel_request, release_agent,
            AgentCalled, agent_release
<1>1. LifeFlags' BY DEF LifeFlags
<1>2. LifeRest' BY DEF LifeRest
<1>3. LifePlaces' BY DEF LifePlaces
<1>4. LifeQueue' BY DEF LifeQueue
<1> QED BY <1>1, <1>2, <1>3, <1>4

(* Whatever the application waits for, the threads of rk_bt_init and        *)
(* rk_bt_deinit and the loop stay in their ranges: no loop thread outlives  *)
(* its handle, and no request the registration of the agent that holds it.  *)
THEOREM LifecycleTypes == Spec => []TypeOK
<1> USE LifecycleAssumption DEF LifecycleAssumption
<1>1. Init => LifeAll
  <2> SUFFICES ASSUME Init PROVE LifeAll OBVIOUS
  <2>1. LifeFlags BY DEF Init, LifeFlags
  <2>2. LifeRest
    <3>1. loop = "none" /\ agent = "none" /\ pending_message = FALSE /\ seen = "none"
          /\ app = "off" /\ calls = 0
      BY DEF Init
    <3>2. 0 \in 0 .. MaxInits OBVIOUS
    <3> QED BY <3>1, <3>2 DEF LifeRest
  <2>3. LifePlaces BY DEF Init, LifePlaces, InitPcs, DeinitPcs
  <2>4. LifeQueue BY DEF Init, LifeQueue
  <2> QED BY <2>1, <2>2, <2>3, <2>4 DEF LifeAll
<1>2. LifeAll /\ [Next]_vars => LifeAll'
  <2> SUFFICES ASSUME LifeAll, [Next]_vars PROVE LifeAll' OBVIOUS
  <2>1. CASE UNCHANGED vars
    <3>1. LifeFlags' BY <2>1 DEF vars, LifeAll, LifeFlags
    <3>2. LifeRest' BY <2>1 DEF vars, LifeAll, LifeRest
    <3>3. LifePlaces' BY <2>1 DEF vars, LifeAll, LifePlaces
    <3>4. LifeQueue' BY <2>1 DEF vars, LifeAll, LifeQueue
    <3> QED BY <3>1, <3>2, <3>3, <3>4 DEF LifeAll
  <2> QED BY <2>1, AppTypes, InitTypes, DeinitTypes, LoopTypes, AgentTypes
    DEF Next
<1>3. LifeAll => TypeOK
  BY DEF LifeAll, LifeFlags, LifeRest, LifePlaces, LifeQueue, TypeOK
<1> QED BY <1>1, <1>2, <1>3, PTL DEF Spec
-----------------------------------------------------------------------------
(* The safety half of CloseEnds and of DeinitEnds: what each of the two     *)
(* joins waits for only moves towards its end.                              *)

(* How far spp_server_thread is from its end once the flag is down.         *)
ServerRank(p) ==
  CASE p = "exit" -> 0 [] p = "out" -> 1 [] p = "while" -> 2 [] p = "read" -> 3
    [] p = "connected" -> 4 [] p = "accept" -> 5 [] p = "select" -> 6 [] OTHER -> 7

(* While bt_spp_server_close is under way the server thread does not go     *)
(* round its loop again, whatever the clients do to its descriptor: it      *)
(* takes one more peer at the most, and six steps in all.                   *)
CloseMovesOn ==
  [][call # "idle" /\ call' # "idle" /\ srv' # srv
       => ServerRank(srv') < ServerRank(srv)]_sppvars

(* One step of it.                                                          *)
LEMMA ServerMovesOn ==
  ASSUME IInv, Server, call # "idle"
  PROVE  ServerRank(srv') < ServerRank(srv)
<1>1. ~server_running /\ Past BY DEF IInv, Lowered
<1> USE DEF ServerRank
<1>2. CASE SrvSocket \/ SrvListen \/ SrvMark
  BY <1>1, <1>2 DEF SrvSocket, SrvListen, SrvMark, Past
<1>3. CASE SrvWhile BY <1>1, <1>3 DEF SrvWhile
<1>4. CASE SrvSelect BY <1>4 DEF SrvSelect
<1>5. CASE SrvAccept BY <1>5 DEF SrvAccept
<1>6. CASE SrvConnected BY <1>6 DEF SrvConnected
<1>7. CASE SrvRead BY <1>7 DEF SrvRead
<1>8. CASE SrvOut BY <1>8 DEF SrvOut
<1> QED BY <1>2, <1>3, <1>4, <1>5, <1>6, <1>7, <1>8 DEF Server

(* A close of the serial port waits for a server thread that comes nearer   *)
(* to its end with every step it takes.                                     *)
THEOREM CloseMovesOnHolds == SppSpec => CloseMovesOn
<1>1. ASSUME IInv, SppNext, call # "idle", call' # "idle", srv' # srv
      PROVE  ServerRank(srv') < ServerRank(srv)
  <2>1. CASE Server BY <1>1, <2>1, ServerMovesOn
  <2>2. CASE Hangup BY <1>1, <2>2 DEF Hangup
  <2>3. CASE rk_bt_spp
    BY <1>1, <2>3 DEF rk_bt_spp, Close, bt_spp_server_open, bt_spp_register_status_callback,
       bt_spp_client_open, CloseStop, CloseClient, CloseServer, CloseJoin
  <2>4. ASSUME NEW c \in Clients, Client(c) PROVE FALSE
    BY <1>1, <2>4 DEF Client, CliSocket, CliBind, CliConnect, CliPoll, CliOut
  <2> QED BY <1>1, <2>1, <2>2, <2>3, <2>4 DEF SppNext
<1>2. IInv /\ [SppNext]_sppvars
        => [call # "idle" /\ call' # "idle" /\ srv' # srv
              => ServerRank(srv') < ServerRank(srv)]_sppvars
  BY <1>1
<1> QED BY <1>2, Invariance, PTL DEF SppSpec, CloseMovesOn

(* The loop that _rk_bt_deinit joins has been told to quit, or has ended:   *)
(* g_main_loop_quit, which does nothing to a loop that does not run yet,    *)
(* was not called too early.                                                *)
JoinsQuittingLoop == \A d \in Deinits : dei[d] = "join" => loop \in {"quit", "none"}

(* An INIT_ON comes from a loop that runs.                                  *)
JoinInv == JoinsQuittingLoop /\ (seen = "ON" => loop \notin {"start", "made"})

(* Every step keeps JoinInv.                                                *)
LEMMA JoinStep ==
  ASSUME LifeInv, LifeRest, JoinInv, Next
  PROVE  JoinInv'
<1>0. /\ \A d \in Deinits : dei[d] \in {"quit", "join"} => app = "stopping" /\ seen = "ON"
      /\ \A i \in Inits : ini[i] = "loop" => app = "starting" /\ seen # "ON"
  BY DEF LifeInv, OneThread, Working, Beginning
<1>1. dei \in [Deinits -> DeinitPcs] BY DEF LifeInv, LifeTypes
<1>2. CASE App
  <2>1. /\ UNCHANGED <<loop, seen>>
        /\ UNCHANGED dei \/ \E d \in Deinits : dei' = [dei EXCEPT ![d] = "forget"]
    BY <1>2 DEF App, rk_bt_register_state_callback, rk_bt_init, rk_bt_deinit, AppStopped,
       DeiGoto, flags
  <2> QED BY <1>1, <2>1 DEF JoinInv, JoinsQuittingLoop
<1>3. ASSUME NEW i \in Inits, InitThread(i) PROVE JoinInv'
  <2>1. CASE main_loop_init(i)
    <3>1. ini[i] = "loop" /\ UNCHANGED <<dei, seen>> BY <2>1 DEF main_loop_init, flags
    <3> QED BY <1>0, <3>1 DEF JoinInv, JoinsQuittingLoop
  <2>2. CASE ~main_loop_init(i)
    <3>1. UNCHANGED <<dei, loop, seen>>
      BY <1>3, <2>2 DEF InitThread, InitCheck, InitVendor, PostOpen, ClearOpened, PollOpened,
         InitDone, flags
    <3> QED BY <3>1 DEF JoinInv, JoinsQuittingLoop
  <2> QED BY <2>1, <2>2
<1>4. ASSUME NEW d \in Deinits, DeinitThread(d) PROVE JoinInv'
  <2>1. CASE QuitLoop(d)
    <3>1. /\ dei[d] = "quit" /\ loop' = (IF loop = "run" THEN "quit" ELSE loop)
          /\ UNCHANGED seen
      BY <2>1 DEF QuitLoop, flags
    <3>2. loop \in {"none", "run", "quit"} BY <1>0, <3>1 DEF JoinInv, LifeRest
    <3> QED BY <3>1, <3>2 DEF JoinInv, JoinsQuittingLoop
  <2>2. CASE ~QuitLoop(d)
    <3>1. /\ UNCHANGED loop /\ seen' \in {seen, "OFF"}
          /\ \E l \in DeinitPcs \ {"join"} : dei' = [dei EXCEPT ![d] = l]
      BY <1>4, <2>2 DEF DeinitThread, DeinitCheck, PostClose, JoinLoop, DeinitVendor,
         DeinitClear, DeinitReport, bt_deregister_state_callback, DeiGoto, DeinitPcs, Send,
         flags
    <3> QED BY <1>1, <3>1 DEF JoinInv, JoinsQuittingLoop
  <2> QED BY <2>1, <2>2
<1>5. CASE Loop \/ Agent
  <2>1. UNCHANGED dei
    BY <1>5 DEF Loop, Agent, LoopStart, LoopExit, bluetooth_open, bluetooth_close,
       agent_register, register_agent_reply, request_pincode, cancel_request, release_agent,
       AgentCalled
  <2>2. CASE LoopStart
    <3>1. loop \in {"start", "made"} /\ UNCHANGED seen BY <2>2 DEF LoopStart, flags
    <3> QED BY <1>0, <2>1, <3>1 DEF JoinInv, JoinsQuittingLoop
  <2>3. CASE LoopExit
    BY <2>1, <2>3 DEF LoopExit, JoinInv, JoinsQuittingLoop
  <2>4. CASE ~LoopStart /\ ~LoopExit
    <3>1. UNCHANGED loop /\ (seen' = seen \/ loop \in {"run", "quit"})
      BY <1>5, <2>4 DEF Loop, Agent, bluetooth_open, bluetooth_close, agent_register,
         register_agent_reply, request_pincode, cancel_request, release_agent, AgentCalled,
         Dispatching, flags
    <3> QED BY <2>1, <3>1 DEF JoinInv, JoinsQuittingLoop
  <2> QED BY <2>2, <2>3, <2>4
<1> QED BY <1>2, <1>3, <1>4, <1>5 DEF Next

(* When the application waits for INIT_ON and INIT_OFF, rk_bt_deinit never  *)
(* joins a main loop that nobody told to quit.                              *)
THEOREM JoinsQuittingLoopHolds == Polite => (Spec => []JoinsQuittingLoop)
<1> SUFFICES ASSUME Polite PROVE Spec => []JoinsQuittingLoop OBVIOUS
<1>1. Init => JoinInv BY DEF Init, JoinInv, JoinsQuittingLoop
<1>2. LifeInv /\ LifeRest /\ JoinInv /\ [Next]_vars => JoinInv'
  <2> SUFFICES ASSUME LifeInv, LifeRest, JoinInv, [Next]_vars PROVE JoinInv' OBVIOUS
  <2>1. CASE UNCHANGED vars BY <2>1 DEF vars, JoinInv, JoinsQuittingLoop
  <2> QED BY <2>1, JoinStep
<1>3. TypeOK => LifeRest BY DEF TypeOK, LifeRest
<1>4. JoinInv => JoinsQuittingLoop BY DEF JoinInv
<1>5. Spec => []LifeInv BY LifeInvariance
<1> QED BY <1>1, <1>2, <1>3, <1>4, <1>5, LifecycleTypes, PTL DEF Spec
=============================================================================
