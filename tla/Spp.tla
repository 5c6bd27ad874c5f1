--------------------------------- MODULE Spp ---------------------------------
(***************************************************************************)
(* The serial port profile of bluez/spp_server/spp_server.c: a server      *)
(* thread that accepts one peer at a time, client threads that connect to  *)
(* a peer, and the calls of the application.  All of them share            *)
(* g_spp_handler: one server_fd, one client_fd, the thread handles, the    *)
(* server_running flag, the reported state and the callbacks.              *)
(***************************************************************************)
EXTENDS Naturals

CONSTANTS
  Clients,   \* spp_client_thread threads, a bound on the live ones
  Sockets,   \* the limit on descriptors, which are never closed
  SppFaults     \* "socket", "bind", "connect": that call may fail

ASSUME SppAssumption ==
  /\ Sockets \in Nat
  /\ SppFaults \subseteq {"socket", "bind", "connect"}

VARIABLES
  client_fd, server_fd,  \* a socket, or 0 for -1
  tid, cid,              \* is the handle set
  server_running, server_state,
  state_cb,              \* is a status callback registered
  srv,                   \* where spp_server_thread is
  cli,                   \* cli[c]: where client thread c is
  polled,                \* polled[c]: the descriptor c passed to poll
  call,                  \* where the application is in bt_spp_server_close
  sock,                  \* sock[k]: unused, made, listening, up or down;
                         \* sock[0] is always down
  reported               \* the last status the callback was given

handler == <<client_fd, server_fd, tid, cid, server_running, server_state, state_cb>>
sppvars == <<handler, srv, cli, polled, call, sock, reported>>

Fds == 0 .. Sockets
Unused == {k \in Fds : sock[k] = "unused"}
Exhausted == Unused = {}
NextFds == {k \in Unused : \A j \in Unused : k <= j}

spp_state_send(s) == reported' = IF state_cb THEN s ELSE reported

\* shutdown of the descriptors in F; the sockets stay allocated.
Shut(F) == sock' = [k \in Fds |-> IF k \in F THEN "down" ELSE sock[k]]

-----------------------------------------------------------------------------
(* spp_server_thread.                                                      *)

SrvSocket ==
  /\ srv = "socket"
  /\ \/ \E k \in NextFds : /\ server_fd' = k
                           /\ sock' = [sock EXCEPT ![k] = "made"]
                           /\ srv' = "bind"
     \/ /\ "socket" \in SppFaults \/ Exhausted
        /\ server_fd' = 0 /\ srv' = "out" /\ UNCHANGED sock
  /\ UNCHANGED <<client_fd, tid, cid, server_running, server_state, state_cb,
                 cli, polled, call, reported>>

\* setsockopt, bind and listen.
SrvListen ==
  /\ srv = "bind"
  /\ \/ /\ sock[server_fd] = "made"
        /\ sock' = [sock EXCEPT ![server_fd] = "listening"]
        /\ srv' = "mark"
     \/ /\ "bind" \in SppFaults \/ server_fd = 0
        /\ srv' = "out" /\ UNCHANGED sock
  /\ UNCHANGED <<handler, cli, polled, call, reported>>

SrvMark ==
  /\ srv = "mark"
  /\ server_running' = TRUE
  /\ srv' = "while"
  /\ UNCHANGED <<client_fd, server_fd, tid, cid, server_state, state_cb,
                 cli, polled, call, sock, reported>>

SrvWhile ==
  /\ srv = "while"
  /\ srv' = IF server_running THEN "select" ELSE "out"
  /\ UNCHANGED <<handler, cli, polled, call, sock, reported>>

\* A peer is waiting, or the socket was shut down; otherwise select times out
\* after 100 ms.  Descriptor -1 in FD_SET is undefined: any of the outcomes.
SrvSelect ==
  /\ srv = "select"
  /\ \/ sock[server_fd] = "listening" /\ srv' \in {"while", "accept"}
     \/ server_fd # 0 /\ sock[server_fd] # "listening" /\ srv' = "accept"
     \/ server_fd = 0 /\ srv' \in {"while", "accept", "out"}
  /\ UNCHANGED <<handler, cli, polled, call, sock, reported>>

SrvAccept ==
  /\ srv = "accept"
  /\ \/ /\ sock[server_fd] = "listening"
        /\ \E k \in NextFds : /\ client_fd' = k
                              /\ sock' = [sock EXCEPT ![k] = "up"]
        /\ srv' = "connected"
     \/ /\ sock[server_fd] # "listening" \/ Exhausted
        /\ client_fd' = 0 /\ srv' = "out" /\ UNCHANGED sock
  /\ UNCHANGED <<server_fd, tid, cid, server_running, server_state, state_cb,
                 cli, polled, call, reported>>

SrvConnected ==
  /\ srv = "connected"
  /\ server_state' = "CONNECT" /\ spp_state_send("CONNECT")
  /\ srv' = "read"
  /\ UNCHANGED <<client_fd, server_fd, tid, cid, server_running, state_cb,
                 cli, polled, call, sock>>

\* Mutant: a read that fails is tried again.
SrvReadRetries ==
  /\ srv = "read"
  /\ sock[client_fd] # "up"
  /\ UNCHANGED sppvars

\* read blocks, or hands data to recv_cb, while the connection is up.
SrvRead ==
  /\ srv = "read"
  /\ sock[client_fd] # "up"
  /\ client_fd' = 0 /\ Shut({client_fd})
  /\ server_state' = "DISCONNECT" /\ spp_state_send("DISCONNECT")
  /\ srv' = "while"
  /\ UNCHANGED <<server_fd, tid, cid, server_running, state_cb, cli, polled, call>>

SrvOut ==
  /\ srv = "out"
  /\ client_fd' = 0 /\ server_fd' = 0 /\ Shut({client_fd, server_fd})
  /\ server_state' = "IDLE"
  /\ srv' = "exit"
  /\ UNCHANGED <<tid, cid, server_running, state_cb, cli, polled, call, reported>>

Server ==
  \/ SrvSocket \/ SrvListen \/ SrvMark \/ SrvWhile \/ SrvSelect \/ SrvAccept
  \/ SrvConnected \/ SrvRead \/ SrvOut

-----------------------------------------------------------------------------
(* spp_client_thread.                                                      *)

CliGoto(c, l) == cli' = [cli EXCEPT ![c] = l]

CliSocket(c) ==
  /\ cli[c] = "socket"
  /\ \/ \E k \in NextFds : /\ client_fd' = k
                           /\ sock' = [sock EXCEPT ![k] = "made"]
                           /\ CliGoto(c, "bind")
     \/ /\ "socket" \in SppFaults \/ Exhausted
        /\ client_fd' = 0 /\ CliGoto(c, "out") /\ UNCHANGED sock
  /\ UNCHANGED <<server_fd, tid, cid, server_running, server_state, state_cb,
                 srv, polled, call, reported>>

\* A failed bind returns at once and leaves cid set.
CliBind(c) ==
  /\ cli[c] = "bind"
  /\ \/ client_fd # 0 /\ CliGoto(c, "connect")
     \/ ("bind" \in SppFaults \/ client_fd = 0) /\ CliGoto(c, "none")
  /\ UNCHANGED <<handler, srv, polled, call, sock, reported>>

\* connect; on success cid is cleared while the thread goes on.
CliConnect(c) ==
  /\ cli[c] = "connect"
  /\ \/ /\ sock[client_fd] = "made"
        /\ sock' = [sock EXCEPT ![client_fd] = "up"]
        /\ server_state' = "CONNECT" /\ spp_state_send("CONNECT")
        /\ cid' = FALSE
        /\ polled' = [polled EXCEPT ![c] = client_fd]
        /\ CliGoto(c, "poll")
     \/ /\ "connect" \in SppFaults \/ sock[client_fd] # "made"
        /\ spp_state_send("CONNECT_FAILED")
        /\ CliGoto(c, "out")
        /\ UNCHANGED <<server_state, cid, polled, sock>>
  /\ UNCHANGED <<client_fd, server_fd, tid, server_running, state_cb, srv, call>>

CliPoll(c) ==
  /\ cli[c] = "poll"
  /\ client_fd = 0 \/ sock[polled[c]] # "up"
  /\ spp_state_send("DISCONNECT")
  /\ CliGoto(c, "out")
  /\ UNCHANGED <<handler, srv, polled, call, sock>>

\* The server's descriptor is shut down as well.
CliOut(c) ==
  /\ cli[c] = "out"
  /\ client_fd' = 0 /\ server_fd' = 0 /\ Shut({client_fd, server_fd})
  /\ server_state' = "IDLE" /\ cid' = FALSE
  /\ polled' = [polled EXCEPT ![c] = 0]
  /\ CliGoto(c, "none")
  /\ UNCHANGED <<tid, server_running, state_cb, srv, call, reported>>

Client(c) ==
  CliSocket(c) \/ CliBind(c) \/ CliConnect(c) \/ CliPoll(c) \/ CliOut(c)

-----------------------------------------------------------------------------
(* The calls of the application.                                           *)

bt_spp_server_open ==
  /\ call = "idle" /\ ~tid
  /\ tid' = TRUE /\ srv' = "socket"
  /\ UNCHANGED <<client_fd, server_fd, cid, server_running, server_state, state_cb,
                 cli, polled, call, sock, reported>>

bt_spp_register_status_callback ==
  /\ call = "idle" /\ ~state_cb
  /\ state_cb' = TRUE
  /\ UNCHANGED <<client_fd, server_fd, tid, cid, server_running, server_state,
                 srv, cli, polled, call, sock, reported>>

bt_spp_client_open ==
  /\ call = "idle" /\ ~cid
  /\ cid' = TRUE
  /\ \E c \in Clients : cli[c] = "none" /\ CliGoto(c, "socket")
  /\ UNCHANGED <<client_fd, server_fd, tid, server_running, server_state, state_cb,
                 srv, polled, call, sock, reported>>

\* Mutant: a server that does not run yet is closed as well.
CloseUnguarded ==
  /\ call = "idle"
  /\ server_running' = FALSE
  /\ call' = "client"
  /\ UNCHANGED <<client_fd, server_fd, tid, cid, server_state, state_cb,
                 srv, cli, polled, sock, reported>>

\* bt_spp_server_close does nothing unless the server runs.
CloseStop ==
  /\ call = "idle" /\ server_running
  /\ server_running' = FALSE
  /\ call' = "client"
  /\ UNCHANGED <<client_fd, server_fd, tid, cid, server_state, state_cb,
                 srv, cli, polled, sock, reported>>

CloseClient ==
  /\ call = "client"
  /\ client_fd' = 0 /\ Shut({client_fd})
  /\ call' = "server"
  /\ UNCHANGED <<server_fd, tid, cid, server_running, server_state, state_cb,
                 srv, cli, polled, reported>>

\* After 100 ms.
CloseServer ==
  /\ call = "server"
  /\ server_fd' = 0 /\ Shut({server_fd})
  /\ call' = "join"
  /\ UNCHANGED <<client_fd, tid, cid, server_running, server_state, state_cb,
                 srv, cli, polled, reported>>

\* Mutant: the handle of the joined thread is kept.
CloseKeepsTid ==
  /\ call = "join"
  /\ tid => srv = "exit"
  /\ srv' = "none"
  /\ state_cb' = FALSE /\ server_state' = "IDLE"
  /\ call' = "idle"
  /\ UNCHANGED <<client_fd, server_fd, tid, cid, server_running, cli, polled, sock,
                 reported>>

CloseJoin ==
  /\ call = "join"
  /\ tid => srv = "exit"
  /\ tid' = FALSE /\ srv' = "none"
  /\ state_cb' = FALSE /\ server_state' = "IDLE"
  /\ call' = "idle"
  /\ UNCHANGED <<client_fd, server_fd, cid, server_running, cli, polled, sock, reported>>

Close == CloseStop \/ CloseClient \/ CloseServer \/ CloseJoin

\* rk_bt_spp_open, _register_status_cb, _connect and _close pass the call on;
\* those that find Bluetooth closed only log it.
rk_bt_spp ==
  bt_spp_server_open \/ bt_spp_register_status_callback \/ bt_spp_client_open \/ Close

\* The peer of a connection goes away.
Hangup ==
  /\ \E k \in Fds : sock[k] = "up" /\ sock' = [sock EXCEPT ![k] = "down"]
  /\ UNCHANGED <<handler, srv, cli, polled, call, reported>>

-----------------------------------------------------------------------------
SppInit ==
  /\ client_fd = 0 /\ server_fd = 0
  /\ tid = FALSE /\ cid = FALSE
  /\ server_running = FALSE /\ server_state = "IDLE" /\ state_cb = FALSE
  /\ srv = "none" /\ cli = [c \in Clients |-> "none"]
  /\ polled = [c \in Clients |-> 0]
  /\ call = "idle"
  /\ sock = [k \in Fds |-> IF k = 0 THEN "down" ELSE "unused"]
  /\ reported = "none"

SppNext ==
  \/ Server \/ Hangup \/ rk_bt_spp
  \/ \E c \in Clients : Client(c)

SppSpec == SppInit /\ [][SppNext]_sppvars

\* Threads that exist run; a close that has begun goes on.  Peers do as they like.
SppFairSpec ==
  /\ SppSpec
  /\ WF_sppvars(Server)
  /\ \A c \in Clients : WF_sppvars(Client(c))
  /\ WF_sppvars(CloseClient \/ CloseServer \/ CloseJoin)

-----------------------------------------------------------------------------
States == {"IDLE", "CONNECT", "CONNECT_FAILED", "DISCONNECT"}

\* Types of g_spp_handler and of the threads; tid is set while there is a
\* server thread to join.
SppTypeOK ==
  /\ client_fd \in Fds /\ server_fd \in Fds
  /\ {tid, cid, server_running, state_cb} \subseteq BOOLEAN
  /\ server_state \in States
  /\ srv \in {"none", "socket", "bind", "mark", "while", "select", "accept",
              "connected", "read", "out", "exit"}
  /\ tid <=> srv # "none"
  /\ cli \in [Clients -> {"none", "socket", "bind", "connect", "poll", "out"}]
  /\ polled \in [Clients -> Fds]
  /\ call \in {"idle", "client", "server", "join"}
  /\ sock \in [Fds -> {"unused", "made", "listening", "up", "down"}]
  /\ reported \in States \cup {"none"}

\* bt_spp_server_close ends, unless a peer got in after it shut client_fd
\* down: then it waits for that peer.
CloseEnds == (call # "idle") ~> (call = "idle" \/ (srv = "read" /\ sock[client_fd] = "up"))

\* A server that bt_spp_server_close has joined leaves nothing behind: no
\* listening descriptor, the loop flag down, and, once the clients are gone,
\* the state IDLE.
ClosedIsClean ==
  ~tid => /\ server_fd = 0 /\ ~server_running
          /\ (\A c \in Clients : cli[c] = "none") => server_state = "IDLE"

=============================================================================
