----------------------------- MODULE AdbStream -----------------------------
(***************************************************************************)
(* Streams multiplexed over one transport: an adb server ("host") and an   *)
(* adbd ("device"), each a single-threaded fdevent loop running the        *)
(* callbacks of LocalSocket and handle_packet of adb.cpp, joined by two    *)
(* FIFO packet pipes.  Every local socket has a far end behind its fd: the *)
(* client of the server, or the service in adbd.                           *)
(*                                                                         *)
(* A process either polls (fdevent_process collects the events of all its  *)
(* fds at once), or dispatches one pending event, or, when none is         *)
(* pending, runs one function of the run queue (a received packet, or the  *)
(* handler of a transport error).  wire[p] is everything sent to p that p  *)
(* has not handled: the sender's write queue, the connection, and p's run  *)
(* queue.                                                                  *)
(***************************************************************************)
EXTENDS LocalSocket, FiniteSets

CONSTANTS
  MaxId,        \* bound on local_socket_next_id
  MaxSend,      \* bound on the units each far end writes
  Initiators,   \* the processes where clients connect (host: adb forward and
                \* the smart socket; device: adb reverse)
  MaxDrops,     \* bound on transport errors
  MaxRestarts,  \* bound on restarts of the two processes
  HalfClose     \* whether far ends shut down one direction only

Procs == {"host", "device"}
Ids   == 1 .. MaxId

ASSUME StreamAssumption ==
  /\ MaxId \in Nat \ {0}
  /\ MaxSend \in [Procs -> Nat]
  /\ Initiators \subseteq Procs
  /\ MaxDrops \in Nat
  /\ MaxRestarts \in Nat
  /\ HalfClose \in BOOLEAN

VARIABLES
  sock,    \* sock[p][i]: the local socket with id i
  fd,      \* fd[p][i]: its file descriptor
  nextId,  \* local_socket_next_id
  online,  \* atransport::online (and a connection_state_ that is online)
  wire,    \* wire[p]: packets sent to p
  link,    \* the connection under the transport works
  drops,   \* transport errors so far
  life     \* life[p]: restarts of process p so far

vars == <<sock, fd, nextId, online, wire, link, drops, life>>

Other(p) == IF p = "host" THEN "device" ELSE "host"

(* The far end behind socket i of process p.                               *)
Source(p, i) == <<p, life[p], i>>

Init ==
  /\ sock = [p \in Procs |-> [i \in Ids |-> NoSocket]]
  /\ fd = [p \in Procs |-> [i \in Ids |-> NoFd]]
  /\ nextId = [p \in Procs |-> 1]
  /\ online = [p \in Procs |-> TRUE]
  /\ wire = [p \in Procs |-> <<>>]
  /\ link = TRUE
  /\ drops = 0
  /\ life = [p \in Procs |-> 0]

----------------------------------------------------------------------------
(* send_packet: what is sent over a dead connection never arrives.         *)
Sent(p, pkts) ==
  IF link THEN wire[Other(p)] \o pkts ELSE wire[Other(p)]

send_packet(p, pkts) == wire' = [wire EXCEPT ![Other(p)] = Sent(p, pkts)]

(* The same in a step of p that also takes p's first packet.               *)
ReplyPacket(p, pkts) ==
  wire' = [wire EXCEPT ![p] = Tail(@), ![Other(p)] = Sent(p, pkts)]

send_ready(l, r) == <<OKAY(l, r)>>

\* Mutant: a CLOSE without a local id is not sent.
send_close_NeedsId(l, r) == IF l = 0 THEN <<>> ELSE <<CLSE(l, r)>>

send_close(l, r) == <<CLSE(l, r)>>

(* No handler is pending: p polls, or runs its run queue.                  *)
Idle(p) == \A i \in Ids : sock[p][i].events = {}

(* Socket i of p and its fd become those of context c.                     *)
SetSocket(p, i, c) ==
  /\ sock' = [sock EXCEPT ![p][i] = c.s]
  /\ fd' = [fd EXCEPT ![p][i] = c.f]

(* install_local_socket: a fresh id for a new socket s over a new fd.      *)
InstallSocket(p, s) ==
  /\ nextId[p] \in Ids
  /\ SetSocket(p, nextId[p], Context(s, NewFd))
  /\ nextId' = [nextId EXCEPT ![p] = @ + 1]

----------------------------------------------------------------------------
(* A client's connection is bound to the transport and OPEN is sent: by    *)
(* the smart socket, which arms the status callbacks, or by a forwarding   *)
(* listener.                                                               *)
Connect(p) ==
  /\ p \in Initiators /\ online[p]
  /\ \E n \in BOOLEAN :
       InstallSocket(p, [create_local_socket(nextId[p]) EXCEPT !.notify = n])
  /\ send_packet(p, <<OPEN(nextId[p])>>)
  /\ UNCHANGED <<online, link, drops, life>>

(* fdevent_process.                                                        *)
Poll(p) ==
  /\ Idle(p)
  /\ \E i \in Ids : sock[p][i].st # "none" /\ Revents(sock[p][i], fd[p][i]) # {}
  /\ sock' = [sock EXCEPT ![p] =
       [i \in Ids |-> IF sock[p][i].st = "none" THEN sock[p][i]
                      ELSE [sock[p][i] EXCEPT
                              !.events = Revents(sock[p][i], fd[p][i])]]]
  /\ UNCHANGED <<fd, nextId, online, wire, link, drops, life>>

(* fdevent_call_fdfunc on a pending socket.                                *)
Dispatch(p, i) ==
  /\ sock[p][i].events # {}
  /\ LET ev == sock[p][i].events
         c  == local_socket_event_func(
                 Context([sock[p][i] EXCEPT !.events = {}], fd[p][i]),
                 ev, Source(p, i))
     IN  SetSocket(p, i, c) /\ send_packet(p, c.out)
  /\ UNCHANGED <<nextId, online, link, drops, life>>

----------------------------------------------------------------------------
(* find_local_socket(i, r): on local_socket_list, and connected to r if r  *)
(* is not 0.                                                               *)
Found(p, i, r) ==
  /\ i \in Ids
  /\ sock[p][i].st = "open"
  /\ r # 0 => sock[p][i].peer = r

(* handle_packet is called with p's first packet, whose command is cmd.    *)
Receives(p, cmd) ==
  /\ Idle(p)
  /\ wire[p] # <<>>
  /\ Head(wire[p]).cmd = cmd

(* The packet is dropped without an effect.                                *)
Ignore(p) == ReplyPacket(p, <<>>) /\ UNCHANGED <<sock, fd, nextId, online>>

(* create_local_service_socket may fail; on success the new socket is      *)
(* bound to a remote socket and READY goes back.                           *)
HandleOPEN(p) ==
  /\ Receives(p, "OPEN")
  /\ LET m == Head(wire[p])
         s == [create_local_socket(nextId[p]) EXCEPT !.peer = m.arg0]
     IN  \/ /\ online[p]
            /\ InstallSocket(p, fdevent_add(s, "R"))
            /\ ReplyPacket(p, send_ready(nextId[p], m.arg0))
            /\ UNCHANGED online
         \/ /\ online[p]
            /\ ReplyPacket(p, send_close(0, m.arg0))
            /\ UNCHANGED <<sock, fd, nextId, online>>
         \/ ~online[p] /\ Ignore(p)
  /\ UNCHANGED <<link, drops, life>>

(* The first READY connects the socket, later ones must come from the same *)
(* remote; a READY for a socket that is gone is answered with CLOSE.       *)
HandleOKAY(p) ==
  /\ Receives(p, "OKAY")
  /\ LET m == Head(wire[p])
         i == m.arg1
     IN  \/ /\ online[p] /\ Found(p, i, 0)
            /\ sock[p][i].peer \in {0, m.arg0}
            /\ SetSocket(p, i, Ready(Context([sock[p][i] EXCEPT !.peer = m.arg0],
                                             fd[p][i])))
            /\ ReplyPacket(p, <<>>)
            /\ UNCHANGED <<nextId, online>>
         \/ /\ online[p] /\ ~Found(p, i, 0)
            /\ ReplyPacket(p, send_close(i, m.arg0))
            /\ UNCHANGED <<sock, fd, nextId, online>>
         \/ /\ \/ ~online[p]
               \/ Found(p, i, 0) /\ sock[p][i].peer \notin {0, m.arg0}
            /\ Ignore(p)
  /\ UNCHANGED <<link, drops, life>>

(* CLOSE(0, i) refuses an OPEN; with one transport the check that the peer *)
(* belongs to it always succeeds.                                          *)
HandleCLSE(p) ==
  /\ Receives(p, "CLSE")
  /\ LET m == Head(wire[p])
         i == m.arg1
         c == Close(Context(sock[p][i], fd[p][i]))
     IN  \/ /\ online[p] /\ Found(p, i, m.arg0)
            /\ SetSocket(p, i, c)
            /\ ReplyPacket(p, c.out)
            /\ UNCHANGED <<nextId, online>>
         \/ ~(online[p] /\ Found(p, i, m.arg0)) /\ Ignore(p)
  /\ UNCHANGED <<link, drops, life>>

(* Data the socket took at once is acknowledged here; if it could only be  *)
(* queued, the acknowledgement is sent when the queue has drained.         *)
HandleWRTE(p) ==
  /\ Receives(p, "WRTE")
  /\ LET m == Head(wire[p])
         i == m.arg1
         c == local_socket_enqueue(Context(sock[p][i], fd[p][i]), m.data)
         a == IF c.res = "Completed" THEN send_ready(i, m.arg0) ELSE <<>>
     IN  \/ /\ online[p] /\ Found(p, i, m.arg0)
            /\ SetSocket(p, i, c)
            /\ ReplyPacket(p, c.out \o a)
            /\ UNCHANGED <<nextId, online>>
         \/ ~(online[p] /\ Found(p, i, m.arg0)) /\ Ignore(p)
  /\ UNCHANGED <<link, drops, life>>

----------------------------------------------------------------------------
\* Mutant: only the transport of the peer is looked at.
OnTransport_Peer(s) == s.st = "open" /\ s.peer # 0

\* Mutant: only the transport of the socket is looked at, which the sockets
\* of services do not have.
OnTransport_Own(s) == s.st = "open" /\ s.peer = 0

(* Socket s is on local_socket_list and it, or its peer, on the transport. *)
OnTransport(s) == s.st = "open"

close_all_sockets(p) ==
  LET Closed(i) == Close(Context(sock[p][i], fd[p][i]))
  IN  /\ sock' = [sock EXCEPT ![p] =
            [i \in Ids |-> IF OnTransport(sock[p][i]) THEN Closed(i).s
                           ELSE sock[p][i]]]
      /\ fd' = [fd EXCEPT ![p] =
            [i \in Ids |-> IF OnTransport(sock[p][i]) THEN Closed(i).f
                           ELSE fd[p][i]]]

(* f enumerates, in list order, the sockets with a remote peer: each one's *)
(* close sends a CLOSE.                                                    *)
ListOrder(p, f) ==
  LET S == {i \in Ids : OnTransport(sock[p][i]) /\ sock[p][i].peer # 0}
  IN  /\ f \in [1 .. Cardinality(S) -> S]
      /\ \A a, b \in DOMAIN f : a < b => f[a] < f[b]

Farewells(p, f) == [k \in DOMAIN f |-> CLSE(f[k], sock[p][f[k]].peer)]

(* handle_new_connection: handle_offline first, if the transport was not   *)
(* offline, then online again.  adbd (without authentication) answers with *)
(* its own CONNECT.                                                        *)
HandleCNXN(p) ==
  /\ Receives(p, "CNXN")
  /\ LET answer == IF p = "device" THEN <<CNXN>> ELSE <<>>
     IN  \/ /\ online[p]
            /\ close_all_sockets(p)
            /\ \E f \in UNION {[1 .. n -> Ids] : n \in 0 .. MaxId} :
                 /\ ListOrder(p, f)
                 /\ ReplyPacket(p, Farewells(p, f) \o answer)
         \/ /\ ~online[p]
            /\ ReplyPacket(p, answer)
            /\ UNCHANGED <<sock, fd>>
  /\ online' = [online EXCEPT ![p] = TRUE]
  /\ UNCHANGED <<nextId, link, drops, life>>

----------------------------------------------------------------------------
(* The connection breaks.  Packets the reader thread already has are still *)
(* handled; the error callback comes after them.                           *)
TransportError ==
  /\ link /\ drops < MaxDrops
  /\ link' = FALSE
  /\ drops' = drops + 1
  /\ UNCHANGED <<sock, fd, nextId, online, wire, life>>

(* handle_offline, run for the error callback of the connection.           *)
HandleOffline(p) ==
  /\ ~link /\ Idle(p)
  /\ online[p] \/ wire[p] # <<>>
  /\ IF online[p] THEN close_all_sockets(p) ELSE UNCHANGED <<sock, fd>>
  /\ online' = [online EXCEPT ![p] = FALSE]
  /\ wire' = [wire EXCEPT ![p] = <<>>]
  /\ UNCHANGED <<nextId, link, drops, life>>

(* A new connection is registered once both sides know of the loss of the  *)
(* old one: the server sends CONNECT.                                      *)
Reconnect ==
  /\ ~link
  /\ \A p \in Procs : ~online[p] /\ wire[p] = <<>>
  /\ link' = TRUE
  /\ wire' = [wire EXCEPT !["device"] = <<CNXN>>]
  /\ UNCHANGED <<sock, fd, nextId, online, drops, life>>

(* A process dies and its successor starts: its fds are closed and its ids *)
(* start again at 1.  A new server (adb kill-server, start-server) finds   *)
(* the USB link up and sends CONNECT; the packets its predecessor had not  *)
(* handled, or had only queued for sending, may be lost with it.  When     *)
(* adbd restarts, the link goes down.                                      *)
Restart(p) ==
  /\ life["host"] + life["device"] < MaxRestarts /\ link
  /\ sock' = [sock EXCEPT ![p] = [i \in Ids |-> NoSocket]]
  /\ fd' = [fd EXCEPT ![p] = [i \in Ids |-> [fd[p][i] EXCEPT !.open = FALSE]]]
  /\ nextId' = [nextId EXCEPT ![p] = 1]
  /\ online' = [online EXCEPT ![p] = FALSE]
  /\ life' = [life EXCEPT ![p] = @ + 1]
  /\ \/ /\ p = "host"
        /\ \E n \in 0 .. Len(wire[p]), m \in 0 .. Len(wire["device"]) :
             wire' = [wire EXCEPT
                        ![p] = SubSeq(@, n + 1, Len(@)),
                        !["device"] = Append(SubSeq(@, 1, m), CNXN)]
        /\ UNCHANGED link
     \/ /\ p = "device"
        /\ link' = FALSE
        /\ wire' = [wire EXCEPT ![p] = <<>>]
  /\ UNCHANGED drops

----------------------------------------------------------------------------
(* The far end of an fd: a client of the server, or a service of adbd.     *)
FarEnd(p, i, f) ==
  /\ fd' = [fd EXCEPT ![p][i] = f]
  /\ UNCHANGED <<sock, nextId, online, wire, link, drops, life>>

FarWrite(p, i) ==
  /\ fd[p][i].open /\ ~fd[p][i].shut
  /\ fd[p][i].sent < MaxSend[p]
  /\ FarEnd(p, i, [fd[p][i] EXCEPT !.sent = @ + 1])

FarRead(p, i) ==
  /\ ~fd[p][i].gone /\ fd[p][i].buf # <<>>
  /\ FarEnd(p, i, [fd[p][i] EXCEPT !.got = Append(@, Head(fd[p][i].buf)),
                                   !.buf = Tail(@)])

FarClose(p, i) ==
  /\ fd[p][i].open /\ ~(fd[p][i].shut /\ fd[p][i].gone)
  /\ FarEnd(p, i, [fd[p][i] EXCEPT !.shut = TRUE, !.gone = TRUE])

FarShutdown(p, i) ==
  /\ HalfClose /\ fd[p][i].open
  /\ \/ ~fd[p][i].shut /\ FarEnd(p, i, [fd[p][i] EXCEPT !.shut = TRUE])
     \/ ~fd[p][i].gone /\ FarEnd(p, i, [fd[p][i] EXCEPT !.gone = TRUE])

----------------------------------------------------------------------------
HandlePacket(p) ==
  \/ HandleCNXN(p) \/ HandleOPEN(p) \/ HandleOKAY(p)
  \/ HandleCLSE(p) \/ HandleWRTE(p)

(* The main thread of a process.                                           *)
fdevent_loop(p) ==
  \/ Poll(p)
  \/ \E i \in Ids : Dispatch(p, i)
  \/ HandlePacket(p) \/ HandleOffline(p)

Next ==
  \/ \E p \in Procs :
       \/ fdevent_loop(p)
       \/ Connect(p) \/ Restart(p)
       \/ \E i \in Ids :
            \/ FarWrite(p, i) \/ FarRead(p, i)
            \/ FarClose(p, i) \/ FarShutdown(p, i)
  \/ TransportError \/ Reconnect

Spec == Init /\ [][Next]_vars

(* A main thread does not stop while it has something to do, and far ends  *)
(* keep reading; they need not write or close.                             *)
Fairness ==
  /\ \A p \in Procs : WF_vars(fdevent_loop(p))
  /\ WF_vars(\E p \in Procs, i \in Ids : FarRead(p, i))

FairSpec == Spec /\ Fairness

----------------------------------------------------------------------------
Data == (Procs \X Nat \X Ids) \X (Nat \ {0})

(* Every id in a packet is one that install_local_socket gave out, but for *)
(* the local id of a CLOSE that refuses an OPEN.                           *)
Packet ==
  [cmd : {"CNXN"}, arg0 : {0}, arg1 : {0}, data : {<<>>}]
  \cup [cmd : {"OPEN"}, arg0 : Ids, arg1 : {0}, data : {<<>>}]
  \cup [cmd : {"OKAY"}, arg0 : Ids, arg1 : Ids, data : {<<>>}]
  \cup [cmd : {"CLSE"}, arg0 : 0 .. MaxId, arg1 : Ids, data : {<<>>}]
  \cup [cmd : {"WRTE"}, arg0 : Ids, arg1 : Ids, data : Seq(Data)]

Socket ==
  [st : {"none", "open", "closing"}, id : 0 .. MaxId, peer : 0 .. MaxId,
   queue : Seq(Data), werr : BOOLEAN, want : SUBSET {"R", "W"},
   events : SUBSET {"R", "W", "E"}, notify : BOOLEAN]

Fd ==
  [open : BOOLEAN, sent : Nat, read : Nat, shut : BOOLEAN, gone : BOOLEAN,
   buf : Seq(Data), got : Seq(Data), status : {"none", "OKAY", "FAIL"}]

(* The state has the types the code gives it.                              *)
TypeOK ==
  /\ sock \in [Procs -> [Ids -> Socket]]
  /\ fd \in [Procs -> [Ids -> Fd]]
  /\ nextId \in [Procs -> 1 .. MaxId + 1]
  /\ online \in [Procs -> BOOLEAN]
  /\ wire \in [Procs -> Seq(Packet)]
  /\ link \in BOOLEAN
  /\ drops \in Nat
  /\ life \in [Procs -> Nat]

----------------------------------------------------------------------------
(* A socket is on the closing list only with data it can write; data that  *)
(* can be written has FDE_WRITE armed; FDE_WRITE is armed only with a peer *)
(* to tell, or on a closing socket; it is pending only if armed.           *)
SafeSocket(s) ==
  /\ s.st = "closing" => s.queue # <<>> /\ ~s.werr /\ s.peer = 0
  /\ s.st # "none" /\ s.queue # <<>> /\ ~s.werr => "W" \in s.want
  /\ "W" \in s.want => s.peer # 0 \/ s.st = "closing"
  /\ "W" \in s.events => "W" \in s.want

(* What the callbacks of a socket rely on: the CHECK_EQ that ends          *)
(* local_socket_close never fails, local_socket_event_func finds the peer  *)
(* it calls ready on after a completed flush, and no queued data waits for *)
(* a write event that was not asked for.                                   *)
SocketSafe == \A p \in Procs, i \in Ids : SafeSocket(sock[p][i])

(* A slot without a socket is inert; a socket knows its own id.            *)
Installed(s, i) ==
  IF s.st = "none" THEN s.want = {} /\ s.events = {} ELSE s.id = i

(* The inductive strengthening of TypeOK and SocketSafe.                   *)
IInv ==
  /\ TypeOK
  /\ SocketSafe
  /\ \A p \in Procs, i \in Ids : Installed(sock[p][i], i)
=============================================================================
