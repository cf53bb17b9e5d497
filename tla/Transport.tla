----------------------------- MODULE Transport -----------------------------
(***************************************************************************)
(* The life of an atransport (transport.cpp): registration over a socket   *)
(* pair, the BlockingConnectionAdapter that owns a read and a write thread *)
(* for it, the reference the connection holds, Kick from the main thread   *)
(* or from a service thread, and, on the host, the ReconnectHandler thread *)
(* and the server's exit.                                                  *)
(*                                                                         *)
(* Threads: the main thread (fdevent_loop), the two threads of each        *)
(* adapter, the ReconnectHandler, the thread that registers a transport    *)
(* and waits for it, and a service thread that kicks one.  transport_lock  *)
(* is held across a whole Kick or transport_unref, joins included.         *)
(***************************************************************************)
EXTENDS Naturals, Sequences, FiniteSets, SequencesExt

CONSTANTS
  Transports,      \* the atransport objects that may be created
  nullptr,         \* no transport
  Kind,            \* Kind[t]: "tcp", "emulator" or "usb"
  Serial,          \* Serial[t]: two transports of one device share it
  Host,            \* ADB_HOST: the server (TRUE) or adbd (FALSE)
  kMaxAttempts,    \* ReconnectHandler::kMaxAttempts
  MaxConns,        \* bound: connections one transport gets in its life
  MaxCnxn,         \* bound: CNXN packets that arrive on one connection
  MaxSocks         \* bound: client sockets open on a transport at a time

ASSUME TransportAssumption ==
  /\ nullptr \notin Transports
  /\ Kind \in [Transports -> {"tcp", "emulator", "usb"}]
  /\ DOMAIN Serial = Transports
  /\ Host \in BOOLEAN
  /\ {kMaxAttempts, MaxConns, MaxCnxn, MaxSocks} \subseteq Nat

VARIABLES
  tr,         \* tr[t]: the fields of the atransport
  conn,       \* conn[t]: the adapter behind t->connection()
  pending,    \* pending_list
  list,       \* transport_list
  reg,        \* messages in the registration socket pair
  runq,       \* fdevent's run_queue
  main,       \* what the main thread is doing
  kicker,     \* the service thread inside kick_transport, if any
  running,    \* ReconnectHandler::running_
  rq,         \* reconnect_queue_, by reconnect_time
  due,        \* how many of its first entries are due
  hand,       \* the ReconnectHandler thread
  waiter      \* waiter[t]: the thread inside register_socket_transport

vars == <<tr, conn, pending, list, reg, runq, main, kicker, running, rq, due, hand, waiter>>
lists == <<pending, list, reg>>
reconnect == <<running, rq, due, hand>>

IsTcpDevice(t) == Kind[t] # "usb"

Absent == [st |-> "none", state |-> "Offline", online |-> FALSE, kicked |-> FALSE,
           ref |-> 0, est |-> "no", socks |-> 0, conns |-> 0]

NewTransport == [Absent EXCEPT !.st = "live", !.conns = 1]

NewAdapter == [started |-> FALSE, stopped |-> FALSE, read |-> "none", write |-> "none",
               queue |-> 0, cnxn |-> 0, reported |-> FALSE]

Loop(phase) == [at |-> phase, todo |-> {}, t |-> nullptr, join |-> FALSE]

Init ==
  /\ tr = [t \in Transports |-> Absent]
  /\ conn = [t \in Transports |-> NewAdapter]
  /\ pending = {} /\ list = {} /\ reg = <<>> /\ runq = <<>>
  /\ main = Loop("process")
  /\ kicker = [t |-> nullptr, join |-> FALSE]
  /\ running = Host /\ rq = <<>> /\ due = 0
  /\ hand = [pc |-> IF Host THEN "top" ELSE "exited", timed |-> FALSE,
             notified |-> FALSE, t |-> nullptr, left |-> 0]
  /\ waiter = [t \in Transports |-> "none"]

-----------------------------------------------------------------------------
(* BlockingConnectionAdapter *)

Start(c) == [c EXCEPT !.started = TRUE, !.read = "reading", !.write = "waiting"]

Enqueue(c) == [c EXCEPT !.queue = @ + 1]

\* Stop up to the joins; its early returns leave nothing to join.
Running(c) == c.started /\ ~c.stopped
Stop(c) == [c EXCEPT !.stopped = @ \/ c.started]

Exited(c) == c.read = "exited" /\ c.write = "exited"

\* Mutant: every caller reports, as without the once_flag.
Report_Always(q, c, t) == Append(q, <<"error", t>>)

\* call_once(error_flag_): the first caller queues handle_offline and
\* transport_unref for the main thread.
Report(q, c, t) == IF c.reported THEN q ELSE Append(q, <<"error", t>>)

\* The end of Stop, by the thread a: it reports only if it joined.
ReportStop(a) ==
  IF a.join
  THEN /\ runq' = Report(runq, conn[a.t], a.t)
       /\ conn' = [conn EXCEPT ![a.t].reported = TRUE]
  ELSE UNCHANGED <<runq, conn>>

\* A read that Close overtook may still deliver its packet.
ReadCnxn(t) ==
  /\ conn[t].read = "reading"
  /\ conn[t].cnxn < MaxCnxn
  /\ conn' = [conn EXCEPT ![t].cnxn = @ + 1]
  /\ runq' = Append(runq, <<"packet", t>>)
  /\ UNCHANGED <<tr, lists, main, kicker, reconnect, waiter>>

ReadFails(t) ==
  /\ conn[t].read = "reading"
  /\ conn' = [conn EXCEPT ![t].read = "exited", ![t].reported = TRUE]
  /\ runq' = Report(runq, conn[t], t)
  /\ UNCHANGED <<tr, lists, main, kicker, reconnect, waiter>>

WriteBegins(t) ==
  /\ conn[t].write = "waiting" /\ ~conn[t].stopped /\ conn[t].queue > 0
  /\ conn' = [conn EXCEPT ![t].write = "writing", ![t].queue = @ - 1]
  /\ UNCHANGED <<tr, lists, runq, main, kicker, reconnect, waiter>>

\* Mutant: the write thread looks at stopped_ only once it has a packet.
WriteStopped_NeedsPacket(t) ==
  /\ conn[t].write = "waiting" /\ conn[t].stopped /\ conn[t].queue > 0
  /\ conn' = [conn EXCEPT ![t].write = "exited"]
  /\ UNCHANGED <<tr, lists, runq, main, kicker, reconnect, waiter>>

WriteStopped(t) ==
  /\ conn[t].write = "waiting" /\ conn[t].stopped
  /\ conn' = [conn EXCEPT ![t].write = "exited"]
  /\ UNCHANGED <<tr, lists, runq, main, kicker, reconnect, waiter>>

WriteEnds(t) ==
  /\ conn[t].write = "writing"
  /\ conn' = [conn EXCEPT ![t].write = "waiting"]
  /\ UNCHANGED <<tr, lists, runq, main, kicker, reconnect, waiter>>

WriteFails(t) ==
  /\ conn[t].write = "writing"
  /\ conn' = [conn EXCEPT ![t].write = "exited", ![t].reported = TRUE]
  /\ runq' = Report(runq, conn[t], t)
  /\ UNCHANGED <<tr, lists, main, kicker, reconnect, waiter>>

-----------------------------------------------------------------------------
(* Registration *)

register_transport(t) == <<t, 1>>
remove_transport(t) == <<t, 0>>

KickLoops == {"kick", "close_usb", "exit"}
LockFree == kicker.t = nullptr /\ main.at \notin KickLoops \cup {"unref"}

\* Mutant: only transport_list is searched for the serial.
Known_Listed == list

Known == pending \cup list

\* register_socket_transport up to WaitForConnection, or
\* register_usb_transport, which waits for nothing and admits any serial.
register_socket_transport(t) ==
  /\ tr[t].st = "none"
  /\ LockFree
  /\ Kind[t] # "usb" => \A u \in Known : Serial[u] # Serial[t]
  /\ tr' = [tr EXCEPT ![t] = NewTransport]
  /\ pending' = pending \cup {t}
  /\ reg' = Append(reg, register_transport(t))
  /\ waiter' = [waiter EXCEPT ![t] = IF Kind[t] = "tcp" THEN "waiting" ELSE "returned"]
  /\ UNCHANGED <<conn, list, runq, main, kicker, reconnect>>

\* WaitForConnection returns, at the latest after its ten seconds.
WaitForConnection(t) ==
  /\ waiter[t] = "waiting"
  /\ \/ tr[t].est = "ok" /\ waiter' = [waiter EXCEPT ![t] = "connected"]
     \/ tr[t].est # "ok" /\ waiter' = [waiter EXCEPT ![t] = "returned"]
  /\ UNCHANGED <<tr, conn, lists, runq, main, kicker, reconnect>>

\* The registering thread reads t->GetConnectionState() and returns.
WaiterReadsState(t) ==
  /\ waiter[t] = "connected"
  /\ waiter' = [waiter EXCEPT ![t] = "returned"]
  /\ UNCHANGED <<tr, conn, lists, runq, main, kicker, reconnect>>

\* SetConnectionEstablished: only the first call counts.
Established(t, how) == IF tr[t].est = "no" THEN how ELSE tr[t].est

\* transport_registration_func for action 1: one message per poll.
RegistrationAdds ==
  /\ main.at = "process" /\ LockFree
  /\ reg # <<>> /\ Head(reg)[2] = 1
  /\ LET t == Head(reg)[1]
         c == Start(conn[t])
     IN /\ tr' = [tr EXCEPT ![t].ref = @ + 1]
        /\ conn' = [conn EXCEPT ![t] = IF Host THEN Enqueue(c) ELSE c]
        /\ list' = IF t \in pending THEN list \cup {t} ELSE list
        /\ pending' = pending \ {t}
  /\ reg' = Tail(reg)
  /\ main' = Loop("events")
  /\ UNCHANGED <<runq, kicker, reconnect, waiter>>

\* transport_registration_func for action 0: delete t stops its connection.
RegistrationRemoves ==
  /\ main.at = "process" /\ LockFree
  /\ reg # <<>> /\ Head(reg)[2] = 0
  /\ LET t == Head(reg)[1]
     IN /\ list' = list \ {t}
        /\ conn' = [conn EXCEPT ![t] = Stop(@)]
        /\ main' = [Loop("delete") EXCEPT !.t = t, !.join = Running(conn[t])]
  /\ reg' = Tail(reg)
  /\ UNCHANGED <<tr, pending, runq, kicker, reconnect, waiter>>

\* Mutant: Stop returns without joining the two threads.
Joined_Early == TRUE

Joined == main.join => Exited(conn[main.t])

RegistrationDeletes ==
  /\ main.at = "delete" /\ Joined
  /\ tr' = [tr EXCEPT ![main.t].st = "deleted", ![main.t].est = Established(main.t, "failed")]
  /\ ReportStop(main)
  /\ main' = Loop("events")
  /\ UNCHANGED <<lists, kicker, reconnect, waiter>>

-----------------------------------------------------------------------------
(* The run queue *)

\* fdevent_process finds the registration socket empty.
Poll ==
  /\ main.at = "process" /\ reg = <<>>
  /\ main' = Loop("events")
  /\ UNCHANGED <<tr, conn, lists, runq, kicker, reconnect, waiter>>

EndEvents ==
  /\ main.at = "events"
  /\ main' = Loop("flush")
  /\ UNCHANGED <<tr, conn, lists, runq, kicker, reconnect, waiter>>

\* Mutant: fdevent_run_flush leaves closures behind.
EndFlush_Early ==
  /\ main.at = "flush"
  /\ main' = Loop("process")
  /\ UNCHANGED <<tr, conn, lists, runq, kicker, reconnect, waiter>>

EndFlush ==
  /\ main.at = "flush" /\ runq = <<>>
  /\ main' = Loop("process")
  /\ UNCHANGED <<tr, conn, lists, runq, kicker, reconnect, waiter>>

\* close_all_sockets is part of going offline; an offline transport returns
\* before it.
handle_offline(r) ==
  IF r.state = "Offline" THEN r
  ELSE [r EXCEPT !.state = "Offline", !.online = FALSE, !.socks = 0]

\* handle_new_connection, with authentication not required
handle_packet ==
  /\ main.at = "flush"
  /\ runq # <<>> /\ Head(runq)[1] = "packet"
  /\ LET t == Head(runq)[2]
     IN /\ tr' = [tr EXCEPT ![t] = [handle_offline(@) EXCEPT
                     !.state = "Device", !.online = TRUE, !.est = Established(t, "ok")]]
        /\ conn' = [conn EXCEPT ![t] = IF Host THEN @ ELSE Enqueue(@)]
  /\ runq' = Tail(runq)
  /\ UNCHANGED <<lists, main, kicker, reconnect, waiter>>

\* The closure of the error callback: handle_offline(t), then
\* transport_unref(t) up to the joins of Stop.
handle_error ==
  /\ main.at = "flush" /\ kicker.t = nullptr
  /\ runq # <<>> /\ Head(runq)[1] = "error"
  /\ LET t == Head(runq)[2]
         r == handle_offline(tr[t])
         last == r.ref = 1
     IN /\ tr' = [tr EXCEPT ![t] = [r EXCEPT !.ref = @ - 1]]
        /\ conn' = [conn EXCEPT ![t] = IF last THEN Stop(@) ELSE @]
        /\ main' = IF last
                   THEN [Loop("unref") EXCEPT !.t = t, !.join = Running(conn[t])]
                   ELSE main
  /\ runq' = Tail(runq)
  /\ UNCHANGED <<lists, kicker, reconnect, waiter>>

Notify(h) == [h EXCEPT !.notified = @ \/ h.pc = "wait"]

\* Mutant: the handler is not notified.
TrackTransport_Quiet(t) ==
  IF running
  THEN /\ \E i \in (due + 1)..(Len(rq) + 1) :
            rq' = InsertAt(rq, i, [t |-> t, left |-> kMaxAttempts])
       /\ UNCHANGED <<running, due, hand, reg>>
  ELSE UNCHANGED <<reconnect, reg>>

\* ReconnectHandler::TrackTransport: due in 250 ms, so behind everything that
\* is due and anywhere among the attempts that are ten seconds away.
TrackTransport(t) ==
  IF running
  THEN /\ \E i \in (due + 1)..(Len(rq) + 1) :
            rq' = InsertAt(rq, i, [t |-> t, left |-> kMaxAttempts])
       /\ hand' = Notify(hand)
       /\ UNCHANGED <<running, due, reg>>
  ELSE UNCHANGED <<reconnect, reg>>

\* Mutant: adbd, too, leaves a TCP transport to a reconnect handler.
transport_unref_Tracks ==
  /\ main.at = "unref" /\ Joined
  /\ IF IsTcpDevice(main.t) /\ ~tr[main.t].kicked
     THEN TrackTransport(main.t)
     ELSE /\ reg' = Append(reg, remove_transport(main.t))
          /\ UNCHANGED reconnect
  /\ ReportStop(main)
  /\ main' = Loop("flush")
  /\ UNCHANGED <<tr, pending, list, kicker, waiter>>

\* The end of transport_unref.
transport_unref ==
  /\ main.at = "unref" /\ Joined
  /\ IF Host /\ IsTcpDevice(main.t) /\ ~tr[main.t].kicked
     THEN TrackTransport(main.t)
     ELSE /\ reg' = Append(reg, remove_transport(main.t))
          /\ UNCHANGED reconnect
  /\ ReportStop(main)
  /\ main' = Loop("flush")
  /\ UNCHANGED <<tr, pending, list, kicker, waiter>>

-----------------------------------------------------------------------------
(* Kick *)

\* atransport::Kick up to the joins of Stop; only the first one stops.
Kick(t) ==
  /\ tr' = [tr EXCEPT ![t].kicked = TRUE]
  /\ conn' = [conn EXCEPT ![t] = IF tr[t].kicked THEN @ ELSE Stop(@)]

KickJoins(t) == ~tr[t].kicked /\ Running(conn[t])

\* A client's request: kick_transport, for "disconnect:<address>" and for
\* "reconnect"; kick_all_tcp_devices, for "disconnect:"; close_usb_devices,
\* for "reconnect-offline", which does not wake the ReconnectHandler.
RequestKicks ==
  /\ Host /\ main.at = "events" /\ LockFree
  /\ \/ \E t \in list : main' = [Loop("kick") EXCEPT !.todo = {t}]
     \/ main' = [Loop("kick") EXCEPT !.todo = {t \in list : IsTcpDevice(t)}]
     \/ main' = [Loop("close_usb") EXCEPT !.todo = {t \in list : tr[t].state = "Offline"}]
  /\ UNCHANGED <<tr, conn, lists, runq, kicker, reconnect, waiter>>

Kicking == main.at \in KickLoops

MainKicks ==
  /\ Kicking /\ main.t = nullptr
  /\ \E t \in main.todo :
       /\ Kick(t)
       /\ main' = [main EXCEPT !.todo = @ \ {t}, !.t = t, !.join = KickJoins(t)]
  /\ UNCHANGED <<lists, runq, kicker, reconnect, waiter>>

MainKicked ==
  /\ Kicking /\ main.t # nullptr /\ Joined
  /\ ReportStop(main)
  /\ main' = [main EXCEPT !.t = nullptr, !.join = FALSE]
  /\ UNCHANGED <<tr, lists, kicker, reconnect, waiter>>

EndKicks ==
  /\ Kicking /\ main.t = nullptr /\ main.todo = {}
  /\ main' = IF main.at = "exit" THEN Loop("exited") ELSE Loop("events")
  /\ hand' = IF main.at = "kick" THEN Notify(hand) ELSE hand
  /\ UNCHANGED <<tr, conn, lists, runq, kicker, running, rq, due, waiter>>

\* Mutant: kick_transport does not look t up in transport_list.
Listed_Any(t) == TRUE

Listed(t) == t \in list

\* adbd's reconnect_service: a thread of its own calls kick_transport, which
\* does nothing when t has left transport_list.
ServiceKicks(t) ==
  /\ ~Host /\ LockFree
  /\ Listed(t)
  /\ Kick(t)
  /\ kicker' = [t |-> t, join |-> KickJoins(t)]
  /\ UNCHANGED <<lists, runq, main, reconnect, waiter>>

ServiceKicked ==
  /\ kicker.t # nullptr
  /\ kicker.join => Exited(conn[kicker.t])
  /\ ReportStop(kicker)
  /\ kicker' = [t |-> nullptr, join |-> FALSE]
  /\ UNCHANGED <<tr, lists, main, reconnect, waiter>>

-----------------------------------------------------------------------------
(* ReconnectHandler::Run *)

Tick ==
  /\ due < Len(rq)
  /\ due' = due + 1
  /\ UNCHANGED <<tr, conn, lists, runq, main, kicker, running, rq, hand, waiter>>

\* wait_until the first attempt is due, or wait for a notification.
RunWaits ==
  /\ hand.pc = "top"
  /\ hand' = [hand EXCEPT !.pc = "wait", !.timed = rq # <<>>, !.notified = FALSE]
  /\ UNCHANGED <<tr, conn, lists, runq, main, kicker, running, rq, due, waiter>>

Kicked(a) == tr[a.t].kicked

NotKicked(a) == ~tr[a.t].kicked

RunWakes ==
  /\ hand.pc = "wait"
  /\ hand.notified \/ (hand.timed /\ due > 0)
  /\ IF ~running
     THEN /\ hand' = [hand EXCEPT !.pc = "exited"]
          /\ UNCHANGED <<rq, due, reg>>
     ELSE LET kept == SelectSeq(rq, NotKicked)
              dueKept == Len(SelectSeq(SubSeq(rq, 1, due), NotKicked))
              given == SelectSeq(rq, Kicked)
          IN /\ reg' = reg \o [i \in 1..Len(given) |-> remove_transport(given[i].t)]
             /\ IF dueKept = 0
                THEN /\ rq' = kept /\ due' = 0
                     /\ hand' = [hand EXCEPT !.pc = "top"]
                ELSE /\ rq' = Tail(kept) /\ due' = dueKept - 1
                     /\ hand' = [hand EXCEPT !.pc = "reconnect",
                                   !.t = Head(kept).t, !.left = Head(kept).left]
  /\ UNCHANGED <<tr, conn, pending, list, runq, main, kicker, running, waiter>>

HandlerFree == [hand EXCEPT !.pc = "top", !.t = nullptr, !.left = 0]

\* An emulator's callback aborts; a TCP device's connects again or fails.
ReconnectAbort ==
  /\ hand.pc = "reconnect" /\ Kind[hand.t] = "emulator"
  /\ reg' = Append(reg, remove_transport(hand.t))
  /\ hand' = HandlerFree
  /\ UNCHANGED <<tr, conn, pending, list, runq, main, kicker, running, rq, due, waiter>>

\* Mutant: giving up does not skip the next attempt.
ReconnectRetry_NoContinue ==
  /\ hand.pc = "reconnect" /\ Kind[hand.t] = "tcp"
  /\ reg' = IF hand.left = 0 THEN Append(reg, remove_transport(hand.t)) ELSE reg
  /\ rq' = Append(rq, [t |-> hand.t, left |-> IF hand.left = 0 THEN 0 ELSE hand.left - 1])
  /\ hand' = HandlerFree
  /\ UNCHANGED <<tr, conn, pending, list, runq, main, kicker, running, due, waiter>>

ReconnectRetry ==
  /\ hand.pc = "reconnect" /\ Kind[hand.t] = "tcp"
  /\ IF hand.left = 0
     THEN reg' = Append(reg, remove_transport(hand.t)) /\ UNCHANGED rq
     ELSE rq' = Append(rq, [t |-> hand.t, left |-> hand.left - 1]) /\ UNCHANGED reg
  /\ hand' = HandlerFree
  /\ UNCHANGED <<tr, conn, pending, list, runq, main, kicker, running, due, waiter>>

\* init_socket_transport gives the transport a new connection.
ReconnectSuccess ==
  /\ hand.pc = "reconnect" /\ Kind[hand.t] = "tcp"
  /\ tr[hand.t].conns < MaxConns
  /\ tr' = [tr EXCEPT ![hand.t].conns = @ + 1]
  /\ conn' = [conn EXCEPT ![hand.t] = NewAdapter]
  /\ reg' = Append(reg, register_transport(hand.t))
  /\ hand' = HandlerFree
  /\ UNCHANGED <<pending, list, runq, main, kicker, running, rq, due, waiter>>

-----------------------------------------------------------------------------
(* The server's exit: kick_all_transports *)

ExitBegins ==
  /\ Host /\ main.at \in {"process", "events", "flush"}
  /\ running' = FALSE
  /\ hand' = Notify(hand)
  /\ main' = Loop("exit_join")
  /\ UNCHANGED <<tr, conn, lists, runq, kicker, rq, due, waiter>>

ExitDrains ==
  /\ main.at = "exit_join" /\ hand.pc = "exited"
  /\ reg' = reg \o [i \in 1..Len(rq) |-> remove_transport(rq[i].t)]
  /\ rq' = <<>> /\ due' = 0
  /\ main' = [Loop("exit") EXCEPT !.todo = list]
  /\ UNCHANGED <<tr, conn, pending, list, runq, kicker, running, hand, waiter>>

-----------------------------------------------------------------------------
\* A client's socket over t: acquire_one_transport finds it in the list, not
\* offline, and connect_to_remote sends OPEN.
ClientOpens(t) ==
  /\ Host /\ main.at = "events" /\ LockFree
  /\ t \in list /\ tr[t].state # "Offline"
  /\ tr[t].socks < MaxSocks
  /\ tr' = [tr EXCEPT ![t].socks = @ + 1]
  /\ conn' = [conn EXCEPT ![t] = Enqueue(@)]
  /\ UNCHANGED <<lists, runq, main, kicker, reconnect, waiter>>

Adapter(t) ==
  ReadCnxn(t) \/ ReadFails(t) \/ WriteBegins(t) \/ WriteStopped(t) \/ WriteEnds(t) \/ WriteFails(t)

Waiter(t) == WaitForConnection(t) \/ WaiterReadsState(t)

\* What the main thread does by itself, as opposed to at a client's request.
MainLoop ==
  \/ Poll \/ RegistrationAdds \/ RegistrationRemoves \/ RegistrationDeletes
  \/ EndEvents \/ EndFlush \/ handle_packet \/ handle_error \/ transport_unref
  \/ MainKicks \/ MainKicked \/ EndKicks \/ ExitDrains

Run == RunWaits \/ RunWakes \/ ReconnectAbort \/ ReconnectRetry \/ ReconnectSuccess

\* The other threads run on until the process is gone.
Next ==
  \/ \E t \in Transports : register_socket_transport(t) \/ Waiter(t) \/ Adapter(t)
                            \/ ServiceKicks(t) \/ ClientOpens(t)
  \/ MainLoop \/ RequestKicks \/ ExitBegins \/ ServiceKicked \/ Tick \/ Run

Spec == Init /\ [][Next]_vars

\* Each thread keeps running and gets transport_lock in the end, a poll
\* reports finitely many events, time passes, and Close makes the reads and
\* writes in progress return (transport.h, BlockingConnection::Close).
Fairness ==
  /\ SF_vars(MainLoop) /\ SF_vars(EndEvents)
  /\ WF_vars(Run) /\ WF_vars(Tick) /\ WF_vars(ServiceKicked)
  /\ \A t \in Transports :
       WF_vars(conn[t].stopped /\ (ReadFails(t) \/ WriteStopped(t) \/ WriteFails(t)))

FairSpec == Spec /\ Fairness
=============================================================================
