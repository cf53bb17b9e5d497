---------------------------- MODULE LocalSocket ----------------------------
(***************************************************************************)
(* One local asocket and the file descriptor it is bound to: the callbacks *)
(* of sockets.cpp (enqueue, ready, close, the fdevent handler) and the     *)
(* interest mask of fdevent.cpp they drive, as operators on a context      *)
(*                                                                         *)
(*   s    the asocket                                                      *)
(*   f    the kernel's view of its fd and of the process at the far end    *)
(*   out  the packets the callback hands to send_packet, in order          *)
(*   res  the SocketFlushResult of the last flush                          *)
(*                                                                         *)
(* The peer of the socket is a remote asocket: it lives and dies with its  *)
(* local socket, so it is represented by its id (0 for a null peer).       *)
(***************************************************************************)
EXTENDS Integers, Sequences

CONSTANTS
  MaxPayload,  \* units of data one WRTE may carry (asocket::get_max_payload)
  FdRoom       \* units the kernel buffers towards the far end of an fd

ASSUME PayloadAssumption == MaxPayload \in Nat \ {0}
ASSUME RoomAssumption == FdRoom \in Nat \ {0}

----------------------------------------------------------------------------
(* Packets: amessage's command, arg0 and arg1, with the payload.           *)
CNXN          == [cmd |-> "CNXN", arg0 |-> 0, arg1 |-> 0, data |-> <<>>]
OPEN(l)       == [cmd |-> "OPEN", arg0 |-> l, arg1 |-> 0, data |-> <<>>]
OKAY(l, r)    == [cmd |-> "OKAY", arg0 |-> l, arg1 |-> r, data |-> <<>>]
CLSE(l, r)    == [cmd |-> "CLSE", arg0 |-> l, arg1 |-> r, data |-> <<>>]
WRTE(l, r, d) == [cmd |-> "WRTE", arg0 |-> l, arg1 |-> r, data |-> d]

(* The asocket.  st is the list it is on: local_socket_list ("open"),      *)
(* local_socket_closing_list ("closing"), or none once it is deleted.      *)
(* want and events are fde->state & FDE_EVENTMASK and fde->events.         *)
(* notify says that the callbacks are local_socket_ready_notify and        *)
(* local_socket_close_notify, i.e. that the client awaits a status.        *)
NoSocket ==
  [st |-> "none", id |-> 0, peer |-> 0, queue |-> <<>>, werr |-> FALSE,
   want |-> {}, events |-> {}, notify |-> FALSE]

create_local_socket(i) == [NoSocket EXCEPT !.st = "open", !.id = i]

(* The fd: sent units were written by the far end, read of them have been  *)
(* read by the asocket; shut: the far end will write no more; gone: it     *)
(* will read no more; buf is in the kernel on its way to the far end, got  *)
(* has arrived there; status is the OKAY or FAIL the client was answered.  *)
NoFd ==
  [open |-> FALSE, sent |-> 0, read |-> 0, shut |-> FALSE, gone |-> FALSE,
   buf |-> <<>>, got |-> <<>>, status |-> "none"]

NewFd == [NoFd EXCEPT !.open = TRUE]

Context(s, f) == [s |-> s, f |-> f, out |-> <<>>, res |-> "none"]

----------------------------------------------------------------------------
(* fdevent_set: a pending event that is no longer wanted is dropped, but   *)
(* only when the mask really changes.                                      *)
fdevent_set(s, mask) ==
  IF s.want = mask THEN s
  ELSE [s EXCEPT !.want = mask, !.events = @ \cap mask]

fdevent_add(s, ev) == fdevent_set(s, s.want \cup {ev})

fdevent_del(s, ev) == fdevent_set(s, s.want \ {ev})

(* The revents of one fd, as fdevent_process translates them.  POLLRDHUP,  *)
(* POLLHUP and POLLERR are reported whether or not they are asked for.     *)
Revents(s, f) ==
  (IF "R" \in s.want /\ (f.read < f.sent \/ f.shut) THEN {"R"} ELSE {})
  \cup (IF "W" \in s.want /\ (f.gone \/ Len(f.buf) < FdRoom) THEN {"W"} ELSE {})
  \cup (IF f.shut THEN {"R", "E"} ELSE {})

(* adb_writev of n units: -1 for an error, else what fits.                 *)
adb_writev(f, n) ==
  IF f.gone THEN -1
  ELSE IF n <= FdRoom - Len(f.buf) THEN n ELSE FdRoom - Len(f.buf)

----------------------------------------------------------------------------
(* The remote socket: what its local peer hands it becomes a packet.       *)
remote_socket_enqueue(c, data) ==
  [c EXCEPT !.out = Append(@, WRTE(c.s.id, c.s.peer, data))]

\* Mutant: the READY is forgotten.
remote_socket_ready_Silent(c) == c

remote_socket_ready(c) == [c EXCEPT !.out = Append(@, OKAY(c.s.id, c.s.peer))]

\* Mutant: the CLOSE is put off for a socket that still has data to write.
remote_socket_shutdown_Late(c) ==
  [c EXCEPT !.out = IF c.s.queue = <<>>
                    THEN Append(@, CLSE(c.s.id, c.s.peer)) ELSE @]

remote_socket_shutdown(c) ==
  [c EXCEPT !.out = Append(@, CLSE(c.s.id, c.s.peer))]

----------------------------------------------------------------------------
(* fdevent_destroy closes the fd; remove_socket and delete follow.         *)
local_socket_destroy(c) == [c EXCEPT !.s = NoSocket, !.f.open = FALSE]

\* Mutant: a write error does not count.
MustDrain_NoError(s) == ~(s.st = "closing" \/ s.queue = <<>>)

(* A socket being closed is kept until its data is written, unless it was  *)
(* being kept already, or cannot write.                                    *)
MustDrain(s) == ~(s.st = "closing" \/ s.werr \/ s.queue = <<>>)

(* The remote peer is shut down and deleted; the socket is destroyed, or   *)
(* moved to the closing list.                                              *)
local_socket_close(c) ==
  LET d == IF c.s.peer = 0 THEN c
           ELSE [remote_socket_shutdown(c) EXCEPT !.s.peer = 0]
  IN  IF MustDrain(d.s)
      THEN [d EXCEPT !.s = fdevent_del([@ EXCEPT !.st = "closing"], "R")]
      ELSE local_socket_destroy(d)

(* s->close(s): local_socket_close_notify first reports the failure.       *)
Close(c) ==
  local_socket_close(IF c.s.notify
                     THEN [c EXCEPT !.s.notify = FALSE, !.f.status = "FAIL"]
                     ELSE c)

(* s->ready(s): local_socket_ready_notify first reports the success.       *)
Ready(c) ==
  LET d == IF c.s.notify
           THEN [c EXCEPT !.s.notify = FALSE, !.f.status = "OKAY"]
           ELSE c
  IN  [d EXCEPT !.s = fdevent_add(@, "R")]

----------------------------------------------------------------------------
(* n units leave the queue for the kernel.                                 *)
take_front(c, n) ==
  [c EXCEPT !.f.buf = @ \o SubSeq(c.s.queue, 1, n),
            !.s.queue = SubSeq(@, n + 1, Len(@))]

\* Mutant: FDE_WRITE is not armed.
TryAgain_NoEvent(c) == [c EXCEPT !.res = "TryAgain"]

TryAgain(c) == [c EXCEPT !.s = fdevent_add(@, "W"), !.res = "TryAgain"]

local_socket_flush_incoming(c) ==
  LET len == Len(c.s.queue)
      n   == adb_writev(c.f, len)
      d   == IF len > 0 /\ n < 0 THEN [c EXCEPT !.s.werr = TRUE]
             ELSE IF len > 0 THEN take_front(c, n)
             ELSE c
  IN  IF len > 0 /\ n >= 0 /\ n < len THEN TryAgain(d)
      ELSE IF d.s.st = "closing" THEN [Close(d) EXCEPT !.res = "Destroyed"]
      ELSE [d EXCEPT !.s = fdevent_del(@, "W"), !.res = "Completed"]

local_socket_enqueue(c, data) ==
  local_socket_flush_incoming([c EXCEPT !.s.queue = @ \o data])

\* Mutant: off by one.
Payload_OffByOne(f, n, src) == [k \in 1 .. n |-> <<src, f.read + k - 1>>]

(* The next n units of the fd: <<src, k>> is the k-th that the far end src *)
(* wrote.                                                                  *)
Payload(f, n, src) == [k \in 1 .. n |-> <<src, f.read + k>>]

(* The read loop stops when the payload is full, so the end of file is     *)
(* seen only by a loop that drained the fd below that.  Without a peer the *)
(* data is dropped.                                                        *)
local_socket_flush_outgoing(c, src) ==
  LET avail == c.f.sent - c.f.read
      n     == IF avail < MaxPayload THEN avail ELSE MaxPayload
      d     == [c EXCEPT !.f.read = @ + n]
      e     == IF n > 0 /\ c.s.peer # 0
               THEN [remote_socket_enqueue(d, Payload(c.f, n, src)) EXCEPT
                       !.s = fdevent_del(@, "R")]
               ELSE d
  IN  IF n < MaxPayload /\ c.f.shut THEN Close(e) ELSE e

(* The fdevent handler: WRITE before READ; a completed flush tells the     *)
(* remote peer that it may send again.                                     *)
local_socket_event_func(c, ev, src) ==
  LET d == IF "W" \in ev THEN local_socket_flush_incoming(c) ELSE c
      e == IF d.res = "Completed" THEN remote_socket_ready(d) ELSE d
  IN  IF "R" \in ev /\ d.res # "Destroyed"
      THEN local_socket_flush_outgoing(e, src)
      ELSE e
=============================================================================
