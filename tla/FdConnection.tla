---------------------------- MODULE FdConnection ----------------------------
(***************************************************************************)
(* NonblockingFdConnection (transport_fd.cpp): one thread polls the socket *)
(* and a wake-up pipe, cuts what it reads into packets, and writes what a  *)
(* short write left over; the main thread writes packets, and stops it.    *)
(* Both buffers are IOVectors.                                             *)
(*                                                                         *)
(* The unit of data is a piece of a packet: HeaderSize pieces of header    *)
(* and data_length pieces of payload.                                      *)
(***************************************************************************)
EXTENDS IOVector

CONSTANTS
  Incoming,     \* data_length of each packet the peer sends
  Outgoing,     \* data_length of each packet written to the connection
  HeaderSize,   \* sizeof(amessage), in pieces
  KernelSize    \* pieces the kernel buffers for sending

ASSUME FdConnectionAssumption ==
  /\ Incoming \in Seq(Nat) /\ Outgoing \in Seq(Nat)
  /\ HeaderSize \in Nat \ {0} /\ KernelSize \in Nat \ {0}

VARIABLES
  thread,        \* where the connection's thread is
  revents,       \* what its last poll reported
  pollout,       \* whether that poll asked for POLLOUT
  running_,
  wake,          \* bytes in the wake-up pipe
  stop,          \* where Stop is
  arrived,       \* pieces that came from the peer and are not read
  coming,        \* pieces the peer has yet to send
  closed,        \* whether the peer closed its end, or reading fails
  read_buffer_, read_header_,
  delivered,     \* packets given to read_callback_
  writable_, write_buffer_,
  written,       \* how many packets were given to Write
  kernel,        \* pieces in the kernel's send buffer
  peer           \* pieces the peer has received

vars == <<thread, revents, pollout, running_, wake, stop, arrived, coming, closed, read_buffer_, read_header_,
          delivered, writable_, write_buffer_, written, kernel, peer>>
reading == <<arrived, coming, closed, read_buffer_, read_header_, delivered>>
writing == <<writable_, write_buffer_, written, kernel, peer>>
stopping == <<running_, wake, stop>>

\* read_header_ is the header in a sequence of one, or empty.
nullptr == <<>>

\* The pieces of packet n, its header first.
Pieces(n, length) ==
  [i \in 1..(HeaderSize + length) |-> [packet |-> n, data_length |-> length, at |-> i]]

Stream(lengths) == FlattenSeq([n \in 1..Len(lengths) |-> Pieces(n, lengths[n])])

Init ==
  /\ thread = "none" /\ revents = {} /\ pollout = FALSE
  /\ running_ = FALSE /\ wake = 0 /\ stop = "none"
  /\ arrived = <<>> /\ coming = Stream(Incoming) /\ closed = FALSE
  /\ read_buffer_ = EmptyVec /\ read_header_ = nullptr /\ delivered = <<>>
  /\ writable_ = TRUE /\ write_buffer_ = EmptyVec /\ written = 0
  /\ kernel = <<>> /\ peer = <<>>

-----------------------------------------------------------------------------
(* Start, Stop and Write, on the main thread *)

Start ==
  /\ thread = "none" /\ stop = "none"
  /\ thread' = "spawned"
  /\ UNCHANGED <<revents, pollout, stopping, reading, writing>>

StopBegins ==
  /\ thread # "none" /\ stop = "none"
  /\ running_' = FALSE /\ stop' = "wake"
  /\ UNCHANGED <<thread, revents, pollout, wake, reading, writing>>

\* Mutant: the thread is not woken.
WakeThread_Quiet ==
  /\ stop = "wake"
  /\ stop' = "join"
  /\ UNCHANGED <<thread, revents, pollout, running_, wake, reading, writing>>

WakeThread ==
  /\ stop = "wake"
  /\ wake' = wake + 1 /\ stop' = "join"
  /\ UNCHANGED <<thread, revents, pollout, running_, reading, writing>>

StopJoins ==
  /\ stop = "join" /\ thread = "done"
  /\ stop' = "done"
  /\ UNCHANGED <<thread, revents, pollout, running_, wake, reading, writing>>

\* Mutant: what a short write left over is dropped.
DispatchWrites_Drops(buffer, n) ==
  /\ n <= size(buffer)
  /\ n = 0 <=> (~writable_ \/ Len(kernel) = KernelSize)
  /\ kernel' = kernel \o SubSeq(FlattenSeq(iovecs(buffer)), 1, n)
  /\ write_buffer_' = EmptyVec

\* DispatchWrites, with writev taking n pieces.  When nothing fits writev fails
\* with EAGAIN, an Error like any other: the data stays.  While writable_ is
\* false nothing is tried.
DispatchWrites(buffer, n) ==
  /\ n <= size(buffer)
  /\ n = 0 <=> (~writable_ \/ Len(kernel) = KernelSize)
  /\ kernel' = kernel \o SubSeq(FlattenSeq(iovecs(buffer)), 1, n)
  /\ write_buffer_' = take_front(buffer, n).rest

\* A block for the header and one for the payload, if there is any.
AppendPacket(buffer, n, length) ==
  LET pieces == Pieces(n, length)
      header == append(buffer, SubSeq(pieces, 1, HeaderSize))
  IN IF length = 0 THEN header ELSE append(header, SubSeq(pieces, HeaderSize + 1, Len(pieces)))

\* What Write returns is the caller's business.
Write ==
  /\ thread # "none" /\ stop = "none" /\ written < Len(Outgoing)
  /\ written' = written + 1
  /\ \E n \in 0..(KernelSize - Len(kernel)) :
       DispatchWrites(AppendPacket(write_buffer_, written', Outgoing[written']), n)
  /\ UNCHANGED <<thread, revents, pollout, stopping, reading, writable_, peer>>

-----------------------------------------------------------------------------
(* Run, on the connection's thread *)

RunBegins ==
  /\ thread = "spawned"
  /\ running_' = TRUE /\ thread' = "loop"
  /\ UNCHANGED <<revents, pollout, wake, stop, reading, writing>>

RunLoops ==
  /\ thread = "loop"
  /\ thread' = IF running_ THEN "poll" ELSE "done"
  /\ pollout' = ~writable_
  /\ UNCHANGED <<revents, stopping, reading, writing>>

\* What poll reports.
Revents ==
  {e \in {"in", "out", "wake"} :
     \/ e = "in" /\ (arrived # <<>> \/ closed)
     \/ e = "out" /\ pollout /\ Len(kernel) < KernelSize
     \/ e = "wake" /\ wake > 0}

PollReturns ==
  /\ thread = "poll" /\ Revents # {}
  /\ revents' = Revents
  /\ thread' = "out"
  /\ UNCHANGED <<pollout, stopping, reading, writing>>

\* The thread's own DispatchWrites, if it asked for POLLOUT.
HandleOut ==
  /\ thread = "out"
  /\ IF "out" \in revents
     THEN \E n \in 0..(KernelSize - Len(kernel)) :
            /\ DispatchWrites(write_buffer_, n)
            /\ thread' = IF writable_ /\ n = 0 THEN "done" ELSE "in"
            /\ writable_' = (writable_ \/ (n > 0 /\ empty(write_buffer_')))
     ELSE thread' = "in" /\ UNCHANGED <<writable_, write_buffer_, kernel>>
  /\ UNCHANGED <<revents, pollout, stopping, reading, written, peer>>

HandleRead ==
  /\ thread = "in" /\ "in" \in revents /\ arrived # <<>>
  /\ \E n \in 1..Len(arrived) :
       /\ read_buffer_' = append(read_buffer_, SubSeq(arrived, 1, n))
       /\ arrived' = SubSeq(arrived, n + 1, Len(arrived))
  /\ thread' = "header"
  /\ UNCHANGED <<revents, pollout, coming, closed, read_header_, delivered, stopping, writing>>

\* Mutant: the header of a packet still incomplete is replaced.
HeaderIsDue_Again == size(read_buffer_) >= HeaderSize

HeaderIsDue == read_header_ = nullptr /\ size(read_buffer_) >= HeaderSize

\* At most one header and one packet for each read.
HandleHeader ==
  /\ thread = "header"
  /\ IF HeaderIsDue
     THEN LET header_buf == take_front(read_buffer_, HeaderSize)
          IN /\ read_header_' = <<Head(coalesce(header_buf.head))>>
             /\ read_buffer_' = header_buf.rest
     ELSE UNCHANGED <<read_header_, read_buffer_>>
  /\ thread' = "packet"
  /\ UNCHANGED <<revents, pollout, arrived, coming, closed, delivered, stopping, writing>>

HandlePacket ==
  /\ thread = "packet"
  /\ IF read_header_ # nullptr /\ size(read_buffer_) >= read_header_[1].data_length
     THEN LET data_chain == take_front(read_buffer_, read_header_[1].data_length)
          IN /\ delivered' = Append(delivered, <<read_header_[1], coalesce(data_chain.head)>>)
             /\ read_buffer_' = data_chain.rest
             /\ read_header_' = nullptr
     ELSE UNCHANGED <<read_header_, read_buffer_, delivered>>
  /\ thread' = "wake"
  /\ UNCHANGED <<revents, pollout, arrived, coming, closed, stopping, writing>>

HandleEOF ==
  /\ thread = "in" /\ "in" \in revents /\ arrived = <<>>
  /\ thread' = "done"
  /\ UNCHANGED <<revents, pollout, stopping, reading, writing>>

HandleNothing ==
  /\ thread = "in" /\ "in" \notin revents
  /\ thread' = "wake"
  /\ UNCHANGED <<revents, pollout, stopping, reading, writing>>


HandleWake ==
  /\ thread = "wake"
  /\ wake' = IF "wake" \in revents THEN wake - 1 ELSE wake
  /\ thread' = "loop"
  /\ UNCHANGED <<revents, pollout, running_, stop, reading, writing>>

Run ==
  \/ RunBegins \/ RunLoops \/ PollReturns \/ HandleOut
  \/ HandleRead \/ HandleHeader \/ HandlePacket \/ HandleEOF \/ HandleNothing \/ HandleWake

-----------------------------------------------------------------------------
(* The peer *)

PeerSends ==
  /\ coming # <<>> /\ ~closed
  /\ \E n \in 1..Len(coming) :
       /\ arrived' = arrived \o SubSeq(coming, 1, n)
       /\ coming' = SubSeq(coming, n + 1, Len(coming))
  /\ UNCHANGED <<thread, revents, pollout, stopping, closed, read_buffer_, read_header_, delivered, writing>>

PeerCloses ==
  /\ ~closed /\ closed' = TRUE
  /\ UNCHANGED <<thread, revents, pollout, stopping, arrived, coming, read_buffer_, read_header_, delivered, writing>>

PeerReceives ==
  /\ kernel # <<>>
  /\ peer' = peer \o kernel /\ kernel' = <<>>
  /\ UNCHANGED <<thread, revents, pollout, stopping, reading, writable_, write_buffer_, written>>

Next ==
  \/ Start \/ StopBegins \/ WakeThread \/ StopJoins \/ Write
  \/ Run \/ PeerSends \/ PeerCloses \/ PeerReceives

Spec == Init /\ [][Next]_vars

\* The thread keeps running: a thread that is not blocked in poll, and has not
\* ended, moves on.  (Every step of Run changes thread, and nothing else but
\* Start does; this is WF_vars(Run) without its ENABLED.)
ThreadRuns ==
  \/ []<>(thread \in {"none", "done"} \/ (thread = "poll" /\ Revents = {}))
  \/ []<><<thread' # thread>>_vars

\* The threads run, and the peer takes what it is sent.
FairSpec ==
  /\ Spec /\ ThreadRuns /\ WF_vars(PeerReceives)
  /\ WF_vars(WakeThread) /\ WF_vars(StopJoins)
=============================================================================
