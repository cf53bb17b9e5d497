--------------------------- MODULE AdbStreamProps ---------------------------
(* What the streams of AdbStream promise.                                  *)
EXTENDS AdbStream, SequencesExt

InWire(p, m) == \E k \in DOMAIN wire[p] : wire[p][k] = m

(* Neither process has a new connection to learn of.                       *)
Established ==
  /\ link /\ \A p \in Procs : online[p] /\ ~InWire(p, CNXN)

(* Socket i of p is on the socket list, bound to remote j.                 *)
Bound(p, i, j) ==
  /\ i \in Ids
  /\ sock[p][i].st = "open"
  /\ sock[p][i].peer = j

----------------------------------------------------------------------------
(* How many packets to p about its socket i, from remote j, satisfy P.     *)
InFlight(p, cmd, j, i) ==
  Cardinality({k \in DOMAIN wire[p] :
                 /\ wire[p][k].cmd = cmd
                 /\ wire[p][k].arg0 = j
                 /\ wire[p][k].arg1 = i})

One(b) == IF b THEN 1 ELSE 0

(* The flow-control credit of each direction of a stream is one: the       *)
(* sender may read its fd, or a WRITE is on its way, or the receiver still *)
(* has to drain its queue, or a READY is on its way back -- exactly one of *)
(* these.  So a stream never stalls for lack of a READY and never has two  *)
(* WRITEs outstanding, as long as the sender's client has not shut down    *)
(* (then POLLRDHUP reads its fd whatever the mask says).                   *)
OneCredit ==
  Established =>
    \A p \in Procs, i, j \in Ids :
      LET q == Other(p)
      IN  Bound(p, i, j) /\ Bound(q, j, i) /\ ~fd[p][i].shut =>
            One("R" \in sock[p][i].want) + InFlight(q, "WRTE", i, j)
            + One("W" \in sock[q][j].want) + InFlight(p, "OKAY", j, i) = 1

(* No end of a stream is left behind: an open socket has its counterpart,  *)
(* or a packet is on its way that will connect it or close it (the READY   *)
(* to a socket that has closed is one: it is answered with a CLOSE).       *)
NoOrphan ==
  Established =>
    \A p \in Procs, i \in Ids :
      LET q == Other(p)
          j == sock[p][i].peer
      IN  sock[p][i].st = "open" =>
            IF j = 0
            THEN \/ InWire(q, OPEN(i)) \/ InWire(p, CLSE(0, i))
                 \/ \E k \in Ids : InWire(p, OKAY(k, i))
            ELSE \/ Bound(q, j, i)
                 \/ InWire(p, CLSE(j, i))
                 \/ ~Bound(q, j, i) /\ InWire(q, OKAY(i, j))

(* A transport that is not online has no stream: handle_offline closed     *)
(* them all, and Connect and OPEN wait for the next CONNECT.               *)
OfflineHasNoStreams ==
  \A p \in Procs : ~online[p] => \A i \in Ids : sock[p][i].st # "open"

----------------------------------------------------------------------------
(* The data on its way to, or at, the far end of fd i of p, oldest first.  *)
Pipeline(p, i) ==
  LET s == sock[p][i]
      Mine(m) == m.cmd = "WRTE" /\ m.arg1 = i /\ s.st = "open" /\ m.arg0 = s.peer
      w == SelectSeq(wire[p], Mine)
      flight == FlattenSeq([k \in DOMAIN w |-> w[k].data])
  IN  fd[p][i].got \o fd[p][i].buf \o s.queue
      \o (IF Established THEN flight ELSE <<>>)

(* What a far end receives is a contiguous piece of what one far end of    *)
(* the other process wrote: nothing is duplicated, reordered, skipped or   *)
(* mixed in from another stream, another session or another life of the    *)
(* other process, through partial writes, closings and reconnections.      *)
Contiguous ==
  \A p \in Procs, i \in Ids :
    LET d == Pipeline(p, i)
    IN  \A k \in DOMAIN d :
          /\ d[k][1][1] = Other(p)
          /\ d[k] = <<d[1][1], d[1][2] + k - 1>>

----------------------------------------------------------------------------
(* Every OPEN is answered: the socket that waits for its first READY is    *)
(* connected or closed (protocol.txt, OPEN).                               *)
OpenIsAnswered ==
  \A p \in Procs, i \in Ids :
    (sock[p][i].st = "open" /\ sock[p][i].peer = 0)
      ~> ~(sock[p][i].st = "open" /\ sock[p][i].peer = 0)

(* A stream that has lost one end loses the other: the socket whose        *)
(* counterpart is closed does not stay open.                               *)
CloseReachesBothEnds ==
  \A p \in Procs, i, j \in Ids :
    (Bound(p, i, j) /\ sock[Other(p)][j].st # "open") ~> ~Bound(p, i, j)

(* What a client writes arrives at the other end, or the stream closes:    *)
(* no loss of a READY or of an event stalls it.                            *)
DataArrives ==
  \A p \in Procs, i, j \in Ids : \A k \in 1 .. MaxSend[p] :
    (Bound(p, i, j) /\ fd[p][i].sent >= k)
      ~> \/ ~Bound(p, i, j)
         \/ \E n \in DOMAIN fd[Other(p)][j].got :
              fd[Other(p)][j].got[n] = <<Source(p, i), k>>

----------------------------------------------------------------------------
(* What the documents say and the code does not do.                        *)

(* OVERVIEW.TXT: the server is "a pass-through for the data".  What a far  *)
(* end receives begins with the first unit the other one wrote: the read   *)
(* loop of local_socket_flush_outgoing does not lose data.                 *)
FromTheStart ==
  \A p \in Procs, i \in Ids :
    fd[p][i].got # <<>> => fd[p][i].got[1][2] = 1
=============================================================================
