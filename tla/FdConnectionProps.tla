------------------------- MODULE FdConnectionProps -------------------------
(***************************************************************************)
(* What NonblockingFdConnection owes its user.                             *)
(***************************************************************************)
EXTENDS FdConnection

\* Types; the wake-up pipe holds at most the one wake-up of Stop, and a poll
\* that asked for POLLOUT did so because writable_ was false.
TypeOK ==
  /\ thread \in {"none", "spawned", "loop", "poll", "out", "in", "header", "packet", "wake", "done"}
  /\ stop \in {"none", "wake", "join", "done"}
  /\ {running_, pollout, writable_, closed} \subseteq BOOLEAN
  /\ revents \subseteq {"in", "out", "wake"}
  /\ wake \in 0..1
  /\ written \in 0..Len(Outgoing)
  /\ Len(kernel) <= KernelSize
  /\ Len(delivered) <= Len(Incoming)

Packet(n) ==
  LET pieces == Pieces(n, Incoming[n])
  IN <<Head(pieces), SubSeq(pieces, HeaderSize + 1, Len(pieces))>>

\* However the bytes of the peer's packets are cut up by the reads, what Run
\* hands to read_callback_ is those packets, whole, in order and once each.
PacketsReassembled == \A n \in 1..Len(delivered) : delivered[n] = Packet(n)

\* Whatever short writes and failed writes DispatchWrites meets, what the peer
\* received, what the kernel holds and what write_buffer_ keeps is, end to end,
\* the packets given to Write in their order.
WritesInOrder == peer \o kernel \o coalesce(write_buffer_) = Stream(SubSeq(Outgoing, 1, written))

\* However reads and short writes split the blocks, the two IOVectors stay well
\* formed: no CHECK of types.h fails and size(), which decides when a header, a
\* packet or the whole buffer is there, is exact.
BuffersExact == WellFormed(read_buffer_) /\ WellFormed(write_buffer_)

\* Once Run has set running_, a Stop ends the thread and returns: the wake-up
\* byte reaches the poll wherever the thread was.  (A Stop that comes before is
\* undone by the thread's SetRunning(true), and its join does not return.)
StopOfRunningReturns == (stop = "wake" /\ ~running_ /\ thread # "spawned") ~> (stop = "done")
=============================================================================
