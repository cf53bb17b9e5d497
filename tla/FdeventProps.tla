---------------------------- MODULE FdeventProps ----------------------------
(* What the event loop promises. *)
EXTENDS Fdevent

\* Types; no more closures run than were queued, and the notify socket holds
\* at most its capacity.
TypeOK ==
  /\ fdes \in [Ids -> [st : {"none", "live", "freed"}, fd : Fds \cup {nofde},
                       want : SUBSET {"READ", "WRITE"}, pending : BOOLEAN,
                       events : SUBSET {"READ", "WRITE", "ERROR"}, changed : BOOLEAN]]
  /\ fdevent_id \in 0..MaxFdes
  /\ g_pending_list \in Seq(Ids)
  /\ notify \in 0..NotifyCap /\ installed \in BOOLEAN /\ run_needs_flush \in BOOLEAN
  /\ run_queue \in Seq(1..MaxQueued) /\ queued \in 0..MaxQueued /\ ran \in 0..MaxQueued
  /\ loop \in [at : {"setup", "process", "pending", "call", "flush", "run", "flushed"},
               fde : Ids \cup {nofde}, ops : 0..MaxOps]

(***************************************************************************)
(* Whatever callbacks destroy or change, the pending list holds each       *)
(* fdevent marked FDE_PENDING once, and nothing else: no callback of a     *)
(* destroyed fdevent is called, and the CHECK in fdevent_call_fdfunc holds.*)
(***************************************************************************)
PendingIsListed ==
  /\ IsInjective(g_pending_list)
  /\ Range(g_pending_list) = {f \in Live : fdes[f].pending}
  /\ \A f \in Live : fdes[f].pending <=> fdes[f].events # {}

(***************************************************************************)
(* An fdevent whose mask changed after the poll reports only what the new  *)
(* mask wants ("make sure we don't signal an event that is no longer       *)
(* wanted"), through any number of changes back and forth.                 *)
(***************************************************************************)
NothingUnwanted ==
  \A f \in Live : fdes[f].pending /\ fdes[f].changed => fdes[f].events \subseteq fdes[f].want

(***************************************************************************)
(* No closure waits for a wakeup that was used up: while there is one, the *)
(* notify socket has a byte for the next poll, or this turn of the loop,   *)
(* or the setup, still flushes.                                            *)
(***************************************************************************)
QueueIsNoticed ==
  run_queue # <<>> =>
    \/ notify > 0
    \/ run_needs_flush /\ loop.at # "flushed"
    \/ loop.at \in {"setup", "flush", "run"}

\* Every closure runs, however the notifications and the flushes interleave.
ClosuresRun == \A n \in 1..MaxQueued : queued >= n ~> ran >= n
=============================================================================
