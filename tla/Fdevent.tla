------------------------------ MODULE Fdevent ------------------------------
(***************************************************************************)
(* The event loop of adb (fdevent.cpp): the fdevents the main thread       *)
(* polls, the list of the ones with an event to report, and the run queue  *)
(* through which other threads hand closures to the main thread.           *)
(*                                                                         *)
(* A callback and a closure may create, destroy and change any fdevent,    *)
(* the one whose callback is running included; what they do otherwise is   *)
(* the business of other modules.  Any thread may queue a closure.         *)
(***************************************************************************)
EXTENDS Naturals, Sequences, FiniteSets, SequencesExt

CONSTANTS
  Fds,          \* the file descriptors the kernel hands out
  nofde,        \* no fdevent
  NotifyCap,    \* bytes the run queue's notify socket holds
  NotifyRead,   \* bytes fdevent_run_func reads of it (1024)
  MaxFdes,      \* bound: fdevents created beside the run queue's own
  MaxOps,       \* bound: operations on fdevents in one callback or closure
  MaxQueued     \* bound: closures queued

ASSUME FdeventAssumption ==
  /\ {NotifyCap, NotifyRead, MaxFdes, MaxOps, MaxQueued} \subseteq Nat
  /\ NotifyCap > 0 /\ NotifyRead > 0
  /\ nofde \notin 0..MaxFdes

VARIABLES
  fdes,             \* fdes[i]: the i-th fdevent; 0 is the run queue's own
  fdevent_id,       \* how many fdevents were created beside it
  g_pending_list,
  notify,           \* bytes in the notify socket
  installed,        \* run_queue_notify_fd # -1
  run_needs_flush,
  run_queue,        \* closures, numbered in the order they were queued
  queued,           \* how many were queued
  ran,              \* how many ran
  loop              \* where the main thread is, and in whose callback

vars == <<fdes, fdevent_id, g_pending_list, notify, installed, run_needs_flush, run_queue, queued, ran, loop>>
pollset == <<fdes, fdevent_id, g_pending_list>>
runqueue == <<notify, installed, run_needs_flush, run_queue, queued, ran>>

RunFde == 0
Ids == 0..MaxFdes

\* "changed" records that the mask changed since the last poll.
NoFde == [st |-> "none", fd |-> nofde, want |-> {}, pending |-> FALSE, events |-> {}, changed |-> FALSE]

Live == {i \in Ids : fdes[i].st = "live"}

\* g_poll_node_map, whose keys are the descriptors of the live fdevents.
Polled == {fdes[i].fd : i \in Live}

At(where) == [at |-> where, fde |-> nofde, ops |-> 0]

Init ==
  /\ fdes = [i \in Ids |-> NoFde]
  /\ fdevent_id = 0 /\ g_pending_list = <<>>
  /\ notify = 0 /\ installed = FALSE /\ run_needs_flush = FALSE
  /\ run_queue = <<>> /\ queued = 0 /\ ran = 0
  /\ loop = At("setup")

-----------------------------------------------------------------------------
(* Operations on an fdevent, from a callback or a closure *)

Without(f) == SelectSeq(g_pending_list, LAMBDA g : g # f)

InUserCode ==
  /\ loop.at \in {"call", "run"} /\ loop.ops > 0
  /\ loop' = [loop EXCEPT !.ops = @ - 1]

fdevent_create(fd) ==
  /\ InUserCode
  /\ fd \notin Polled /\ fdevent_id < MaxFdes
  /\ fdevent_id' = fdevent_id + 1
  /\ fdes' = [fdes EXCEPT ![fdevent_id'] = [NoFde EXCEPT !.st = "live", !.fd = fd]]
  /\ UNCHANGED <<g_pending_list, runqueue>>

\* Mutant: the pending list is left alone.
fdevent_destroy_Listed(f) ==
  /\ InUserCode
  /\ f \in Live \ {RunFde}
  /\ fdes' = [fdes EXCEPT ![f] = [NoFde EXCEPT !.st = "freed"]]
  /\ UNCHANGED <<g_pending_list, fdevent_id, runqueue>>

fdevent_destroy(f) ==
  /\ InUserCode
  /\ f \in Live \ {RunFde}
  /\ g_pending_list' = IF fdes[f].pending THEN Without(f) ELSE g_pending_list
  /\ fdes' = [fdes EXCEPT ![f] = [NoFde EXCEPT !.st = "freed"]]
  /\ UNCHANGED <<fdevent_id, runqueue>>

\* Mutant: what was polled before is reported whatever is wanted now.
Wanted_Polled(events, want) == events

Wanted(events, want) == events \cap want

\* fdevent_set, and fdevent_add and fdevent_del, which compute its argument.
\* It returns early when nothing changes.
fdevent_set(f, want) ==
  /\ InUserCode
  /\ f \in Live \ {RunFde} /\ fdes[f].want # want
  /\ LET e == fdes[f]
         left == IF e.pending THEN Wanted(e.events, want) ELSE e.events
     IN /\ fdes' = [fdes EXCEPT ![f].want = want, ![f].events = left,
                                ![f].pending = e.pending /\ left # {}, ![f].changed = TRUE]
        /\ g_pending_list' = IF e.pending /\ left = {} THEN Without(f) ELSE g_pending_list
  /\ UNCHANGED <<fdevent_id, runqueue>>

-----------------------------------------------------------------------------
(* fdevent_loop *)

\* Mutant: the setup does not flush.
fdevent_run_setup_NoFlush ==
  /\ loop.at = "setup"
  /\ installed' = TRUE
  /\ fdes' = [fdes EXCEPT ![RunFde] = [NoFde EXCEPT !.st = "live", !.want = {"READ"}]]
  /\ loop' = At("process")
  /\ UNCHANGED <<fdevent_id, g_pending_list, notify, run_needs_flush, run_queue, queued, ran>>

\* fdevent_run_setup, up to its flush
fdevent_run_setup ==
  /\ loop.at = "setup"
  /\ installed' = TRUE
  /\ fdes' = [fdes EXCEPT ![RunFde] = [NoFde EXCEPT !.st = "live", !.want = {"READ"}]]
  /\ loop' = At("flush")
  /\ UNCHANGED <<fdevent_id, g_pending_list, notify, run_needs_flush, run_queue, queued, ran>>

\* What poll reports of f, translated: what is wanted, and always errors and
\* the peer's hang-up (POLLRDHUP), which pass for READ and ERROR.
Revents(f) ==
  IF f = RunFde THEN {IF notify > 0 THEN {"READ"} ELSE {}}
  ELSE {w : w \in SUBSET fdes[f].want} \cup {w \cup {"READ", "ERROR"} : w \in SUBSET fdes[f].want}

\* The map is unordered, so the list is filled in any order.
fdevent_process ==
  /\ loop.at = "process"
  /\ \E revents \in [Live -> SUBSET {"READ", "WRITE", "ERROR"}] :
       LET ready == {f \in Live : revents[f] # {}}
       IN /\ \A f \in Live : revents[f] \in Revents(f)
          /\ ready # {}
          /\ fdes' = [f \in Ids |-> IF f \in ready
                        THEN [fdes[f] EXCEPT !.events = @ \cup revents[f], !.pending = TRUE, !.changed = FALSE]
                        ELSE fdes[f]]
          /\ \E order \in SetToSeqs(ready) : g_pending_list' = g_pending_list \o order
  /\ loop' = At("pending")
  /\ UNCHANGED <<fdevent_id, runqueue>>

\* fdevent_run_func: one read.
Emptied(bytes) == IF bytes > NotifyRead THEN bytes - NotifyRead ELSE 0

\* fdevent_call_fdfunc for the first of the list.
fdevent_call_fdfunc ==
  /\ loop.at = "pending" /\ g_pending_list # <<>>
  /\ LET f == Head(g_pending_list)
     IN /\ fdes' = [fdes EXCEPT ![f].events = {}, ![f].pending = FALSE]
        /\ IF f = RunFde
           THEN /\ notify' = Emptied(notify) /\ run_needs_flush' = TRUE
                /\ UNCHANGED loop
           ELSE /\ loop' = [at |-> "call", fde |-> f, ops |-> MaxOps]
                /\ UNCHANGED <<notify, run_needs_flush>>
  /\ g_pending_list' = Tail(g_pending_list)
  /\ UNCHANGED <<fdevent_id, installed, run_queue, queued, ran>>

CallbackReturns ==
  /\ loop.at = "call"
  /\ loop' = At("pending")
  /\ UNCHANGED <<pollset, runqueue>>

EndPending ==
  /\ loop.at = "pending" /\ g_pending_list = <<>>
  /\ loop' = IF run_needs_flush THEN At("flush") ELSE At("process")
  /\ UNCHANGED <<pollset, runqueue>>


\* One turn of fdevent_run_flush.
fdevent_run_flush ==
  /\ loop.at = "flush" /\ run_queue # <<>>
  /\ run_queue' = Tail(run_queue)
  /\ loop' = [at |-> "run", fde |-> nofde, ops |-> MaxOps]
  /\ UNCHANGED <<pollset, notify, installed, run_needs_flush, queued, ran>>

ClosureReturns ==
  /\ loop.at = "run"
  /\ ran' = ran + 1
  /\ loop' = At("flush")
  /\ UNCHANGED <<pollset, notify, installed, run_needs_flush, run_queue, queued>>

\* fdevent_run_flush has seen the queue empty; its mutex is free again.
FlushEnds ==
  /\ loop.at = "flush" /\ run_queue = <<>>
  /\ loop' = At("flushed")
  /\ UNCHANGED <<pollset, runqueue>>

\* Mutant: what came in during the flush is taken for flushed.
EndFlush_Empties ==
  /\ loop.at = "flushed"
  /\ run_needs_flush' = FALSE /\ notify' = 0
  /\ loop' = At("process")
  /\ UNCHANGED <<pollset, installed, run_queue, queued, ran>>

EndFlush ==
  /\ loop.at = "flushed"
  /\ run_needs_flush' = FALSE
  /\ loop' = At("process")
  /\ UNCHANGED <<pollset, notify, installed, run_queue, queued, ran>>

\* A byte, unless the notify fd is not there yet or full (EAGAIN).
Notified == IF installed /\ notify < NotifyCap THEN notify + 1 ELSE notify

\* Any thread, the main thread in a callback included.
fdevent_run_on_main_thread ==
  /\ queued < MaxQueued
  /\ queued' = queued + 1
  /\ run_queue' = Append(run_queue, queued')
  /\ notify' = Notified
  /\ UNCHANGED <<pollset, installed, run_needs_flush, ran, loop>>

UserCode ==
  \/ \E fd \in Fds : fdevent_create(fd)
  \/ \E f \in Ids : fdevent_destroy(f)
  \/ \E f \in Ids, want \in SUBSET {"READ", "WRITE"} : fdevent_set(f, want)

MainThread ==
  \/ fdevent_run_setup \/ fdevent_process \/ fdevent_call_fdfunc \/ CallbackReturns
  \/ EndPending \/ fdevent_run_flush \/ ClosureReturns \/ FlushEnds \/ EndFlush

Next == MainThread \/ UserCode \/ fdevent_run_on_main_thread

Spec == Init /\ [][Next]_vars

\* The main thread runs, and callbacks and closures return.
FairSpec == Spec /\ WF_vars(MainThread)
=============================================================================
