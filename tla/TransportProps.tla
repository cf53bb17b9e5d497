--------------------------- MODULE TransportProps ---------------------------
(* What the life of a transport promises. *)
EXTENDS Transport

Count(s, Test(_)) == Cardinality({i \in 1..Len(s) : Test(s[i])})
One(b) == IF b THEN 1 ELSE 0

Live(t) == tr[t].st = "live"

\* Types; a transport's reference count (ref_count) is zero or one, and the
\* handler and main thread hold at most one transport each.
TypeOK ==
  /\ tr \in [Transports -> [st : {"none", "live", "deleted"}, state : {"Offline", "Device"},
                            online : BOOLEAN, kicked : BOOLEAN, ref : 0..1,
                            est : {"no", "ok", "failed"}, socks : 0..MaxSocks, conns : 0..MaxConns]]
  /\ conn \in [Transports -> [started : BOOLEAN, stopped : BOOLEAN,
                              read : {"none", "reading", "exited"},
                              write : {"none", "waiting", "writing", "exited"},
                              queue : Nat, cnxn : 0..MaxCnxn, reported : BOOLEAN]]
  /\ pending \subseteq Transports /\ list \subseteq Transports
  /\ reg \in Seq(Transports \X {0, 1})
  /\ runq \in Seq({"packet", "error"} \X Transports)
  /\ main \in [at : {"process", "events", "flush", "kick", "close_usb", "unref", "delete",
                     "exit_join", "exit", "exited"},
               todo : SUBSET Transports, t : Transports \cup {nullptr}, join : BOOLEAN]
  /\ kicker \in [t : Transports \cup {nullptr}, join : BOOLEAN]
  /\ running \in BOOLEAN
  /\ rq \in Seq([t : Transports, left : 0..kMaxAttempts]) /\ due \in 0..Len(rq)
  /\ hand \in [pc : {"top", "wait", "reconnect", "exited"}, timed : BOOLEAN, notified : BOOLEAN,
               t : Transports \cup {nullptr}, left : 0..kMaxAttempts]
  /\ waiter \in [Transports -> {"none", "waiting", "connected", "returned"}]

(***************************************************************************)
(* A transport that exists is in exactly one pair of hands: a message on   *)
(* the registration socket, its connection's reference, the main thread    *)
(* inside transport_unref or the delete, the reconnect queue, or the       *)
(* handler that reconnects it.  So none is leaked, none is deleted twice,  *)
(* and none is used by one thread while another deletes it.                *)
(***************************************************************************)
Owners(t) ==
  LET Is(m) == m[1] = t
      IsAttempt(a) == a.t = t
  IN Count(reg, Is) + tr[t].ref + Count(rq, IsAttempt) + One(hand.t = t)
       + One(main.at \in {"unref", "delete"} /\ main.t = t)

OneOwner == \A t \in Transports : Owners(t) = One(Live(t))

(***************************************************************************)
(* However the read thread, the write thread and Stop race to report, the  *)
(* run queue holds one error closure for a connection that reported and    *)
(* still has its reference, and none otherwise: transport_unref's          *)
(* CHECK_GT(ref_count, 0) never fails and no reference is forgotten.       *)
(***************************************************************************)
OneError ==
  \A t \in Transports :
    LET IsError(q) == q = <<"error", t>>
    IN Count(runq, IsError) = One(tr[t].ref = 1 /\ conn[t].reported)

(***************************************************************************)
(* Whatever the run queue, a kick in progress or the handler still refers  *)
(* to exists, and a deleted transport has no thread of its own left.       *)
(***************************************************************************)
NothingDangles ==
  /\ \A i \in 1..Len(runq) : Live(runq[i][2])
  /\ \A t \in pending \cup list \cup main.todo \cup ({kicker.t, hand.t, main.t} \ {nullptr}) : Live(t)
  /\ \A t \in Transports : ~Live(t) => conn[t].read # "reading" /\ conn[t].write \notin {"waiting", "writing"}

\* No two socket transports of one device are listed or about to be, however
\* many threads register it at once (the EALREADY checks).
OnePerDevice ==
  \A t, u \in pending \cup list :
    Serial[t] = Serial[u] /\ Kind[t] # "usb" /\ Kind[u] # "usb" => t = u

(***************************************************************************)
(* A message on the registration socket finds its transport idle: one to   *)
(* add, a connection that never started (Start dies on a second call); one *)
(* to remove, a connection whose threads are gone, so that the delete does *)
(* not wait on the main thread and reports no error for a dead transport.  *)
(***************************************************************************)
Handover ==
  \A i \in 1..Len(reg) :
    LET c == conn[reg[i][1]]
    IN IF reg[i][2] = 1 THEN ~c.started ELSE c.stopped /\ Exited(c)

(***************************************************************************)
(* Stop returns, whoever calls it and whatever the two threads are in.     *)
(***************************************************************************)
StopReturns == main.join ~> ~main.join
KickReturns == kicker.t # nullptr ~> kicker.t = nullptr

\* The server is leaving its event loop for good.
Exiting == main.at \in {"exit_join", "exit", "exited"}

(***************************************************************************)
(* A transport that lost its connection is reconnected or deleted; it does *)
(* not stay in the list for ever with nobody working on it.                *)
(***************************************************************************)
LostIsResolved ==
  \A t \in Transports :
    (Live(t) /\ tr[t].ref = 0) ~> (tr[t].ref = 1 \/ ~Live(t) \/ Exiting)

-----------------------------------------------------------------------------
(* What a comment says, and the code does not do *)

(***************************************************************************)
(* ConnectionWaitable is "a separate object so that the transport can be   *)
(* destroyed and another thread can be notified of it in a race-free way": *)
(* the thread it wakes does not then touch a destroyed transport.          *)
(***************************************************************************)
WaiterFindsTransport == \A t \in Transports : waiter[t] = "connected" => Live(t)
=============================================================================
