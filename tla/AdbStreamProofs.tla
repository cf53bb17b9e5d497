-------------------------- MODULE AdbStreamProofs --------------------------
(***************************************************************************)
(* TypeOK and SocketSafe hold of AdbStream for every number of sockets,    *)
(* every payload and buffer size and any number of failures and restarts.  *)
(* The argument follows the code: each callback of LocalSocket takes a     *)
(* good context to a good context (the lemmas), and each action applies    *)
(* one callback to one socket.                                             *)
(***************************************************************************)
EXTENDS AdbStream, TLAPS, SequenceTheorems

Results == {"none", "TryAgain", "Destroyed", "Completed"}

Contexts == [s : Socket, f : Fd, out : Seq(Packet), res : Results]

GoodSocket(s, i) == s \in Socket /\ SafeSocket(s) /\ Installed(s, i)

Good(c, i) == c \in Contexts /\ GoodSocket(c.s, i)

(* fdevent_set changes the mask and drops events, nothing else.            *)
LEMMA FdeventSet ==
  ASSUME NEW s \in Socket, NEW mask \in SUBSET {"R", "W"},
         NEW t, t = fdevent_set(s, mask)
  PROVE  /\ t \in Socket
         /\ t.st = s.st /\ t.id = s.id /\ t.peer = s.peer
         /\ t.queue = s.queue /\ t.werr = s.werr /\ t.notify = s.notify
         /\ t.want = mask
         /\ t.events \subseteq s.events
         /\ ("W" \in s.events => "W" \in s.want) =>
              ("W" \in t.events => "W" \in mask)
BY DEF fdevent_set, Socket

(* fdevent_add asks for one more event.                                    *)
LEMMA FdeventAdd ==
  ASSUME NEW s \in Socket, NEW ev \in {"R", "W"},
         NEW t, t = fdevent_add(s, ev)
  PROVE  /\ t \in Socket
         /\ t.st = s.st /\ t.id = s.id /\ t.peer = s.peer
         /\ t.queue = s.queue /\ t.werr = s.werr /\ t.notify = s.notify
         /\ t.want = s.want \cup {ev}
         /\ t.events \subseteq s.events
         /\ ("W" \in s.events => "W" \in s.want) =>
              ("W" \in t.events => "W" \in t.want)
<1>1. s.want \cup {ev} \in SUBSET {"R", "W"}
  BY DEF Socket
<1>2. t = fdevent_set(s, s.want \cup {ev})
  BY DEF fdevent_add
<1>. QED  BY <1>1, <1>2, FdeventSet

(* fdevent_del asks for one less.                                          *)
LEMMA FdeventDel ==
  ASSUME NEW s \in Socket, NEW ev \in {"R", "W"},
         NEW t, t = fdevent_del(s, ev)
  PROVE  /\ t \in Socket
         /\ t.st = s.st /\ t.id = s.id /\ t.peer = s.peer
         /\ t.queue = s.queue /\ t.werr = s.werr /\ t.notify = s.notify
         /\ t.want = s.want \ {ev}
         /\ t.events \subseteq s.events
         /\ ("W" \in s.events => "W" \in s.want) =>
              ("W" \in t.events => "W" \in t.want)
<1>1. s.want \ {ev} \in SUBSET {"R", "W"}
  BY DEF Socket
<1>2. t = fdevent_set(s, s.want \ {ev})
  BY DEF fdevent_del
<1>. QED  BY <1>1, <1>2, FdeventSet

(* The ids the constants leave room for.                                   *)
LEMMA IdFacts ==
  /\ MaxId \in Nat /\ 1 \in Ids /\ 0 \in 0 .. MaxId
  /\ \A i \in Ids : i \in 0 .. MaxId /\ i # 0
  /\ \A i \in 0 .. MaxId : i # 0 => i \in Ids
BY StreamAssumption DEF Ids

(* The packets the callbacks send are well formed.                         *)
LEMMA PacketTypes ==
  /\ CNXN \in Packet
  /\ \A l \in Ids : OPEN(l) \in Packet
  /\ \A l, r \in Ids : OKAY(l, r) \in Packet
  /\ \A l \in 0 .. MaxId, r \in Ids : CLSE(l, r) \in Packet
  /\ \A l, r \in Ids, d \in Seq(Data) : WRTE(l, r, d) \in Packet
BY DEF CNXN, OPEN, OKAY, CLSE, WRTE, Packet

(* Nothing is left of a destroyed socket but its fd's far end.             *)
LEMMA GoodDestroy ==
  ASSUME NEW i \in Ids, NEW c \in Contexts
  PROVE  Good(local_socket_destroy(c), i)
<1>1. NoSocket \in Socket
  BY IdFacts DEF NoSocket, Socket
<1>2. SafeSocket(NoSocket) /\ Installed(NoSocket, i)
  BY DEF SafeSocket, Installed, NoSocket
<1>3. [c.f EXCEPT !.open = FALSE] \in Fd
  BY DEF Contexts, Fd
<1>. QED
  BY <1>1, <1>2, <1>3 DEF local_socket_destroy, Good, GoodSocket, Contexts

(* A packet is added to what a context sends.                              *)
LEMMA GoodAppend ==
  ASSUME NEW i, NEW c, Good(c, i), NEW m \in Packet
  PROVE  LET d == [c EXCEPT !.out = Append(@, m)]
         IN  Good(d, i) /\ d.s = c.s /\ d.f = c.f /\ d.res = c.res
<1>1. Append(c.out, m) \in Seq(Packet)
  BY DEF Good, Contexts
<1>. QED  BY <1>1 DEF Good, Contexts

(* A context's socket is replaced.                                         *)
LEMMA GoodReplace ==
  ASSUME NEW i, NEW c \in Contexts, NEW t, GoodSocket(t, i)
  PROVE  LET d == [c EXCEPT !.s = t]
         IN  Good(d, i) /\ d.s = t /\ d.f = c.f /\ d.res = c.res
BY DEF Good, GoodSocket, Contexts

(* local_socket_close leaves no socket, or one that its CHECK accepts.     *)
LEMMA GoodLocalClose ==
  ASSUME NEW i \in Ids, NEW c, Good(c, i), c.s.st # "none"
  PROVE  Good(local_socket_close(c), i)
<1>. DEFINE d == IF c.s.peer = 0 THEN c
                 ELSE [remote_socket_shutdown(c) EXCEPT !.s.peer = 0]
            r == [d.s EXCEPT !.st = "closing"]
            t == fdevent_del(r, "R")
<1>1. c \in Contexts /\ c.s \in Socket /\ SafeSocket(c.s) /\ c.s.id = i
  BY DEF Good, GoodSocket, Installed, Contexts
<1>2. /\ d \in Contexts
      /\ d.s = [c.s EXCEPT !.peer = 0]
  <2>1. CASE c.s.peer = 0
    BY <1>1, <2>1 DEF Socket
  <2>2. CASE c.s.peer # 0
    <3>. DEFINE e == remote_socket_shutdown(c)
    <3>1. CLSE(c.s.id, c.s.peer) \in Packet
      BY <1>1, <2>2, PacketTypes, IdFacts DEF Socket
    <3>2. e \in Contexts /\ e.s = c.s
      BY <3>1, GoodAppend DEF remote_socket_shutdown, Good
    <3>3. [c.s EXCEPT !.peer = 0] \in Socket
      BY <1>1, IdFacts DEF Socket
    <3>4. d = [e EXCEPT !.s.peer = 0]
      BY <2>2
    <3>. HIDE DEF d, e
    <3>. QED  BY <3>2, <3>3, <3>4 DEF Contexts
  <2>. QED  BY <2>1, <2>2
<1>3. local_socket_close(c) =
        IF MustDrain(d.s) THEN [d EXCEPT !.s = t] ELSE local_socket_destroy(d)
  BY DEF local_socket_close
<1>. HIDE DEF d
<1>4. CASE ~MustDrain(d.s)
  BY <1>2, <1>3, <1>4, GoodDestroy
<1>5. CASE MustDrain(d.s)
  <2>1. /\ r \in Socket /\ r.st = "closing" /\ r.peer = 0
        /\ r.id = i /\ r.want = c.s.want /\ r.events = c.s.events
        /\ r.queue = c.s.queue /\ r.werr = c.s.werr
    BY <1>1, <1>2, IdFacts DEF Socket
  <2>2. r.queue # <<>> /\ ~r.werr
    BY <1>1, <1>2, <1>5 DEF MustDrain, Socket
  <2>. HIDE DEF r
  <2>3. "W" \in r.want /\ ("W" \in r.events => "W" \in r.want)
    BY <1>1, <2>1, <2>2 DEF SafeSocket
  <2>4. /\ t \in Socket /\ t.st = r.st /\ t.id = r.id /\ t.peer = r.peer
        /\ t.queue = r.queue /\ t.werr = r.werr
        /\ t.want = r.want \ {"R"}
    BY <2>1, FdeventDel
  <2>. HIDE DEF t
  <2>5. GoodSocket(t, i)
    BY <2>1, <2>2, <2>3, <2>4 DEF GoodSocket, SafeSocket, Installed
  <2>. QED  BY <1>2, <1>3, <1>5, <2>5, GoodReplace
<1>. QED  BY <1>4, <1>5

(* s->close(s), with or without a client awaiting a status.                *)
LEMMA GoodClose ==
  ASSUME NEW i \in Ids, NEW c, Good(c, i), c.s.st # "none"
  PROVE  Good(Close(c), i)
<1>1. CASE ~c.s.notify
  BY <1>1, GoodLocalClose DEF Close
<1>2. CASE c.s.notify
  <2>. DEFINE d == [c EXCEPT !.s.notify = FALSE, !.f.status = "FAIL"]
  <2>1. d \in Contexts
    BY DEF Good, Contexts, Socket, Fd
  <2>2. /\ d.s.st = c.s.st /\ d.s.id = c.s.id /\ d.s.peer = c.s.peer
        /\ d.s.queue = c.s.queue /\ d.s.werr = c.s.werr
        /\ d.s.want = c.s.want /\ d.s.events = c.s.events
    BY DEF Good, Contexts, Socket
  <2>3. Good(d, i)
    BY <2>1, <2>2 DEF Good, GoodSocket, SafeSocket, Installed, Contexts
  <2>. QED  BY <1>2, <2>2, <2>3, GoodLocalClose DEF Close
<1>. QED  BY <1>1, <1>2

(* s->ready(s).                                                            *)
LEMMA GoodReady ==
  ASSUME NEW i \in Ids, NEW c, Good(c, i), c.s.st # "none"
  PROVE  Good(Ready(c), i)
<1>. DEFINE d == IF c.s.notify
                 THEN [c EXCEPT !.s.notify = FALSE, !.f.status = "OKAY"]
                 ELSE c
            t == fdevent_add(d.s, "R")
<1>1. d \in Contexts
  BY DEF Good, Contexts, Socket, Fd
<1>2. /\ d.s.st = c.s.st /\ d.s.id = c.s.id /\ d.s.peer = c.s.peer
      /\ d.s.queue = c.s.queue /\ d.s.werr = c.s.werr
      /\ d.s.want = c.s.want /\ d.s.events = c.s.events
  BY DEF Good, Contexts, Socket
<1>3. d.s \in Socket
  BY <1>1 DEF Contexts
<1>4. Ready(c) = [d EXCEPT !.s = t]
  BY DEF Ready
<1>. HIDE DEF d
<1>5. /\ t \in Socket
      /\ t.st = d.s.st /\ t.id = d.s.id /\ t.peer = d.s.peer
      /\ t.queue = d.s.queue /\ t.werr = d.s.werr
      /\ t.want = d.s.want \cup {"R"}
      /\ ("W" \in d.s.events => "W" \in d.s.want) =>
           ("W" \in t.events => "W" \in t.want)
  BY <1>3, FdeventAdd
<1>. HIDE DEF t
<1>6. GoodSocket(t, i)
  BY <1>2, <1>5 DEF Good, GoodSocket, SafeSocket, Installed
<1>. QED  BY <1>1, <1>4, <1>6, GoodReplace

(* A context's result is replaced.                                         *)
LEMMA GoodResult ==
  ASSUME NEW i, NEW c, Good(c, i), NEW r \in Results,
         NEW d, d = [c EXCEPT !.res = r]
  PROVE  Good(d, i) /\ d.s = c.s /\ d.f = c.f /\ d.res = r
BY DEF Good, Contexts

(* s->close(s) destroys a socket that is on the closing list.              *)
LEMMA CloseClosing ==
  ASSUME NEW i \in Ids, NEW c \in Contexts, c.s.st = "closing", c.s.peer = 0
  PROVE  Good(Close(c), i)
<1>. DEFINE d == IF c.s.notify
                 THEN [c EXCEPT !.s.notify = FALSE, !.f.status = "FAIL"]
                 ELSE c
<1>1. d \in Contexts /\ d.s.st = "closing" /\ d.s.peer = 0
  BY DEF Contexts, Socket, Fd
<1>2. Close(c) = local_socket_close(d)
  BY DEF Close
<1>. HIDE DEF d
<1>3. local_socket_close(d) = local_socket_destroy(d)
  BY <1>1 DEF local_socket_close, MustDrain
<1>. QED  BY <1>1, <1>2, <1>3, GoodDestroy

(* What local_socket_flush_incoming needs: its socket may have data that   *)
(* is not yet waiting for FDE_WRITE.                                       *)
Flushable(c, i) ==
  /\ c \in Contexts /\ c.s.st # "none" /\ c.s.id = i
  /\ c.s.st = "closing" => ~c.s.werr /\ c.s.peer = 0
  /\ c.s.st = "open" => c.s.peer # 0
  /\ "W" \in c.s.events => "W" \in c.s.want

(* adb_writev takes no more than it is given.                              *)
LEMMA WritevBound ==
  ASSUME NEW f \in Fd, NEW n \in Nat
  PROVE  adb_writev(f, n) \in Int /\ adb_writev(f, n) <= n
<1>1. Len(f.buf) \in Nat /\ FdRoom \in Nat
  BY RoomAssumption DEF Fd
<1>. QED  BY <1>1 DEF adb_writev

(* The queue after n units have gone is what was behind them.              *)
LEMMA TakeFront ==
  ASSUME NEW c \in Contexts, NEW n \in 0 .. Len(c.s.queue),
         NEW d, d = take_front(c, n)
  PROVE  /\ d \in Contexts
         /\ d.s = [c.s EXCEPT !.queue = SubSeq(c.s.queue, n + 1, Len(c.s.queue))]
         /\ d.s.queue = <<>> <=> n = Len(c.s.queue)
<1>. DEFINE q == c.s.queue
            r == SubSeq(q, n + 1, Len(q))
            b == c.f.buf \o SubSeq(q, 1, n)
<1>1. q \in Seq(Data) /\ c.f.buf \in Seq(Data) /\ Len(q) \in Nat
  BY DEF Contexts, Socket, Fd
<1>2. r \in Seq(Data) /\ Len(r) = Len(q) - n
  BY <1>1, SubSeqProperties
<1>3. SubSeq(q, 1, n) \in Seq(Data)
  BY <1>1, SubSeqProperties, LenProperties
<1>4. b \in Seq(Data)
  BY <1>1, <1>3
<1>5. d = [c EXCEPT !.f.buf = b, !.s.queue = r]
  BY DEF take_front
<1>6. r = <<>> <=> Len(r) = 0
  BY <1>2, EmptySeq
<1>. HIDE DEF q, r, b
<1>7. d.s = [c.s EXCEPT !.queue = r] /\ d \in Contexts /\ d.s.queue = r
  <2>1. [c.s EXCEPT !.queue = r] \in Socket /\ [c.s EXCEPT !.queue = r].queue = r
    BY <1>2 DEF Contexts, Socket
  <2>2. [c.f EXCEPT !.buf = b] \in Fd
    BY <1>4 DEF Contexts, Fd
  <2>3. d = [c EXCEPT !.f = [c.f EXCEPT !.buf = b], !.s = [c.s EXCEPT !.queue = r]]
    BY <1>5
  <2>. QED  BY <2>1, <2>2, <2>3 DEF Contexts
<1>. QED  BY <1>1, <1>2, <1>6, <1>7 DEF q, r

(* local_socket_flush_incoming: a completed flush leaves an open socket    *)
(* with a peer, one that must go on has FDE_WRITE armed.                   *)
LEMMA GoodFlushIncoming ==
  ASSUME NEW i \in Ids, NEW c, Flushable(c, i),
         NEW e, e = local_socket_flush_incoming(c)
  PROVE  /\ Good(e, i)
         /\ e.res \in {"TryAgain", "Destroyed", "Completed"}
         /\ e.res = "Completed" =>
              c.s.st = "open" /\ e.s.st = "open" /\ e.s.peer = c.s.peer
         /\ e.res = "TryAgain" => e.s.st = c.s.st /\ e.s.peer = c.s.peer
<1>. DEFINE len == Len(c.s.queue)
            n   == adb_writev(c.f, len)
            d   == IF len > 0 /\ n < 0 THEN [c EXCEPT !.s.werr = TRUE]
                   ELSE IF len > 0 THEN take_front(c, n)
                   ELSE c
            again == len > 0 /\ n >= 0 /\ n < len
<1>1. c \in Contexts /\ c.s \in Socket /\ c.f \in Fd /\ c.s.queue \in Seq(Data)
  BY DEF Flushable, Contexts, Socket
<1>2. len \in Nat /\ n \in Int /\ n <= len
  BY <1>1, WritevBound
<1>3. e = IF again THEN TryAgain(d)
          ELSE IF d.s.st = "closing" THEN [Close(d) EXCEPT !.res = "Destroyed"]
          ELSE [d EXCEPT !.s = fdevent_del(@, "W"), !.res = "Completed"]
  BY DEF local_socket_flush_incoming
<1>4. /\ d \in Contexts
      /\ d.s.st = c.s.st /\ d.s.id = c.s.id /\ d.s.peer = c.s.peer
      /\ d.s.want = c.s.want /\ d.s.events = c.s.events
      /\ again => d.s.queue # <<>> /\ d.s.werr = c.s.werr
      /\ ~again => d.s.queue = <<>> \/ d.s.werr
  <2>1. CASE len > 0 /\ n < 0
    <3>. DEFINE t == [c.s EXCEPT !.werr = TRUE]
    <3>1. d = [c EXCEPT !.s = t] /\ ~again
      BY <1>2, <2>1
    <3>2. /\ t \in Socket /\ t.st = c.s.st /\ t.id = c.s.id /\ t.peer = c.s.peer
          /\ t.want = c.s.want /\ t.events = c.s.events /\ t.werr
      BY <1>1 DEF Socket
    <3>. HIDE DEF d, t, again
    <3>. QED  BY <1>1, <3>1, <3>2 DEF Contexts
  <2>2. CASE len > 0 /\ ~(n < 0)
    <3>1. d = take_front(c, n) /\ n \in 0 .. Len(c.s.queue)
      BY <1>2, <2>2
    <3>2. again <=> n # Len(c.s.queue)
      BY <1>2, <2>2
    <3>. HIDE DEF d, n, again
    <3>3. /\ d \in Contexts
          /\ d.s = [c.s EXCEPT !.queue = SubSeq(c.s.queue, n + 1, Len(c.s.queue))]
          /\ d.s.queue = <<>> <=> n = Len(c.s.queue)
      BY <1>1, <3>1, TakeFront
    <3>. QED  BY <1>1, <3>2, <3>3 DEF Socket
  <2>3. CASE ~(len > 0)
    <3>1. d = c /\ ~again
      BY <2>3
    <3>2. c.s.queue = <<>>
      BY <1>1, <1>2, <2>3, EmptySeq
    <3>. QED  BY <1>1, <3>1, <3>2
  <2>. QED  BY <2>1, <2>2, <2>3
<1>. HIDE DEF d, again, n, len
<1>5. d.s \in Socket
  BY <1>4 DEF Contexts
<1>6. CASE again
  <2>. DEFINE t == fdevent_add(d.s, "W")
              b == [d EXCEPT !.s = t]
  <2>1. /\ t \in Socket /\ t.st = d.s.st /\ t.id = d.s.id /\ t.peer = d.s.peer
        /\ t.queue = d.s.queue /\ t.werr = d.s.werr
        /\ t.want = d.s.want \cup {"W"}
    BY <1>5, FdeventAdd
  <2>2. e = [b EXCEPT !.res = "TryAgain"]
    BY <1>3, <1>4, <1>6 DEF TryAgain, Contexts
  <2>. HIDE DEF t
  <2>3. GoodSocket(t, i)
    BY <1>4, <1>6, <2>1 DEF GoodSocket, SafeSocket, Installed, Flushable, Contexts, Socket
  <2>4. Good(b, i) /\ b.s = t
    BY <1>4, <2>3, GoodReplace
  <2>. HIDE DEF b
  <2>5. Good(e, i) /\ e.s = t /\ e.res = "TryAgain"
    BY <2>2, <2>4, GoodResult DEF Results
  <2>. QED  BY <1>4, <2>1, <2>5
<1>7. CASE ~again /\ d.s.st = "closing"
  <2>. DEFINE b == Close(d)
  <2>1. Good(b, i)
    BY <1>4, <1>7, CloseClosing DEF Flushable
  <2>2. e = [b EXCEPT !.res = "Destroyed"]
    BY <1>3, <1>7
  <2>. HIDE DEF b
  <2>3. Good(e, i) /\ e.res = "Destroyed"
    BY <2>1, <2>2, GoodResult DEF Results
  <2>. QED  BY <2>3
<1>8. CASE ~again /\ d.s.st # "closing"
  <2>. DEFINE t == fdevent_del(d.s, "W")
              b == [d EXCEPT !.s = t]
  <2>1. /\ t \in Socket /\ t.st = d.s.st /\ t.id = d.s.id /\ t.peer = d.s.peer
        /\ t.queue = d.s.queue /\ t.werr = d.s.werr
        /\ t.want = d.s.want \ {"W"}
        /\ ("W" \in d.s.events => "W" \in d.s.want) =>
             ("W" \in t.events => "W" \in t.want)
    BY <1>5, FdeventDel
  <2>2. e = [b EXCEPT !.res = "Completed"]
    BY <1>3, <1>4, <1>8 DEF Contexts
  <2>. HIDE DEF t
  <2>3. d.s.st = "open"
    BY <1>4, <1>5, <1>8 DEF Flushable, Socket
  <2>4. GoodSocket(t, i)
    BY <1>4, <1>8, <2>1, <2>3 DEF GoodSocket, SafeSocket, Installed, Flushable
  <2>5. Good(b, i) /\ b.s = t
    BY <1>4, <2>4, GoodReplace
  <2>. HIDE DEF b
  <2>6. Good(e, i) /\ e.s = t /\ e.res = "Completed"
    BY <2>2, <2>5, GoodResult DEF Results
  <2>. QED  BY <1>4, <2>1, <2>3, <2>6
<1>. QED  BY <1>6, <1>7, <1>8

(* s->enqueue(s, data) on a connected socket.                              *)
LEMMA GoodEnqueue ==
  ASSUME NEW i \in Ids, NEW c, Good(c, i), c.s.st = "open", c.s.peer # 0,
         NEW data \in Seq(Data),
         NEW e, e = local_socket_enqueue(c, data)
  PROVE  Good(e, i)
<1>. DEFINE d == [c EXCEPT !.s.queue = @ \o data]
<1>1. c \in Contexts /\ c.s \in Socket /\ SafeSocket(c.s) /\ c.s.id = i
  BY DEF Good, GoodSocket, Installed, Contexts
<1>2. c.s.queue \o data \in Seq(Data)
  BY <1>1 DEF Socket
<1>3. Flushable(d, i)
  BY <1>1, <1>2 DEF Flushable, Contexts, Socket, SafeSocket
<1>4. e = local_socket_flush_incoming(d)
  BY DEF local_socket_enqueue
<1>. HIDE DEF d
<1>. QED  BY <1>3, <1>4, GoodFlushIncoming

Sources == Procs \X Nat \X Ids

(* local_socket_flush_outgoing sends at most one well-formed WRITE.        *)
LEMMA GoodFlushOutgoing ==
  ASSUME NEW i \in Ids, NEW c, Good(c, i), c.s.st # "none",
         NEW src \in Sources
  PROVE  Good(local_socket_flush_outgoing(c, src), i)
<1>. DEFINE avail == c.f.sent - c.f.read
            n     == IF avail < MaxPayload THEN avail ELSE MaxPayload
            d     == [c EXCEPT !.f.read = @ + n]
            pay   == Payload(c.f, n, src)
            x     == remote_socket_enqueue(d, pay)
            e     == IF n > 0 /\ c.s.peer # 0
                     THEN [x EXCEPT !.s = fdevent_del(@, "R")]
                     ELSE d
<1>1. /\ c \in Contexts /\ c.s \in Socket /\ c.f \in Fd
      /\ SafeSocket(c.s) /\ c.s.id = i /\ MaxPayload \in Nat
  BY PayloadAssumption DEF Good, GoodSocket, Installed, Contexts
<1>2. n \in Int /\ c.f.read + n \in Nat /\ c.f.read \in Nat
  BY <1>1 DEF Fd
<1>3. local_socket_flush_outgoing(c, src) =
        IF n < MaxPayload /\ c.f.shut THEN Close(e) ELSE e
  BY DEF local_socket_flush_outgoing
<1>4. pay = [k \in 1 .. n |-> <<src, c.f.read + k>>]
  BY DEF Payload
<1>5. Good(d, i) /\ d.s = c.s
  <2>1. [c.f EXCEPT !.read = @ + n] \in Fd
    BY <1>1, <1>2 DEF Fd
  <2>. HIDE DEF n
  <2>. QED  BY <1>1, <2>1 DEF Good, GoodSocket, Contexts
<1>. HIDE DEF d, n, pay
<1>6. Good(e, i) /\ e.s.st # "none"
  <2>1. CASE ~(n > 0 /\ c.s.peer # 0)
    BY <1>5, <2>1
  <2>2. CASE n > 0 /\ c.s.peer # 0
    <3>. DEFINE t == fdevent_del(x.s, "R")
    <3>1. pay \in Seq(Data)
      <4>1. \A k \in 1 .. n : <<src, c.f.read + k>> \in Data
        BY <1>2 DEF Data, Sources
      <4>2. n \in Nat
        BY <1>2, <2>2
      <4>. QED  BY <1>4, <4>1, <4>2
    <3>2. WRTE(d.s.id, d.s.peer, pay) \in Packet
      BY <1>1, <1>5, <2>2, <3>1, PacketTypes, IdFacts DEF Socket
    <3>3. Good(x, i) /\ x.s = c.s
      BY <1>5, <3>2, GoodAppend DEF remote_socket_enqueue
    <3>4. e = [x EXCEPT !.s = t]
      BY <2>2, <3>3 DEF Good, Contexts
    <3>. HIDE DEF x, e
    <3>5. /\ t \in Socket /\ t.st = x.s.st /\ t.id = x.s.id /\ t.peer = x.s.peer
          /\ t.queue = x.s.queue /\ t.werr = x.s.werr
          /\ t.want = x.s.want \ {"R"}
          /\ ("W" \in x.s.events => "W" \in x.s.want) =>
               ("W" \in t.events => "W" \in t.want)
      BY <1>1, <3>3, FdeventDel
    <3>. HIDE DEF t
    <3>6. GoodSocket(t, i)
      BY <1>1, <3>3, <3>5 DEF GoodSocket, SafeSocket, Installed
    <3>. QED  BY <3>3, <3>4, <3>5, <3>6, GoodReplace DEF Good
  <2>. QED  BY <2>1, <2>2
<1>. HIDE DEF e
<1>. QED  BY <1>3, <1>6, GoodClose

(* The fdevent handler takes a good socket to a good one, when FDE_WRITE   *)
(* is delivered only to a connected or a closing socket.                   *)
LEMMA GoodEventFunc ==
  ASSUME NEW i \in Ids, NEW c, Good(c, i), c.s.st # "none", c.res = "none",
         NEW ev, "W" \in ev => c.s.peer # 0 \/ c.s.st = "closing",
         NEW src \in Sources
  PROVE  Good(local_socket_event_func(c, ev, src), i)
<1>. DEFINE d == IF "W" \in ev THEN local_socket_flush_incoming(c) ELSE c
            e == IF d.res = "Completed" THEN remote_socket_ready(d) ELSE d
<1>1. local_socket_event_func(c, ev, src) =
        IF "R" \in ev /\ d.res # "Destroyed"
        THEN local_socket_flush_outgoing(e, src) ELSE e
  BY DEF local_socket_event_func
<1>2. /\ Good(d, i)
      /\ d.res # "Destroyed" => d.s.st # "none"
      /\ d.res = "Completed" => d.s.st = "open" /\ d.s.peer # 0
  <2>1. CASE "W" \in ev
    <3>1. Flushable(c, i)
      BY <2>1 DEF Flushable, Good, GoodSocket, SafeSocket, Installed, Contexts
    <3>2. d = local_socket_flush_incoming(c)
      BY <2>1
    <3>. HIDE DEF d
    <3>3. /\ Good(d, i)
          /\ d.res \in {"TryAgain", "Destroyed", "Completed"}
          /\ d.res = "Completed" =>
               c.s.st = "open" /\ d.s.st = "open" /\ d.s.peer = c.s.peer
          /\ d.res = "TryAgain" => d.s.st = c.s.st /\ d.s.peer = c.s.peer
      BY <3>1, <3>2, GoodFlushIncoming
    <3>. QED  BY <2>1, <3>3
  <2>2. CASE "W" \notin ev
    BY <2>2
  <2>. QED  BY <2>1, <2>2
<1>. HIDE DEF d
<1>3. Good(e, i) /\ e.s = d.s
  <2>1. CASE d.res = "Completed"
    <3>1. OKAY(d.s.id, d.s.peer) \in Packet
      BY <1>2, <2>1, PacketTypes, IdFacts DEF Good, GoodSocket, Installed, Contexts, Socket
    <3>. QED  BY <1>2, <2>1, <3>1, GoodAppend DEF remote_socket_ready
  <2>2. CASE d.res # "Completed"
    BY <1>2, <2>2
  <2>. QED  BY <2>1, <2>2
<1>. HIDE DEF e
<1>. QED  BY <1>1, <1>2, <1>3, GoodFlushOutgoing

----------------------------------------------------------------------------
(* The parts of IInv that different actions disturb.                       *)
GoodSockets ==
  /\ sock \in [Procs -> [Ids -> Socket]]
  /\ fd \in [Procs -> [Ids -> Fd]]
  /\ \A p \in Procs, i \in Ids : GoodSocket(sock[p][i], i)

GoodWires == wire \in [Procs -> Seq(Packet)]

GoodRest ==
  /\ nextId \in [Procs -> 1 .. MaxId + 1]
  /\ online \in [Procs -> BOOLEAN]
  /\ link \in BOOLEAN
  /\ drops \in Nat
  /\ life \in [Procs -> Nat]

(* IInv is the conjunction of these parts.                                 *)
LEMMA Parts == IInv <=> GoodSockets /\ GoodWires /\ GoodRest
BY DEF IInv, TypeOK, SocketSafe, GoodSockets, GoodSocket, GoodWires, GoodRest

(* The same of the next state.                                             *)
LEMMA PartsNext == IInv' <=> GoodSockets' /\ GoodWires' /\ GoodRest'
BY DEF IInv, TypeOK, SocketSafe, GoodSockets, GoodSocket, GoodWires, GoodRest

(* There are two processes.                                               *)
LEMMA OtherProc == \A p \in Procs : Other(p) \in Procs /\ Other(p) # p
BY DEF Procs, Other

(* A socket and its fd in the state make a good context.                   *)
LEMMA GoodStateContext ==
  ASSUME GoodSockets, NEW p \in Procs, NEW i \in Ids
  PROVE  /\ Good(Context(sock[p][i], fd[p][i]), i)
         /\ Context(sock[p][i], fd[p][i]).s = sock[p][i]
         /\ Context(sock[p][i], fd[p][i]).res = "none"
BY DEF GoodSockets, Good, GoodSocket, Contexts, Context, Results

(* Storing a good context.                                                 *)
LEMMA SetSocketGood ==
  ASSUME GoodSockets, NEW p \in Procs, NEW i \in Ids, NEW c, Good(c, i),
         SetSocket(p, i, c)
  PROVE  GoodSockets'
<1>1. c.s \in Socket /\ c.f \in Fd /\ GoodSocket(c.s, i)
  BY DEF Good, Contexts
<1>2. sock' \in [Procs -> [Ids -> Socket]] /\ fd' \in [Procs -> [Ids -> Fd]]
  BY <1>1 DEF GoodSockets, SetSocket
<1>3. ASSUME NEW q \in Procs, NEW j \in Ids
      PROVE  GoodSocket(sock'[q][j], j)
  <2>1. sock'[q][j] = IF q = p /\ j = i THEN c.s ELSE sock[q][j]
    BY DEF GoodSockets, SetSocket
  <2>. QED  BY <1>1, <2>1 DEF GoodSockets
<1>. QED  BY <1>2, <1>3 DEF GoodSockets, GoodSocket

(* Sending well-formed packets.                                            *)
LEMMA SendGood ==
  ASSUME GoodWires, NEW p \in Procs, NEW pkts \in Seq(Packet),
         send_packet(p, pkts)
  PROVE  GoodWires'
<1>1. Sent(p, pkts) \in Seq(Packet)
  BY OtherProc DEF Sent, GoodWires
<1>. QED  BY <1>1, OtherProc DEF send_packet, GoodWires

(* Taking a packet and answering it.                                       *)
LEMMA ReplyGood ==
  ASSUME GoodWires, NEW p \in Procs, NEW pkts \in Seq(Packet),
         wire[p] # <<>>, ReplyPacket(p, pkts)
  PROVE  GoodWires'
<1>1. Sent(p, pkts) \in Seq(Packet)
  BY OtherProc DEF Sent, GoodWires
<1>2. Tail(wire[p]) \in Seq(Packet)
  BY HeadTailProperties DEF GoodWires
<1>. QED  BY <1>1, <1>2, OtherProc DEF ReplyPacket, GoodWires

(* The initial state.                                                      *)
LEMMA InitIInv == Init => IInv
<1>. SUFFICES ASSUME Init PROVE GoodSockets /\ GoodWires /\ GoodRest
  BY Parts
<1>1. NoSocket \in Socket /\ NoFd \in Fd
  BY IdFacts DEF NoSocket, Socket, NoFd, Fd
<1>2. \A i \in Ids : GoodSocket(NoSocket, i)
  BY <1>1 DEF GoodSocket, SafeSocket, Installed, NoSocket
<1>3. GoodSockets
  BY <1>1, <1>2 DEF Init, GoodSockets
<1>4. GoodWires
  BY DEF Init, GoodWires
<1>5. GoodRest
  BY IdFacts DEF Init, GoodRest
<1>. QED  BY <1>3, <1>4, <1>5

----------------------------------------------------------------------------
(* A new socket, connected or not, over a new fd.                          *)
LEMMA InstallGood ==
  ASSUME GoodSockets, GoodRest, NEW p \in Procs, NEW s,
         nextId[p] \in Ids => GoodSocket(s, nextId[p]),
         InstallSocket(p, s)
  PROVE  /\ nextId[p] \in Ids
         /\ GoodSockets'
         /\ nextId' \in [Procs -> 1 .. MaxId + 1]
<1>1. nextId[p] \in Ids /\ SetSocket(p, nextId[p], Context(s, NewFd))
  BY DEF InstallSocket
<1>2. NewFd \in Fd
  <2>1. NoFd \in Fd
    BY DEF NoFd, Fd
  <2>. QED  BY <2>1 DEF NewFd, Fd
<1>3. Good(Context(s, NewFd), nextId[p])
  BY <1>1, <1>2 DEF Good, GoodSocket, Contexts, Context, Results
<1>4. nextId' \in [Procs -> 1 .. MaxId + 1]
  BY IdFacts DEF InstallSocket, GoodRest, Ids
<1>. QED  BY <1>1, <1>3, <1>4, SetSocketGood

(* The sockets Connect and OPEN install.                                   *)
LEMMA FreshSocket ==
  ASSUME NEW i \in Ids, NEW n \in BOOLEAN, NEW r \in 0 .. MaxId
  PROVE  /\ GoodSocket([create_local_socket(i) EXCEPT !.notify = n], i)
         /\ GoodSocket([create_local_socket(i) EXCEPT !.peer = r], i)
<1>. DEFINE s == create_local_socket(i)
<1>1. NoSocket \in Socket
  BY IdFacts DEF NoSocket, Socket
<1>2. /\ NoSocket.peer = 0 /\ NoSocket.queue = <<>> /\ NoSocket.want = {}
      /\ NoSocket.events = {}
  BY DEF NoSocket
<1>3. /\ s \in Socket /\ s.st = "open" /\ s.id = i /\ s.peer = 0
      /\ s.queue = <<>> /\ s.want = {} /\ s.events = {}
  BY <1>1, <1>2, IdFacts DEF create_local_socket, Socket
<1>. HIDE DEF s
<1>4. GoodSocket([s EXCEPT !.notify = n], i) /\ GoodSocket([s EXCEPT !.peer = r], i)
  BY <1>3 DEF GoodSocket, SafeSocket, Installed, Socket
<1>. QED  BY <1>4 DEF s

(* A client connects.                                                      *)
LEMMA ConnectInv ==
  ASSUME IInv, NEW p \in Procs, Connect(p)
  PROVE  IInv'
<1>1. GoodSockets /\ GoodWires /\ GoodRest
  BY Parts
<1>2. PICK n \in BOOLEAN :
        InstallSocket(p, [create_local_socket(nextId[p]) EXCEPT !.notify = n])
  BY DEF Connect
<1>3. ASSUME nextId[p] \in Ids
      PROVE  GoodSocket([create_local_socket(nextId[p]) EXCEPT !.notify = n],
                        nextId[p])
  BY <1>3, FreshSocket, IdFacts
<1>4. nextId[p] \in Ids /\ GoodSockets' /\ nextId' \in [Procs -> 1 .. MaxId + 1]
  BY <1>1, <1>2, <1>3, InstallGood
<1>5. <<OPEN(nextId[p])>> \in Seq(Packet)
  BY <1>4, PacketTypes
<1>6. GoodWires'
  BY <1>1, <1>5, SendGood DEF Connect
<1>7. GoodRest'
  BY <1>1, <1>4 DEF Connect, GoodRest
<1>. QED  BY <1>4, <1>6, <1>7, PartsNext

(* fdevent_process sets the events of all sockets.                         *)
LEMMA PollInv ==
  ASSUME IInv, NEW p \in Procs, Poll(p)
  PROVE  IInv'
<1>1. GoodSockets /\ GoodWires /\ GoodRest
  BY Parts
<1>2. GoodWires' /\ GoodRest' /\ fd' \in [Procs -> [Ids -> Fd]]
  BY <1>1 DEF Poll, GoodSockets, GoodWires, GoodRest
<1>. DEFINE new(i) == IF sock[p][i].st = "none" THEN sock[p][i]
                      ELSE [sock[p][i] EXCEPT
                              !.events = Revents(sock[p][i], fd[p][i])]
<1>3. ASSUME NEW i \in Ids PROVE GoodSocket(new(i), i)
  <2>. DEFINE s == sock[p][i]
              ev == Revents(s, fd[p][i])
  <2>1. GoodSocket(s, i)
    BY <1>1 DEF GoodSockets
  <2>2. ev \in SUBSET {"R", "W", "E"} /\ ("W" \in ev => "W" \in s.want)
    BY DEF Revents
  <2>. HIDE DEF s, ev
  <2>3. s.st # "none" => GoodSocket([s EXCEPT !.events = ev], i)
    BY <2>1, <2>2 DEF GoodSocket, SafeSocket, Installed, Socket
  <2>. QED  BY <2>1, <2>3 DEF s, ev
<1>4. sock' = [sock EXCEPT ![p] = [i \in Ids |-> new(i)]]
  BY DEF Poll
<1>. HIDE DEF new
<1>5. \A i \in Ids : new(i) \in Socket
  BY <1>3 DEF GoodSocket
<1>6. sock' \in [Procs -> [Ids -> Socket]]
  BY <1>1, <1>4, <1>5 DEF GoodSockets
<1>7. ASSUME NEW q \in Procs, NEW j \in Ids PROVE GoodSocket(sock'[q][j], j)
  BY <1>1, <1>3, <1>4 DEF GoodSockets
<1>8. GoodSockets'
  BY <1>2, <1>6, <1>7 DEF GoodSockets, GoodSocket
<1>. QED  BY <1>2, <1>8, PartsNext

(* One event handler runs.                                                 *)
LEMMA DispatchInv ==
  ASSUME IInv, NEW p \in Procs, NEW i \in Ids, Dispatch(p, i)
  PROVE  IInv'
<1>1. GoodSockets /\ GoodWires /\ GoodRest
  BY Parts
<1>. DEFINE s == sock[p][i]
            s0 == [s EXCEPT !.events = {}]
            b == Context(s0, fd[p][i])
            c == local_socket_event_func(b, s.events, Source(p, i))
<1>2. GoodSocket(s, i) /\ s.events # {}
  BY <1>1 DEF Dispatch, GoodSockets
<1>3. SetSocket(p, i, c) /\ send_packet(p, c.out)
  BY DEF Dispatch
<1>4. s.st # "none" /\ ("W" \in s.events => s.peer # 0 \/ s.st = "closing")
  BY <1>2 DEF GoodSocket, SafeSocket, Installed
<1>5. /\ GoodSocket(s0, i) /\ s0.st = s.st /\ s0.peer = s.peer
  BY <1>2 DEF GoodSocket, SafeSocket, Installed, Socket
<1>6. fd[p][i] \in Fd /\ Source(p, i) \in Sources
  BY <1>1 DEF GoodSockets, GoodRest, Source, Sources
<1>7. Good(b, i) /\ b.s = s0 /\ b.res = "none"
  <2>. HIDE DEF s0
  <2>. QED  BY <1>5, <1>6 DEF Good, GoodSocket, Contexts, Context, Results
<1>. HIDE DEF b, s, s0
<1>8. Good(c, i)
  BY <1>4, <1>5, <1>6, <1>7, GoodEventFunc
<1>. HIDE DEF c
<1>9. GoodSockets'
  BY <1>1, <1>3, <1>8, SetSocketGood
<1>10. GoodWires'
  BY <1>1, <1>3, <1>8, SendGood DEF Good, Contexts
<1>11. GoodRest'
  BY <1>1 DEF Dispatch, GoodRest
<1>. QED  BY <1>9, <1>10, <1>11, PartsNext

----------------------------------------------------------------------------
(* The ids a received packet carries.                                      *)
LEMMA ReceivedPacket ==
  ASSUME GoodWires, NEW p \in Procs, NEW cmd, Receives(p, cmd),
         NEW m, m = Head(wire[p])
  PROVE  /\ wire[p] # <<>>
         /\ cmd \in {"OPEN", "OKAY", "WRTE"} => m.arg0 \in Ids
         /\ cmd = "CLSE" => m.arg0 \in 0 .. MaxId
         /\ cmd \in {"OKAY", "WRTE", "CLSE"} => m.arg1 \in Ids
         /\ cmd = "WRTE" => m.data \in Seq(Data)
<1>1. wire[p] # <<>> /\ m.cmd = cmd /\ m \in Packet
  BY HeadTailProperties DEF Receives, GoodWires
<1>. QED  BY <1>1 DEF Packet

(* A packet that is dropped.                                               *)
LEMMA IgnoreInv ==
  ASSUME IInv, NEW p \in Procs, wire[p] # <<>>, Ignore(p),
         UNCHANGED <<link, drops, life>>
  PROVE  IInv'
<1>1. GoodSockets /\ GoodWires /\ GoodRest
  BY Parts
<1>2. <<>> \in Seq(Packet)
  OBVIOUS
<1>3. GoodWires'
  BY <1>1, <1>2, ReplyGood DEF Ignore
<1>. QED  BY <1>1, <1>3, PartsNext DEF Ignore, GoodSockets, GoodRest, GoodSocket

(* local_socket_ready on a good socket.                                    *)
LEMMA AddRead ==
  ASSUME NEW i \in Ids, NEW s, GoodSocket(s, i), s.st # "none"
  PROVE  GoodSocket(fdevent_add(s, "R"), i)
<1>. DEFINE t == fdevent_add(s, "R")
<1>1. /\ t \in Socket /\ t.st = s.st /\ t.id = s.id /\ t.peer = s.peer
      /\ t.queue = s.queue /\ t.werr = s.werr
      /\ t.want = s.want \cup {"R"}
      /\ ("W" \in s.events => "W" \in s.want) =>
           ("W" \in t.events => "W" \in t.want)
  BY FdeventAdd DEF GoodSocket
<1>. HIDE DEF t
<1>2. GoodSocket(t, i)
  BY <1>1 DEF GoodSocket, SafeSocket, Installed
<1>. QED  BY <1>2 DEF t

(* OPEN.                                                                   *)
LEMMA OpenInv ==
  ASSUME IInv, NEW p \in Procs, HandleOPEN(p)
  PROVE  IInv'
<1>. DEFINE m == Head(wire[p])
            s == [create_local_socket(nextId[p]) EXCEPT !.peer = m.arg0]
            t == fdevent_add(s, "R")
<1>1. GoodSockets /\ GoodWires /\ GoodRest
  BY Parts
<1>2. wire[p] # <<>> /\ m.arg0 \in Ids
  BY <1>1, ReceivedPacket DEF HandleOPEN
<1>3. \/ /\ InstallSocket(p, t)
         /\ ReplyPacket(p, send_ready(nextId[p], m.arg0))
         /\ UNCHANGED online
      \/ /\ ReplyPacket(p, send_close(0, m.arg0))
         /\ UNCHANGED <<sock, fd, nextId, online>>
      \/ Ignore(p)
  BY DEF HandleOPEN
<1>4. UNCHANGED <<link, drops, life>>
  BY DEF HandleOPEN
<1>5. ASSUME nextId[p] \in Ids PROVE GoodSocket(t, nextId[p])
  <2>1. GoodSocket(s, nextId[p])
    BY <1>2, <1>5, FreshSocket, IdFacts
  <2>2. s.st = "open"
    BY DEF create_local_socket, NoSocket
  <2>. HIDE DEF s
  <2>. QED  BY <1>5, <2>1, <2>2, AddRead
<1>. HIDE DEF m, t
<1>6. CASE /\ InstallSocket(p, t)
           /\ ReplyPacket(p, send_ready(nextId[p], m.arg0))
           /\ UNCHANGED online
  <2>1. nextId[p] \in Ids /\ GoodSockets' /\ nextId' \in [Procs -> 1 .. MaxId + 1]
    BY <1>1, <1>5, <1>6, InstallGood
  <2>2. send_ready(nextId[p], m.arg0) \in Seq(Packet)
    BY <1>2, <2>1, PacketTypes DEF send_ready
  <2>3. GoodWires'
    BY <1>1, <1>2, <1>6, <2>2, ReplyGood
  <2>. QED  BY <1>1, <1>4, <1>6, <2>1, <2>3, PartsNext DEF GoodRest
<1>7. CASE /\ ReplyPacket(p, send_close(0, m.arg0))
           /\ UNCHANGED <<sock, fd, nextId, online>>
  <2>1. send_close(0, m.arg0) \in Seq(Packet)
    BY <1>2, PacketTypes, IdFacts DEF send_close
  <2>2. GoodWires'
    BY <1>1, <1>2, <1>7, <2>1, ReplyGood
  <2>. QED
    BY <1>1, <1>4, <1>7, <2>2, PartsNext DEF GoodSockets, GoodRest, GoodSocket
<1>8. CASE Ignore(p)
  BY <1>2, <1>4, <1>8, IgnoreInv
<1>. QED  BY <1>3, <1>6, <1>7, <1>8

(* READY.                                                                  *)
LEMMA OkayInv ==
  ASSUME IInv, NEW p \in Procs, HandleOKAY(p)
  PROVE  IInv'
<1>. DEFINE m == Head(wire[p])
            i == m.arg1
            s == [sock[p][i] EXCEPT !.peer = m.arg0]
            c == Context(s, fd[p][i])
<1>1. GoodSockets /\ GoodWires /\ GoodRest
  BY Parts
<1>2. wire[p] # <<>> /\ m.arg0 \in Ids /\ i \in Ids
  BY <1>1, ReceivedPacket DEF HandleOKAY
<1>3. \/ /\ Found(p, i, 0)
         /\ SetSocket(p, i, Ready(c))
         /\ ReplyPacket(p, <<>>)
         /\ UNCHANGED <<nextId, online>>
      \/ /\ ReplyPacket(p, send_close(i, m.arg0))
         /\ UNCHANGED <<sock, fd, nextId, online>>
      \/ Ignore(p)
  BY DEF HandleOKAY
<1>4. UNCHANGED <<link, drops, life>>
  BY DEF HandleOKAY
<1>. HIDE DEF m, i
<1>5. CASE /\ Found(p, i, 0)
           /\ SetSocket(p, i, Ready(c))
           /\ ReplyPacket(p, <<>>)
           /\ UNCHANGED <<nextId, online>>
  <2>1. GoodSocket(sock[p][i], i) /\ fd[p][i] \in Fd /\ sock[p][i].st = "open"
    BY <1>1, <1>2, <1>5 DEF GoodSockets, Found
  <2>2. GoodSocket(s, i) /\ s.st = "open"
    BY <1>2, <2>1, IdFacts DEF GoodSocket, SafeSocket, Installed, Socket
  <2>. HIDE DEF s
  <2>3. Good(c, i) /\ c.s.st # "none"
    BY <2>1, <2>2 DEF Good, GoodSocket, Contexts, Context, Results
  <2>. HIDE DEF c
  <2>4. Good(Ready(c), i)
    BY <1>2, <2>3, GoodReady
  <2>5. GoodSockets'
    BY <1>1, <1>2, <1>5, <2>4, SetSocketGood
  <2>6. <<>> \in Seq(Packet)
    OBVIOUS
  <2>7. GoodWires'
    BY <1>1, <1>2, <1>5, <2>6, ReplyGood
  <2>. QED  BY <1>1, <1>4, <1>5, <2>5, <2>7, PartsNext DEF GoodRest
<1>6. CASE /\ ReplyPacket(p, send_close(i, m.arg0))
           /\ UNCHANGED <<sock, fd, nextId, online>>
  <2>1. send_close(i, m.arg0) \in Seq(Packet)
    BY <1>2, PacketTypes, IdFacts DEF send_close
  <2>2. GoodWires'
    BY <1>1, <1>2, <1>6, <2>1, ReplyGood
  <2>. QED
    BY <1>1, <1>4, <1>6, <2>2, PartsNext DEF GoodSockets, GoodRest, GoodSocket
<1>7. CASE Ignore(p)
  BY <1>2, <1>4, <1>7, IgnoreInv
<1>. QED  BY <1>3, <1>5, <1>6, <1>7

(* CLOSE.                                                                  *)
LEMMA ClseInv ==
  ASSUME IInv, NEW p \in Procs, HandleCLSE(p)
  PROVE  IInv'
<1>. DEFINE m == Head(wire[p])
            i == m.arg1
            c == Close(Context(sock[p][i], fd[p][i]))
<1>1. GoodSockets /\ GoodWires /\ GoodRest
  BY Parts
<1>2. wire[p] # <<>> /\ i \in Ids
  BY <1>1, ReceivedPacket DEF HandleCLSE
<1>3. \/ /\ Found(p, i, m.arg0)
         /\ SetSocket(p, i, c)
         /\ ReplyPacket(p, c.out)
         /\ UNCHANGED <<nextId, online>>
      \/ Ignore(p)
  BY DEF HandleCLSE
<1>4. UNCHANGED <<link, drops, life>>
  BY DEF HandleCLSE
<1>. HIDE DEF m, i
<1>5. CASE /\ Found(p, i, m.arg0)
           /\ SetSocket(p, i, c)
           /\ ReplyPacket(p, c.out)
           /\ UNCHANGED <<nextId, online>>
  <2>1. sock[p][i].st = "open"
    BY <1>5 DEF Found
  <2>2. Good(c, i)
    BY <1>1, <1>2, <2>1, GoodStateContext, GoodClose
  <2>. HIDE DEF c
  <2>3. GoodSockets'
    BY <1>1, <1>2, <1>5, <2>2, SetSocketGood
  <2>4. c.out \in Seq(Packet)
    BY <2>2 DEF Good, Contexts
  <2>5. GoodWires'
    BY <1>1, <1>2, <1>5, <2>4, ReplyGood
  <2>. QED  BY <1>1, <1>4, <1>5, <2>3, <2>5, PartsNext DEF GoodRest
<1>6. CASE Ignore(p)
  BY <1>2, <1>4, <1>6, IgnoreInv
<1>. QED  BY <1>3, <1>5, <1>6

(* WRITE.                                                                  *)
LEMMA WrteInv ==
  ASSUME IInv, NEW p \in Procs, HandleWRTE(p)
  PROVE  IInv'
<1>. DEFINE m == Head(wire[p])
            i == m.arg1
            b == Context(sock[p][i], fd[p][i])
            c == local_socket_enqueue(b, m.data)
            a == IF c.res = "Completed" THEN send_ready(i, m.arg0) ELSE <<>>
<1>1. GoodSockets /\ GoodWires /\ GoodRest
  BY Parts
<1>2. wire[p] # <<>> /\ i \in Ids /\ m.arg0 \in Ids /\ m.data \in Seq(Data)
  BY <1>1, ReceivedPacket DEF HandleWRTE
<1>3. \/ /\ Found(p, i, m.arg0)
         /\ SetSocket(p, i, c)
         /\ ReplyPacket(p, c.out \o a)
         /\ UNCHANGED <<nextId, online>>
      \/ Ignore(p)
  BY DEF HandleWRTE
<1>4. UNCHANGED <<link, drops, life>>
  BY DEF HandleWRTE
<1>. HIDE DEF m, i
<1>5. CASE /\ Found(p, i, m.arg0)
           /\ SetSocket(p, i, c)
           /\ ReplyPacket(p, c.out \o a)
           /\ UNCHANGED <<nextId, online>>
  <2>1. sock[p][i].st = "open" /\ sock[p][i].peer # 0
    BY <1>2, <1>5, IdFacts DEF Found
  <2>2. Good(b, i) /\ b.s = sock[p][i]
    BY <1>1, <1>2, GoodStateContext
  <2>. HIDE DEF b
  <2>3. Good(c, i)
    BY <1>2, <2>1, <2>2, GoodEnqueue
  <2>. HIDE DEF c
  <2>4. GoodSockets'
    BY <1>1, <1>2, <1>5, <2>3, SetSocketGood
  <2>5. a \in Seq(Packet)
    BY <1>2, PacketTypes DEF send_ready
  <2>. HIDE DEF a
  <2>6. c.out \o a \in Seq(Packet)
    BY <2>3, <2>5 DEF Good, Contexts
  <2>7. GoodWires'
    BY <1>1, <1>2, <1>5, <2>6, ReplyGood
  <2>. QED  BY <1>1, <1>4, <1>5, <2>4, <2>7, PartsNext DEF GoodRest
<1>6. CASE Ignore(p)
  BY <1>2, <1>4, <1>6, IgnoreInv
<1>. QED  BY <1>3, <1>5, <1>6

(* close_all_sockets.                                                      *)
LEMMA CloseAllGood ==
  ASSUME GoodSockets, NEW p \in Procs, close_all_sockets(p)
  PROVE  GoodSockets'
<1>. DEFINE old(i) == Context(sock[p][i], fd[p][i])
            new(i) == IF OnTransport(sock[p][i]) THEN Close(old(i)) ELSE old(i)
<1>1. ASSUME NEW i \in Ids PROVE Good(new(i), i)
  <2>1. Good(old(i), i) /\ old(i).s = sock[p][i]
    BY GoodStateContext
  <2>2. OnTransport(sock[p][i]) => sock[p][i].st # "none"
    BY DEF OnTransport
  <2>. QED  BY <2>1, <2>2, GoodClose
<1>2. /\ sock' = [sock EXCEPT ![p] = [i \in Ids |-> new(i).s]]
      /\ fd' = [fd EXCEPT ![p] = [i \in Ids |-> new(i).f]]
  BY DEF close_all_sockets, Context
<1>. HIDE DEF new
<1>3. \A i \in Ids : new(i).s \in Socket /\ new(i).f \in Fd /\ GoodSocket(new(i).s, i)
  BY <1>1 DEF Good, Contexts
<1>4. sock' \in [Procs -> [Ids -> Socket]] /\ fd' \in [Procs -> [Ids -> Fd]]
  BY <1>2, <1>3 DEF GoodSockets
<1>5. ASSUME NEW q \in Procs, NEW j \in Ids PROVE GoodSocket(sock'[q][j], j)
  BY <1>2, <1>3 DEF GoodSockets
<1>. QED  BY <1>4, <1>5 DEF GoodSockets, GoodSocket

(* CONNECT.                                                                *)
LEMMA CnxnInv ==
  ASSUME IInv, NEW p \in Procs, HandleCNXN(p)
  PROVE  IInv'
<1>. DEFINE answer == IF p = "device" THEN <<CNXN>> ELSE <<>>
<1>1. GoodSockets /\ GoodWires /\ GoodRest
  BY Parts
<1>2. wire[p] # <<>>
  BY DEF HandleCNXN, Receives
<1>3. \/ /\ close_all_sockets(p)
         /\ \E f \in UNION {[1 .. n -> Ids] : n \in 0 .. MaxId} :
              /\ ListOrder(p, f)
              /\ ReplyPacket(p, Farewells(p, f) \o answer)
      \/ /\ ReplyPacket(p, answer)
         /\ UNCHANGED <<sock, fd>>
  BY DEF HandleCNXN
<1>4. GoodRest'
  BY <1>1 DEF HandleCNXN, GoodRest
<1>5. answer \in Seq(Packet)
  BY PacketTypes
<1>. HIDE DEF answer
<1>6. CASE /\ ReplyPacket(p, answer)
           /\ UNCHANGED <<sock, fd>>
  <2>1. GoodWires'
    BY <1>1, <1>2, <1>5, <1>6, ReplyGood
  <2>. QED  BY <1>1, <1>4, <1>6, <2>1, PartsNext DEF GoodSockets, GoodSocket
<1>7. ASSUME close_all_sockets(p),
             NEW f \in UNION {[1 .. n -> Ids] : n \in 0 .. MaxId},
             ListOrder(p, f),
             ReplyPacket(p, Farewells(p, f) \o answer)
      PROVE  IInv'
  <2>1. GoodSockets'
    BY <1>1, <1>7, CloseAllGood
  <2>2. PICK n \in 0 .. MaxId : f \in [1 .. n -> Ids]
    BY <1>7
  <2>3. \A k \in 1 .. n : sock[p][f[k]].peer \in Ids
    <3>. DEFINE S == {i \in Ids : OnTransport(sock[p][i]) /\ sock[p][i].peer # 0}
    <3>1. \A i \in S : sock[p][i].peer \in Ids
      BY <1>1, IdFacts DEF GoodSockets, Socket
    <3>2. f \in [1 .. Cardinality(S) -> S]
      BY <1>7 DEF ListOrder
    <3>. HIDE DEF S
    <3>3. \A k \in DOMAIN f : f[k] \in S
      BY <3>2
    <3>. QED  BY <2>2, <3>1, <3>3
  <2>4. \A k \in 1 .. n : CLSE(f[k], sock[p][f[k]].peer) \in Packet
    BY <2>2, <2>3, PacketTypes, IdFacts
  <2>5. n \in Nat /\ Farewells(p, f) = [k \in 1 .. n |-> CLSE(f[k], sock[p][f[k]].peer)]
    BY <2>2, IdFacts DEF Farewells
  <2>6. Farewells(p, f) \in Seq(Packet)
    <3>1. Farewells(p, f) \in [1 .. n -> Packet]
      BY <2>4, <2>5
    <3>. QED  BY <2>5, <3>1, SeqDef
  <2>7. Farewells(p, f) \o answer \in Seq(Packet)
    BY <1>5, <2>6
  <2>8. GoodWires'
    BY <1>1, <1>2, <1>7, <2>7, ReplyGood
  <2>. QED  BY <1>4, <2>1, <2>8, PartsNext
<1>. QED  BY <1>3, <1>6, <1>7

----------------------------------------------------------------------------
(* handle_offline, after a transport error.                                *)
LEMMA OfflineInv ==
  ASSUME IInv, NEW p \in Procs, HandleOffline(p)
  PROVE  IInv'
<1>1. GoodSockets /\ GoodWires /\ GoodRest
  BY Parts
<1>2. GoodSockets'
  <2>1. CASE online[p]
    BY <1>1, <2>1, CloseAllGood DEF HandleOffline
  <2>2. CASE ~online[p]
    BY <1>1, <2>2 DEF HandleOffline, GoodSockets, GoodSocket
  <2>. QED  BY <2>1, <2>2
<1>3. GoodWires' /\ GoodRest'
  BY <1>1 DEF HandleOffline, GoodWires, GoodRest
<1>. QED  BY <1>2, <1>3, PartsNext

(* The link fails, and is restored.                                        *)
LEMMA LinkInv ==
  ASSUME IInv, TransportError \/ Reconnect
  PROVE  IInv'
<1>1. GoodSockets /\ GoodWires /\ GoodRest
  BY Parts
<1>2. GoodSockets'
  BY <1>1 DEF TransportError, Reconnect, GoodSockets, GoodSocket
<1>3. <<CNXN>> \in Seq(Packet)
  BY PacketTypes
<1>4. GoodWires'
  BY <1>1, <1>3 DEF TransportError, Reconnect, GoodWires, Procs
<1>5. GoodRest'
  <2>1. link' \in BOOLEAN
    BY DEF TransportError, Reconnect
  <2>2. drops' \in Nat
    BY <1>1 DEF TransportError, Reconnect, GoodRest
  <2>3. UNCHANGED <<nextId, online, life>>
    BY DEF TransportError, Reconnect
  <2>. QED  BY <1>1, <2>1, <2>2, <2>3 DEF GoodRest
<1>. QED  BY <1>2, <1>4, <1>5, PartsNext

(* A process restarts.                                                     *)
LEMMA RestartInv ==
  ASSUME IInv, NEW p \in Procs, Restart(p)
  PROVE  IInv'
<1>1. GoodSockets /\ GoodWires /\ GoodRest
  BY Parts
<1>2. NoSocket \in Socket /\ \A i \in Ids : GoodSocket(NoSocket, i)
  BY IdFacts DEF NoSocket, Socket, GoodSocket, SafeSocket, Installed
<1>3. \A i \in Ids : [fd[p][i] EXCEPT !.open = FALSE] \in Fd
  <2>1. \A i \in Ids : fd[p][i] \in Fd
    BY <1>1 DEF GoodSockets
  <2>2. \A g \in Fd : [g EXCEPT !.open = FALSE] \in Fd
    BY DEF Fd
  <2>. QED  BY <2>1, <2>2
<1>4. sock' \in [Procs -> [Ids -> Socket]] /\ fd' \in [Procs -> [Ids -> Fd]]
  BY <1>1, <1>2, <1>3 DEF Restart, GoodSockets
<1>5. ASSUME NEW q \in Procs, NEW j \in Ids PROVE GoodSocket(sock'[q][j], j)
  BY <1>1, <1>2 DEF Restart, GoodSockets
<1>6. GoodSockets'
  BY <1>4, <1>5 DEF GoodSockets, GoodSocket
<1>7. GoodWires'
  <2>1. CASE p = "device"
    <3>1. wire' = [wire EXCEPT ![p] = <<>>]
      BY <2>1 DEF Restart
    <3>. QED  BY <1>1, <3>1 DEF GoodWires
  <2>2. CASE p = "host"
    <3>1. PICK n \in 0 .. Len(wire[p]), k \in 0 .. Len(wire["device"]) :
            wire' = [wire EXCEPT
                       ![p] = SubSeq(wire[p], n + 1, Len(wire[p])),
                       !["device"] = Append(SubSeq(wire["device"], 1, k), CNXN)]
      BY <2>2 DEF Restart
    <3>2. wire[p] \in Seq(Packet) /\ wire["device"] \in Seq(Packet)
      BY <1>1 DEF GoodWires, Procs
    <3>3. SubSeq(wire[p], n + 1, Len(wire[p])) \in Seq(Packet)
      BY <3>2, SubSeqProperties, LenProperties
    <3>4. SubSeq(wire["device"], 1, k) \in Seq(Packet)
      BY <3>2, SubSeqProperties, LenProperties
    <3>5. Append(SubSeq(wire["device"], 1, k), CNXN) \in Seq(Packet)
      BY <3>4, PacketTypes
    <3>. QED  BY <1>1, <3>1, <3>3, <3>5 DEF GoodWires
  <2>. QED  BY <2>1, <2>2 DEF Procs
<1>8. GoodRest'
  <2>1. nextId' \in [Procs -> 1 .. MaxId + 1]
    BY <1>1, IdFacts DEF Restart, GoodRest
  <2>2. online' \in [Procs -> BOOLEAN]
    BY <1>1 DEF Restart, GoodRest
  <2>3. link' \in BOOLEAN
    BY <1>1 DEF Restart, GoodRest
  <2>4. life' \in [Procs -> Nat] /\ drops' \in Nat
    BY <1>1 DEF Restart, GoodRest
  <2>. QED  BY <2>1, <2>2, <2>3, <2>4 DEF GoodRest
<1>. QED  BY <1>6, <1>7, <1>8, PartsNext

(* The far end of an fd acts.                                              *)
LEMMA FarInv ==
  ASSUME IInv, NEW p \in Procs, NEW i \in Ids,
         FarWrite(p, i) \/ FarRead(p, i) \/ FarClose(p, i) \/ FarShutdown(p, i)
  PROVE  IInv'
<1>1. GoodSockets /\ GoodWires /\ GoodRest
  BY Parts
<1>2. fd[p][i] \in Fd
  BY <1>1 DEF GoodSockets
<1>3. \E g \in Fd : FarEnd(p, i, g)
  <2>1. CASE FarWrite(p, i)
    <3>1. [fd[p][i] EXCEPT !.sent = @ + 1] \in Fd
      BY <1>2 DEF Fd
    <3>. QED  BY <2>1, <3>1 DEF FarWrite
  <2>2. CASE FarRead(p, i)
    <3>1. fd[p][i].buf \in Seq(Data) /\ fd[p][i].buf # <<>> /\ fd[p][i].got \in Seq(Data)
      BY <1>2, <2>2 DEF Fd, FarRead
    <3>2. /\ Tail(fd[p][i].buf) \in Seq(Data)
          /\ Append(fd[p][i].got, Head(fd[p][i].buf)) \in Seq(Data)
      BY <3>1, HeadTailProperties
    <3>3. [fd[p][i] EXCEPT !.got = Append(@, Head(fd[p][i].buf)),
                           !.buf = Tail(@)] \in Fd
      BY <1>2, <3>2 DEF Fd
    <3>. QED  BY <2>2, <3>3 DEF FarRead
  <2>3. CASE FarClose(p, i)
    <3>1. [fd[p][i] EXCEPT !.shut = TRUE, !.gone = TRUE] \in Fd
      BY <1>2 DEF Fd
    <3>. QED  BY <2>3, <3>1 DEF FarClose
  <2>4. CASE FarShutdown(p, i)
    <3>1. /\ [fd[p][i] EXCEPT !.shut = TRUE] \in Fd
          /\ [fd[p][i] EXCEPT !.gone = TRUE] \in Fd
      BY <1>2 DEF Fd
    <3>. QED  BY <2>4, <3>1 DEF FarShutdown
  <2>. QED  BY <2>1, <2>2, <2>3, <2>4
<1>4. fd' \in [Procs -> [Ids -> Fd]] /\ UNCHANGED <<sock, nextId, online, wire, link, drops, life>>
  BY <1>1, <1>3 DEF FarEnd, GoodSockets
<1>5. GoodSockets'
  BY <1>1, <1>4 DEF GoodSockets, GoodSocket
<1>6. GoodWires' /\ GoodRest'
  BY <1>1, <1>4 DEF GoodWires, GoodRest
<1>. QED  BY <1>5, <1>6, PartsNext

(* Every step preserves the invariant.                                     *)
LEMMA NextIInv == IInv /\ [Next]_vars => IInv'
<1>. SUFFICES ASSUME IInv, [Next]_vars PROVE IInv'
  OBVIOUS
<1>1. CASE UNCHANGED vars
  BY <1>1, Parts, PartsNext DEF vars, GoodSockets, GoodSocket, GoodWires, GoodRest
<1>2. ASSUME NEW p \in Procs, fdevent_loop(p) PROVE IInv'
  BY <1>2, PollInv, DispatchInv, OpenInv, OkayInv, ClseInv, WrteInv, CnxnInv,
     OfflineInv DEF fdevent_loop, HandlePacket
<1>3. CASE Next
  BY <1>2, <1>3, ConnectInv, RestartInv, FarInv, LinkInv DEF Next
<1>. QED  BY <1>1, <1>3

(* The inductive invariant holds of every behaviour.                       *)
THEOREM Invariance == Spec => []IInv
BY InitIInv, NextIInv, PTL DEF Spec

(* Every packet, socket and fd has its type, whatever the interleaving: in *)
(* particular no packet but the refusal of an OPEN carries a zero id, so   *)
(* none is dropped by the tests handle_packet begins its cases with.       *)
THEOREM TypeCorrect == Spec => []TypeOK
<1>1. IInv => TypeOK
  BY DEF IInv
<1>. QED  BY <1>1, Invariance, PTL

(* The CHECK in local_socket_close never fails and local_socket_event_func *)
(* never calls ready on a null peer, for any number of sockets, any sizes  *)
(* and any failures.                                                       *)
THEOREM CallbacksSafe == Spec => []SocketSafe
<1>1. IInv => SocketSafe
  BY DEF IInv
<1>. QED  BY <1>1, Invariance, PTL
=============================================================================
