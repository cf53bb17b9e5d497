----------------------------- MODULE Handshake -----------------------------
(***************************************************************************)
(* The handshake of a host and a device: CNXN, the AUTH exchange and the   *)
(* user's confirmation through the framework (adb.cpp, client/auth.cpp,    *)
(* daemon/auth.cpp).                                                       *)
(*                                                                         *)
(* A session is one connection.  Over TCP the host keeps its atransport    *)
(* from session to session (ReconnectHandler), and a new session may begin *)
(* before adbd noticed the end of the last; over USB the host has a new    *)
(* atransport each time and adbd one at a time.                            *)
(***************************************************************************)
EXTENDS Naturals, Sequences, FiniteSets, SequencesExt

CONSTANTS
  HostKeys,       \* the host's private keys, in the order of g_keys
  Known,          \* Known[s]: the keys in adbd's adb_keys files in session s
  nullptr,        \* no key, no transport
  auth_required,  \* adbd's flag
  Tcp,            \* a TCP device (TRUE) or a USB device (FALSE)
  DeviceVersion,  \* DeviceVersion[s]: the version adbd speaks in session s
  Failing,        \* what may fail: "token", "sign", "publickey", "prompt"
  MaxSessions,    \* bound: sessions
  MaxFrameworks   \* bound: connections from the framework

A_VERSION_MIN == 0
A_VERSION == 1
Sessions == 1..MaxSessions
Keys == Range(HostKeys)

ASSUME HandshakeAssumption ==
  /\ HostKeys \in Seq(Keys) /\ nullptr \notin Keys \cup Sessions
  /\ auth_required \in BOOLEAN /\ Tcp \in BOOLEAN
  /\ MaxSessions \in Nat /\ MaxFrameworks \in Nat
  /\ Known \in [Sessions -> SUBSET Keys]
  /\ DeviceVersion \in [Sessions -> A_VERSION_MIN..A_VERSION]
  /\ Failing \subseteq {"token", "sign", "publickey", "prompt"}

VARIABLES
  host,           \* the host's atransport, and its session
  dev,            \* dev[s]: adbd's atransport of session s
  link,           \* link[s]: "none", "up" or "down"
  toHost, toDev,  \* toHost[s], toDev[s]: packets under way
  usb_transport,  \* the transport whose key the framework is asked about
  needs_retry,
  framework,      \* connections from the framework so far, and whether one is open
  prompts,        \* keys shown to the user and not answered
  oks             \* "OK" answers adbd has not read

vars == <<host, dev, link, toHost, toDev, usb_transport, needs_retry, framework, prompts, oks>>
confirmation == <<usb_transport, needs_retry, framework, prompts, oks>>

-----------------------------------------------------------------------------
(* Packets.  "sum" tells whether the packet carries a checksum. *)

CNXN(version, sum) == [cmd |-> "CNXN", version |-> version, sum |-> sum]
TOKEN(n) == [cmd |-> "TOKEN", token |-> n]
SIGNATURE(k, n) == [cmd |-> "SIGNATURE", key |-> k, token |-> n]
RSAPUBLICKEY == [cmd |-> "RSAPUBLICKEY"]

MinOf(a, b) == IF a < b THEN a ELSE b

\* A packet written to a connection that is down is lost.
Send(ch, s, p) == IF link[s] = "up" THEN [ch EXCEPT ![s] = Append(@, p)] ELSE ch

NewHost == [state |-> "Offline", online |-> FALSE, keys |-> <<>>, version |-> A_VERSION_MIN]

\* "tried" records the keys the host has signed with in this session.
NoSession == [sess |-> 0, open |-> FALSE, tried |-> {}]

NoTransport == [st |-> "none", state |-> "Offline", online |-> FALSE,
                version |-> A_VERSION_MIN, token |-> 0, disconnect |-> FALSE]

Init ==
  /\ host = NewHost @@ NoSession
  /\ dev = [s \in Sessions |-> NoTransport]
  /\ link = [s \in Sessions |-> "none"]
  /\ toHost = [s \in Sessions |-> <<>>] /\ toDev = [s \in Sessions |-> <<>>]
  /\ usb_transport = nullptr /\ needs_retry = FALSE
  /\ framework = [count |-> 0, open |-> FALSE]
  /\ prompts = 0 /\ oks = 0

-----------------------------------------------------------------------------
(* The connection *)

\* adbd has one USB transport at a time.
Settled == Tcp \/ \A s \in Sessions : dev[s].st # "live"

\* The device registers its transport; the host sends CNXN with the version
\* its atransport has (send_connect, send_packet).
Connect ==
  /\ ~host.open /\ host.sess < MaxSessions /\ Settled
  /\ LET s == host.sess + 1
         h == IF Tcp /\ host.sess > 0 THEN host ELSE NewHost @@ NoSession
     IN /\ host' = [h EXCEPT !.sess = s, !.open = TRUE, !.tried = {}]
        /\ link' = [link EXCEPT ![s] = "up"]
        /\ dev' = [dev EXCEPT ![s].st = "live"]
        /\ toDev' = [toDev EXCEPT ![s] = <<CNXN(A_VERSION, h.version < A_VERSION)>>]
  /\ UNCHANGED <<toHost, confirmation>>

LinkDrops(s) ==
  /\ link[s] = "up"
  /\ link' = [link EXCEPT ![s] = "down"]
  /\ UNCHANGED <<host, dev, toHost, toDev, confirmation>>

\* The host's handle_offline
HostOffline ==
  /\ host.open /\ link[host.sess] = "down"
  /\ host' = [host EXCEPT !.state = "Offline", !.open = FALSE,
                          !.online = @ /\ host.state = "Offline"]
  /\ toHost' = [toHost EXCEPT ![host.sess] = <<>>]
  /\ UNCHANGED <<dev, link, toDev, confirmation>>

-----------------------------------------------------------------------------
(* The host: handle_packet *)

\* Mutant: the list is taken once and never again.
NextKeys_Once == IF host.keys = <<>> THEN <<nullptr>> ELSE host.keys

\* atransport::NextKey and adb_auth_get_private_keys: the known keys, and a
\* sentinel for the public key.
NextKeys == IF host.keys = <<>> THEN Append(HostKeys, nullptr) ELSE host.keys

\* send_auth_response, after the state became kCsAuthorizing
HostToken(p) ==
  LET key == Head(NextKeys)
      h == [host EXCEPT !.keys = Tail(NextKeys), !.state = "Authorizing"]
      s == host.sess
  IN IF key = nullptr
     THEN /\ host' = [h EXCEPT !.state = "Unauthorized"]
          /\ \/ toDev' = Send(toDev, s, RSAPUBLICKEY)
             \/ "publickey" \in Failing /\ UNCHANGED toDev
     ELSE \/ /\ host' = [h EXCEPT !.tried = @ \cup {key}]
             /\ toDev' = Send(toDev, s, SIGNATURE(key, p.token))
          \/ "sign" \in Failing /\ host' = h /\ UNCHANGED toDev

HostConnected(p) ==
  /\ host' = [host EXCEPT !.state = "Device", !.online = TRUE,
                          !.version = MinOf(p.version, A_VERSION)]
  /\ UNCHANGED toDev

HostReceives ==
  /\ host.open /\ toHost[host.sess] # <<>>
  /\ LET p == Head(toHost[host.sess])
     IN IF p.cmd = "CNXN" THEN HostConnected(p) ELSE HostToken(p)
  /\ toHost' = [toHost EXCEPT ![host.sess] = Tail(@)]
  /\ UNCHANGED <<dev, link, confirmation>>

-----------------------------------------------------------------------------
(* adbd: handle_packet *)


\* The transport's disconnects hold usb_disconnect.
Disconnected(s) == dev[s].state # "Offline" /\ dev[s].disconnect

\* usb_disconnected, run by handle_offline
RunDisconnects(s) ==
  /\ usb_transport' = IF Disconnected(s) THEN nullptr ELSE usb_transport
  /\ needs_retry' = IF Disconnected(s) THEN FALSE ELSE needs_retry

\* handle_offline's effect on the transport itself
Offline(d) == IF d.state = "Offline" THEN d
              ELSE [d EXCEPT !.state = "Offline", !.online = FALSE, !.disconnect = FALSE]

\* send_auth_request
send_auth_request(d, s) ==
  \/ /\ dev' = [dev EXCEPT ![s] = [d EXCEPT !.token = @ + 1]]
     /\ toHost' = Send(toHost, s, TOKEN(d.token + 1))
  \/ "token" \in Failing /\ dev' = [dev EXCEPT ![s] = d] /\ UNCHANGED toHost


\* adbd_auth_verified, and the end of handle_new_connection without
\* authentication
adbd_auth_verified(d, s) ==
  /\ dev' = [dev EXCEPT ![s] = [d EXCEPT !.online = TRUE]]
  /\ toHost' = Send(toHost, s, CNXN(DeviceVersion[s], d.version < A_VERSION))

handle_new_connection(s, p) ==
  LET d == [Offline(dev[s]) EXCEPT !.state = "Host", !.version = MinOf(p.version, DeviceVersion[s])]
  IN /\ RunDisconnects(s)
     /\ IF auth_required THEN send_auth_request(d, s) ELSE adbd_auth_verified(d, s)
     /\ UNCHANGED prompts

\* adbd_auth_verify against the transport's token
HandleSignature(s, p) ==
  /\ IF p.key \in Known[s] /\ p.token = dev[s].token
     THEN adbd_auth_verified(dev[s], s)
     ELSE send_auth_request(dev[s], s)
  /\ UNCHANGED <<usb_transport, needs_retry, prompts>>

\* Mutant: a key that comes while the framework is away is forgotten.
Retry_Forgotten == needs_retry

Retry == needs_retry \/ ~framework.open

adbd_auth_confirm_key(s) ==
  /\ usb_transport' = IF usb_transport = nullptr THEN s ELSE usb_transport
  /\ dev' = [dev EXCEPT ![s].disconnect = @ \/ usb_transport = nullptr]
  /\ needs_retry' = Retry
  /\ \/ framework.open /\ prompts' = prompts + 1
     \/ (~framework.open \/ "prompt" \in Failing) /\ UNCHANGED prompts
  /\ UNCHANGED toHost

DeviceReceives(s) ==
  /\ dev[s].st = "live" /\ toDev[s] # <<>>
  /\ LET p == Head(toDev[s])
     IN CASE p.cmd = "CNXN" -> handle_new_connection(s, p)
          [] p.cmd = "SIGNATURE" -> HandleSignature(s, p)
          [] p.cmd = "RSAPUBLICKEY" -> adbd_auth_confirm_key(s)
  /\ toDev' = [toDev EXCEPT ![s] = Tail(@)]
  /\ UNCHANGED <<host, link, framework, oks>>

\* The error closure: handle_offline, and the transport is deleted.
DeviceOffline(s) ==
  /\ dev[s].st = "live" /\ link[s] = "down"
  /\ RunDisconnects(s)
  /\ dev' = [dev EXCEPT ![s] = [Offline(dev[s]) EXCEPT !.st = "deleted"]]
  /\ toDev' = [toDev EXCEPT ![s] = <<>>]
  /\ UNCHANGED <<host, link, toHost, framework, prompts, oks>>

-----------------------------------------------------------------------------
(* The framework *)

\* Mutant: whoever is waiting is asked again, retry or not.
adbd_auth_listener_Always ==
  /\ framework.count < MaxFrameworks
  /\ framework' = [count |-> framework.count + 1, open |-> TRUE]
  /\ prompts' = 0 /\ oks' = 0
  /\ needs_retry' = FALSE
  /\ IF usb_transport # nullptr
     THEN send_auth_request(dev[usb_transport], usb_transport)
     ELSE UNCHANGED <<dev, toHost>>
  /\ UNCHANGED <<host, link, toDev, usb_transport>>

\* adbd_auth_listener: a second connection replaces the first, and what the
\* old one was asked or has answered is gone.
adbd_auth_listener ==
  /\ framework.count < MaxFrameworks
  /\ framework' = [count |-> framework.count + 1, open |-> TRUE]
  /\ prompts' = 0 /\ oks' = 0
  /\ needs_retry' = FALSE
  /\ IF needs_retry
     THEN send_auth_request(dev[usb_transport], usb_transport)
     ELSE UNCHANGED <<dev, toHost>>
  /\ UNCHANGED <<host, link, toDev, usb_transport>>

framework_disconnected ==
  /\ framework.open
  /\ framework' = [framework EXCEPT !.open = FALSE]
  /\ prompts' = 0 /\ oks' = 0
  /\ UNCHANGED <<host, dev, link, toHost, toDev, usb_transport, needs_retry>>

\* The user allows the key, or does not.
UserAnswers ==
  /\ prompts > 0
  /\ prompts' = prompts - 1
  /\ oks' \in {oks, oks + 1}
  /\ UNCHANGED <<host, dev, link, toHost, toDev, usb_transport, needs_retry, framework>>

\* Mutant: any event on the framework's socket is taken for an answer.
adbd_auth_event_Any ==
  /\ framework.open
  /\ oks' = oks - 1
  /\ IF usb_transport # nullptr
     THEN adbd_auth_verified(dev[usb_transport], usb_transport)
     ELSE UNCHANGED <<dev, toHost>>
  /\ UNCHANGED <<host, link, toDev, usb_transport, needs_retry, framework, prompts>>

\* "OK" concerns whichever transport usb_transport is now.
adbd_auth_event ==
  /\ framework.open /\ oks > 0
  /\ oks' = oks - 1
  /\ IF usb_transport # nullptr
     THEN adbd_auth_verified(dev[usb_transport], usb_transport)
     ELSE UNCHANGED <<dev, toHost>>
  /\ UNCHANGED <<host, link, toDev, usb_transport, needs_retry, framework, prompts>>

Next ==
  \/ Connect \/ HostOffline \/ HostReceives
  \/ \E s \in Sessions : LinkDrops(s) \/ DeviceReceives(s) \/ DeviceOffline(s)
  \/ adbd_auth_listener \/ framework_disconnected \/ UserAnswers \/ adbd_auth_event

Spec == Init /\ [][Next]_vars

\* Both programs keep handling what arrives, the host reconnects, and the
\* framework connects to adbd.  The link may drop and the user may not answer.
FairSpec ==
  /\ Spec
  /\ WF_vars(HostReceives) /\ WF_vars(HostOffline) /\ WF_vars(Connect)
  /\ WF_vars(adbd_auth_event) /\ WF_vars(adbd_auth_listener)
  /\ \A s \in Sessions : WF_vars(DeviceReceives(s)) /\ WF_vars(DeviceOffline(s))
=============================================================================
