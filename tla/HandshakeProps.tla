--------------------------- MODULE HandshakeProps ---------------------------
(* What the handshake promises. *)
EXTENDS Handshake

\* Types of what the two ends, the link and the framework hold.
TypeOK ==
  /\ host \in [state : {"Offline", "Authorizing", "Unauthorized", "Device"}, online : BOOLEAN,
               keys : Seq(Keys \cup {nullptr}), version : A_VERSION_MIN..A_VERSION,
               sess : 0..MaxSessions, open : BOOLEAN, tried : SUBSET Keys]
  /\ dev \in [Sessions -> [st : {"none", "live", "deleted"}, state : {"Offline", "Host"},
                           online : BOOLEAN, version : A_VERSION_MIN..A_VERSION,
                           token : Nat, disconnect : BOOLEAN]]
  /\ link \in [Sessions -> {"none", "up", "down"}]
  /\ DOMAIN toHost = Sessions /\ DOMAIN toDev = Sessions
  /\ \A s \in Sessions : \A p \in Range(toHost[s]) \cup Range(toDev[s]) :
       p.cmd \in {"CNXN", "TOKEN", "SIGNATURE", "RSAPUBLICKEY"}
  /\ usb_transport \in Sessions \cup {nullptr} /\ needs_retry \in BOOLEAN
  /\ framework \in [count : 0..MaxFrameworks, open : BOOLEAN]
  /\ prompts \in Nat /\ oks \in Nat

(***************************************************************************)
(* Over USB the exchange is a strict question and answer, whatever the     *)
(* framework does in between: of a live session's CNXN, tokens, signatures *)
(* and public key one at most is under way, and a signature answers the    *)
(* token adbd holds; no good key is refused for a token that was replaced. *)
(* (Over TCP the late key of a session that ended may set needs_retry for  *)
(* the one that followed.)                                                 *)
(***************************************************************************)
OneQuestion ==
  \A s \in {u \in Sessions : link[u] = "up"} :
    LET tokens == {i \in 1..Len(toHost[s]) : toHost[s][i].cmd = "TOKEN"}
    IN /\ Cardinality(tokens) + Len(toDev[s]) <= 1
       /\ \A i \in tokens : toHost[s][i].token = dev[s].token
       /\ \A p \in Range(toDev[s]) : p.cmd = "SIGNATURE" => p.token = dev[s].token



(***************************************************************************)
(* "ADB_VENDOR_KEYS exhausted, fell back to user prompt" (kCsUnauthorized):*)
(* over USB a host falls back to its public key only after it has signed   *)
(* with each of its keys on this connection.  (Over TCP keys_ outlives the *)
(* connection, and the keys used up on the last one are not tried again.)  *)
(***************************************************************************)
UnauthorizedIsExhausted == host.state = "Unauthorized" => host.tried = Keys

\* A host one of whose keys adbd knows gets online without the user, on every
\* session that lasts.
KnownKeyConnects ==
  \A s \in Sessions :
    (host.open /\ host.sess = s /\ Keys \cap Known[s] # {}) ~> (host.online \/ link[s] = "down")

(***************************************************************************)
(* A host that sent its public key has it shown to the user, also when the *)
(* framework connects to adbd only after the key came.  (A framework that  *)
(* goes away takes the question with it.)                                  *)
(***************************************************************************)
UserIsAsked ==
  \A s \in Sessions :
    RSAPUBLICKEY \in Range(toDev[s])
      ~> (prompts > 0 \/ link[s] = "down" \/ (~framework.open /\ framework.count = MaxFrameworks))
=============================================================================
