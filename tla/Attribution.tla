---------------------------- MODULE Attribution ----------------------------
(***************************************************************************)
(* Process attribution in the eBPF program                                 *)
(* (crates/tls-probe-ebpf/src/process.rs): the connect kprobes leave the   *)
(* process in CONNECT_STASH, their kretprobes move it to CONN_MAP under    *)
(* the 4-tuple the socket has by then, the accept kretprobe writes it      *)
(* there directly, and the classifier (tls.rs) looks it up per packet.     *)
(*                                                                         *)
(* Nothing takes an entry out of CONN_MAP when its connection closes; a    *)
(* 4-tuple is used again by later connections.  Both maps are LRU: an      *)
(* insertion into a full one drops some other entry.                       *)
(*                                                                         *)
(* A probe does nothing until the loader has attached it: `probes' is      *)
(* changed by module Startup, which composes the two.  A kretprobe fires   *)
(* only for calls made after it was attached.                              *)
(***************************************************************************)
EXTENDS Naturals, Sequences, FiniteSets, Functions

CONSTANTS
  Conns,     (* ConnKeys: 4-tuples, the local side first                    *)
  Family,    (* the address family of each: "v4" or "v6"                    *)
  Loopback,  (* those from 127.0.0.1 to itself                              *)
  Layouts,   (* what the kernels' sock_common may have misplaced            *)
  Tasks,     (* pid_tgids                                                   *)
  Process,   (* the process of each task                                    *)
  StashCap,  (* entries of CONNECT_STASH (1024)                             *)
  ConnCap,   (* entries of CONN_MAP (8192)                                  *)
  None

Processes == {Process[t] : t \in Tasks}

(* What process.rs reads at fixed offsets: the two IPv4 addresses, which   *)
(* of them is the local one, the IPv6 addresses, the ports, the family.    *)
OffsetFields == {"v4", "sides", "v6", "ports", "family"}

(* A 4-tuple of which some part was read at a wrong offset, from the       *)
(* socket of a connection: it is no connection's.                          *)
Misreads == [of: Conns, localhost: BOOLEAN]

ASSUME AttributionAssumption ==
  /\ StashCap \in Nat \ {0}
  /\ ConnCap \in Nat \ {0}
  /\ Family \in [Conns -> {"v4", "v6"}]
  /\ Loopback \subseteq {k \in Conns : Family[k] = "v4"}
  /\ Layouts \subseteq SUBSET OffsetFields
  /\ Conns \cap Misreads = {}
  /\ None \notin Processes /\ None \notin Conns /\ None \notin Tasks

VARIABLES
  stash,      (* CONNECT_STASH: per task, the process and the socket         *)
  conn_map,   (* CONN_MAP: per 4-tuple, the process                          *)
  probes,     (* the attribution probes attached so far                      *)
  misplaced,  (* the fields that the kernel's sock_common has elsewhere than *)
              (* where process.rs reads them                                 *)
  sockets,    (* the kernel's connections: state and process behind each,    *)
              (* and whether the probes saw that process take it             *)
  connect,    (* per task, the socket it is connecting, and whether its      *)
              (* kretprobe was there when it called                          *)
  accepting   (* tasks waiting in accept() since before its kretprobe        *)

attribution_vars == <<stash, conn_map, probes, misplaced, sockets, connect,
                      accepting>>

CONNECT_KPROBES == <<"tcp_v4_connect", "tcp_v6_connect">>
CONNECT_KRETPROBES == <<"tcp_v4_connect_ret", "tcp_v6_connect_ret">>
ACCEPT_KRETPROBE == "inet_csk_accept"

(* In the order in which the loader attaches them. *)
AttributionProbes == CONNECT_KPROBES \o CONNECT_KRETPROBES \o <<ACCEPT_KRETPROBE>>

EntryProbe(k) == CONNECT_KPROBES[IF Family[k] = "v4" THEN 1 ELSE 2]
ReturnProbe(k) == CONNECT_KRETPROBES[IF Family[k] = "v4" THEN 1 ELSE 2]

(* connected: the connect function has returned 0; backlog: established,   *)
(* not accepted yet.                                                       *)
SocketStates == {"connecting", "connected", "backlog", "accepted"}

(* Both maps hold processes, within their capacities; a socket has a       *)
(* process from the time it is connected or accepted.                      *)
AttributionTypeOK ==
  /\ stash \in [DOMAIN stash -> [sock: Conns, info: Processes]]
  /\ DOMAIN stash \subseteq Tasks /\ Cardinality(DOMAIN stash) <= StashCap
  /\ conn_map \in [DOMAIN conn_map -> Processes]
  /\ DOMAIN conn_map \subseteq Conns \cup Misreads
  /\ Cardinality(DOMAIN conn_map) <= ConnCap
  /\ probes \subseteq Range(AttributionProbes) /\ misplaced \in Layouts
  /\ sockets \in [DOMAIN sockets -> [state: SocketStates, seen: BOOLEAN,
                                     process: Processes \cup {None}]]
  /\ DOMAIN sockets \subseteq Conns
  /\ connect \in [Tasks -> [sock: Conns, seen: BOOLEAN] \cup {None}]
  /\ accepting \subseteq Tasks

AttributionInit ==
  /\ stash = [t \in {} |-> None]
  /\ conn_map = [k \in {} |-> None]
  /\ probes = {}
  /\ misplaced \in Layouts
  /\ sockets = [k \in {} |-> None]
  /\ connect = [t \in Tasks |-> None]
  /\ accepting = {}

(***************************************************************************)
(* Operations                                                              *)
(***************************************************************************)

With(m, k, v) == [x \in DOMAIN m \cup {k} |-> IF x = k THEN v ELSE m[x]]
Without(m, k) == Restrict(m, DOMAIN m \ {k})

(* An insertion into an LRU map: a new key finds room, or makes some.      *)
(* Which entry goes depends on per-CPU lists: any may.                     *)
LruInsert(m, k, v, cap) ==
  IF k \in DOMAIN m \/ Cardinality(DOMAIN m) < cap
  THEN {With(m, k, v)}
  ELSE {With(Without(m, old), k, v) : old \in DOMAIN m}

Open(k, state) ==
  /\ k \notin DOMAIN sockets
  /\ sockets' = With(sockets, k, [state |-> state, process |-> None, seen |-> FALSE])

Established(k, state, t, seen) ==
  sockets' = [sockets EXCEPT ![k] = [state |-> state, process |-> Process[t],
                                     seen |-> seen]]

(* Whether a handler for the address family finds the addresses of         *)
(* connection k in its socket.  On the loopback, either is the other.      *)
AddressesRead(k, family) ==
  /\ family = Family[k] /\ family \notin misplaced
  /\ family = "v4" /\ "sides" \in misplaced => k \in Loopback

(* The 4-tuple it reads. *)
TupleRead(k, family) ==
  IF AddressesRead(k, family) /\ "ports" \notin misplaced THEN k
  ELSE [of |-> k, localhost |-> k \in Loopback /\ AddressesRead(k, family)]

(* The 4-tuples of CONN_MAP with 127.0.0.1 for both addresses. *)
OnLocalhost == Loopback \cup {m \in Misreads : m.localhost}

(* tcp_v4_connect / tcp_v6_connect is called: its kprobe stashes the       *)
(* socket and the process.                                                 *)
StashConnectEntry(t, k) ==
  /\ connect[t] = None /\ t \notin accepting
  /\ Open(k, "connecting")
  /\ connect' = [connect EXCEPT ![t] = [sock |-> k, seen |-> ReturnProbe(k) \in probes]]
  /\ IF EntryProbe(k) \in probes
     THEN stash' \in LruInsert(stash, t, [sock |-> k, info |-> Process[t]], StashCap)
     ELSE UNCHANGED stash
  /\ UNCHANGED <<conn_map, probes, misplaced, accepting>>

(* It returns an error: the kretprobe cleans the stash up. *)
ConnectFails(t) ==
  /\ connect[t] # None
  /\ stash' = IF connect[t].seen THEN Without(stash, t) ELSE stash
  /\ sockets' = Without(sockets, connect[t].sock)
  /\ connect' = [connect EXCEPT ![t] = None]
  /\ UNCHANGED <<conn_map, probes, misplaced, accepting>>

(* It returns 0: the kretprobe moves what the stash holds to CONN_MAP;     *)
(* without a stash nothing is recorded.                                    *)
FinishConnect(t) ==
  /\ connect[t] # None
  /\ IF connect[t].seen /\ t \in DOMAIN stash
     THEN conn_map' \in
            LruInsert(conn_map, TupleRead(stash[t].sock, Family[connect[t].sock]),
                      stash[t].info, ConnCap)
     ELSE UNCHANGED conn_map
  /\ stash' = IF connect[t].seen THEN Without(stash, t) ELSE stash
  /\ Established(connect[t].sock, "connected", t, connect[t].seen)
  /\ connect' = [connect EXCEPT ![t] = None]
  /\ UNCHANGED <<probes, misplaced, accepting>>

(* The kernel completes an incoming handshake. *)
Arrives(k) ==
  /\ Open(k, "backlog")
  /\ UNCHANGED <<stash, conn_map, probes, misplaced, connect, accepting>>

(* A server waits in accept() before there is a probe. *)
EnterAccept(t) ==
  /\ ACCEPT_KRETPROBE \notin probes
  /\ connect[t] = None /\ t \notin accepting
  /\ accepting' = accepting \cup {t}
  /\ UNCHANGED <<stash, conn_map, probes, misplaced, sockets, connect>>

(* The families that the accept kretprobe may take a socket to be of.  At  *)
(* the wrong offset it reads one of them by chance, or neither.            *)
FamiliesRead(k) == IF "family" \in misplaced THEN {"v4", "v6"} ELSE {Family[k]}

(* accept() returns the connection: the inet_csk_accept kretprobe.  For an *)
(* address family it does not know it records nothing.                     *)
TryRecordAccept(t, k) ==
  LET seen == ACCEPT_KRETPROBE \in probes /\ t \notin accepting
  IN /\ connect[t] = None
     /\ k \in DOMAIN sockets /\ sockets[k].state = "backlog"
     /\ \/ /\ seen
           /\ \E family \in FamiliesRead(k) :
                conn_map' \in LruInsert(conn_map, TupleRead(k, family), Process[t], ConnCap)
        \/ ~(seen /\ "family" \notin misplaced) /\ UNCHANGED conn_map
     /\ accepting' = accepting \ {t}
     /\ Established(k, "accepted", t, seen)
     /\ UNCHANGED <<stash, probes, misplaced, connect>>

(* The connection ends; the maps are left as they are. *)
Close(k) ==
  /\ k \in DOMAIN sockets /\ sockets[k].state # "connecting"
  /\ sockets' = Without(sockets, k)
  /\ UNCHANGED <<stash, conn_map, probes, misplaced, connect, accepting>>

(* The pid the classifier gives to a capture on connection k. *)
Attributed(k) == IF k \in DOMAIN conn_map THEN conn_map[k] ELSE None

(***************************************************************************)
(* Properties                                                              *)
(***************************************************************************)

(* What CONN_MAP says of a connection that a process connected or accepted *)
(* is that process: with several tasks of several processes connecting at  *)
(* once, before, between and after the attachments, 4-tuples used again,   *)
(* and entries evicted, and also where addresses or ports are misplaced.   *)
(* Where the family is, an accept may leave the entry of an earlier        *)
(* connection.  (Given that the stash has room for every task in           *)
(* connect().)                                                             *)
AttributedToOwner ==
  "family" \notin misplaced =>
    \A k \in DOMAIN sockets :
      sockets[k].seen => Attributed(k) \in {sockets[k].process, None}

(***************************************************************************)
(* What the documentation says and the code does not keep.                 *)
(***************************************************************************)

(* docs/limitations.md: handshakes before accept() "can produce events     *)
(* before the attribution entry exists -> `pid: null` on those events".    *)
PreAcceptIsNull ==
  \A k \in DOMAIN sockets : sockets[k].state = "backlog" => Attributed(k) = None

=============================================================================
