--------------------------- MODULE StartupProofs ---------------------------
(* Theorems about Startup, for every host, mode and number of interfaces,  *)
(* and whatever the other processes do.                                    *)
EXTENDS Startup, FiniteSetTheorems, SequenceTheorems, TLAPS

Directions == {"ingress", "egress"}

(* The stages after attach() has returned. *)
Attached == {"self_test", "accept", "join", "search", "running"}

(* Of the interface that is being attached, the ingress classifier is in   *)
(* place when it comes to the egress one; after attach() there is one.     *)
AttachInv ==
  /\ attached_interfaces \X Directions \subseteq tc
  /\ stage = "egress" => <<Head(interfaces), "ingress">> \in tc
  /\ stage \in Attached => attached_interfaces # {}

(* What AttachInv is about. *)
attach_vars == <<stage, interfaces, tc, attached_interfaces>>

LEMMA InitAttachInv == Init => AttachInv
  BY DEF Init, AttachInv, Attached

LEMMA StutterAttachInv == AttachInv /\ UNCHANGED attach_vars => AttachInv'
  BY DEF AttachInv, attach_vars

(* A step that only moves on, but neither to "egress" nor past attach().   *)
LEMMA ContinueAttachInv ==
  ASSUME NEW from, NEW to, AttachInv, Continue(from, to),
         to # "egress", to \in Attached => attached_interfaces # {}
  PROVE  AttachInv'
  BY DEF Continue, AttachInv

LEMMA ExitAttachInv == Exit => AttachInv'
  BY DEF Exit, AttachInv, Attached

LEMMA SelfTestReturnsAttachInv ==
  ASSUME AttachInv, stage \in Attached, NEW verdict, SelfTestReturns(verdict)
  PROVE  AttachInv'
  BY DEF SelfTestReturns, AttachInv, Attached

(* One case per action of the main thread. *)
LEMMA MainStepAttachInv == AttachInv /\ MainStep => AttachInv'
<1> SUFFICES ASSUME AttachInv, MainStep PROVE AttachInv'
  OBVIOUS
<1>1. ASSUME NEW h \in Hosts, CheckCapabilities(h) PROVE AttachInv'
  BY <1>1, ContinueAttachInv, ExitAttachInv DEF CheckCapabilities, Attached
<1>2. ASSUME NEW h \in Hosts, EnsureMemlockRlimit(h) PROVE AttachInv'
  BY <1>2, ContinueAttachInv, ExitAttachInv DEF EnsureMemlockRlimit, Attached
<1>3. ASSUME NEW h \in Hosts, NEW mode \in Modes, DetectInterfaces(mode, h)
      PROVE  AttachInv'
  BY <1>3, ExitAttachInv DEF DetectInterfaces, AttachInv, Attached
<1>4. CASE LoadObject
  BY <1>4, ContinueAttachInv, ExitAttachInv DEF LoadObject, Attached
<1>5. CASE LoadClassifiers
  BY <1>5, ContinueAttachInv, ExitAttachInv DEF LoadClassifiers, Attached
<1>6. CASE AttachProbe
  BY <1>6 DEF AttachProbe, AttachInv, Attached
<1>7. CASE AllProbesAttached
  BY <1>7, ContinueAttachInv DEF AllProbesAttached, Attached
<1>8. CASE AttachIngress
  BY <1>8 DEF AttachIngress, AttachInv, Attached
<1>9. CASE AttachEgress
  <2>1. CASE tc' = tc /\ attached_interfaces' = attached_interfaces
    BY <1>9, <2>1 DEF AttachEgress, AttachInv, Attached
  <2>2. CASE /\ tc' = tc \cup {<<Head(interfaces), "egress">>}
             /\ attached_interfaces' = attached_interfaces \cup {Head(interfaces)}
    <3>1. stage = "egress" /\ stage' = "ingress"
      BY <1>9 DEF AttachEgress
    <3>2. <<Head(interfaces), "ingress">> \in tc
      BY <3>1 DEF AttachInv
    <3>3. attached_interfaces' \X Directions \subseteq tc'
      BY <2>2, <3>2 DEF AttachInv, Directions
    <3> QED
      BY <3>1, <3>3 DEF AttachInv, Attached
  <2> QED
    BY <1>9, <2>1, <2>2 DEF AttachEgress
<1>10. CASE AttachReturns
  BY <1>10, ContinueAttachInv, ExitAttachInv DEF AttachReturns, Attached
<1>11. CASE SelfTestSkipped
  BY <1>11, SelfTestReturnsAttachInv DEF SelfTestSkipped, Attached
<1>12. CASE SelfTestBegins
  BY <1>12 DEF SelfTestBegins, AttachInv, Attached
<1>13. CASE AcceptReturns
  BY <1>13 DEF AcceptReturns, AttachInv, Attached
<1>14. CASE AcceptGivesUp
  BY <1>14, ContinueAttachInv DEF AcceptGivesUp, Continue, AttachInv, Attached
<1>15. CASE JoinConnector
  <2>1. stage = "join"
    BY <1>15 DEF JoinConnector
  <2>2. CASE SelfTestReturns(FALSE)
    BY <2>1, <2>2, SelfTestReturnsAttachInv DEF Attached
  <2>3. CASE stage' = "search" /\ UNCHANGED <<interfaces, tc, attached_interfaces>>
    BY <2>1, <2>3 DEF AttachInv, Attached
  <2> QED
    BY <1>15, <2>2, <2>3 DEF JoinConnector
<1>16. CASE SearchConnMap
  BY <1>16, SelfTestReturnsAttachInv DEF SearchConnMap, Attached
<1> QED
  BY <1>1, <1>2, <1>3, <1>4, <1>5, <1>6, <1>7, <1>8, <1>9, <1>10, <1>11, <1>12,
     <1>13, <1>14, <1>15, <1>16 DEF MainStep

LEMMA NextAttachInv == AttachInv /\ [Next]_vars => AttachInv'
<1> SUFFICES ASSUME AttachInv, [Next]_vars PROVE AttachInv'
  OBVIOUS
<1>1. CASE MainStep
  BY <1>1, MainStepAttachInv
<1>2. CASE AcceptErrors
  BY <1>2, ContinueAttachInv DEF AcceptErrors, Continue, AttachInv, Attached
<1>3. CASE ConnectorStep
  BY <1>3, StutterAttachInv
  DEF ConnectorStep, ConnectorConnects, ConnectorReturns, startup_vars, attach_vars
<1>4. CASE HostStep
  BY <1>4, StutterAttachInv DEF HostStep, startup_vars, attach_vars
<1>5. CASE UNCHANGED vars
  BY <1>5, StutterAttachInv DEF vars, startup_vars, attach_vars
<1> QED
  BY <1>1, <1>2, <1>3, <1>4, <1>5 DEF Next

(* A probe that runs watches both directions of every interface in its     *)
(* list, and there is one (loader.rs, attach and attach_interface): for    *)
(* any list of interfaces, with any of the attachments failing.            *)
THEOREM WatchesBothWays == Spec => []AttachedBothWays
<1>1. AttachInv => AttachedBothWays
  BY DEF AttachInv, AttachedBothWays, Attached, Directions
<1> QED
  BY <1>1, InitAttachInv, NextAttachInv, PTL DEF Spec

(***************************************************************************)
(* Attribution: what CONN_MAP says, and what the self-test shows           *)
(***************************************************************************)

(* The probes attached are the first n of the list, the rest is pending. *)
Progress(n) ==
  /\ probes = {AttributionProbes[i] : i \in 1 .. n}
  /\ pending = SubSeq(AttributionProbes, n + 1, 5)

ProbeInv ==
  /\ stage = "exited" => probes = {}
  /\ stage # "exited" => \E n \in 0 .. 5 : Progress(n)

(* A kretprobe is attached after its kprobe, and the accept kretprobe      *)
(* last.                                                                   *)
ProbesOrdered ==
  /\ \A k \in Conns : ReturnProbe(k) \in probes => EntryProbe(k) \in probes
  /\ ACCEPT_KRETPROBE \in probes =>
       {"tcp_v4_connect", "tcp_v4_connect_ret"} \subseteq probes

(* The connecting thread lives during the self-test only, and connects     *)
(* only while it is said to.                                               *)
ThreadInv ==
  /\ stage \notin {"accept", "join", "search"} => thread = "none"
  /\ stage = "search" => thread = "done"
  /\ connect[Connector] # None => thread = "connecting"

(* A task in connect() has a socket of its own, and only the self-test     *)
(* connects the self-test's.                                               *)
ConnectInv ==
  /\ connect \in [Tasks -> [sock: Conns, seen: BOOLEAN] \cup {None}]
  /\ \A t \in Tasks : connect[t] # None =>
       /\ connect[t].sock \in DOMAIN sockets
       /\ sockets[connect[t].sock].state = "connecting"
       /\ IF t = Connector THEN connect[t].sock = SelfOut
          ELSE connect[t].sock \notin {SelfOut, SelfIn}
  /\ \A t, u \in Tasks :
       connect[t] # None /\ connect[u] # None /\ connect[t].sock = connect[u].sock => t = u

(* What the kretprobe of a call will find in the stash, if anything, is    *)
(* what the kprobe of that call left there.                                *)
StashInv ==
  \A t \in Tasks :
    connect[t] # None /\ connect[t].seen /\ stage # "exited" =>
      /\ ReturnProbe(connect[t].sock) \in probes
      /\ t \in DOMAIN stash =>
           stash[t] = [sock |-> connect[t].sock, info |-> Process[t]]

(* An entry of CONN_MAP was read from the socket of a connection k, by a   *)
(* kretprobe that was there to write it.  It has the 4-tuple of k only     *)
(* where the kernel has the fields in their places, and 127.0.0.1 for both *)
(* addresses only where it has the IPv4 addresses in theirs.               *)
ReadFrom(q, k) ==
  /\ ReturnProbe(k) \in probes \/ ACCEPT_KRETPROBE \in probes
  /\ \/ q = k /\ AddressesRead(k, Family[k]) /\ "ports" \notin misplaced
     \/ /\ q \in Misreads
        /\ q.localhost => k \in Loopback /\ "v4" \notin misplaced

MapInv ==
  /\ DOMAIN conn_map # {} => stage # "exited"
  /\ \A q \in DOMAIN conn_map : \E k \in Conns : ReadFrom(q, k)

TestInv == self_test => stage = "running" /\ SelfTestSound

SoundInv == ProbeInv /\ ThreadInv /\ ConnectInv /\ StashInv /\ MapInv /\ TestInv

(* With room in the stash for every task, the kretprobe does find it. *)
OwnerInv ==
  /\ DOMAIN stash \subseteq Tasks /\ DOMAIN sockets \subseteq Conns
  /\ \A t \in Tasks :
       connect[t] # None /\ connect[t].seen /\ stage # "exited" => t \in DOMAIN stash
  /\ AttributedToOwner

(* An insertion into an LRU map: the new entry is there, and what else is  *)
(* there was there before.                                                 *)
LEMMA LruInsertOK ==
  ASSUME NEW m, NEW k, NEW v, NEW cap, NEW r \in LruInsert(m, k, v, cap)
  PROVE  /\ k \in DOMAIN r /\ r[k] = v /\ DOMAIN r \subseteq DOMAIN m \cup {k}
         /\ \A j \in DOMAIN r \ {k} : j \in DOMAIN m /\ r[j] = m[j]
<1>1. CASE k \in DOMAIN m \/ Cardinality(DOMAIN m) < cap
  <2>1. r = With(m, k, v)
    BY <1>1 DEF LruInsert
  <2> QED BY <2>1 DEF With
<1>2. CASE ~(k \in DOMAIN m \/ Cardinality(DOMAIN m) < cap)
  <2>1. PICK old \in DOMAIN m : r = With(Without(m, old), k, v)
    BY <1>2 DEF LruInsert
  <2> DEFINE w == Without(m, old)
  <2>2. DOMAIN w = DOMAIN m \ {old} /\ \A j \in DOMAIN w : w[j] = m[j]
    BY DEF Without, Restrict
  <2> HIDE DEF w
  <2>3. r = With(w, k, v)
    BY <2>1 DEF w
  <2>4. /\ DOMAIN r = DOMAIN w \cup {k} /\ r[k] = v
        /\ \A j \in DOMAIN r \ {k} : r[j] = w[j]
    BY <2>3 DEF With
  <2> QED BY <2>2, <2>4
<1> QED BY <1>1, <1>2

(* With room, nothing goes. *)
LEMMA LruInsertRoom ==
  ASSUME NEW m, NEW k, NEW v, NEW cap, Cardinality(DOMAIN m) < cap \/ k \in DOMAIN m,
         NEW r \in LruInsert(m, k, v, cap)
  PROVE  DOMAIN r = DOMAIN m \cup {k}
  BY DEF LruInsert, With

LEMMA FiveItems ==
  ASSUME NEW S, NEW a \in S, NEW b \in S, NEW c \in S, NEW d \in S, NEW e \in S,
         NEW q, q = <<a, b>> \o <<c, d>> \o <<e>>
  PROVE  /\ q \in Seq(S) /\ Len(q) = 5
         /\ q[1] = a /\ q[2] = b /\ q[3] = c /\ q[4] = d /\ q[5] = e
<1>1. \A x, y \in S : /\ <<x, y>> \in Seq(S) /\ Len(<<x, y>>) = 2
                      /\ <<x, y>>[1] = x /\ <<x, y>>[2] = y
  OBVIOUS
<1>2. <<e>> \in Seq(S) /\ Len(<<e>>) = 1 /\ <<e>>[1] = e
  OBVIOUS
<1> DEFINE f == <<a, b>>
           g == <<c, d>>
           h == <<e>>
<1>3. /\ f \in Seq(S) /\ g \in Seq(S) /\ h \in Seq(S)
      /\ Len(f) = 2 /\ Len(g) = 2 /\ Len(h) = 1
      /\ f[1] = a /\ f[2] = b /\ g[1] = c /\ g[2] = d /\ h[1] = e
  BY <1>1, <1>2
<1> HIDE DEF f, g, h
<1>4. /\ f \o g \in Seq(S) /\ Len(f \o g) = 4
      /\ (f \o g)[1] = a /\ (f \o g)[2] = b /\ (f \o g)[3] = c /\ (f \o g)[4] = d
  <2>1. /\ f \o g \in Seq(S) /\ Len(f \o g) = 4
        /\ \A i \in 1 .. 4 : (f \o g)[i] = IF i <= 2 THEN f[i] ELSE g[i - 2]
    <3>1. /\ f \o g \in Seq(S) /\ Len(f \o g) = Len(f) + Len(g)
          /\ \A i \in 1 .. Len(f) + Len(g) :
               (f \o g)[i] = IF i <= Len(f) THEN f[i] ELSE g[i - Len(f)]
      <4>1. f \in Seq(S) /\ g \in Seq(S)
        BY <1>3
      <4> QED BY <4>1, ConcatProperties, Zenon
    <3> QED BY <1>3, <3>1
  <2> QED BY <1>3, <2>1
<1> DEFINE k == f \o g
<1>5. /\ k \in Seq(S) /\ Len(k) = 4 /\ k[1] = a /\ k[2] = b /\ k[3] = c /\ k[4] = d
  BY <1>4
<1> HIDE DEF k
<1>6. /\ k \o h \in Seq(S) /\ Len(k \o h) = 5
      /\ \A i \in 1 .. 5 : (k \o h)[i] = IF i <= 4 THEN k[i] ELSE h[i - 4]
  <2>1. /\ k \o h \in Seq(S) /\ Len(k \o h) = Len(k) + Len(h)
        /\ \A i \in 1 .. Len(k) + Len(h) :
             (k \o h)[i] = IF i <= Len(k) THEN k[i] ELSE h[i - Len(k)]
    <3>1. k \in Seq(S) /\ h \in Seq(S)
      BY <1>3, <1>5
    <3> QED BY <3>1, ConcatProperties, Zenon
  <2> QED BY <1>3, <1>5, <2>1
<1>7. /\ (k \o h)[1] = a /\ (k \o h)[2] = b /\ (k \o h)[3] = c /\ (k \o h)[4] = d
      /\ (k \o h)[5] = e
  BY <1>3, <1>5, <1>6
<1> QED BY <1>6, <1>7 DEF f, g, h, k

(* The five probes, one by one. *)
ProbeNames == {"tcp_v4_connect", "tcp_v6_connect", "tcp_v4_connect_ret",
               "tcp_v6_connect_ret", "inet_csk_accept"}

LEMMA ProbeList ==
  /\ AttributionProbes \in Seq(ProbeNames) /\ Len(AttributionProbes) = 5
  /\ AttributionProbes[1] = "tcp_v4_connect" /\ AttributionProbes[2] = "tcp_v6_connect"
  /\ AttributionProbes[3] = "tcp_v4_connect_ret" /\ AttributionProbes[4] = "tcp_v6_connect_ret"
  /\ AttributionProbes[5] = "inet_csk_accept"
<1>1. /\ "tcp_v4_connect" \in ProbeNames /\ "tcp_v6_connect" \in ProbeNames
      /\ "tcp_v4_connect_ret" \in ProbeNames /\ "tcp_v6_connect_ret" \in ProbeNames
      /\ "inet_csk_accept" \in ProbeNames
  BY DEF ProbeNames
<1> QED BY <1>1, FiveItems
    DEF AttributionProbes, CONNECT_KPROBES, CONNECT_KRETPROBES, ACCEPT_KRETPROBE

LEMMA ProbeInvOrders == ProbeInv => ProbesOrdered
<1> SUFFICES ASSUME ProbeInv PROVE ProbesOrdered
  OBVIOUS
<1>1. PICK n \in 0 .. 5 : probes = {AttributionProbes[i] : i \in 1 .. n}
  <2>1. CASE stage = "exited"
    <3>1. {AttributionProbes[i] : i \in 1 .. 0} = {}
      OBVIOUS
    <3> QED BY <2>1, <3>1 DEF ProbeInv
  <2> QED BY <2>1 DEF ProbeInv, Progress
<1>2. \A i \in 1 .. 5 : AttributionProbes[i] \in probes <=> i <= n
  BY <1>1, ProbeList
<1>3. /\ "tcp_v4_connect" \in probes <=> 1 <= n
      /\ "tcp_v6_connect" \in probes <=> 2 <= n
      /\ "tcp_v4_connect_ret" \in probes <=> 3 <= n
      /\ "tcp_v6_connect_ret" \in probes <=> 4 <= n
      /\ "inet_csk_accept" \in probes <=> 5 <= n
  BY <1>2, ProbeList
<1>4. ASSUME NEW k \in Conns, ReturnProbe(k) \in probes PROVE EntryProbe(k) \in probes
  <2>1. CASE Family[k] = "v4"
    BY <1>3, <1>4, <2>1 DEF ReturnProbe, EntryProbe, CONNECT_KPROBES, CONNECT_KRETPROBES
  <2>2. CASE Family[k] # "v4"
    BY <1>3, <1>4, <2>2 DEF ReturnProbe, EntryProbe, CONNECT_KPROBES, CONNECT_KRETPROBES
  <2> QED BY <2>1, <2>2
<1> QED BY <1>3, <1>4 DEF ProbesOrdered, ACCEPT_KRETPROBE

(* The parts that the operations of Attribution change. *)
FlowInv == ConnectInv /\ StashInv /\ MapInv

(* Most steps leave CONN_MAP and the layout as they are. *)
LEMMA MapSame ==
  ASSUME MapInv, UNCHANGED <<conn_map, misplaced>>, probes \subseteq probes',
         stage # "exited" => stage' # "exited"
  PROVE  MapInv'
<1>1. \A q, j : ReadFrom(q, j) => ReadFrom(q, j)'
  BY DEF ReadFrom, AddressesRead
<1> QED BY <1>1 DEF MapInv

LEMMA SelfTasks ==
  Main \in Tasks /\ Connector \in Tasks /\ SelfOut \in Conns /\ SelfIn \in Conns
  BY StartupAssumption, AttributionAssumption

(* A connect() begins. *)
LEMMA StashConnectEntryInv ==
  ASSUME FlowInv, ProbesOrdered, stage' = stage, NEW t \in Tasks, NEW k \in Conns,
         IF t = Connector THEN k = SelfOut ELSE k \notin {SelfOut, SelfIn},
         StashConnectEntry(t, k)
  PROVE  FlowInv'
<1> DEFINE call == [sock |-> k, seen |-> ReturnProbe(k) \in probes]
           entry == [sock |-> k, info |-> Process[t]]
<1>1. call.sock = k /\ call.seen = (ReturnProbe(k) \in probes) /\ call \in [sock: Conns, seen: BOOLEAN]
  OBVIOUS
<1>2. /\ connect[t] = None /\ connect' = [connect EXCEPT ![t] = call]
      /\ k \notin DOMAIN sockets
      /\ UNCHANGED <<conn_map, probes, misplaced>>
  BY DEF StashConnectEntry, Open
<1>3. /\ DOMAIN sockets' = DOMAIN sockets \cup {k}
      /\ sockets'[k].state = "connecting"
      /\ \A j \in DOMAIN sockets : sockets'[j] = sockets[j]
  BY DEF StashConnectEntry, Open, With
<1> HIDE DEF call
<1>4. connect'[t] = call /\ \A u \in Tasks \ {t} : connect'[u] = connect[u]
  BY <1>2 DEF FlowInv, ConnectInv
<1>5. ConnectInv'
  <2>1. connect' \in [Tasks -> [sock: Conns, seen: BOOLEAN] \cup {None}]
    BY <1>1, <1>2 DEF FlowInv, ConnectInv
  <2>2. ASSUME NEW u \in Tasks, connect'[u] # None
        PROVE  /\ connect'[u].sock \in DOMAIN sockets'
               /\ sockets'[connect'[u].sock].state = "connecting"
               /\ IF u = Connector THEN connect'[u].sock = SelfOut
                  ELSE connect'[u].sock \notin {SelfOut, SelfIn}
    BY <1>1, <1>3, <1>4, <2>2 DEF FlowInv, ConnectInv
  <2>3. ASSUME NEW u \in Tasks, NEW w \in Tasks, connect'[u] # None, connect'[w] # None,
               connect'[u].sock = connect'[w].sock
        PROVE  u = w
    BY <1>1, <1>2, <1>4, <2>3 DEF FlowInv, ConnectInv
  <2> QED BY <2>1, <2>2, <2>3 DEF ConnectInv
<1>6. StashInv'
  <2> SUFFICES ASSUME NEW u \in Tasks, connect'[u] # None, connect'[u].seen, stage # "exited"
               PROVE  /\ ReturnProbe(connect'[u].sock) \in probes
                      /\ u \in DOMAIN stash' =>
                           stash'[u] = [sock |-> connect'[u].sock, info |-> Process[u]]
    BY <1>2 DEF StashInv
  <2>1. CASE u = t
    <3>1. ReturnProbe(k) \in probes /\ EntryProbe(k) \in probes
      BY <1>1, <1>4, <2>1 DEF ProbesOrdered
    <3>2. stash' \in LruInsert(stash, t, entry, StashCap)
      BY <3>1 DEF StashConnectEntry
    <3> HIDE DEF entry
    <3>3. stash'[t] = entry
      BY <3>2, LruInsertOK
    <3> USE DEF entry
    <3> QED BY <1>1, <1>4, <2>1, <3>1, <3>3
  <2>2. CASE u # t
    <3>1. u \in DOMAIN stash' => u \in DOMAIN stash /\ stash'[u] = stash[u]
      <4>1. CASE EntryProbe(k) \in probes
        <5>1. stash' \in LruInsert(stash, t, entry, StashCap)
          BY <4>1 DEF StashConnectEntry
        <5> HIDE DEF entry
        <5> QED BY <2>2, <5>1, LruInsertOK
      <4>2. CASE EntryProbe(k) \notin probes
        BY <4>2 DEF StashConnectEntry
      <4> QED BY <4>1, <4>2
    <3> QED BY <1>4, <2>2, <3>1 DEF FlowInv, StashInv
  <2> QED BY <2>1, <2>2
<1>7. MapInv'
  BY <1>2, MapSame DEF FlowInv
<1> QED BY <1>5, <1>6, <1>7 DEF FlowInv

(* A connect() ends, one way or the other: the task's socket is no longer  *)
(* connecting.                                                             *)
LEMMA ConnectEndsInv ==
  ASSUME FlowInv, stage' = stage, NEW t \in Tasks, connect[t] # None,
         connect' = [connect EXCEPT ![t] = None],
         stash' = IF connect[t].seen THEN Without(stash, t) ELSE stash,
         \A j \in DOMAIN sockets \ {connect[t].sock} :
           j \in DOMAIN sockets' /\ sockets'[j] = sockets[j],
         UNCHANGED probes
  PROVE  ConnectInv' /\ StashInv'
<1>1. connect'[t] = None /\ \A u \in Tasks \ {t} : connect'[u] = connect[u]
  BY DEF FlowInv, ConnectInv
<1>2. ASSUME NEW u \in Tasks, connect'[u] # None
      PROVE  u # t /\ connect'[u] = connect[u] /\ connect[u].sock # connect[t].sock
  BY <1>1, <1>2 DEF FlowInv, ConnectInv
<1>3. ConnectInv'
  <2>1. connect' \in [Tasks -> [sock: Conns, seen: BOOLEAN] \cup {None}]
    BY DEF FlowInv, ConnectInv
  <2> QED BY <1>2, <2>1 DEF FlowInv, ConnectInv
<1>4. StashInv'
  <2>1. \A u \in Tasks \ {t} : u \in DOMAIN stash' => u \in DOMAIN stash /\ stash'[u] = stash[u]
    BY DEF Without, Restrict
  <2> QED BY <1>2, <2>1 DEF FlowInv, StashInv
<1> QED BY <1>3, <1>4

(* The 4-tuple a handler reads is the connection's own, or no              *)
(* connection's.                                                           *)
LEMMA TupleReadOK ==
  ASSUME NEW k \in Conns, NEW family, NEW key, key = TupleRead(k, family)
  PROVE  \/ /\ key = k /\ family = Family[k]
            /\ AddressesRead(k, family) /\ "ports" \notin misplaced
         \/ /\ key \in Misreads /\ key \notin Conns
            /\ ~(AddressesRead(k, family) /\ "ports" \notin misplaced)
            /\ key.localhost => k \in Loopback /\ "v4" \notin misplaced
<1>1. CASE AddressesRead(k, family) /\ "ports" \notin misplaced
  BY <1>1 DEF TupleRead, AddressesRead
<1>2. CASE ~(AddressesRead(k, family) /\ "ports" \notin misplaced)
  <2> DEFINE local == k \in Loopback /\ AddressesRead(k, family)
  <2>1. key = [of |-> k, localhost |-> local]
    BY <1>2 DEF TupleRead
  <2>2. local \in BOOLEAN
    OBVIOUS
  <2>3. local => k \in Loopback /\ "v4" \notin misplaced
    BY AttributionAssumption DEF AddressesRead
  <2> HIDE DEF local
  <2>4. key \in Misreads /\ key.localhost = local
    BY <2>1, <2>2 DEF Misreads
  <2>5. key \notin Conns
    BY <2>4, AttributionAssumption
  <2> QED BY <1>2, <2>3, <2>4, <2>5
<1> QED BY <1>1, <1>2

(* What an operation adds to CONN_MAP is the 4-tuple of a socket, read at  *)
(* the right offsets or not.                                               *)
LEMMA RecordInv ==
  ASSUME MapInv, stage' # "exited", NEW k \in Conns, NEW family, NEW p,
         ReturnProbe(k) \in probes \/ ACCEPT_KRETPROBE \in probes,
         conn_map' \in LruInsert(conn_map, TupleRead(k, family), p, ConnCap),
         UNCHANGED <<probes, misplaced>>
  PROVE  MapInv'
<1> DEFINE key == TupleRead(k, family)
<1>1. DOMAIN conn_map' \subseteq DOMAIN conn_map \cup {key}
  BY LruInsertOK
<1>2. ReadFrom(key, k)
  BY TupleReadOK DEF ReadFrom
<1> HIDE DEF key
<1>3. \A q, j : ReadFrom(q, j)' = ReadFrom(q, j)
  BY DEF ReadFrom, AddressesRead
<1> QED BY <1>1, <1>2, <1>3 DEF MapInv

LEMMA ConnectFailsInv ==
  ASSUME FlowInv, stage' = stage, NEW t \in Tasks, ConnectFails(t)
  PROVE  FlowInv'
<1>1. \A j \in DOMAIN sockets \ {connect[t].sock} :
        j \in DOMAIN sockets' /\ sockets'[j] = sockets[j]
  BY DEF ConnectFails, Without, Restrict
<1>2. ConnectInv' /\ StashInv'
  BY <1>1, ConnectEndsInv DEF ConnectFails
<1>3. MapInv'
  BY MapSame DEF ConnectFails, FlowInv
<1> QED BY <1>2, <1>3 DEF FlowInv

LEMMA FinishConnectInv ==
  ASSUME FlowInv, stage' = stage, stage # "exited", NEW t \in Tasks, FinishConnect(t)
  PROVE  FlowInv'
<1>1. \A j \in DOMAIN sockets \ {connect[t].sock} :
        j \in DOMAIN sockets' /\ sockets'[j] = sockets[j]
  BY DEF FinishConnect, Established
<1>2. ConnectInv' /\ StashInv'
  BY <1>1, ConnectEndsInv DEF FinishConnect
<1>3. MapInv'
  <2>1. CASE connect[t].seen /\ t \in DOMAIN stash
    <3> DEFINE k == connect[t].sock
    <3>1. connect[t] # None /\ k \in Conns
      BY DEF FinishConnect, FlowInv, ConnectInv
    <3>a. /\ ReturnProbe(k) \in probes
          /\ stash[t] = [sock |-> k, info |-> Process[t]]
      BY <2>1, <3>1 DEF FlowInv, StashInv
    <3>2. ReturnProbe(k) \in probes /\ stash[t].sock = k
      BY <3>a
    <3>3. conn_map' \in LruInsert(conn_map, TupleRead(k, Family[k]), stash[t].info, ConnCap)
      BY <2>1, <3>2 DEF FinishConnect
    <3>4. UNCHANGED <<probes, misplaced>>
      BY DEF FinishConnect
    <3> HIDE DEF k
    <3> QED BY <3>1, <3>2, <3>3, <3>4, RecordInv DEF FlowInv
  <2>2. CASE ~(connect[t].seen /\ t \in DOMAIN stash)
    BY <2>2, MapSame DEF FinishConnect, FlowInv
  <2> QED BY <2>1, <2>2
<1> QED BY <1>2, <1>3 DEF FlowInv

(* Steps that leave every socket that is being connected alone, and the    *)
(* stash with them.                                                        *)
LEMMA SocketsInv ==
  ASSUME FlowInv, stage' # "exited" => stage # "exited",
         \A t \in Tasks : connect[t] # None =>
           /\ connect[t].sock \in DOMAIN sockets'
           /\ sockets'[connect[t].sock].state = "connecting",
         UNCHANGED <<stash, probes, connect>>
  PROVE  ConnectInv' /\ StashInv'
  BY DEF FlowInv, ConnectInv, StashInv

LEMMA ArrivesInv ==
  ASSUME FlowInv, stage' = stage, NEW k, Arrives(k)
  PROVE  FlowInv'
<1>1. \A j \in DOMAIN sockets : j \in DOMAIN sockets' /\ sockets'[j] = sockets[j]
  BY DEF Arrives, Open, With
<1>2. \A t \in Tasks : connect[t] # None =>
        /\ connect[t].sock \in DOMAIN sockets'
        /\ sockets'[connect[t].sock].state = "connecting"
  BY <1>1 DEF FlowInv, ConnectInv
<1>3. ConnectInv' /\ StashInv'
  <2>1. UNCHANGED <<stash, probes, connect>>
    BY DEF Arrives
  <2> QED BY <1>2, <2>1, SocketsInv
<1>4. MapInv'
  BY MapSame DEF Arrives, FlowInv
<1> QED BY <1>3, <1>4 DEF FlowInv

LEMMA TryRecordAcceptInv ==
  ASSUME FlowInv, stage' # "exited", stage # "exited",
         NEW t \in Tasks, NEW k \in Conns, TryRecordAccept(t, k)
  PROVE  FlowInv'
<1>1. /\ k \in DOMAIN sockets /\ sockets[k].state = "backlog"
      /\ \A j \in DOMAIN sockets \ {k} : j \in DOMAIN sockets' /\ sockets'[j] = sockets[j]
      /\ UNCHANGED <<stash, probes, misplaced, connect>>
  BY DEF TryRecordAccept, Established
<1>2. \A u \in Tasks : connect[u] # None =>
        /\ connect[u].sock \in DOMAIN sockets'
        /\ sockets'[connect[u].sock].state = "connecting"
  BY <1>1 DEF FlowInv, ConnectInv
<1>3. ConnectInv' /\ StashInv'
  BY <1>1, <1>2, SocketsInv
<1>4. MapInv'
  <2>1. ASSUME NEW family, ACCEPT_KRETPROBE \in probes,
               conn_map' \in LruInsert(conn_map, TupleRead(k, family), Process[t], ConnCap)
        PROVE  MapInv'
    BY <1>1, <2>1, RecordInv DEF FlowInv
  <2>2. CASE UNCHANGED conn_map
    BY <1>1, <2>2, MapSame DEF FlowInv
  <2> QED BY <2>1, <2>2 DEF TryRecordAccept
<1> QED BY <1>3, <1>4 DEF FlowInv

LEMMA CloseInv ==
  ASSUME FlowInv, stage' = stage, NEW k, Close(k)
  PROVE  FlowInv'
<1>1. \A t \in Tasks : connect[t] # None =>
        /\ connect[t].sock \in DOMAIN sockets'
        /\ sockets'[connect[t].sock].state = "connecting"
  BY DEF Close, Without, Restrict, FlowInv, ConnectInv
<1>2. ConnectInv' /\ StashInv'
  <2>1. UNCHANGED <<stash, probes, connect>>
    BY DEF Close
  <2> QED BY <1>1, <2>1, SocketsInv
<1>3. MapInv'
  BY MapSame DEF Close, FlowInv
<1> QED BY <1>2, <1>3 DEF FlowInv

(* The self-test drops its sockets: nobody is connecting them then. *)
LEMMA DropsSelfInv ==
  ASSUME FlowInv, connect[Connector] = None, stage # "exited", stage' # "exited",
         NEW K, K \subseteq {SelfOut, SelfIn},
         sockets' = Restrict(sockets, DOMAIN sockets \ K),
         UNCHANGED <<stash, conn_map, probes, misplaced, connect>>
  PROVE  FlowInv'
<1>1. \A t \in Tasks : connect[t] # None =>
        /\ connect[t].sock \in DOMAIN sockets'
        /\ sockets'[connect[t].sock].state = "connecting"
  BY DEF Restrict, FlowInv, ConnectInv
<1>2. MapInv'
  BY MapSame DEF FlowInv
<1> QED BY <1>1, <1>2, SocketsInv DEF FlowInv

(***************************************************************************)
(* The steps of Startup                                                    *)
(***************************************************************************)

InTest == {"accept", "join", "search"}

LEMMA InitSoundInv == Init => SoundInv
<1> SUFFICES ASSUME Init PROVE SoundInv
  OBVIOUS
<1>1. ProbeInv
  <2>1. {AttributionProbes[j] : j \in 1 .. 0} = {}
    OBVIOUS
  <2>2. SubSeq(AttributionProbes, 1, 5) = AttributionProbes
    BY ProbeList
  <2>3. Progress(0)
    BY <2>1, <2>2 DEF Init, AttributionInit, Progress
  <2> QED BY <2>3 DEF Init, ProbeInv
<1>2. ThreadInv /\ ConnectInv /\ StashInv /\ MapInv
  BY StartupAssumption DEF Init, AttributionInit, ThreadInv, ConnectInv, StashInv, MapInv
<1>3. TestInv
  BY DEF Init, TestInv
<1> QED BY <1>1, <1>2, <1>3 DEF SoundInv

(* run() returns an error, before the self-test. *)
LEMMA ExitSoundInv ==
  ASSUME SoundInv, Exit, stage \notin InTest, stage # "running"
  PROVE  SoundInv'
<1>1. ProbeInv'
  BY DEF Exit, ProbeInv
<1>2. ThreadInv' /\ ConnectInv' /\ StashInv' /\ MapInv'
  BY DEF Exit, SoundInv, ThreadInv, ConnectInv, StashInv, MapInv, InTest
<1>3. TestInv'
  BY DEF Exit, SoundInv, TestInv
<1> QED BY <1>1, <1>2, <1>3 DEF SoundInv

(* A step of the main thread before or in the self-test that leaves all    *)
(* of attribution alone.                                                   *)
LEMMA QuietSoundInv ==
  ASSUME SoundInv, stage # "exited", stage' # "exited", stage # "running",
         stage \in InTest <=> stage' \in InTest, stage' # "search",
         UNCHANGED <<attribution_vars, pending, thread, self_test>>
  PROVE  SoundInv'
<1>1. ProbeInv'
  BY DEF SoundInv, ProbeInv, Progress, attribution_vars
<1>2. ThreadInv' /\ ConnectInv' /\ StashInv'
  BY DEF SoundInv, ThreadInv, ConnectInv, StashInv, InTest, attribution_vars
<1>3. MapInv'
  BY MapSame DEF SoundInv, attribution_vars
<1>4. TestInv'
  BY DEF SoundInv, TestInv
<1> QED BY <1>1, <1>2, <1>3, <1>4 DEF SoundInv

LEMMA ContinueSoundInv ==
  ASSUME SoundInv, NEW from, NEW to, Continue(from, to), from # "exited", to # "exited",
         from # "running", from \in InTest <=> to \in InTest, to # "search"
  PROVE  SoundInv'
  BY QuietSoundInv DEF Continue

(* The self-test returns a verdict that is sound. *)
LEMMA SelfTestReturnsSoundInv ==
  ASSUME SoundInv, NEW verdict, SelfTestReturns(verdict), stage # "exited",
         connect[Connector] = None,
         verdict => /\ "v4" \notin misplaced
                    /\ {"tcp_v4_connect", "tcp_v4_connect_ret"} \subseteq probes
  PROVE  SoundInv'
<1>1. ProbeInv'
  BY DEF SelfTestReturns, SoundInv, ProbeInv, Progress
<1>2. ThreadInv'
  BY DEF SelfTestReturns, ThreadInv
<1>3. FlowInv'
  <2>1. /\ sockets' = Restrict(sockets, DOMAIN sockets \ {SelfOut, SelfIn})
        /\ stage' # "exited" /\ UNCHANGED <<stash, conn_map, probes, misplaced, connect>>
    BY DEF SelfTestReturns
  <2>2. FlowInv
    BY DEF FlowInv, SoundInv
  <2> QED BY <2>1, <2>2, DropsSelfInv
<1>4. TestInv'
  BY DEF SelfTestReturns, TestInv, SelfTestSound
<1> QED BY <1>1, <1>2, <1>3, <1>4 DEF SoundInv, FlowInv

(* One more probe is attached. *)
LEMMA AttachProbeInv ==
  ASSUME ProbeInv, stage = "probes", stage' = "probes", pending # <<>>,
         probes' = probes \cup {Head(pending)}, pending' = Tail(pending)
  PROVE  ProbeInv'
<1>1. PICK n \in 0 .. 5 : Progress(n)
  BY DEF ProbeInv
<1> DEFINE A == AttributionProbes
<1>2. A \in Seq(ProbeNames) /\ Len(A) = 5
  BY ProbeList
<1>3. probes = {A[j] : j \in 1 .. n} /\ pending = SubSeq(A, n + 1, 5)
  BY <1>1 DEF Progress
<1> HIDE DEF A
<1>4. n < 5
  BY <1>2, <1>3
<1>5. Head(pending) = A[n + 1] /\ Tail(pending) = SubSeq(A, n + 2, 5)
  BY <1>2, <1>3, <1>4
<1>6. probes' = {A[j] : j \in 1 .. n + 1}
  BY <1>3, <1>5
<1>7. n + 1 \in 0 .. 5 /\ pending' = SubSeq(A, (n + 1) + 1, 5)
  BY <1>4, <1>5
<1>8. Progress(n + 1)'
  BY <1>6, <1>7 DEF A, Progress
<1> QED BY <1>7, <1>8 DEF ProbeInv

(* What the search of CONN_MAP finds is sound. *)
LEMMA FoundIsSound ==
  ASSUME SoundInv, NEW q \in DOMAIN conn_map, q \in OnLocalhost
  PROVE  "v4" \notin misplaced /\ {"tcp_v4_connect", "tcp_v4_connect_ret"} \subseteq probes
<1>1. PICK k \in Conns : ReadFrom(q, k)
  BY DEF SoundInv, MapInv
<1>2. k \in Loopback /\ "v4" \notin misplaced
  <2>1. CASE q = k /\ AddressesRead(k, Family[k])
    <3>1. k \in Loopback
      BY <2>1, AttributionAssumption DEF OnLocalhost
    <3> QED BY <2>1, <3>1, AttributionAssumption DEF AddressesRead
  <2>2. CASE q \in Misreads /\ (q.localhost => k \in Loopback /\ "v4" \notin misplaced)
    <3>1. q.localhost
      BY <2>2, AttributionAssumption DEF OnLocalhost
    <3> QED BY <2>2, <3>1
  <2> QED BY <1>1, <2>1, <2>2 DEF ReadFrom
<1>3. Family[k] = "v4"
  BY <1>2, AttributionAssumption
<1>4. ProbesOrdered
  BY ProbeInvOrders DEF SoundInv
<1>5. EntryProbe(k) = "tcp_v4_connect" /\ ReturnProbe(k) = "tcp_v4_connect_ret"
  BY <1>3 DEF EntryProbe, ReturnProbe, CONNECT_KPROBES, CONNECT_KRETPROBES
<1>6. ReturnProbe(k) \in probes \/ ACCEPT_KRETPROBE \in probes
  BY <1>1 DEF ReadFrom
<1> QED BY <1>2, <1>4, <1>5, <1>6 DEF ProbesOrdered

LEMMA MainStepSoundInv == SoundInv /\ MainStep => SoundInv'
<1> SUFFICES ASSUME SoundInv, MainStep PROVE SoundInv'
  OBVIOUS
<1> USE DEF InTest
<1>1. ASSUME NEW h \in Hosts, CheckCapabilities(h) PROVE SoundInv'
  BY <1>1, ContinueSoundInv, ExitSoundInv DEF CheckCapabilities
<1>2. ASSUME NEW h \in Hosts, EnsureMemlockRlimit(h) PROVE SoundInv'
  BY <1>2, ContinueSoundInv, ExitSoundInv DEF EnsureMemlockRlimit
<1>3. ASSUME NEW h \in Hosts, NEW mode \in Modes, DetectInterfaces(mode, h)
      PROVE  SoundInv'
  BY <1>3, QuietSoundInv, ExitSoundInv DEF DetectInterfaces
<1>4. CASE LoadObject
  BY <1>4, ContinueSoundInv, ExitSoundInv DEF LoadObject
<1>5. CASE LoadClassifiers
  BY <1>5, ContinueSoundInv, ExitSoundInv DEF LoadClassifiers
<1>6. CASE AttachProbe
  <2>1. CASE UNCHANGED <<probes, pending>>
    <3>1. /\ stage = "probes" /\ stage' \in {"probes", "ingress"}
          /\ UNCHANGED <<attribution_vars, pending, thread, self_test>>
      BY <1>6, <2>1 DEF AttachProbe, attribution_vars
    <3> QED BY <3>1, QuietSoundInv
  <2>2. CASE /\ probes' = probes \cup {Head(pending)} /\ pending' = Tail(pending)
             /\ UNCHANGED stage
    <3>1. /\ stage = "probes" /\ stage' = "probes" /\ pending # <<>>
          /\ UNCHANGED <<stash, conn_map, misplaced, sockets, connect, thread, self_test>>
      BY <1>6, <2>2 DEF AttachProbe
    <3>2. ProbeInv'
      BY <2>2, <3>1, AttachProbeInv DEF SoundInv
    <3>3. ThreadInv' /\ ConnectInv'
      BY <3>1 DEF SoundInv, ThreadInv, ConnectInv
    <3>4. StashInv' /\ MapInv'
      BY <2>2, <3>1, MapSame DEF SoundInv, StashInv
    <3>5. TestInv'
      BY <3>1 DEF SoundInv, TestInv
    <3> QED BY <3>2, <3>3, <3>4, <3>5 DEF SoundInv
  <2> QED BY <1>6, <2>1, <2>2 DEF AttachProbe
<1>7. CASE AllProbesAttached
  BY <1>7, ContinueSoundInv DEF AllProbesAttached
<1>8. CASE AttachIngress
  BY <1>8, QuietSoundInv DEF AttachIngress
<1>9. CASE AttachEgress
  BY <1>9, QuietSoundInv DEF AttachEgress
<1>10. CASE AttachReturns
  BY <1>10, ContinueSoundInv, ExitSoundInv DEF AttachReturns
<1>11. CASE SelfTestSkipped
  <2>1. stage = "self_test" /\ connect[Connector] = None
    BY <1>11 DEF SelfTestSkipped, SoundInv, ThreadInv
  <2> QED BY <1>11, <2>1, SelfTestReturnsSoundInv DEF SelfTestSkipped
<1>12. CASE SelfTestBegins
  <2>1. /\ stage = "self_test" /\ stage' = "accept" /\ thread' = "sleeping"
        /\ UNCHANGED <<attribution_vars, pending, self_test>>
    BY <1>12 DEF SelfTestBegins
  <2>2. ProbeInv'
    BY <2>1 DEF SoundInv, ProbeInv, Progress, attribution_vars
  <2>3. ThreadInv' /\ ConnectInv' /\ StashInv' /\ MapInv'
    BY <2>1, MapSame DEF SoundInv, ThreadInv, ConnectInv, StashInv, attribution_vars
  <2>4. TestInv'
    BY <2>1 DEF SoundInv, TestInv
  <2> QED BY <2>2, <2>3, <2>4 DEF SoundInv
<1>13. CASE AcceptReturns
  <2>1. /\ stage = "accept" /\ stage' = "join" /\ TryRecordAccept(Main, SelfIn)
        /\ UNCHANGED <<pending, thread, self_test>>
    BY <1>13 DEF AcceptReturns
  <2>2. UNCHANGED <<probes, connect>>
    BY <2>1 DEF TryRecordAccept
  <2>3. ProbeInv'
    BY <2>1, <2>2 DEF SoundInv, ProbeInv, Progress
  <2>4. ThreadInv'
    BY <2>1, <2>2 DEF SoundInv, ThreadInv
  <2>5. FlowInv'
    BY <2>1, SelfTasks, TryRecordAcceptInv DEF SoundInv, FlowInv
  <2>6. TestInv'
    BY <2>1 DEF SoundInv, TestInv
  <2> QED BY <2>3, <2>4, <2>5, <2>6 DEF SoundInv, FlowInv
<1>14. CASE AcceptGivesUp
  BY <1>14, ContinueSoundInv DEF AcceptGivesUp
<1>15. CASE JoinConnector
  <2>1. stage = "join" /\ thread = "done" /\ connect[Connector] = None
    BY <1>15 DEF JoinConnector, SoundInv, ThreadInv
  <2>2. CASE SelfTestReturns(FALSE)
    BY <2>1, <2>2, SelfTestReturnsSoundInv
  <2>3. CASE /\ stage' = "search" /\ sockets' = Without(sockets, SelfOut)
             /\ UNCHANGED <<stash, conn_map, probes, misplaced, connect,
                            pending, thread, self_test>>
    <3>1. ProbeInv'
      BY <2>1, <2>3 DEF SoundInv, ProbeInv, Progress
    <3>2. ThreadInv'
      BY <2>1, <2>3 DEF SoundInv, ThreadInv
    <3>3. FlowInv'
      <4>1. /\ sockets' = Restrict(sockets, DOMAIN sockets \ {SelfOut})
            /\ {SelfOut} \subseteq {SelfOut, SelfIn} /\ stage' # "exited"
        BY <2>3 DEF Without
      <4>2. UNCHANGED <<stash, conn_map, probes, misplaced, connect>>
        BY <2>3
      <4>3. FlowInv /\ stage # "exited"
        BY <2>1 DEF SoundInv, FlowInv
      <4> QED BY <2>1, <4>1, <4>2, <4>3, DropsSelfInv
    <3>4. TestInv'
      BY <2>1, <2>3 DEF SoundInv, TestInv
    <3> QED BY <3>1, <3>2, <3>3, <3>4 DEF SoundInv, FlowInv
  <2> QED BY <1>15, <2>2, <2>3 DEF JoinConnector
<1>16. CASE SearchConnMap
  <2> DEFINE found == \E q \in DOMAIN conn_map \cap OnLocalhost :
                        conn_map[q] = Process[Main]
  <2>1. stage = "search" /\ SelfTestReturns(found)
    BY <1>16 DEF SearchConnMap
  <2>2. connect[Connector] = None
    BY <2>1 DEF SoundInv, ThreadInv
  <2>3. found => /\ "v4" \notin misplaced
                 /\ {"tcp_v4_connect", "tcp_v4_connect_ret"} \subseteq probes
    BY FoundIsSound
  <2> HIDE DEF found
  <2> QED BY <2>1, <2>2, <2>3, SelfTestReturnsSoundInv
<1> QED
  BY <1>1, <1>2, <1>3, <1>4, <1>5, <1>6, <1>7, <1>8, <1>9, <1>10, <1>11, <1>12,
     <1>13, <1>14, <1>15, <1>16 DEF MainStep

(* A step outside the main thread: FlowInv is what it can disturb. *)
LEMMA OtherSoundInv ==
  ASSUME SoundInv, FlowInv', UNCHANGED <<stage, pending, self_test, probes, misplaced>>,
         ThreadInv'
  PROVE  SoundInv'
<1>1. ProbeInv'
  BY DEF SoundInv, ProbeInv, Progress
<1>2. TestInv'
  BY DEF SoundInv, TestInv, SelfTestSound
<1> QED BY <1>1, <1>2 DEF SoundInv, FlowInv

LEMMA ConnectorStepSoundInv == SoundInv /\ ConnectorStep => SoundInv'
<1> SUFFICES ASSUME SoundInv, ConnectorStep PROVE SoundInv'
  OBVIOUS
<1>a. FlowInv /\ ProbesOrdered /\ Connector \in Tasks /\ SelfOut \in Conns
  BY ProbeInvOrders, SelfTasks DEF SoundInv, FlowInv
<1>1. CASE ConnectorConnects
  <2>1. /\ thread = "sleeping" /\ thread' = "connecting" /\ StashConnectEntry(Connector, SelfOut)
        /\ UNCHANGED <<stage, pending, self_test>>
    BY <1>1 DEF ConnectorConnects
  <2>2. FlowInv'
    BY <1>a, <2>1, StashConnectEntryInv
  <2>3. ThreadInv'
    BY <2>1 DEF SoundInv, ThreadInv
  <2>4. UNCHANGED <<probes, misplaced>>
    BY <2>1 DEF StashConnectEntry
  <2> QED BY <2>1, <2>2, <2>3, <2>4, OtherSoundInv
<1>2. CASE ConnectorReturns
  <2>1. /\ thread = "connecting" /\ connect[Connector] = None /\ thread' = "done"
        /\ UNCHANGED <<attribution_vars, stage, pending, self_test>>
    BY <1>2 DEF ConnectorReturns
  <2>2. FlowInv'
    BY <1>a, <2>1, MapSame DEF FlowInv, ConnectInv, StashInv, attribution_vars
  <2>3. ThreadInv'
    BY <2>1 DEF SoundInv, ThreadInv, attribution_vars
  <2> QED BY <2>1, <2>2, <2>3, OtherSoundInv DEF attribution_vars
<1>3. CASE (ConnectFails(Connector) \/ FinishConnect(Connector)) /\ UNCHANGED startup_vars
  <2>1. /\ connect[Connector] # None /\ connect'[Connector] = None
        /\ UNCHANGED <<stage, pending, self_test, probes, misplaced, thread>>
    BY <1>a, <1>3 DEF ConnectFails, FinishConnect, startup_vars, FlowInv, ConnectInv
  <2>2. stage # "exited"
    BY <2>1 DEF SoundInv, ThreadInv
  <2>3. FlowInv'
    BY <1>a, <1>3, <2>1, <2>2, ConnectFailsInv, FinishConnectInv
  <2>4. ThreadInv'
    BY <2>1 DEF SoundInv, ThreadInv
  <2> QED BY <2>1, <2>3, <2>4, OtherSoundInv
<1> QED BY <1>1, <1>2, <1>3 DEF ConnectorStep

LEMMA HostStepSoundInv == SoundInv /\ HostStep => SoundInv'
<1> SUFFICES ASSUME SoundInv, HostStep PROVE SoundInv'
  OBVIOUS
<1>a. FlowInv /\ ProbesOrdered
  BY ProbeInvOrders DEF SoundInv, FlowInv
<1>b. /\ stage # "exited" /\ stage' # "exited"
      /\ UNCHANGED <<stage, pending, self_test, thread>>
  BY DEF HostStep, startup_vars
<1>c. ASSUME FlowInv', UNCHANGED <<probes, misplaced>>,
             connect'[Connector] # None => connect[Connector] # None
      PROVE  SoundInv'
  <2>1. ThreadInv'
    BY <1>b, <1>c DEF SoundInv, ThreadInv
  <2> QED BY <1>b, <1>c, <2>1, OtherSoundInv
<1>1. ASSUME NEW k \in Conns \ {SelfOut, SelfIn}, NEW t \in Tasks \ {Main, Connector},
             StashConnectEntry(t, k)
      PROVE  SoundInv'
  <2>1. FlowInv'
    BY <1>a, <1>b, <1>1, StashConnectEntryInv
  <2>2. UNCHANGED <<probes, misplaced>> /\ connect'[Connector] = connect[Connector]
    BY <1>1, <1>a, StartupAssumption DEF StashConnectEntry, FlowInv, ConnectInv
  <2> QED BY <1>c, <2>1, <2>2
<1>2. ASSUME NEW k, Arrives(k) PROVE SoundInv'
  <2>1. FlowInv'
    BY <1>a, <1>b, <1>2, ArrivesInv
  <2> QED BY <1>c, <1>2, <2>1 DEF Arrives
<1>3. ASSUME NEW t \in Tasks \ {Main, Connector}, ConnectFails(t) \/ FinishConnect(t)
      PROVE  SoundInv'
  <2>1. FlowInv'
    BY <1>a, <1>b, <1>3, ConnectFailsInv, FinishConnectInv
  <2>2. UNCHANGED <<probes, misplaced>> /\ connect'[Connector] = connect[Connector]
    BY <1>3, <1>a, StartupAssumption DEF ConnectFails, FinishConnect, FlowInv, ConnectInv
  <2> QED BY <1>c, <2>1, <2>2
<1>4. ASSUME NEW t \in Servers, EnterAccept(t) PROVE SoundInv'
  <2>1. UNCHANGED <<stash, conn_map, probes, misplaced, sockets, connect>>
    BY <1>4 DEF EnterAccept
  <2>2. FlowInv'
    BY <1>a, <1>b, <2>1, MapSame DEF FlowInv, ConnectInv, StashInv
  <2> QED BY <1>c, <2>1, <2>2
<1>5. ASSUME NEW t \in Servers, NEW k \in Conns, TryRecordAccept(t, k) PROVE SoundInv'
  <2>1. t \in Tasks
    BY StartupAssumption
  <2>2. FlowInv'
    BY <1>a, <1>b, <1>5, <2>1, TryRecordAcceptInv
  <2> QED BY <1>c, <1>5, <2>2 DEF TryRecordAccept
<1>6. ASSUME NEW k, Close(k) PROVE SoundInv'
  <2>1. FlowInv'
    BY <1>a, <1>b, <1>6, CloseInv
  <2> QED BY <1>c, <1>6, <2>1 DEF Close
<1> QED BY <1>1, <1>2, <1>3, <1>4, <1>5, <1>6 DEF HostStep, HostOpens, HostGoesOn

LEMMA NextSoundInv == SoundInv /\ [Next]_vars => SoundInv'
<1> SUFFICES ASSUME SoundInv, [Next]_vars PROVE SoundInv'
  OBVIOUS
<1>1. CASE AcceptErrors
  BY <1>1, ContinueSoundInv DEF AcceptErrors, InTest
<1>2. CASE UNCHANGED vars
  <2>1. ProbeInv' /\ ThreadInv' /\ ConnectInv' /\ StashInv' /\ TestInv'
    BY <1>2 DEF vars, attribution_vars, startup_vars, SoundInv, ProbeInv, Progress,
       ThreadInv, ConnectInv, StashInv, TestInv, SelfTestSound
  <2>2. MapInv'
    BY <1>2, MapSame DEF vars, attribution_vars, startup_vars, SoundInv
  <2> QED BY <2>1, <2>2 DEF SoundInv
<1> QED BY <1>1, <1>2, MainStepSoundInv, ConnectorStepSoundInv, HostStepSoundInv DEF Next

(* A self-test that passes shows that the IPv4 addresses are read where    *)
(* the kernel has them and that the IPv4 connect probes are attached       *)
(* (self_test.rs, loader.rs): whichever of the other fields are misplaced, *)
(* whatever the other processes do, and wherever the attachment of the     *)
(* probes stopped.                                                         *)
THEOREM SelfTestIsSound == Spec => []SelfTestSound
<1>1. SoundInv => SelfTestSound
  BY DEF SoundInv, TestInv, SelfTestSound
<1> QED BY <1>1, InitSoundInv, NextSoundInv, PTL DEF Spec

(***************************************************************************)
(* Every entry of CONN_MAP is that of the connection's own process         *)
(***************************************************************************)

(* CONN_MAP is as it was, and no connection has become one that a process  *)
(* was seen to take.                                                       *)
LEMMA OwnerMapSame ==
  ASSUME AttributedToOwner, conn_map' = conn_map, misplaced' = misplaced,
         \A j \in DOMAIN sockets' :
           (j \in DOMAIN sockets /\ sockets'[j] = sockets[j]) \/ ~sockets'[j].seen
  PROVE  AttributedToOwner'
  BY DEF AttributedToOwner, Attributed

(* Connection k is recorded as that of p, which has just taken it. *)
LEMMA OwnerRecorded ==
  ASSUME AttributedToOwner, MapInv', DOMAIN sockets' \subseteq Conns,
         NEW k \in Conns, NEW p, UNCHANGED misplaced,
         NEW family, family = Family[k] \/ "family" \in misplaced,
         conn_map' \in LruInsert(conn_map, TupleRead(k, family), p, ConnCap),
         sockets'[k].process = p,
         \A j \in DOMAIN sockets' \ {k} : j \in DOMAIN sockets /\ sockets'[j] = sockets[j]
  PROVE  AttributedToOwner'
<1> SUFFICES ASSUME "family" \notin misplaced PROVE AttributedToOwner'
  BY DEF AttributedToOwner
<1> DEFINE key == TupleRead(k, family)
<1>1. \/ key = k
      \/ /\ key \notin Conns
         /\ ~(AddressesRead(k, Family[k]) /\ "ports" \notin misplaced)
  BY TupleReadOK
<1>2. /\ key \in DOMAIN conn_map' /\ conn_map'[key] = p
      /\ \A j \in DOMAIN conn_map' \ {key} :
           j \in DOMAIN conn_map /\ conn_map'[j] = conn_map[j]
  BY LruInsertOK
<1> HIDE DEF key
<1>3. CASE key = k
  BY <1>2, <1>3 DEF AttributedToOwner, Attributed
<1>4. CASE /\ key \notin Conns
           /\ ~(AddressesRead(k, Family[k]) /\ "ports" \notin misplaced)
  <2>1. k \notin DOMAIN conn_map'
    <3> SUFFICES ASSUME k \in DOMAIN conn_map' PROVE FALSE
      OBVIOUS
    <3>1. PICK j \in Conns : ReadFrom(k, j)'
      BY DEF MapInv
    <3>2. k \notin Misreads
      BY AttributionAssumption
    <3> QED BY <1>4, <3>1, <3>2 DEF ReadFrom, AddressesRead
  <2> QED BY <1>2, <1>4, <2>1 DEF AttributedToOwner, Attributed
<1> QED BY <1>1, <1>3, <1>4

(* The kprobe finds room for a task that has no entry yet. *)
LEMMA StashHasRoom ==
  ASSUME IsFiniteSet(Tasks), Cardinality(Tasks) <= StashCap, OwnerInv, NEW t \in Tasks
  PROVE  t \in DOMAIN stash \/ Cardinality(DOMAIN stash) < StashCap
<1> SUFFICES ASSUME t \notin DOMAIN stash PROVE Cardinality(DOMAIN stash) < StashCap
  OBVIOUS
<1>1. DOMAIN stash \subseteq Tasks \ {t}
  BY DEF OwnerInv
<1>2. /\ IsFiniteSet(Tasks \ {t}) /\ Cardinality(Tasks \ {t}) = Cardinality(Tasks) - 1
      /\ Cardinality(Tasks) \in Nat
  BY FS_RemoveElement, FS_CardinalityType
<1>3. Cardinality(DOMAIN stash) <= Cardinality(Tasks \ {t}) /\ IsFiniteSet(DOMAIN stash)
  BY <1>1, <1>2, FS_Subset
<1>4. Cardinality(DOMAIN stash) \in Nat
  BY <1>3, FS_CardinalityType
<1> QED BY <1>2, <1>3, <1>4, AttributionAssumption

LEMMA StashConnectEntryOwner ==
  ASSUME IsFiniteSet(Tasks), Cardinality(Tasks) <= StashCap, OwnerInv, SoundInv,
         stage' = stage, NEW t \in Tasks, NEW k \in Conns, StashConnectEntry(t, k)
  PROVE  OwnerInv'
<1> DEFINE call == [sock |-> k, seen |-> ReturnProbe(k) \in probes]
           entry == [sock |-> k, info |-> Process[t]]
<1>1. /\ connect' = [connect EXCEPT ![t] = call] /\ k \notin DOMAIN sockets
      /\ UNCHANGED <<conn_map, misplaced>>
  BY DEF StashConnectEntry, Open
<1>2. call.seen = (ReturnProbe(k) \in probes)
  OBVIOUS
<1> HIDE DEF call
<1>3. connect'[t] = call /\ \A u \in Tasks \ {t} : connect'[u] = connect[u]
  BY <1>1 DEF SoundInv, ConnectInv
<1>4. /\ DOMAIN sockets' = DOMAIN sockets \cup {k} /\ ~sockets'[k].seen
      /\ \A j \in DOMAIN sockets : sockets'[j] = sockets[j]
  BY DEF StashConnectEntry, Open, With
<1>5. AttributedToOwner'
  BY <1>1, <1>4, OwnerMapSame DEF OwnerInv
<1>6. CASE EntryProbe(k) \in probes
  <2>1. stash' \in LruInsert(stash, t, entry, StashCap)
    BY <1>6 DEF StashConnectEntry
  <2> HIDE DEF entry
  <2>2. Cardinality(DOMAIN stash) < StashCap \/ t \in DOMAIN stash
    BY StashHasRoom
  <2>3. DOMAIN stash' = DOMAIN stash \cup {t}
    BY <2>1, <2>2, LruInsertRoom, AttributionAssumption
  <2> QED BY <1>3, <1>4, <1>5, <2>3 DEF OwnerInv
<1>7. CASE EntryProbe(k) \notin probes
  <2>1. stash' = stash
    BY <1>7 DEF StashConnectEntry
  <2>2. ~call.seen
    BY <1>2, <1>7, ProbeInvOrders DEF SoundInv, ProbesOrdered
  <2> QED BY <1>3, <1>4, <1>5, <2>1, <2>2 DEF OwnerInv
<1> QED BY <1>6, <1>7

(* A connect() ends: the stash keeps the entries of the other tasks. *)
LEMMA StashKeepsOthers ==
  ASSUME OwnerInv, ConnectInv, stage' = stage, NEW t \in Tasks,
         connect' = [connect EXCEPT ![t] = None],
         stash' = IF connect[t].seen THEN Without(stash, t) ELSE stash
  PROVE  /\ DOMAIN stash' \subseteq Tasks
         /\ \A u \in Tasks :
              connect'[u] # None /\ connect'[u].seen /\ stage' # "exited" => u \in DOMAIN stash'
<1>1. connect'[t] = None /\ \A u \in Tasks \ {t} : connect'[u] = connect[u]
  BY DEF ConnectInv
<1>2. DOMAIN stash' \subseteq DOMAIN stash /\ DOMAIN stash \ {t} \subseteq DOMAIN stash'
  BY DEF Without, Restrict
<1> QED BY <1>1, <1>2 DEF OwnerInv

LEMMA ConnectFailsOwner ==
  ASSUME OwnerInv, SoundInv, stage' = stage, NEW t \in Tasks, ConnectFails(t)
  PROVE  OwnerInv'
<1>1. /\ connect' = [connect EXCEPT ![t] = None] /\ UNCHANGED <<conn_map, misplaced>>
      /\ stash' = IF connect[t].seen THEN Without(stash, t) ELSE stash
      /\ sockets' = Without(sockets, connect[t].sock)
  BY DEF ConnectFails
<1>2. \A j \in DOMAIN sockets' : j \in DOMAIN sockets /\ sockets'[j] = sockets[j]
  BY <1>1 DEF Without, Restrict
<1>3. AttributedToOwner'
  BY <1>1, <1>2, OwnerMapSame DEF OwnerInv
<1>4. /\ DOMAIN stash' \subseteq Tasks
      /\ \A u \in Tasks :
           connect'[u] # None /\ connect'[u].seen /\ stage' # "exited" => u \in DOMAIN stash'
  BY <1>1, StashKeepsOthers DEF SoundInv
<1> QED BY <1>2, <1>3, <1>4 DEF OwnerInv

LEMMA FinishConnectOwner ==
  ASSUME OwnerInv, SoundInv, SoundInv', stage' = stage, stage # "exited",
         NEW t \in Tasks, FinishConnect(t)
  PROVE  OwnerInv'
<1> DEFINE k == connect[t].sock
           sk == [state |-> "connected", process |-> Process[t], seen |-> connect[t].seen]
<1>1. /\ connect[t] # None /\ connect' = [connect EXCEPT ![t] = None]
      /\ stash' = IF connect[t].seen THEN Without(stash, t) ELSE stash
      /\ sockets' = [sockets EXCEPT ![k] = sk] /\ UNCHANGED misplaced
  BY DEF FinishConnect, Established
<1>2. k \in Conns /\ k \in DOMAIN sockets /\ sk.process = Process[t] /\ sk.seen = connect[t].seen
  BY <1>1 DEF SoundInv, ConnectInv
<1> HIDE DEF sk, k
<1>3. /\ DOMAIN sockets' = DOMAIN sockets /\ sockets'[k] = sk
      /\ \A j \in DOMAIN sockets' \ {k} : j \in DOMAIN sockets /\ sockets'[j] = sockets[j]
  BY <1>1, <1>2
<1>4. AttributedToOwner'
  <2>1. CASE connect[t].seen
    <3>1. t \in DOMAIN stash
      BY <1>1, <2>1 DEF OwnerInv
    <3>2. stash[t] = [sock |-> k, info |-> Process[t]]
      BY <1>1, <2>1, <3>1 DEF SoundInv, StashInv, k
    <3>3. stash[t].sock = k /\ stash[t].info = Process[t]
      BY <3>2
    <3>4. conn_map' \in LruInsert(conn_map, TupleRead(k, Family[k]), Process[t], ConnCap)
      BY <2>1, <3>1, <3>3 DEF FinishConnect, k
    <3>5. MapInv' /\ DOMAIN sockets' \subseteq Conns /\ sockets'[k].process = Process[t]
      BY <1>2, <1>3 DEF OwnerInv, SoundInv
    <3> QED BY <1>1, <1>2, <1>3, <3>4, <3>5, OwnerRecorded DEF OwnerInv
  <2>2. CASE ~connect[t].seen
    <3>1. conn_map' = conn_map
      BY <2>2 DEF FinishConnect
    <3> QED BY <1>1, <1>2, <1>3, <2>2, <3>1, OwnerMapSame DEF OwnerInv
  <2> QED BY <2>1, <2>2
<1>5. /\ DOMAIN stash' \subseteq Tasks
      /\ \A u \in Tasks :
           connect'[u] # None /\ connect'[u].seen /\ stage' # "exited" => u \in DOMAIN stash'
  BY <1>1, StashKeepsOthers DEF SoundInv
<1> QED BY <1>3, <1>4, <1>5 DEF OwnerInv

LEMMA TryRecordAcceptOwner ==
  ASSUME OwnerInv, SoundInv', stage # "exited",
         NEW t \in Tasks, NEW k \in Conns, TryRecordAccept(t, k)
  PROVE  OwnerInv'
<1> DEFINE seen == ACCEPT_KRETPROBE \in probes /\ t \notin accepting
           sk == [state |-> "accepted", process |-> Process[t], seen |-> seen]
<1>1. /\ k \in DOMAIN sockets /\ sockets' = [sockets EXCEPT ![k] = sk]
      /\ UNCHANGED <<stash, misplaced, connect>>
  BY DEF TryRecordAccept, Established
<1>2. sk.process = Process[t] /\ sk.seen = seen
  OBVIOUS
<1>3. \/ \E family \in FamiliesRead(k) :
           conn_map' \in LruInsert(conn_map, TupleRead(k, family), Process[t], ConnCap)
      \/ ~(seen /\ "family" \notin misplaced) /\ UNCHANGED conn_map
  BY DEF TryRecordAccept
<1> HIDE DEF sk, seen
<1>4. /\ DOMAIN sockets' = DOMAIN sockets /\ sockets'[k] = sk
      /\ \A j \in DOMAIN sockets' \ {k} : j \in DOMAIN sockets /\ sockets'[j] = sockets[j]
  BY <1>1
<1>5. MapInv' /\ DOMAIN sockets' \subseteq Conns /\ sockets'[k].process = Process[t]
  BY <1>2, <1>4 DEF OwnerInv, SoundInv
<1>6. AttributedToOwner'
  <2>1. ASSUME NEW family \in FamiliesRead(k),
               conn_map' \in LruInsert(conn_map, TupleRead(k, family), Process[t], ConnCap)
        PROVE  AttributedToOwner'
    <3>1. family = Family[k] \/ "family" \in misplaced
      BY DEF FamiliesRead
    <3> QED BY <1>1, <1>4, <1>5, <2>1, <3>1, OwnerRecorded DEF OwnerInv
  <2>2. CASE ~seen /\ UNCHANGED conn_map
    BY <1>1, <1>2, <1>4, <2>2, OwnerMapSame DEF OwnerInv
  <2>3. CASE "family" \in misplaced
    BY <1>1, <2>3 DEF AttributedToOwner
  <2> QED BY <1>3, <2>1, <2>2, <2>3
<1> QED BY <1>1, <1>4, <1>5, <1>6 DEF OwnerInv

(* Steps that leave the stash, CONN_MAP and the calls alone, and open or   *)
(* drop sockets at most.                                                   *)
LEMMA SocketsOwner ==
  ASSUME OwnerInv, stage # "exited", UNCHANGED <<stash, conn_map, misplaced, connect>>,
         DOMAIN sockets' \subseteq Conns,
         \A j \in DOMAIN sockets' :
           (j \in DOMAIN sockets /\ sockets'[j] = sockets[j]) \/ ~sockets'[j].seen
  PROVE  OwnerInv'
<1>1. AttributedToOwner'
  BY OwnerMapSame DEF OwnerInv
<1> QED BY <1>1 DEF OwnerInv

(* What the main thread does to attribution: it drops everything, accepts, *)
(* closes the self-test's sockets, or nothing.                             *)
LEMMA MainStepEffect ==
  ASSUME MainStep
  PROVE  /\ stage # "exited"
         /\ \/ Exit
            \/ UNCHANGED <<stash, conn_map, misplaced, connect, sockets>>
            \/ TryRecordAccept(Main, SelfIn)
            \/ /\ UNCHANGED <<stash, conn_map, misplaced, connect>>
               /\ \E K : sockets' = Restrict(sockets, DOMAIN sockets \ K)
<1> DEFINE Effect ==
             /\ stage # "exited"
             /\ \/ Exit
                \/ UNCHANGED <<stash, conn_map, misplaced, connect, sockets>>
                \/ TryRecordAccept(Main, SelfIn)
                \/ /\ UNCHANGED <<stash, conn_map, misplaced, connect>>
                   /\ \E K : sockets' = Restrict(sockets, DOMAIN sockets \ K)
<1> SUFFICES Effect
  OBVIOUS
<1>1. ASSUME NEW from, NEW to, Continue(from, to), from # "exited" PROVE Effect
  BY <1>1 DEF Continue, attribution_vars
<1>2. ASSUME NEW verdict, SelfTestReturns(verdict), stage # "exited" PROVE Effect
  BY <1>2 DEF SelfTestReturns
<1>3. ASSUME NEW h \in Hosts, NEW mode \in Modes, DetectInterfaces(mode, h)
      PROVE  Effect
  BY <1>1, <1>3 DEF DetectInterfaces, attribution_vars
<1>4. ASSUME NEW h \in Hosts, CheckCapabilities(h) \/ EnsureMemlockRlimit(h) PROVE Effect
  BY <1>1, <1>4 DEF CheckCapabilities, EnsureMemlockRlimit
<1>5. CASE LoadObject \/ LoadClassifiers \/ AllProbesAttached \/ AttachReturns \/ AcceptGivesUp
  BY <1>1, <1>5 DEF LoadObject, LoadClassifiers, AllProbesAttached, AttachReturns, AcceptGivesUp
<1>6. CASE AttachProbe \/ AttachIngress \/ AttachEgress \/ SelfTestBegins
  BY <1>6 DEF AttachProbe, AttachIngress, AttachEgress, SelfTestBegins, attribution_vars
<1>7. CASE SelfTestSkipped \/ SearchConnMap
  BY <1>2, <1>7 DEF SelfTestSkipped, SearchConnMap
<1>8. CASE AcceptReturns
  BY <1>8 DEF AcceptReturns
<1>9. CASE JoinConnector
  <2>1. CASE SelfTestReturns(FALSE)
    BY <1>2, <1>9, <2>1 DEF JoinConnector
  <2>2. CASE /\ sockets' = Without(sockets, SelfOut)
             /\ UNCHANGED <<stash, conn_map, misplaced, connect>>
    BY <1>9, <2>2 DEF JoinConnector, Without
  <2> QED BY <1>9, <2>1, <2>2 DEF JoinConnector
<1> HIDE DEF Effect
<1> QED BY <1>3, <1>4, <1>5, <1>6, <1>7, <1>8, <1>9 DEF MainStep

LEMMA NextOwnerInv ==
  ASSUME IsFiniteSet(Tasks), Cardinality(Tasks) <= StashCap
  PROVE  OwnerInv /\ SoundInv /\ SoundInv' /\ [Next]_vars => OwnerInv'
<1> SUFFICES ASSUME OwnerInv, SoundInv, SoundInv', [Next]_vars PROVE OwnerInv'
  OBVIOUS
<1>a. {Main, Connector} \subseteq Tasks /\ Servers \subseteq Tasks
      /\ {SelfOut, SelfIn} \subseteq Conns
  BY SelfTasks, StartupAssumption
<1>1. CASE UNCHANGED <<stash, conn_map, misplaced, connect, sockets>> /\ stage # "exited"
  BY <1>1, SocketsOwner DEF OwnerInv
<1>2. CASE Exit
  BY <1>2 DEF Exit, OwnerInv, AttributedToOwner, Attributed
<1>3. ASSUME NEW K, sockets' = Restrict(sockets, DOMAIN sockets \ K), stage # "exited",
             UNCHANGED <<stash, conn_map, misplaced, connect>>
      PROVE  OwnerInv'
  <2>1. \A j \in DOMAIN sockets' : j \in DOMAIN sockets /\ sockets'[j] = sockets[j]
    BY <1>3 DEF Restrict
  <2> QED BY <1>3, <2>1, SocketsOwner DEF OwnerInv
<1>4. CASE MainStep
  <2>1. stage # "exited"
    BY <1>4, MainStepEffect
  <2>2. CASE TryRecordAccept(Main, SelfIn)
    BY <1>a, <2>1, <2>2, TryRecordAcceptOwner
  <2> QED BY <1>1, <1>2, <1>3, <1>4, <2>1, <2>2, MainStepEffect
<1>5. CASE AcceptErrors
  BY <1>1, <1>5 DEF AcceptErrors, Continue, attribution_vars
<1>6. CASE ConnectorStep
  <2>1. CASE ConnectorConnects
    BY <1>a, <2>1, StashConnectEntryOwner DEF ConnectorConnects
  <2>2. CASE ConnectorReturns
    <3>1. stage # "exited"
      BY <2>2 DEF ConnectorReturns, SoundInv, ThreadInv
    <3> QED BY <1>1, <2>2, <3>1 DEF ConnectorReturns, attribution_vars
  <2>3. CASE (ConnectFails(Connector) \/ FinishConnect(Connector)) /\ UNCHANGED startup_vars
    <3>1. stage' = stage /\ stage # "exited"
      BY <2>3 DEF ConnectFails, FinishConnect, startup_vars, SoundInv, ThreadInv
    <3> QED BY <1>a, <2>3, <3>1, ConnectFailsOwner, FinishConnectOwner
  <2> QED BY <1>6, <2>1, <2>2, <2>3 DEF ConnectorStep
<1>7. CASE HostStep
  <2>1. stage' = stage /\ stage # "exited"
    BY <1>7 DEF HostStep, startup_vars
  <2>2. ASSUME NEW k \in Conns, NEW t \in Tasks, StashConnectEntry(t, k) PROVE OwnerInv'
    BY <2>1, <2>2, StashConnectEntryOwner
  <2>3. ASSUME NEW k \in Conns, Arrives(k) PROVE OwnerInv'
    <3>1. /\ DOMAIN sockets' = DOMAIN sockets \cup {k} /\ ~sockets'[k].seen
          /\ \A j \in DOMAIN sockets : sockets'[j] = sockets[j]
      BY <2>3 DEF Arrives, Open, With
    <3>2. UNCHANGED <<stash, conn_map, misplaced, connect>>
      BY <2>3 DEF Arrives
    <3>3. /\ DOMAIN sockets' \subseteq Conns
          /\ \A j \in DOMAIN sockets' :
               (j \in DOMAIN sockets /\ sockets'[j] = sockets[j]) \/ ~sockets'[j].seen
      BY <3>1 DEF OwnerInv
    <3> QED BY <2>1, <3>2, <3>3, SocketsOwner
  <2>4. ASSUME NEW t \in Tasks, ConnectFails(t) \/ FinishConnect(t) PROVE OwnerInv'
    BY <2>1, <2>4, ConnectFailsOwner, FinishConnectOwner
  <2>5. ASSUME NEW t \in Servers, EnterAccept(t) PROVE OwnerInv'
    BY <1>1, <2>1, <2>5 DEF EnterAccept
  <2>6. ASSUME NEW t \in Servers, NEW k \in Conns, TryRecordAccept(t, k) PROVE OwnerInv'
    BY <1>a, <2>1, <2>6, TryRecordAcceptOwner
  <2>7. ASSUME NEW k \in Conns, Close(k) PROVE OwnerInv'
    BY <1>3, <2>1, <2>7 DEF Close, Without
  <2> QED BY <1>a, <1>7, <2>2, <2>3, <2>4, <2>5, <2>6, <2>7
          DEF HostStep, HostOpens, HostGoesOn
<1>8. CASE UNCHANGED vars
  BY <1>8, OwnerMapSame DEF vars, attribution_vars, startup_vars, OwnerInv
<1> QED BY <1>4, <1>5, <1>6, <1>7, <1>8 DEF Next

(* What CONN_MAP says of a connection is the process that connected or     *)
(* accepted it (process.rs), when CONNECT_STASH has room for every task:   *)
(* for any number of tasks and connections, 4-tuples used again, probes    *)
(* attached between the calls, entries evicted from CONN_MAP, and          *)
(* addresses or ports that the kernel has elsewhere than process.rs reads  *)
(* them.                                                                   *)
THEOREM AttributesToOwner ==
  ASSUME IsFiniteSet(Tasks), Cardinality(Tasks) <= StashCap
  PROVE  Spec => []AttributedToOwner
<1>1. Init => OwnerInv
  BY DEF Init, AttributionInit, OwnerInv, AttributedToOwner
<1>2. OwnerInv => AttributedToOwner
  BY DEF OwnerInv
<1>3. OwnerInv /\ SoundInv /\ SoundInv' /\ [Next]_vars => OwnerInv'
  BY NextOwnerInv
<1> QED BY <1>1, <1>2, <1>3, InitSoundInv, NextSoundInv, PTL DEF Spec

=============================================================================
