------------------------------ MODULE Startup ------------------------------
(***************************************************************************)
(* The start of `tls-probe capture' (commands/capture.rs, run, up to the   *)
(* event loop): the capability and memlock checks (capabilities.rs), the   *)
(* eBPF object, the choice of interfaces, the attribution probes and the   *)
(* TC classifiers (loader.rs), and the attribution self-test               *)
(* (self_test.rs), composed with the connections that the other processes  *)
(* of the host open and close meanwhile (Attribution).                     *)
(*                                                                         *)
(* Every call to the kernel may fail.  A failure returns early from the    *)
(* function it is in; what that function has attached so far stays.        *)
(***************************************************************************)
EXTENDS Attribution, SequencesExt

CONSTANTS
  Hosts,     (* what the kernel says of a host (see Host)                   *)
  Servers,   (* the tasks of other processes that accept connections        *)
  Modes,     (* --interface: "auto", "all", or a list of names              *)
  Main,      (* the main thread of the probe, a task                        *)
  Connector, (* the thread the self-test connects from                      *)
  SelfOut,   (* the self-test's connection, seen from its connecting side   *)
  SelfIn,    (* the same from its accepting side                            *)
  MaxOpens   (* bound: connections of the other processes                   *)

ASSUME StartupAssumption ==
  /\ {Main, Connector} \subseteq Tasks /\ Main # Connector
  /\ Process[Main] = Process[Connector]
  /\ Servers \subseteq Tasks \ {Main, Connector}
  /\ {SelfOut, SelfIn} \subseteq Loopback /\ SelfOut # SelfIn
  /\ MaxOpens \in Nat

VARIABLES
  stage,                (* where run() is                                    *)
  pending,              (* attribution probes not attached yet               *)
  interfaces,           (* interfaces not attached yet                       *)
  tc,                   (* classifiers attached: interface and direction     *)
  attached_interfaces,  (* the loader's list                                 *)
  thread,               (* the self-test's connecting thread                 *)
  accepted,             (* wait_for_accept returned true                     *)
  self_test,            (* what the self-test returned                       *)
  opens                 (* connections of the other processes so far         *)

startup_vars ==
  <<stage, pending, interfaces, tc, attached_interfaces, thread, accepted, self_test>>
vars == <<attribution_vars, startup_vars, opens>>

TypeOK ==
  /\ AttributionTypeOK
  /\ stage \in {"capabilities", "memlock", "object", "interfaces", "classifiers",
                "probes", "ingress", "egress", "self_test", "accept", "join",
                "search", "running", "exited"}
  /\ pending \in Seq(Range(AttributionProbes))
  /\ tc \subseteq (UNION {h.interfaces : h \in Hosts}) \X {"ingress", "egress"}
  /\ thread \in {"none", "sleeping", "connecting", "done"}
  /\ accepted \in BOOLEAN
  /\ self_test \in BOOLEAN
  /\ opens \in 0 .. MaxOpens

Init ==
  /\ AttributionInit
  /\ stage = "capabilities"
  /\ pending = AttributionProbes
  /\ interfaces = <<>>
  /\ tc = {} /\ attached_interfaces = {}
  /\ thread = "none" /\ accepted = FALSE /\ self_test = FALSE
  /\ opens = 0

(* run() returns an error: dropping the loader detaches and frees all. *)
Exit ==
  /\ stage' = "exited"
  /\ stash' = [t \in {} |-> None] /\ conn_map' = [k \in {} |-> None]
  /\ probes' = {} /\ tc' = {} /\ attached_interfaces' = {}
  /\ UNCHANGED <<misplaced, sockets, connect, accepting,
                 pending, interfaces, thread, accepted, self_test>>

(* A step that only moves on. *)
Continue(from, to) ==
  /\ stage = from /\ stage' = to
  /\ UNCHANGED <<attribution_vars, pending, interfaces, tc, attached_interfaces,
                 thread, accepted, self_test>>

(***************************************************************************)
(* Before anything is attached                                             *)
(***************************************************************************)

has_cap_bpf_support(h) == h.major > 5 \/ (h.major = 5 /\ h.minor >= 8)

RequiredCaps(h) ==
  IF has_cap_bpf_support(h) THEN {"CAP_BPF", "CAP_NET_ADMIN", "CAP_PERFMON", "CAP_SYS_RESOURCE"}
  ELSE {"CAP_SYS_ADMIN", "CAP_NET_ADMIN", "CAP_SYS_RESOURCE"}

CheckCapabilities(h) ==
  IF RequiredCaps(h) \subseteq h.effective
  THEN Continue("capabilities", "memlock")
  ELSE stage = "capabilities" /\ Exit

(* Only a limit that cannot be read is an error: one that is too low and   *)
(* cannot be raised is a warning.                                          *)
EnsureMemlockRlimit(h) ==
  IF h.memlock = "unreadable" THEN stage = "memlock" /\ Exit
  ELSE Continue("memlock", "object")

LoadObject == Continue("object", "interfaces") \/ (stage = "object" /\ Exit)

(* The first route to 0.0.0.0. *)
DefaultInterface(h) ==
  LET defaults == SelectSeq(h.route, LAMBDA r : r.dest = "default")
  IN IF defaults = <<>> THEN {} ELSE {<<Head(defaults).iface>>}

HasRoutableIpv4(h, i) ==
  \E r \in Range(h.route) : r.iface = i /\ (r.dest # "link_local" \/ r.gateway)

HasRoutableIpv6(h, i) == \E a \in h.if_inet6 : a.iface = i /\ a.scope # "link_local"

RoutableInterfaces(h) ==
  {i \in h.interfaces \ {"lo"} :
     /\ h.operstate[i] \in {"up", "unknown"}
     /\ HasRoutableIpv4(h, i) \/ HasRoutableIpv6(h, i)}

(* The lists that detect_interfaces may return (a directory is read in any *)
(* order); none is an error.                                               *)
DetectedInterfaces(mode, h) ==
  CASE mode = <<"auto">> -> DefaultInterface(h)
    [] mode = <<"all">> -> SetToSeqs(RoutableInterfaces(h)) \ {<<>>}
    [] OTHER -> {mode}

DetectInterfaces(mode, h) ==
  /\ stage = "interfaces"
  /\ \/ DetectedInterfaces(mode, h) = {} /\ Exit
     \/ /\ interfaces' \in DetectedInterfaces(mode, h)
        /\ stage' = "classifiers"
        /\ UNCHANGED <<attribution_vars, pending, tc, attached_interfaces,
                       thread, accepted, self_test>>

(***************************************************************************)
(* TlsProbeLoader::attach                                                  *)
(***************************************************************************)

LoadClassifiers ==
  Continue("classifiers", "probes") \/ (stage = "classifiers" /\ Exit)

(* Mutant: a probe that fails is passed over, and the next one tried. *)
AttachProbe_GoesOn ==
  /\ stage = "probes" /\ pending # <<>>
  /\ probes' \in {probes, probes \cup {Head(pending)}}
  /\ pending' = Tail(pending)
  /\ UNCHANGED <<stash, conn_map, misplaced, sockets, connect, accepting,
                 stage, interfaces, tc, attached_interfaces, thread, accepted, self_test>>

(* The next attribution probe is attached; or it fails, the rest is left   *)
(* off with a warning, and the probe runs on.                              *)
AttachProbe ==
  /\ stage = "probes" /\ pending # <<>>
  /\ \/ /\ probes' = probes \cup {Head(pending)}
        /\ pending' = Tail(pending)
        /\ UNCHANGED stage
     \/ /\ stage' = "ingress"
        /\ UNCHANGED <<probes, pending>>
  /\ UNCHANGED <<stash, conn_map, misplaced, sockets, connect, accepting,
                 interfaces, tc, attached_interfaces, thread, accepted, self_test>>

AllProbesAttached == pending = <<>> /\ Continue("probes", "ingress")

(* The next interface: its ingress classifier.  A failure skips it. *)
AttachIngress ==
  /\ stage = "ingress" /\ interfaces # <<>>
  /\ \/ /\ tc' = tc \cup {<<Head(interfaces), "ingress">>}
        /\ stage' = "egress"
        /\ UNCHANGED interfaces
     \/ /\ interfaces' = Tail(interfaces)
        /\ UNCHANGED <<stage, tc>>
  /\ UNCHANGED <<attribution_vars, pending, attached_interfaces, thread, accepted, self_test>>

(* Mutant: the interface is listed whether or not its egress is attached. *)
AttachEgress_ListsAnyway ==
  /\ stage = "egress" /\ stage' = "ingress"
  /\ tc' \in {tc, tc \cup {<<Head(interfaces), "egress">>}}
  /\ attached_interfaces' = attached_interfaces \cup {Head(interfaces)}
  /\ interfaces' = Tail(interfaces)
  /\ UNCHANGED <<attribution_vars, pending, thread, accepted, self_test>>

(* Its egress classifier.  A failure skips the interface; its ingress      *)
(* classifier stays.                                                       *)
AttachEgress ==
  /\ stage = "egress" /\ stage' = "ingress"
  /\ \/ /\ tc' = tc \cup {<<Head(interfaces), "egress">>}
        /\ attached_interfaces' = attached_interfaces \cup {Head(interfaces)}
     \/ UNCHANGED <<tc, attached_interfaces>>
  /\ interfaces' = Tail(interfaces)
  /\ UNCHANGED <<attribution_vars, pending, thread, accepted, self_test>>

AttachReturns ==
  /\ interfaces = <<>>
  /\ IF attached_interfaces = {} THEN stage = "ingress" /\ Exit
     ELSE Continue("ingress", "self_test")

(***************************************************************************)
(* The self-test                                                           *)
(***************************************************************************)

(* The function returns: its streams, and the listener with what is in the *)
(* backlog, are dropped.                                                   *)
SelfTestReturns(verdict) ==
  /\ self_test' = verdict
  /\ stage' = "running"
  /\ sockets' = Restrict(sockets, DOMAIN sockets \ {SelfOut, SelfIn})
  /\ thread' = "none" /\ accepted' = FALSE
  /\ UNCHANGED <<stash, conn_map, probes, misplaced, connect, accepting,
                 pending, interfaces, tc, attached_interfaces>>

(* --no-self-test; or no map, or no listener. *)
SelfTestSkipped == stage = "self_test" /\ SelfTestReturns(FALSE)

(* The listener is bound and the connecting thread spawned. *)
SelfTestBegins ==
  /\ stage = "self_test" /\ stage' = "accept"
  /\ thread' = "sleeping"
  /\ UNCHANGED <<attribution_vars, pending, interfaces, tc, attached_interfaces,
                 accepted, self_test>>

(* TcpStream::connect in the thread. *)
ConnectorConnects ==
  /\ thread = "sleeping" /\ thread' = "connecting"
  /\ StashConnectEntry(Connector, SelfOut)
  /\ UNCHANGED <<stage, pending, interfaces, tc, attached_interfaces, accepted, self_test>>

(* It returns: refused, established, or timed out with no answer. *)
ConnectorReturns ==
  /\ thread = "connecting" /\ connect[Connector] = None
  /\ thread' = "done"
  /\ UNCHANGED <<attribution_vars, stage, pending, interfaces, tc, attached_interfaces,
                 accepted, self_test>>

(* wait_for_accept: the connection is in the backlog. *)
AcceptReturns ==
  /\ stage = "accept" /\ stage' = "join"
  /\ TryRecordAccept(Main, SelfIn)
  /\ accepted' = TRUE
  /\ UNCHANGED <<pending, interfaces, tc, attached_interfaces, thread, self_test>>

(* Mutant: the deadline is checked only after an accept. *)
AcceptGivesUp_AfterAccept == accepted /\ Continue("accept", "join")

(* wait_for_accept: the deadline has passed. *)
AcceptGivesUp == Continue("accept", "join")

(* wait_for_accept: an error other than WouldBlock. *)
AcceptErrors == Continue("accept", "join")

(* The thread is joined, however long its connect takes, and its stream    *)
(* dropped.  Without an accept the test has failed.                        *)
JoinConnector ==
  /\ stage = "join" /\ thread = "done"
  /\ \/ ~accepted /\ SelfTestReturns(FALSE)
     \/ /\ accepted
        /\ stage' = "search"
        /\ sockets' = Without(sockets, SelfOut)
        /\ UNCHANGED <<stash, conn_map, probes, misplaced, connect, accepting,
                       pending, interfaces, tc, attached_interfaces, thread, accepted,
                       self_test>>

(* Mutant: any entry with our pid will do. *)
SearchConnMap_AnyAddress ==
  /\ stage = "search"
  /\ SelfTestReturns(Process[Main] \in Range(conn_map))

(* An entry of CONN_MAP from localhost to localhost with our pid, whatever *)
(* its ports.  (An entry that stays in the map while it is iterated over   *)
(* is found.)                                                              *)
SearchConnMap ==
  /\ stage = "search"
  /\ SelfTestReturns(\E q \in DOMAIN conn_map \cap OnLocalhost :
                       conn_map[q] = Process[Main])

(***************************************************************************)
(* The specification                                                       *)
(***************************************************************************)

(* Steps of the main thread that nothing outside it holds up. *)
MainStep ==
  /\ \/ \E h \in Hosts :
          \/ CheckCapabilities(h) \/ EnsureMemlockRlimit(h)
          \/ \E mode \in Modes : DetectInterfaces(mode, h)
     \/ LoadObject \/ LoadClassifiers
     \/ AttachProbe \/ AllProbesAttached
     \/ AttachIngress \/ AttachEgress \/ AttachReturns
     \/ SelfTestSkipped \/ SelfTestBegins
     \/ AcceptReturns \/ AcceptGivesUp \/ JoinConnector \/ SearchConnMap
  /\ UNCHANGED opens

ConnectorStep ==
  /\ \/ ConnectorConnects \/ ConnectorReturns
     \/ (ConnectFails(Connector) \/ FinishConnect(Connector)) /\ UNCHANGED startup_vars
  /\ UNCHANGED opens

(* The other processes, and the loopback's delivery of the SYN.  (Nothing  *)
(* is followed after an exit.  A task that waits in accept() since before  *)
(* the probes are attached does so from any moment before.)                *)
HostOpens ==
  /\ opens < MaxOpens /\ opens' = opens + 1
  /\ \E k \in Conns \ {SelfOut, SelfIn} :
       \/ Arrives(k)
       \/ \E t \in Tasks \ {Main, Connector} : StashConnectEntry(t, k)

HostGoesOn ==
  /\ UNCHANGED opens
  /\ \/ \E t \in Tasks \ {Main, Connector} : ConnectFails(t) \/ FinishConnect(t)
     \/ \E t \in Servers :
          \/ stage = "probes" /\ EnterAccept(t)
          \/ \E k \in Conns \ {SelfIn} : TryRecordAccept(t, k)
     \/ \E k \in Conns \ {SelfOut, SelfIn} : Close(k)
     \/ /\ SelfOut \in DOMAIN sockets /\ stage \in {"accept", "join"} /\ ~accepted
        /\ Arrives(SelfIn)

HostStep == stage # "exited" /\ (HostOpens \/ HostGoesOn) /\ UNCHANGED startup_vars

Next ==
  \/ MainStep
  \/ AcceptErrors /\ UNCHANGED opens
  \/ ConnectorStep
  \/ HostStep

(* The probe's two threads are scheduled, and the kernel answers each of   *)
(* their calls in the end; no other process owes anything.                 *)
Spec == Init /\ [][Next]_vars /\ WF_vars(MainStep) /\ WF_vars(ConnectorStep)

(***************************************************************************)
(* Properties                                                              *)
(***************************************************************************)

(* A probe that runs watches at least one interface, and both directions   *)
(* of every interface in its list: with any of the attachments failing     *)
(* (loader.rs, attach and attach_interface).                               *)
AttachedBothWays ==
  /\ stage = "running" => attached_interfaces # {}
  /\ attached_interfaces \X {"ingress", "egress"} \subseteq tc

(* A self-test that passes shows that IPv4 addresses are read where the    *)
(* kernel has them (not which of them is the local one) and that the IPv4  *)
(* connect probes are attached, whichever of its two entries it found, and *)
(* whatever other processes do to CONN_MAP (self_test.rs, loader.rs).  It  *)
(* shows nothing of the ports, of IPv6 or of the address family.           *)
SelfTestSound ==
  self_test =>
    "v4" \notin misplaced /\ {"tcp_v4_connect", "tcp_v4_connect_ret"} \subseteq probes

(* Startup comes to an end: the capture runs, or run() has returned an     *)
(* error, also when the loopback never delivers the self-test's SYN.       *)
StartupDecides == <>(stage \in {"running", "exited"})

(***************************************************************************)
(* What a comment says and the code does not keep.                         *)
(***************************************************************************)

(* self_test.rs: "validates sock_common offset correctness at startup";    *)
(* README: "the startup loopback canary warns loudly if attribution is     *)
(* broken".                                                                *)
SelfTestCoversOffsets == self_test => misplaced = {}

(* loader.rs, when an attribution probe failed: "TLS capture will work but *)
(* events won't have PID/process names".                                   *)
DisabledIsNull ==
  stage = "running" /\ pending # <<>> => \A k \in DOMAIN sockets : Attributed(k) = None

(* loader.rs: "Skipping {}". *)
SkippedIsDetached ==
  stage = "running" => \A c \in tc : c[1] \in attached_interfaces

=============================================================================
