----------------------------- MODULE MCStartup -----------------------------
(* Two processes beside the probe, an IPv4 and an IPv6 connection beside   *)
(* the self-test's, and hosts on which each mode of --interface finds      *)
(* interfaces, or none.                                                    *)
EXTENDS Startup

CONSTANTS t1, t2, main, connector, p1, p2, probe, k4, k6, self_out, self_in

FourTasks == {t1, t2, main, connector}
ThreeProcesses == [t \in FourTasks |-> IF t = t1 THEN p1 ELSE IF t = t2 THEN p2 ELSE probe]
Families == [k \in {k4, k6, self_out, self_in} |-> IF k = k6 THEN "v6" ELSE "v4"]

(* A kernel with the layout that process.rs assumes, and others. *)
SomeLayouts == {{}, {"v4"}, {"ports", "sides"}, {"v6", "family"}}

Route(i, d, g) == [iface |-> i, dest |-> d, gateway |-> g]

(* A host with a default route over eth0, and eth1 up without an address. *)
NewHost ==
  [major |-> 6, minor |-> 1,
   effective |-> {"CAP_BPF", "CAP_NET_ADMIN", "CAP_PERFMON", "CAP_SYS_RESOURCE"},
   memlock |-> "low", interfaces |-> {"lo", "eth0", "eth1"},
   route |-> <<Route("eth1", "link_local", FALSE), Route("eth0", "default", TRUE)>>,
   if_inet6 |-> {[iface |-> "eth1", scope |-> "link_local"]},
   operstate |-> [i \in {"lo", "eth0", "eth1"} |-> "up"]]

(* An active bridge, reached over IPv6 only. *)
BridgeHost ==
  [NewHost EXCEPT !.major = 5, !.minor = 8, !.route = <<>>,
     !.if_inet6 = {[iface |-> "eth0", scope |-> "global"]},
     !.operstate = [i \in {"lo", "eth0", "eth1"} |-> IF i = "eth0" THEN "unknown" ELSE "down"]]

(* Everything is down, and the limit cannot be read. *)
DownHost ==
  [NewHost EXCEPT !.route = <<>>, !.memlock = "unreadable",
     !.operstate = [i \in {"lo", "eth0", "eth1"} |-> "down"]]

(* A kernel before CAP_BPF, without CAP_SYS_ADMIN. *)
OldHost == [NewHost EXCEPT !.major = 5, !.minor = 7]

SomeHosts == {NewHost, BridgeHost, DownHost, OldHost}
AllModes == {<<"auto">>, <<"all">>, <<"eth1", "eth0">>}

=============================================================================
