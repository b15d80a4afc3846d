--------------------------- MODULE MCContainers ---------------------------
(* A CRI-O container in a pod of a QoS class, and a podman container with  *)
(* a cgroup of its own inside.                                             *)
EXTENDS Containers

Segment(m, i) == [marker |-> m, id |-> i]

QosPod == <<Segment("kubepods-qos-pod", "uid1")>>
Crio == Append(QosPod, Segment("crio", "c1"))
Libpod == <<Segment("libpod", "p1")>>
Inner == Append(Libpod, Segment("other", "container"))

SomeCgroups == {QosPod, Crio, Libpod, Inner}
SomeAsked == {Crio, Libpod, Unknown}

=============================================================================
