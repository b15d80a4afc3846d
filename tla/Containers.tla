---------------------------- MODULE Containers ----------------------------
(***************************************************************************)
(* Container attribution (containers.rs, and enrich_with_cgroup of         *)
(* tls.rs): the worker turns the cgroup id of a capture into a cgroup path *)
(* and the path into a container id and a pod UID.                         *)
(*                                                                         *)
(* The resolver knows the inodes that its last complete walk of the cgroup *)
(* tree found.  An inode it does not know makes it walk the tree again,    *)
(* directory by directory, while containers come and go; a directory that  *)
(* is gone when it is read makes the walk fail.  A miss is remembered for  *)
(* TTL seconds of the wall clock, which may be set back.                   *)
(*                                                                         *)
(* A cgroup is its path, a sequence of segments, and stands for its inode. *)
(* Cgroups are made and removed without end.  One that is made again has   *)
(* another inode: it is made when nothing remembers the old one, and no    *)
(* one can tell them apart.                                                *)
(***************************************************************************)
EXTENDS Naturals, Integers, SequencesExt

CONSTANTS
  Cgroups,      (* the cgroups that may exist                               *)
  Unknown,      (* an id that is not of this hierarchy                      *)
  Asked,        (* the ids of the processes that are seen                   *)
  TTL,          (* seconds a miss is remembered (5)                         *)
  MaxBack,      (* bound: seconds the clock is set back at once             *)
  MaxSetBacks,  (* bound: times the clock is set back                       *)
  None

Root == <<>>
Runtimes == <<"crio", "cri-containerd", "docker", "libpod">>
Markers == Range(Runtimes) \cup {"scope", "kubepods-pod", "kubepods-qos-pod", "other"}

ASSUME ContainersAssumption ==
  /\ \A c \in Cgroups : c \in Seq(Range(c))
  /\ \A c \in Cgroups : \A i \in DOMAIN c : c[i].marker \in Markers
  /\ \A c \in Cgroups : c # Root /\ Front(c) \in Cgroups \cup {Root}
  /\ Unknown \notin Cgroups \cup {Root}
  /\ Asked \subseteq Cgroups \cup {Root, Unknown}
  /\ TTL \in Nat \ {0} /\ MaxBack \in Nat /\ MaxSetBacks \in Nat

VARIABLES
  tree,      (* the cgroups there are                                        *)
  ino_map,   (* the inodes the last complete walk found                      *)
  negative,  (* per inode missed, how long ago by the wall clock (up to TTL) *)
  walk,      (* the walk under way: for which inode, the directories still   *)
             (* to read, and what was found                                  *)
  event,     (* the last event enriched                                      *)
  setbacks   (* times the clock was set back                                 *)

vars == <<tree, ino_map, negative, walk, event, setbacks>>

TypeOK ==
  /\ tree \subseteq Cgroups \cup {Root}
  /\ ino_map \subseteq Cgroups
  /\ DOMAIN negative \subseteq Cgroups \cup {Root, Unknown}
  /\ \A c \in DOMAIN negative : negative[c] \in -MaxBack * MaxSetBacks .. TTL
  /\ walk # None =>
       /\ walk.inode \in Cgroups \cup {Root, Unknown}
       /\ Range(walk.stack) \subseteq Cgroups \cup {Root}
       /\ walk.found \subseteq Cgroups
  /\ setbacks \in 0 .. MaxSetBacks

Init ==
  /\ tree = {Root}
  /\ ino_map = {} /\ negative = [c \in {} |-> 0]
  /\ walk = None
  /\ event = None
  /\ setbacks = 0

(***************************************************************************)
(* The path of a cgroup                                                    *)
(***************************************************************************)

IsScope(segment) == segment.marker \in Range(Runtimes) \cup {"scope"}

(* The pod UID is read from a slice right below kubepods only. *)
PodUid(path) ==
  LET pods == SelectSeq(path, LAMBDA s : s.marker = "kubepods-pod")
  IN IF pods = <<>> THEN None ELSE Head(pods).id

(* parse_crio, parse_containerd, parse_docker, parse_podman: the path ends *)
(* in a scope, and the last scope of the runtime has the container id.     *)
ParseRuntime(path, runtime) ==
  LET scopes == SelectSeq(path, LAMBDA s : s.marker = runtime)
  IN IF path = <<>> \/ ~IsScope(Last(path)) \/ scopes = <<>> THEN None
     ELSE [container_id |-> Last(scopes).id,
           pod_uid |-> IF runtime = "crio" THEN PodUid(path) ELSE None]

(* The first runtime that knows the path. *)
parse_container_path(path) ==
  LET known == SelectSeq(Runtimes, LAMBDA r : ParseRuntime(path, r) # None)
  IN IF known = <<>> THEN [container_id |-> None, pod_uid |-> None]
     ELSE ParseRuntime(path, Head(known))

(* enrich_with_cgroup, once the resolver has answered. *)
Enriched(inode, path) ==
  [cgroup |-> inode,
   identity |-> IF path = None THEN [container_id |-> None, pod_uid |-> None]
                ELSE parse_container_path(path)]

(***************************************************************************)
(* The resolver                                                            *)
(***************************************************************************)

(* Mutant: a miss is never forgotten. *)
RecentlyMissed_ForEver(inode) == inode \in DOMAIN negative

(* A miss of the future (the clock was set back) counts as expired. *)
RecentlyMissed(inode) == inode \in DOMAIN negative /\ negative[inode] \in 0 .. TTL - 1

(* An event of the process in cgroup `inode' comes to the worker: the      *)
(* caches answer, or a walk begins.  (Without a cgroup there is nothing to *)
(* resolve.)                                                               *)
ResolveInode(inode) ==
  /\ walk = None
  /\ \/ /\ inode \in ino_map
        /\ event' = Enriched(inode, inode)
        /\ UNCHANGED <<negative, walk>>
     \/ /\ inode \notin ino_map /\ RecentlyMissed(inode)
        /\ event' = Enriched(inode, None)
        /\ UNCHANGED <<negative, walk>>
     \/ /\ inode \notin ino_map /\ ~RecentlyMissed(inode)
        /\ negative' = [c \in DOMAIN negative \ {inode} |-> negative[c]]
        /\ walk' = [inode |-> inode, stack |-> <<Root>>, found |-> {}]
        /\ UNCHANGED event
  /\ UNCHANGED <<tree, ino_map, setbacks>>

Children(dir) == {c \in tree \ {Root} : Front(c) = dir}

(* The walk reads its next directory: the entries, in any order, are found *)
(* and gone into, deepest first.                                           *)
ReadDir ==
  /\ walk # None /\ walk.stack # <<>> /\ Head(walk.stack) \in tree
  /\ LET children == Children(Head(walk.stack))
     IN \E order \in SetToSeqs(children) :
          walk' = [walk EXCEPT !.stack = order \o Tail(@), !.found = @ \cup children]
  /\ UNCHANGED <<tree, ino_map, negative, event, setbacks>>

(* The miss is remembered, and the event has no container. *)
Missed ==
  /\ negative' = [c \in DOMAIN negative \cup {walk.inode} |->
                    IF c = walk.inode THEN 0 ELSE negative[c]]
  /\ event' = Enriched(walk.inode, None)

(* Every directory is read: what was found replaces what was known. *)
WalkReturns ==
  /\ walk # None /\ walk.stack = <<>>
  /\ ino_map' = walk.found
  /\ IF walk.inode \in walk.found
     THEN event' = Enriched(walk.inode, walk.inode) /\ UNCHANGED negative
     ELSE Missed
  /\ walk' = None
  /\ UNCHANGED <<tree, setbacks>>

(* Mutant: what a failed walk found replaces what was known. *)
WalkFails_KeepsPart ==
  /\ walk # None /\ walk.stack # <<>> /\ Head(walk.stack) \notin tree
  /\ ino_map' = walk.found
  /\ Missed
  /\ walk' = None
  /\ UNCHANGED <<tree, setbacks>>

(* The next directory is gone: the walk is given up, and what was known is *)
(* kept.                                                                   *)
WalkFails ==
  /\ walk # None /\ walk.stack # <<>> /\ Head(walk.stack) \notin tree
  /\ Missed
  /\ walk' = None
  /\ UNCHANGED <<tree, ino_map, setbacks>>

(***************************************************************************)
(* The host                                                                *)
(***************************************************************************)

(* No cache and no walk has the inode of c. *)
Forgotten(c) ==
  /\ c \notin ino_map \cup DOMAIN negative
  /\ walk # None => c \notin walk.found \cup {walk.inode}

CgroupCreated(c) ==
  /\ c \notin tree /\ Forgotten(c) /\ Front(c) \in tree
  /\ tree' = tree \cup {c}
  /\ UNCHANGED <<ino_map, negative, walk, event, setbacks>>

CgroupRemoved(c) ==
  /\ c \in tree /\ Children(c) = {}
  /\ tree' = tree \ {c}
  /\ UNCHANGED <<ino_map, negative, walk, event, setbacks>>

Tick ==
  /\ negative' = [c \in DOMAIN negative |-> IF negative[c] < TTL THEN negative[c] + 1 ELSE TTL]
  /\ UNCHANGED <<tree, ino_map, walk, event, setbacks>>

(* The wall clock is set back.  (TTL stands for any longer time.) *)
SetBack(seconds) ==
  /\ setbacks < MaxSetBacks
  /\ setbacks' = setbacks + 1
  /\ negative' \in {n \in [DOMAIN negative -> -MaxBack * MaxSetBacks .. TTL] :
       \A c \in DOMAIN negative :
         \/ n[c] = negative[c] - seconds
         \/ negative[c] = TTL /\ n[c] \in TTL - seconds .. TTL}
  /\ UNCHANGED <<tree, ino_map, walk, event>>

(* (A process may be seen when its cgroup is gone.) *)
Next ==
  \/ \E c \in Asked : ResolveInode(c)
  \/ ReadDir \/ WalkReturns \/ WalkFails
  \/ \E c \in Cgroups : CgroupCreated(c) \/ CgroupRemoved(c)
  \/ Tick
  \/ \E seconds \in 1 .. MaxBack : SetBack(seconds)

(* A walk goes on once it has begun, and time passes. *)
Spec == Init /\ [][Next]_vars /\ WF_vars(ReadDir \/ WalkReturns \/ WalkFails) /\ WF_vars(Tick)

(***************************************************************************)
(* Properties                                                              *)
(***************************************************************************)

(* A cgroup the resolver knows stays known as long as it exists: with any  *)
(* others made and removed while a walk reads the tree, and with walks     *)
(* that fail half-way (containers.rs, resolve_inode, walk_cgroup_tree).    *)
KeepsLive == [][ino_map \cap tree' \subseteq ino_map']_vars

(* Not all walks fail for ever: among endless failures, walks return. *)
WalksReturn == []<><<WalkFails>>_vars => []<><<WalkReturns>>_vars

(* A container that stays, and whose processes keep being seen, is named   *)
(* unless from some time on every walk meets a directory that is gone      *)
(* (containers.rs, resolve_inode, walk_cgroup_tree): misses, some failed   *)
(* walks, unknown ids and a clock set back only delay it.                  *)
EventuallyNamed ==
  \A c \in Cgroups \cap Asked :
    <>[](c \in tree) /\ []<><<ResolveInode(c)>>_vars /\ WalksReturn =>
      <>(event = Enriched(c, c))

(***************************************************************************)
(* What the documentation says and the code does not keep.                 *)
(***************************************************************************)

(* README.md: "The container/pod behind any event above": a container that *)
(* stays is named, whatever others do.  With others that come and go for   *)
(* ever, every walk may fail.                                              *)
NamedDespiteChurn ==
  \A c \in Cgroups \cap Asked :
    <>[](c \in tree) /\ []<><<ResolveInode(c)>>_vars => <>(event = Enriched(c, c))

(* The same sentence: the container id                                     *)
(* of an event is that of the innermost scope of its path.                 *)
InsideIsNamed ==
  event # None /\ event.cgroup \in ino_map =>
    \A i \in DOMAIN event.cgroup :
      event.cgroup[i].marker \in Range(Runtimes) => event.identity.container_id # None

(* docs/field-reference.md: pod_uid is "null if not in a pod"; comment in  *)
(* containers.rs: "Look for pod UID in parent dirs:                        *)
(* `kubepods-*-pod<uid>.slice`".                                           *)
PodsHaveUid ==
  event # None /\ event.identity.container_id # None =>
    \A i \in DOMAIN event.cgroup :
      event.cgroup[i].marker \in {"kubepods-pod", "kubepods-qos-pod"} =>
        event.identity.pod_uid = event.cgroup[i].id

=============================================================================
