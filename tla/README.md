# A TLA+ model of tls-probe

tls-probe watches TLS handshakes on a host. An eBPF program on the TC hooks
copies the handshake and alert records it sees into a ring buffer, kprobes on
`connect` and `accept` record which process owns a connection, and a userspace
program reassembles segmented records, parses them, joins ClientHello with
ServerHello, names the process and the container behind each, and writes one JSON line per event to standard output or
to a bounded spool.

This directory models that path and the start of the program, checks it with
TLC on small instances and proves the central parts with TLAPS for every instance.
`PROJECT.json` lists the runs, the source lines behind each definition, the
hazards and the theorems in machine-readable form.

## 1. Inventory

| Part | Code | State it keeps | Operations | Module |
|---|---|---|---|---|
| TC classifier | `tls-probe-ebpf/src/tls.rs`, `main.rs` | `REASM_MAP` (bytes and segments left per flow), ring buffer, `RINGBUF_DROPS` | one call per packet and CPU | `Classifier` |
| Process attribution | `tls-probe-ebpf/src/process.rs` | `CONNECT_STASH`, `CONN_MAP` (both LRU) | connect kprobe and kretprobe, accept kretprobe, lookup | `Attribution` |
| Record reassembler | `tls-probe-cli/src/reasm.rs` | `flows`: fragments, head, expected length, age | `insert`, `sweep_expired` | `FragmentRun`, `FragmentWalk`, `Reassembler` |
| Correlator | `tls-probe-cli/src/correlate.rs` | `pending`: one summary per connection | `on_client_hello`, `on_server_hello`, `on_alert`, `on_certificate_request`, `on_client_certificate`, `sweep_expired` | `Correlator` |
| Worker task | `tls-probe-cli/src/commands/capture.rs` | correlator, reassembler, sweep counter, counters | one loop body per capture | `Worker`, `CapturePath` |
| Pipeline and shutdown | `commands/capture.rs`, `loader.rs` (drain task) | ring, two channels, counters, `running` | drain, worker, writer, loader task, `run()` | `Pipeline`, `LossyStream` |
| Spool writer | `tls-probe-cli/src/pipeline.rs` | `BufWriter`, current part file, size, last flush, the directory | write, flush, rotate, enforce cap, finalize | `SpoolWriter` |
| TLS parser | `tls-probe-parser/src` | position in the payload, what is parsed so far | `parse_tls_payload`, `parse_client_hello`, `parse_server_hello`, the extractors | `HelloParser` |
| Events: analysis, JA4, record walk, certificates | `tls.rs`, `ja4.rs`, `record_walk.rs`, `certificate.rs` | none between captures | one event per capture, one per record behind a ServerHello | `Events` |
| Capabilities, loader | `capabilities.rs`, `loader.rs` | attached probes and classifiers, `attached_interfaces` | checks, interface detection, `attach` | `Startup` |
| Attribution self-test | `self_test.rs` | listener, connecting thread | one loopback connection and a search of `CONN_MAP` | `Startup` |
| Container resolver | `containers.rs` | `ino_map`, `negative` | `resolve_inode`, walk of the cgroup tree, path parsers | `Containers` |
| `listeners` command, logging, command line, build tasks, code tables | `commands/listeners.rs` ... | none | - | not modelled (section 9) |

How the parts interact: the classifier (on every CPU at once) and the kprobes
share LRU hash maps without locks. The classifier hands captures to userspace
through the ring. The drain task moves them into a bounded channel and drops what does
not fit; the worker takes them out, calls reassembler and correlator, and sends
lines into a second bounded channel; the writer thread empties that into the
spool. Shutdown is an `AtomicBool`, a one-shot message with a grace period, and the
closing of the channels one after the other.

What is hard to test here: two CPUs inside `try_capture_tls` for one flow; segments
early, repeated or missing; sequence numbers that wrap; tables at their limits;
a wall clock that is set back; the order of the records of one flight; a `continue`
or a fall-through in a 250-line loop body; channels closing while full; system calls that
fail half-way through a rotation; a kill between write and flush; a payload that ends in the middle of a length;
attachments that stop half-way while connections are opened; a tree that changes while it is walked. Each is a hazard in
`PROJECT.json`, at its line, with the properties that guard it.

What makes each part correct:

* Reassembler: what it returns is a gapless stretch of the stream from the head on; a
  record not marked truncated is whole; a complete record does not wait; no record
  disappears without a trace.
* Correlator: a negotiation joins the latest hello of its own connection, once; the
  table is bounded; hellos leave it only for a reason.
* Classifier: no counter underflows; each event is emitted or counted as dropped; as long as no two CPUs overlap on a
  flow, it is tracked only while bytes of its record are still to come.
* Attribution: a connection that a process was seen to take is never attributed to another, with any of the probes missing, and with
  addresses or ports read at wrong offsets (as long as the address family is read right).
* Startup: it ends; a listed interface is watched in both directions; a self-test that passes means that IPv4 addresses
  are read right and the IPv4 connect probes are attached (and no more than that).
* Parser: no read is out of bounds; a field of a cut hello is what the peer sent or absent.
* Events: the fingerprint does not depend on GREASE and order; a TLS 1.2 flight gives one event per Certificate and
  CertificateRequest within the first four records, with the leaf that was sent or none.
* Container resolver: a live cgroup that is known stays known; a container that stays is named in the end, unless churn makes every walk fail from some time on.
* Worker: where the server runs on this host, `mtls` is never claimed without a certificate of the client, a negotiation rides
  the right event, a failure is final, a mutual handshake is reported.
* Pipeline: each event is accounted for, in order; shutdown ends and leaves nothing behind.
* Spool: lines are accounted for and in order (across files, unless the clock is set back); a complete chunk does not change; the cap
  is enforced by removing the oldest chunk first.

## 2. Modules

```
FragmentRun      the contiguous run of a fragment map, as a least closed set
  FragmentWalk     the loops of check_completion / finalize_entry, step by step
  Reassembler      the flow table                        <- MCReassembler
Classifier       the eBPF program, several CPUs          <- MCClassifier
  CapturePath      Classifier and Reassembler, a wire, the worker's sweep  <- MCCapturePath
Correlator       the table of pending hellos             <- MCCorrelator
  Worker           the worker loop around Correlator     <- MCWorker
Attribution      kprobes and CONN_MAP
  Startup          checks, loader, self-test, around Attribution  <- MCStartup
HelloParser      the parser over bytes
  Events           analysis, JA4, record walk, certificates       <- MCEvents
Containers       the cgroup resolver                     <- MCContainers
LossyStream      what the pipeline promises (abstract)
  Pipeline         tasks, channels, shutdown; refines LossyStream
SpoolWriter      buffered, rotating, capped spool over a file system
ReassemblerProofs (with FragmentRun), CapturePathProofs (with Classifier and FragmentWalk),
WorkerProofs (with Correlator), StartupProofs (with Attribution),
EventsProofs (with HelloParser), ContainersProofs, PipelineProofs, SpoolWriterProofs  theorems
```

**FragmentRun.** `ContiguousRun(f, s)` is the smallest set of buffered fragments that holds
`s` and, with each fragment, the one that starts where its payload ends, if that comes later in the map. It is not
recursive, so that it can be proved about. **FragmentWalk** is the code's own loop over
the `BTreeMap` (in numeric order, with the `wrapping_add`), run for every map of
up to four fragments; it shows that the loop computes `ContiguousRun`, which `LoopComputesRun` proves for any number of them. Everything else is written with that.

**Reassembler.** A payload is a position and a length in the TCP stream: within a flow the
byte at a sequence number is always the same byte. `Instant`s become ages that saturate at
the timeout, since `elapsed()` is only compared with it. One action per path through
`insert` (whole, fragment, continuation; a
continuation that is already there is ignored, a head overwrites) and one for `sweep_expired`. `out` is what the last call returned.

**Correlator.** A hello is a number, so that a negotiation can be traced to the hello
that it joined; `hellos` is the history of the numbers and has no counterpart in the code.
The clock is a wall clock (`SystemTime`) that may be set back; the subtraction in `sweep_expired` is
taken modulo `ClockMod`, as a release build does it.

**Classifier.** Every access to `REASM_MAP` is a step of its own: `Classify` (the first lookup
decides whether the payload continues a record), `ReadState` (the second lookup), `Emit...` (the write back,
the removal and the ring output; nothing in the code reads the map and the ring together). Another CPU may do anything in between, and `LruEvict` may remove any entry at any
time. `Consume` is the userspace end of the ring. `segs`, `owed` (the bytes of the last head's record that no CPU has captured yet) and `raced` (the flows that two CPUs handled at
once since their last head) are history that the code does not keep.

**CapturePath.** Classifier and Reassembler over a wire that carries given segments, in order
or with a budget of faults (passed early, repeated, lost in the ring). `Insert` is the worker: `insert` and then
the sweep after every `SweepEvery`-th capture (500 in the code). `OtherCapture` stands for
unrelated traffic that advances that counter.

**Worker.** `Take` chooses between the two paths of the loop body; `Calls` is the list of correlator calls
a record leads to, in the code's order (flight pre-scan first, then the message itself; `WalkedRequests` is what the walk over the flight finds);
`job` is the record in hand, with the calls still to make and the negotiation obtained so far;
`script` is the pair of handshakes of a behaviour. `Correlate` makes one call, `Emit` and `Drop13` end the body, `Sweep` follows when due. The
reassembler is reduced to records of two segments. The correlator is not abstracted: `Worker` extends `Correlator`.

**Attribution.** (A connection is its 4-tuple.) `StashConnectEntry` / `FinishConnect` / `ConnectFails` are the kprobe and
kretprobe of `connect`, `TryRecordAccept` the accept kretprobe, `Attributed` the classifier's
lookup, `Open`, `Arrives`, `EnterAccept` and `Close` the kernel. Nothing removes an entry of `CONN_MAP` but its LRU. A probe acts only once it
is in `probes`, and a kretprobe only for calls that began after it was attached: a task that has been waiting in `accept()` since before is not seen.
`misplaced` is chosen once: the fields of `sock_common` (IPv4 addresses, which of the two is the local one, IPv6 addresses, ports, address family) that the kernel has elsewhere than `process.rs` reads them, each on its own. A 4-tuple
of which a part is misread is one of `Misreads`: it is told apart by the connection it was read from and by whether both addresses still came out as 127.0.0.1, which is all the self-test looks at. That a misread 4-tuple is no other connection's is an
assumption. With the family misplaced the accept kretprobe takes either branch, or records nothing.

**Startup** extends Attribution with `run()` up to the event loop, a `stage` per call that may fail: capabilities and memlock, the eBPF object,
`detect_interfaces` over what a host's route table, addresses and operational states say (`Hosts`), the attribution probes one by one (the first
failure leaves the rest off and the probe runs on), ingress and egress classifier of each interface (a failure skips the interface), and the self-test with
its connecting thread, a task of the probe's own process. `SearchConnMap` takes any entry from localhost to localhost with the pid of the probe, whatever its ports, as the code does. `Exit` is the drop of the loader. Other processes connect, accept and close meanwhile.

**HelloParser** works on bytes. A step is what the parser does between two bounds checks, or one iteration of a loop; `reach` is how far it has read, so that a
check too few shows. A capture may end anywhere from six bytes on. What the peer meant, and where its parts start in the payload, travels with a packet (`sent`, `Meaning`) and is what the properties compare with; the
parser does not see it. `CarriesHello` says that the payload is an encoding of it. The extractors are operators over the bytes of one extension.

**Events** continues with `analyze_capture_with_payload`: an event with its JA4 for what parses, a bare one for what does not, one of its own for an alert, the leaf
certificate of a Certificate, and the walk over the records behind a ServerHello of TLS 1.2. A hash stands for what is hashed; the x509 library is a set of byte strings it accepts.

**Containers.** A cgroup is its path and stands for its inode. Cgroups are made and removed without end; one that is made again has a new inode, which is why it waits until no cache and no walk remembers the old one (`Forgotten`). A process may be seen when its cgroup is gone. `ResolveInode` answers from the two caches or starts a walk; `ReadDir` reads one directory, while
`CgroupCreated` and `CgroupRemoved` change the tree; a directory that is gone fails the walk. The ages of the misses follow the wall clock, which `SetBack` may set back (a miss of the future counts as expired, as `elapsed()` then
is an error). The path parsers work on segments by their form.

**Pipeline.** One variable per task and channel. A message is its number. The drain task parks on
the ring, wakes, and empties it without yielding; the worker sends zero to `MaxCopies` lines per capture and blocks on a full
line channel; the loader task may fail, stop after the grace period or be aborted; `run()`
joins in the code's order. **LossyStream** is the abstraction: a sequence in transit from which
elements may disappear and whose front is delivered.

**SpoolWriter.** Lines are numbered and of one byte each; the directory maps names to inodes and
inodes to contents, because a rename over an existing name and a write through a file handle whose name was
renamed both matter. Names have the second of a wall clock that moves on and may be set back (`SetBack`). A single output file is a spool that never rotates. Failing system calls, crash and restart are actions with a budget.

## 3. What the runs show

| Run | Question | Result |
|---|---|---|
| `fragment_walk` | Does the loop over the fragments compute the contiguous run, and the byte count that is compared with the record's length? | holds |
| `reassembler` | Is what is emitted a stretch of the stream, is what is complete emitted, is nothing lost silently, under every order of ten captures of three flows with timeouts? | holds |
| `correlator` | Right hello, once, bounded, nothing lost silently, for three connections and two entries, with a clock that is set back? | holds |
| `classifier` | Two CPUs on one flow with a full ring: is a loss ever uncounted, is a record tracked once all its bytes are captured, and does the segment budget add up? | holds; the last two as long as the two CPUs have not overlapped on the flow since its last head (a stale state that is written back brings a finished record back, or gives a segment away) |
| `capture_path` | From the wire to the record, with a segment early, repeated or lost, an eviction and timeouts: was every reported record on the wire, is an undisturbed one reported whole, does each entry leave the reassembler in the end? | holds; the last two under fairness |
| `worker` | Is `mtls` or `mtls_requested` ever made up, on the server's host and on the client's, does a negotiation ride the right event, is a mutual flight reported, is a failure final? | holds; of `mtls` for connections whose server runs on this host |
| `startup` | Does the start end, with any call failing and other processes connecting throughout? Is a connection ever attributed to another process than the one that was seen to take it? Is a listed interface watched both ways? What does a self-test that passes show, whichever fields of `sock_common` are misplaced? | holds, with room in the stash and the family read right; the self-test shows the IPv4 addresses and connect probes; the end under fairness |
| `events` | Is a byte beyond the payload ever read? Is what a cut hello says what the peer sent? Is the fingerprint independent of GREASE and order? Does a flight, cut anywhere, give the events that are due? | holds |
| `certificate_direct` | Does a Certificate that was captured whole have its leaf certificate on the event? | no: the worker skips four bytes of a payload that starts with the five of the record header |
| `containers` | Does a live cgroup ever get lost, is a container that stays named in the end, with endless churn, walks that fail and a clock that is set back? | holds; the latter under fairness, unless from some time on every walk fails |
| `pipeline` | Accounting, bounded queues, order, refinement of `LossyStream`, orderly and complete shutdown | holds; completion under fairness |
| `spool` | Accounting, order, cap, finality of chunks, with failing calls, crashes, restarts and a clock that is set back | holds, with one chunk per second; the order across files until the clock is set back |

The run answered "no" checks a sentence of the documentation; `PROJECT.json`, under
`findings`, quotes it.

### Other sentences the code does not keep

Each module ends with the definitions of what a comment or a doc says and the code does not do. They are
not part of the runs above; TLC refutes each within seconds when it is checked in place of the properties of
the named configuration, with the constants changed as given. All paths are under `src/`.

| Definition | Configuration | What the code does |
|---|---|---|
| `FlowLimit` | `MCReassembler.cfg` | `reasm.rs:3` says "1024 flows max"; orphan continuations (line 136) do not make room and grow the table past it |
| `EvictsOldest` | `MCReassembler.cfg` | `reasm.rs:252` says "least-recently-created"; the smallest key of the `BTreeMap` goes |
| `TruncatedIsIncomplete` | `MCReassembler.cfg` | `reasm.rs:276` says "false if fully contiguous"; the cap is tested before completion, so a record that its fourth segment completes is marked truncated |
| `HeadStartsFresh` | `MCReassembler.cfg` | `reasm.rs:99` says "orphan entry (no head), merge into it; else create new"; a head merges into any entry |
| `SegmentCap` | `MCReassembler.cfg`, `Captures <- SuccessiveHeads` | heads are buffered past the cap of four |
| `CompletesAcrossWrap` | `MCReassembler.cfg`, `Captures <- WrapCaptures` | the map is walked in numeric order, so a record across the wrap of the sequence numbers is never completed |
| `SweepsOnlyExpired` | `MCCorrelator.cfg` | `correlate.rs:284` says "older than TTL"; after the clock was set back, `now_ns - ts` wraps and fresh hellos are swept |
| `SegmentsPerRecord` | `MCClassifier.cfg` | `main.rs:27` (eBPF) says "MAX_REASM_SEGMENTS segments per flow"; a record is emitted in one more |
| `CompleteIsDeleted` | `MCClassifier.cfg` | `tls.rs:339` (eBPF) says "if we've received all segments ... delete the entry"; a CPU that read the state before writes it back after the other one deleted it, and a finished record is tracked again |
| `TimeoutEmits` | `MCCapturePath.cfg`, `Traffic = FALSE` | the 3-second timeout is looked at on every 500th capture only |
| `SegmentedRecordsComplete` | `MCCapturePath.cfg`, `Wire <- ShortTail`, `Packets <- ShortTailPackets`, one CPU, no fault, no time, `RingSize = 4` | a last segment of fewer than six bytes is not captured |
| `MtlsMeansClient` | `MCWorker.cfg` | `capture.rs:504` says "client-sent Certificate implies mTLS"; on the client's host the incoming Certificate is the server's, and one that is captured before the ServerHello is taken for the client's |
| `UnmatchedAlertsDropped` | `MCWorker.cfg` | the README says "dropped, not emitted"; the alert is counted as dropped and emitted |
| `SweptInTime` | `MCWorker.cfg` | `capture.rs:520` says "jump to sweep logic"; the `continue` skips the sweep counter |
| `MutualReported` | `MCWorker.cfg`, `Scripts <- ApartScripts` | `README.md:18` says "`mtls_requested` (server asked for a client cert), `mtls` (client presented one)"; a CertificateRequest in a packet of its own comes after the ServerHello join has removed the entry |
| `MutualReported` | `MCWorker.cfg`, `Scripts <- FlightScripts`, `Host <- OnClient` | on the client's host its Certificate is outgoing and `mtls` is never reported |
| `CrashLosesAtMostOneLine` | `SpoolWriter.cfg` | `README.md:79` says "never loses more than the in-flight line"; a kill loses what is in the `BufWriter` |
| `LinesAccounted` | `SpoolWriter.cfg`, `FreshSeconds = FALSE` | two chunks of one second have one name, and the rename overwrites the first |
| `EvictedAreOldest` | `SpoolWriter.cfg` | `pipeline.rs:101` says "evicts oldest complete chunks"; after the clock was set back a new chunk has an older name and goes before chunks with older lines |
| `SpoolWithinCap` | `SpoolWriter.cfg` | `finalize` completes a chunk without enforcing the cap |
| `ChunkBounded` | `SpoolWriter.cfg` | after a rotation that failed behind the rename no later rotation succeeds, and the chunk grows |
| `PreAcceptIsNull` | `MCStartup.cfg` | `docs/limitations.md:44` says "`pid: null` on those events"; a packet before `accept()` on a 4-tuple that was used before carries the earlier process |
| `SelfTestCoversOffsets` | `MCStartup.cfg` | `self_test.rs:1` says it "validates sock_common offset correctness" and `README.md:21` that it "warns loudly if attribution is broken"; it compares IPv4 addresses and the pid (`self_test.rs:73`), so that it passes with the ports, the IPv6 addresses or the family misplaced, and on the loopback with the two addresses swapped |
| `DisabledIsNull` | `MCStartup.cfg` | `loader.rs:285` says "events won't have PID/process names"; the probes attached before the one that failed stay, and go on recording |
| `SkippedIsDetached` | `MCStartup.cfg` | `loader.rs:245` says "Skipping"; the ingress classifier of an interface whose egress failed stays attached |
| `Ja4OnEveryHello` | `MCEvents.cfg` | `README.md:20` says "`ja4` on every ClientHello"; a ClientHello cut within its fixed part (before the extensions) gives a bare event |
| `PodsHaveUid` | `MCContainers.cfg` | `containers.rs:160` gives the format `kubepods-*-pod<uid>.slice`; only `kubepods-pod<uid>.slice` matches, so a pod of the burstable or best-effort class has no `pod_uid`; containerd, docker and podman paths never have one |
| `NamedDespiteChurn` | `MCContainers.cfg` | `README.md:22` says "the container/pod behind any event"; a directory that vanished fails the walk (`containers.rs:63`) and the miss is cached, so that, while others come and go for ever, a container that stays may never be named |
| `InsideIsNamed` | `MCContainers.cfg`, `SomeAsked` with `Inner` | `README.md:22` says "the container/pod behind any event"; a process in a cgroup below its container's scope (systemd in a container) is not named |

Further observations, without a definition of their own: `effective_version` is the first of the client's supported versions, so that a client that puts a GREASE value
first is reported with version "Unknown" (`lib.rs:52`); a Certificate or CertificateRequest is parsed as if it were a ServerHello, and its event
may have a version and a cipher suite made of other bytes (`tls.rs:128`); a capture that was cut at the size of the buffer is not marked truncated;
the self-test passes with the accept kretprobe missing, and its join is not bounded by its deadline; an id that is not in the cgroup tree (the root's, another hierarchy's) costs a
walk of the whole tree in the worker every five seconds.

## 4. Bounds

* `FragmentWalk`: `SeqMod = 7`, up to four fragments of up to three bytes. Four is the segment cap, and a space of
  seven makes every combination of touching, overlapping, leaving a gap and wrapping occur.
* `Reassembler`: three flows and `MaxFlows = 2`, so that the limit is hit; ten captures with a record of three segments, an
  overlapping retransmission, a segment beyond the record, a second head, and a head without a rest; `Timeout = 2` separates fresh,
  ageing and expired. Records overlap each other nowhere else, so further captures repeat these cases; the theorems of section 6 have no such bound.
* `Correlator`: three connections, two entries, three hellos, a clock of 0..3 with a TTL of 2 and one step back. Connections
  are interchangeable (symmetry; the liveness-free properties allow it).
* `Classifier`: one flow on two CPUs, five captured packets, a ring of two. `MAX_REASM_SEGMENTS` is the code's 4, so that five packets
  are a head and all the continuations its budget allows; the scratch buffer is scaled to 12 bytes so that a payload can exceed it. Flows
  do not share entries of `REASM_MAP`, so a race needs only one. The CPUs are interchangeable (symmetry).
* `CapturePath`: two records of two segments in a row on one flow, two CPUs, one fault of any kind, a sweep after every second capture, both segment
  caps scaled to three. One record may meet the state that the one before left in either table, and three segments hit the caps. No symmetry: the run checks liveness.
* `Worker`: five pairs of handshakes (two to five captures each), one connection whose server runs on this host and one whose client does, two entries, one fault, a sweep after every third capture, and a clock that
  passes the timeout of the reassembler and the TTL. A hello that is repeated finds the table full and evicts.
* `Startup`: two other processes with a task each, an IPv4 and an IPv6 connection beside the self-test's two ends, two openings by others, `CONN_MAP` of one entry, so that every
  insertion evicts, and a stash with room for all tasks. Four layouts of `sock_common`: all in place, the IPv4 addresses misplaced, ports and sides, IPv6 and family; each of the five fields is right and wrong at least once. Four hosts, so that each mode of `--interface` finds interfaces or none; the lists have one and two interfaces, so
  that a skipped one is followed by another, and the first is not the last. A server enters `accept()` early only while the probes are being attached: before that it makes no difference when.
* `Events`: hellos with every one and every two extensions of twelve, and with all of them in both orders; two session ids and two lists of ciphers, with GREASE; five flights with up to six records; all of them
  cut after every byte from the sixth on; a ClientHello and a ServerHello with a flight with every byte replaced by 0 and by 255, which makes every length too short or too long. The random is one byte (nothing reads it).
* `Containers`: a pod with a container and a container with a cgroup inside, an id of another hierarchy, a TTL of two seconds, one setting back by up to two. Each of the four cgroups may be made and removed any number of times.
* `Pipeline`: four events, ring of two, channels of one: every queue can be full and every drop can happen.
* `SpoolWriter`: chunks of four lines, a cap of five, so that a rotation leaves an excess, a `BufWriter` of two lines and a flush at three (in the code, too,
  the buffer is smaller than the threshold, and that smaller than a chunk); nine lines, which fill two chunks and begin a third, four seconds, one setting back, two failing calls and two process ends.

In `Containers`, time always passes, and deadlock is checked. `CHECK_DEADLOCK FALSE` is set where the system may stop: the finite script was sent, or the program has exited.

## 5. Fairness

* `CapturePath` (`FairPathSpec`): a packet in the kernel is processed to its end, the wire goes on, the worker takes
  what is in the ring, time passes, and, where `Traffic` is set, other captures keep coming. The worker's loop has no wait but for the channel.
  Without traffic the timeout is never looked at (`TimeoutEmits`, section 3), so that `Traffic` is an assumption about the environment and is named.
* `Pipeline` (`FairSpec`): weak fairness of the drain task, the loader task, the worker, the writer thread and `run()` once
  `running` is cleared: tokio polls a woken task, and a thread is scheduled. The signal, the failure of the loader and the arrival of events are not fair.
* `Startup` (`Spec`): the main thread and the connecting thread are scheduled and the kernel answers each of their calls, in the one way or the other. An error of `accept` (`AcceptErrors`) is not
  owed, and nothing is of the other processes or of the loopback: that the SYN arrives is not assumed, which is what the deadline is for.
* `Containers` (`Spec`): a walk that has begun goes on, and time passes. That the cgroup is asked for again and again, and that not all walks fail from some time on (`WalksReturn`), are premises of
  `EventuallyNamed`: nothing in the code sees to either, and without the second the property is false (`NamedDespiteChurn`, section 3).

## 6. What is proved

The theorems hold for every value of the constants that the named assumptions allow
(`SeqModAssumption`, `WalkAssumption`, `ReassemblerAssumption`, `PathAssumption`, `CorrelatorAssumption`, `WorkerAssumption`, `ClassifierAssumption`, `PipelineAssumption`, `SpoolAssumption`,
`AttributionAssumption`, `StartupAssumption`, `ContainersAssumption`, `ParserAssumption`, `FlightAssumption`: limits are natural numbers, there are finitely many CPUs, captures
are well formed, payloads are bytes, `None` is none of the values; where a packet says what its sender meant, its payload is an encoding of that: the fixed part, then an extension block, possibly
empty, with the extensions one behind the other, then the records of the flight; and no certificate is the beginning of another, since DER says how long it is). TLC evaluates the assumptions in the runs. Six theorems
have a hypothesis of their own beyond that, given below; each holds on the instance of the corresponding run, too.

**ReassemblerProofs**, the run. `RunIsLeastClosed`: the run holds the head, is closed, and is contained in every closed set with the head. From
it: `RunStartsAtHead`, `RunHasNoGap` and `RunHasNoOverlap`. The last one needs an idea: call a fragment
*normal* when those appended before it end at or before its start; the set of normal fragments of the
run is closed, so it is the run. Minimality takes the place of induction over the walk.

**ReassemblerProofs**, the table. `Inv` says of each entry that it is well formed, that its head, if any, is among its
fragments with the length expected of it, that it is incomplete, and that without a head it is below the cap;
and of each returned record that it is well formed, tiled and, unless truncated, whole. The checked properties are not inductive
alone: that a returned record is tiled rests on the head being a fragment of its own entry, and that nothing complete waits rests on
`expected_total` being that of the head. `CheckCompletionOK`, `FinalizeEntriesOK`, `CleanupOK`, `HeadEntryFormed` and `ContinuationEntryFormed` carry
the invariant through the parts of `insert`; `NextInv` has a case per action. Theorems: `TypeCorrect`, `EmittedContiguous`,
`UntruncatedWhole`, `NoCompletePending`, `OrphansCapped`, `HeadsConsistent`, and the action property `LosesNothingSilently`. (`OrphanBelowCap`
and `HeadConsistent` are proved and not part of a run.)

**WorkerProofs**, the correlator. `Inv` says that the hellos are numbered from 1 on, that each pending entry is the latest hello of its
connection and holds, after a join, a negotiation of that same hello, that the table is finite and bounded, and that the negotiation just
returned is of the latest hello and, if it ends the handshake, that no entry of its hello is left. The last part is what
uniqueness of hello numbers is for (`TerminalJoinOK`); the bound needs the cardinality of the table after an eviction that may hit the very key being
replaced (`AddHelloOK`). Theorems: `TypeCorrect`, `TableBounded`, `JoinsLatest`, `PendingLatest`,
`HelloConsumedOnce`, `CertificateIsMutual` (the last one is proved only), and the action property `LosesNothingSilently`: `Inv` says which entry a
step can be about, `NextExcused` gives the excuse of each that goes.

**WorkerProofs**, the loop. `ImplementsCorrelator`: a behaviour of the worker loop is a behaviour of `Correlator` (each call is one of its
actions, the rest stutters), so that the theorems about the table hold of the program that uses it. `WorkerInv` adds to
`Inv` where a claim comes from: every entry, negotiation and event that says `mtls` is of a connection of which an incoming Certificate was captured, every
`mtls_requested` of one with a CertificateRequest, and every call still to be made for the record in hand is backed in the same way, which is
what makes it inductive. From it `WorkerTypeCorrect`, `FitsItsEvent` and `MtlsIsBacked`. The latter says of `mtls` that, where the
server runs on this host, the incoming Certificate is the client's: elsewhere it is the server's own, and nothing can be said. `FailureStaysFinal` needs `FinalInv`: a hello whose failure
was reported, or is about to be, is no longer in the table, and hellos are numbered, so that it does not come back.

**WorkerProofs**, the flight. `ReportsFlights`: a connection whose script is a TLS 1.2 handshake with a CertificateRequest in the server's flight and a Certificate of the client is reported with
`mtls_requested` and `mtls`, whatever the other connections do in between, unless something was lost or time ran out. `FlightInv` follows such a handshake from capture to capture: before the hello; one segment of it in the
reassembler; the hello in the table; the flight in hand, its requests noted before the ServerHello is joined; the negotiation kept with the entry; the Certificate of the client in hand; reported. Two hypotheses: `FlightsComplete` says that the captures of such a connection are a TLS 1.2 handshake in its order, and
`HasRoom` that, while nothing is lost, a ClientHello finds room in the table. Without room the entry of the handshake may be evicted, which the correlator does to stay within its limit and `FlightReported` does not excuse. Both hold on
the instance of the run (TLC), where only a hello that is repeated finds the table full.

**CapturePathProofs**, the classifier. For any number of CPUs, flows and packets. `TypeCorrect` (no counter of `REASM_MAP` underflows) holds although a
state may be stale when it is written back: each write is judged by the state it was computed from. `AccountsForEvents` counts the CPUs that are at work; it is
inductive with `TypeOK`, and its proof is about cardinalities. `BudgetAddsUp` and `FinishedNotTracked` need that on a flow that has not raced since its last head at most one CPU is at work, and that the state
it has read still agrees with the segments emitted and the bytes owed. A head starts both anew only when no other CPU is on its flow.

**CapturePathProofs**, the path. `RecordsReal` is about the composition: a record the worker gets starts where a segmented record of its flow starts on the wire, and one not
marked truncated is that record with all its bytes. `PathInv` follows a head from the wire to the record: what the CPUs, the ring and the flow table hold as a
head is the capture of a segment that starts a record (`HeadsReal`, `RecordReal`). The table's own invariant is that of `ReassemblerProofs`, taken over by an instance of
that module whose variables are the path's (`RP`); its lemmas on `insert` and the sweep are cited, not proved again. `ImplementsClassifier`: the
path's steps are steps of the classifier, so that the theorems above hold there.

**CapturePathProofs**, the loop. `LoopComputesRun`: the code's loop over the `BTreeMap` appends exactly `ContiguousRun`, for any number of fragments and any sequence
space larger than a fragment. The invariant says which fragment was
appended last, that those before it lead to it, that the count of bytes is the distance from the head to its end, and that whatever the iterator has passed since is too low to follow it.
At the end the appended fragments are closed, so the run, the least closed set, is among them.

**PipelineProofs.** For any capacities, events and lines per event. `ShutdownInv` says that each stage ends only after the one before it, with nothing left of what
that one sent; without the empty queues the order is not inductive. From it `ReceiversOutlive` and `ExitsEmpty`. `AccountsForEvents` is inductive with
`TypeOK`. `ImplementsLossyStream` is the refinement: the queues, put one behind the other, are the abstract sequence in transit. A move from queue to queue is
a stutter (`Regroup`), a loss or the lines of one event a rewriting of one element (`RewriteStep`).

**SpoolWriterProofs.** `KeepsOrder` holds for failing calls, crashes, restarts, and even when chunks share a second: within a file always, across files until the clock is set back. `OrderInv` says why: until then no name
is of a later second than the current chunk, all names of an inode are of one second, those of the open file of the current one, and the
buffered lines are newer than all on disk. So an append can disturb nothing but the newest file (`GrownNames`), a rename or removal changes no
order (`SameFilesNames`), and a creation empties or adds the newest (`CreatesOK`). `TypeCorrect` adds `CountInv`. `AccountsForLines`
and `CompleteStaysFinal` have the hypothesis `FreshSeconds`, without which both are false (section 3), and
need `AccountInv`: until a call fails, no file has two names, the open one has its part name, and the complete name it will get is free, so that neither a rename nor a
creation hits an existing file. `CapHoldsAfterRotation` and `OldestEvictedFirst` are about sums of chunk sizes. That a sum does not depend on the order of its terms, adds up
over the parts of a set and grows with its terms is proved by induction over the subsets of a finite set (`SubsetInduction`, itself from the well-foundedness of
`<`: a smallest counterexample). Then a chunk older than an evicted one is evicted (`OldestGo`), and what stays is no more than all that is not older than the oldest chunk that stays, which
is within the cap by the very test that kept it (`RestWithinCap`).

**StartupProofs.** `WatchesBothWays`: whatever attachment fails, an interface is counted as attached only with both of its
classifiers, and the probe goes on only with at least one. `AttachInv` adds what `AttachedBothWays` lacks to be inductive: while the
egress classifier of an interface is being attached, its ingress one is in place. `SelfTestIsSound` needs `SoundInv`: which probes are attached (a prefix of the
list), when the connecting thread lives, that a task in `connect()` has a socket of its own, that the stash of a call holds what its own kprobe left, and that an entry of `CONN_MAP` was
read from some connection by a kretprobe that was attached: it has the 4-tuple of that connection only where the fields are in place, and 127.0.0.1 twice only where the IPv4 addresses are (`ReadFrom`). `AttributesToOwner` adds `OwnerInv`: the kretprobe of a call that was seen finds its stash. Its
hypothesis is that `CONNECT_STASH` has room for every task; when it evicts, a kretprobe finds nothing and a stale owner of the 4-tuple stays. The same happens where the address family is misplaced and an accept records
nothing, which is why `AttributedToOwner` excepts that layout.

**ContainersProofs.** `KnownStaysKnown`: a refresh of the cache forgets no cgroup that exists all along, while others are made and removed, any number of times, under the walk. `Inv` says that the tree is closed
under parents and that each cgroup that is known and live is found already, or an ancestor of it (or itself) is still on the stack of the walk. Reading a directory replaces an
ancestor by its child on the way to the cgroup, which is there since the tree is closed. `TypeCorrect` is proved, too.

**EventsProofs.** `ReadsInBounds`: no step of the parser or of the record walk reads a byte that the payload does not have, for every payload, cut anywhere, and every
length of the random. `BoundsInv` adds that the positions are natural numbers and the payload is a sequence of bytes, on which every bounds check depends: a
position plus a length read from the payload does not run backwards. The reads inside the extractors and the certificate parser are not in `reach`; TLC evaluates
them as sequence accesses, which fail out of range.

**EventsProofs**, the walk. `WalksFlights`: of a ServerHello with its flight in one payload, cut after any byte, there is one event for each Certificate and CertificateRequest that is due, in order, with the leaf certificate when it is
complete. `FlightInv` says that at each step of the walk the position is the start of a record of the flight and that what was kept is what is due of the records before it (`WalkReached`), and that, when the walk is over,
all that is due was kept (`WalkOver`). It ends where nothing later is due (`NoneLater`): the payload ends, the four records are counted, or a record of another type comes. That a certificate in the payload is the one that was sent is where the prefix-freeness
of certificates is needed (`LeafFound`). Nothing is assumed of the number of records or of what is in them but that they lie one behind the other, with a certificate where a Certificate says there is one.

**EventsProofs**, the hello. `HonestHellos`: what is reported of a hello, cut after any byte, is either nothing, or the fixed part as sent together with what the extensions that are all there mean. `HelloInv` gives
for each step of the parser its position and the fields parsed so far (`HelloReached`): the length bytes it reads are those of the sender, so that it walks along the sender's boundaries, and the first extension that is cut ends the
loop. The hypothesis `ExtractorsRight` is that each extractor, given all the bytes of one extension, returns its `Meaning`; extractors recurse over data and their results are out of the prover's reach. TLC evaluates
it to TRUE on the packets of the run. `FingerprintsTheHello`: under the same hypothesis the JA4 of a ClientHello that was captured whole is the one of the fields that were sent (`Ja4OfSent`, not part of a run).

## 7. What is only model-checked

* Liveness (`ShortRecordsComplete`, `NothingWaitsForever`, `ShutdownCompletes`, `StartupDecides`, `EventuallyNamed`), which needs fairness and `ENABLED`.
* `Ja4Stable`. That the JA4 of a ClientHello is made of what was sent is proved (`FingerprintsTheHello`); that it is the same for the hello without its GREASE and in another order is about
  sorting and filtering sequences, which takes induction over data.
* What an extractor returns for a whole extension (`ExtractorsRight`, the hypothesis of two theorems), for the same reason.
* That `FlightsComplete` and `HasRoom`, the hypotheses of `ReportsFlights`, hold on the instance of the `worker` run.

The type invariants of the modules are not part of the runs; those of `Reassembler`, `Correlator`, `Worker`, `Classifier`, `Pipeline`, `SpoolWriter` and `Containers` are proved.

## 8. Plan

Done, in this order: FragmentRun and FragmentWalk, Reassembler, Correlator, Classifier, CapturePath, SpoolWriter, Pipeline with
LossyStream, Worker, Attribution, Startup, HelloParser, Events, Containers; the proofs of section 6.

What is left is section 7: every invariant of a passing run but `Ja4Stable`, and every action property, is stated by a theorem. An induction over the lists that the extractors and JA4 work on would discharge `ExtractorsRight` and
`Ja4Stable`; the provers at hand cannot use an induction rule that has an operator as its parameter.

## 9. What is not modelled

The fields of an X.509 certificate (names, times, key sizes) are what a library answers, turned into strings. The names of code points (`codes.rs` and the tables of
`tls.rs`), addresses, times and the layout of the JSON are formatting. The `listeners` command reads procfs once and prints a table. Logging, argument parsing and build tasks
hold no protocol state. The values of struct offsets and byte orders of the kprobes are data; which of them fit the kernel is `misplaced`. An endless flood that
keeps the drain loop from yielding is not modelled: events are finite in `Pipeline`.
Neither is the drain task's branch for a closed channel (the worker outlives it, `ShutdownOrder`) nor the ring entry that is too short to be an event, which `loader.rs:470` skips uncounted: the classifier writes no such entry.
The classifier's write to `REASM_MAP` and its ring output are one step, and the worker's reassembler is reduced to records of two segments; `CapturePath` has the whole one.
