---------------------------- MODULE SpoolWriter ----------------------------
(***************************************************************************)
(* The writer thread with the rotating spool                               *)
(* (crates/tls-probe-cli/src/pipeline.rs: BufferedLineWriter,              *)
(* RotatingSpoolWriter, run_writer_thread).                                *)
(*                                                                         *)
(* The spool directory maps file names to inodes: a chunk is named after   *)
(* the second it was opened in, once with the suffix .jsonl.part and,      *)
(* after the rename, with .jsonl.  A rename over an existing name unlinks  *)
(* the file that had it, and creating an existing name truncates it: both  *)
(* lose what the file held.  Lines are numbered in the order the thread    *)
(* receives them and count one byte each.                                  *)
(***************************************************************************)
EXTENDS Naturals, FiniteSets, FiniteSetsExt, Functions, Sequences

CONSTANTS
  MaxChunk,     (* max_chunk_bytes, in lines                               *)
  MaxTotal,     (* max_total_bytes, in lines                               *)
  BufCap,       (* capacity of the BufWriter, in lines                     *)
  FlushThreshold, (* FLUSH_THRESHOLD, in lines                             *)
  FreshSeconds, (* environment: no chunk is opened in a second that a      *)
                (* chunk of the spool is already named after               *)
  MaxLines,     (* bound: lines received                                   *)
  MaxSecs,      (* bound: seconds on the wall clock                        *)
  MaxSetBacks,  (* bound: times the wall clock is set back                 *)
  MaxFaults,    (* bound: failing system calls                             *)
  MaxCrashes    (* bound: times the process is killed or stopped           *)

ASSUME SpoolAssumption ==
  /\ MaxChunk \in Nat \ {0}
  /\ MaxTotal \in Nat
  /\ BufCap \in Nat \ {0} /\ FlushThreshold \in Nat \ {0}
  /\ FreshSeconds \in BOOLEAN
  /\ MaxLines \in Nat /\ MaxSecs \in Nat /\ MaxSetBacks \in Nat
  /\ MaxFaults \in Nat /\ MaxCrashes \in Nat

VARIABLES
  names,         (* the directory: <<suffix, second>> -> inode              *)
  data,          (* the inodes: a sequence of sequences of lines            *)
  fd,            (* the inode the current File is open on                   *)
  cur,           (* the second in current_part_path                         *)
  current_bytes, (* RotatingSpoolWriter::current_bytes                      *)
  buf,           (* lines in the BufWriter                                  *)
  pending_bytes, (* written since the last flush, in lines                  *)
  phase,         (* the process                                             *)
  now,           (* current_timestamp_secs(): SystemTime, may be set back   *)
  setbacks,      (* ghost: times it was set back                            *)
  written,       (* lines received; also events_emitted                     *)
  chunks_evicted,(* the counter                                             *)
  evicted,       (* ghost: lines in chunks evicted by the cap               *)
  killed,        (* ghost: lines in the BufWriter when the process died     *)
  faults,        (* failed system calls so far                              *)
  crashes        (* process ends so far                                     *)

vars == <<names, data, fd, cur, current_bytes, buf, pending_bytes, phase, now,
          setbacks, written, chunks_evicted, evicted, killed, faults, crashes>>

Secs == 0 .. MaxSecs
Names == {"part", "complete"} \X Secs
Lines == 1 .. MaxLines

(* The directory refers to inodes that exist, and the open file is one.    *)
TypeOK ==
  /\ names \in [DOMAIN names -> DOMAIN data] /\ DOMAIN names \subseteq Names
  /\ data \in Seq(Seq(Lines))
  /\ fd \in DOMAIN data
  /\ cur \in Secs /\ now \in Secs /\ setbacks \in 0 .. MaxSetBacks
  /\ current_bytes \in 0 .. MaxLines
  /\ buf \in Seq(Lines) /\ Len(buf) <= BufCap
  /\ pending_bytes \in Len(buf) .. MaxLines
  /\ phase \in {"running", "finalized", "crashed"}
  /\ written \in 0 .. MaxLines
  /\ chunks_evicted \in Nat
  /\ evicted \subseteq Lines /\ killed \subseteq Lines
  /\ faults \in 0 .. MaxFaults /\ crashes \in 0 .. MaxCrashes

(***************************************************************************)
(* The file system, as the code uses it                                    *)
(***************************************************************************)

With(m, k, v) == [x \in DOMAIN m \cup {k} |-> IF x = k THEN v ELSE m[x]]
Without(m, K) == Restrict(m, DOMAIN m \ K)

Part(t) == <<"part", t>>
Complete(t) == <<"complete", t>>

(* rename(2) of the part file to its complete name. *)
Renamed(m, t) == With(Without(m, {Part(t)}), Complete(t), m[Part(t)])

(* File::create: an existing file is truncated, else there is a new one. *)
Creates(m, d, t) ==
  IF Part(t) \in DOMAIN m
  THEN /\ names' = m
       /\ fd' = m[Part(t)]
       /\ data' = [d EXCEPT ![m[Part(t)]] = <<>>]
  ELSE /\ names' = With(m, Part(t), Len(d) + 1)
       /\ fd' = Len(d) + 1
       /\ data' = Append(d, <<>>)

Flushed(d, lines) == [d EXCEPT ![fd] = @ \o lines]

LinesIn(s) == {s[i] : i \in DOMAIN s}

(***************************************************************************)
(* enforce_cap                                                             *)
(***************************************************************************)

CompleteChunks(m) == {n \in DOMAIN m : n[1] = "complete"}

Bytes(m, d, N) == MapThenSumSet(LAMBDA n : Len(d[m[n]]), N)

(* Mutant: the newest chunks go first. *)
Evictable_NewestFirst(m, d) ==
  LET C     == CompleteChunks(m)
      total == Bytes(m, d, C)
  IN  {n \in C : Bytes(m, d, {o \in C : o[2] > n[2]}) + MaxTotal < total}

(* Mutant: the last chunk needed to get under the cap is kept. *)
Evictable_OneShort(m, d) ==
  LET C     == CompleteChunks(m)
      total == Bytes(m, d, C)
  IN  {n \in C : Bytes(m, d, {o \in C : o[2] <= n[2]}) + MaxTotal < total}

(* The complete chunks that go, oldest first, while there is an excess     *)
(* over max_total_bytes.                                                   *)
Evictable(m, d) ==
  LET C     == CompleteChunks(m)
      total == Bytes(m, d, C)
  IN  {n \in C : Bytes(m, d, {o \in C : o[2] < n[2]}) + MaxTotal < total}

EvictsChunks(m, d, N) ==
  /\ chunks_evicted' = chunks_evicted + Cardinality(N)
  /\ evicted' = evicted \cup UNION {LinesIn(d[m[n]]) : n \in N}

(***************************************************************************)
(* Actions                                                                 *)
(***************************************************************************)

Init ==
  /\ names = [n \in {Part(0)} |-> 1]
  /\ data = <<<<>>>>
  /\ fd = 1
  /\ cur = 0
  /\ current_bytes = 0
  /\ buf = <<>>
  /\ pending_bytes = 0
  /\ phase = "running"
  /\ now = 0
  /\ setbacks = 0
  /\ written = 0
  /\ chunks_evicted = 0
  /\ evicted = {}
  /\ killed = {}
  /\ faults = 0
  /\ crashes = 0

ReceiveLine ==
  /\ phase = "running"
  /\ written < MaxLines
  /\ written' = written + 1

(* A line goes to the BufWriter, which first writes out what it holds when *)
(* the line does not fit.                                                  *)
Full == Len(buf) >= BufCap
SpilledData == IF Full THEN Flushed(data, buf) ELSE data
BufWithLine == Append(IF Full THEN <<>> ELSE buf, written + 1)
FilledData == Flushed(SpilledData, BufWithLine)

FlushesLine ==
  /\ data' = FilledData
  /\ buf' = <<>>
  /\ pending_bytes' = 0

KeepsLine ==
  /\ data' = SpilledData
  /\ buf' = BufWithLine
  /\ pending_bytes' = pending_bytes + 1

(* write_line below the chunk size, then flush_if_needed: due when enough  *)
(* is pending or, whenever that is, the flush interval has passed.         *)
WriteLine ==
  /\ ReceiveLine
  /\ current_bytes + 1 < MaxChunk
  /\ current_bytes' = current_bytes + 1
  /\ FlushesLine \/ (pending_bytes + 1 < FlushThreshold /\ KeepsLine)
  /\ UNCHANGED <<names, fd, cur, phase, now, setbacks, chunks_evicted,
                 evicted, killed, faults, crashes>>

(* A chunk that is opened now has a name that no chunk of the spool has. *)
NewName == now # cur /\ \A n \in DOMAIN names : n[2] # now

(* A line that fills the chunk: flush, rename, enforce the cap, open the   *)
(* next chunk.                                                             *)
FillsChunk ==
  /\ ReceiveLine
  /\ current_bytes + 1 >= MaxChunk
  /\ Part(cur) \in DOMAIN names
  /\ FreshSeconds => NewName

(* Mutant: the writer stays open on the file that was renamed. *)
WriteAndRotate_KeepsFile ==
  /\ FillsChunk
  /\ buf' = <<>> /\ pending_bytes' = 0
  /\ current_bytes' = 0
  /\ LET m == Renamed(names, cur)
         E == Evictable(m, FilledData)
     IN  /\ EvictsChunks(m, FilledData, E)
         /\ names' = Without(m, E)
         /\ data' = FilledData
  /\ cur' = now
  /\ UNCHANGED <<fd, phase, now, setbacks, killed, faults, crashes>>

WriteAndRotate ==
  /\ FillsChunk
  /\ buf' = <<>> /\ pending_bytes' = 0
  /\ current_bytes' = 0
  /\ LET m == Renamed(names, cur)
         E == Evictable(m, FilledData)
     IN  /\ EvictsChunks(m, FilledData, E)
         /\ Creates(Without(m, E), FilledData, now)
  /\ cur' = now
  /\ UNCHANGED <<phase, now, setbacks, killed, faults, crashes>>

Fault ==
  /\ faults < MaxFaults
  /\ faults' = faults + 1

(* The flush before the rename fails, and write_line with it: the next     *)
(* line tries again.  flush_if_needed, which follows, is not due, fails,   *)
(* too, or does flush.                                                     *)
RotateFlushFails ==
  /\ ReceiveLine
  /\ current_bytes + 1 >= MaxChunk
  /\ Fault
  /\ current_bytes' = current_bytes + 1
  /\ KeepsLine \/ FlushesLine
  /\ UNCHANGED <<names, fd, cur, phase, now, setbacks, chunks_evicted,
                 evicted, killed, crashes>>

(* The rename fails, either because the system call does or because an     *)
(* earlier rotation stopped half way and the part file is gone: the next   *)
(* line tries again.                                                       *)
RotateRenameFails ==
  /\ ReceiveLine
  /\ current_bytes + 1 >= MaxChunk
  /\ \/ Part(cur) \in DOMAIN names /\ Fault
     \/ Part(cur) \notin DOMAIN names /\ UNCHANGED faults
  /\ current_bytes' = current_bytes + 1
  /\ FlushesLine
  /\ UNCHANGED <<names, fd, cur, phase, now, setbacks, chunks_evicted,
                 evicted, killed, crashes>>

(* A removal or the creation of the next part file fails: the chunk is     *)
(* complete, some of the excess chunks are gone, and the writer stays open *)
(* on the renamed file.                                                    *)
RotateStopsAfterRename ==
  /\ FillsChunk
  /\ Fault
  /\ FlushesLine
  /\ current_bytes' = 0
  /\ LET m == Renamed(names, cur)
         X == Evictable(m, FilledData)
     IN  \E E \in SUBSET X :
           /\ \A n \in E : \A o \in X : o[2] < n[2] => o \in E
           /\ EvictsChunks(m, FilledData, E)
           /\ names' = Without(m, E)
  /\ UNCHANGED <<fd, cur, phase, now, setbacks, killed, crashes>>

(* The BufWriter cannot write out what it holds to make room: the line is  *)
(* lost, though counted as emitted.  The flush that follows may succeed.   *)
WriteFails ==
  /\ ReceiveLine
  /\ Fault
  /\ Full
  /\ \/ UNCHANGED <<data, buf, pending_bytes>>
     \/ data' = Flushed(data, buf) /\ buf' = <<>> /\ pending_bytes' = 0
  /\ UNCHANGED <<names, fd, cur, current_bytes, phase, now, setbacks,
                 chunks_evicted, evicted, killed, crashes>>

(* The flush that is due fails: the lines stay in the BufWriter. *)
FlushFails ==
  /\ ReceiveLine
  /\ Fault
  /\ current_bytes + 1 < MaxChunk
  /\ current_bytes' = current_bytes + 1
  /\ KeepsLine
  /\ UNCHANGED <<names, fd, cur, phase, now, setbacks, chunks_evicted,
                 evicted, killed, crashes>>

(* Mutant: what was flushed stays in the buffer. *)
PollFlush_KeepsBuffer ==
  /\ phase = "running"
  /\ pending_bytes > 0
  /\ data' = Flushed(data, buf)
  /\ UNCHANGED <<names, fd, cur, current_bytes, buf, pending_bytes, phase,
                 now, setbacks, written, chunks_evicted, evicted, killed,
                 faults, crashes>>

(* Nothing to receive: flush_if_needed on the poll. *)
PollFlush ==
  /\ phase = "running"
  /\ pending_bytes > 0
  /\ data' = Flushed(data, buf)
  /\ buf' = <<>> /\ pending_bytes' = 0
  /\ UNCHANGED <<names, fd, cur, current_bytes, phase, now, setbacks,
                 written, chunks_evicted, evicted, killed, faults, crashes>>

(* Mutant: the last chunk is not flushed before it is completed. *)
Finalize_Unflushed ==
  /\ phase = "running"
  /\ phase' = "finalized"
  /\ crashes < MaxCrashes
  /\ crashes' = crashes + 1
  /\ buf' = <<>> /\ pending_bytes' = 0
  /\ names' = IF Part(cur) \in DOMAIN names THEN Renamed(names, cur) ELSE names
  /\ UNCHANGED <<data, fd, cur, current_bytes, now, setbacks, written,
                 chunks_evicted, evicted, killed, faults>>

(* The channel is disconnected: the spool is finalized and the thread      *)
(* ends.                                                                   *)
Finalize ==
  /\ phase = "running"
  /\ phase' = "finalized"
  /\ crashes < MaxCrashes
  /\ crashes' = crashes + 1
  /\ data' = Flushed(data, buf)
  /\ buf' = <<>> /\ pending_bytes' = 0
  /\ names' = IF Part(cur) \in DOMAIN names THEN Renamed(names, cur) ELSE names
  /\ UNCHANGED <<fd, cur, current_bytes, now, setbacks, written,
                 chunks_evicted, evicted, killed, faults>>

(* The flush or the rename fails: the last chunk stays a part file.  When  *)
(* it was the flush, dropping the BufWriter tries once more.               *)
FinalizeFails ==
  /\ phase = "running"
  /\ phase' = "finalized"
  /\ crashes < MaxCrashes
  /\ crashes' = crashes + 1
  /\ Fault
  /\ data' \in {data, Flushed(data, buf)}
  /\ buf' = <<>> /\ pending_bytes' = 0
  /\ UNCHANGED <<names, fd, cur, current_bytes, now, setbacks, written,
                 chunks_evicted, evicted, killed>>

(* The process is killed: what the BufWriter holds is gone. *)
Crash ==
  /\ phase = "running"
  /\ crashes < MaxCrashes
  /\ crashes' = crashes + 1
  /\ phase' = "crashed"
  /\ killed' = killed \cup LinesIn(buf)
  /\ buf' = <<>> /\ pending_bytes' = 0
  /\ UNCHANGED <<names, data, fd, cur, current_bytes, now, setbacks, written,
                 chunks_evicted, evicted, faults>>

(* RotatingSpoolWriter::new in the same directory. *)
Restart ==
  /\ phase # "running"
  /\ FreshSeconds => NewName
  /\ phase' = "running"
  /\ Creates(names, data, now)
  /\ cur' = now
  /\ current_bytes' = 0
  /\ UNCHANGED <<buf, pending_bytes, now, setbacks, written, chunks_evicted,
                 evicted, killed, faults, crashes>>

Tick ==
  /\ now < MaxSecs
  /\ now' = now + 1
  /\ UNCHANGED <<names, data, fd, cur, current_bytes, buf, pending_bytes,
                 phase, setbacks, written, chunks_evicted, evicted, killed,
                 faults, crashes>>

(* The wall clock is set back: a chunk may get an older name than those    *)
(* that were opened before it.                                             *)
SetBack ==
  /\ setbacks < MaxSetBacks
  /\ setbacks' = setbacks + 1
  /\ \E t \in Secs : t < now /\ now' = t
  /\ UNCHANGED <<names, data, fd, cur, current_bytes, buf, pending_bytes,
                 phase, written, chunks_evicted, evicted, killed, faults,
                 crashes>>

Next ==
  \/ WriteLine
  \/ WriteAndRotate
  \/ RotateRenameFails
  \/ RotateStopsAfterRename
  \/ RotateFlushFails
  \/ WriteFails
  \/ FlushFails
  \/ PollFlush
  \/ Finalize
  \/ FinalizeFails
  \/ Crash
  \/ Restart
  \/ Tick
  \/ SetBack

Spec == Init /\ [][Next]_vars

(***************************************************************************)
(* Properties                                                              *)
(***************************************************************************)

OnDisk == UNION {LinesIn(data[names[n]]) : n \in DOMAIN names}

Received == 1 .. written

(* As long as no system call fails, every line the thread counted as       *)
(* emitted is in a file of the spool, in the BufWriter, in a chunk that    *)
(* the cap evicted, or was in the BufWriter when the process was killed.   *)
LinesAccounted ==
  faults = 0 => Received \subseteq OnDisk \cup LinesIn(buf) \cup evicted \cup killed

(* The lines a reader finds in a file are in the order of arrival, without *)
(* repetition, also after crashes and half-done rotations.  Across files,  *)
(* those of an earlier second come before those of a later one, as long as *)
(* the wall clock was not set back.                                        *)
ChunksInOrder ==
  \A n, o \in DOMAIN names :
    LET f == data[names[n]]
        g == data[names[o]]
    IN  /\ \A i, j \in DOMAIN f : i < j => f[i] < f[j]
        /\ (setbacks = 0 /\ n[2] < o[2]) =>
             \A i \in DOMAIN f, j \in DOMAIN g : f[i] < g[j]

(* A rotation that runs to its end leaves no more complete chunks than the *)
(* cap allows, whatever earlier processes left in the directory.           *)
CapAfterRotation ==
  [][WriteAndRotate =>
       Bytes(names', data', CompleteChunks(names')) <= MaxTotal]_vars

(* A chunk goes only while every complete chunk that is older by its name  *)
(* goes, too.                                                              *)
EvictsOldestFirst ==
  [][\A n \in CompleteChunks(names) \ DOMAIN names' :
       \A o \in CompleteChunks(names) \cap DOMAIN names' : n[2] < o[2]]_vars

(* A complete chunk no longer changes: a reader that picks up .jsonl files *)
(* sees each once and whole (as long as no system call fails).             *)
CompleteIsFinal ==
  [][faults' = 0 =>
       \A n \in CompleteChunks(names) \cap DOMAIN names' :
         data'[names'[n]] = data[names[n]]]_vars

(***************************************************************************)
(* What the documentation says and the code does not keep.                 *)
(***************************************************************************)

(* README: "a crash or kill never loses more than the in-flight line".     *)
CrashLosesAtMostOneLine == crashes <= 1 => Cardinality(killed) <= 1

(* README: "Cap total spool size": of what readers find complete.          *)
SpoolWithinCap ==
  Bytes(names, data, CompleteChunks(names)) <= MaxTotal

(* "evicts oldest complete chunks": what was evicted is older than what    *)
(* the complete chunks hold.  After the wall clock was set back, a new     *)
(* chunk has an older name than those before it, and goes first.           *)
EvictedAreOldest ==
  \A x \in evicted : \A n \in CompleteChunks(names) :
    \A y \in LinesIn(data[names[n]]) : x < y

(* "rotates chunks at a byte threshold": a rotation that fails is made up  *)
(* for at the next line, so each failure costs at most one line over.      *)
ChunkBounded == current_bytes < MaxChunk + faults

=============================================================================
