-------------------------------- MODULE FileWal --------------------------------
(***************************************************************************)
(* The segmented write-ahead log (storage/wal/file_wal.rs).                *)
(*                                                                         *)
(* append() is not one critical section.  It draws its LSN with fetch_add  *)
(* BEFORE it takes the active segment's write lock, writes under the lock, *)
(* re-locks to ask should_rotate(), and rotate_internal() reads the tail   *)
(* LSN and the segment id, then creates the next file, all before it takes *)
(* the lock again to swap.  Each of these sections is one action here.     *)
(*                                                                         *)
(* An entry is the pair of its LSN and the incarnation (boot) of the       *)
(* process that wrote it; every entry has size one.  files is what the     *)
(* page cache shows, disk what fsync has made durable.  Metrics, the idle  *)
(* group-commit coordinator and the disk-space check (which refuses an     *)
(* append before any state changes) are left out.                          *)
(***************************************************************************)
EXTENDS Naturals, Sequences, FiniteSets, Functions

CONSTANTS
    Appenders,          \* concurrent callers of append / append_batch
    FsyncMode,          \* config.fsync_mode
    SegmentSize,        \* config.max_file_size, in entries
    RotateSize,         \* rotation_policy max_size, in entries
    RotateByAge,        \* whether the rotation policy also has a max_age
    MinSegments,        \* compaction_policy.min_segments
    BatchSize,          \* entries of one append_batch
    IoErrors,           \* whether sync and file creation may fail
    MaxLsn,             \* bound: LSNs drawn by the first incarnation, one less per restart
    MaxSegment,         \* bound: highest segment id
    MaxBoot             \* bound: restarts

ASSUME FileWalAssumption ==
    /\ FsyncMode \in {"EveryWrite", "BatchSync", "OnDemand", "Periodic"}
    /\ SegmentSize \in Nat \ {0}
    /\ RotateSize \in 1..SegmentSize
    /\ BatchSize \in Nat \ {0}
    /\ MinSegments \in Nat
    /\ {RotateByAge, IoErrors} \subseteq BOOLEAN
    /\ {MaxLsn, MaxSegment, MaxBoot} \subseteq Nat

VARIABLES
    active,         \* active_segment: id, position, start_lsn, dirty
    segments,       \* rotated segments: id -> [start_lsn, end_lsn]
    current_lsn, committed_lsn,
    lsn_index,      \* LSN -> [segment, offset]
    shutdown,
    eligible,       \* the compaction worker's snapshot of segments to compact
    files, disk,    \* contents of each segment file: cached, durable
    removed,        \* segment files the compaction worker has deleted
    caller,         \* where each appender is, and what it holds
    boot,           \* incarnation of the process
    acked,          \* history: entries whose append returned Ok
    synced,         \* history: entries acknowledged before a sync() that returned Ok
    committed,      \* history: entries at or below an LSN that was committed
    recreated       \* history: a rotation swapped in a segment id not above the active one

memory == <<active, segments, current_lsn, committed_lsn, lsn_index>>
worker == <<shutdown, eligible>>
storage == <<files, disk, removed>>
history == <<acked, synced, committed, recreated>>
vars == <<active, segments, current_lsn, committed_lsn, lsn_index, shutdown,
          eligible, files, disk, removed, caller, boot, acked, synced,
          committed, recreated>>

SegmentIds == 0..MaxSegment
Lsns == 0..MaxLsn
Entry == [boot : 0..MaxBoot, lsn : Lsns]
EntryOf(l) == [boot |-> boot, lsn |-> l]
SegmentInfo == [start_lsn : Lsns, end_lsn : Lsns]

(* lsn and n: the LSNs an appender drew; tail and id: what rotate_internal *)
(* read before it took the write lock.                                     *)
Idle == [at |-> "idle", op |-> "append", lsn |-> 0, n |-> 0, tail |-> 0, id |-> 0]
Caller == [at : {"idle", "reserved", "written", "rotating"},
           op : {"append", "append_batch"},
           lsn : Lsns, n : 0..(BatchSize + 1), tail : Lsns, id : SegmentIds]

TypeOK ==
    /\ active \in [id : SegmentIds, position : 0..SegmentSize,
                   start_lsn : Lsns, dirty : BOOLEAN]
    /\ DOMAIN segments \subseteq SegmentIds /\ Range(segments) \subseteq SegmentInfo
    /\ DOMAIN eligible \subseteq SegmentIds /\ Range(eligible) \subseteq SegmentInfo
    /\ current_lsn \in Lsns /\ committed_lsn \in Lsns
    /\ DOMAIN lsn_index \subseteq Lsns
    /\ Range(lsn_index) \subseteq [segment : SegmentIds, offset : 1..SegmentSize]
    /\ shutdown \in BOOLEAN
    /\ files \in [SegmentIds -> Seq(Entry)] /\ disk \in [SegmentIds -> Seq(Entry)]
    /\ removed \subseteq SegmentIds
    /\ caller \in [Appenders -> Caller]
    /\ boot \in 0..MaxBoot
    /\ acked \subseteq Entry /\ synced \subseteq Entry /\ committed \subseteq Entry
    /\ recreated \in BOOLEAN

-----------------------------------------------------------------------------
NewSegment(id, lsn) == [id |-> id, position |-> 0, start_lsn |-> lsn, dirty |-> FALSE]

Init ==
    /\ active = NewSegment(0, 0)
    /\ segments = << >>
    /\ current_lsn = 0
    /\ committed_lsn = 0
    /\ lsn_index = << >>
    /\ shutdown = FALSE
    /\ eligible = << >>
    /\ files = [s \in SegmentIds |-> << >>]
    /\ disk = [s \in SegmentIds |-> << >>]
    /\ removed = {}
    /\ caller = [a \in Appenders |-> Idle]
    /\ boot = 0
    /\ acked = {}
    /\ synced = {}
    /\ committed = {}
    /\ recreated = FALSE

-----------------------------------------------------------------------------
(* current_lsn.fetch_add(n), without the segment lock.                     *)
Reserve(a, op, n) ==
    /\ caller[a].at = "idle"
    /\ current_lsn + n + boot <= MaxLsn
    /\ current_lsn' = current_lsn + n
    /\ caller' = [caller EXCEPT ![a] = [Idle EXCEPT !.at = "reserved", !.op = op,
                                                    !.lsn = current_lsn, !.n = n]]
    /\ UNCHANGED <<active, segments, committed_lsn, lsn_index, worker, storage,
                   boot, history>>

AppendBegin(a) == Reserve(a, "append", 1)
AppendBatchBegin(a) == Reserve(a, "append_batch", BatchSize)

(* write_entry_to_segment for n entries in a row: they go to the active    *)
(* segment's position, over whatever the file holds there.                 *)
Overwrite(content, position, new) ==
    SubSeq(content, 1, position) \o new
      \o SubSeq(content, position + Len(new) + 1, Len(content))

(* A plausible slip: the room left in the segment is not checked.          *)
Fits_Unchecked(n) == n

(* How many of n entries the active segment still takes.                   *)
Fits(n) == IF active.position + n <= SegmentSize THEN n
           ELSE SegmentSize - active.position

(* A plausible slip: the offset is taken after the position has advanced.  *)
Location_After(i) == [segment |-> active.id, offset |-> active.position + i + 1]

(* Where the i-th of them goes.                                            *)
Location(i) == [segment |-> active.id, offset |-> active.position + i]

(* When the write section itself syncs before it drops the lock.           *)
SyncsOnWrite(op) ==
    \/ FsyncMode = "EveryWrite"
    \/ FsyncMode = "BatchSync" /\ op = "append_batch"

(* The section under the write lock.  It stops with WalFull at the first   *)
(* entry that does not fit: append has then written nothing, append_batch  *)
(* has written and indexed the entries before it, both return Err at once, *)
(* before any question of rotation, and the drawn LSNs stay drawn.  With   *)
(* an fsync error the call returns Err though everything is written.       *)
(* Otherwise append goes on to should_rotate; append_batch returns Ok.     *)
Write(a) ==
    LET c == caller[a]
        fits == Fits(c.n)
        new == [i \in 1..fits |-> EntryOf(c.lsn + i - 1)]
        content == Overwrite(files[active.id], active.position, new)
        index == [l \in c.lsn..(c.lsn + fits - 1) |-> Location(l - c.lsn + 1)]
        dirty == active.dirty \/ fits > 0
        moved(d) == [active EXCEPT !.position = @ + fits, !.dirty = d]
    IN
    /\ c.at = "reserved"
    /\ files' = [files EXCEPT ![active.id] = content]
    /\ lsn_index' = [l \in DOMAIN lsn_index \cup DOMAIN index |->
                       IF l \in DOMAIN index THEN index[l] ELSE lsn_index[l]]
    /\ \/ /\ fits < c.n
          /\ active' = moved(dirty)
          /\ caller' = [caller EXCEPT ![a] = Idle]
          /\ UNCHANGED <<disk, acked>>
       \/ /\ fits = c.n
          /\ IF SyncsOnWrite(c.op)
                THEN disk' = [disk EXCEPT ![active.id] = content] /\ active' = moved(FALSE)
                ELSE active' = moved(dirty) /\ UNCHANGED disk
          /\ IF c.op = "append"
                THEN caller' = [caller EXCEPT ![a].at = "written"] /\ UNCHANGED acked
                ELSE caller' = [caller EXCEPT ![a] = Idle] /\ acked' = acked \cup Range(new)
       \/ /\ fits = c.n /\ SyncsOnWrite(c.op) /\ IoErrors
          /\ active' = moved(dirty)
          /\ caller' = [caller EXCEPT ![a] = Idle]
          /\ UNCHANGED <<disk, acked>>
    /\ UNCHANGED <<segments, current_lsn, committed_lsn, worker, removed, boot,
                   synced, committed, recreated>>

-----------------------------------------------------------------------------
SizeReached == active.position >= RotateSize

(* append returns Ok(lsn).                                                 *)
Acknowledge(a) ==
    /\ acked' = acked \cup {EntryOf(caller[a].lsn)}
    /\ caller' = [caller EXCEPT ![a] = Idle]

(* should_rotate says no.                                                  *)
AppendDone(a) ==
    /\ caller[a].at = "written"
    /\ ~SizeReached
    /\ Acknowledge(a)
    /\ UNCHANGED <<memory, worker, storage, boot, synced, committed, recreated>>

(* should_rotate says yes, and rotate_internal does what precedes its      *)
(* write lock: it reads the tail LSN and the id of the active segment, and *)
(* opens the successor's file, creating it if it is not there.             *)
RotateBegin(a) ==
    LET id == active.id + 1 IN
    /\ caller[a].at = "written"
    /\ SizeReached \/ RotateByAge
    /\ id <= MaxSegment
    /\ caller' = [caller EXCEPT ![a].at = "rotating", ![a].tail = current_lsn,
                                ![a].id = id]
    /\ files' = [files EXCEPT ![id] = IF id \in removed THEN << >> ELSE @]
    /\ removed' = removed \ {id}
    /\ UNCHANGED <<memory, worker, disk, boot, history>>

(* A plausible slip: the old segment is swapped out without a final sync.  *)
FinalSync_Skipped == disk

(* The final sync of the segment that is swapped out (mode OnDemand).      *)
FinalSync == [disk EXCEPT ![active.id] = files[active.id]]

(* The swap under the write lock, with what was read before it.            *)
RotateSwap(a) ==
    LET c == caller[a] IN
    /\ c.at = "rotating"
    /\ disk' = FinalSync
    /\ segments' = [s \in DOMAIN segments \cup {active.id} |->
                      IF s = active.id
                        THEN [start_lsn |-> active.start_lsn, end_lsn |-> c.tail]
                        ELSE segments[s]]
    /\ active' = NewSegment(c.id, c.tail)
    /\ recreated' = (recreated \/ c.id <= active.id)
    /\ Acknowledge(a)
    /\ UNCHANGED <<current_lsn, committed_lsn, lsn_index, worker, files, removed,
                   boot, synced, committed>>

(* Creating the file or the final sync fails: append returns Err.          *)
RotateFail(a) ==
    /\ IoErrors
    /\ caller[a].at = "rotating"
    /\ caller' = [caller EXCEPT ![a] = Idle]
    /\ UNCHANGED <<memory, worker, storage, boot, history>>

-----------------------------------------------------------------------------
(* sync(): the active segment only.                                        *)
Sync ==
    /\ disk' = [disk EXCEPT ![active.id] = files[active.id]]
    /\ active' = [active EXCEPT !.dirty = FALSE]
    /\ synced' = synced \cup {e \in acked : e.boot = boot}
    /\ UNCHANGED <<segments, current_lsn, committed_lsn, lsn_index, worker, files,
                   removed, caller, boot, acked, committed, recreated>>

(* A plausible slip: the worker syncs only in the modes that sync on every *)
(* write anyway.                                                           *)
WorkerSync_OnWriteModes ==
    IF FsyncMode = "EveryWrite" THEN [disk EXCEPT ![active.id] = files[active.id]]
    ELSE disk

(* Segment::sync in the configured mode: nothing in mode Periodic.         *)
WorkerSync ==
    IF FsyncMode = "Periodic" THEN disk
    ELSE [disk EXCEPT ![active.id] = files[active.id]]

(* The sync worker clears the dirty flag whenever that returned Ok.        *)
SyncWorker ==
    /\ ~shutdown
    /\ active.dirty
    /\ disk' = WorkerSync
    /\ active' = [active EXCEPT !.dirty = FALSE]
    /\ UNCHANGED <<segments, current_lsn, committed_lsn, lsn_index, worker, files,
                   removed, caller, boot, history>>

(* commit, commit_batch (its greatest LSN): a plain store.                 *)
Commit(l) ==
    /\ EntryOf(l) \in acked
    /\ committed_lsn' = l
    /\ committed' = committed \cup {EntryOf(k) : k \in 0..l}
    /\ UNCHANGED <<active, segments, current_lsn, lsn_index, worker, storage,
                   caller, boot, acked, synced, recreated>>

Truncate(l) ==
    /\ EntryOf(l) \in acked
    /\ lsn_index' = Restrict(lsn_index, {k \in DOMAIN lsn_index : k > l})
    /\ committed_lsn' = l
    /\ committed' = committed \cup {EntryOf(k) : k \in 0..l}
    /\ UNCHANGED <<active, segments, current_lsn, worker, storage, caller, boot,
                   acked, synced, recreated>>

(* A plausible slip: the segment is judged by where it starts.             *)
Compactable_ByStart(info) == info.start_lsn <= committed_lsn

Compactable(info) == info.end_lsn <= committed_lsn

(* The compaction worker takes a snapshot of the segments it may compact   *)
(* and drops the lock.  No segment is ever marked archived.                *)
CompactionSelect ==
    LET ids == {s \in DOMAIN segments : Compactable(segments[s])} IN
    /\ ~shutdown
    /\ eligible = << >>
    /\ ids # {} /\ Cardinality(ids) >= MinSegments
    /\ eligible' = Restrict(segments, ids)
    /\ UNCHANGED <<memory, shutdown, storage, caller, boot, history>>

(* compact_segment for the first segment of the snapshot.  If its file is  *)
(* already gone the archive copy fails and nothing else happens.           *)
CompactSegment ==
    \E s \in DOMAIN eligible :
        /\ \A t \in DOMAIN eligible : s <= t
        /\ eligible' = Restrict(eligible, DOMAIN eligible \ {s})
        /\ IF s \in removed
              THEN UNCHANGED <<lsn_index, removed>>
              ELSE /\ lsn_index' = Restrict(lsn_index, DOMAIN lsn_index \
                                    (eligible[s].start_lsn..eligible[s].end_lsn))
                   /\ removed' = removed \cup {s}
        /\ UNCHANGED <<active, segments, current_lsn, committed_lsn, shutdown,
                       files, disk, caller, boot, history>>

(* close(): stop the workers, wait for them, then a final sync().          *)
Close ==
    /\ ~shutdown /\ eligible = << >>
    /\ shutdown' = TRUE
    /\ disk' = [disk EXCEPT ![active.id] = files[active.id]]
    /\ active' = [active EXCEPT !.dirty = FALSE]
    /\ synced' = synced \cup {e \in acked : e.boot = boot}
    /\ UNCHANGED <<segments, current_lsn, committed_lsn, lsn_index, eligible,
                   files, removed, caller, boot, acked, committed, recreated>>

(* The process stops (the page cache survives) or the machine does (only   *)
(* what was synced survives), and FileWal::new starts over: segment 0 at   *)
(* position 0, LSN 0 and empty bookkeeping, whatever files are there.      *)
Restart ==
    /\ boot < MaxBoot
    /\ boot' = boot + 1
    /\ \E survives \in {files, disk} :
          files' = [survives EXCEPT ![0] = IF 0 \in removed THEN << >> ELSE @]
    /\ disk' = files'
    /\ removed' = removed \ {0}
    /\ active' = NewSegment(0, 0)
    /\ segments' = << >>
    /\ current_lsn' = 0
    /\ committed_lsn' = 0
    /\ lsn_index' = << >>
    /\ shutdown' = FALSE
    /\ eligible' = << >>
    /\ caller' = [a \in Appenders |-> Idle]
    /\ recreated' = FALSE
    /\ UNCHANGED <<acked, synced, committed>>

Next ==
    \/ \E a \in Appenders : \/ AppendBegin(a) \/ AppendBatchBegin(a) \/ Write(a)
                            \/ AppendDone(a) \/ RotateBegin(a)
                            \/ RotateSwap(a) \/ RotateFail(a)
    \/ Sync \/ SyncWorker
    \/ \E l \in Lsns : Commit(l) \/ Truncate(l)
    \/ CompactionSelect \/ CompactSegment
    \/ Close \/ Restart

Spec == Init /\ [][Next]_vars

-----------------------------------------------------------------------------
(* Where an entry can be found.                                            *)
Stored == UNION {Range(files[s]) : s \in SegmentIds \ removed}
Durable == UNION {Range(disk[s]) : s \in SegmentIds \ removed}

(* Entries lost to compaction although nobody committed them: they got     *)
(* into their segment after rotate_internal had read its end LSN.          *)
CompactedLate ==
    {e \in Entry : \E s \in removed \cap DOMAIN segments :
        e \in Range(files[s]) /\ e.boot = boot /\ e.lsn >= segments[s].end_lsn}

(* The log keeps every acknowledged entry until it is committed, except    *)
(* through the two races of rotate_internal: a segment id used twice, and  *)
(* an append that slips in between the reading of the end LSN and the      *)
(* swap.  (Within one incarnation.)                                        *)
LostOnlyByRotationRace ==
    ~recreated => \A e \in acked : e.boot = boot =>
                    e \in Stored \cup committed \cup CompactedLate

(* What the caller was promised to be durable is durable: every acknow-    *)
(* ledged entry in mode EveryWrite, every entry acknowledged before a      *)
(* successful sync() in the others.  sync() only reaches the ACTIVE        *)
(* segment, so this relies on the final sync of every rotation.            *)
PromisedDurable ==
    ~recreated => \A e \in (IF FsyncMode = "EveryWrite" THEN acked ELSE synced) :
                    e.boot = boot => e \in Durable \cup committed \cup CompactedLate

(* The index never points at another entry's bytes, so that read() returns *)
(* what was appended under that LSN.                                       *)
IndexTruthful ==
    ~recreated => \A l \in DOMAIN lsn_index :
        LET at == lsn_index[l] IN
        /\ at.offset <= Len(files[at.segment])
        /\ files[at.segment][at.offset] = EntryOf(l)

(* A segment that is not dirty is on disk up to its position: the sync     *)
(* worker may skip it.                                                     *)
CleanMeansDurable ==
    ~active.dirty => /\ active.position <= Len(disk[active.id])
                     /\ SubSeq(disk[active.id], 1, active.position)
                          = SubSeq(files[active.id], 1, active.position)
=============================================================================
