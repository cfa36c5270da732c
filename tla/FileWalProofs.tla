----------------------------- MODULE FileWalProofs -----------------------------
(***************************************************************************)
(* Proofs about FileWal, for any number of appenders, segments, entries,   *)
(* errors and restarts.                                                    *)
(***************************************************************************)
EXTENDS FileWal, SequenceTheorems, TLAPS

(* The i-th place of segment s holds e, and no append will write there.    *)
Placed(s, i, e) ==
    /\ s \in 0..active.id /\ i \in 1..Len(files[s]) /\ files[s][i] = e
    /\ s = active.id => i <= active.position

OnDisk(s, i, e) == i \in 1..Len(disk[s]) /\ disk[s][i] = e

(* What an append has written, and what was promised with it.              *)
Kept(e) == \E s \in SegmentIds, i \in Nat :
    Placed(s, i, e) /\ (FsyncMode = "EveryWrite" => OnDisk(s, i, e))
Saved(e) == \E s \in SegmentIds, i \in Nat : Placed(s, i, e) /\ OnDisk(s, i, e)

(* All that a segment with this end LSN should hold is committed.          *)
CommittedBelow(end) == \A k \in Lsns : k < end => EntryOf(k) \in committed

(* The LSNs of an appender that has yet to write.                          *)
Drawn(c) == c.n >= 1 /\ c.lsn + c.n <= MaxLsn

(* Unconditional bookkeeping: the position is within the file, what is     *)
(* drawn is below the bound, the histories are of the past.                *)
Basics ==
    /\ active.position <= Len(files[active.id])
    /\ \A a \in Appenders : caller[a].at = "reserved" => Drawn(caller[a])
    /\ synced \subseteq acked /\ \A e \in acked : e.boot <= boot
    /\ committed_lsn = 0 \/ CommittedBelow(committed_lsn + 1)

(* The segments, while their ids only grow: those before the active one    *)
(* are on disk, and were removed only after a commit beyond their end.     *)
SegmentsOK ==
    /\ \A s \in DOMAIN segments : s < active.id
    /\ \A s \in DOMAIN eligible : /\ s \in DOMAIN segments /\ eligible[s] = segments[s]
                                  /\ CommittedBelow(segments[s].end_lsn)
    /\ \A s \in removed : s <= active.id => /\ s \in DOMAIN segments
                                            /\ CommittedBelow(segments[s].end_lsn)
    /\ \A s \in SegmentIds : s < active.id => disk[s] = files[s]
    /\ \A a \in Appenders : caller[a].at = "rotating" =>
         /\ caller[a].id <= active.id + 1
         /\ caller[a].id = active.id + 1 => caller[a].id \notin removed

(* The entries: what the index, the callers and the histories know.        *)
EntriesOK ==
    /\ \A l \in DOMAIN lsn_index : Placed(lsn_index[l].segment, lsn_index[l].offset, EntryOf(l))
    /\ \A a \in Appenders : caller[a].at \in {"written", "rotating"} =>
         Kept(EntryOf(caller[a].lsn))
    /\ \A e \in acked : e.boot = boot => Kept(e)
    /\ \A e \in synced : e.boot = boot => Saved(e)

Clean == FsyncMode # "Periodic" => CleanMeansDurable

(* The inductive invariant.                                                *)
IInv ==
    /\ TypeOK
    /\ Basics
    /\ Clean
    /\ ~recreated => SegmentsOK /\ EntriesOK

-----------------------------------------------------------------------------
(* Files.                                                                  *)

LEMMA Types ==
    ASSUME TypeOK
    PROVE  /\ active.id \in SegmentIds /\ active.id \in Nat /\ 0..active.id \subseteq SegmentIds
           /\ active.position \in 0..SegmentSize /\ active.position \in Nat
           /\ active.start_lsn \in Lsns /\ active.dirty \in BOOLEAN
           /\ SegmentIds \subseteq Nat /\ Lsns \subseteq Nat
           /\ current_lsn \in Nat /\ boot \in Nat
           /\ \A s \in SegmentIds : /\ files[s] \in Seq(Entry) /\ Len(files[s]) \in Nat
                                    /\ disk[s] \in Seq(Entry) /\ Len(disk[s]) \in Nat
           /\ MaxLsn \in Nat /\ MaxSegment \in Nat /\ MaxBoot \in Nat /\ SegmentSize \in Nat
           /\ BatchSize \in Nat \ {0}
<1>1. /\ MaxLsn \in Nat /\ MaxSegment \in Nat /\ MaxBoot \in Nat /\ SegmentSize \in Nat
      /\ BatchSize \in Nat \ {0}
  BY FileWalAssumption
<1>2. SegmentIds \subseteq Nat /\ Lsns \subseteq Nat
  BY <1>1 DEF SegmentIds, Lsns
<1>3. /\ active.id \in SegmentIds /\ active.position \in 0..SegmentSize
      /\ active.start_lsn \in Lsns /\ active.dirty \in BOOLEAN
      /\ current_lsn \in Lsns /\ boot \in 0..MaxBoot
  BY DEF TypeOK
<1>4. 0..active.id \subseteq SegmentIds
  BY <1>1, <1>3 DEF SegmentIds
<1>5. \A s \in SegmentIds : /\ files[s] \in Seq(Entry) /\ Len(files[s]) \in Nat
                            /\ disk[s] \in Seq(Entry) /\ Len(disk[s]) \in Nat
  <2> SUFFICES ASSUME NEW s \in SegmentIds
               PROVE  /\ files[s] \in Seq(Entry) /\ Len(files[s]) \in Nat
                      /\ disk[s] \in Seq(Entry) /\ Len(disk[s]) \in Nat
    OBVIOUS
  <2>1. files[s] \in Seq(Entry) /\ disk[s] \in Seq(Entry)
    BY DEF TypeOK
  <2> QED  BY <2>1, LenProperties
<1>6. active.id \in Nat /\ active.position \in Nat /\ current_lsn \in Nat /\ boot \in Nat
  <2>1. active.id \in Nat /\ current_lsn \in Nat
    BY <1>2, <1>3, Zenon
  <2>2. active.position \in Nat
    BY <1>1, <1>3
  <2>3. boot \in Nat
    BY <1>1, <1>3
  <2> QED  BY <2>1, <2>2, <2>3
<1> QED  BY <1>1, <1>2, <1>3, <1>4, <1>5, <1>6, Zenon

(* Overwrite leaves what is before the position and puts the new entries   *)
(* after it.                                                               *)
LEMMA OverwriteProperties ==
    ASSUME NEW S, NEW f \in Seq(S), NEW p \in 0..Len(f), NEW new \in Seq(S)
    PROVE  /\ Overwrite(f, p, new) \in Seq(S)
           /\ Len(Overwrite(f, p, new)) \in Nat /\ Len(Overwrite(f, p, new)) >= p + Len(new)
           /\ \A i \in 1..p : Overwrite(f, p, new)[i] = f[i]
           /\ \A i \in 1..Len(new) : Overwrite(f, p, new)[p + i] = new[i]
<1> DEFINE a == SubSeq(f, 1, p)
           c == SubSeq(f, p + Len(new) + 1, Len(f))
           b == a \o new
           o == b \o c
<1>1. Len(f) \in Nat /\ Len(new) \in Nat /\ p \in Nat /\ \A i \in 1..Len(f) : f[i] \in S
  BY LenProperties, ElementOfSeq
<1>2. a \in Seq(S) /\ Len(a) = p /\ \A i \in 1..p : a[i] = f[i]
  <2>1. \A i \in 1..p : f[i] \in S
    BY <1>1
  <2>2. /\ a \in Seq(S) /\ Len(a) = (IF 1 <= p THEN p - 1 + 1 ELSE 0)
        /\ \A i \in 1..(p - 1 + 1) : a[i] = f[1 + i - 1]
    BY <1>1, <2>1, SubSeqProperties
  <2> QED  BY <1>1, <2>2
<1>3. c \in Seq(S) /\ Len(c) \in Nat
  <2>1. \A i \in (p + Len(new) + 1)..Len(f) : f[i] \in S
    BY <1>1
  <2> QED  BY <1>1, <2>1, SubSeqProperties, LenProperties
<1> HIDE DEF a, c
<1>4. /\ b \in Seq(S) /\ Len(b) = p + Len(new)
      /\ \A i \in 1..p : b[i] = f[i]
      /\ \A i \in 1..Len(new) : b[p + i] = new[i]
  <2>1. /\ b \in Seq(S) /\ Len(b) = Len(a) + Len(new)
        /\ \A i \in 1..(Len(a) + Len(new)) : b[i] = IF i <= Len(a) THEN a[i] ELSE new[i - Len(a)]
    <3>1. a \in Seq(S)
      BY <1>2
    <3> QED  BY <3>1, ConcatProperties
  <2> HIDE DEF b
  <2>2. \A i \in 1..Len(new) : b[p + i] = new[i]
    <3> SUFFICES ASSUME NEW i \in 1..Len(new) PROVE b[p + i] = new[i]
      OBVIOUS
    <3>1. p + i \in 1..(Len(a) + Len(new)) /\ ~(p + i <= Len(a)) /\ (p + i) - Len(a) = i
      BY <1>1, <1>2
    <3> QED  BY <2>1, <3>1
  <2> QED  BY <1>1, <1>2, <2>1, <2>2
<1> HIDE DEF b
<1>5. /\ o \in Seq(S) /\ Len(o) = Len(b) + Len(c)
      /\ \A i \in 1..Len(b) : o[i] = b[i]
  <2>1. /\ o \in Seq(S) /\ Len(o) = Len(b) + Len(c)
        /\ \A i \in 1..(Len(b) + Len(c)) : o[i] = IF i <= Len(b) THEN b[i] ELSE c[i - Len(b)]
    <3>1. b \in Seq(S) /\ c \in Seq(S)
      BY <1>3, <1>4
    <3> QED  BY <3>1, ConcatProperties
  <2>2. Len(b) \in Nat
    BY <1>1, <1>4
  <2> HIDE DEF o
  <2> QED  BY <1>3, <2>1, <2>2
<1> HIDE DEF o
<1>6. Overwrite(f, p, new) = o
  BY DEF Overwrite, a, b, c, o
<1>7. /\ o \in Seq(S) /\ Len(o) \in Nat /\ Len(o) >= p + Len(new)
      /\ \A i \in 1..p : o[i] = f[i]
      /\ \A i \in 1..Len(new) : o[p + i] = new[i]
  BY <1>1, <1>3, <1>4, <1>5
<1> QED  BY <1>6, <1>7

-----------------------------------------------------------------------------
(* What no step but Restart does: to touch a written place.                *)

LogGrows ==
    /\ active'.id \in {active.id, active.id + 1}
    /\ active'.id = active.id => active'.position >= active.position
    /\ \A s \in 0..active.id : \A i \in 1..Len(files[s]) : (s = active.id => i <= active.position)
         => i \in 1..Len(files'[s]) /\ files'[s][i] = files[s][i]
    /\ disk' \in {disk, [disk EXCEPT ![active.id] = files'[active.id]]}
    /\ UNCHANGED boot

LEMMA PlacedStays ==
    ASSUME TypeOK, TypeOK', LogGrows, NEW s, NEW i, NEW e, Placed(s, i, e)
    PROVE  Placed(s, i, e)' /\ (OnDisk(s, i, e) => OnDisk(s, i, e)')
<1>1. /\ s \in 0..active.id /\ s \in SegmentIds /\ s \in Nat /\ i \in 1..Len(files[s])
      /\ files[s][i] = e /\ i \in Nat
      /\ s = active.id => i <= active.position
  BY Types DEF Placed
<1>2. i \in 1..Len(files'[s]) /\ files'[s][i] = e
  BY <1>1 DEF LogGrows
<1>3. /\ active.id \in Nat /\ active.position \in Nat
      /\ active'.id \in Nat /\ active'.position \in Nat
  BY Types DEF TypeOK, SegmentIds
<1>4. s \in 0..active'.id /\ (s = active'.id => i <= active'.position)
  BY <1>1, <1>3 DEF LogGrows
<1>5. OnDisk(s, i, e) => OnDisk(s, i, e)'
  BY <1>1, <1>2 DEF LogGrows, OnDisk, TypeOK
<1> QED  BY <1>2, <1>4, <1>5 DEF Placed

LEMMA KeptStays ==
    ASSUME TypeOK, TypeOK', LogGrows, NEW e
    PROVE  (Kept(e) => Kept(e)') /\ (Saved(e) => Saved(e)')
BY PlacedStays DEF Kept, Saved

(* A step within one segment keeps what it does not disturb.               *)
LEMMA StepOK ==
    ASSUME IInv, TypeOK', Basics', Clean', LogGrows,
           active'.id = active.id, UNCHANGED <<segments, recreated>>,
           committed \subseteq committed',
           removed' \subseteq removed \cup DOMAIN eligible,
           \A s \in SegmentIds : s < active.id => disk'[s] = disk[s] /\ files'[s] = files[s],
           ~recreated =>
             /\ \A s \in DOMAIN eligible' :
                  \/ s \in DOMAIN eligible /\ eligible'[s] = eligible[s]
                  \/ /\ s \in DOMAIN segments /\ eligible'[s] = segments[s]
                     /\ CommittedBelow(segments[s].end_lsn)
             /\ \A a \in Appenders : caller'[a].at = "rotating" =>
                  \/ caller[a].at = "rotating" /\ caller'[a].id = caller[a].id
                  \/ caller'[a].id = active.id + 1 /\ caller'[a].id \notin removed'
             /\ \A l \in DOMAIN lsn_index' :
                  \/ l \in DOMAIN lsn_index /\ lsn_index'[l] = lsn_index[l]
                  \/ Placed(lsn_index[l].segment, lsn_index[l].offset, EntryOf(l))'
             /\ \A a \in Appenders : caller'[a].at \in {"written", "rotating"} =>
                  \/ /\ caller[a].at \in {"written", "rotating"}
                     /\ caller'[a].lsn = caller[a].lsn
                  \/ Kept(EntryOf(caller[a].lsn))'
             /\ \A e \in acked' : e.boot = boot => e \in acked \/ Kept(e)'
             /\ \A e \in synced' : e.boot = boot => e \in synced \/ Saved(e)'
    PROVE  IInv'
<1> SUFFICES ASSUME ~recreated PROVE SegmentsOK' /\ EntriesOK'
  BY DEF IInv
<1>1. SegmentsOK /\ EntriesOK /\ TypeOK /\ UNCHANGED boot
  BY DEF IInv, LogGrows
<1>2. \A end : CommittedBelow(end) => CommittedBelow(end)'
  BY <1>1 DEF CommittedBelow, EntryOf
<1>3. active.id \in Nat /\ SegmentIds \subseteq Nat /\ removed \subseteq SegmentIds
  BY <1>1, Types DEF TypeOK
<1>4. SegmentsOK'
  <2>1. \A s \in DOMAIN eligible' : /\ s \in DOMAIN segments /\ eligible'[s] = segments[s]
                                    /\ CommittedBelow(segments[s].end_lsn)
    BY <1>1 DEF SegmentsOK
  <2>2. \A s \in removed' : s <= active.id => /\ s \in DOMAIN segments
                                              /\ CommittedBelow(segments[s].end_lsn)
    BY <1>1 DEF SegmentsOK
  <2>3. \A s \in SegmentIds : s < active.id => disk'[s] = files'[s]
    BY <1>1 DEF SegmentsOK
  <2>4. \A a \in Appenders : caller'[a].at = "rotating" =>
          /\ caller'[a].id <= active.id + 1
          /\ caller'[a].id = active.id + 1 => caller'[a].id \notin removed'
    <3> SUFFICES ASSUME NEW a \in Appenders, caller'[a].at = "rotating"
                 PROVE  /\ caller'[a].id <= active.id + 1
                        /\ caller'[a].id = active.id + 1 => caller'[a].id \notin removed'
      OBVIOUS
    <3>1. active.id + 1 \notin DOMAIN eligible
      BY <1>1, <1>3 DEF SegmentsOK
    <3>2. CASE caller[a].at = "rotating" /\ caller'[a].id = caller[a].id
      BY <1>1, <3>1, <3>2 DEF SegmentsOK
    <3>3. CASE caller'[a].id = active.id + 1 /\ caller'[a].id \notin removed'
      BY <1>3, <3>3
    <3> QED  BY <3>2, <3>3
  <2>5. \A s \in DOMAIN segments : s < active.id
    BY <1>1 DEF SegmentsOK
  <2>6. \A s \in DOMAIN segments :
          CommittedBelow(segments[s].end_lsn) => CommittedBelow(segments[s].end_lsn)'
    BY <1>1 DEF CommittedBelow, EntryOf
  <2> QED  BY <2>1, <2>2, <2>3, <2>4, <2>5, <2>6 DEF SegmentsOK
<1>5. EntriesOK'
  <2>1. \A l : EntryOf(l)' = EntryOf(l)
    BY <1>1 DEF EntryOf
  <2>2. ASSUME NEW l \in DOMAIN lsn_index'
        PROVE  Placed(lsn_index[l].segment, lsn_index[l].offset, EntryOf(l))'
    <3>1. CASE l \in DOMAIN lsn_index /\ lsn_index'[l] = lsn_index[l]
      <4> DEFINE g == lsn_index[l].segment
                 o == lsn_index[l].offset
                 e == EntryOf(l)
      <4>1. Placed(g, o, e)
        BY <1>1, <3>1 DEF EntriesOK
      <4>2. g' = g /\ o' = o /\ e' = e
        BY <2>1, <3>1
      <4>3. \A x, y, z : x = g /\ y = o /\ z = e => Placed(x, y, z)'
        BY <1>1, <4>1, PlacedStays
      <4> QED  BY <4>2, <4>3
    <3> QED  BY <2>2, <3>1
  <2>3. ASSUME NEW a \in Appenders, caller'[a].at \in {"written", "rotating"}
        PROVE  Kept(EntryOf(caller[a].lsn))'
    <3>1. CASE caller[a].at \in {"written", "rotating"} /\ caller'[a].lsn = caller[a].lsn
      <4>1. Kept(EntryOf(caller[a].lsn))
        BY <1>1, <3>1 DEF EntriesOK
      <4>2. EntryOf(caller[a].lsn)' = EntryOf(caller[a].lsn)
        BY <1>1, <3>1 DEF EntryOf
      <4>3. \A z : z = EntryOf(caller[a].lsn) => Kept(z)'
        BY <1>1, <4>1, KeptStays
      <4> QED  BY <4>2, <4>3
    <3> QED  BY <2>3, <3>1
  <2>4. ASSUME NEW e \in acked', e.boot = boot PROVE Kept(e)'
    BY <1>1, <2>4, KeptStays DEF EntriesOK
  <2>5. ASSUME NEW e \in synced', e.boot = boot PROVE Saved(e)'
    BY <1>1, <2>5, KeptStays DEF EntriesOK
  <2> QED  BY <1>1, <2>2, <2>3, <2>4, <2>5 DEF EntriesOK
<1> QED  BY <1>4, <1>5

-----------------------------------------------------------------------------
(* Steps that write no entry.                                              *)

LEMMA SameFiles ==
    ASSUME IInv, UNCHANGED <<active, disk, boot>>, \A s \in 0..active.id : files'[s] = files[s]
    PROVE  /\ LogGrows /\ Clean' /\ active'.position <= Len(files'[active'.id])
           /\ active'.id = active.id
           /\ \A s \in SegmentIds : s < active.id => disk'[s] = disk[s] /\ files'[s] = files[s]
<1>1. /\ active.id \in Nat /\ active.position \in Nat /\ SegmentIds \subseteq Nat
      /\ active.id \in 0..active.id
  BY Types DEF IInv
<1>2. files'[active.id] = files[active.id]
  BY <1>1
<1>3. Clean'
  BY <1>2 DEF IInv, Clean, CleanMeansDurable
<1>4. active'.position <= Len(files'[active'.id])
  BY <1>2 DEF IInv, Basics
<1>5. LogGrows
  BY <1>1 DEF LogGrows
<1>6. \A s \in SegmentIds : s < active.id => files'[s] = files[s]
  BY <1>1
<1> QED  BY <1>3, <1>4, <1>5, <1>6

LEMMA ReserveOK ==
    ASSUME IInv, NEW a \in Appenders, NEW op \in {"append", "append_batch"},
           NEW n \in 1..BatchSize, Reserve(a, op, n)
    PROVE  IInv'
<1> DEFINE c == [Idle EXCEPT !.at = "reserved", !.op = op, !.lsn = current_lsn, !.n = n]
<1>1. /\ current_lsn + n + boot <= MaxLsn /\ current_lsn' = current_lsn + n
      /\ caller' = [caller EXCEPT ![a] = c]
      /\ UNCHANGED <<active, segments, committed_lsn, lsn_index, shutdown, eligible, files, disk,
                     removed, boot, acked, synced, committed, recreated>>
  BY DEF Reserve, worker, storage, history
<1>2. /\ current_lsn \in Nat /\ boot \in Nat /\ MaxLsn \in Nat /\ BatchSize \in Nat /\ n \in Nat
      /\ n \in 0..(BatchSize + 1) /\ MaxSegment \in Nat
  BY Types DEF IInv
<1>3. current_lsn \in Lsns /\ current_lsn' \in Lsns /\ current_lsn + n <= MaxLsn /\ 0 \in Lsns
      /\ 0 \in SegmentIds
  BY <1>1, <1>2 DEF Lsns, SegmentIds
<1>4. /\ c \in Caller /\ c.at = "reserved" /\ c.lsn = current_lsn /\ c.n = n
  BY <1>2, <1>3 DEF Idle, Caller
<1> HIDE DEF c
<1>5. TypeOK'
  <2>1. caller' \in [Appenders -> Caller]
    BY <1>1, <1>4 DEF IInv, TypeOK
  <2> QED  BY <1>1, <1>3, <2>1 DEF IInv, TypeOK
<1>6. caller'[a] = c /\ \A b \in Appenders : b # a => caller'[b] = caller[b]
  BY <1>1 DEF IInv, TypeOK
<1>7. Basics'
  <2>1. \A b \in Appenders : caller'[b].at = "reserved" => Drawn(caller'[b])
    BY <1>2, <1>3, <1>4, <1>6 DEF IInv, Basics, Drawn
  <2> QED  BY <1>1, <2>1 DEF IInv, Basics, CommittedBelow, EntryOf
<1>8. \A b \in Appenders : caller'[b].at \in {"written", "rotating"} => caller'[b] = caller[b]
  BY <1>4, <1>6
<1> QED  BY <1>1, <1>5, <1>7, <1>8, SameFiles, StepOK

(* An append returns, with or without an answer.                           *)
LEMMA ReturnOK ==
    ASSUME IInv, NEW a \in Appenders,
           caller' = [caller EXCEPT ![a] = Idle],
           \/ UNCHANGED acked
           \/ /\ caller[a].at = "written"
              /\ acked' = acked \cup {EntryOf(caller[a].lsn)},
           UNCHANGED <<active, segments, current_lsn, committed_lsn, lsn_index, shutdown, eligible,
                       files, disk, removed, boot, synced, committed, recreated>>
    PROVE  IInv'
<1>1. /\ Idle \in Caller /\ Idle.at = "idle"
  <2>1. MaxLsn \in Nat /\ MaxSegment \in Nat /\ BatchSize \in Nat
    BY Types DEF IInv
  <2>2. 0 \in Lsns /\ 0 \in SegmentIds /\ 0 \in 0..(BatchSize + 1)
    BY <2>1 DEF Lsns, SegmentIds
  <2> QED  BY <2>2 DEF Idle, Caller
<1>2. EntryOf(caller[a].lsn) \in Entry /\ EntryOf(caller[a].lsn).boot = boot
  BY DEF IInv, TypeOK, Caller, EntryOf, Entry
<1>3. caller'[a] = Idle /\ \A b \in Appenders : b # a => caller'[b] = caller[b]
  BY DEF IInv, TypeOK
<1>4. TypeOK'
  <2>1. caller' \in [Appenders -> Caller] /\ acked' \subseteq Entry
    BY <1>1, <1>2 DEF IInv, TypeOK
  <2> QED  BY <2>1 DEF IInv, TypeOK
<1>5. Basics'
  <2>1. \A b \in Appenders : caller'[b].at = "reserved" => Drawn(caller'[b])
    BY <1>1, <1>3 DEF IInv, Basics
  <2>2. synced \subseteq acked' /\ \A e \in acked' : e.boot <= boot
    <3>1. boot <= boot
      BY Types DEF IInv
    <3> QED  BY <1>2, <3>1 DEF IInv, Basics
  <2> QED  BY <2>1, <2>2 DEF IInv, Basics, CommittedBelow, EntryOf
<1>6. \A b \in Appenders : caller'[b].at \in {"written", "rotating"} => caller'[b] = caller[b]
  BY <1>1, <1>3
<1>7. LogGrows
  BY SameFiles
<1>8. ~recreated => \A e \in acked' : e.boot = boot => e \in acked \/ Kept(e)'
  <2> SUFFICES ASSUME ~recreated, NEW e, e = EntryOf(caller[a].lsn), caller[a].at = "written"
               PROVE  Kept(e)'
    OBVIOUS
  <2>1. Kept(e)
    BY DEF IInv, EntriesOK
  <2> QED  BY <1>4, <1>7, <2>1, KeptStays DEF IInv
<1> QED  BY <1>4, <1>5, <1>6, <1>8, SameFiles, StepOK

LEMMA RotateBeginOK ==
    ASSUME IInv, NEW a \in Appenders, RotateBegin(a)
    PROVE  IInv'
<1> DEFINE id == active.id + 1
           c == [caller[a] EXCEPT !.at = "rotating", !.tail = current_lsn, !.id = id]
<1>1. /\ caller[a].at = "written" /\ id <= MaxSegment
      /\ caller' = [caller EXCEPT ![a] = c]
      /\ files' = [files EXCEPT ![id] = IF id \in removed THEN << >> ELSE files[id]]
      /\ removed' = removed \ {id}
      /\ UNCHANGED <<active, segments, current_lsn, committed_lsn, lsn_index, shutdown, eligible,
                     disk, boot, acked, synced, committed, recreated>>
  BY DEF RotateBegin, memory, worker, history
<1>2. /\ active.id \in Nat /\ MaxSegment \in Nat /\ SegmentIds \subseteq Nat
      /\ id \in Nat /\ id # active.id /\ id \notin 0..active.id
  BY Types DEF IInv
<1>3. id \in SegmentIds
  BY <1>1, <1>2 DEF SegmentIds
<1>4. /\ c \in Caller /\ c.at = "rotating" /\ c.id = id /\ c.lsn = caller[a].lsn
  BY <1>3 DEF IInv, TypeOK, Caller
<1> HIDE DEF id, c
<1>5. TypeOK'
  <2>1. caller' \in [Appenders -> Caller]
    BY <1>1, <1>4 DEF IInv, TypeOK
  <2>2. files' \in [SegmentIds -> Seq(Entry)]
    BY <1>1, <1>3 DEF IInv, TypeOK
  <2>3. removed' \subseteq SegmentIds
    BY <1>1 DEF IInv, TypeOK
  <2> QED  BY <1>1, <2>1, <2>2, <2>3 DEF IInv, TypeOK
<1>6. caller'[a] = c /\ \A b \in Appenders : b # a => caller'[b] = caller[b]
  BY <1>1 DEF IInv, TypeOK
<1>7. \A s \in 0..active.id : files'[s] = files[s]
  BY <1>1, <1>2, Types DEF IInv, TypeOK
<1>8. Basics'
  <2>1. \A b \in Appenders : caller'[b].at = "reserved" => Drawn(caller'[b])
    BY <1>4, <1>6 DEF IInv, Basics
  <2>2. active'.position <= Len(files'[active'.id])
    BY <1>1, <1>7, SameFiles
  <2> QED  BY <1>1, <2>1, <2>2 DEF IInv, Basics, CommittedBelow, EntryOf
<1>9. \A b \in Appenders : caller'[b].at \in {"written", "rotating"} =>
        caller[b].at \in {"written", "rotating"} /\ caller'[b].lsn = caller[b].lsn
  BY <1>1, <1>4, <1>6
<1>10. \A b \in Appenders : caller'[b].at = "rotating" =>
         \/ caller[b].at = "rotating" /\ caller'[b].id = caller[b].id
         \/ caller'[b].id = active.id + 1 /\ caller'[b].id \notin removed'
  BY <1>1, <1>4, <1>6 DEF id
<1> QED  BY <1>1, <1>5, <1>7, <1>8, <1>9, <1>10, SameFiles, StepOK

LEMMA CommitOK ==
    ASSUME IInv, NEW l \in Lsns, Commit(l) \/ Truncate(l)
    PROVE  IInv'
<1>1. /\ committed_lsn' = l /\ committed' = committed \cup {EntryOf(k) : k \in 0..l}
      /\ UNCHANGED <<active, segments, current_lsn, shutdown, eligible, files, disk, removed,
                     caller, boot, acked, synced, recreated>>
      /\ DOMAIN lsn_index' \subseteq DOMAIN lsn_index
      /\ \A k \in DOMAIN lsn_index' : lsn_index'[k] = lsn_index[k]
  BY DEF Commit, Truncate, Restrict, worker, storage
<1>2. l \in Nat /\ l <= MaxLsn /\ MaxLsn \in Nat /\ Lsns \subseteq Nat
  BY Types DEF IInv, Lsns
<1>3. \A k \in 0..l : EntryOf(k) \in Entry
  BY <1>2 DEF IInv, TypeOK, EntryOf, Entry, Lsns
<1>4. TypeOK'
  <2>1. committed' \subseteq Entry
    BY <1>1, <1>3 DEF IInv, TypeOK
  <2>2. /\ DOMAIN lsn_index' \subseteq Lsns
        /\ Range(lsn_index') \subseteq [segment : SegmentIds, offset : 1..SegmentSize]
    BY <1>1 DEF IInv, TypeOK, Range
  <2> QED  BY <1>1, <2>1, <2>2 DEF IInv, TypeOK
<1>5. Basics'
  <2>1. \A k \in Lsns : k < l + 1 => k \in 0..l
    BY <1>2
  <2>2. \A k \in Lsns : k < l + 1 => EntryOf(k)' \in committed'
    <3>1. \A k \in 0..l : EntryOf(k) \in committed'
      BY <1>1, Zenon
    <3>2. \A k : EntryOf(k)' = EntryOf(k)
      BY <1>1 DEF EntryOf
    <3> QED  BY <2>1, <3>1, <3>2, Zenon
  <2>3. CommittedBelow(committed_lsn + 1)'
    BY <1>1, <2>2 DEF CommittedBelow
  <2> QED  BY <1>1, <2>3 DEF IInv, Basics
<1> QED  BY <1>1, <1>4, <1>5, SameFiles, StepOK

LEMMA SelectOK ==
    ASSUME IInv, CompactionSelect
    PROVE  IInv'
<1>1. /\ \A s \in DOMAIN eligible' : /\ s \in DOMAIN segments /\ eligible'[s] = segments[s]
                                     /\ segments[s].end_lsn <= committed_lsn
      /\ UNCHANGED <<active, segments, current_lsn, committed_lsn, lsn_index, shutdown, files,
                     disk, removed, caller, boot, acked, synced, committed, recreated>>
  BY DEF CompactionSelect, Compactable, Restrict, memory, storage, history
<1>2. \A s \in DOMAIN segments : segments[s] \in SegmentInfo
  BY DEF IInv, TypeOK, Range
<1>3. TypeOK'
  <2>1. DOMAIN eligible' \subseteq SegmentIds /\ Range(eligible') \subseteq SegmentInfo
    BY <1>1, <1>2 DEF IInv, TypeOK, Range
  <2> QED  BY <1>1, <2>1 DEF IInv, TypeOK
<1>4. Basics'
  BY <1>1 DEF IInv, Basics, CommittedBelow, EntryOf
<1>5. \A s \in DOMAIN eligible' : CommittedBelow(segments[s].end_lsn)
  <2> SUFFICES ASSUME NEW s \in DOMAIN eligible', NEW k \in Lsns, k < segments[s].end_lsn
               PROVE  EntryOf(k) \in committed
    BY DEF CommittedBelow
  <2>1. segments[s].end_lsn \in Nat /\ committed_lsn \in Nat /\ k \in Nat
    BY <1>1, <1>2, Types DEF IInv, TypeOK, SegmentInfo
  <2>2. committed_lsn # 0 /\ k < committed_lsn + 1
    BY <1>1, <2>1
  <2> QED  BY <2>2 DEF IInv, Basics, CommittedBelow
<1> QED  BY <1>1, <1>3, <1>4, <1>5, SameFiles, StepOK

LEMMA CompactOK ==
    ASSUME IInv, CompactSegment
    PROVE  IInv'
<1>1. PICK s \in DOMAIN eligible :
        /\ eligible' = Restrict(eligible, DOMAIN eligible \ {s})
        /\ \/ UNCHANGED <<lsn_index, removed>>
           \/ /\ lsn_index' = Restrict(lsn_index, DOMAIN lsn_index \
                                    (eligible[s].start_lsn..eligible[s].end_lsn))
              /\ removed' = removed \cup {s}
        /\ UNCHANGED <<active, segments, current_lsn, committed_lsn, shutdown,
                       files, disk, caller, boot, acked, synced, committed, recreated>>
  BY DEF CompactSegment, history
<1>2. /\ DOMAIN lsn_index' \subseteq DOMAIN lsn_index
      /\ \A k \in DOMAIN lsn_index' : lsn_index'[k] = lsn_index[k]
      /\ DOMAIN eligible' \subseteq DOMAIN eligible
      /\ \A k \in DOMAIN eligible' : eligible'[k] = eligible[k]
      /\ removed' \subseteq removed \cup DOMAIN eligible
  BY <1>1 DEF Restrict
<1>3. TypeOK'
  <2>1. DOMAIN eligible' \subseteq SegmentIds /\ Range(eligible') \subseteq SegmentInfo
    BY <1>2 DEF IInv, TypeOK, Range
  <2>2. /\ DOMAIN lsn_index' \subseteq Lsns
        /\ Range(lsn_index') \subseteq [segment : SegmentIds, offset : 1..SegmentSize]
    BY <1>2 DEF IInv, TypeOK, Range
  <2>3. removed' \subseteq SegmentIds
    BY <1>2 DEF IInv, TypeOK
  <2> QED  BY <1>1, <2>1, <2>2, <2>3 DEF IInv, TypeOK
<1>4. Basics'
  BY <1>1 DEF IInv, Basics, CommittedBelow, EntryOf
<1> QED  BY <1>1, <1>2, <1>3, <1>4, SameFiles, StepOK

-----------------------------------------------------------------------------
(* Syncs.                                                                  *)

(* The sync() of the caller reaches all that was acknowledged: the         *)
(* segments before the active one are on disk already.                     *)
LEMMA AllSaved ==
    ASSUME IInv, ~recreated, TypeOK', LogGrows, UNCHANGED files,
           disk' = [disk EXCEPT ![active.id] = files[active.id]],
           NEW e, Kept(e)
    PROVE  Saved(e)'
<1>1. PICK s \in SegmentIds, i \in Nat : Placed(s, i, e)
  BY DEF Kept
<1>2. TypeOK /\ active.id \in SegmentIds /\ active.id \in Nat /\ SegmentIds \subseteq Nat
  BY Types DEF IInv
<1>3. Placed(s, i, e)'
  BY <1>1, <1>2, PlacedStays
<1>4. s \in 0..active.id /\ i \in 1..Len(files[s]) /\ files[s][i] = e
  BY <1>1 DEF Placed
<1>5. disk'[s] = files[s]
  <2>1. CASE s = active.id
    BY <1>2, <2>1 DEF TypeOK
  <2>2. CASE s # active.id
    <3>1. s < active.id
      BY <1>2, <1>4, <2>2
    <3> QED  BY <1>2, <2>2, <3>1 DEF IInv, SegmentsOK, TypeOK
  <2> QED  BY <2>1, <2>2
<1>6. OnDisk(s, i, e)'
  BY <1>4, <1>5 DEF OnDisk
<1> QED  BY <1>3, <1>6 DEF Saved

LEMMA SyncOK ==
    ASSUME IInv, NEW d, disk' = d,
           \/ d = [disk EXCEPT ![active.id] = files[active.id]]
           \/ d = disk /\ FsyncMode = "Periodic",
           active' = [active EXCEPT !.dirty = FALSE],
           \/ UNCHANGED synced
           \/ /\ synced' = synced \cup {e \in acked : e.boot = boot}
              /\ d = [disk EXCEPT ![active.id] = files[active.id]],
           shutdown' \in BOOLEAN,
           UNCHANGED <<segments, current_lsn, committed_lsn, lsn_index, eligible, files,
                       removed, caller, boot, acked, committed, recreated>>
    PROVE  IInv'
<1>1. /\ active' \in [id : SegmentIds, position : 0..SegmentSize,
                      start_lsn : Lsns, dirty : BOOLEAN]
      /\ active'.id = active.id /\ active'.position = active.position
  BY DEF IInv, TypeOK
<1>2. /\ active.id \in SegmentIds /\ active.id \in Nat /\ active.position \in Nat
      /\ files[active.id] \in Seq(Entry) /\ SegmentIds \subseteq Nat
  BY Types DEF IInv
<1>3. d \in [SegmentIds -> Seq(Entry)]
  BY <1>2 DEF IInv, TypeOK
<1>4. TypeOK'
  <2>1. synced' \subseteq Entry
    BY DEF IInv, TypeOK
  <2> QED  BY <1>1, <1>3, <2>1 DEF IInv, TypeOK
<1>5. Basics'
  <2>1. synced' \subseteq acked
    BY DEF IInv, Basics
  <2> QED  BY <1>1, <2>1 DEF IInv, Basics, CommittedBelow, EntryOf
<1>6. LogGrows
  <2>1. active'.position >= active.position
    BY <1>1, <1>2
  <2> QED  BY <1>1, <2>1 DEF LogGrows
<1>7. Clean'
  <2> SUFFICES ASSUME FsyncMode # "Periodic" PROVE CleanMeansDurable'
    BY DEF Clean
  <2>1. disk'[active.id] = files[active.id]
    BY <1>2 DEF IInv, TypeOK
  <2> QED  BY <1>1, <2>1 DEF IInv, Basics, CleanMeansDurable
<1>8. \A s \in SegmentIds : s < active.id => disk'[s] = disk[s] /\ files'[s] = files[s]
  BY <1>2 DEF IInv, TypeOK
<1>9. ~recreated => \A e \in synced' : e.boot = boot => e \in synced \/ Saved(e)'
  <2> SUFFICES ASSUME ~recreated, NEW e \in acked, e.boot = boot,
                      d = [disk EXCEPT ![active.id] = files[active.id]]
               PROVE  Saved(e)'
    OBVIOUS
  <2>1. Kept(e)
    BY DEF IInv, EntriesOK
  <2> QED  BY <1>4, <1>6, <2>1, AllSaved
<1> QED  BY <1>1, <1>4, <1>5, <1>6, <1>7, <1>8, <1>9, StepOK


-----------------------------------------------------------------------------
(* The write section.                                                      *)

LEMMA SubSeqAgree ==
    ASSUME NEW S, NEW f \in Seq(S), NEW g \in Seq(S), NEW p \in Nat,
           p <= Len(f), p <= Len(g), \A i \in 1..p : f[i] = g[i]
    PROVE  SubSeq(f, 1, p) = SubSeq(g, 1, p)
<1> DEFINE x == SubSeq(f, 1, p)
           y == SubSeq(g, 1, p)
<1>1. /\ Len(f) \in Nat /\ Len(g) \in Nat
      /\ \A i \in 1..Len(f) : f[i] \in S
      /\ \A i \in 1..Len(g) : g[i] \in S
  BY LenProperties, ElementOfSeq
<1>2. /\ x \in Seq(S) /\ Len(x) = (IF 1 <= p THEN p - 1 + 1 ELSE 0)
      /\ \A i \in 1..(p - 1 + 1) : x[i] = f[1 + i - 1]
  <2>1. \A i \in 1..p : f[i] \in S
    BY <1>1
  <2> QED  BY <2>1, SubSeqProperties
<1>3. /\ y \in Seq(S) /\ Len(y) = (IF 1 <= p THEN p - 1 + 1 ELSE 0)
      /\ \A i \in 1..(p - 1 + 1) : y[i] = g[1 + i - 1]
  <2>1. \A i \in 1..p : g[i] \in S
    BY <1>1
  <2> QED  BY <2>1, SubSeqProperties
<1> HIDE DEF x, y
<1>4. /\ Len(x) = Len(y) /\ \A i \in 1..Len(x) : x[i] = y[i]
  BY <1>2, <1>3
<1>5. x = y
  BY <1>2, <1>3, <1>4, SeqEqual
<1> QED  BY <1>5 DEF x, y

LEMMA Interval ==
    ASSUME NEW x \in Nat, NEW n \in Nat, NEW m \in Nat, x + n <= m
    PROVE  \A l \in x..(x + n - 1) : /\ l \in 0..m /\ l - x + 1 \in 1..n
                                    /\ l = x + (l - x + 1) - 1
OBVIOUS

LEMMA WriteOK ==
    ASSUME IInv, NEW a \in Appenders, Write(a)
    PROVE  IInv'
<1> DEFINE c == caller[a]
           p == active.position
           fits == Fits(c.n)
           new == [i \in 1..fits |-> EntryOf(c.lsn + i - 1)]
           content == Overwrite(files[active.id], p, new)
           index == [l \in c.lsn..(c.lsn + fits - 1) |-> Location(l - c.lsn + 1)]
           dirty == active.dirty \/ fits > 0
           moved(d) == [active EXCEPT !.position = p + fits, !.dirty = d]
           synchronous == disk' = [disk EXCEPT ![active.id] = content]
(* The step, without what decides between its outcomes.                    *)
<1>1. /\ c.at = "reserved"
      /\ files' = [files EXCEPT ![active.id] = content]
      /\ lsn_index' = [l \in DOMAIN lsn_index \cup DOMAIN index |->
                         IF l \in DOMAIN index THEN index[l] ELSE lsn_index[l]]
      /\ UNCHANGED <<segments, current_lsn, committed_lsn, shutdown, eligible, removed, boot,
                     synced, committed, recreated>>
  BY DEF Write, worker
<1>2. \/ synchronous /\ active' = moved(FALSE)
      \/ UNCHANGED disk /\ active' = moved(dirty)
  BY DEF Write
<1>3. \/ /\ caller' = [caller EXCEPT ![a] = Idle] /\ UNCHANGED acked
      \/ /\ FsyncMode = "EveryWrite" => synchronous
         /\ fits = c.n
         /\ \/ caller' = [caller EXCEPT ![a].at = "written"] /\ UNCHANGED acked
            \/ caller' = [caller EXCEPT ![a] = Idle] /\ acked' = acked \cup Range(new)
  BY DEF Write, SyncsOnWrite
(* The numbers.                                                            *)
<1>4. TypeOK
  BY DEF IInv
<1>5. /\ active.id \in SegmentIds /\ active.id \in Nat /\ p \in 0..SegmentSize /\ p \in Nat
      /\ SegmentIds \subseteq Nat /\ Lsns \subseteq Nat /\ MaxLsn \in Nat /\ SegmentSize \in Nat
      /\ files[active.id] \in Seq(Entry) /\ Len(files[active.id]) \in Nat
      /\ p <= Len(files[active.id]) /\ boot \in 0..MaxBoot
      /\ BatchSize \in Nat /\ MaxSegment \in Nat
  BY <1>4, Types DEF IInv, Basics, TypeOK
<1>6. /\ c \in Caller /\ Drawn(c)
  BY <1>1 DEF IInv, TypeOK, Basics
<1>7. /\ c.lsn \in Nat /\ c.n \in Nat /\ c.n >= 1 /\ c.lsn + c.n <= MaxLsn
  <2>1. c.lsn \in Lsns /\ c.n \in 0..(BatchSize + 1)
    BY <1>6 DEF Caller
  <2>2. c.n \in Nat
    BY <1>5, <2>1
  <2>3. c.lsn \in Nat
    BY <1>5, <2>1, Zenon
  <2> QED  BY <1>6, <2>2, <2>3 DEF Drawn
<1>8. /\ fits \in Nat /\ fits <= c.n /\ p + fits <= SegmentSize
  BY <1>5, <1>7 DEF Fits
<1> HIDE DEF fits, c, p
<1>9. \A i \in 1..fits : c.lsn + i - 1 \in Lsns /\ EntryOf(c.lsn + i - 1) \in Entry
  <2>1. \A i \in 1..fits : c.lsn + i - 1 \in Lsns
    BY <1>5, <1>7, <1>8 DEF Lsns
  <2> QED  BY <1>5, <2>1 DEF EntryOf, Entry
<1>10. /\ new \in Seq(Entry) /\ Len(new) = fits
       /\ \A i \in 1..fits : new[i] = EntryOf(c.lsn + i - 1)
  <2>1. new \in Seq(Entry)
    BY <1>8, <1>9, IsASeq
  <2>2. Len(new) = fits
    <3>1. DOMAIN new = 1..fits
      OBVIOUS
    <3> HIDE DEF new
    <3> QED  BY <1>8, <2>1, <3>1, LenProperties
  <2> QED  BY <2>1, <2>2
<1> HIDE DEF new
<1>11. /\ content \in Seq(Entry) /\ Len(content) \in Nat /\ Len(content) >= p + fits
       /\ \A i \in 1..p : content[i] = files[active.id][i]
       /\ \A i \in 1..fits : content[p + i] = EntryOf(c.lsn + i - 1)
  <2>1. p \in 0..Len(files[active.id])
    BY <1>5
  <2>2. ASSUME NEW f, f = files[active.id], NEW q, q = p, NEW w, w = new, NEW o, o = content
        PROVE  /\ o \in Seq(Entry) /\ Len(o) \in Nat /\ Len(o) >= q + Len(w)
               /\ \A i \in 1..q : o[i] = f[i]
               /\ \A i \in 1..Len(w) : o[q + i] = w[i]
    <3>1. f \in Seq(Entry) /\ q \in 0..Len(f) /\ w \in Seq(Entry) /\ o = Overwrite(f, q, w)
      BY <1>5, <1>10, <2>1, <2>2
    <3> QED  BY <3>1, OverwriteProperties
  <2> HIDE DEF content
  <2> QED  BY <1>10, <2>2
<1> HIDE DEF content
<1> DEFINE d == active'.dirty
<1>12. /\ active' \in [id : SegmentIds, position : 0..SegmentSize, start_lsn : Lsns, dirty : BOOLEAN]
       /\ active'.id = active.id /\ active'.position = p + fits
       /\ synchronous \/ (UNCHANGED disk /\ d = dirty)
  <2>1. p + fits \in 0..SegmentSize
    BY <1>5, <1>8
  <2>2. dirty \in BOOLEAN
    OBVIOUS
  <2> QED  BY <1>2, <1>4, <2>1, <2>2 DEF TypeOK
<1>13. /\ files'[active.id] = content
       /\ \A s \in SegmentIds : s # active.id => files'[s] = files[s] /\ disk'[s] = disk[s]
       /\ synchronous => disk'[active.id] = content
  BY <1>1, <1>4, <1>5, <1>12 DEF TypeOK
<1>14. DOMAIN index = c.lsn..(c.lsn + fits - 1)
       /\ \A l \in DOMAIN index : /\ l - c.lsn + 1 \in 1..fits /\ l \in Lsns
                                  /\ l = c.lsn + (l - c.lsn + 1) - 1
                                  /\ index[l] = [segment |-> active.id, offset |-> p + (l - c.lsn + 1)]
  <2>1. \A l \in c.lsn..(c.lsn + fits - 1) : /\ l - c.lsn + 1 \in 1..fits /\ l \in Lsns
                                             /\ l = c.lsn + (l - c.lsn + 1) - 1
    <3>1. c.lsn + fits <= MaxLsn
      BY <1>5, <1>7, <1>8
    <3> QED  BY <1>5, <1>7, <1>8, <3>1, Interval DEF Lsns
  <2> QED  BY <2>1 DEF Location, p
<1> HIDE DEF index
<1>15. /\ DOMAIN lsn_index' = DOMAIN lsn_index \cup DOMAIN index
       /\ \A l \in DOMAIN index : lsn_index'[l] = index[l]
       /\ \A l \in DOMAIN lsn_index' : l \in DOMAIN index \/ lsn_index'[l] = lsn_index[l]
  BY <1>1
<1>16. /\ Idle \in Caller /\ Idle.at = "idle"
  <2>1. 0 \in Lsns /\ 0 \in SegmentIds /\ 0 \in 0..(BatchSize + 1)
    BY <1>5 DEF Lsns, SegmentIds
  <2> QED  BY <2>1 DEF Idle, Caller
<1>17. /\ \/ caller'[a] = Idle
          \/ /\ caller'[a] \in Caller /\ caller'[a].at = "written" /\ caller'[a].lsn = c.lsn
             /\ fits = c.n /\ (FsyncMode = "EveryWrite" => synchronous)
       /\ \A b \in Appenders : b # a => caller'[b] = caller[b]
       /\ caller' \in [Appenders -> Caller]
  <2>1. caller \in [Appenders -> Caller]
    BY <1>4 DEF TypeOK
  <2>2. CASE caller' = [caller EXCEPT ![a] = Idle]
    BY <1>16, <2>1, <2>2
  <2>3. CASE caller' = [caller EXCEPT ![a].at = "written"] /\ fits = c.n
             /\ (FsyncMode = "EveryWrite" => synchronous)
    <3>1. caller'[a] = [c EXCEPT !.at = "written"]
      BY <2>1, <2>3 DEF c
    <3>2. caller'[a] \in Caller /\ caller'[a].at = "written" /\ caller'[a].lsn = c.lsn
      BY <1>6, <3>1 DEF Caller
    <3> QED  BY <2>1, <2>3, <3>2
  <2> QED  BY <1>3, <2>2, <2>3
<1>18. \/ UNCHANGED acked
       \/ /\ acked' = acked \cup Range(new)
          /\ FsyncMode = "EveryWrite" => synchronous
  BY <1>3
<1>19. \A e \in Range(new) : \E i \in 1..fits : e = EntryOf(c.lsn + i - 1)
  <2>1. DOMAIN new = 1..fits
    BY <1>10, LenProperties
  <2> QED  BY <1>10, <2>1 DEF Range
(* The invariant.                                                          *)
<1>20. TypeOK'
  <2>1. files' \in [SegmentIds -> Seq(Entry)] /\ disk' \in [SegmentIds -> Seq(Entry)]
    <3>1. files \in [SegmentIds -> Seq(Entry)] /\ disk \in [SegmentIds -> Seq(Entry)]
      BY <1>4 DEF TypeOK
    <3>2. content \in Seq(Entry)
      BY <1>11
    <3> QED  BY <1>1, <1>12, <3>1, <3>2
  <2>2. DOMAIN lsn_index' \subseteq Lsns
    BY <1>4, <1>14, <1>15 DEF TypeOK
  <2>3. \A l \in DOMAIN index : index[l] \in [segment : SegmentIds, offset : 1..SegmentSize]
    <3> SUFFICES ASSUME NEW l \in DOMAIN index
                 PROVE  index[l] \in [segment : SegmentIds, offset : 1..SegmentSize]
      OBVIOUS
    <3>1. PICK i \in 1..fits : index[l] = [segment |-> active.id, offset |-> p + i]
      BY <1>14
    <3>2. p + i \in 1..SegmentSize
      BY <1>5, <1>8
    <3> QED  BY <1>5, <3>1, <3>2
  <2>4. Range(lsn_index') \subseteq [segment : SegmentIds, offset : 1..SegmentSize]
    BY <1>4, <1>15, <2>3 DEF TypeOK, Range
  <2>5. acked' \subseteq Entry
    BY <1>4, <1>9, <1>18, <1>19 DEF TypeOK
  <2> QED  BY <1>1, <1>4, <1>12, <1>17, <2>1, <2>2, <2>4, <2>5 DEF TypeOK
<1>21. Basics'
  <2>1. \A b \in Appenders : caller'[b].at = "reserved" => Drawn(caller'[b])
    BY <1>16, <1>17 DEF IInv, Basics
  <2>2. \A e \in acked' : e.boot <= boot
    <3>1. boot <= boot
      BY <1>5, Types, <1>4
    <3>2. \A e \in Range(new) : e.boot = boot
      BY <1>19 DEF EntryOf
    <3> QED  BY <1>18, <3>1, <3>2 DEF IInv, Basics
  <2>3. synced \subseteq acked'
    BY <1>18 DEF IInv, Basics
  <2>4. active'.position <= Len(files'[active'.id])
    BY <1>5, <1>8, <1>11, <1>12, <1>13
  <2> QED  BY <1>1, <2>1, <2>2, <2>3, <2>4 DEF IInv, Basics, CommittedBelow, EntryOf
<1>22. LogGrows
  <2>1. active'.position >= p
    BY <1>5, <1>8, <1>12
  <2>2. disk' \in {disk, [disk EXCEPT ![active.id] = files'[active.id]]}
    BY <1>12, <1>13
  <2>3. ASSUME NEW s \in 0..active.id, NEW i \in 1..Len(files[s]), s = active.id => i <= p
        PROVE  i \in 1..Len(files'[s]) /\ files'[s][i] = files[s][i]
    <3>1. CASE s = active.id
      <4>1. i \in 1..p /\ i \in 1..Len(content)
        BY <1>5, <1>8, <1>11, <2>3, <3>1
      <4> QED  BY <1>11, <1>13, <3>1, <4>1
    <3>2. CASE s # active.id
      <4>1. s \in SegmentIds
        BY <1>4, Types
      <4> QED  BY <1>13, <3>2, <4>1
    <3> QED  BY <3>1, <3>2
  <2> QED  BY <1>1, <1>12, <2>1, <2>2, <2>3 DEF LogGrows, p
<1>23. Clean'
  <2> SUFFICES ASSUME FsyncMode # "Periodic", ~d PROVE CleanMeansDurable'
    BY DEF Clean, CleanMeansDurable
  <2>1. CASE synchronous
    <3>1. disk'[active.id] = content /\ p + fits <= Len(content)
      BY <1>5, <1>8, <1>11, <1>13, <2>1
    <3> QED  BY <1>12, <1>13, <3>1 DEF CleanMeansDurable
  <2>2. CASE UNCHANGED disk /\ d = dirty
    <3>1. ~active.dirty /\ ~(fits > 0)
      BY <2>2, Zenon
    <3>2. fits = 0 /\ p + fits = p
      BY <1>5, <1>8, <3>1
    <3>3. p <= Len(disk[active.id]) /\ SubSeq(disk[active.id], 1, p) = SubSeq(files[active.id], 1, p)
      BY <3>1 DEF IInv, Clean, CleanMeansDurable, p
    <3>4. p <= Len(content)
      BY <1>11, <3>2
    <3>5. SubSeq(files[active.id], 1, p) = SubSeq(content, 1, p)
      BY <1>5, <1>11, <3>4, SubSeqAgree, Zenon
    <3> QED  BY <1>12, <1>13, <2>2, <3>2, <3>3, <3>5 DEF CleanMeansDurable
  <2> QED  BY <1>12, <2>1, <2>2
(* What is new is placed where the next append does not write, and kept    *)
(* when the call goes on to return Ok.                                     *)
<1>24. \A i \in 1..fits : \A e, s, j :
         e = EntryOf(c.lsn + i - 1) /\ s = active.id /\ j = p + i => Placed(s, j, e)'
  <2> SUFFICES ASSUME NEW i \in 1..fits, NEW e, e = EntryOf(c.lsn + i - 1),
                      NEW s, s = active.id, NEW j, j = p + i
               PROVE  Placed(s, j, e)'
    OBVIOUS
  <2>1. j \in 1..Len(content) /\ j <= p + fits /\ s \in 0..active.id
    BY <1>5, <1>8, <1>11
  <2>2. content[j] = e
    BY <1>11
  <2> QED  BY <1>12, <1>13, <2>1, <2>2 DEF Placed
<1>25. \A i \in 1..fits : \A e : (FsyncMode = "EveryWrite" => synchronous) /\ e = EntryOf(c.lsn + i - 1)
         => Kept(e)'
  <2> SUFFICES ASSUME FsyncMode = "EveryWrite" => synchronous, NEW i \in 1..fits,
                      NEW e, e = EntryOf(c.lsn + i - 1), NEW s, s = active.id, NEW j, j = p + i
               PROVE  Kept(e)'
    OBVIOUS
  <2>1. Placed(s, j, e)'
    BY <1>24
  <2>2. j \in 1..Len(content) /\ content[j] = e /\ j \in Nat
    <3>1. content[j] = e
      BY <1>11
    <3> QED  BY <1>5, <1>8, <1>11, <3>1
  <2>3. synchronous => OnDisk(s, j, e)'
    BY <1>13, <2>2 DEF OnDisk
  <2> QED  BY <1>5, <2>1, <2>2, <2>3 DEF Kept
<1>26. \A l \in DOMAIN lsn_index' :
         \/ l \in DOMAIN lsn_index /\ lsn_index'[l] = lsn_index[l]
         \/ Placed(lsn_index[l].segment, lsn_index[l].offset, EntryOf(l))'
  <2> SUFFICES ASSUME NEW l \in DOMAIN index
               PROVE  Placed(lsn_index[l].segment, lsn_index[l].offset, EntryOf(l))'
    BY <1>15
  <2> DEFINE i == l - c.lsn + 1
  <2>1. i \in 1..fits /\ EntryOf(l)' = EntryOf(c.lsn + i - 1)
    BY <1>1, <1>14 DEF EntryOf
  <2>2. lsn_index'[l] = [segment |-> active.id, offset |-> p + i]
    BY <1>14, <1>15
  <2>3. lsn_index'[l].segment = active.id /\ lsn_index'[l].offset = p + i
    BY <2>2
  <2> HIDE DEF i
  <2> QED  BY <1>24, <2>1, <2>3
<1>27. \A b \in Appenders : caller'[b].at \in {"written", "rotating"} =>
         \/ caller[b].at \in {"written", "rotating"} /\ caller'[b].lsn = caller[b].lsn
         \/ Kept(EntryOf(caller[b].lsn))'
  <2> SUFFICES ASSUME caller'[a].at = "written", caller'[a].lsn = c.lsn,
                      fits = c.n, FsyncMode = "EveryWrite" => synchronous
               PROVE  Kept(EntryOf(caller[a].lsn))'
    BY <1>16, <1>17
  <2>1. 1 \in 1..fits /\ c.lsn + 1 - 1 = c.lsn
    BY <1>7
  <2>2. EntryOf(caller[a].lsn)' = EntryOf(c.lsn + 1 - 1)
    BY <1>1, <2>1 DEF EntryOf
  <2> QED  BY <1>25, <2>1, <2>2
<1>28. \A e \in acked' : e.boot = boot => e \in acked \/ Kept(e)'
  BY <1>18, <1>19, <1>25
<1>29. \A b \in Appenders : caller'[b].at = "rotating" =>
         caller[b].at = "rotating" /\ caller'[b].id = caller[b].id
  BY <1>16, <1>17
<1>30. \A s \in SegmentIds : s < active.id => disk'[s] = disk[s] /\ files'[s] = files[s]
  <2>1. \A s \in SegmentIds : s < active.id => s # active.id
    BY <1>5
  <2> QED  BY <1>13, <2>1
<1> QED  BY <1>1, <1>12, <1>20, <1>21, <1>22, <1>23, <1>26, <1>27, <1>28, <1>29, <1>30, StepOK

-----------------------------------------------------------------------------
(* The swap, and the restart.                                              *)

(* Unless it uses an id twice, the swap moves to the next segment, and the *)
(* one it leaves is on disk.                                               *)
LEMMA RotateSwapOK ==
    ASSUME IInv, NEW a \in Appenders, RotateSwap(a)
    PROVE  IInv'
<1> DEFINE c == caller[a]
           e0 == EntryOf(c.lsn)
<1>1. /\ c.at = "rotating"
      /\ disk' = [disk EXCEPT ![active.id] = files[active.id]]
      /\ segments' = [s \in DOMAIN segments \cup {active.id} |->
                        IF s = active.id
                          THEN [start_lsn |-> active.start_lsn, end_lsn |-> c.tail]
                          ELSE segments[s]]
      /\ active' = NewSegment(c.id, c.tail)
      /\ recreated' = (recreated \/ c.id <= active.id)
      /\ acked' = acked \cup {e0}
      /\ caller' = [caller EXCEPT ![a] = Idle]
      /\ UNCHANGED <<current_lsn, committed_lsn, lsn_index, shutdown, eligible, files, removed,
                     boot, synced, committed>>
  BY DEF RotateSwap, FinalSync, Acknowledge, worker
<1>2. TypeOK
  BY DEF IInv
<1>3. /\ active.id \in SegmentIds /\ active.id \in Nat /\ active.start_lsn \in Lsns
      /\ SegmentIds \subseteq Nat /\ MaxLsn \in Nat /\ MaxSegment \in Nat /\ BatchSize \in Nat
      /\ SegmentSize \in Nat /\ boot \in Nat /\ boot \in 0..MaxBoot
      /\ \A s \in SegmentIds : Len(files[s]) \in Nat /\ Len(disk[s]) \in Nat
  BY <1>2, Types DEF TypeOK
<1>4. /\ c \in Caller /\ c.id \in SegmentIds /\ c.tail \in Lsns /\ c.lsn \in Lsns
  BY <1>2 DEF TypeOK, Caller
<1>5. /\ active' \in [id : SegmentIds, position : 0..SegmentSize, start_lsn : Lsns, dirty : BOOLEAN]
      /\ active'.id = c.id /\ active'.position = 0
  BY <1>1, <1>3, <1>4 DEF NewSegment
<1>6. /\ e0 \in Entry /\ e0.boot = boot
  BY <1>3, <1>4 DEF EntryOf, Entry
<1>7. /\ Idle \in Caller /\ Idle.at = "idle"
  <2>1. 0 \in Lsns /\ 0 \in SegmentIds /\ 0 \in 0..(BatchSize + 1)
    BY <1>3 DEF Lsns, SegmentIds
  <2> QED  BY <2>1 DEF Idle, Caller
<1>8. caller'[a] = Idle /\ \A b \in Appenders : b # a => caller'[b] = caller[b]
  BY <1>1, <1>2 DEF TypeOK
<1>9. /\ disk'[active.id] = files[active.id]
      /\ \A s \in SegmentIds : s # active.id => disk'[s] = disk[s]
  BY <1>1, <1>2, <1>3 DEF TypeOK
<1>10. /\ DOMAIN segments' = DOMAIN segments \cup {active.id}
       /\ segments'[active.id] = [start_lsn |-> active.start_lsn, end_lsn |-> c.tail]
       /\ \A s \in DOMAIN segments : s # active.id => segments'[s] = segments[s]
  BY <1>1
<1> HIDE DEF c, e0
<1>11. TypeOK'
  <2>1. caller' \in [Appenders -> Caller] /\ acked' \subseteq Entry
    BY <1>1, <1>2, <1>6, <1>7 DEF TypeOK
  <2>2. disk' \in [SegmentIds -> Seq(Entry)]
    BY <1>1, <1>2, <1>3 DEF TypeOK
  <2>3. segments'[active.id] \in SegmentInfo
    BY <1>3, <1>4, <1>10 DEF SegmentInfo
  <2>4. DOMAIN segments' \subseteq SegmentIds /\ Range(segments') \subseteq SegmentInfo
    BY <1>2, <1>3, <1>10, <2>3 DEF TypeOK, Range
  <2>5. recreated' \in BOOLEAN
    BY <1>1
  <2> QED  BY <1>1, <1>2, <1>5, <2>1, <2>2, <2>4, <2>5 DEF TypeOK
<1>12. Basics'
  <2>1. \A b \in Appenders : caller'[b].at = "reserved" => Drawn(caller'[b])
    BY <1>7, <1>8 DEF IInv, Basics
  <2>2. synced \subseteq acked' /\ \A e \in acked' : e.boot <= boot
    <3>1. boot <= boot
      BY <1>3
    <3> QED  BY <1>1, <1>6, <3>1 DEF IInv, Basics
  <2>3. active'.position <= Len(files'[active'.id])
    BY <1>1, <1>3, <1>4, <1>5
  <2> QED  BY <1>1, <2>1, <2>2, <2>3 DEF IInv, Basics, CommittedBelow, EntryOf
<1>13. Clean'
  <2>1. active'.position <= Len(disk'[active'.id])
    <3>1. Len(disk'[c.id]) \in Nat
      BY <1>3, <1>4, <1>9
    <3> QED  BY <1>5, <3>1
  <2>2. SubSeq(disk'[active'.id], 1, active'.position) = SubSeq(files'[active'.id], 1, active'.position)
    BY <1>5, SubSeqEmpty
  <2> QED  BY <2>1, <2>2 DEF Clean, CleanMeansDurable
<1>14. ASSUME ~recreated' PROVE SegmentsOK' /\ EntriesOK'
  <2>1. ~recreated /\ c.id = active.id + 1 /\ SegmentsOK /\ EntriesOK /\ c.id \notin removed
    <3>1. ~recreated /\ ~(c.id <= active.id)
      BY <1>1, <1>14
    <3>2. SegmentsOK /\ EntriesOK
      BY <3>1 DEF IInv
    <3>3. c.id <= active.id + 1 /\ (c.id = active.id + 1 => c.id \notin removed)
      BY <1>1, <3>2 DEF SegmentsOK, c
    <3>4. c.id \in Nat
      BY <1>3, <1>4, Zenon
    <3>5. c.id = active.id + 1
      BY <1>3, <3>1, <3>3, <3>4
    <3> QED  BY <3>1, <3>2, <3>3, <3>5
  <2>2. LogGrows
    <3>1. active'.id # active.id
      BY <1>3, <1>5, <2>1
    <3> QED  BY <1>1, <1>5, <2>1, <3>1 DEF LogGrows
  <2>3. active.id < active'.id /\ \A s \in SegmentIds : s < active'.id => s < active.id \/ s = active.id
    BY <1>3, <1>5, <2>1
  <2>4. SegmentsOK'
    <3>1. \A s \in DOMAIN segments' : s < active'.id
      <4>1. \A s \in DOMAIN segments : s < active.id /\ s \in Nat
        BY <1>2, <1>3, <2>1 DEF SegmentsOK, TypeOK
      <4> QED  BY <1>3, <1>5, <1>10, <2>1, <4>1
    <3>2. \A s \in DOMAIN segments :
            /\ s # active.id /\ segments'[s] = segments[s]
            /\ CommittedBelow(segments[s].end_lsn) => CommittedBelow(segments[s].end_lsn)'
      <4>1. \A s \in DOMAIN segments : s # active.id
        BY <1>3, <2>1 DEF SegmentsOK
      <4>2. \A s \in DOMAIN segments : segments'[s] = segments[s]
        BY <1>10, <4>1
      <4>3. \A s \in DOMAIN segments :
              CommittedBelow(segments[s].end_lsn) => CommittedBelow(segments[s].end_lsn)'
        BY <1>1, <4>2 DEF CommittedBelow, EntryOf
      <4> QED  BY <4>1, <4>2, <4>3
    <3>3. \A s \in DOMAIN eligible' : /\ s \in DOMAIN segments' /\ eligible'[s] = segments'[s]
                                      /\ CommittedBelow(segments[s].end_lsn)'
      BY <1>1, <1>10, <2>1, <3>2 DEF SegmentsOK
    <3>4. \A s \in removed' : s <= active'.id => /\ s \in DOMAIN segments'
                                                 /\ CommittedBelow(segments[s].end_lsn)'
      <4> SUFFICES ASSUME NEW s \in removed, s <= active'.id
                   PROVE  s \in DOMAIN segments' /\ CommittedBelow(segments[s].end_lsn)'
        BY <1>1
      <4>1. s \in Nat /\ s # c.id
        BY <1>2, <1>3, <2>1 DEF TypeOK
      <4>2. s <= active.id
        BY <1>3, <1>5, <2>1, <4>1
      <4> QED  BY <1>10, <2>1, <3>2, <4>2 DEF SegmentsOK
    <3>5. \A s \in SegmentIds : s < active'.id => disk'[s] = files'[s]
      BY <1>1, <1>9, <2>1, <2>3 DEF SegmentsOK
    <3>6. \A b \in Appenders : caller'[b].at = "rotating" =>
            /\ caller'[b].id <= active'.id + 1
            /\ caller'[b].id = active'.id + 1 => caller'[b].id \notin removed'
      <4> SUFFICES ASSUME NEW b \in Appenders, caller[b].at = "rotating", caller'[b] = caller[b]
                   PROVE  /\ caller[b].id <= active'.id + 1
                          /\ caller[b].id = active'.id + 1 => caller[b].id \notin removed'
        BY <1>7, <1>8
      <4>1. caller[b].id <= active.id + 1
        BY <2>1 DEF SegmentsOK
      <4>2. caller[b].id \in Nat
        <5>1. caller[b].id \in SegmentIds
          BY <1>2 DEF TypeOK, Caller
        <5> QED  BY <1>3, <5>1, Zenon
      <4> QED  BY <1>3, <1>5, <2>1, <4>1, <4>2
    <3> QED  BY <3>1, <3>3, <3>4, <3>5, <3>6 DEF SegmentsOK
  <2>5. EntriesOK'
    <3>1. \A l : EntryOf(l)' = EntryOf(l)
      BY <1>1 DEF EntryOf
    <3>2. ASSUME NEW l \in DOMAIN lsn_index'
          PROVE  Placed(lsn_index[l].segment, lsn_index[l].offset, EntryOf(l))'
      <4> DEFINE g == lsn_index[l].segment
                 o == lsn_index[l].offset
                 e == EntryOf(l)
      <4>1. Placed(g, o, e)
        BY <1>1, <2>1 DEF EntriesOK
      <4>2. g' = g /\ o' = o /\ e' = e
        BY <1>1, <3>1
      <4>3. \A x, y, z : x = g /\ y = o /\ z = e => Placed(x, y, z)'
        BY <1>2, <1>11, <2>2, <4>1, PlacedStays
      <4> QED  BY <4>2, <4>3
    <3>3. ASSUME NEW b \in Appenders, caller'[b].at \in {"written", "rotating"}
          PROVE  Kept(EntryOf(caller[b].lsn))'
      <4>1. caller'[b] = caller[b]
        BY <1>7, <1>8, <3>3
      <4>2. Kept(EntryOf(caller[b].lsn))
        BY <2>1, <3>3, <4>1 DEF EntriesOK
      <4>3. EntryOf(caller[b].lsn)' = EntryOf(caller[b].lsn)
        BY <1>1, <4>1 DEF EntryOf
      <4>4. \A z : z = EntryOf(caller[b].lsn) => Kept(z)'
        BY <1>2, <1>11, <2>2, <4>2, KeptStays
      <4> QED  BY <4>3, <4>4
    <3>4. Kept(e0)
      BY <1>1, <2>1 DEF EntriesOK, c, e0
    <3>5. \A e \in acked' : e.boot = boot => Kept(e)
      BY <1>1, <2>1, <3>4 DEF EntriesOK
    <3>6. \A e \in acked' : e.boot = boot => Kept(e)'
      BY <1>2, <1>11, <2>2, <3>5, KeptStays
    <3>7. \A e \in synced' : e.boot = boot => Saved(e)'
      BY <1>1, <1>2, <1>11, <2>1, <2>2, KeptStays DEF EntriesOK
    <3> QED  BY <1>1, <3>2, <3>3, <3>6, <3>7 DEF EntriesOK
  <2> QED  BY <2>4, <2>5
<1> QED  BY <1>11, <1>12, <1>13, <1>14 DEF IInv

LEMMA EmptyMap == DOMAIN << >> = {} /\ Range(<< >>) = {}
<1>1. DOMAIN << >> = {}
  OBVIOUS
<1> QED  BY <1>1 DEF Range

(* A process that starts knows of no entry of its own.                     *)
LEMMA FreshOK ==
    ASSUME files \in [SegmentIds -> Seq(Entry)], disk = files, removed \subseteq SegmentIds \ {0},
           active = NewSegment(0, 0), segments = << >>, current_lsn = 0, committed_lsn = 0,
           lsn_index = << >>, shutdown = FALSE, eligible = << >>,
           caller = [a \in Appenders |-> Idle], recreated = FALSE, boot \in 0..MaxBoot,
           acked \subseteq Entry, synced \subseteq acked, committed \subseteq Entry,
           \A e \in acked : e.boot < boot
    PROVE  IInv
<1>1. /\ MaxLsn \in Nat /\ MaxSegment \in Nat /\ MaxBoot \in Nat /\ SegmentSize \in Nat
      /\ BatchSize \in Nat
  BY FileWalAssumption
<1>2. /\ 0 \in Lsns /\ 0 \in SegmentIds /\ 0 \in 0..(BatchSize + 1) /\ 0 \in 0..SegmentSize
      /\ SegmentIds \subseteq Nat /\ boot \in Nat
  BY <1>1 DEF Lsns, SegmentIds
<1>3. Idle \in Caller /\ Idle.at = "idle"
  BY <1>2 DEF Idle, Caller
<1>4. /\ active \in [id : SegmentIds, position : 0..SegmentSize, start_lsn : Lsns, dirty : BOOLEAN]
      /\ active.id = 0 /\ active.position = 0
  BY <1>2 DEF NewSegment
<1>5. TypeOK
  <2>1. caller \in [Appenders -> Caller]
    BY <1>3
  <2> QED  BY <1>2, <1>4, <2>1, EmptyMap DEF TypeOK
<1>6. \A a \in Appenders : caller[a].at = "idle"
  BY <1>3
<1>7. Len(files[0]) \in Nat
  BY <1>2, <1>5, Types
<1>8. Basics
  <2>1. \A e \in acked : e.boot <= boot
    <3>1. \A e \in acked : e.boot \in Nat
      BY <1>1 DEF Entry
    <3> QED  BY <1>2, <3>1
  <2> QED  BY <1>4, <1>6, <1>7, <2>1 DEF Basics
<1>9. Clean
  BY <1>4, <1>7 DEF Clean, CleanMeansDurable
<1>10. SegmentsOK
  <2>1. \A s \in removed : ~(s <= active.id)
    BY <1>2, <1>4
  <2> QED  BY <1>6, <2>1, EmptyMap DEF SegmentsOK
<1>11. EntriesOK
  <2>1. \A e \in acked : e.boot # boot
    <3>1. \A e \in acked : e.boot \in Nat
      BY <1>1 DEF Entry
    <3> QED  BY <1>2, <3>1
  <2> QED  BY <1>6, <2>1, EmptyMap DEF EntriesOK
<1> QED  BY <1>5, <1>8, <1>9, <1>10, <1>11 DEF IInv

LEMMA InitOK == Init => IInv
<1> SUFFICES ASSUME Init PROVE IInv
  OBVIOUS
<1>1. << >> \in Seq(Entry) /\ 0 \in 0..MaxBoot
  BY FileWalAssumption
<1>2. files \in [SegmentIds -> Seq(Entry)] /\ disk = files
  BY <1>1 DEF Init
<1> QED  BY <1>1, <1>2, FreshOK DEF Init

(* The premise of FreshOK, as a predicate of one state.                    *)
Fresh ==
    /\ files \in [SegmentIds -> Seq(Entry)] /\ disk = files /\ removed \subseteq SegmentIds \ {0}
    /\ active = NewSegment(0, 0) /\ segments = << >> /\ current_lsn = 0 /\ committed_lsn = 0
    /\ lsn_index = << >> /\ shutdown = FALSE /\ eligible = << >>
    /\ caller = [a \in Appenders |-> Idle] /\ recreated = FALSE /\ boot \in 0..MaxBoot
    /\ acked \subseteq Entry /\ synced \subseteq acked /\ committed \subseteq Entry
    /\ \A e \in acked : e.boot < boot

LEMMA RestartOK ==
    ASSUME IInv, Restart
    PROVE  Fresh'
<1>1. PICK survives \in {files, disk} :
        files' = [survives EXCEPT ![0] = IF 0 \in removed THEN << >> ELSE survives[0]]
  BY DEF Restart
<1>2. /\ boot < MaxBoot /\ boot' = boot + 1 /\ disk' = files' /\ removed' = removed \ {0}
      /\ active' = NewSegment(0, 0) /\ segments' = << >> /\ current_lsn' = 0 /\ committed_lsn' = 0
      /\ lsn_index' = << >> /\ shutdown' = FALSE /\ eligible' = << >>
      /\ caller' = [a \in Appenders |-> Idle] /\ recreated' = FALSE
      /\ UNCHANGED <<acked, synced, committed>>
  BY DEF Restart
<1>3. boot \in Nat /\ MaxBoot \in Nat
  BY Types DEF IInv
<1>4. boot' \in 0..MaxBoot
  BY <1>2, <1>3
<1>5. \A e \in acked : e.boot < boot'
  <2>1. \A e \in acked : e.boot <= boot /\ e.boot \in Nat
    BY <1>3 DEF IInv, Basics, TypeOK, Entry
  <2> QED  BY <1>2, <1>3, <2>1
<1>6. files' \in [SegmentIds -> Seq(Entry)]
  <2>1. survives \in [SegmentIds -> Seq(Entry)] /\ << >> \in Seq(Entry)
    BY DEF IInv, TypeOK
  <2> QED  BY <1>1, <2>1
<1>7. /\ removed' \subseteq SegmentIds \ {0} /\ acked \subseteq Entry /\ synced \subseteq acked
      /\ committed \subseteq Entry
  BY <1>2 DEF IInv, TypeOK, Basics
<1> QED  BY <1>2, <1>4, <1>5, <1>6, <1>7 DEF Fresh, NewSegment, Idle

-----------------------------------------------------------------------------
(* Every step.                                                             *)

LEMMA NextOK == IInv /\ [Next]_vars => (IInv \/ Fresh)'
<1> SUFFICES ASSUME IInv, [Next]_vars PROVE (IInv \/ Fresh)'
  OBVIOUS
<1>1. CASE UNCHANGED vars
  BY <1>1 DEF vars, IInv, TypeOK, Basics, Clean, CleanMeansDurable, SegmentsOK, EntriesOK,
     CommittedBelow, EntryOf, Kept, Saved, Placed, OnDisk
<1>2. ASSUME NEW a \in Appenders, AppendBegin(a) PROVE IInv'
  <2>1. 1 \in 1..BatchSize
    BY FileWalAssumption
  <2> QED  BY <1>2, <2>1, ReserveOK DEF AppendBegin
<1>3. ASSUME NEW a \in Appenders, AppendBatchBegin(a) PROVE IInv'
  <2>1. BatchSize \in 1..BatchSize
    BY FileWalAssumption
  <2> QED  BY <1>3, <2>1, ReserveOK DEF AppendBatchBegin
<1>4. ASSUME NEW a \in Appenders, AppendDone(a) \/ RotateFail(a) PROVE IInv'
  BY <1>4, ReturnOK DEF AppendDone, RotateFail, Acknowledge, memory, worker, storage, history
<1>5. ASSUME Sync PROVE IInv'
  <2>1. shutdown' \in BOOLEAN
    BY <1>5 DEF Sync, worker, IInv, TypeOK
  <2> QED  BY <1>5, <2>1, SyncOK DEF Sync, worker
<1>6. ASSUME SyncWorker PROVE IInv'
  <2>1. shutdown' \in BOOLEAN
    BY <1>6 DEF SyncWorker, worker, IInv, TypeOK
  <2> QED  BY <1>6, <2>1, SyncOK DEF SyncWorker, WorkerSync, worker, history
<1>7. ASSUME Close PROVE IInv'
  BY <1>7, SyncOK DEF Close
<1> QED  BY <1>1, <1>2, <1>3, <1>4, <1>5, <1>6, <1>7, WriteOK, RotateBeginOK, RotateSwapOK,
            CommitOK, SelectOK, CompactOK, RestartOK DEF Next

(* Every reachable state of the log satisfies the inductive invariant.     *)
THEOREM Inductive == Spec => []IInv
<1>1. Fresh => IInv
  BY FreshOK DEF Fresh
<1>2. IInv /\ [Next]_vars => IInv'
  BY <1>1, NextOK, PTL
<1> QED  BY <1>2, InitOK, PTL DEF Spec

-----------------------------------------------------------------------------
(* What follows from it.                                                   *)

(* A placed entry is in a file, or was compacted away: after its commit,   *)
(* or because it slipped in behind the end that rotate_internal had read.  *)
LEMMA PlacedFound ==
    ASSUME IInv, ~recreated, NEW s \in SegmentIds, NEW i, NEW e \in Entry, e.boot = boot,
           Placed(s, i, e)
    PROVE  s \notin removed \/ e \in committed \cup CompactedLate
<1> SUFFICES ASSUME s \in removed PROVE e \in committed \cup CompactedLate
  OBVIOUS
<1>1. /\ s \in 0..active.id /\ i \in 1..Len(files[s]) /\ files[s][i] = e /\ TypeOK /\ SegmentsOK
  BY DEF IInv, Placed
<1>2. /\ s \in DOMAIN segments /\ CommittedBelow(segments[s].end_lsn)
  <2>1. s <= active.id
    BY <1>1
  <2> QED  BY <1>1, <2>1 DEF SegmentsOK
<1>3. e \in Range(files[s])
  <2>1. DOMAIN files[s] = 1..Len(files[s])
    BY <1>1, Types, LenProperties
  <2> QED  BY <1>1, <2>1 DEF Range
<1>4. e.lsn \in Lsns /\ e = EntryOf(e.lsn)
  BY DEF Entry, EntryOf
<1>5. CASE e.lsn < segments[s].end_lsn
  BY <1>2, <1>4, <1>5 DEF CommittedBelow
<1>6. CASE ~(e.lsn < segments[s].end_lsn)
  <2>1. e.lsn \in Nat /\ segments[s].end_lsn \in Nat
    <3>1. segments[s].end_lsn \in Lsns
      BY <1>1, <1>2 DEF TypeOK, Range, SegmentInfo
    <3> QED  BY <1>1, <1>4, <3>1, Types, Zenon
  <2>2. e.lsn >= segments[s].end_lsn
    BY <1>6, <2>1
  <2> QED  BY <1>2, <1>3, <2>2 DEF CompactedLate
<1> QED  BY <1>5, <1>6

LEMMA KeptFound ==
    ASSUME IInv, ~recreated, NEW e \in Entry, e.boot = boot, Kept(e)
    PROVE  e \in Stored \cup committed \cup CompactedLate
<1>1. PICK s \in SegmentIds, i \in Nat : Placed(s, i, e)
  BY DEF Kept
<1>2. e \in Range(files[s])
  <2>1. i \in 1..Len(files[s]) /\ files[s][i] = e
    BY <1>1 DEF Placed
  <2>2. DOMAIN files[s] = 1..Len(files[s])
    BY Types, LenProperties DEF IInv
  <2> QED  BY <2>1, <2>2 DEF Range
<1>3. s \notin removed => e \in Stored
  BY <1>2 DEF Stored
<1> QED  BY <1>1, <1>3, PlacedFound

LEMMA SavedFound ==
    ASSUME IInv, ~recreated, NEW e \in Entry, e.boot = boot, Saved(e)
    PROVE  e \in Durable \cup committed \cup CompactedLate
<1>1. PICK s \in SegmentIds, i \in Nat : Placed(s, i, e) /\ OnDisk(s, i, e)
  BY DEF Saved
<1>2. e \in Range(disk[s])
  <2>1. i \in 1..Len(disk[s]) /\ disk[s][i] = e
    BY <1>1 DEF OnDisk
  <2>2. DOMAIN disk[s] = 1..Len(disk[s])
    BY Types, LenProperties DEF IInv
  <2> QED  BY <2>1, <2>2 DEF Range
<1>3. s \notin removed => e \in Durable
  BY <1>2 DEF Durable
<1> QED  BY <1>1, <1>3, PlacedFound

(* FileWal stays within its types: positions never pass the segment size   *)
(* and the index stays within it.                                          *)
THEOREM TypeCorrect == Spec => []TypeOK
<1>1. IInv => TypeOK
  BY DEF IInv
<1> QED  BY <1>1, Inductive, PTL

(* No acknowledged entry leaves the log before its commit, but through the *)
(* two races of rotate_internal.                                           *)
THEOREM LostOnlyByRace == Spec => []LostOnlyByRotationRace
<1>1. IInv => LostOnlyByRotationRace
  BY KeptFound DEF IInv, EntriesOK, TypeOK, LostOnlyByRotationRace
<1> QED  BY <1>1, Inductive, PTL

(* What append (in mode EveryWrite) or a later sync() promised to be       *)
(* durable is durable until its commit, but for the same two races.        *)
THEOREM PromisesKept == Spec => []PromisedDurable
<1>1. IInv => PromisedDurable
  <2> SUFFICES ASSUME IInv, ~recreated,
                      NEW e \in (IF FsyncMode = "EveryWrite" THEN acked ELSE synced),
                      e.boot = boot
               PROVE  e \in Durable \cup committed \cup CompactedLate
    BY DEF PromisedDurable
  <2>1. e \in acked /\ e \in Entry
    BY DEF IInv, TypeOK, Basics
  <2>2. Saved(e)
    <3>1. CASE FsyncMode = "EveryWrite"
      BY <2>1, <3>1 DEF IInv, EntriesOK, Kept, Saved
    <3>2. CASE FsyncMode # "EveryWrite"
      BY <3>2 DEF IInv, EntriesOK
    <3> QED  BY <3>1, <3>2
  <2> QED  BY <2>1, <2>2, SavedFound
<1> QED  BY <1>1, Inductive, PTL

(* While segment ids only grow, the index points at the bytes of the very  *)
(* entry that was appended under the LSN.                                  *)
THEOREM IndexIsTruthful == Spec => []IndexTruthful
<1>1. IInv => IndexTruthful
  <2> SUFFICES ASSUME IInv, ~recreated, NEW l \in DOMAIN lsn_index
               PROVE  LET at == lsn_index[l] IN
                      /\ at.offset <= Len(files[at.segment])
                      /\ files[at.segment][at.offset] = EntryOf(l)
    BY DEF IndexTruthful
  <2>1. Placed(lsn_index[l].segment, lsn_index[l].offset, EntryOf(l))
    BY DEF IInv, EntriesOK
  <2> QED  BY <2>1 DEF Placed
<1> QED  BY <1>1, Inductive, PTL

(* In every mode whose sync worker really syncs, a clean segment is on     *)
(* disk up to its position.                                                *)
THEOREM CleanIsDurable ==
    ASSUME FsyncMode # "Periodic"
    PROVE  Spec => []CleanMeansDurable
<1>1. IInv => CleanMeansDurable
  BY DEF IInv, Clean
<1> QED  BY <1>1, Inductive, PTL
================================================================================
