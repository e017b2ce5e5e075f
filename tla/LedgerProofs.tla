---------------------------- MODULE LedgerProofs ----------------------------
(***************************************************************************)
(* The ledger's type correctness, for any number of records and failures.  *)
(***************************************************************************)
EXTENDS Ledger, TLAPS

-----------------------------------------------------------------------------
(* The inductive invariant, in named parts *)

\* The steps of each operation.
Control ==
  /\ op = "none" <=> pc \in {"idle", "down"}
  /\ op = "append" <=> pc \in {"frame", "sync"}
  /\ pc \in {"rename segment", "publish segment"} => op = "seal"
  /\ pc \in {"preserve", "truncate"} => op \in {"open", "recover"}
  /\ pc = "close tail" => op \in {"seal", "recover"}
  /\ pc = "sweep" => op = "open"

\* Segments cover the sealed run, each record once.
Covered(g) ==
  /\ \A n \in 1 .. SealedEnd(g) :
       \E i \in DOMAIN g : g[i].first <= n /\ n <= g[i].last
  /\ \A i, j \in DOMAIN g : i < j => g[i].last < g[j].first

\* The disk holds well-formed files, and no more records than were signed.
DiskInv ==
  /\ SegmentsOK(segs) /\ Covered(segs) /\ SealedEnd(segs) <= minted
  /\ FileOK(tail) /\ tail.last <= minted
  /\ StaleOK
  /\ \A s \in stale :
       Covered(s.segs) /\ SealedEnd(s.segs) <= minted /\ s.tail.last <= minted

\* The steps that find the file as the memory has it.
Settled == (Idle /\ ~frozen) \/ op \in {"seal", "recover"} \/ pc = "frame"

\* Where the tail begins and ends, as the step in progress knows it.
Boundary ==
  /\ pc # "down" /\ ~Empty(tail) => tail.first <= SealedEnd(segs) + 1
  /\ Settled => lastSeq = End(segs, tail)
  /\ op = "append" => lastSeq < minted /\ rec \in Record
  /\ pc = "sync" => ~Empty(tail) /\ tail.last = lastSeq + 1
  /\ Ready \/ op = "append" \/ pc = "rename segment" =>
       /\ sealedSeq = SealedEnd(segs)
       /\ ~Empty(tail) => tail.first = sealedSeq + 1
       /\ lastSeq >= sealedSeq
  /\ pc = "rename segment" => sealedSeq < head /\ head <= lastSeq
  /\ pc = "preserve" => Torn
  /\ pc \in {"copy tail", "rename tail"} => Overlaps(segs, tail)
  /\ pc \in {"publish tail", "reopen"} =>
       (~Empty(tail) => tail.first = SealedEnd(segs) + 1)

TypeInv == DiskInv /\ MemoryOK /\ Control /\ Boundary

-----------------------------------------------------------------------------
(* Lemmas about segments and files *)

\* What is sealed ends with the last segment.
LEMMA SegmentsFacts ==
  ASSUME NEW g, SegmentsOK(g)
  PROVE  /\ Len(g) \in Nat /\ DOMAIN g = 1 .. Len(g)
         /\ g = <<>> <=> Len(g) = 0
         /\ SealedEnd(g) \in 0 .. MaxRecords
         /\ g # <<>> => Len(g) \in DOMAIN g /\ SealedEnd(g) = g[Len(g)].last
BY BoundsAssumption DEF SegmentsOK, SegmentOK, SealedEnd

\* A published segment becomes the last one.
LEMMA AppendSegment ==
  ASSUME NEW g, SegmentsOK(g), NEW x, SegmentOK(x)
  PROVE  /\ SegmentsOK(Append(g, x))
         /\ DOMAIN Append(g, x) = 1 .. Len(g) + 1
         /\ SealedEnd(Append(g, x)) = x.last
         /\ Append(g, x)[Len(g) + 1] = x
         /\ \A i \in DOMAIN g : Append(g, x)[i] = g[i]
<1> DEFINE S == {g[i] : i \in DOMAIN g} \cup {x}
           h == Append(g, x)
<1>1. g \in Seq(S) BY DEF SegmentsOK
<1>2. h \in Seq(S) /\ Len(h) = Len(g) + 1 /\ h[Len(g) + 1] = x
      /\ \A i \in 1 .. Len(g) : h[i] = g[i]
  BY <1>1
<1>3. DOMAIN h = 1 .. Len(g) + 1 BY <1>2
<1>4. h \in Seq({h[i] : i \in DOMAIN h}) BY <1>2
<1>5. \A i \in DOMAIN h : SegmentOK(h[i])
  BY <1>2, <1>3, SegmentsFacts DEF SegmentsOK
<1>6. SealedEnd(h) = x.last BY <1>2, <1>3 DEF SealedEnd
<1> QED BY <1>2, <1>3, <1>4, <1>5, <1>6, SegmentsFacts, SMTT(60) DEF SegmentsOK

\* The numbers of a tail file and the end of the record it gives.
LEMMA FileFacts ==
  ASSUME NEW g, SegmentsOK(g), NEW t, FileOK(t)
  PROVE  /\ t.first \in Nat /\ t.last \in Nat /\ t.synced \in Nat
         /\ t.first >= 1 /\ t.first - 1 <= t.synced /\ t.synced <= t.last
         /\ t.last <= MaxRecords
         /\ End(g, t) \in 0 .. MaxRecords /\ SealedEnd(g) <= End(g, t)
         /\ SealedEnd(g) < End(g, t) => ~Empty(t) /\ End(g, t) = t.last
BY BoundsAssumption, SegmentsFacts DEF FileOK, End, Empty

\* A power loss cuts a file back, at most to its synced part, and changes no
\* record.
LEMMA CutOK ==
  ASSUME NEW t, FileOK(t), NEW u \in AfterLoss(t)
  PROVE  /\ FileOK(u) /\ u.first = t.first /\ u.last <= t.last
         /\ t.synced <= u.last /\ u.synced = u.last
         /\ \A n \in u.first .. u.last : u.recs[n] = t.recs[n]
<1>1. PICK k \in t.synced .. t.last :
        u \in {CutAt(t, k, 0), CutAt(t, k, FrameAfter(t, k))}
  BY DEF AfterLoss
<1>2. /\ t.first \in 1 .. MaxRecords + 1 /\ t.last \in 0 .. MaxRecords
      /\ k \in t.first - 1 .. t.last /\ k \in Int /\ t.synced \in Int
      /\ t.recs \in [t.first .. t.last -> Record]
  BY BoundsAssumption DEF FileOK
<1>3. FrameAfter(t, k) \in 0 .. MaxRecords
  BY <1>2, BoundsAssumption, SMTT(60) DEF FrameAfter, FileOK, Record, Ids
<1>4. [n \in t.first .. k |-> t.recs[n]] \in [t.first .. k -> Record]
  BY <1>2
<1>5. PICK f \in 0 .. MaxRecords : u = CutAt(t, k, f)
  BY <1>1, <1>3, BoundsAssumption
<1>6. /\ u = [first |-> t.first, last |-> k,
              recs |-> [n \in t.first .. k |-> t.recs[n]],
              synced |-> k, torn |-> f]
  BY <1>5 DEF CutAt
<1>7. FileOK(u) BY <1>2, <1>4, <1>6, BoundsAssumption DEF FileOK
<1> QED BY <1>1, <1>2, <1>6, <1>7

-----------------------------------------------------------------------------
(* Type correctness *)

\* A new ledger is well typed.
LEMMA InitType == Init => TypeInv
<1> SUFFICES ASSUME Init PROVE TypeInv OBVIOUS
<1>1. SealedEnd(segs) = 0 BY DEF Init, SealedEnd
<1>2. DiskInv
  <2>1. SegmentsOK(segs) BY DEF Init, SegmentsOK
  <2>2. [id |-> 1, prev |-> 0, kind |-> "event"] \in Record
    BY BoundsAssumption DEF Record, Ids, Kinds
  <2>3. FileOK(tail) /\ tail.last <= minted
    BY <2>2, BoundsAssumption DEF Init, FileOK
  <2>4. StaleOK BY DEF Init, StaleOK
  <2> QED BY <1>1, <2>1, <2>3, <2>4 DEF DiskInv, Covered, Init
<1>3. MemoryOK
  <2>1. acked \in Seq(Ids) BY BoundsAssumption DEF Init, Ids
  <2>2. /\ debris \in BOOLEAN /\ kept \subseteq Ids
        /\ file \in BOOLEAN /\ sealErr \in BOOLEAN /\ frozen \in BOOLEAN
        /\ op \in Ops /\ pc \in Steps /\ rec \in Record \cup {NoRecord}
    BY Zenon DEF Init, Ops, Steps
  <2>3. /\ lastSeq \in 0 .. MaxRecords /\ lastHash \in 0 .. MaxRecords
        /\ sealedSeq \in 0 .. MaxRecords /\ sealedHash \in 0 .. MaxRecords
        /\ head \in 0 .. MaxRecords /\ minted \in Ids /\ faults \in 0 .. MaxFaults
    BY BoundsAssumption DEF Init, Ids
  <2> QED BY <2>1, <2>2, <2>3 DEF MemoryOK
<1>4. Control BY DEF Init, Control
<1>5. Boundary
  BY <1>1 DEF Init, Boundary, Settled, Idle, at, Ready, End, Empty, Overlaps, Torn
<1> QED BY <1>2, <1>3, <1>4, <1>5 DEF TypeInv

\* The bounds of the tail, of what is sealed and of the record.
LEMMA TypedBounds ==
  ASSUME DiskInv
  PROVE  /\ tail.first \in Nat /\ tail.last \in Nat /\ tail.synced \in Nat
         /\ tail.first >= 1 /\ tail.first - 1 <= tail.last
         /\ tail.last <= MaxRecords /\ MaxRecords \in Nat
         /\ SealedEnd(segs) \in 0 .. MaxRecords
         /\ End(segs, tail) \in 0 .. MaxRecords
         /\ SealedEnd(segs) <= End(segs, tail) /\ End(segs, tail) <= minted
         /\ SealedEnd(segs) < End(segs, tail) =>
              ~Empty(tail) /\ End(segs, tail) = tail.last
BY BoundsAssumption, SegmentsFacts, FileFacts DEF DiskInv, End

\* A tail that does not overlap the sealed run begins right after it.
LEMMA StartsAfterSeal ==
  ASSUME DiskInv, ~Empty(tail) => tail.first <= SealedEnd(segs) + 1
  PROVE  Overlaps(segs, tail) \/ (~Empty(tail) => tail.first = SealedEnd(segs) + 1)
BY TypedBounds DEF Overlaps

\* A fault stays within the bound on faults.
LEMMA FaultCounted ==
  ASSUME faults \in 0 .. MaxFaults, Fault PROVE faults' \in 0 .. MaxFaults
BY BoundsAssumption DEF Fault

\* Zero is a possible position.
LEMMA ZeroInRange == 0 \in 0 .. MaxRecords
BY BoundsAssumption

\* Every position up to the end of the record holds one.
LEMMA RecordAtType ==
  ASSUME NEW g, SegmentsOK(g), Covered(g), NEW t, FileOK(t),
         ~Empty(t) => t.first <= SealedEnd(g) + 1,
         NEW n \in 1 .. End(g, t)
  PROVE  RecordAt(g, t, n) \in Record /\ RecordAt(g, t, n).id \in Ids
<1>1. CASE n <= SealedEnd(g)
  <2>1. \E i \in DOMAIN g : g[i].first <= n /\ n <= g[i].last
    BY <1>1, SegmentsFacts, FileFacts DEF Covered
  <2>2. /\ SegmentOf(g, n) \in DOMAIN g
        /\ g[SegmentOf(g, n)].first <= n /\ n <= g[SegmentOf(g, n)].last
    BY <2>1 DEF SegmentOf
  <2>3. g[SegmentOf(g, n)].recs[n] \in Record
    BY <2>2, FileFacts, BoundsAssumption DEF SegmentsOK, SegmentOK
  <2> QED BY <1>1, <2>3 DEF RecordAt, Record
<1>2. CASE ~(n <= SealedEnd(g))
  <2>1. ~Empty(t) /\ n <= t.last /\ t.first <= n
    BY <1>2, SegmentsFacts, FileFacts
  <2>2. t.recs[n] \in Record BY <2>1, FileFacts DEF FileOK
  <2> QED BY <1>2, <2>2 DEF RecordAt, Record
<1> QED BY <1>1, <1>2

\* A step that leaves the files alone keeps the disk well formed.
LEMMA SameDisk ==
  ASSUME DiskInv, UNCHANGED <<segs, tail, minted>>, stale' \in {stale, {}}
  PROVE  DiskInv'
<1>1. SegmentsOK(segs)' /\ Covered(segs)' /\ (SealedEnd(segs) <= minted)'
  BY DEF DiskInv
<1>2. FileOK(tail)' /\ (tail.last <= minted)' BY DEF DiskInv
<1>3. StaleOK' BY DEF DiskInv, StaleOK
<1>4. \A s \in stale' :
       Covered(s.segs) /\ SealedEnd(s.segs) <= minted' /\ s.tail.last <= minted'
  BY DEF DiskInv
<1> QED BY <1>1, <1>2, <1>3, <1>4 DEF DiskInv

\* Seal removes the segment it could not write.
LEMMA SealAbortType == TypeInv /\ SealAbort => TypeInv'
<1> SUFFICES ASSUME TypeInv, SealAbort PROVE TypeInv' OBVIOUS
<1> USE DEF TypeInv, SealAbort, Goto
<1>1. DiskInv' BY SameDisk DEF SyncDir, disk
<1>2. MemoryOK'
  <2>1. faults' \in 0 .. MaxFaults BY FaultCounted DEF MemoryOK
  <2> QED
    BY <2>1, ZeroInRange
    DEF MemoryOK, bounds, state, disk, Steps, Ops, Forget
<1>3. Control' BY DEF Control, at, Idle, Down, Forget
<1>4. Boundary'
  BY TypedBounds
  DEF Boundary, bounds, state, disk, Settled, Idle, Down, at, Ready, Control,
      Forget, VerifyChain, Overlaps, Empty, Torn
<1> QED BY <1>1, <1>2, <1>3, <1>4

\* Seal syncs the directory.
LEMMA SealPublishType == TypeInv /\ SealPublish => TypeInv'
<1> SUFFICES ASSUME TypeInv, SealPublish PROVE TypeInv' OBVIOUS
<1> USE DEF TypeInv, SealPublish, Goto
<1>1. DiskInv' BY SameDisk DEF SyncDir, disk
<1>2. MemoryOK' BY DEF MemoryOK, bounds, state, disk, Steps, Ops
<1>3. Control' BY DEF Control, at, Idle, Down, Forget
<1>4. Boundary'
  BY TypedBounds
  DEF Boundary, bounds, state, disk, Settled, Idle, Down, at, Ready, Control,
      Forget, VerifyChain, Overlaps, Empty, Torn
<1> QED BY <1>1, <1>2, <1>3, <1>4

\* replaceTail writes the new tail beside the old one.
LEMMA CopyTailType == TypeInv /\ CopyTail => TypeInv'
<1> SUFFICES ASSUME TypeInv, CopyTail PROVE TypeInv' OBVIOUS
<1> USE DEF TypeInv, CopyTail, Goto
<1>1. DiskInv' BY SameDisk DEF SyncDir, disk
<1>2. MemoryOK' BY DEF MemoryOK, bounds, state, disk, Steps, Ops
<1>3. Control' BY DEF Control, at, Idle, Down, Forget
<1>4. Boundary'
  BY TypedBounds
  DEF Boundary, bounds, state, disk, Settled, Idle, Down, at, Ready, Control,
      Forget, VerifyChain, Overlaps, Empty, Torn
<1> QED BY <1>1, <1>2, <1>3, <1>4

\* replaceTail syncs the directory.
LEMMA PublishTailType == TypeInv /\ PublishTail => TypeInv'
<1> SUFFICES ASSUME TypeInv, PublishTail PROVE TypeInv' OBVIOUS
<1> USE DEF TypeInv, PublishTail, Goto
<1>1. DiskInv' BY SameDisk DEF SyncDir, disk
<1>2. MemoryOK' BY DEF MemoryOK, bounds, state, disk, Steps, Ops
<1>3. Control' BY DEF Control, at, Idle, Down, Forget
<1>4. Boundary'
  BY TypedBounds
  DEF Boundary, bounds, state, disk, Settled, Idle, Down, at, Ready, Control,
      Forget, VerifyChain, Overlaps, Empty, Torn
<1> QED BY <1>1, <1>2, <1>3, <1>4

\* An open keeps the torn frame before it cuts it.
LEMMA PreserveType == TypeInv /\ Preserve => TypeInv'
<1> SUFFICES ASSUME TypeInv, Preserve PROVE TypeInv' OBVIOUS
<1> USE DEF TypeInv, Preserve, Goto
<1>1. DiskInv' BY SameDisk DEF SyncDir, disk
<1>2. MemoryOK'
  <2>1. tail.torn \in Ids
    BY BoundsAssumption DEF DiskInv, FileOK, Ids, Boundary, Torn
  <2> QED BY <2>1 DEF MemoryOK, bounds, state, Steps
<1>3. Control' BY DEF Control, at, Idle, Down, Forget
<1>4. Boundary'
  BY TypedBounds
  DEF Boundary, bounds, state, disk, Settled, Idle, Down, at, Ready, Control,
      Forget, VerifyChain, Overlaps, Empty, Torn
<1> QED BY <1>1, <1>2, <1>3, <1>4

\* An open removes what an interrupted seal left.
LEMMA SweepType == TypeInv /\ Sweep => TypeInv'
<1> SUFFICES ASSUME TypeInv, Sweep PROVE TypeInv' OBVIOUS
<1> USE DEF TypeInv, Sweep, Goto
<1>1. DiskInv' BY SameDisk DEF SyncDir, disk
<1>2. MemoryOK' BY DEF MemoryOK, bounds, state, disk, Steps, Ops
<1>3. Control' BY DEF Control, at, Idle, Down, Forget
<1>4. Boundary'
  <2>1. Overlaps(segs, tail) \/ (~Empty(tail) => tail.first = SealedEnd(segs) + 1)
    BY StartsAfterSeal DEF Boundary
  <2> QED
    BY <2>1 DEF Boundary, bounds, state, Settled, Idle, at, Ready, Control
<1> QED BY <1>1, <1>2, <1>3, <1>4

\* SetFrozen touches no file.
LEMMA SetFrozenType == TypeInv /\ SetFrozen => TypeInv'
<1> SUFFICES ASSUME TypeInv, SetFrozen PROVE TypeInv' OBVIOUS
<1> USE DEF TypeInv, SetFrozen, Goto
<1>1. DiskInv' BY SameDisk DEF SyncDir, disk
<1>2. MemoryOK' BY ZenonT(60) DEF MemoryOK, bounds, state, disk, Steps, Ops
<1>3. Control' BY DEF Control, at, Idle, Down, Forget
<1>4. Boundary'
  BY TypedBounds
  DEF Boundary, bounds, state, disk, Settled, Idle, Down, at, Ready, Control,
      Forget, VerifyChain, Overlaps, Empty, Torn
<1> QED BY <1>1, <1>2, <1>3, <1>4

\* OpenVerified reads the container.
LEMMA OpenBeginType == TypeInv /\ OpenBegin => TypeInv'
<1> SUFFICES ASSUME TypeInv, OpenBegin PROVE TypeInv' OBVIOUS
<1> USE DEF TypeInv, OpenBegin, Goto
<1>1. DiskInv' BY SameDisk DEF SyncDir, disk
<1>2. MemoryOK' BY DEF MemoryOK, bounds, state, disk, Steps, Ops
<1>3. Control' BY DEF Control, at, Idle, Down, Forget
<1>4. Boundary'
  BY TypedBounds
  DEF Boundary, bounds, state, disk, Settled, Idle, Down, at, Ready, Control,
      Forget, VerifyChain, Overlaps, Empty, Torn
<1> QED BY <1>1, <1>2, <1>3, <1>4

\* RecoverSeal syncs the directory and reads the container again.
LEMMA RecoverBeginType == TypeInv /\ RecoverBegin => TypeInv'
<1> SUFFICES ASSUME TypeInv, RecoverBegin PROVE TypeInv' OBVIOUS
<1> USE DEF TypeInv, RecoverBegin, Goto
<1>1. DiskInv' BY SameDisk DEF SyncDir, disk
<1>2. MemoryOK' BY DEF MemoryOK, bounds, state, disk, Steps, Ops
<1>3. Control' BY DEF Control, at, Idle, Down, Forget
<1>4. Boundary'
  BY TypedBounds, Zenon
  DEF Boundary, bounds, state, disk, Settled, Idle, Down, at, Ready, Control,
      Forget, VerifyChain, Overlaps, Empty, Torn
<1> QED BY <1>1, <1>2, <1>3, <1>4

\* A failed seal leaves the ledger asking for recovery.
LEMMA SealFailType == TypeInv /\ SealFail => TypeInv'
<1> SUFFICES ASSUME TypeInv, SealFail PROVE TypeInv' OBVIOUS
<1> USE DEF TypeInv, SealFail, Goto
<1>1. DiskInv' BY SameDisk DEF SyncDir, disk
<1>2. MemoryOK'
  <2>1. faults' \in 0 .. MaxFaults BY FaultCounted DEF MemoryOK
  <2> QED
    BY <2>1, ZeroInRange
    DEF MemoryOK, bounds, state, disk, Steps, Ops, Forget
<1>3. Control' BY DEF Control, at, Idle, Down, Forget
<1>4. Boundary'
  BY TypedBounds, Zenon
  DEF Boundary, bounds, state, disk, Settled, Idle, Down, at, Ready, Control,
      Forget, VerifyChain, Overlaps, Empty, Torn
<1> QED BY <1>1, <1>2, <1>3, <1>4

\* The tail is opened again and appending goes on.
LEMMA ReopenType == TypeInv /\ Reopen => TypeInv'
<1> SUFFICES ASSUME TypeInv, Reopen PROVE TypeInv' OBVIOUS
<1> USE DEF TypeInv, Reopen, Goto
<1>1. DiskInv' BY SameDisk DEF SyncDir, disk
<1>2. MemoryOK'
  <2>1. \A n \in 0 .. End(segs, tail) : HashAt(segs, tail, n) \in 0 .. MaxRecords
    BY RecordAtType, TypedBounds, SMTT(60) DEF HashAt, DiskInv, Boundary, Ids
  <2>2. /\ lastSeq' \in 0 .. MaxRecords /\ lastHash' \in 0 .. MaxRecords
        /\ sealedSeq' \in 0 .. MaxRecords /\ sealedHash' \in 0 .. MaxRecords
    BY <2>1, TypedBounds, SMTT(60) DEF MemoryOK
  <2> QED BY <2>2, Zenon DEF MemoryOK, disk, Ops, Steps
<1>3. Control' BY DEF Control, at, Idle, Down, Forget
<1>4. Boundary'
  <2>1. ~Empty(tail) => tail.first = SealedEnd(segs) + 1 BY DEF Boundary
  <2>2. lastSeq' = End(segs, tail)
    <3>1. op \in {"seal", "recover", "open"} BY DEF Control, MemoryOK, Ops
    <3> QED BY <3>1 DEF Boundary, Settled
  <2>3. SealedEnd(segs) <= End(segs, tail) BY TypedBounds
  <2>4. sealedSeq' = SealedEnd(segs) /\ lastSeq' >= sealedSeq'
    BY <2>2, <2>3, TypedBounds
  <2> QED
    BY <2>1, <2>2, <2>4
    DEF Boundary, disk, Settled, Idle, at, Ready, Control, Empty
<1> QED BY <1>1, <1>2, <1>3, <1>4

\* A process that dies leaves the files as they are.
LEMMA CrashType == TypeInv /\ Crash => TypeInv'
<1> SUFFICES ASSUME TypeInv, Crash PROVE TypeInv' OBVIOUS
<1> USE DEF TypeInv, Crash, Goto
<1>1. DiskInv' BY SameDisk DEF SyncDir, disk
<1>2. MemoryOK'
  <2>1. faults' \in 0 .. MaxFaults BY FaultCounted DEF MemoryOK
  <2> QED
    BY <2>1, ZeroInRange
    DEF MemoryOK, bounds, state, disk, Steps, Ops, Forget
<1>3. Control' BY DEF Control, at, Idle, Down, Forget
<1>4. Boundary'
  BY TypedBounds, Zenon
  DEF Boundary, bounds, state, disk, Settled, Idle, Down, at, Ready, Control,
      Forget, VerifyChain, Overlaps, Empty, Torn
<1> QED BY <1>1, <1>2, <1>3, <1>4

\* A tail that only grew, or was synced, keeps the disk well formed.
LEMMA NewTail ==
  ASSUME DiskInv, segs' = segs, stale' \in {stale, {}}, FileOK(tail'),
         tail'.last <= minted', minted <= minted', minted \in Nat, minted' \in Nat
  PROVE  DiskInv'
<1>1. SegmentsOK(segs)' /\ Covered(segs)' BY DEF DiskInv
<1>2. (SealedEnd(segs) <= minted)' BY SegmentsFacts DEF DiskInv
<1>3. StaleOK' BY DEF DiskInv, StaleOK
<1>4. \A s \in stale' :
       Covered(s.segs) /\ SealedEnd(s.segs) <= minted' /\ s.tail.last <= minted'
  <2> SUFFICES ASSUME NEW s \in stale
               PROVE  /\ Covered(s.segs) /\ SealedEnd(s.segs) <= minted'
                      /\ s.tail.last <= minted'
    OBVIOUS
  <2>1. SegmentsOK(s.segs) /\ FileOK(s.tail) BY DEF DiskInv, StaleOK, DirectoryOK
  <2>2. SealedEnd(s.segs) \in Nat /\ s.tail.last \in Nat
    BY <2>1, SegmentsFacts, FileFacts
  <2> QED BY <2>2 DEF DiskInv
<1> QED BY <1>1, <1>2, <1>3, <1>4, SMTT(60) DEF DiskInv

\* Syncing a file, or a torn frame at its end, changes no record.
LEMMA EditedFile ==
  ASSUME NEW t, FileOK(t), NEW x \in 0 .. MaxRecords,
         NEW u \in {[t EXCEPT !.torn = x], FileSynced(t),
                    [FileSynced(t) EXCEPT !.torn = x]}
  PROVE  /\ FileOK(u) /\ u.first = t.first /\ u.last = t.last /\ u.recs = t.recs
         /\ u.synced \in {t.synced, t.last}
<1>1. PICK y \in {t.synced, t.last}, z \in 0 .. MaxRecords :
        u = [first |-> t.first, last |-> t.last, recs |-> t.recs,
             synced |-> y, torn |-> z]
  BY Zenon DEF FileOK, FileSynced
<1>2. y \in t.first - 1 .. t.last BY <1>1, BoundsAssumption DEF FileOK
<1> QED BY <1>1, <1>2 DEF FileOK

\* Where the tail's extent and the segments stay, so does every boundary.
LEMMA SameExtent ==
  ASSUME segs' = segs, tail'.first = tail.first, tail'.last = tail.last
  PROVE  /\ SealedEnd(segs') = SealedEnd(segs)
         /\ End(segs', tail') = End(segs, tail)
         /\ Empty(tail') <=> Empty(tail)
         /\ Overlaps(segs', tail') <=> Overlaps(segs, tail)
BY DEF End, Empty, Overlaps

\* AppendPrepared checks the tail and begins a frame.
LEMMA AppendBeginType ==
  ASSUME TypeInv, NEW kind \in Kinds, AppendBegin(kind) PROVE TypeInv'
<1> USE DEF TypeInv, Goto
<1>1. /\ minted' = minted + 1 /\ minted' \in Ids /\ minted \in Nat
      /\ minted' \in 0 .. MaxRecords
  BY BoundsAssumption DEF AppendBegin, MemoryOK, Ids
<1>2. /\ FileOK(tail') /\ tail'.first = tail.first /\ tail'.last = tail.last
  BY <1>1, EditedFile, ZenonT(60) DEF AppendBegin, DiskInv
<1>3. DiskInv'
  <2>1. tail.last <= minted' BY <1>1, TypedBounds DEF DiskInv
  <2> QED BY <1>1, <1>2, <2>1, NewTail DEF AppendBegin, Ids
<1>4. rec' \in Record BY <1>1 DEF AppendBegin, Record, MemoryOK
<1>5. MemoryOK'
  BY <1>1, <1>4 DEF AppendBegin, MemoryOK, bounds, state, Ops, Steps
<1>6. Control' BY DEF AppendBegin, Control
<1>7. Boundary'
  <2>1. /\ sealedSeq = SealedEnd(segs) /\ lastSeq = End(segs, tail)
        /\ ~Empty(tail) => tail.first = sealedSeq + 1
        /\ ~Empty(tail) => tail.first <= SealedEnd(segs) + 1
        /\ lastSeq >= sealedSeq
    BY DEF Boundary, AppendBegin, Ready, Settled, Idle, at
  <2>2. lastSeq < minted' BY <1>1, <2>1, TypedBounds
  <2> QED
    BY <1>2, <1>4, <2>1, <2>2, SameExtent
    DEF Boundary, AppendBegin, Settled, Ready, Idle, at, bounds
<1> QED BY <1>3, <1>5, <1>6, <1>7

\* AppendPrepared has written its record.
LEMMA AppendWrittenType == TypeInv /\ AppendWritten => TypeInv'
<1> SUFFICES ASSUME TypeInv, AppendWritten PROVE TypeInv' OBVIOUS
<1> USE DEF TypeInv, Goto
<1> DEFINE n == lastSeq + 1
           first == IF Empty(tail) THEN n ELSE tail.first
<1>1. /\ sealedSeq = SealedEnd(segs) /\ lastSeq = End(segs, tail)
      /\ ~Empty(tail) => tail.first = sealedSeq + 1
      /\ lastSeq >= sealedSeq /\ lastSeq < minted /\ rec \in Record
  BY SMTT(60) DEF AppendWritten, at, Boundary, Settled
<1>2. /\ n \in 1 .. MaxRecords /\ n <= minted /\ minted \in Nat
      /\ ~Empty(tail) => tail.last = lastSeq
      /\ Empty(tail) => lastSeq = SealedEnd(segs)
      /\ first \in 1 .. n
  BY <1>1, BoundsAssumption, TypedBounds, SMTT(60) DEF MemoryOK, Ids, End, Empty
<1>3. tail' = [first |-> first, last |-> n,
               recs |-> [i \in first .. n |-> IF i = n THEN rec ELSE tail.recs[i]],
               synced |-> IF Empty(tail) THEN n - 1 ELSE tail.synced, torn |-> 0]
  BY SMTT(60) DEF AppendWritten
<1>4. FileOK(tail')
  <2>1. [i \in first .. n |-> IF i = n THEN rec ELSE tail.recs[i]]
          \in [first .. n -> Record]
    <3> SUFFICES ASSUME NEW i \in first .. n, i # n PROVE tail.recs[i] \in Record
      BY <1>1
    <3>1. ~Empty(tail) BY <1>2, TypedBounds
    <3>2. i \in tail.first .. tail.last BY <1>2, <3>1, TypedBounds
    <3> QED BY <3>2 DEF DiskInv, FileOK
  <2>2. tail'.synced \in first - 1 .. n
    BY <1>2, <1>3, TypedBounds, FileFacts, SMTT(60) DEF DiskInv
  <2> QED BY <1>2, <1>3, <2>1, <2>2, BoundsAssumption DEF FileOK
<1>5. DiskInv' BY <1>2, <1>3, <1>4, NewTail, SMTT(60) DEF AppendWritten
<1>6. MemoryOK' BY Zenon DEF AppendWritten, MemoryOK, bounds, state, Ops, Steps
<1>7. Control' BY Zenon DEF AppendWritten, Control
<1>8. Boundary'
  <2>1. ~Empty(tail)' /\ tail'.last = lastSeq + 1 /\ tail'.first = sealedSeq + 1
    BY <1>1, <1>2, <1>3, SMTT(60) DEF Empty
  <2>2. tail'.first <= SealedEnd(segs') + 1
    BY <1>1, <2>1, TypedBounds DEF AppendWritten
  <2> QED
    BY <1>1, <2>1, <2>2
    DEF Boundary, AppendWritten, Settled, Ready, Idle, at, bounds, state
<1> QED BY <1>5, <1>6, <1>7, <1>8

\* AppendPrepared syncs the tail and acknowledges.
LEMMA AppendSyncType == TypeInv /\ AppendSync => TypeInv'
<1> SUFFICES ASSUME TypeInv, AppendSync PROVE TypeInv' OBVIOUS
<1> USE DEF TypeInv, Goto
<1>1. /\ sealedSeq = SealedEnd(segs) /\ rec \in Record /\ lastSeq < minted
      /\ ~Empty(tail) /\ tail.last = lastSeq + 1 /\ tail.first = sealedSeq + 1
      /\ lastSeq >= sealedSeq
  BY DEF AppendSync, at, Boundary, Control
<1>2. FileOK(tail') /\ tail'.first = tail.first /\ tail'.last = tail.last
  BY EditedFile, ZeroInRange, Zenon DEF AppendSync, DiskInv
<1>3. DiskInv'
  BY <1>2, NewTail, SMTT(60) DEF AppendSync, FileSyncPublishes, DiskInv, MemoryOK, Ids
<1>4. lastSeq' \in 0 .. MaxRecords /\ lastHash' \in 0 .. MaxRecords
  BY <1>1, TypedBounds DEF AppendSync, Record, Ids
<1>5. acked' \in Seq(Ids)
  <2>1. \A n \in 1 .. End(segs, tail) : RecordAt(segs, tail, n).id \in Ids
    BY <1>1, RecordAtType, TypedBounds, SMTT(60) DEF DiskInv
  <2>2. acked' = [n \in 1 .. End(segs, tail) |-> RecordAt(segs, tail, n).id]
    BY DEF AppendSync, Chain
  <2>3. End(segs, tail) \in Nat BY TypedBounds
  <2> QED BY <2>1, <2>2, <2>3
<1>6. MemoryOK'
  BY <1>4, <1>5, Zenon DEF AppendSync, MemoryOK, state, Ops, Steps
<1>7. Control' BY DEF AppendSync, Control
<1>8. Boundary'
  <2>1. End(segs, tail) = tail.last BY <1>1, TypedBounds DEF End
  <2>2. lastSeq' = End(segs', tail') /\ lastSeq' >= sealedSeq'
        /\ sealedSeq' = SealedEnd(segs')
    BY <1>1, <1>2, <2>1, SameExtent, TypedBounds DEF AppendSync
  <2>3. tail'.first = sealedSeq' + 1 BY <1>1, <1>2 DEF AppendSync
  <2>4. tail'.first <= SealedEnd(segs') + 1 BY <2>2, <2>3, <1>2, TypedBounds
  <2> QED
    BY <2>2, <2>3, <2>4 DEF Boundary, AppendSync, Settled, Ready, Idle, at
<1> QED BY <1>3, <1>6, <1>7, <1>8

\* uncertainAppend freezes the ledger.
LEMMA AppendFailType == TypeInv /\ AppendFail => TypeInv'
<1> SUFFICES ASSUME TypeInv, AppendFail PROVE TypeInv' OBVIOUS
<1> USE DEF TypeInv, Goto
<1>1. FileOK(tail') /\ tail'.first = tail.first /\ tail'.last = tail.last
  <2>1. tail' = tail \/ tail' = [tail EXCEPT !.torn = 0] BY DEF AppendFail
  <2>2. FileOK(tail) BY DEF DiskInv
  <2>3. CASE tail' = tail BY <2>2, <2>3
  <2>4. CASE tail' = [tail EXCEPT !.torn = 0]
    BY <2>2, <2>4, EditedFile, ZeroInRange, Zenon
  <2> QED BY <2>1, <2>3, <2>4
<1>2. DiskInv' BY <1>1, NewTail DEF AppendFail, DiskInv, MemoryOK, Ids
<1>3. MemoryOK'
  <2>1. faults' \in 0 .. MaxFaults BY FaultCounted DEF AppendFail, MemoryOK
  <2> QED BY <2>1 DEF AppendFail, MemoryOK, bounds, Ops, Steps
<1>4. Control' BY DEF AppendFail, Control
<1>5. Boundary'
  BY <1>1, SameExtent
  DEF Boundary, AppendFail, Control, Settled, Ready, Idle, at
<1> QED BY <1>2, <1>3, <1>4, <1>5

\* writeSegment copies the records from the tail.
LEMMA SealBeginType ==
  ASSUME TypeInv, NEW h \in 1 .. MaxRecords, SealBegin(h) PROVE TypeInv'
<1> USE DEF TypeInv, Goto
<1>1. DiskInv' BY SameDisk, Zenon DEF SealBegin
<1>2. h \in 0 .. MaxRecords BY BoundsAssumption
<1>3. MemoryOK' BY <1>2, Zenon DEF SealBegin, MemoryOK, bounds, state, Ops, Steps
<1>4. Control' BY Zenon DEF SealBegin, Control
<1>5. h > sealedSeq /\ h <= lastSeq => sealedSeq < h
  BY <1>2, BoundsAssumption DEF MemoryOK
<1>6. Boundary'
  BY <1>5, Zenon DEF Boundary, SealBegin, Settled, Ready, Idle, at, bounds, state
<1> QED BY <1>1, <1>3, <1>4, <1>6

\* A segment that starts after the last one leaves no gap.
LEMMA CoveredAppend ==
  ASSUME NEW g, SegmentsOK(g), Covered(g), NEW x, SegmentOK(x),
         x.first = SealedEnd(g) + 1
  PROVE  Covered(Append(g, x))
<1> DEFINE h == Append(g, x)
<1>1. /\ DOMAIN h = 1 .. Len(g) + 1 /\ SealedEnd(h) = x.last
      /\ h[Len(g) + 1] = x /\ \A i \in 1 .. Len(g) : h[i] = g[i]
      /\ Len(g) \in Nat /\ DOMAIN g = 1 .. Len(g)
      /\ SealedEnd(g) \in Nat /\ x.last \in Nat
  BY AppendSegment, SegmentsFacts, BoundsAssumption DEF SegmentOK
<1>2. \A n \in 1 .. SealedEnd(h) : \E i \in DOMAIN h : h[i].first <= n /\ n <= h[i].last
  <2> SUFFICES ASSUME NEW n \in 1 .. x.last
               PROVE  \E i \in DOMAIN h : h[i].first <= n /\ n <= h[i].last
    BY <1>1
  <2>1. CASE n <= SealedEnd(g)
    <3>1. PICK i \in DOMAIN g : g[i].first <= n /\ n <= g[i].last
      BY <1>1, <2>1 DEF Covered
    <3> QED BY <1>1, <3>1
  <2>2. CASE n > SealedEnd(g) BY <1>1, <2>2
  <2> QED BY <1>1, <2>1, <2>2
<1>3. \A i, j \in DOMAIN h : i < j => h[i].last < h[j].first
  <2> SUFFICES ASSUME NEW i \in DOMAIN h, NEW j \in DOMAIN h, i < j
               PROVE  h[i].last < h[j].first
    BY SMTT(60)
  <2>1. i \in DOMAIN g /\ h[i] = g[i] BY <1>1
  <2>2. CASE j \in DOMAIN g BY <1>1, <2>1, <2>2 DEF Covered
  <2>3. CASE j = Len(g) + 1
    <3>1. g[i].last <= SealedEnd(g)
      <4>1. g # <<>> /\ SealedEnd(g) = g[Len(g)].last /\ Len(g) \in DOMAIN g
        BY <1>1, <2>1, SegmentsFacts
      <4>2. CASE i = Len(g) BY <4>1, <4>2, <1>1
      <4>3. CASE i # Len(g)
        <5>1. g[i].last < g[Len(g)].first BY <1>1, <2>1, <4>1, <4>3, SMTT(60) DEF Covered
        <5>2. /\ g[i].last \in Int /\ g[Len(g)].first \in Int
              /\ g[Len(g)].last \in Int /\ g[Len(g)].first <= g[Len(g)].last
          BY <2>1, <4>1, BoundsAssumption DEF SegmentsOK, SegmentOK
        <5> QED BY <4>1, <5>1, <5>2
      <4> QED BY <4>2, <4>3
    <3>2. g[i].last \in Int BY <2>1, BoundsAssumption DEF SegmentsOK, SegmentOK
    <3> QED BY <1>1, <2>1, <2>3, <3>1, <3>2
  <2> QED BY <1>1, <2>2, <2>3
<1> QED BY <1>2, <1>3, Zenon DEF Covered

\* Seal renames the segment into place.
LEMMA SealRenameType == TypeInv /\ SealRename => TypeInv'
<1> SUFFICES ASSUME TypeInv, SealRename PROVE TypeInv' OBVIOUS
<1> USE DEF TypeInv, Goto
<1> DEFINE x == [first |-> sealedSeq + 1, last |-> head,
                 recs |-> [n \in sealedSeq + 1 .. head |-> tail.recs[n]]]
<1>1. /\ sealedSeq = SealedEnd(segs) /\ lastSeq = End(segs, tail)
      /\ ~Empty(tail) => tail.first = sealedSeq + 1
      /\ sealedSeq < head /\ head <= lastSeq
      /\ op = "seal"
  BY Zenon DEF SealRename, at, Boundary, Settled
<1>2. /\ head \in 1 .. MaxRecords /\ sealedSeq \in 0 .. MaxRecords
      /\ MaxRecords \in Nat
  BY <1>1, BoundsAssumption DEF MemoryOK
<1>3. /\ ~Empty(tail) /\ head <= tail.last /\ tail.first = sealedSeq + 1
      /\ lastSeq = tail.last
  BY <1>1, <1>2, TypedBounds
<1>4. SegmentOK(x)
  <2>1. x.recs \in [sealedSeq + 1 .. head -> Record]
    <3>1. \A n \in sealedSeq + 1 .. head : n \in tail.first .. tail.last
      BY <1>2, <1>3, TypedBounds
    <3> QED BY <3>1 DEF DiskInv, FileOK
  <2> QED BY <1>1, <1>2, <2>1, SMTT(60) DEF SegmentOK
<1>5. segs' = Append(segs, x) BY DEF SealRename
<1>6. /\ SegmentsOK(segs') /\ Covered(segs') /\ SealedEnd(segs') = head
  BY <1>1, <1>4, <1>5, AppendSegment, CoveredAppend, SMTT(60) DEF DiskInv
<1>7. DiskInv'
  <2>1. stale' = stale \cup {[segs |-> segs, shared |-> TRUE, tail |-> NoFile]}
    BY Zenon DEF SealRename, Directories, Here
  <2>2. FileOK(NoFile) /\ NoFile.last = 0
    BY BoundsAssumption DEF FileOK, NoFile
  <2>3. StaleOK'
    <3>1. DirectoryOK([segs |-> segs, shared |-> TRUE, tail |-> NoFile])
      BY <2>2 DEF DirectoryOK, DiskInv
    <3> QED BY <2>1, <3>1, Zenon DEF StaleOK, DiskInv
  <2>4. 0 <= minted /\ head <= minted
    BY <1>1, <1>2, TypedBounds, BoundsAssumption DEF MemoryOK, Ids
  <2>5. minted' = minted /\ tail' = tail BY DEF SealRename
  <2>6. \A s \in stale' :
          /\ Covered(s.segs) /\ SealedEnd(s.segs) <= minted
          /\ s.tail.last <= minted
    BY <2>1, <2>2, <2>4 DEF DiskInv
  <2> QED BY <1>6, <2>3, <2>4, <2>5, <2>6 DEF DiskInv
<1>8. MemoryOK'
  BY ZeroInRange, Zenon DEF SealRename, MemoryOK, bounds, state, Ops, Steps
<1>9. Control' BY Zenon DEF SealRename, Control
<1>10. Boundary'
  <2>1. /\ tail' = tail /\ lastSeq' = lastSeq /\ op' = "seal"
        /\ pc' = "publish segment"
    BY Zenon DEF SealRename, bounds
  <2>2. tail.first <= SealedEnd(segs') + 1 BY <1>1, <1>2, <1>3, <1>6
  <2>3. lastSeq = End(segs', tail)
    BY <1>1, <1>2, <1>3, <1>6, TypedBounds DEF End
  <2> QED BY <2>1, <2>2, <2>3, Zenon DEF Boundary, Settled, Ready, Idle, at
<1> QED BY <1>7, <1>8, <1>9, <1>10

\* The tail is synced and closed before it is replaced.
LEMMA CloseTailType == TypeInv /\ CloseTail => TypeInv'
<1> SUFFICES ASSUME TypeInv, CloseTail PROVE TypeInv' OBVIOUS
<1> USE DEF TypeInv, Goto
<1>1. FileOK(tail') /\ tail'.first = tail.first /\ tail'.last = tail.last
  <2>1. tail' \in {tail, FileSynced(tail)} /\ FileOK(tail)
    BY Zenon DEF CloseTail, DiskInv
  <2> QED BY <2>1, EditedFile, ZeroInRange, Zenon
<1>2. DiskInv'
  <2>1. stale' \in {stale, {}} BY DEF CloseTail, FileSyncPublishes
  <2>2. segs' = segs /\ minted' = minted BY DEF CloseTail
  <2> QED BY <1>1, <2>1, <2>2, NewTail, SMTT(60) DEF DiskInv, MemoryOK, Ids
<1>3. MemoryOK' BY Zenon DEF CloseTail, MemoryOK, bounds, Ops, Steps
<1>4. Control' BY Zenon DEF CloseTail, Control
<1>5. Boundary'
  <2>1. /\ ~Empty(tail) => tail.first <= SealedEnd(segs) + 1
        /\ lastSeq = End(segs, tail) /\ op \in {"seal", "recover"}
    BY Zenon DEF CloseTail, Control, Boundary, Settled
  <2>2. Overlaps(segs, tail) \/ (~Empty(tail) => tail.first = SealedEnd(segs) + 1)
    BY <2>1, StartsAfterSeal
  <2>3. segs' = segs /\ lastSeq' = lastSeq BY DEF CloseTail, bounds
  <2>4. /\ op' \in {"seal", "recover"}
        /\ pc' = IF Overlaps(segs, tail) THEN "copy tail" ELSE "reopen"
    BY <2>1 DEF CloseTail
  <2> QED
    BY <1>1, <2>1, <2>2, <2>3, <2>4, SameExtent, Zenon
    DEF Boundary, Settled, Ready, Idle, at
<1> QED BY <1>2, <1>3, <1>4, <1>5

\* A tail that follows what is sealed ends the record.
LEMMA EndAfterSeal ==
  ASSUME NEW g, NEW t, t.first = SealedEnd(g) + 1, SealedEnd(g) <= t.last,
         t.last \in Int, SealedEnd(g) \in Int
  PROVE  End(g, t) = t.last
BY DEF End, Empty

\* replaceTail renames the new tail over the old one.
LEMMA RenameTailType == TypeInv /\ RenameTail => TypeInv'
<1> SUFFICES ASSUME TypeInv, RenameTail PROVE TypeInv' OBVIOUS
<1> USE DEF TypeInv, Goto
<1> DEFINE from == SealedEnd(segs) + 1
           end == End(segs, tail)
<1>1. tail' = [first |-> from, last |-> end,
               recs |-> [n \in from .. end |-> tail.recs[n]],
               synced |-> end, torn |-> tail.torn]
  BY Zenon DEF RenameTail
<1>2. Overlaps(segs, tail) BY Zenon DEF RenameTail, Boundary
<1>3. FileOK(tail')
  <2>1. \A n \in from .. end : n \in tail.first .. tail.last
    BY <1>2, TypedBounds DEF Overlaps
  <2>2. tail'.recs \in [from .. end -> Record]
    BY <1>1, <2>1, SMTT(60) DEF DiskInv, FileOK
  <2>3. /\ from \in 1 .. MaxRecords + 1 /\ end \in 0 .. MaxRecords
        /\ end \in from - 1 .. end
    BY TypedBounds
  <2> QED BY <1>1, <2>2, <2>3, SMTT(60) DEF FileOK, DiskInv
<1>4. DiskInv'
  <2>1. segs' = segs /\ minted' = minted BY Zenon DEF RenameTail
  <2>2. FileOK(NoFile) /\ NoFile.last = 0
    BY BoundsAssumption DEF FileOK, NoFile
  <2>3. \A s \in Directories :
          /\ SegmentsOK(s.segs) /\ Covered(s.segs) /\ SealedEnd(s.segs) <= minted
          /\ FileOK(TailOf(s)) /\ TailOf(s).last <= minted
    BY DEF Directories, Here, TailOf, DiskInv, StaleOK, DirectoryOK
  <2>4. \A s \in stale' : \E r \in Directories :
          s = [segs |-> r.segs, shared |-> FALSE, tail |-> TailOf(r)]
    BY Zenon DEF RenameTail
  <2>5. StaleOK'
    <3> SUFFICES ASSUME NEW s \in stale' PROVE DirectoryOK(s) BY DEF StaleOK
    <3>1. PICK r \in Directories :
            s = [segs |-> r.segs, shared |-> FALSE, tail |-> TailOf(r)]
      BY <2>4
    <3> QED BY <2>3, <3>1 DEF DirectoryOK
  <2>6. \A s \in stale' :
          /\ Covered(s.segs) /\ SealedEnd(s.segs) <= minted
          /\ s.tail.last <= minted
    BY <2>3, <2>4
  <2>7. tail'.last <= minted BY <1>1, TypedBounds, SMTT(60)
  <2> QED BY <1>3, <2>1, <2>5, <2>6, <2>7, SMTT(60) DEF DiskInv
<1>5. MemoryOK' BY Zenon DEF RenameTail, MemoryOK, bounds, state, Ops, Steps
<1>6. Control' BY Zenon DEF RenameTail, Control
<1>7. Boundary'
  <2>1. /\ segs' = segs /\ lastSeq' = lastSeq /\ op' = op
        /\ pc' = "publish tail" /\ op # "append" /\ op # "none"
    BY Zenon DEF RenameTail, bounds, Control
  <2>2. tail'.first = SealedEnd(segs') + 1 BY <1>1, <2>1, Zenon
  <2>3. SealedEnd(segs') = SealedEnd(segs) BY <2>1
  <2>4. tail'.last = end /\ end \in Int /\ SealedEnd(segs) \in Int
        /\ SealedEnd(segs) <= end
    BY <1>1, TypedBounds, SMTT(60)
  <2>5. End(segs', tail') = end BY <2>2, <2>3, <2>4, EndAfterSeal
  <2>6. tail'.first <= SealedEnd(segs') + 1 BY <2>2, <2>3, <2>4
  <2> QED
    BY <2>1, <2>2, <2>5, <2>6, Zenon DEF Boundary, Settled, Ready, Idle, at
<1> QED BY <1>4, <1>5, <1>6, <1>7

\* An open cuts the torn frame off the tail.
LEMMA TruncateType == TypeInv /\ Truncate => TypeInv'
<1> SUFFICES ASSUME TypeInv, Truncate PROVE TypeInv' OBVIOUS
<1> USE DEF TypeInv, Goto
<1>1. FileOK(tail') /\ tail'.first = tail.first /\ tail'.last = tail.last
  BY EditedFile, ZeroInRange DEF Truncate, DiskInv
<1>2. DiskInv'
  <2>1. stale' \in {stale, {}} BY DEF Truncate, FileSyncPublishes
  <2>2. segs' = segs /\ minted' = minted BY DEF Truncate
  <2> QED BY <1>1, <2>1, <2>2, NewTail, SMTT(60) DEF DiskInv, MemoryOK, Ids
<1>3. MemoryOK' BY DEF Truncate, MemoryOK, bounds, state, Ops, Steps
<1>4. Control' BY DEF Truncate, Control
<1>5. Boundary'
  BY <1>1, SameExtent
  DEF Boundary, Truncate, Control, Settled, Ready, Idle, at, bounds, state
<1> QED BY <1>2, <1>3, <1>4, <1>5

\* Close syncs the tail.
LEMMA CloseType == TypeInv /\ Close => TypeInv'
<1> SUFFICES ASSUME TypeInv, Close PROVE TypeInv' OBVIOUS
<1> USE DEF TypeInv, Goto
<1>1. FileOK(tail') /\ tail'.last = tail.last
  <2>1. tail' \in {tail, FileSynced(tail)} /\ FileOK(tail)
    BY DEF Close, DiskInv
  <2> QED BY <2>1, EditedFile, ZeroInRange, Zenon
<1>2. DiskInv'
  <2>1. stale' \in {stale, {}} BY DEF Close, FileSyncPublishes
  <2>2. segs' = segs /\ minted' = minted BY DEF Close
  <2> QED BY <1>1, <2>1, <2>2, NewTail, SMTT(60) DEF DiskInv, MemoryOK, Ids
<1>3. MemoryOK' BY ZeroInRange, Zenon DEF Close, Forget, MemoryOK, Ops, Steps
<1>4. Control' BY Zenon DEF Close, Forget, Control
<1>5. Boundary'
  BY SMTT(60) DEF Boundary, Close, Forget, Settled, Ready, Idle, at
<1> QED BY <1>2, <1>3, <1>4, <1>5

\* What a power loss leaves is a directory, or on a weak one a mixture of two,
\* with files cut back.
LEMMA OutcomeOf ==
  ASSUME NEW d \in Outcomes
  PROVE  \E s, u \in Directories :
           /\ Journalled => s = u
           /\ d.segs = s.segs /\ d.tail \in AfterLoss(TailOf(u))
BY BoundsAssumption, SMTT(60) DEF Outcomes

\* A power loss leaves well-formed files.
LEMMA PowerLossType == TypeInv /\ PowerLoss => TypeInv'
<1> SUFFICES ASSUME TypeInv, PowerLoss PROVE TypeInv' OBVIOUS
<1> USE DEF TypeInv
<1>1. PICK s \in Directories, u \in Directories :
        segs' = s.segs /\ tail' \in AfterLoss(TailOf(u))
  BY OutcomeOf DEF PowerLoss
<1>2. \A r \in Directories :
        /\ SegmentsOK(r.segs) /\ Covered(r.segs) /\ SealedEnd(r.segs) <= minted
        /\ FileOK(TailOf(r)) /\ TailOf(r).last <= minted
  BY DEF Directories, Here, TailOf, DiskInv, StaleOK, DirectoryOK
<1>3. DiskInv'
  <2>1. stale' = {} /\ minted' = minted BY DEF PowerLoss
  <2>2. FileOK(tail') /\ tail'.last <= TailOf(u).last /\ FileOK(TailOf(u))
    BY <1>1, <1>2, CutOK
  <2>3. tail'.last \in Int /\ TailOf(u).last \in Int /\ minted \in Int
    BY <2>2, BoundsAssumption DEF FileOK, MemoryOK, Ids
  <2>4. tail'.last <= minted BY <1>2, <2>2, <2>3
  <2> QED BY <1>1, <1>2, <2>1, <2>2, <2>4, SMTT(60) DEF DiskInv, StaleOK
<1>4. MemoryOK'
  <2>1. faults' \in 0 .. MaxFaults BY FaultCounted DEF PowerLoss, MemoryOK
  <2> QED BY <2>1, ZeroInRange, Zenon DEF PowerLoss, Forget, Goto, MemoryOK, Ops, Steps
<1>5. Control' BY Zenon DEF PowerLoss, Forget, Goto, Control
<1>6. Boundary'
  BY Zenon DEF Boundary, PowerLoss, Forget, Goto, Settled, Ready, Idle, at
<1> QED BY <1>3, <1>4, <1>5, <1>6

\* Every step keeps the type invariant.
LEMMA NextType == TypeInv /\ [Next]_vars => TypeInv'
<1> SUFFICES ASSUME TypeInv, [Next]_vars PROVE TypeInv' OBVIOUS
<1>1. CASE UNCHANGED vars
  <2>1. DiskInv' BY <1>1, SameDisk DEF TypeInv, vars, disk
  <2>2. MemoryOK' /\ Control'
    BY <1>1, ZenonT(60) DEF TypeInv, vars, disk, bounds, state, MemoryOK, Control
  <2>3. Boundary'
    BY <1>1, ZenonT(60)
    DEF TypeInv, vars, disk, bounds, state, Boundary, Settled, Ready, Idle, at, Torn
  <2> QED BY <2>1, <2>2, <2>3 DEF TypeInv
<1>2. CASE Next
  BY <1>2, AppendBeginType, AppendWrittenType, AppendSyncType, AppendFailType,
     SealBeginType, SealAbortType, SealRenameType, SealPublishType, SealFailType,
     CloseTailType, CopyTailType, RenameTailType, PublishTailType, ReopenType,
     RecoverBeginType, OpenBeginType, PreserveType, TruncateType, SweepType,
     SetFrozenType, CloseType, CrashType, PowerLossType
  DEF Next, Rewrite, Recover
<1> QED BY <1>1, <1>2

\* The inductive invariant behind type correctness: the steps of
\* AppendPrepared, Seal, RecoverSeal and OpenVerified keep memory and files in
\* agreement.
THEOREM TypeInvariant == Spec => []TypeInv
BY InitType, NextType, PTL DEF Spec

\* Every file and variable keeps its type through every interleaving of
\* appends, seals, recoveries and failures, whatever the disk guarantees.
THEOREM TypeCorrect == Spec => []TypeOK
<1>1. TypeInv => TypeOK BY DEF TypeInv, DiskInv, TypeOK
<1> QED BY <1>1, TypeInvariant, PTL
=============================================================================
