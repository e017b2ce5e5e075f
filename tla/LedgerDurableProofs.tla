------------------------ MODULE LedgerDurableProofs ------------------------
(***************************************************************************)
(* No acknowledged record is lost, and no tail is rewritten before the     *)
(* segment that replaces it stands: for every number of records and        *)
(* failures, on a disk whose directory changes are journalled in order.    *)
(***************************************************************************)
EXTENDS LedgerProofs

-----------------------------------------------------------------------------
(* The inductive invariant *)

\* Directory (g, t) keeps the acknowledged records a through a power loss.
Held(g, t, a) ==
  /\ t.first <= SealedEnd(g) + 1
  /\ Len(a) <= SealedEnd(g) \/ Len(a) <= t.synced
  /\ \A i \in DOMAIN g : \A n \in g[i].first .. g[i].last :
       n <= Len(a) => g[i].recs[n].id = a[n]
  /\ \A n \in t.first .. t.last :
       SealedEnd(g) < n /\ n <= Len(a) => t.recs[n].id = a[n]

\* So does every directory a power loss may bring back; one that still shares
\* the live tail exists only while that tail repeats the newest segment.
DurableInv ==
  /\ \A s \in Directories : Held(s.segs, TailOf(s), acked)
  /\ \A s \in stale : s.shared => Overlaps(segs, tail)

-----------------------------------------------------------------------------
(* No acknowledged record is lost *)

\* Every sealed segment lies within what the container holds sealed.
LEMMA SealedLast ==
  ASSUME NEW g, SegmentsOK(g), Covered(g), NEW i \in DOMAIN g
  PROVE  /\ g[i].first \in Nat /\ g[i].last \in Nat /\ g[i].first >= 1
         /\ g[i].last <= SealedEnd(g)
<1>1. /\ Len(g) \in DOMAIN g /\ SealedEnd(g) = g[Len(g)].last /\ i \in 1 .. Len(g)
      /\ Len(g) \in Nat
  BY SegmentsFacts, SMTT(60)
<1>2. \A j \in DOMAIN g :
        /\ g[j].first \in Nat /\ g[j].last \in Nat /\ g[j].first >= 1
        /\ g[j].first <= g[j].last
  BY BoundsAssumption, SMTT(60) DEF SegmentsOK, SegmentOK
<1>3. i # Len(g) => g[i].last < g[Len(g)].first BY <1>1 DEF Covered
<1> QED BY <1>1, <1>2, <1>3, SMTT(60)

\* A sealed record is in one segment only, so streamSegment reads it from
\* there.
LEMMA SegmentOfUnique ==
  ASSUME NEW g, SegmentsOK(g), Covered(g), NEW i \in DOMAIN g,
         NEW n \in g[i].first .. g[i].last
  PROVE  SegmentOf(g, n) = i
<1>1. /\ SegmentOf(g, n) \in DOMAIN g
      /\ g[SegmentOf(g, n)].first <= n /\ n <= g[SegmentOf(g, n)].last
  BY SealedLast DEF SegmentOf
<1> DEFINE j == SegmentOf(g, n)
<1>2. /\ g[i].first \in Nat /\ g[i].last \in Nat
      /\ g[j].first \in Nat /\ g[j].last \in Nat
  BY <1>1, SealedLast, SMTT(60)
<1>3. ~(i < j) BY <1>1, <1>2, SMTT(60) DEF Covered
<1>4. ~(j < i) BY <1>1, <1>2, SMTT(60) DEF Covered
<1>5. i \in Nat /\ j \in Nat BY <1>1, SegmentsFacts
<1> QED BY <1>3, <1>4, <1>5

\* What Held promises: each acknowledged record is read at its place.
LEMMA HeldReads ==
  ASSUME NEW g, SegmentsOK(g), Covered(g), NEW t, FileOK(t),
         NEW a \in Seq(Ids), Held(g, t, a)
  PROVE  /\ Len(a) <= End(g, t)
         /\ \A n \in 1 .. Len(a) : RecordAt(g, t, n).id = a[n]
<1>1. /\ SealedEnd(g) \in Nat /\ Len(a) \in Nat /\ t.first \in Nat /\ t.last \in Nat
      /\ t.synced \in Nat /\ t.synced <= t.last
  BY SegmentsFacts, FileFacts
<1>2. Len(a) <= End(g, t) BY <1>1, SMTT(60) DEF Held, End, Empty
<1>3. ASSUME NEW n \in 1 .. Len(a) PROVE RecordAt(g, t, n).id = a[n]
  <2>1. CASE n <= SealedEnd(g)
    <3>1. PICK i \in DOMAIN g : g[i].first <= n /\ n <= g[i].last
      BY <1>1, <2>1, SMTT(60) DEF Covered
    <3>2. n \in g[i].first .. g[i].last BY <3>1, SealedLast, <1>1, SMTT(60)
    <3>3. SegmentOf(g, n) = i BY <3>2, SegmentOfUnique, SMTT(60)
    <3> QED BY <1>1, <2>1, <3>2, <3>3, SMTT(60) DEF RecordAt, Held
  <2>2. CASE ~(n <= SealedEnd(g))
    <3>1. n \in t.first .. t.last BY <1>1, <2>2, SMTT(60) DEF Held
    <3> QED BY <1>1, <2>2, <3>1, SMTT(60) DEF RecordAt, Held
  <2> QED BY <2>1, <2>2, SMTT(60)
<1> QED BY <1>2, <1>3, SMTT(60)

\* A power loss, and an edit that keeps the records, keep what is held.
LEMMA HeldShorter ==
  ASSUME NEW g, SegmentsOK(g), NEW t, FileOK(t), NEW u, FileOK(u),
         NEW a \in Seq(Ids), Held(g, t, a),
         u.first = t.first, u.last <= t.last, t.synced <= u.synced,
         \A n \in u.first .. u.last : u.recs[n] = t.recs[n]
  PROVE  Held(g, u, a)
<1>1. /\ SealedEnd(g) \in Nat /\ Len(a) \in Nat /\ t.first \in Nat /\ t.last \in Nat
      /\ t.synced \in Nat /\ u.last \in Nat /\ u.synced \in Nat
  BY SegmentsFacts, FileFacts, SMTT(60)
<1>2. Len(a) <= SealedEnd(g) \/ Len(a) <= u.synced BY <1>1, SMTT(60) DEF Held
<1>3. \A n \in u.first .. u.last :
        SealedEnd(g) < n /\ n <= Len(a) => u.recs[n].id = a[n]
  BY <1>1, SMTT(60) DEF Held
<1> QED BY <1>2, <1>3, SMTT(60) DEF Held

\* Every directory a power loss may leave is well formed.
LEMMA DirectoryFacts ==
  ASSUME TypeInv, NEW s \in Directories
  PROVE  /\ SegmentsOK(s.segs) /\ Covered(s.segs)
         /\ FileOK(TailOf(s)) /\ acked \in Seq(Ids)
BY DEF TypeInv, DiskInv, MemoryOK, Directories, Here, TailOf, StaleOK, DirectoryOK

\* A file cut back to its synced part still holds the acknowledged records.
LEMMA HeldAfterLoss ==
  ASSUME TypeInv, NEW s \in Directories, Held(s.segs, TailOf(s), acked),
         NEW t \in AfterLoss(TailOf(s))
  PROVE  FileOK(t) /\ Held(s.segs, t, acked)
<1>1. /\ SegmentsOK(s.segs) /\ FileOK(TailOf(s)) /\ acked \in Seq(Ids)
  BY DirectoryFacts
<1>2. /\ FileOK(t) /\ t.first = TailOf(s).first /\ t.last <= TailOf(s).last
      /\ TailOf(s).synced <= t.synced
      /\ \A n \in t.first .. t.last : t.recs[n] = TailOf(s).recs[n]
  BY <1>1, CutOK, Zenon
<1> QED BY <1>1, <1>2, HeldShorter, SMTT(60)

\* Where every possible directory holds the acknowledged records, a start
\* reads them back.
LEMMA DurableReads ==
  ASSUME Journalled, TypeInv, DurableInv PROVE AckedDurable
<1> SUFFICES ASSUME NEW d \in Outcomes
             PROVE  /\ Len(acked) <= End(d.segs, d.tail)
                    /\ \A n \in 1 .. Len(acked) :
                         RecordAt(d.segs, d.tail, n).id = acked[n]
  BY DEF AckedDurable
<1>1. PICK s \in Directories : d.segs = s.segs /\ d.tail \in AfterLoss(TailOf(s))
  BY OutcomeOf
<1>2. FileOK(d.tail) /\ Held(d.segs, d.tail, acked)
  BY <1>1, HeldAfterLoss DEF DurableInv
<1> QED BY <1>1, <1>2, DirectoryFacts, HeldReads, Zenon

\* A new ledger has acknowledged nothing.
LEMMA InitDurable == Init => DurableInv
<1> SUFFICES ASSUME Init PROVE DurableInv OBVIOUS
<1>1. Len(acked) = 1 /\ acked[1] = 1 BY DEF Init
<1>2. SealedEnd(segs) = 0 /\ DOMAIN segs = {} BY DEF Init, SealedEnd
<1>3. Held(segs, tail, acked) BY <1>1, <1>2, SMTT(60) DEF Held, Init
<1> QED BY <1>3 DEF DurableInv, Directories, Here, TailOf, Init

\* The directory the running process sees is one of those that may survive.
LEMMA HeldHere == DurableInv => Held(segs, tail, acked)
<1>1. Here \in Directories /\ Here.segs = segs /\ TailOf(Here) = tail
  BY DEF Directories, Here, TailOf
<1> QED BY <1>1 DEF DurableInv

\* Steps that leave the record of every directory where it was.
LEMMA SameDurable ==
  ASSUME TypeInv, DurableInv, segs' = segs, acked' = acked,
         stale' \in {stale, {}}, FileOK(tail'),
         tail'.first = tail.first, tail'.last = tail.last,
         tail'.recs = tail.recs, tail.synced <= tail'.synced
  PROVE  DurableInv'
<1>1. \A s \in stale' : s \in stale OBVIOUS
<1>2. /\ SegmentsOK(segs) /\ FileOK(tail) /\ tail.last \in Int
  BY BoundsAssumption, SMTT(60) DEF TypeInv, DiskInv, FileOK
<1>3. Held(segs, tail, acked) BY HeldHere
<1>4. Held(segs, tail', acked)
  BY <1>2, <1>3, HeldShorter, SMTT(60) DEF TypeInv, MemoryOK
<1>5. ASSUME NEW s \in stale
      PROVE  Held(s.segs, IF s.shared THEN tail' ELSE s.tail, acked)
  <2>1. s \in Directories BY DEF Directories
  <2>2. Held(s.segs, TailOf(s), acked) BY <2>1, SMTT(60) DEF DurableInv
  <2>3. CASE s.shared
    BY <1>2, <2>1, <2>2, <2>3, HeldShorter, DirectoryFacts, SMTT(60) DEF TailOf
  <2>4. CASE ~s.shared BY <2>2, <2>4, SMTT(60) DEF TailOf
  <2> QED BY <2>3, <2>4
<1>6. \A s \in Directories' : Held(s.segs, IF s.shared THEN tail' ELSE s.tail, acked')
  BY <1>1, <1>4, <1>5 DEF Directories, Here
<1>7. \A s \in stale' : s.shared => Overlaps(segs', tail')
  BY <1>1, SameExtent DEF DurableInv
<1> QED BY <1>6, <1>7, SMTT(60) DEF DurableInv, TailOf

\* A step that leaves the files alone, or syncs the directory, loses nothing.
LEMMA KeptDurable ==
  ASSUME TypeInv, DurableInv, UNCHANGED <<segs, tail, acked>>,
         stale' \in {stale, {}}
  PROVE  DurableInv'
<1>1. FileOK(tail) /\ tail.synced \in Int
  BY BoundsAssumption DEF TypeInv, DiskInv, FileOK
<1> QED BY <1>1, SameDurable

\* Syncing the tail, or writing or cutting a torn frame, keeps its records.
LEMMA EditedDurable ==
  ASSUME TypeInv, DurableInv, UNCHANGED <<segs, acked>>, stale' \in {stale, {}},
         NEW x \in 0 .. MaxRecords,
         tail' \in {tail, [tail EXCEPT !.torn = x], FileSynced(tail),
                    [FileSynced(tail) EXCEPT !.torn = x]}
  PROVE  DurableInv'
<1>1. CASE tail' = tail BY <1>1, KeptDurable
<1>2. CASE tail' # tail
  <2>1. FileOK(tail) /\ tail.synced \in Int /\ tail.last \in Int
        /\ tail.synced <= tail.last
    BY BoundsAssumption DEF TypeInv, DiskInv, FileOK
  <2>2. /\ FileOK(tail') /\ tail'.first = tail.first /\ tail'.last = tail.last
        /\ tail'.recs = tail.recs /\ tail'.synced \in {tail.synced, tail.last}
    <3>1. CASE tail' = [tail EXCEPT !.torn = x] BY <2>1, <3>1, EditedFile, Zenon
    <3>2. CASE tail' = FileSynced(tail) BY <2>1, <3>2, EditedFile, Zenon
    <3>3. CASE tail' = [FileSynced(tail) EXCEPT !.torn = x]
      BY <2>1, <3>3, EditedFile, Zenon
    <3> QED BY <1>2, <3>1, <3>2, <3>3
  <2>3. tail.synced <= tail'.synced BY <2>1, <2>2
  <2> QED BY <2>2, <2>3, SameDurable
<1> QED BY <1>1, <1>2

\* No directory shares the tail while an append may change its extent.
LEMMA NoneShared ==
  ASSUME TypeInv, DurableInv, ~Empty(tail) => tail.first = SealedEnd(segs) + 1,
         NEW s \in stale
  PROVE  ~s.shared
<1>1. ~Overlaps(segs, tail) BY TypedBounds DEF TypeInv, Overlaps
<1> QED BY <1>1 DEF DurableInv

\* Writing a record after the last one leaves those before it.
LEMMA AppendWrittenDurable ==
  ASSUME TypeInv, DurableInv, AppendWritten PROVE DurableInv'
<1> DEFINE n == lastSeq + 1
<1>1. /\ sealedSeq = SealedEnd(segs) /\ lastSeq = End(segs, tail)
      /\ ~Empty(tail) => tail.first = SealedEnd(segs) + 1
  BY Zenon DEF TypeInv, AppendWritten, at, Boundary, Settled
<1>2. /\ lastSeq \in Nat /\ SealedEnd(segs) \in Nat /\ SealedEnd(segs) <= lastSeq
      /\ ~Empty(tail) => tail.last = lastSeq
      /\ Empty(tail) => lastSeq = SealedEnd(segs)
      /\ tail.synced \in Nat /\ tail.first \in Nat /\ tail.last \in Nat
      /\ tail.synced <= tail.last
  BY <1>1, TypedBounds, FileFacts, SMTT(60) DEF TypeInv, DiskInv, End, Empty
<1>3. /\ tail'.first = IF Empty(tail) THEN n ELSE tail.first
      /\ tail'.last = n
      /\ tail'.synced = IF Empty(tail) THEN n - 1 ELSE tail.synced
      /\ \A i \in tail'.first .. lastSeq : tail'.recs[i] = tail.recs[i]
      /\ segs' = segs /\ stale' = stale /\ acked' = acked
  BY <1>2, SMTT(60) DEF AppendWritten
<1>4. Len(acked) \in Nat BY DEF TypeInv, MemoryOK
<1>5. Held(segs, tail, acked) BY HeldHere
<1>6. Len(acked) <= lastSeq
  BY <1>2, <1>4, <1>5, SMTT(60) DEF Held, Empty
<1>7. Held(segs, tail', acked)
  <2>1. tail'.first <= SealedEnd(segs) + 1 BY <1>1, <1>2, <1>3, SMTT(60)
  <2>2. Len(acked) <= SealedEnd(segs) \/ Len(acked) <= tail'.synced
    BY <1>2, <1>3, <1>4, <1>5, <1>6, SMTT(60) DEF Held
  <2>3. \A i \in tail'.first .. tail'.last :
          SealedEnd(segs) < i /\ i <= Len(acked) => tail'.recs[i].id = acked[i]
    <3> SUFFICES ASSUME NEW i \in tail'.first .. tail'.last,
                        SealedEnd(segs) < i, i <= Len(acked)
                 PROVE  tail'.recs[i].id = acked[i]
      OBVIOUS
    <3>1. i \in tail'.first .. lastSeq /\ ~Empty(tail) BY <1>2, <1>3, <1>4, <1>6, SMTT(60)
    <3>2. i \in tail.first .. tail.last BY <1>2, <1>3, <3>1, SMTT(60)
    <3> QED BY <1>3, <1>5, <3>1, <3>2, SMTT(60) DEF Held
  <2> QED BY <1>5, <2>1, <2>2, <2>3, SMTT(60) DEF Held
<1>8. ASSUME NEW s \in stale
      PROVE  ~s.shared /\ Held(s.segs, s.tail, acked)
  BY <1>1, NoneShared, SMTT(60) DEF DurableInv, Directories, TailOf
<1>9. \A s \in Directories' : Held(s.segs, IF s.shared THEN tail' ELSE s.tail, acked')
  BY <1>3, <1>7, <1>8, SMTT(60) DEF Directories, Here
<1> QED BY <1>3, <1>8, <1>9, Zenon DEF DurableInv, TailOf

\* AppendPrepared acknowledges a record only once the tail is synced.
LEMMA AppendSyncDurable ==
  ASSUME Journalled, TypeInv, DurableInv, AppendSync PROVE DurableInv'
<1>1. /\ stale' = {} /\ segs' = segs /\ acked' = Chain(segs, tail)
      /\ tail' = FileSynced(tail)
  BY DEF AppendSync, FileSyncPublishes
<1>2. /\ ~Empty(tail) /\ tail.first = SealedEnd(segs) + 1
      /\ SegmentsOK(segs) /\ Covered(segs) /\ FileOK(tail)
  BY Zenon DEF TypeInv, AppendSync, at, Boundary, Control, DiskInv
<1>3. /\ tail'.first = tail.first /\ tail'.last = tail.last
      /\ tail'.recs = tail.recs /\ tail'.synced = tail.last
  BY <1>1, <1>2 DEF FileSynced, FileOK
<1>4. /\ SealedEnd(segs) \in Nat /\ tail.first \in Nat /\ tail.last \in Nat
      /\ End(segs, tail) = tail.last
  BY <1>2, TypedBounds, SMTT(60) DEF TypeInv, End, Empty
<1>5. /\ Len(acked') = tail.last
      /\ \A n \in 1 .. tail.last : acked'[n] = RecordAt(segs, tail, n).id
  BY <1>1, <1>4 DEF Chain
<1>6. \A i \in DOMAIN segs : \A n \in segs[i].first .. segs[i].last :
        n <= Len(acked') => segs[i].recs[n].id = acked'[n]
  <2> SUFFICES ASSUME NEW i \in DOMAIN segs,
                      NEW n \in segs[i].first .. segs[i].last, n <= tail.last
               PROVE  segs[i].recs[n].id = acked'[n]
    BY <1>5
  <2>1. SegmentOf(segs, n) = i BY <1>2, SegmentOfUnique, SMTT(60)
  <2>2. n \in 1 .. tail.last /\ n <= SealedEnd(segs) BY <1>2, <1>4, SealedLast, SMTT(60)
  <2> QED BY <1>5, <2>1, <2>2 DEF RecordAt
<1>7. \A n \in tail.first .. tail.last : tail.recs[n].id = acked'[n]
  BY <1>2, <1>4, <1>5, SMTT(60) DEF RecordAt
<1>8. Held(segs, tail', acked')
  BY <1>2, <1>3, <1>4, <1>5, <1>6, <1>7, SMTT(60) DEF Held
<1>9. \A s \in Directories' : Held(s.segs, IF s.shared THEN tail' ELSE s.tail, acked')
  BY <1>1, <1>8 DEF Directories, Here
<1> QED BY <1>1, <1>9, Zenon DEF DurableInv, TailOf

\* Renaming a segment into the directory takes no record out of the tail.
LEMMA SealRenameDurable ==
  ASSUME TypeInv, DurableInv, SealRename PROVE DurableInv'
<1> DEFINE x == [first |-> sealedSeq + 1, last |-> head,
                 recs |-> [n \in sealedSeq + 1 .. head |-> tail.recs[n]]]
<1>1. /\ sealedSeq = SealedEnd(segs) /\ lastSeq = End(segs, tail)
      /\ ~Empty(tail) => tail.first = sealedSeq + 1
      /\ sealedSeq < head /\ head <= lastSeq
  BY Zenon DEF TypeInv, SealRename, at, Boundary, Settled, Control
<1>2. /\ head \in Nat /\ sealedSeq \in Nat /\ SegmentsOK(segs) /\ FileOK(tail)
      /\ head <= MaxRecords
  BY BoundsAssumption, SMTT(60) DEF TypeInv, MemoryOK, DiskInv
<1>3. /\ ~Empty(tail) /\ head <= tail.last /\ tail.first = sealedSeq + 1
      /\ tail.last \in Nat /\ tail.synced \in Nat
  BY <1>1, <1>2, TypedBounds DEF TypeInv
<1>4. SegmentOK(x)
  <2>1. \A n \in sealedSeq + 1 .. head : n \in tail.first .. tail.last
    BY <1>2, <1>3
  <2>2. x.recs \in [sealedSeq + 1 .. head -> Record]
    BY <1>2, <2>1, SMTT(60) DEF FileOK
  <2> QED BY <1>1, <1>2, <2>2, BoundsAssumption, SMTT(60) DEF SegmentOK
<1>5. /\ segs' = Append(segs, x) /\ tail' = tail /\ acked' = acked
      /\ stale' = stale \cup {Here}
  BY Zenon DEF SealRename, Directories
<1>6. /\ SealedEnd(segs') = head /\ DOMAIN segs' = 1 .. Len(segs) + 1
      /\ segs'[Len(segs) + 1] = x /\ \A i \in DOMAIN segs : segs'[i] = segs[i]
      /\ DOMAIN segs = 1 .. Len(segs) /\ Len(segs) \in Nat
  BY <1>2, <1>4, <1>5, AppendSegment, SegmentsFacts, SMTT(60)
<1>7. Len(acked) \in Nat BY DEF TypeInv, MemoryOK
<1>8. Held(segs, tail, acked) BY HeldHere
<1>9. Held(segs', tail, acked)
  <2>1. tail.first <= head + 1 BY <1>1, <1>2, <1>3
  <2>2. Len(acked) <= head \/ Len(acked) <= tail.synced
    BY <1>1, <1>2, <1>3, <1>7, <1>8, SMTT(60) DEF Held
  <2>3. ASSUME NEW i \in DOMAIN segs', NEW n \in segs'[i].first .. segs'[i].last,
               n <= Len(acked)
        PROVE  segs'[i].recs[n].id = acked[n]
    <3>1. CASE i \in DOMAIN segs BY <1>6, <1>8, <2>3, <3>1, SMTT(60) DEF Held
    <3>2. CASE i = Len(segs) + 1
      <4>0. segs'[i] = x BY <1>6, <3>2, Zenon
      <4>1. n \in sealedSeq + 1 .. head /\ segs'[i].recs[n] = tail.recs[n]
        BY <4>0, SMTT(60)
      <4>2. n \in tail.first .. tail.last /\ SealedEnd(segs) < n
        BY <1>1, <1>2, <1>3, <4>1, SMTT(60)
      <4> QED BY <1>8, <2>3, <4>1, <4>2, SMTT(60) DEF Held
    <3> QED BY <1>6, <3>1, <3>2, SMTT(60)
  <2>4. \A n \in tail.first .. tail.last :
          head < n /\ n <= Len(acked) => tail.recs[n].id = acked[n]
    BY <1>1, <1>2, <1>3, <1>7, <1>8, SMTT(60) DEF Held
  <2> QED BY <1>6, <2>1, <2>2, <2>3, <2>4, SMTT(60) DEF Held
<1>10. \A s \in stale' : Held(s.segs, TailOf(s), acked)
  BY <1>5 DEF DurableInv, Directories
<1>11. ASSUME NEW s \in Directories'
       PROVE  Held(s.segs, IF s.shared THEN tail' ELSE s.tail, acked')
  <2>1. CASE s \in stale' BY <1>5, <1>10, <2>1 DEF TailOf
  <2>2. CASE s = Here' BY <1>5, <1>9, <2>2 DEF Here
  <2> QED BY <2>1, <2>2 DEF Directories
<1>12. Overlaps(segs', tail') BY <1>1, <1>2, <1>3, <1>5, <1>6, SMTT(60) DEF Overlaps
<1> QED BY <1>11, <1>12, SMTT(60) DEF DurableInv, TailOf

\* replaceTail drops from the tail only what a published segment holds.
LEMMA RenameTailDurable ==
  ASSUME TypeInv, DurableInv, RenameTail PROVE DurableInv'
<1> DEFINE from == SealedEnd(segs) + 1
           end == End(segs, tail)
<1>1. /\ tail'.first = from /\ tail'.last = end /\ tail'.synced = end
      /\ \A n \in from .. end : tail'.recs[n] = tail.recs[n]
      /\ segs' = segs /\ acked' = acked
  BY Zenon DEF RenameTail
<1>2. Overlaps(segs, tail) BY Zenon DEF TypeInv, RenameTail, Boundary
<1>3. /\ SealedEnd(segs) \in Nat /\ end \in Nat /\ tail.first \in Nat
      /\ tail.last \in Nat /\ tail.synced \in Nat /\ tail.synced <= tail.last
      /\ SealedEnd(segs) <= end /\ tail.first <= SealedEnd(segs)
      /\ end = IF tail.last < SealedEnd(segs) THEN SealedEnd(segs) ELSE tail.last
      /\ Len(acked) \in Nat
  BY <1>2, TypedBounds, FileFacts, SMTT(60)
  DEF TypeInv, DiskInv, MemoryOK, Overlaps, End
<1>4. Held(segs, tail, acked) BY HeldHere
<1>5. Held(segs, tail', acked)
  <2>1. tail'.first <= SealedEnd(segs) + 1 BY <1>1, <1>3, SMTT(60)
  <2>2. Len(acked) <= SealedEnd(segs) \/ Len(acked) <= tail'.synced
    BY <1>1, <1>3, <1>4, SMTT(60) DEF Held
  <2>3. ASSUME NEW n \in tail'.first .. tail'.last,
               SealedEnd(segs) < n, n <= Len(acked)
        PROVE  tail'.recs[n].id = acked[n]
    <3>1. n \in tail.first .. tail.last BY <1>1, <1>3, SMTT(60)
    <3> QED BY <1>1, <1>4, <2>3, <3>1, Zenon DEF Held
  <2> QED BY <1>4, <2>1, <2>2, <2>3, SMTT(60) DEF Held
<1>6. ASSUME NEW s \in stale' PROVE ~s.shared /\ Held(s.segs, s.tail, acked)
  <2>1. PICK r \in Directories :
          s = [segs |-> r.segs, shared |-> FALSE, tail |-> TailOf(r)]
    BY Zenon DEF RenameTail
  <2>2. Held(r.segs, TailOf(r), acked) BY DEF DurableInv
  <2> QED BY <2>1, <2>2
<1>7. \A s \in Directories' :
        Held(s.segs, IF s.shared THEN tail' ELSE s.tail, acked')
  BY <1>1, <1>5, <1>6, SMTT(60) DEF Directories, Here
<1> QED BY <1>6, <1>7, SMTT(60) DEF DurableInv, TailOf

\* A power loss leaves one of the directories the invariant speaks of.
LEMMA PowerLossDurable ==
  ASSUME Journalled, TypeInv, DurableInv, PowerLoss PROVE DurableInv'
<1>1. PICK s \in Directories : segs' = s.segs /\ tail' \in AfterLoss(TailOf(s))
  BY OutcomeOf, SMTT(60) DEF PowerLoss
<1>2. Held(segs', tail', acked) BY <1>1, HeldAfterLoss DEF DurableInv
<1>3. stale' = {} /\ acked' = acked BY DEF PowerLoss
<1>4. \A r \in Directories' :
        Held(r.segs, IF r.shared THEN tail' ELSE r.tail, acked')
  BY <1>2, <1>3 DEF Directories, Here
<1> QED BY <1>3, <1>4, SMTT(60) DEF DurableInv, TailOf

\* Every step keeps the acknowledged records in every directory that may
\* survive.
LEMMA NextDurable ==
  ASSUME Journalled, TypeInv, DurableInv, [Next]_vars PROVE DurableInv'
<1>1. CASE UNCHANGED vars BY <1>1, KeptDurable DEF vars, disk
<1>2. ASSUME NEW kind \in Kinds, AppendBegin(kind) PROVE DurableInv'
  <2>1. minted + 1 \in 0 .. MaxRecords
    BY <1>2, BoundsAssumption DEF AppendBegin, TypeInv, MemoryOK, Ids
  <2> QED BY <1>2, <2>1, EditedDurable, Zenon DEF AppendBegin
<1>3. CASE AppendFail
  <2>1. /\ tail' \in {tail, [tail EXCEPT !.torn = 0]}
        /\ UNCHANGED <<segs, acked, stale>>
    BY <1>3 DEF AppendFail
  <2> QED BY <2>1, EditedDurable, ZeroInRange
<1>4. CASE CloseTail \/ Close
  <2>1. /\ tail' \in {tail, FileSynced(tail)} /\ stale' \in {stale, {}}
        /\ UNCHANGED <<segs, acked>>
    BY <1>4, Zenon DEF CloseTail, Close, FileSyncPublishes
  <2> QED BY <2>1, EditedDurable, ZeroInRange
<1>5. CASE Truncate
  <2>1. /\ tail' = [FileSynced(tail) EXCEPT !.torn = 0] /\ stale' \in {stale, {}}
        /\ UNCHANGED <<segs, acked>>
    BY <1>5 DEF Truncate, FileSyncPublishes
  <2> QED BY <2>1, EditedDurable, ZeroInRange, Zenon
<1>6. ASSUME NEW h \in 1 .. MaxRecords, SealBegin(h) PROVE DurableInv'
  BY <1>6, KeptDurable, Zenon DEF SealBegin
<1>7. CASE SealAbort \/ SealFail BY <1>7, KeptDurable, Zenon DEF SealAbort, SealFail
<1>8. CASE SealPublish \/ PublishTail \/ RecoverBegin
  BY <1>8, KeptDurable, Zenon DEF SealPublish, PublishTail, RecoverBegin, SyncDir
<1>9. CASE CopyTail \/ Preserve \/ Sweep
  BY <1>9, KeptDurable, Zenon DEF CopyTail, Preserve, Sweep
<1>10. CASE Reopen \/ OpenBegin \/ SetFrozen \/ Crash
  BY <1>10, KeptDurable, SMTT(60) DEF Reopen, OpenBegin, SetFrozen, Crash, disk
<1> QED
  BY <1>1, <1>2, <1>3, <1>4, <1>5, <1>6, <1>7, <1>8, <1>9, <1>10,
     AppendWrittenDurable, AppendSyncDurable, SealRenameDurable,
     RenameTailDurable, PowerLossDurable
  DEF Next, Rewrite, Recover

\* On a disk whose directory changes reach it in order, no order of the steps
\* of AppendPrepared, Seal, RecoverSeal and OpenVerified, and no process death
\* or power loss between any two of them, loses a record whose Append has
\* returned: for every number of records and failures.
THEOREM AckedRecordsSurvive == Journalled => (Spec => []AckedDurable)
<1> SUFFICES ASSUME Journalled PROVE Spec => []AckedDurable OBVIOUS
<1>1. Init => DurableInv BY InitDurable
<1>2. TypeInv /\ DurableInv /\ [Next]_vars => DurableInv' BY NextDurable
<1>3. TypeInv /\ DurableInv => AckedDurable BY DurableReads
<1> QED BY <1>1, <1>2, <1>3, TypeInvariant, PTL DEF Spec

\* On such a disk the order Seal and RecoverSeal write in is enough: no failure
\* leaves a tail rewritten without the segment that holds what it dropped.
THEOREM RewriteFollowsPublish == Journalled => (Spec => []PublishBeforeRewrite)
<1> SUFFICES ASSUME Journalled PROVE Spec => []PublishBeforeRewrite OBVIOUS
<1>1. Init => DurableInv BY InitDurable
<1>2. TypeInv /\ DurableInv /\ [Next]_vars => DurableInv' BY NextDurable
<1>3. ASSUME TypeInv, DurableInv PROVE PublishBeforeRewrite
  <2> SUFFICES ASSUME NEW d \in Outcomes
               PROVE  d.tail.first <= SealedEnd(d.segs) + 1
    BY DEF PublishBeforeRewrite
  <2>1. PICK s \in Directories : d.segs = s.segs /\ d.tail \in AfterLoss(TailOf(s))
    BY OutcomeOf
  <2>2. Held(d.segs, d.tail, acked) BY <2>1, HeldAfterLoss, <1>3, SMTT(60) DEF DurableInv
  <2> QED BY <2>2, SMTT(60) DEF Held
<1> QED BY <1>1, <1>2, <1>3, TypeInvariant, PTL DEF Spec
=============================================================================
