------------------------------- MODULE Ledger -------------------------------
(***************************************************************************)
(* The identity's record on disk: internal/ledger.  Records are appended   *)
(* to one live tail file; Seal moves a witnessed prefix of the tail into   *)
(* an immutable segment file and rewrites the tail without it.  A process  *)
(* may die, and the machine may lose power, between any two steps below;   *)
(* OpenVerified and RecoverSeal are what finishes an interrupted step.     *)
(*                                                                         *)
(* The disk is modelled as a directory of names over files.  A rename is   *)
(* visible at once and survives a power loss only after SyncDir; bytes are *)
(* visible at once and survive only after the file's own sync.             *)
(*                                                                         *)
(* A record is its entry hash (a fresh number, id), the hash it links to   *)
(* (prev) and its kind: "event", an on-time witness "head" or a "late" one *)
(* (internal/witness decides which; a late head never closes a segment).   *)
(* Signatures, payloads and the gzip and JSON framing are left out.        *)
(***************************************************************************)
EXTENDS Integers, Sequences, FiniteSets

CONSTANTS
  MaxRecords,   \* bound: records ever signed
  MaxFaults,    \* bound: I/O errors, process deaths and power losses together
  Journalled    \* TRUE: directory changes reach the disk in order, and a
                \* file's sync carries those made before it (one metadata
                \* journal).  FALSE: only SyncDir publishes a name, and
                \* unpublished names survive a power loss in any combination

ASSUME BoundsAssumption ==
  /\ MaxRecords \in Nat \ {0}
  /\ MaxFaults \in Nat
  /\ Journalled \in BOOLEAN

VARIABLES
  segs,       \* the sealed segment files, in order
  tail,       \* the live tail file
  stale,      \* earlier directories a power loss may still bring back
  debris,     \* a temporary file lies beside the ledger
  kept,       \* torn frames preserved in .torn sidecars
  lastSeq, lastHash, sealedSeq, sealedHash,   \* the open Ledger's boundaries
  file,       \* l.file is open
  sealErr,    \* a seal failed after its segment was published
  frozen,     \* frozenReason is set
  op,         \* the operation that holds l.mu
  pc,         \* the next step of that operation
  rec,        \* the record being appended
  head,       \* the head being sealed
  minted,     \* records signed so far
  faults,     \* faults so far
  acked       \* every record through the last one an Append returned

disk == <<segs, tail, stale, debris, kept>>
bounds == <<lastSeq, lastHash, sealedSeq, sealedHash>>
state == <<file, sealErr, frozen>>
vars == <<disk, bounds, state, op, pc, rec, head, minted, faults, acked>>

-----------------------------------------------------------------------------
(* Records, files and directories *)

Ids == 1 .. MaxRecords
Kinds == {"event", "head", "late"}
Record == [id : Ids, prev : 0 .. MaxRecords, kind : Kinds]
NoRecord == [id |-> 0, prev |-> 0, kind |-> "event"]

\* A tail file holds the records first..last; those through synced are
\* durable, and torn names an incomplete frame after the last (0: none).
NoFile == [first |-> 1, last |-> 0, recs |-> <<>>, synced |-> 0, torn |-> 0]

Empty(t) == t.last < t.first

\* The end of the sealed run g.
SealedEnd(g) == IF g = <<>> THEN 0 ELSE g[Len(g)].last

\* Does tail t begin with records the newest segment of g already holds?
Overlaps(g, t) == ~Empty(t) /\ t.first <= SealedEnd(g)

\* The last record a reader of segments g and tail t reaches.
End(g, t) ==
  IF Empty(t) \/ t.last < SealedEnd(g) THEN SealedEnd(g) ELSE t.last

SegmentOf(g, n) == CHOOSE i \in DOMAIN g : g[i].first <= n /\ n <= g[i].last

RecordAt(g, t, n) ==
  IF n <= SealedEnd(g) THEN g[SegmentOf(g, n)].recs[n] ELSE t.recs[n]

HashAt(g, t, n) == IF n = 0 THEN 0 ELSE RecordAt(g, t, n).id

\* What Stream delivers, as the sequence of entry hashes.
Chain(g, t) == [n \in 1 .. End(g, t) |-> RecordAt(g, t, n).id]

-----------------------------------------------------------------------------
(* What reading a directory demands of it *)

\* The segments' names run on from record 1 without a gap, and each ends at
\* a head that was on time.
ListSegments(g) ==
  \A i \in DOMAIN g :
    /\ g[i].first = IF i = 1 THEN 1 ELSE g[i-1].last + 1
    /\ g[i].recs[g[i].last].kind = "head"

\* The tail may repeat records of the newest segment only, and only as they
\* stand there.
OverlapAgrees(g, t) ==
  Overlaps(g, t) =>
    /\ t.first >= g[Len(g)].first
    /\ \A n \in t.first .. t.last :
         n <= SealedEnd(g) => t.recs[n].id = g[Len(g)].recs[n].id

VerifyChain(g, t) ==
  /\ ListSegments(g)
  /\ OverlapAgrees(g, t)
  /\ ~Empty(t) => t.first <= SealedEnd(g) + 1
  /\ End(g, t) > 0
  /\ \A n \in 1 .. End(g, t) : RecordAt(g, t, n).prev = HashAt(g, t, n - 1)

\* verifyTailBeforeAppend: the file still ends where the memory says.
TailAgrees ==
  IF Empty(tail)
  THEN lastSeq = sealedSeq /\ lastHash = sealedHash
  ELSE /\ tail.last = lastSeq
       /\ tail.recs[tail.last].id = lastHash
       /\ sealedSeq > 0 /\ tail.first = sealedSeq + 1
            => tail.recs[tail.first].prev = sealedHash
       /\ \A n \in tail.first + 1 .. tail.last :
            tail.recs[n].prev = tail.recs[n-1].id

-----------------------------------------------------------------------------
(* Power loss *)

CutAt(t, k, frame) ==
  [first |-> t.first, last |-> k, recs |-> [n \in t.first .. k |-> t.recs[n]],
   synced |-> k, torn |-> frame]

\* The part of a frame that may be left where a file was cut after record k.
FrameAfter(t, k) == IF k < t.last THEN t.recs[k + 1].id ELSE t.torn

\* A file keeps what was synced; of what was not, some whole records in
\* order, and possibly a part of the next frame.
AfterLoss(t) ==
  UNION { {CutAt(t, k, 0), CutAt(t, k, FrameAfter(t, k))} :
          k \in t.synced .. t.last }

\* Entries of stale made before the tail was renamed share the live file.
TailOf(s) == IF s.shared THEN tail ELSE s.tail

Here == [segs |-> segs, shared |-> TRUE, tail |-> NoFile]

Directories == stale \cup {Here}

\* The directories a power loss may leave now.
Outcomes ==
  UNION { { [segs |-> s.segs, tail |-> t] :
            t \in UNION { AfterLoss(TailOf(u)) :
                          u \in IF Journalled THEN {s} ELSE Directories } } :
          s \in Directories }

-----------------------------------------------------------------------------
(* Syncing *)

\* SyncDir(l.dir): every name stands as it is seen.
SyncDir == stale' = {}

\* file.Sync() on the tail; a journalled file system commits names with it.
FileSynced(t) == [t EXCEPT !.synced = t.last]

FileSyncPublishes == stale' = IF Journalled THEN {} ELSE stale

-----------------------------------------------------------------------------
(* Steps: at(o, p) is operation o about to take its step p *)

Ops == {"none", "append", "seal", "recover", "open"}

Steps == {"idle", "frame", "sync", "rename segment", "publish segment",
          "close tail", "copy tail", "rename tail", "publish tail", "reopen",
          "preserve", "truncate", "sweep", "down"}

at(o, p) == op = o /\ pc = p

Goto(o, p) == op' = o /\ pc' = p

Idle == at("none", "idle")

Down == at("none", "down")

Fault == faults < MaxFaults /\ faults' = faults + 1

\* The early returns AppendPrepared and Seal share.
Ready == Idle /\ ~frozen /\ ~sealErr

-----------------------------------------------------------------------------
(* AppendPrepared *)

\* Sign the record and begin to write its line.
AppendBegin(kind) ==
  /\ Ready
  /\ TailAgrees
  /\ minted < MaxRecords
  /\ minted' = minted + 1
  /\ rec' = [id |-> minted + 1, prev |-> lastHash, kind |-> kind]
  /\ tail' = [tail EXCEPT !.torn = minted + 1]
  /\ Goto("append", "frame")
  /\ UNCHANGED <<segs, stale, debris, kept, bounds, state, head, faults, acked>>

\* The line and its newline have reached the file.
AppendWritten ==
  /\ at("append", "frame")
  /\ LET n == lastSeq + 1
         first == IF Empty(tail) THEN n ELSE tail.first
     IN  tail' = [first |-> first, last |-> n,
                  recs |-> [i \in first .. n |->
                              IF i = n THEN rec ELSE tail.recs[i]],
                  synced |-> IF Empty(tail) THEN n - 1 ELSE tail.synced,
                  torn |-> 0]
  /\ Goto("append", "sync")
  /\ UNCHANGED <<segs, stale, debris, kept, bounds, state, rec, head, minted,
                 faults, acked>>

\* Mutant: the append returns without the sync.
AppendSync_Unsynced ==
  /\ at("append", "sync")
  /\ lastSeq' = lastSeq + 1 /\ lastHash' = rec.id
  /\ acked' = Chain(segs, tail)
  /\ Goto("none", "idle")
  /\ rec' = NoRecord
  /\ UNCHANGED <<disk, sealedSeq, sealedHash, state, head, minted, faults>>

\* fsync returned: only now does the boundary advance and the caller hear.
AppendSync ==
  /\ at("append", "sync")
  /\ tail' = FileSynced(tail)
  /\ FileSyncPublishes
  /\ lastSeq' = lastSeq + 1 /\ lastHash' = rec.id
  /\ acked' = Chain(segs, tail)
  /\ Goto("none", "idle")
  /\ rec' = NoRecord
  /\ UNCHANGED <<segs, debris, kept, sealedSeq, sealedHash, state, head, minted,
                 faults>>

\* Mutant: a failed append does not freeze the ledger.
AppendFail_Unfrozen ==
  /\ op = "append"
  /\ Fault
  /\ tail' \in {tail, [tail EXCEPT !.torn = 0]}
  /\ Goto("none", "idle")
  /\ rec' = NoRecord
  /\ UNCHANGED <<segs, stale, debris, kept, bounds, state, head, minted, acked>>

\* uncertainAppend: a write, flush or sync error freezes the ledger, with
\* nothing, a part or the whole of the line in the file.
AppendFail ==
  /\ op = "append"
  /\ Fault
  /\ frozen' = TRUE
  /\ tail' \in {tail, [tail EXCEPT !.torn = 0]}
  /\ Goto("none", "idle")
  /\ rec' = NoRecord
  /\ UNCHANGED <<segs, stale, debris, kept, bounds, file, sealErr, head, minted,
                 acked>>

-----------------------------------------------------------------------------
(* Seal, and the rewriting of the tail it shares with both recoveries *)

\* Mutant: a late head may close a segment.
SealBegin_AnyHead(h) ==
  /\ Ready
  /\ h > sealedSeq /\ h <= lastSeq
  /\ tail.recs[h].kind \in {"head", "late"}
  /\ debris' = TRUE
  /\ head' = h
  /\ Goto("seal", "rename segment")
  /\ UNCHANGED <<segs, tail, stale, kept, bounds, state, rec, minted, faults,
                 acked>>

\* writeSegment: the records after the sealed run through head h are written
\* and synced under a temporary name.  AnchorPass seals only on-time heads.
SealBegin(h) ==
  /\ Ready
  /\ h > sealedSeq /\ h <= lastSeq
  /\ tail.recs[h].kind = "head"
  /\ debris' = TRUE
  /\ head' = h
  /\ Goto("seal", "rename segment")
  /\ UNCHANGED <<segs, tail, stale, kept, bounds, state, rec, minted, faults,
                 acked>>

\* Nothing was published: the temporary file is removed (the removal's own
\* error is ignored) and no harm is done.
SealAbort ==
  /\ at("seal", "rename segment")
  /\ Fault
  /\ debris' \in BOOLEAN
  /\ head' = 0
  /\ Goto("none", "idle")
  /\ UNCHANGED <<segs, tail, stale, kept, bounds, state, rec, minted, acked>>

\* Mutant: the segment stops one record short of the head it is named for.
SealRename_Short ==
  /\ at("seal", "rename segment")
  /\ segs' = Append(segs,
       [first |-> sealedSeq + 1, last |-> head,
        recs |-> [n \in sealedSeq + 1 .. head - 1 |-> tail.recs[n]]])
  /\ stale' = Directories
  /\ debris' = FALSE
  /\ head' = 0
  /\ Goto("seal", "publish segment")
  /\ UNCHANGED <<tail, kept, bounds, state, rec, minted, faults, acked>>

\* Mutant: every segment is given the same name.
SealRename_OverLast ==
  /\ at("seal", "rename segment")
  /\ segs' = << [first |-> sealedSeq + 1, last |-> head,
                 recs |-> [n \in sealedSeq + 1 .. head |-> tail.recs[n]]] >>
  /\ stale' = Directories
  /\ debris' = FALSE
  /\ head' = 0
  /\ Goto("seal", "publish segment")
  /\ UNCHANGED <<tail, kept, bounds, state, rec, minted, faults, acked>>

SealRename ==
  /\ at("seal", "rename segment")
  /\ segs' = Append(segs,
       [first |-> sealedSeq + 1, last |-> head,
        recs |-> [n \in sealedSeq + 1 .. head |-> tail.recs[n]]])
  /\ stale' = Directories
  /\ debris' = FALSE
  /\ head' = 0
  /\ Goto("seal", "publish segment")
  /\ UNCHANGED <<tail, kept, bounds, state, rec, minted, faults, acked>>

SealPublish ==
  /\ at("seal", "publish segment")
  /\ SyncDir
  /\ Goto("seal", "close tail")
  /\ UNCHANGED <<segs, tail, debris, kept, bounds, state, rec, head, minted,
                 faults, acked>>

\* Sync and close the tail before it is rewritten; RecoverSeal then sweeps.
CloseTail ==
  /\ pc = "close tail"
  /\ tail' = IF file THEN FileSynced(tail) ELSE tail
  /\ IF file THEN FileSyncPublishes ELSE UNCHANGED stale
  /\ file' = FALSE
  /\ debris' = (op = "seal" /\ debris)
  /\ Goto(op, IF Overlaps(segs, tail) THEN "copy tail" ELSE "reopen")
  /\ UNCHANGED <<segs, kept, bounds, sealErr, frozen, rec, head, minted, faults,
                 acked>>

\* replaceTail: what follows the sealed run is copied and synced under a
\* temporary name,
CopyTail ==
  /\ pc = "copy tail"
  /\ debris' = TRUE
  /\ Goto(op, "rename tail")
  /\ UNCHANGED <<segs, tail, stale, kept, bounds, state, rec, head, minted,
                 faults, acked>>

\* Mutant: the copy stops one record short.
RenameTail_Short ==
  /\ pc = "rename tail"
  /\ LET from == SealedEnd(segs) + 1
         end == End(segs, tail) - 1
     IN  tail' = [first |-> from, last |-> end,
                  recs |-> [n \in from .. end |-> tail.recs[n]],
                  synced |-> end, torn |-> tail.torn]
  /\ stale' = { [segs |-> s.segs, shared |-> FALSE, tail |-> TailOf(s)] :
                s \in Directories }
  /\ debris' = FALSE
  /\ Goto(op, "publish tail")
  /\ UNCHANGED <<segs, kept, bounds, state, rec, head, minted, faults, acked>>

\* renamed over the tail,
RenameTail ==
  /\ pc = "rename tail"
  /\ LET from == SealedEnd(segs) + 1
         end == End(segs, tail)
     IN  tail' = [first |-> from, last |-> end,
                  recs |-> [n \in from .. end |-> tail.recs[n]],
                  synced |-> end, torn |-> tail.torn]
  /\ stale' = { [segs |-> s.segs, shared |-> FALSE, tail |-> TailOf(s)] :
                s \in Directories }
  /\ debris' = FALSE
  /\ Goto(op, "publish tail")
  /\ UNCHANGED <<segs, kept, bounds, state, rec, head, minted, faults, acked>>

\* and published.
PublishTail ==
  /\ pc = "publish tail"
  /\ SyncDir
  /\ Goto(op, "reopen")
  /\ UNCHANGED <<segs, tail, debris, kept, bounds, state, rec, head, minted,
                 faults, acked>>

\* Mutant: a recovery leaves the seal's error standing.
Reopen_KeepsError ==
  /\ pc = "reopen"
  /\ file' = TRUE
  /\ IF op = "open"
     THEN /\ lastSeq' = End(segs, tail)
          /\ lastHash' = HashAt(segs, tail, End(segs, tail))
     ELSE UNCHANGED <<lastSeq, lastHash>>
  /\ sealedSeq' = SealedEnd(segs)
  /\ sealedHash' = HashAt(segs, tail, SealedEnd(segs))
  /\ Goto("none", "idle")
  /\ UNCHANGED <<disk, sealErr, frozen, rec, head, minted, faults, acked>>

\* Open and lock the tail again.  An opening also reads the boundary back
\* (readChainState); a recovery forgets the seal's error.
Reopen ==
  /\ pc = "reopen"
  /\ file' = TRUE
  /\ IF op = "open"
     THEN /\ lastSeq' = End(segs, tail)
          /\ lastHash' = HashAt(segs, tail, End(segs, tail))
     ELSE UNCHANGED <<lastSeq, lastHash>>
  /\ sealedSeq' = SealedEnd(segs)
  /\ sealedHash' = HashAt(segs, tail, SealedEnd(segs))
  /\ sealErr' = FALSE
  /\ Goto("none", "idle")
  /\ UNCHANGED <<disk, frozen, rec, head, minted, faults, acked>>

\* Any error after the segment's rename leaves the seal to be recovered, and
\* a recovery that fails leaves it so.  Closing the tail may fail before or
\* after l.file is dropped; a temporary tail is removed, if removal succeeds.
SealFail ==
  /\ \/ op = "seal" /\ pc # "rename segment"
     \/ op = "recover"
  /\ Fault
  /\ sealErr' = TRUE
  /\ file' \in IF pc = "close tail" THEN {file, FALSE} ELSE {file}
  /\ debris' \in IF pc = "rename tail" THEN BOOLEAN ELSE {debris}
  /\ Goto("none", "idle")
  /\ UNCHANGED <<segs, tail, stale, kept, bounds, frozen, rec, head, minted,
                 acked>>

-----------------------------------------------------------------------------
(* RecoverSeal and OpenVerified *)

Torn == tail.torn # 0

\* RecoverSeal: the containers verify and end at the acknowledged boundary;
\* the directory is synced before anything is dropped from the tail.
RecoverBegin ==
  /\ Idle /\ ~frozen /\ sealErr
  /\ VerifyChain(segs, tail)
  /\ End(segs, tail) = lastSeq /\ HashAt(segs, tail, lastSeq) = lastHash
  /\ SyncDir
  /\ Goto("recover", IF Torn THEN "preserve" ELSE "close tail")
  /\ UNCHANGED <<segs, tail, debris, kept, bounds, state, rec, head, minted,
                 faults, acked>>

\* Mutant: the torn frame is cut before it is preserved.
OpenBegin_CutsFirst ==
  /\ Down
  /\ VerifyChain(segs, tail)
  /\ Goto("open", IF Torn THEN "truncate" ELSE "sweep")
  /\ UNCHANGED <<disk, bounds, state, rec, head, minted, faults, acked>>

\* OpenVerified, under the directory lock and before any cleanup.
OpenBegin ==
  /\ Down
  /\ VerifyChain(segs, tail)
  /\ Goto("open", IF Torn THEN "preserve" ELSE "sweep")
  /\ UNCHANGED <<disk, bounds, state, rec, head, minted, faults, acked>>

\* Mutant: the suffix begins one record too early.
Preserve_Early ==
  /\ pc = "preserve"
  /\ kept' = kept \cup {tail.torn}
               \cup (IF Empty(tail) THEN {} ELSE {tail.recs[tail.last].id})
  /\ Goto(op, "truncate")
  /\ UNCHANGED <<segs, tail, stale, debris, bounds, state, rec, head, minted,
                 faults, acked>>

\* trimPreservedSuffix: the torn bytes are published in a sidecar named by
\* their content, and only then cut from the tail.
Preserve ==
  /\ pc = "preserve"
  /\ kept' = kept \cup {tail.torn}
  /\ Goto(op, "truncate")
  /\ UNCHANGED <<segs, tail, stale, debris, bounds, state, rec, head, minted,
                 faults, acked>>

Truncate ==
  /\ pc = "truncate"
  /\ tail' = [FileSynced(tail) EXCEPT !.torn = 0]
  /\ FileSyncPublishes
  /\ Goto(op, IF op = "recover" THEN "close tail" ELSE "sweep")
  /\ UNCHANGED <<segs, debris, kept, bounds, state, rec, head, minted, faults,
                 acked>>

\* sweepDebris, then reconcileTail where a seal was interrupted.
Sweep ==
  /\ pc = "sweep"
  /\ debris' = FALSE
  /\ Goto(op, IF Overlaps(segs, tail) THEN "copy tail" ELSE "reopen")
  /\ UNCHANGED <<segs, tail, stale, kept, bounds, state, rec, head, minted,
                 faults, acked>>

-----------------------------------------------------------------------------
(* The process and the machine *)

\* SetFrozen, and the freeze AppendPrepared sets when it cannot read the tail.
SetFrozen ==
  /\ Idle /\ ~frozen
  /\ frozen' = TRUE
  /\ UNCHANGED <<disk, bounds, file, sealErr, op, pc, rec, head, minted, faults,
                 acked>>

\* What is in memory goes with the process.
Forget ==
  /\ lastSeq' = 0 /\ lastHash' = 0 /\ sealedSeq' = 0 /\ sealedHash' = 0
  /\ file' = FALSE /\ sealErr' = FALSE /\ frozen' = FALSE
  /\ rec' = NoRecord /\ head' = 0
  /\ Goto("none", "down")

\* Close: flush, sync, release the locks; the process ends.
Close ==
  /\ Idle
  /\ tail' = IF file THEN FileSynced(tail) ELSE tail
  /\ IF file THEN FileSyncPublishes ELSE UNCHANGED stale
  /\ Forget
  /\ UNCHANGED <<segs, debris, kept, minted, faults, acked>>

\* The process dies, or an opening gives up: the disk stays as it is.
Crash ==
  /\ ~Down
  /\ Fault
  /\ Forget
  /\ UNCHANGED <<disk, minted, acked>>

PowerLoss ==
  /\ Fault
  /\ \E d \in Outcomes : segs' = d.segs /\ tail' = d.tail
  /\ stale' = {}
  /\ Forget
  /\ UNCHANGED <<debris, kept, minted, acked>>

-----------------------------------------------------------------------------
(* A born identity: its genesis record is durable and the ledger is open. *)

Init ==
  /\ segs = <<>>
  /\ tail = [first |-> 1, last |-> 1,
             recs |-> [n \in 1 .. 1 |-> [id |-> 1, prev |-> 0, kind |-> "event"]],
             synced |-> 1, torn |-> 0]
  /\ stale = {} /\ debris = FALSE /\ kept = {}
  /\ lastSeq = 1 /\ lastHash = 1 /\ sealedSeq = 0 /\ sealedHash = 0
  /\ file = TRUE /\ sealErr = FALSE /\ frozen = FALSE
  /\ op = "none" /\ pc = "idle"
  /\ rec = NoRecord /\ head = 0
  /\ minted = 1 /\ faults = 0
  /\ acked = <<1>>

Rewrite == CloseTail \/ CopyTail \/ RenameTail \/ PublishTail \/ Reopen

Recover == RecoverBegin \/ OpenBegin \/ Preserve \/ Truncate \/ Sweep

Next ==
  \/ \E kind \in Kinds : AppendBegin(kind)
  \/ AppendWritten \/ AppendSync \/ AppendFail
  \/ \E h \in 1 .. MaxRecords : SealBegin(h)
  \/ SealAbort \/ SealRename \/ SealPublish \/ SealFail
  \/ Rewrite \/ Recover
  \/ SetFrozen \/ Close \/ Crash \/ PowerLoss

Spec == Init /\ [][Next]_vars

-----------------------------------------------------------------------------
(* Liveness needs the operations to run on and a restart after a death; a    *)
(* recovery is begun by the next append that meets the seal's error.         *)

Fairness ==
  WF_vars(AppendWritten \/ AppendSync \/ SealRename \/ SealPublish
          \/ Rewrite \/ Recover)

FairSpec == Spec /\ Fairness

-----------------------------------------------------------------------------
(* Properties *)

FileOK(t) ==
  /\ t = [first |-> t.first, last |-> t.last, recs |-> t.recs,
          synced |-> t.synced, torn |-> t.torn]
  /\ t.first \in 1 .. MaxRecords + 1
  /\ t.last \in 0 .. MaxRecords
  /\ t.synced \in t.first - 1 .. t.last
  /\ t.torn \in 0 .. MaxRecords
  /\ t.recs \in [t.first .. t.last -> Record]

SegmentOK(s) ==
  /\ s = [first |-> s.first, last |-> s.last, recs |-> s.recs]
  /\ s.first \in 1 .. MaxRecords
  /\ s.last \in s.first .. MaxRecords
  /\ s.recs \in [s.first .. s.last -> Record]

SegmentsOK(g) ==
  g \in Seq({g[i] : i \in DOMAIN g}) /\ \A i \in DOMAIN g : SegmentOK(g[i])

DirectoryOK(s) ==
  /\ s = [segs |-> s.segs, shared |-> s.shared, tail |-> s.tail]
  /\ SegmentsOK(s.segs) /\ s.shared \in BOOLEAN /\ FileOK(s.tail)

StaleOK == \A s \in stale : DirectoryOK(s)

MemoryOK ==
  /\ debris \in BOOLEAN /\ kept \subseteq Ids
  /\ lastSeq \in 0 .. MaxRecords /\ lastHash \in 0 .. MaxRecords
  /\ sealedSeq \in 0 .. MaxRecords /\ sealedHash \in 0 .. MaxRecords
  /\ file \in BOOLEAN /\ sealErr \in BOOLEAN /\ frozen \in BOOLEAN
  /\ op \in Ops /\ pc \in Steps
  /\ rec \in Record \cup {NoRecord} /\ head \in 0 .. MaxRecords
  /\ minted \in Ids /\ faults \in 0 .. MaxFaults
  /\ acked \in Seq(Ids)

\* Every variable has its type: a file holds exactly the records its first
\* and last name, and never claims more durable than it holds.
TypeOK == SegmentsOK(segs) /\ FileOK(tail) /\ StaleOK /\ MemoryOK

\* Whatever step a power loss interrupts, the directory it leaves holds every
\* record an Append has returned, each at its place: no order of writes,
\* syncs and renames in AppendPrepared, Seal, RecoverSeal and OpenVerified
\* lets an acknowledged record go.
AckedDurable ==
  \A d \in Outcomes :
    /\ Len(acked) <= End(d.segs, d.tail)
    /\ \A n \in 1 .. Len(acked) : RecordAt(d.segs, d.tail, n).id = acked[n]

\* Whatever step a power loss interrupts, the next OpenVerified accepts what
\* it finds: the segments are contiguous and closed by on-time heads, the
\* tail overlaps only the newest of them and agrees with it, and every link
\* holds.  A crash in the middle of a seal never ends in SAFE.
AlwaysReopens == \A d \in Outcomes : VerifyChain(d.segs, d.tail)

\* Whatever step a failure interrupts, no directory it may leave has the
\* tail's rewrite without the segment that holds what the rewrite dropped.
PublishBeforeRewrite ==
  \A d \in Outcomes : d.tail.first <= SealedEnd(d.segs) + 1

\* The ledger never freezes on its own history: when an append would be
\* taken, verifyTailBeforeAppend finds the file as the memory has it and no
\* torn frame at its end; when RecoverSeal would run, the containers verify
\* and end at the boundary it compares them with.
NoFalseFreeze ==
  /\ Ready => TailAgrees /\ ~Torn /\ lastSeq = End(segs, tail)
  /\ Idle /\ sealErr /\ ~frozen =>
       /\ VerifyChain(segs, tail)
       /\ lastSeq = End(segs, tail) /\ lastHash = HashAt(segs, tail, lastSeq)

\* A frame set aside in a sidecar is out of the record for good: no
\* directory a failure may leave delivers it from its tail again.  (A segment
\* may hold the record whole, when it was sealed before its copy in the tail
\* was lost.)
TornStaysOut ==
  \A d \in Outcomes : \A n \in d.tail.first .. d.tail.last :
    n > SealedEnd(d.segs) => d.tail.recs[n].id \notin kept

\* Recovery cuts a torn frame from the tail only once its bytes stand in a
\* sidecar; only a power loss, or the append that is writing it, may make it
\* go otherwise.
TornPreserved ==
  [][tail.torn # 0 /\ tail'.torn # tail.torn =>
       tail.torn \in kept' \/ op = "append" \/ PowerLoss]_vars

\* A segment whose name has been synced stands unchanged from then on,
\* through later seals, recoveries and power losses.
SealedForGood ==
  [][\A i \in DOMAIN segs :
       (\A s \in stale : i \in DOMAIN s.segs) =>
         i \in DOMAIN segs' /\ segs'[i] = segs[i]]_vars

\* An operation or a failure always ends, once failures stop, with the
\* ledger open and either free of a seal's error or frozen: an interrupted
\* seal is finished, never left half done.
Settles == []<>(Idle /\ (frozen \/ ~sealErr))

\* To a reader of the containers every step of Seal, RecoverSeal and
\* OpenVerified is invisible, and a failure only takes back records that
\* were not acknowledged.
Log == INSTANCE DurableLog WITH log <- Chain(segs, tail), confirmed <- Len(acked)

IsDurableLog == Log!LogSpec

=============================================================================
