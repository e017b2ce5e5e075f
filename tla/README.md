# Verification of aii-os in TLA+

aii-os runs one identity. Everything that happens to it becomes a signed record
in an append-only ledger on disk. A SQLite database, the projection, is what the
program reads; it can be rebuilt from the ledger at any time. A remote witness
attests the ledger's head from time to time, and attested records are sealed
into immutable segment files. When record and projection, or record and
witness, no longer agree, the program freezes both and goes on read-only (SAFE).

This directory models that core: the ledger's files under process deaths and
power losses, and the door every record passes on its way into ledger and
projection. `PROJECT.json` lists the runs, the source lines each definition
stands for, the hazards and the theorems.

## The system and its parts

| Part | State | Operations | What makes it hard |
|---|---|---|---|
| `internal/ledger` | tail file, segment files, boundaries in memory, seal error, freeze | `AppendPrepared`, `Seal`, `RecoverSeal`, `OpenVerified`, `Capture`, `Close` | a stop between any two of write, sync, rename, directory sync |
| record door, `internal/app/adapters.go` | lock, pause | `Append`, `appendHead`, `capture`, `PauseAppends` | concurrent callers; a failure between ledger and projection |
| projection, `internal/store` | mirror of the ledger, derived tables, freeze | `ValidateEvent`, `Materialize`, `ReplayAll`, `PinAt`, `CheckAcknowledgedPrefix` | it outlives, or falls behind, the record it mirrors |
| mode and start, `internal/app` | LIVE or SAFE, what is open | `enterSafeFor`, the start, `startSafeBoot`, the stop | a freeze while an append is under way |
| witness, `internal/witness` | kept request, pending receipt, last receipt | `AnchorPass`, `SettlePending` | answers that are late, lost or contradictory; a stop before the mint |
| work queue, `internal/store`, `internal/cognitive` | rows, leases, running set | claim, complete, fail, sweep | a claim that outlives its lease |
| outbox, `internal/store` | attempts, claims by token | claim, release, settle | an effect whose answer is lost |
| plugin supervisor | child, generation, restart count | spawn, reap, restart, close | timers and exits of earlier children |
| plugin facility | desired state, activations, holds | observe, pass, activate, retire, hold | a hold that overtakes an activation |
| updates | binary, backup, record, boot marker | swap, settle, roll back | a stop in the middle of a swap |
| restore, `internal/continuity` | journal, set-aside files | perform, finish, withdraw | which moves were made is read off the files |
| quiescence gate, foreground holds | paused tickers; active holds and queued edges | pause, resume, tick; acquire, release, subscribe | a callback already running; a subscriber that leaves |
| OAuth source, timers | credential file; wakes | refresh; alarm, stop | another process's write; a wake during shutdown |

The first four, and the anchor's part in the second, are modelled. The rest of
the table is the plan below. The remaining packages (views, protocols of model
providers, tools, parsing, cryptography, audio, installers) are listed in
`PROJECT.json` with the reason they are left out.

What each part should guarantee is stated where it is modelled; the hazards in
`PROJECT.json` name, line by line, what could break it.

## Modules

### Ledger

`Ledger` models the package that owns the files. Its variables are the files
(`segs`, `tail`, `debris`, `kept`), what a power loss may bring back (`stale`)
and the fields of the Go struct (`lastSeq`, `lastHash`, `sealedSeq`,
`sealedHash`, `file`, `sealErr`, `frozen`). `op` and `pc` say which operation
holds `l.mu` and where it is. A record is its entry hash, the hash it links to
and its kind; payloads, signatures and encodings are left out.

| Actions | Code |
|---|---|
| `AppendBegin`, `AppendWritten`, `AppendSync`, `AppendFail` | `AppendPrepared`, `uncertainAppend` |
| `SealBegin`, `SealRename`, `SealPublish`, `SealAbort`, `SealFail` | `writeSegment`, `Seal` |
| `CloseTail`, `CopyTail`, `RenameTail`, `PublishTail`, `Reopen` | `replaceTailFrom`, `replaceTail` and the same steps in `reconcileTail` |
| `OpenBegin`, `Preserve`, `Truncate`, `Sweep` | `OpenVerified`, `trimPreservedSuffix`, `sweepDebris`, `openLedger` |
| `RecoverBegin` | `RecoverSeal` |
| `SetFrozen`, `Close`, `Crash`, `PowerLoss` | the calls, and the world |

A process that dies leaves the files as they are. A power loss keeps any prefix
of the tail not shorter than its synced part, possibly with a torn frame after
it, and, of the directory changes since the last `SyncDir`, what the constant
`Journalled` allows. `TRUE`: a prefix of them, and a file's sync carries the
changes before it, as with one ordered metadata journal. `FALSE`: any
combination, which is all POSIX promises.

`DurableLog` is what the ledger promises a reader: a log that grows at its end,
confirms what it holds and loses only what it had not confirmed. `Ledger`
implements it (`IsDurableLog`) with the chain read from segments and tail as the
log and the number of acknowledged records as what is confirmed. Appends,
seals, recoveries and opens other than the step that writes a line are
stuttering there.

### RecordDoor

`RecordDoor` composes the door with the ledger, the projection, the mode, the
anchor's pause and the next start. The ledger appears as what `Ledger` shows it
to be: a sequence (`log`) whose prefix through `synced` no failure takes. The
projection is the sequence of events it has committed (`mirror`).

Requests are calls in flight, each with its own `pc`: events (`Append`), heads
(`appendHead`, made by an anchor pass) and captures. The projection's many rules
are abstracted to the one feature that matters here, that admission depends on
what is already there: of the events in `Contrary` it takes the first.

| Actions | Code |
|---|---|
| `Enter`, `Wake`, `NoLedger` | `admit`: the lock and `awaitPause` |
| `Admit`, `Refuse` | `ValidateEvent` |
| `AppendRefused`, `TailUnreadable`, `RecoverSeal`, `Write`, `Sync`, `Uncertain` | `AppendPrepared` and the retry after `recoverSeal` |
| `Begin`, `Commit`, `Unmaterialized` | `Materialize`, and the freeze when it fails |
| `Alarm`, `Alarmed`, `Conflict`, `FreezeLedger`, `FreezeStore` | `integrityLost`, `enterSafeFor`, `applySafeState` |
| `CopyRecord`, `CaptureRecovers`, `Pin`, `CaptureFails` | `capture`, `Ledger.Capture`, `PinAt` |
| `Pause`, `Resend`, `SettlePending`, `NoReceipt`, `Release`, `Expire` | `AnchorPass` and `PauseAppends` |
| `SealFails` | a seal beside the door that leaves an error |
| `Stop`, `Crash`, `PowerLoss`, `Boot`, `Replay` | shutdown, the world, `openVerifiedRecord`, `prepareSchemaStore` |

One timer runs the anchor passes and is armed again when a pass has returned, so
they never overlap. A pass comes in three forms. `Pause` begins a pause and reads
the record's end as its bookmark, in one step; in the code the bookmark is read a
little later. The earlier reading leaves more records after the bookmark, so what
`HeadOnTime` says of it holds of the later one too. `Resend` begins a pause too,
but sends the bookmark of an earlier pass whose answer was lost; records have
landed since with no pause at all, its head is late, and `HeadOnTime` does not
speak of it. `SettlePending` mints the receipt an earlier pass kept, without a
pause. Which bookmark or receipt lies beside the ledger is not state of this
module: it may be for any record that is held and comes after the one the last
head attests (`LeftBeside`), which is what `requestToSendAgain` asks of it.

One error path is left out: `recoverSeal` returning `ErrTailIntegrity`, because
the end it reads is not the acknowledged one. `Ledger` shows that it is, over
whatever the program wrote (`NoFalseFreeze`).

## What is checked

Numbers are distinct states. "Faults" counts I/O errors, deaths and power
losses together.

| Run | Bounds | States | Shows |
|---|---|---|---|
| `ledger` | 5 records, 3 faults, journalled | 317,068 | `AckedDurable`, `AlwaysReopens`, `NoFalseFreeze`, `TornStaysOut`, `TornPreserved`, `SealedForGood`, `TypeOK` |
| `ledger_live` | 4 records, 2 faults, journalled | 21,910 | `Settles`, `IsDurableLog` |
| `ledger_posix` | 4 records, 2 faults, not journalled | | `PublishBeforeRewrite` fails |
| `door` | 2 contrary events, 1 head, 1 capture, 2 pauses, 2 faults | 1,503,670 | `Together`, `AnswersTrue`, `RecordReplays`, `CaptureAtBoundary`, `TypeOK` |
| `door_pause` | 2 events, 2 heads, 2 pauses, no faults | 1,662,964 | `HeadOnTime` |
| `door_live` | 2 events, 1 head, 1 pause, 1 fault | 112,143 | `Answered`, `Alerted` |
| `door_debris` | 1 event, 2 faults | | `DebrisBootsLive` fails |

Why the bounds are enough:

- Five records make two segments and a record after them: a seal over a sealed
  run, with a tail left to rewrite. Three faults let a recovery fail while it
  repairs an earlier failure.
- Two events are enough for one to be validated while the other lands. A head
  and a capture beside them meet every lock order. Two faults are a failure and
  a death before it is dealt with.
- Two heads with two pauses let an event wait for the first pause, be let go and
  land under the second, and let either bookmark be one sent again.
- A pause is numbered, and `MaxPauses` bounds how many there are. `MaxRecords`,
  `MaxPauses` and `MaxFaults` are the only bounds; the theorems hold for every
  value of them.

`NoFalseFreeze` says the guards of `verifyTailBeforeAppend` and `RecoverSeal`
never fire on what the program itself wrote: the ledger freezes for tampering
or I/O errors only.

### Two disagreements

`ledger_posix`. A seal renames its segment and dies before it syncs the
directory. The next open finds the overlap and renames a shortened tail without
syncing the directory first. A power loss on a file system that does not order
renames may keep the second and lose the first. `docs/ADVERSARIAL.md:40` says
overlap is the only state a crash leaves. The theorem `RewriteFollowsPublish`
shows an ordered journal is enough; `RecoverSeal`, which syncs the directory
first, does not need it.

`door_debris`. A line is complete and not synced when the process dies. The next
start accepts it, does not sync it, and commits it to the projection by replay.
A power loss takes it from the tail. The start after that finds the projection
ahead of the record and ends in SAFE, though nobody was told the record existed.
`internal/app/mirror_check_test.go:83` says crash debris must not do that; the
test covers a torn line, which is set aside and never replayed.

### Fairness

`ledger_live` assumes weak fairness of the steps that carry an operation on and
of opening after a death; it does not assume that anyone appends, seals or
freezes, and it does not assume faults. `Settles` needs the recovery of a failed
seal to begin: in the program the next append begins it, and an identity's loops
append all the time.

`door_live` has no capture: captures take the same lock, and with one the run is
many times larger. It assumes weak fairness of each caller's own steps, of the clock
(`Expire`) and of `enterSafeFor`. These are goroutines that are runnable, a
timer, and code without a blocking call. The lock is taken by finitely many
calls, so weak fairness suffices. No fairness is assumed of the witness, of a
pause's release, or of faults, restarts and conflicts.

## What is proved

TLAPS checks these for every number of records, callers, pauses and faults.

| Theorem | Statement | Assumes |
|---|---|---|
| `LedgerProofs!TypeCorrect` | `Spec => []TypeOK` | bounds are numbers |
| `LedgerDurableProofs!AckedRecordsSurvive` | `Spec => []AckedDurable` | `Journalled` |
| `LedgerDurableProofs!RewriteFollowsPublish` | `Spec => []PublishBeforeRewrite` | `Journalled` |
| `RecordDoorProofs!DoorTypeCorrect` | `Spec => []TypeOK` | kinds of request are disjoint |
| `RecordDoorProofs!StaysTogether` | `Spec => []Together` | the same |
| `RecordDoorProofs!AnswersStayTrue` | `Spec => []AnswersTrue` | the same |
| `RecordDoorProofs!AlwaysReplays` | `Spec => []RecordReplays` | the same |
| `RecordDoorProofs!CapturesAtBoundary` | `Spec => []CaptureAtBoundary` | the same |

**Ledger types.** `TypeOK` alone is not inductive: a seal copies records
`sealedSeq + 1 .. head` out of the tail, which are there only if memory and file
agree. `TypeInv` adds that the segments cover the sealed run without overlap
(`Covered`), where the tail begins and ends at each step (`Boundary`), and which
steps belong to which operation (`Control`).

**No acknowledged record is lost.** `AckedDurable` speaks of what a power loss
may leave now. `DurableInv` says it of every directory that might come back: it
holds each acknowledged record in a segment or in the synced part of its tail.
The delicate case is an older directory that shares the live tail, since the
tail may change under it; the second conjunct says such a directory exists only
while the tail repeats the newest segment, when no append can run. A rename adds
a directory, a sync removes the older ones, and each action keeps the two facts.

**The door.** `DoorInv` says that the lock is held by the one request at a
locked step (`LockHeld`); that the record is the projection with at most the
landing event after it (`OneAhead`), and equal to it otherwise unless the ledger
is frozen (`Even`); that what validation found still holds at the append
(`Admitted`); and when a request is written, synced and answered (`Written`,
`SyncedWhen`, `Told`). The four properties follow together. `Admitted` is where
the lock matters: no other event can commit between validation and append.

Only model-checked: the liveness properties `Settles`, `Answered` and `Alerted`
(liveness and ENABLED are beyond the prover), and, until their proofs are
written, the refinement `IsDurableLog`, `AlwaysReopens`, `NoFalseFreeze`,
`TornStaysOut`, `TornPreserved`, `SealedForGood` and `HeadOnTime`. Induction over
data is beyond the prover too; the models use no recursive definition.

## Assumptions about the world

- `fsync` that succeeds makes durable what was written before it, also after an
  earlier one that failed. Kernels that drop dirty pages after a failed sync are
  outside the model. (After a failed sync the ledger is frozen, so the next sync
  is the next start's or `Close`'s.)
- A transaction SQLite has committed survives a power loss, and one that was not
  committed leaves nothing.
- A rename replaces a name at once; a directory is used by one process, which
  the directory lock enforces.
- Nobody edits the files: tampering is what the checks in the code detect, and
  is not an action here.
- Entry hashes do not collide.

## What is not modelled

Birth and the rewrap of a container happen while nothing else runs. Schema
changes, the per-event rules of the projection and its derived tables are data
of one transaction. The order in which a start brings up plugins, timers and
loops, and the packages that are views, parsers, protocols or I/O, are listed in
`PROJECT.json` with their reasons.

## Plan

In this order, each with its own properties, runs and, where an invariant is
worth it, proofs:

1. `Anchor`: requests kept, receipts pending, minted and retired, with lost,
   repeated and contradictory answers and a stop between any two steps. A
   receipt is in the record at most once, and none that was kept is lost;
   composed with `RecordDoor` through heads on time.
2. `WorkQueue`: workers, leases, the sweep and the running set. An item runs in
   one worker at a time while its process lives; each is done or failed in the
   end; the limit of a kind holds. Abstract specification: at-least-once work.
3. `Outbox`: claims by token. An answer settles only the attempt it belongs to;
   an interrupted dispatch becomes unknown, never undone.
4. `Supervisor` and `Facility`: one child per generation, restarts within the
   budget, no activation under a hold, everything retired at close.
5. `Update` and `Restore`: a stop at any step leaves a program that boots, or
   rolls back; a restore is finished or withdrawn whole. `Restore` uses the
   directory model of `Ledger`.
6. `Quiesce`, `Foreground`, `Refresh`, `Timers`: no tick under a pause; a
   subscriber's last edge is the present one; one refresh at a time; no wake
   after the stop.
7. Proofs: `AlwaysReopens` and `NoFalseFreeze` from `TypeInv` with the links of
   the chain; the step simulation behind `IsDurableLog`; `HeadOnTime`; the
   mutual exclusion of `WorkQueue` and the token argument of `Outbox`.

## Running

    tlc -workers 2 -config MCLedger.cfg MCLedger
    tlapm RecordDoorProofs.tla
