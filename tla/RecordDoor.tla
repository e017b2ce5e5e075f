----------------------------- MODULE RecordDoor -----------------------------
(***************************************************************************)
(* The door every record passes: ledgerAdapter in internal/app.  Under one *)
(* lock it validates an event against the SQLite projection, appends it to *)
(* the ledger and materializes it in the projection; a failure between the *)
(* two freezes the ledger and puts the program in SAFE.  At startup the    *)
(* record is compared with the projection's mirror of it and replayed.     *)
(*                                                                         *)
(* The ledger is here what its own module proves it to be: a sequence      *)
(* whose prefix through synced no failure takes.  The projection keeps     *)
(* what it commits.  A record is the request that appended it; a request   *)
(* is one call of Append, of appendHead (the anchor's) or of capture.      *)
(***************************************************************************)
EXTENDS Integers, Sequences, FiniteSets

CONSTANTS
  Events,      \* calls of Append
  Heads,       \* calls of appendHead
  Captures,    \* calls of capture
  Contrary,    \* events of which the projection's rules admit only one
  Nobody,      \* the holder of a free lock
  MaxPauses,   \* bound: calls of PauseAppends
  MaxFaults    \* bound: I/O errors, process deaths and power losses together

Appends == Events \cup Heads
Requests == Appends \cup Captures

ASSUME DoorAssumption ==
  /\ Events \cap Heads = {} /\ Appends \cap Captures = {}
  /\ Contrary \subseteq Events
  /\ Nobody \notin Requests
  /\ MaxPauses \in Nat /\ MaxFaults \in Nat

VARIABLES
  log,        \* the ledger's records
  synced,     \* how many of them are durable
  lastSeq,    \* the last record the open ledger acknowledged
  mirror,     \* the records committed in the projection
  up,         \* where the process is
  entering,   \* how far enterSafeFor has come
  lfrozen,    \* the ledger is frozen
  sfrozen,    \* the store is frozen
  sealErr,    \* a seal is to be recovered
  lock,       \* who holds l.mu
  pauses,     \* pauses begun
  pauseEnd,   \* the pause in l.pauseEnd (0: nil)
  expired,    \* pauses whose bound has passed
  own,        \* the pause each head's pass is to release (0: none)
  bookmark,   \* the record each head attests
  again,      \* the heads whose pass sends a kept bookmark again
  pc,         \* where each request is
  wait,       \* the pause it waited for
  copy,       \* the record a capture copied
  answer,     \* what it was told
  faults

record == <<log, synced, lastSeq>>
posture == <<up, entering, lfrozen, sfrozen, sealErr>>
pausing == <<pauses, pauseEnd, expired, own, bookmark, again>>
vars == <<record, mirror, posture, lock, pausing, pc, wait, copy, answer, faults>>

-----------------------------------------------------------------------------
(* Helpers *)

In(s) == {s[i] : i \in DOMAIN s}

Goto(r, p) == pc' = [pc EXCEPT ![r] = p]

Fault == faults < MaxFaults /\ faults' = faults + 1

\* The projection's rules, as ValidateEvent and replay apply them: of the
\* contrary events, the first.
Takes(s, r) == r \in Contrary => In(s) \cap Contrary \subseteq {r}

Replays(s) == \A i \in DOMAIN s : Takes(SubSeq(s, 1, i), s[i])

\* A call that returns: the lock is free again and the caller has its answer.
Return(r, a) ==
  /\ lock' = Nobody
  /\ answer' = [answer EXCEPT ![r] = a]

\* The ledger's own mutex is held from the write through the sync.
Writing == \E r \in Appends : pc[r] = "sync"

-----------------------------------------------------------------------------
(* admit: the lock and the pause *)

Paused == pauseEnd # 0 /\ pauseEnd \notin expired

\* A head is minted by its pass, the others are calls of their own.
Comes(r) == pc[r] = IF r \in Heads THEN "asking" ELSE "new"

\* Mutant: validation runs outside the lock.
Enter_Unlocked(r) ==
  /\ Comes(r) /\ up = "live" /\ lock = Nobody
  /\ Goto(r, IF r \in Captures THEN "capture" ELSE "admit")
  /\ UNCHANGED <<record, mirror, posture, lock, pausing, wait, copy, answer, faults>>

\* Mutant: an event is not held by a pause.
Enter_NotHeld(r) ==
  /\ Comes(r) /\ up = "live" /\ lock = Nobody
  /\ Goto(r, IF r \in Captures THEN "capture" ELSE "admit")
  /\ lock' = r
  /\ UNCHANGED <<record, mirror, posture, pausing, wait, copy, answer, faults>>

\* Take the lock; an event that finds a pause gives it up and waits.
Enter(r) ==
  /\ Comes(r) /\ up = "live" /\ lock = Nobody
  /\ IF r \in Events /\ Paused
     THEN /\ Goto(r, "wait")
          /\ wait' = [wait EXCEPT ![r] = pauseEnd]
          /\ UNCHANGED lock
     ELSE /\ Goto(r, IF r \in Captures THEN "capture" ELSE "admit")
          /\ lock' = r
          /\ UNCHANGED wait
  /\ UNCHANGED <<record, mirror, posture, pausing, copy, answer, faults>>

\* After a start that ended in SAFE a call is refused: no ledger is open, or
\* the one a refused replay left open is frozen.
NoLedger(r) ==
  /\ pc[r] = "new" /\ up = "safe"
  /\ Goto(r, "done")
  /\ answer' = [answer EXCEPT ![r] = "refused"]
  /\ UNCHANGED <<record, mirror, posture, lock, pausing, wait, copy, faults>>

\* Mutant: only the release of the pause wakes a waiter.
Wake_NoTimer(r) ==
  /\ pc[r] = "wait" /\ lock = Nobody
  /\ pauseEnd # wait[r]
  /\ lock' = r
  /\ Goto(r, "admit")
  /\ UNCHANGED <<record, mirror, posture, pausing, wait, copy, answer, faults>>

\* The pause ended, or its bound passed; a later pause is not looked at.
Wake(r) ==
  /\ pc[r] = "wait" /\ lock = Nobody
  /\ pauseEnd # wait[r] \/ wait[r] \in expired
  /\ lock' = r
  /\ Goto(r, "admit")
  /\ UNCHANGED <<record, mirror, posture, pausing, wait, copy, answer, faults>>

-----------------------------------------------------------------------------
(* admit: validation, append, materialization *)

\* ValidateEvent rehearses the event in a transaction it rolls back.
Admit(r) ==
  /\ pc[r] = "admit"
  /\ ~sfrozen /\ Takes(mirror, r)
  /\ Goto(r, "append")
  /\ UNCHANGED <<record, mirror, posture, lock, pausing, wait, copy, answer, faults>>

Refuse(r) ==
  /\ pc[r] = "admit"
  /\ \/ (sfrozen \/ ~Takes(mirror, r)) /\ UNCHANGED faults
     \/ Fault
  /\ Return(r, "refused")
  /\ Goto(r, "done")
  /\ UNCHANGED <<record, mirror, posture, pausing, wait, copy>>

\* AppendPrepared writes nothing under a freeze, under a seal's error that
\* recovery was tried for, or when the line is too long for a reader.
AppendRefused(r) ==
  /\ pc[r] \in {"append", "again"}
  /\ pc[r] = "append" /\ sealErr => lfrozen
  /\ Return(r, "refused")
  /\ Goto(r, "done")
  /\ UNCHANGED <<record, mirror, posture, pausing, wait, copy, faults>>

\* ErrTailIntegrity: the file does not give the tail it is held to before a
\* write.  Here a read fails; the tail itself always agrees.
TailUnreadable(r) ==
  /\ pc[r] \in {"append", "again"} /\ ~lfrozen /\ ~sealErr
  /\ Fault
  /\ lfrozen' = TRUE
  /\ Return(r, "refused")
  /\ Goto(r, "alarm")
  /\ UNCHANGED <<record, mirror, up, entering, sfrozen, sealErr, pausing, wait, copy>>

\* recoverSeal, once; its failure ends the call with nothing appended.  That
\* it finds another end than the acknowledged one (ErrTailIntegrity) is left
\* out, here and in CaptureRecovers: on what the program itself wrote it never
\* does (NoFalseFreeze in Ledger).
RecoverSeal(r) ==
  /\ pc[r] = "append" /\ ~lfrozen /\ sealErr
  /\ \/ /\ sealErr' = FALSE
        /\ Goto(r, "again")
        /\ UNCHANGED <<lock, answer, faults>>
     \/ /\ Fault
        /\ Return(r, "refused")
        /\ Goto(r, "done")
        /\ UNCHANGED sealErr
  /\ UNCHANGED <<record, mirror, up, entering, lfrozen, sfrozen, pausing, wait, copy>>

\* The line reaches the file,
Write(r) ==
  /\ pc[r] \in {"append", "again"}
  /\ ~lfrozen /\ ~sealErr
  /\ log' = Append(log, r)
  /\ Goto(r, "sync")
  /\ UNCHANGED <<synced, lastSeq, mirror, posture, lock, pausing, wait, copy,
                 answer, faults>>

\* Mutant: one record too many is taken for durable.
Sync_PastEnd(r) ==
  /\ pc[r] = "sync"
  /\ synced' = Len(log) + 1 /\ lastSeq' = Len(log)
  /\ Goto(r, "begin")
  /\ UNCHANGED <<log, mirror, posture, lock, pausing, wait, copy, answer, faults>>

\* and the disk.
Sync(r) ==
  /\ pc[r] = "sync"
  /\ synced' = Len(log) /\ lastSeq' = Len(log)
  /\ Goto(r, "begin")
  /\ UNCHANGED <<log, mirror, posture, lock, pausing, wait, copy, answer, faults>>

\* Mutant: a failed write is reported as a refusal.
Uncertain_Refused(r) ==
  /\ pc[r] = "sync"
  /\ Fault
  /\ log' \in {log, SubSeq(log, 1, Len(log) - 1)}
  /\ lfrozen' = TRUE
  /\ Return(r, "refused")
  /\ Goto(r, "done")
  /\ UNCHANGED <<synced, lastSeq, mirror, up, entering, sfrozen, sealErr, pausing,
                 wait, copy>>

\* ErrAppendUncertain: the ledger has frozen itself, with the record in the
\* file or not; the alarm is raised after the lock is given back.
Uncertain(r) ==
  /\ pc[r] = "sync"
  /\ Fault
  /\ lfrozen' = TRUE
  /\ log' \in {log, SubSeq(log, 1, Len(log) - 1)}
  /\ Return(r, "uncertain")
  /\ Goto(r, "alarm")
  /\ UNCHANGED <<synced, lastSeq, mirror, up, entering, sfrozen, sealErr, pausing,
                 wait, copy>>

\* Materialize: a frozen store begins no transaction,
Begin(r) ==
  /\ pc[r] = "begin" /\ ~sfrozen
  /\ Goto(r, "commit")
  /\ UNCHANGED <<record, mirror, posture, lock, pausing, wait, copy, answer, faults>>

Commit(r) ==
  /\ pc[r] = "commit"
  /\ mirror' = Append(mirror, r)
  /\ Return(r, "ok")
  /\ Goto(r, "done")
  /\ UNCHANGED <<record, posture, pausing, wait, copy, faults>>

\* Mutant: the freeze is left to the alarm.
Unmaterialized_Unfrozen(r) ==
  /\ \/ pc[r] = "begin" /\ sfrozen /\ UNCHANGED <<faults, mirror>>
     \/ pc[r] = "begin" /\ Fault /\ UNCHANGED mirror
     \/ pc[r] = "commit" /\ Fault /\ mirror' \in {mirror, Append(mirror, r)}
  /\ Return(r, "unprojected")
  /\ Goto(r, "alarm")
  /\ UNCHANGED <<record, posture, pausing, wait, copy>>

\* Materialize failed after the append: the ledger is frozen before the lock
\* is given back.  A commit that reports an error may have happened.
Unmaterialized(r) ==
  /\ \/ pc[r] = "begin" /\ sfrozen /\ UNCHANGED <<faults, mirror>>
     \/ pc[r] = "begin" /\ Fault /\ UNCHANGED mirror
     \/ pc[r] = "commit" /\ Fault /\ mirror' \in {mirror, Append(mirror, r)}
  /\ lfrozen' = TRUE
  /\ Return(r, "unprojected")
  /\ Goto(r, "alarm")
  /\ UNCHANGED <<record, up, entering, sfrozen, sealErr, pausing, wait, copy>>

\* Mutant: a ledger already frozen raises no alarm.
Alarm_Silent(r) ==
  /\ pc[r] = "alarm"
  /\ entering' = IF entering = "no" /\ ~lfrozen THEN "ledger" ELSE entering
  /\ Goto(r, IF entering = "no" /\ ~lfrozen THEN "freezing" ELSE "done")
  /\ UNCHANGED <<record, mirror, up, lfrozen, sfrozen, sealErr, lock, pausing, wait,
                 copy, answer, faults>>

\* onIntegrity: the first to call enterSafeFor carries it out, the others
\* return at once.
Alarm(r) ==
  /\ pc[r] = "alarm"
  /\ entering' = IF entering = "no" THEN "ledger" ELSE entering
  /\ Goto(r, IF entering = "no" THEN "freezing" ELSE "done")
  /\ UNCHANGED <<record, mirror, up, lfrozen, sfrozen, sealErr, lock, pausing, wait,
                 copy, answer, faults>>

Alarmed(r) ==
  /\ pc[r] = "freezing" /\ entering = "done"
  /\ Goto(r, "done")
  /\ UNCHANGED <<record, mirror, posture, lock, pausing, wait, copy, answer, faults>>

-----------------------------------------------------------------------------
(* capture: the record's copy and the projection's pin, under the same lock *)

\* Mutant: the lock is given back once the record is copied.
CopyRecord_Unlocks(r) ==
  /\ pc[r] \in {"capture", "capture again"}
  /\ Len(log) = lastSeq
  /\ copy' = [copy EXCEPT ![r] = log]
  /\ Goto(r, "pin")
  /\ lock' = Nobody
  /\ UNCHANGED <<record, mirror, posture, pausing, wait, answer, faults>>

\* Ledger.Capture copies the tail and holds its end to the acknowledged one.
CopyRecord(r) ==
  /\ pc[r] \in {"capture", "capture again"}
  /\ IF Len(log) = lastSeq
     THEN /\ copy' = [copy EXCEPT ![r] = log]
          /\ Goto(r, "pin")
          /\ UNCHANGED <<lock, answer>>
     ELSE /\ Return(r, "refused")
          /\ Goto(r, "done")
          /\ UNCHANGED copy
  /\ UNCHANGED <<record, mirror, posture, pausing, wait, faults>>

\* A seal's error refuses the capture only when it left the tail closed.
CaptureRecovers(r) ==
  /\ pc[r] \in {"capture", "capture again"} /\ sealErr
  /\ \/ /\ pc[r] = "capture" /\ ~lfrozen
        /\ sealErr' = FALSE
        /\ Goto(r, "capture again")
        /\ UNCHANGED <<lock, answer, faults>>
     \/ /\ \/ (pc[r] = "capture again" \/ lfrozen) /\ UNCHANGED faults
           \/ Fault
        /\ Return(r, "refused")
        /\ Goto(r, "done")
        /\ UNCHANGED sealErr
  /\ UNCHANGED <<record, mirror, up, entering, lfrozen, sfrozen, pausing, wait, copy>>

\* PinAt: the mirror's head is the copied record's, or there is no pin.
Pin(r) ==
  /\ pc[r] = "pin"
  /\ Return(r, IF mirror = copy[r] THEN "ok" ELSE "refused")
  /\ Goto(r, "done")
  /\ UNCHANGED <<record, mirror, posture, pausing, wait, copy, faults>>

\* An I/O error in the copy or in the pin: the capture leaves nothing.
CaptureFails(r) ==
  /\ pc[r] \in {"capture", "capture again", "pin"}
  /\ Fault
  /\ Return(r, "refused")
  /\ Goto(r, "done")
  /\ UNCHANGED <<record, mirror, posture, pausing, wait, copy>>

-----------------------------------------------------------------------------
(* AnchorPass holds appends off while the witness answers *)

\* One timer runs the passes, armed again when a pass has returned.
PassRunning == \E h \in Heads : pc[h] \notin {"new", "done"} \/ own[h] # 0

BeginPass(h) ==
  /\ pc[h] = "new" /\ up = "live" /\ ~PassRunning
  /\ Goto(h, "asking")

\* PauseAppends: a pause already running is not extended, and its second
\* caller has nothing to release.
PauseAppends(h) ==
  /\ lock = Nobody
  /\ IF Paused
     THEN UNCHANGED <<pauses, pauseEnd, own>>
     ELSE /\ pauses < MaxPauses
          /\ pauses' = pauses + 1 /\ pauseEnd' = pauses + 1
          /\ own' = [own EXCEPT ![h] = pauses + 1]

\* A pass that sends a new bookmark: the record's end, read under the pause.
Pause(h) ==
  /\ BeginPass(h) /\ PauseAppends(h)
  /\ bookmark' = [bookmark EXCEPT ![h] = lastSeq]
  /\ UNCHANGED <<record, mirror, posture, lock, expired, again, wait, copy, answer,
                 faults>>

\* What an earlier pass, of this process or of one before it, can have left
\* beside the ledger: a bookmark or a receipt for a record that is still held
\* and comes after the one the last head attests.
LeftBeside == {b \in 0 .. lastSeq : \A g \in Heads : g \in In(log) => bookmark[g] < b}

\* A pass that finds the bookmark of one whose answer was lost sends that
\* again: it pauses appends too, and the records since have already landed.
Resend(h) ==
  /\ BeginPass(h) /\ PauseAppends(h)
  /\ again' = again \cup {h}
  /\ \E b \in LeftBeside : bookmark' = [bookmark EXCEPT ![h] = b]
  /\ UNCHANGED <<record, mirror, posture, lock, expired, wait, copy, answer, faults>>

\* SettlePending mints a receipt an earlier pass kept, without a pause.
SettlePending(h) ==
  /\ BeginPass(h)
  /\ \E b \in LeftBeside : bookmark' = [bookmark EXCEPT ![h] = b]
  /\ UNCHANGED <<record, mirror, posture, lock, pauses, pauseEnd, expired, own, again,
                 wait, copy, answer, faults>>

\* No receipt came, or none that stands.
NoReceipt(h) ==
  /\ pc[h] = "asking"
  /\ Goto(h, "done")
  /\ answer' = [answer EXCEPT ![h] = "refused"]
  /\ UNCHANGED <<record, mirror, posture, lock, pausing, wait, copy, faults>>

\* release, which knows the pause it was made for.
Release(h) ==
  /\ pc[h] = "done" /\ own[h] # 0 /\ lock = Nobody
  /\ pauseEnd' = IF pauseEnd = own[h] THEN 0 ELSE pauseEnd
  /\ own' = [own EXCEPT ![h] = 0]
  /\ UNCHANGED <<record, mirror, posture, lock, pauses, expired, bookmark, again,
                 pc, wait, copy, answer, faults>>

\* appendPauseBound has passed.
Expire ==
  /\ Paused
  /\ expired' = expired \cup {pauseEnd}
  /\ UNCHANGED <<record, mirror, posture, lock, pauses, pauseEnd, own, bookmark,
                 again, pc, wait, copy, answer, faults>>

-----------------------------------------------------------------------------
(* SAFE, and the seal that runs beside the door *)

\* enterSafeFor, by a request's alarm or by a witness conflict,
Conflict ==
  /\ up = "live" /\ entering = "no"
  /\ entering' = "ledger"
  /\ UNCHANGED <<record, mirror, up, lfrozen, sfrozen, sealErr, lock, pausing, pc,
                 wait, copy, answer, faults>>

\* freezes the ledger, under the ledger's mutex,
FreezeLedger ==
  /\ entering = "ledger" /\ ~Writing
  /\ lfrozen' = TRUE
  /\ entering' = "store"
  /\ UNCHANGED <<record, mirror, up, sfrozen, sealErr, lock, pausing, pc, wait, copy,
                 answer, faults>>

\* and then the store.
FreezeStore ==
  /\ entering = "store"
  /\ sfrozen' = TRUE
  /\ entering' = "done"
  /\ UNCHANGED <<record, mirror, up, lfrozen, sealErr, lock, pausing, pc, wait, copy,
                 answer, faults>>

\* Seal runs under the ledger's mutex, not the door's.
SealFails ==
  /\ up = "live" /\ ~lfrozen /\ ~Writing
  /\ Fault
  /\ sealErr' = TRUE
  /\ UNCHANGED <<record, mirror, up, entering, lfrozen, sfrozen, lock, pausing, pc,
                 wait, copy, answer>>

-----------------------------------------------------------------------------
(* The process, the machine and the next start *)

InFlight == {r \in Requests : pc[r] \notin {"new", "done"}}

Forget ==
  /\ up' = "down" /\ entering' = "no" /\ lastSeq' = 0
  /\ lfrozen' = FALSE /\ sfrozen' = FALSE /\ sealErr' = FALSE
  /\ lock' = Nobody
  /\ pauses' = 0 /\ pauseEnd' = 0 /\ expired' = {}
  /\ own' = [h \in Heads |-> 0] /\ again' = {} /\ UNCHANGED bookmark
  /\ pc' = [r \in Requests |-> IF r \in InFlight THEN "done" ELSE pc[r]]
  /\ wait' = [r \in Events |-> 0] /\ copy' = [r \in Captures |-> <<>>]

\* A shutdown waits for the calls in flight; Close syncs the ledger.
Stop ==
  /\ up \in {"live", "safe"} /\ InFlight = {}
  /\ synced' = Len(log)
  /\ Forget
  /\ UNCHANGED <<log, mirror, answer, faults>>

Crash ==
  /\ up # "down"
  /\ Fault
  /\ Forget
  /\ UNCHANGED <<log, synced, mirror, answer>>

PowerLoss ==
  /\ Fault
  /\ \E k \in synced .. Len(log) : log' = SubSeq(log, 1, k) /\ synced' = k
  /\ Forget
  /\ UNCHANGED <<mirror, answer>>

\* OpenVerified with CheckAcknowledgedPrefix: a mirror that runs past the
\* record ends the start in SAFE.
Boot ==
  /\ up = "down"
  /\ IF Len(mirror) > Len(log)
     THEN up' = "safe" /\ entering' = "done" /\ sfrozen' = TRUE /\ UNCHANGED lastSeq
     ELSE up' = "opened" /\ lastSeq' = Len(log) /\ UNCHANGED <<entering, sfrozen>>
  /\ UNCHANGED <<log, synced, mirror, lfrozen, sealErr, lock, pausing, pc, wait, copy,
                 answer, faults>>

\* The projection is rebuilt from the record in one transaction.
Replay ==
  /\ up = "opened"
  /\ IF Replays(log)
     THEN mirror' = log /\ up' = "live" /\ UNCHANGED <<entering, sfrozen>>
     ELSE /\ up' = "safe" /\ entering' = "done" /\ sfrozen' = TRUE
          /\ UNCHANGED mirror
  /\ UNCHANGED <<record, lfrozen, sealErr, lock, pausing, pc, wait, copy, answer,
                 faults>>

-----------------------------------------------------------------------------
(* A program that has started; the records through the last start are left   *)
(* out of the sequences.                                                     *)

Init ==
  /\ log = <<>> /\ synced = 0 /\ lastSeq = 0 /\ mirror = <<>>
  /\ up = "live" /\ entering = "no"
  /\ lfrozen = FALSE /\ sfrozen = FALSE /\ sealErr = FALSE
  /\ lock = Nobody
  /\ pauses = 0 /\ pauseEnd = 0 /\ expired = {}
  /\ own = [h \in Heads |-> 0] /\ bookmark = [h \in Heads |-> 0] /\ again = {}
  /\ pc = [r \in Requests |-> "new"]
  /\ wait = [r \in Events |-> 0] /\ copy = [r \in Captures |-> <<>>]
  /\ answer = [r \in Requests |-> "none"]
  /\ faults = 0

AppendStep(r) ==
  \/ Admit(r) \/ Refuse(r) \/ AppendRefused(r) \/ TailUnreadable(r) \/ RecoverSeal(r)
  \/ Write(r) \/ Sync(r) \/ Uncertain(r)
  \/ Begin(r) \/ Commit(r) \/ Unmaterialized(r)
  \/ Alarm(r) \/ Alarmed(r)

CaptureStep(r) == CopyRecord(r) \/ CaptureRecovers(r) \/ Pin(r) \/ CaptureFails(r)

AnchorPass(h) ==
  Pause(h) \/ Resend(h) \/ SettlePending(h) \/ NoReceipt(h) \/ Release(h)

EnterSafe == FreezeLedger \/ FreezeStore

Next ==
  \/ \E r \in Requests : Enter(r) \/ NoLedger(r)
  \/ \E r \in Events : Wake(r)
  \/ \E r \in Appends : AppendStep(r)
  \/ \E r \in Captures : CaptureStep(r)
  \/ \E h \in Heads : AnchorPass(h)
  \/ Expire \/ Conflict \/ EnterSafe \/ SealFails
  \/ Stop \/ Crash \/ PowerLoss \/ Boot \/ Replay

Spec == Init /\ [][Next]_vars

\* A goroutine that can run does, and clocks advance.
Fairness ==
  /\ \A r \in Requests : WF_vars(Enter(r))
  /\ \A r \in Events : WF_vars(Wake(r))
  /\ \A r \in Appends : WF_vars(AppendStep(r))
  /\ \A r \in Captures : WF_vars(CaptureStep(r))
  /\ WF_vars(Expire) /\ WF_vars(EnterSafe)

FairSpec == Spec /\ Fairness

-----------------------------------------------------------------------------
(* Properties *)

Steps == {"new", "wait", "admit", "append", "again", "sync", "begin", "commit",
          "alarm", "freezing", "capture", "capture again", "pin", "asking", "done"}

RecordOK ==
  /\ log \in Seq(Appends) /\ mirror \in Seq(Appends)
  /\ synced \in 0 .. Len(log) /\ lastSeq \in 0 .. Len(log)

PostureOK ==
  /\ up \in {"live", "safe", "opened", "down"}
  /\ entering \in {"no", "ledger", "store", "done"}
  /\ lfrozen \in BOOLEAN /\ sfrozen \in BOOLEAN /\ sealErr \in BOOLEAN

PausingOK ==
  /\ pauses \in 0 .. MaxPauses /\ pauseEnd \in 0 .. pauses
  /\ expired \subseteq 1 .. pauses
  /\ own \in [Heads -> 0 .. pauses] /\ bookmark \in [Heads -> Nat] /\ again \subseteq Heads
  /\ wait \in [Events -> 0 .. pauses]

RequestsOK ==
  /\ lock \in Requests \cup {Nobody}
  /\ pc \in [Requests -> Steps]
  /\ copy \in [Captures -> Seq(Appends)]
  /\ answer \in [Requests -> {"none", "ok", "refused", "uncertain", "unprojected"}]

\* Every variable has its type, and nothing is taken for durable or for
\* acknowledged that is not in the record.
TypeOK ==
  RecordOK /\ PostureOK /\ PausingOK /\ RequestsOK /\ faults \in 0 .. MaxFaults

\* Whenever the next call can be admitted the projection holds exactly the
\* record: admit never leaves the two apart without the ledger frozen, so no
\* event is validated against a projection that misses one.
Together ==
  up = "live" /\ lock = Nobody /\ ~lfrozen => mirror = log

\* What a caller was told stays true, whatever fails afterwards: "ok" and
\* "durable but did not materialize" name a record no power loss takes, "ok"
\* also one in the projection, and a refused event is in the record nowhere.
AnswersTrue ==
  \A r \in Appends :
    /\ answer[r] \in {"ok", "unprojected"} => r \in In(SubSeq(log, 1, synced))
    /\ answer[r] = "ok" => r \in In(mirror)
    /\ answer[r] = "refused" => r \notin In(log)

\* The record never holds an event its own replay would refuse, so no start
\* ends in SAFE over an entry the program wrote itself.
RecordReplays == Replays(log)

\* A capture that has copied the record finds the projection at the same
\* boundary, unless the ledger is frozen: no append comes between the two.
CaptureAtBoundary ==
  \A r \in Captures : pc[r] = "pin" /\ ~lfrozen => mirror = copy[r]

\* While an anchor's pause runs, the only events that land between a bookmark
\* read under it and its head are those an earlier pause had already let go.  A
\* bookmark sent again was read under no pause of its pass, and its head is late.
HeadOnTime ==
  [][\A h \in Heads :
       Write(h) /\ own[h] # 0 /\ own[h] \notin expired /\ h \notin again =>
         \A i \in bookmark[h] + 1 .. Len(log) :
           log[i] \in Events => wait[log[i]] \in 1 .. own[h] - 1]_vars

\* A start ends in SAFE over the mirror only when a record that was
\* acknowledged is gone; what a crash left unacknowledged never does it.
DebrisBootsLive ==
  up = "safe" =>
    \E r \in Appends : answer[r] \in {"ok", "unprojected"} /\ r \notin In(log)

\* No call that has got as far as the door waits for ever: not for a pause that
\* nobody releases, for the lock it gave up meanwhile, or for the freeze it set
\* off.
Answered ==
  \A r \in Requests : pc[r] \notin {"new", "asking"} ~> pc[r] = "done"

\* A record the projection may miss always ends in SAFE, with ledger and
\* store frozen, if the process lives.
Alerted ==
  \A r \in Appends :
    pc[r] = "alarm" ~> (entering = "done" /\ lfrozen /\ sfrozen) \/ up # "live"
=============================================================================
