-------------------------- MODULE RecordDoorProofs --------------------------
(***************************************************************************)
(* For any number of events, heads, captures, pauses and faults: the door  *)
(* keeps the projection with the record (Together), what it told a caller  *)
(* stays true (AnswersTrue), the record replays (RecordReplays), and a     *)
(* capture pins the projection at the record it copied                     *)
(* (CaptureAtBoundary).                                                    *)
(***************************************************************************)
EXTENDS RecordDoor, TLAPS

\* The steps taken under l.mu, and those of them at which the record is one
\* ahead of the projection.
Holding == {"admit", "append", "again", "sync", "begin", "commit",
            "capture", "capture again", "pin"}

Landing == {"sync", "begin", "commit"}

\* l.mu is held by the one request that is at such a step,
LockHeld == \A r \in Requests : pc[r] \in Holding <=> lock = r

\* and by none unless the program is live.
Idle == up # "live" => \A r \in Requests : pc[r] \in {"new", "done"}

\* The record is the projection's with at most the landing event after it.
OneAhead ==
  \A r \in Requests : pc[r] \in Landing => r \in Appends /\ log = Append(mirror, r)

\* Otherwise, in a live program whose ledger is not frozen, they are the same.
Even ==
  up = "live" /\ ~lfrozen /\ (\A r \in Requests : pc[r] \notin Landing) => mirror = log

\* What validation found still holds when the event is appended.
Admitted == \A r \in Requests : pc[r] \in {"append", "again"} => Takes(mirror, r)

\* A request is in the record only once it was written,
Written ==
  \A r \in Appends :
    r \in In(log) => pc[r] \in {"sync", "begin", "commit", "alarm", "freezing", "done"}

\* durable only once it was synced,
SyncedWhen ==
  \A r \in Requests :
    /\ pc[r] = "sync" => synced < Len(log) /\ lastSeq < Len(log)
    /\ pc[r] \in {"begin", "commit"} => synced = Len(log)

\* and answered only when it has let go of the lock.
Told ==
  \A r \in Appends : answer[r] # "none" => pc[r] \in {"alarm", "freezing", "done"}

DoorInv ==
  /\ TypeOK
  /\ LockHeld /\ Idle
  /\ OneAhead /\ Even /\ Admitted
  /\ Written /\ SyncedWhen /\ Told
  /\ AnswersTrue /\ RecordReplays /\ CaptureAtBoundary
-----------------------------------------------------------------------------
(* Requests, and sequences of them *)

\* A request is an event, a head or a capture, and only one of them.
LEMMA Callers ==
  /\ Appends \subseteq Requests /\ Captures \subseteq Requests
  /\ Events \subseteq Appends /\ Heads \subseteq Appends
  /\ Nobody \notin Requests /\ Appends \cap Captures = {}
BY DoorAssumption DEF Appends, Requests

\* What a prefix of a record is.
LEMMA SubSeqFacts ==
  ASSUME NEW S, NEW s \in Seq(S), NEW k \in 0 .. Len(s)
  PROVE  /\ SubSeq(s, 1, k) \in Seq(S)
         /\ Len(SubSeq(s, 1, k)) = k
         /\ DOMAIN SubSeq(s, 1, k) = 1 .. k
         /\ \A i \in 1 .. k : SubSeq(s, 1, k)[i] = s[i]
OBVIOUS

\* What a record is with one more.
LEMMA AppendFacts ==
  ASSUME NEW S, NEW s \in Seq(S), NEW r \in S
  PROVE  /\ Append(s, r) \in Seq(S)
         /\ Len(Append(s, r)) = Len(s) + 1
         /\ DOMAIN Append(s, r) = 1 .. Len(s) + 1
         /\ \A i \in 1 .. Len(s) : Append(s, r)[i] = s[i]
         /\ Append(s, r)[Len(s) + 1] = r
OBVIOUS

\* The requests in a record, by position.
LEMMA InDef ==
  ASSUME NEW S, NEW s \in Seq(S), NEW x
  PROVE  x \in In(s) <=> \E i \in 1 .. Len(s) : s[i] = x
<1>1. DOMAIN s = 1 .. Len(s)
  OBVIOUS
<1>2. QED
  BY <1>1, Zenon DEF In

\* A record's prefix holds less, the longer prefix more, and appending adds
\* only the appended request.
LEMMA InPrefix ==
  ASSUME NEW S, NEW s \in Seq(S), NEW k \in 0 .. Len(s), NEW j \in 0 .. k
  PROVE  /\ In(SubSeq(s, 1, j)) \subseteq In(SubSeq(s, 1, k))
         /\ In(SubSeq(s, 1, k)) \subseteq In(s)
<1>1. j \in 0 .. Len(s) /\ Len(s) \in Nat
  OBVIOUS
<1>2. \A x : x \in In(SubSeq(s, 1, j)) <=> \E i \in 1 .. j : s[i] = x
  <2>1. DOMAIN SubSeq(s, 1, j) = 1 .. j /\ \A i \in 1 .. j : SubSeq(s, 1, j)[i] = s[i]
    BY <1>1, SubSeqFacts
  <2>2. QED
    BY <2>1, Zenon DEF In
<1>3. \A x : x \in In(SubSeq(s, 1, k)) <=> \E i \in 1 .. k : s[i] = x
  <2>1. DOMAIN SubSeq(s, 1, k) = 1 .. k /\ \A i \in 1 .. k : SubSeq(s, 1, k)[i] = s[i]
    BY SubSeqFacts
  <2>2. QED
    BY <2>1, Zenon DEF In
<1>4. \A x : x \in In(s) <=> \E i \in 1 .. Len(s) : s[i] = x
  BY InDef
<1>5. 1 .. j \subseteq 1 .. k /\ 1 .. k \subseteq 1 .. Len(s)
  BY <1>1
<1>6. QED
  BY <1>2, <1>3, <1>4, <1>5

\* Appending adds the appended request and no other.
LEMMA InAppend ==
  ASSUME NEW S, NEW s \in Seq(S), NEW r \in S
  PROVE  In(Append(s, r)) = In(s) \cup {r}
<1>1. \A x : x \in In(Append(s, r)) <=> \E i \in 1 .. Len(s) + 1 : Append(s, r)[i] = x
  <2>1. DOMAIN Append(s, r) = 1 .. Len(s) + 1
    BY AppendFacts
  <2>2. QED
    BY <2>1, Zenon DEF In
<1>2. \A x : x \in In(s) <=> \E i \in 1 .. Len(s) : s[i] = x
  BY InDef
<1>3. Len(s) \in Nat
  OBVIOUS
<1>4. \A i \in 1 .. Len(s) + 1 : i \in 1 .. Len(s) \/ i = Len(s) + 1
  BY <1>3
<1>5. 1 .. Len(s) \subseteq 1 .. Len(s) + 1 /\ Len(s) + 1 \in 1 .. Len(s) + 1
  BY <1>3
<1>6. \A x : x \in In(Append(s, r)) <=> x \in In(s) \cup {r}
  BY <1>1, <1>2, <1>4, <1>5, AppendFacts
<1>7. QED
  BY <1>6

\* Prefixes of a prefix, of an appended record, and the whole.
LEMMA PrefixOf ==
  ASSUME NEW S, NEW s \in Seq(S), NEW r \in S,
         NEW k \in 0 .. Len(s), NEW j \in 0 .. k
  PROVE  /\ SubSeq(SubSeq(s, 1, k), 1, j) = SubSeq(s, 1, j)
         /\ SubSeq(Append(s, r), 1, k) = SubSeq(s, 1, k)
         /\ SubSeq(s, 1, Len(s)) = s
OBVIOUS

\* A record that replays does so after an event its rules took,
LEMMA ReplaysAppend ==
  ASSUME NEW s \in Seq(Appends), NEW r \in Appends, Replays(s), Takes(s, r)
  PROVE  Replays(Append(s, r))
<1> DEFINE t == Append(s, r)
<1>1. SUFFICES ASSUME NEW i \in 1 .. Len(s) + 1
               PROVE  Takes(SubSeq(t, 1, i), t[i])
  BY AppendFacts DEF Replays
<1>2. CASE i = Len(s) + 1
  <2>1. SubSeq(t, 1, i) = t /\ t[i] = r
    BY <1>2, AppendFacts, PrefixOf
  <2>2. In(t) = In(s) \cup {r}
    BY InAppend
  <2>3. QED
    BY <2>1, <2>2, Zenon DEF Takes
<1>3. CASE i \in 1 .. Len(s)
  <2>1. i \in 0 .. Len(s) /\ i \in DOMAIN s
    BY <1>3
  <2>2. SubSeq(t, 1, i) = SubSeq(s, 1, i) /\ t[i] = s[i]
    BY <1>3, <2>1, AppendFacts, PrefixOf
  <2>3. QED
    BY <2>1, <2>2, Zenon DEF Replays
<1>4. QED
  BY <1>2, <1>3

\* and cut anywhere.
LEMMA ReplaysPrefix ==
  ASSUME NEW s \in Seq(Appends), NEW k \in 0 .. Len(s), Replays(s)
  PROVE  Replays(SubSeq(s, 1, k))
<1> DEFINE t == SubSeq(s, 1, k)
<1>1. SUFFICES ASSUME NEW i \in 1 .. k
               PROVE  Takes(SubSeq(t, 1, i), t[i])
  BY SubSeqFacts DEF Replays
<1>2. i \in 0 .. k /\ i \in DOMAIN s
  OBVIOUS
<1>3. SubSeq(t, 1, i) = SubSeq(s, 1, i) /\ t[i] = s[i]
  BY <1>2, SubSeqFacts
<1>4. QED
  BY <1>2, <1>3, Zenon DEF Replays

-----------------------------------------------------------------------------
(* The steps *)

\* admit and capture take l.mu; an event that finds a pause gives it up again.
LEMMA EnterKeeps ==
  ASSUME DoorInv, NEW r \in Requests, Enter(r)
  PROVE  DoorInv'
<1> USE Callers, DoorAssumption DEF DoorInv, TypeOK, record, posture, pausing,
        Enter, Comes, Goto, Paused
<1>1. RecordOK'
  BY DEF RecordOK
<1>2. PostureOK'
  BY DEF PostureOK
<1>3. PausingOK'
  <2>1. CASE r \in Events /\ Paused
    BY <2>1 DEF PausingOK
  <2>2. CASE ~(r \in Events /\ Paused)
    BY <2>2 DEF PausingOK
  <2>3. QED
    BY <2>1, <2>2
<1>4. RequestsOK'
  BY Zenon DEF RequestsOK, Steps
<1>5. faults' \in 0 .. MaxFaults
  OBVIOUS
<1>6. (LockHeld /\ Idle)'
  <2>1. CASE r \in Events /\ Paused
    BY <2>1, Zenon DEF RequestsOK, LockHeld, Idle, Holding
  <2>2. CASE ~(r \in Events /\ Paused)
    <3>1. \A q \in Requests : pc[q] \notin Holding
      BY DEF LockHeld
    <3>2. PICK p \in {"capture", "admit"} : pc' = [pc EXCEPT ![r] = p] /\ lock' = r
      BY <2>2
    <3>3. pc'[r] \in Holding /\ \A q \in Requests \ {r} : pc'[q] = pc[q]
      BY <3>2, Zenon DEF RequestsOK, Holding
    <3>4. QED
      BY <3>1, <3>2, <3>3 DEF LockHeld, Idle
  <2>3. QED
    BY <2>1, <2>2
<1>7. (OneAhead /\ Even /\ Admitted)'
  BY Zenon DEF RequestsOK, LockHeld, Idle, OneAhead, Even, Admitted, Holding,
     Landing
<1>8. (Written /\ SyncedWhen /\ Told)'
  BY DEF RequestsOK, Idle, Written, SyncedWhen, Told
<1>9. (AnswersTrue /\ RecordReplays /\ CaptureAtBoundary)'
  BY Zenon DEF RequestsOK, LockHeld, Idle, Even, Told, Written, Holding, Landing,
     AnswersTrue, RecordReplays, CaptureAtBoundary
<1>10. QED
  BY <1>1, <1>2, <1>3, <1>4, <1>5, <1>6, <1>7, <1>8, <1>9

\* admit refuses where no ledger is open.
LEMMA NoLedgerKeeps ==
  ASSUME DoorInv, NEW r \in Requests, NoLedger(r)
  PROVE  DoorInv'
<1> USE Callers, DoorAssumption DEF DoorInv, TypeOK, record, posture, pausing,
        NoLedger, Goto
<1>1. TypeOK'
  BY Zenon DEF TypeOK, RecordOK, PostureOK, PausingOK, RequestsOK, Steps
<1>2. (LockHeld /\ Idle)'
  BY Zenon DEF RequestsOK, LockHeld, Idle, Holding
<1>3. (OneAhead /\ Even /\ Admitted)'
  BY Zenon DEF RequestsOK, LockHeld, Idle, OneAhead, Even, Admitted, Holding,
     Landing
<1>4. (Written /\ SyncedWhen /\ Told)'
  BY DEF RequestsOK, Idle, Written, SyncedWhen, Told
<1>5. (AnswersTrue /\ RecordReplays /\ CaptureAtBoundary)'
  BY Zenon DEF RequestsOK, LockHeld, Idle, Even, Told, Written, Holding, Landing,
     AnswersTrue, RecordReplays, CaptureAtBoundary
<1>6. QED
  BY <1>1, <1>2, <1>3, <1>4, <1>5

\* awaitPause takes l.mu back.
LEMMA WakeKeeps ==
  ASSUME DoorInv, NEW r \in Events, Wake(r)
  PROVE  DoorInv'
<1> USE Callers, DoorAssumption DEF DoorInv, TypeOK, record, posture, pausing,
        Wake, Goto
<1>1. TypeOK'
  BY Zenon DEF TypeOK, RecordOK, PostureOK, PausingOK, RequestsOK, Steps
<1>2. (LockHeld /\ Idle)'
  BY Zenon DEF RequestsOK, LockHeld, Idle, Holding
<1>3. (OneAhead /\ Even /\ Admitted)'
  BY Zenon DEF RequestsOK, LockHeld, Idle, OneAhead, Even, Admitted, Holding,
     Landing
<1>4. (Written /\ SyncedWhen /\ Told)'
  BY DEF RequestsOK, Idle, Written, SyncedWhen, Told
<1>5. (AnswersTrue /\ RecordReplays /\ CaptureAtBoundary)'
  BY Zenon DEF RequestsOK, LockHeld, Idle, Even, Told, Written, Holding, Landing,
     AnswersTrue, RecordReplays, CaptureAtBoundary
<1>6. QED
  BY <1>1, <1>2, <1>3, <1>4, <1>5

\* ValidateEvent takes the event.
LEMMA AdmitKeeps ==
  ASSUME DoorInv, NEW r \in Appends, Admit(r)
  PROVE  DoorInv'
<1> USE Callers, DoorAssumption DEF DoorInv, TypeOK, record, posture, pausing,
        Admit, Goto
<1>1. TypeOK'
  BY Zenon DEF TypeOK, RecordOK, PostureOK, PausingOK, RequestsOK, Steps
<1>2. (LockHeld /\ Idle)'
  BY Zenon DEF RequestsOK, LockHeld, Idle, Holding
<1>3. (OneAhead /\ Even /\ Admitted)'
  BY Zenon DEF RequestsOK, LockHeld, Idle, OneAhead, Even, Admitted, Holding,
     Landing
<1>4. (Written /\ SyncedWhen /\ Told)'
  BY DEF RequestsOK, Idle, Written, SyncedWhen, Told
<1>5. (AnswersTrue /\ RecordReplays /\ CaptureAtBoundary)'
  BY Zenon DEF RequestsOK, LockHeld, Idle, Even, Told, Written, Holding, Landing,
     AnswersTrue, RecordReplays, CaptureAtBoundary
<1>6. QED
  BY <1>1, <1>2, <1>3, <1>4, <1>5

\* ValidateEvent refuses the event, or cannot run.
LEMMA RefuseKeeps ==
  ASSUME DoorInv, NEW r \in Appends, Refuse(r)
  PROVE  DoorInv'
<1> USE Callers, DoorAssumption DEF DoorInv, TypeOK, record, posture, pausing,
        Refuse, Goto, Return, Fault
<1>1. (RecordOK /\ PostureOK /\ PausingOK /\ RequestsOK)'
  BY Zenon DEF RecordOK, PostureOK, PausingOK, RequestsOK, Steps
<1>2. faults' \in 0 .. MaxFaults
  OBVIOUS
<1>3. (LockHeld /\ Idle)'
  BY Zenon DEF RequestsOK, LockHeld, Idle, Holding
<1>4. (OneAhead /\ Even /\ Admitted)'
  BY Zenon DEF RequestsOK, LockHeld, Idle, OneAhead, Even, Admitted, Holding,
     Landing
<1>5. (Written /\ SyncedWhen /\ Told)'
  BY DEF RequestsOK, Idle, Written, SyncedWhen, Told
<1>6. (AnswersTrue /\ RecordReplays /\ CaptureAtBoundary)'
  BY Zenon DEF RequestsOK, LockHeld, Idle, Even, Told, Written, Holding, Landing,
     AnswersTrue, RecordReplays, CaptureAtBoundary
<1>7. QED
  BY <1>1, <1>2, <1>3, <1>4, <1>5, <1>6

\* AppendPrepared refuses, with nothing written.
LEMMA AppendRefusedKeeps ==
  ASSUME DoorInv, NEW r \in Appends, AppendRefused(r)
  PROVE  DoorInv'
<1> USE Callers, DoorAssumption DEF DoorInv, TypeOK, record, posture, pausing,
        AppendRefused, Goto, Return
<1>1. TypeOK'
  BY Zenon DEF TypeOK, RecordOK, PostureOK, PausingOK, RequestsOK, Steps
<1>2. (LockHeld /\ Idle)'
  BY Zenon DEF RequestsOK, LockHeld, Idle, Holding
<1>3. (OneAhead /\ Even /\ Admitted)'
  BY Zenon DEF RequestsOK, LockHeld, Idle, OneAhead, Even, Admitted, Holding,
     Landing
<1>4. (Written /\ SyncedWhen /\ Told)'
  BY DEF RequestsOK, Idle, Written, SyncedWhen, Told
<1>5. (AnswersTrue /\ RecordReplays /\ CaptureAtBoundary)'
  BY Zenon DEF RequestsOK, LockHeld, Idle, Even, Told, Written, Holding, Landing,
     AnswersTrue, RecordReplays, CaptureAtBoundary
<1>6. QED
  BY <1>1, <1>2, <1>3, <1>4, <1>5

\* AppendPrepared cannot read the tail and freezes the ledger.
LEMMA TailUnreadableKeeps ==
  ASSUME DoorInv, NEW r \in Appends, TailUnreadable(r)
  PROVE  DoorInv'
<1> USE Callers, DoorAssumption DEF DoorInv, TypeOK, record, posture, pausing,
        TailUnreadable, Goto, Return, Fault
<1>1. (RecordOK /\ PostureOK /\ PausingOK /\ RequestsOK)'
  BY Zenon DEF RecordOK, PostureOK, PausingOK, RequestsOK, Steps
<1>2. faults' \in 0 .. MaxFaults
  OBVIOUS
<1>3. (LockHeld /\ Idle)'
  BY Zenon DEF RequestsOK, LockHeld, Idle, Holding
<1>4. (OneAhead /\ Even /\ Admitted)'
  BY Zenon DEF RequestsOK, LockHeld, Idle, OneAhead, Even, Admitted, Holding,
     Landing
<1>5. (Written /\ SyncedWhen /\ Told)'
  BY DEF RequestsOK, Idle, Written, SyncedWhen, Told
<1>6. (AnswersTrue /\ RecordReplays /\ CaptureAtBoundary)'
  BY Zenon DEF RequestsOK, LockHeld, Idle, Even, Told, Written, Holding, Landing,
     AnswersTrue, RecordReplays, CaptureAtBoundary
<1>7. QED
  BY <1>1, <1>2, <1>3, <1>4, <1>5, <1>6

\* admit recovers an unfinished seal before it appends.
LEMMA RecoverSealKeeps ==
  ASSUME DoorInv, NEW r \in Appends, RecoverSeal(r)
  PROVE  DoorInv'
<1> USE Callers, DoorAssumption DEF DoorInv, TypeOK, record, posture, pausing,
        RecoverSeal, Goto, Return, Fault
<1>1. RecordOK'
  BY DEF RecordOK
<1>2. PostureOK'
  BY Zenon DEF PostureOK
<1>3. PausingOK'
  BY DEF PausingOK, RequestsOK
<1>4. RequestsOK'
  BY Zenon DEF RequestsOK, Steps
<1>5. faults' \in 0 .. MaxFaults
  <2>1. faults' = faults \/ Fault
    BY Zenon
  <2> HIDE DEF RecoverSeal
  <2>2. QED
    BY <2>1, DoorAssumption DEF Fault
<1>6. (LockHeld /\ Idle)'
  <2>1. CASE sealErr' = FALSE /\ Goto(r, "again") /\ UNCHANGED lock
    BY <2>1, Zenon DEF RequestsOK, LockHeld, Idle, Holding
  <2>2. CASE Return(r, "refused") /\ Goto(r, "done")
    BY <2>2, Zenon DEF RequestsOK, LockHeld, Idle, Holding
  <2>3. QED
    BY <2>1, <2>2, Zenon
<1>7. (OneAhead /\ Even /\ Admitted)'
  BY Zenon DEF RequestsOK, LockHeld, Idle, OneAhead, Even, Admitted, Holding,
     Landing
<1>8. (Written /\ SyncedWhen /\ Told)'
  <2>1. CASE Goto(r, "again") /\ UNCHANGED answer
    BY <2>1 DEF RequestsOK, Idle, Written, SyncedWhen, Told
  <2>2. CASE Return(r, "refused") /\ Goto(r, "done")
    BY <2>2 DEF RequestsOK, Idle, Written, SyncedWhen, Told
  <2>3. QED
    BY <2>1, <2>2, Zenon
<1>9. AnswersTrue'
  BY DEF RequestsOK, AnswersTrue, Told, Written
<1>10. RecordReplays'
  BY DEF RecordReplays
<1>11. CaptureAtBoundary'
  BY Zenon DEF RequestsOK, LockHeld, CaptureAtBoundary, Even, Idle, Holding,
     Landing
<1>12. QED
  BY <1>1, <1>2, <1>3, <1>4, <1>5, <1>6, <1>7, <1>8, <1>9, <1>10, <1>11

\* AppendPrepared writes the line: the record is now one ahead.
LEMMA WriteKeeps ==
  ASSUME DoorInv, NEW r \in Appends, Write(r)
  PROVE  DoorInv'
<1> USE Callers, DoorAssumption DEF DoorInv, TypeOK, record, posture, pausing,
        Write, Goto
<1>1. mirror = log
  BY Zenon DEF RequestsOK, LockHeld, Idle, Even, Holding, Landing
<1>2. /\ Len(log') = Len(log) + 1 /\ In(log') = In(log) \cup {r}
     /\ SubSeq(log', 1, synced) = SubSeq(log, 1, synced)
  BY AppendFacts, InAppend, PrefixOf DEF RecordOK
<1>3. RecordOK'
  BY DEF RecordOK
<1>4. PostureOK'
  BY DEF PostureOK
<1>5. PausingOK'
  BY DEF PausingOK, RequestsOK
<1>6. RequestsOK'
  BY Zenon DEF RequestsOK, Steps
<1>7. faults' \in 0 .. MaxFaults
  OBVIOUS
<1>8. (LockHeld /\ Idle)'
  BY Zenon DEF RequestsOK, LockHeld, Idle, Holding
<1>9. (OneAhead /\ Even /\ Admitted)'
  BY <1>1, Zenon DEF RequestsOK, LockHeld, Idle, OneAhead, Even, Admitted, Holding,
     Landing
<1>10. (Written /\ SyncedWhen /\ Told)'
  <2>1. synced < Len(log') /\ lastSeq < Len(log')
    BY <1>2 DEF RecordOK
  <2>2. /\ pc'[r] = "sync"
        /\ \A q \in Requests \ {r} : pc'[q] \notin {"sync", "begin", "commit"}
    BY Zenon DEF RequestsOK, LockHeld, Holding
  <2>3. SyncedWhen'
    BY <2>1, <2>2 DEF SyncedWhen
  <2>4. (Written /\ Told)'
    BY <1>2 DEF RequestsOK, Written, Told
  <2>5. QED
    BY <2>3, <2>4
<1>11. AnswersTrue'
  BY <1>2, Zenon DEF RequestsOK, AnswersTrue, Told
<1>12. RecordReplays'
  BY <1>1, ReplaysAppend DEF RecordOK, RecordReplays, Admitted
<1>13. CaptureAtBoundary'
  BY Zenon DEF RequestsOK, LockHeld, CaptureAtBoundary, Even, Idle, Holding,
     Landing
<1>14. QED
  BY <1>3, <1>4, <1>5, <1>6, <1>7, <1>8, <1>9, <1>10, <1>11, <1>12, <1>13

\* AppendPrepared syncs the line.
LEMMA SyncKeeps ==
  ASSUME DoorInv, NEW r \in Appends, Sync(r)
  PROVE  DoorInv'
<1> USE Callers, DoorAssumption DEF DoorInv, TypeOK, record, posture, pausing,
        Sync, Goto
<1>1. In(SubSeq(log, 1, synced)) \subseteq In(SubSeq(log, 1, Len(log)))
  BY InPrefix DEF RecordOK
<1>2. RecordOK'
  BY DEF RecordOK
<1>3. PostureOK'
  BY DEF PostureOK
<1>4. PausingOK'
  BY DEF PausingOK, RequestsOK
<1>5. RequestsOK'
  BY Zenon DEF RequestsOK, Steps
<1>6. faults' \in 0 .. MaxFaults
  OBVIOUS
<1>7. (LockHeld /\ Idle)'
  BY Zenon DEF RequestsOK, LockHeld, Idle, Holding
<1>8. (OneAhead /\ Even /\ Admitted)'
  BY Zenon DEF RequestsOK, LockHeld, Idle, OneAhead, Even, Admitted, Holding,
     Landing
<1>9. (Written /\ SyncedWhen /\ Told)'
  BY Zenon DEF RequestsOK, LockHeld, Holding, Written, SyncedWhen, Told
<1>10. AnswersTrue'
  BY <1>1 DEF RequestsOK, AnswersTrue, Told
<1>11. RecordReplays'
  BY DEF RecordReplays
<1>12. CaptureAtBoundary'
  BY Zenon DEF RequestsOK, LockHeld, CaptureAtBoundary, Even, Idle, Holding,
     Landing
<1>13. QED
  BY <1>2, <1>3, <1>4, <1>5, <1>6, <1>7, <1>8, <1>9, <1>10, <1>11, <1>12

\* uncertainAppend: the line may be in the file or not, and the ledger is
\* frozen.
LEMMA UncertainKeeps ==
  ASSUME DoorInv, NEW r \in Appends, Uncertain(r)
  PROVE  DoorInv'
<1> USE Callers, DoorAssumption DEF DoorInv, TypeOK, record, posture, pausing,
        Uncertain, Goto, Return, Fault
<1>1. /\ log' \in Seq(Appends) /\ synced \in 0 .. Len(log') /\ lastSeq \in 0 .. Len(log')
     /\ In(log') \subseteq In(log) /\ SubSeq(log', 1, synced) = SubSeq(log, 1, synced)
     /\ Replays(log')
  <2>1. CASE log' = log
    BY <2>1 DEF RecordOK, RecordReplays
  <2>2. CASE log' = SubSeq(log, 1, Len(log) - 1)
    <3>1. /\ Len(log) - 1 \in 0 .. Len(log) /\ synced \in 0 .. Len(log) - 1
          /\ lastSeq \in 0 .. Len(log) - 1
      BY DEF RecordOK, SyncedWhen
    <3>2. log \in Seq(Appends) /\ Replays(log)
      BY DEF RecordOK, RecordReplays
    <3> HIDE DEF DoorInv, Uncertain
    <3>3. QED
      BY <2>2, <3>1, <3>2, SubSeqFacts, InPrefix, PrefixOf, ReplaysPrefix
  <2>3. QED
    BY <2>1, <2>2
<1>2. (RecordOK /\ PostureOK /\ PausingOK /\ RequestsOK)'
  BY <1>1, Zenon DEF RecordOK, PostureOK, PausingOK, RequestsOK, Steps
<1>3. faults' \in 0 .. MaxFaults
  OBVIOUS
<1>4. (LockHeld /\ Idle)'
  BY Zenon DEF RequestsOK, LockHeld, Idle, Holding
<1>5. (OneAhead /\ Even /\ Admitted)'
  BY Zenon DEF RequestsOK, LockHeld, Idle, OneAhead, Even, Admitted, Holding,
     Landing
<1>6. (Written /\ SyncedWhen /\ Told)'
  BY <1>1, Zenon DEF RequestsOK, LockHeld, Holding, Written, SyncedWhen, Told
<1>7. AnswersTrue'
  BY <1>1, Zenon DEF RequestsOK, AnswersTrue, Told
<1>8. RecordReplays'
  BY <1>1 DEF RecordReplays
<1>9. CaptureAtBoundary'
  BY Zenon DEF RequestsOK, LockHeld, CaptureAtBoundary, Even, Idle, Holding,
     Landing
<1>10. QED
  BY <1>2, <1>3, <1>4, <1>5, <1>6, <1>7, <1>8, <1>9

\* Materialize begins its transaction.
LEMMA BeginKeeps ==
  ASSUME DoorInv, NEW r \in Appends, Begin(r)
  PROVE  DoorInv'
<1> USE Callers, DoorAssumption DEF DoorInv, TypeOK, record, posture, pausing,
        Begin, Goto
<1>1. TypeOK'
  BY Zenon DEF TypeOK, RecordOK, PostureOK, PausingOK, RequestsOK, Steps
<1>2. (LockHeld /\ Idle)'
  BY Zenon DEF RequestsOK, LockHeld, Idle, Holding
<1>3. (OneAhead /\ Even /\ Admitted)'
  BY Zenon DEF RequestsOK, LockHeld, Idle, OneAhead, Even, Admitted, Holding,
     Landing
<1>4. (Written /\ SyncedWhen /\ Told)'
  BY DEF RequestsOK, Idle, Written, SyncedWhen, Told
<1>5. (AnswersTrue /\ RecordReplays /\ CaptureAtBoundary)'
  BY Zenon DEF RequestsOK, LockHeld, Idle, Even, Told, Written, Holding, Landing,
     AnswersTrue, RecordReplays, CaptureAtBoundary
<1>6. QED
  BY <1>1, <1>2, <1>3, <1>4, <1>5

\* Materialize commits: record and projection are the same again.
LEMMA CommitKeeps ==
  ASSUME DoorInv, NEW r \in Appends, Commit(r)
  PROVE  DoorInv'
<1> USE Callers, DoorAssumption DEF DoorInv, TypeOK, record, posture, pausing,
        Commit, Goto, Return
<1>1. r \in In(SubSeq(log, 1, synced))
  <2>1. synced = Len(log) /\ log = Append(mirror, r)
    BY DEF SyncedWhen, OneAhead, Landing
  <2>2. SubSeq(log, 1, synced) = log
    BY <2>1, PrefixOf DEF RecordOK
  <2>3. In(Append(mirror, r)) = In(mirror) \cup {r}
    BY InAppend DEF RecordOK
  <2>4. QED
    BY <2>1, <2>2, <2>3, Zenon
<1>2. In(mirror') = In(mirror) \cup {r}
  BY InAppend DEF RecordOK
<1>3. RecordOK'
  BY DEF RecordOK
<1>4. PostureOK'
  BY DEF PostureOK
<1>5. PausingOK'
  BY DEF PausingOK, RequestsOK
<1>6. RequestsOK'
  BY Zenon DEF RequestsOK, Steps
<1>7. faults' \in 0 .. MaxFaults
  OBVIOUS
<1>8. (LockHeld /\ Idle)'
  BY Zenon DEF RequestsOK, LockHeld, Idle, Holding
<1>9. (OneAhead /\ Even /\ Admitted)'
  BY Zenon DEF RequestsOK, LockHeld, Idle, OneAhead, Even, Admitted, Holding,
     Landing
<1>10. (Written /\ SyncedWhen /\ Told)'
  BY DEF RequestsOK, Idle, Written, SyncedWhen, Told
<1>11. AnswersTrue'
  BY <1>1, <1>2 DEF RequestsOK, AnswersTrue, Told
<1>12. RecordReplays'
  BY DEF RecordReplays
<1>13. CaptureAtBoundary'
  BY Zenon DEF RequestsOK, LockHeld, CaptureAtBoundary, Even, Idle, Holding,
     Landing
<1>14. QED
  BY <1>3, <1>4, <1>5, <1>6, <1>7, <1>8, <1>9, <1>10, <1>11, <1>12, <1>13

\* Materialize fails: the ledger is frozen before l.mu is given back.
LEMMA UnmaterializedKeeps ==
  ASSUME DoorInv, NEW r \in Appends, Unmaterialized(r)
  PROVE  DoorInv'
<1> USE Callers, DoorAssumption DEF DoorInv, TypeOK, record, posture, pausing,
        Unmaterialized, Goto, Return, Fault
<1>1. r \in In(SubSeq(log, 1, synced))
  <2>1. synced = Len(log) /\ log = Append(mirror, r)
    BY DEF SyncedWhen, OneAhead, Landing
  <2>2. SubSeq(log, 1, synced) = log
    BY <2>1, PrefixOf DEF RecordOK
  <2>3. In(Append(mirror, r)) = In(mirror) \cup {r}
    BY InAppend DEF RecordOK
  <2>4. QED
    BY <2>1, <2>2, <2>3, Zenon
<1>2. mirror' \in Seq(Appends) /\ In(mirror) \subseteq In(mirror')
  <2>1. mirror' = mirror \/ mirror' = Append(mirror, r)
    OBVIOUS
  <2>2. Append(mirror, r) \in Seq(Appends)
    BY AppendFacts DEF RecordOK
  <2>3. In(Append(mirror, r)) = In(mirror) \cup {r}
    BY InAppend DEF RecordOK
  <2>4. QED
    BY <2>1, <2>2, <2>3, Zenon DEF RecordOK
<1>3. (RecordOK /\ PostureOK /\ PausingOK /\ RequestsOK)'
  BY <1>2, Zenon DEF RecordOK, PostureOK, PausingOK, RequestsOK, Steps
<1>4. faults' \in 0 .. MaxFaults
  OBVIOUS
<1>5. (LockHeld /\ Idle)'
  BY Zenon DEF RequestsOK, LockHeld, Idle, Holding
<1>6. (OneAhead /\ Even /\ Admitted)'
  BY Zenon DEF RequestsOK, LockHeld, Idle, OneAhead, Even, Admitted, Holding,
     Landing
<1>7. (Written /\ SyncedWhen /\ Told)'
  BY DEF RequestsOK, Idle, Written, SyncedWhen, Told
<1>8. AnswersTrue'
  BY <1>1, <1>2 DEF RequestsOK, AnswersTrue, Told
<1>9. RecordReplays'
  BY DEF RecordReplays
<1>10. CaptureAtBoundary'
  BY Zenon DEF RequestsOK, LockHeld, CaptureAtBoundary, Even, Idle, Holding,
     Landing
<1>11. QED
  BY <1>3, <1>4, <1>5, <1>6, <1>7, <1>8, <1>9, <1>10

\* integrityLost calls enterSafeFor.
LEMMA AlarmKeeps ==
  ASSUME DoorInv, NEW r \in Appends, Alarm(r)
  PROVE  DoorInv'
<1> USE Callers, DoorAssumption DEF DoorInv, TypeOK, record, posture, pausing,
        Alarm, Goto
<1>1. TypeOK'
  BY Zenon DEF TypeOK, RecordOK, PostureOK, PausingOK, RequestsOK, Steps
<1>2. (LockHeld /\ Idle)'
  BY Zenon DEF RequestsOK, LockHeld, Idle, Holding
<1>3. (OneAhead /\ Even /\ Admitted)'
  BY Zenon DEF RequestsOK, LockHeld, Idle, OneAhead, Even, Admitted, Holding,
     Landing
<1>4. (Written /\ SyncedWhen /\ Told)'
  BY DEF RequestsOK, Idle, Written, SyncedWhen, Told
<1>5. (AnswersTrue /\ RecordReplays /\ CaptureAtBoundary)'
  BY Zenon DEF RequestsOK, LockHeld, Idle, Even, Told, Written, Holding, Landing,
     AnswersTrue, RecordReplays, CaptureAtBoundary
<1>6. QED
  BY <1>1, <1>2, <1>3, <1>4, <1>5

\* enterSafeFor returns to the caller that carried it out.
LEMMA AlarmedKeeps ==
  ASSUME DoorInv, NEW r \in Appends, Alarmed(r)
  PROVE  DoorInv'
<1> USE Callers, DoorAssumption DEF DoorInv, TypeOK, record, posture, pausing,
        Alarmed, Goto
<1>1. TypeOK'
  BY Zenon DEF TypeOK, RecordOK, PostureOK, PausingOK, RequestsOK, Steps
<1>2. (LockHeld /\ Idle)'
  BY Zenon DEF RequestsOK, LockHeld, Idle, Holding
<1>3. (OneAhead /\ Even /\ Admitted)'
  BY Zenon DEF RequestsOK, LockHeld, Idle, OneAhead, Even, Admitted, Holding,
     Landing
<1>4. (Written /\ SyncedWhen /\ Told)'
  BY DEF RequestsOK, Idle, Written, SyncedWhen, Told
<1>5. (AnswersTrue /\ RecordReplays /\ CaptureAtBoundary)'
  BY Zenon DEF RequestsOK, LockHeld, Idle, Even, Told, Written, Holding, Landing,
     AnswersTrue, RecordReplays, CaptureAtBoundary
<1>6. QED
  BY <1>1, <1>2, <1>3, <1>4, <1>5

\* Ledger.Capture copies the record while l.mu is held.
LEMMA CopyRecordKeeps ==
  ASSUME DoorInv, NEW r \in Captures, CopyRecord(r)
  PROVE  DoorInv'
<1> USE Callers, DoorAssumption DEF DoorInv, TypeOK, record, posture, pausing,
        CopyRecord, Goto, Return
<1>1. ~lfrozen => mirror = log
  BY Zenon DEF RequestsOK, LockHeld, Idle, Even, Holding, Landing
<1>2. RecordOK'
  BY Zenon DEF RecordOK
<1>3. PostureOK'
  BY Zenon DEF PostureOK
<1>4. PausingOK'
  BY Zenon DEF PausingOK, RequestsOK
<1>5. RequestsOK'
  <2>1. CASE Len(log) = lastSeq
    <3>1. copy' = [copy EXCEPT ![r] = log] /\ log \in Seq(Appends)
      BY <2>1, Zenon DEF RecordOK
    <3>2. copy' \in [Captures -> Seq(Appends)]
      BY <3>1, Zenon DEF RequestsOK
    <3>3. QED
      BY <2>1, <3>2, Zenon DEF RequestsOK, Steps
  <2>2. CASE Len(log) # lastSeq
    BY <2>2, Zenon DEF RequestsOK, Steps
  <2>3. QED
    BY <2>1, <2>2, Zenon
<1>6. faults' \in 0 .. MaxFaults
  BY Zenon
<1>7. (LockHeld /\ Idle)'
  BY Zenon DEF RequestsOK, LockHeld, Idle, Holding
<1>8. (OneAhead /\ Even /\ Admitted)'
  BY Zenon DEF RequestsOK, LockHeld, Idle, OneAhead, Even, Admitted, Holding,
     Landing
<1>9. (Written /\ SyncedWhen /\ Told)'
  BY Zenon DEF RequestsOK, Idle, Written, SyncedWhen, Told
<1>10. AnswersTrue'
  BY Zenon DEF RequestsOK, AnswersTrue, Told, Written
<1>11. RecordReplays'
  BY Zenon DEF RecordReplays
<1>12. CaptureAtBoundary'
  BY <1>1, Zenon DEF RequestsOK, LockHeld, Holding, CaptureAtBoundary
<1>13. QED
  BY <1>2, <1>3, <1>4, <1>5, <1>6, <1>7, <1>8, <1>9, <1>10, <1>11, <1>12, Zenon

\* capture recovers an unfinished seal.
LEMMA CaptureRecoversKeeps ==
  ASSUME DoorInv, NEW r \in Captures, CaptureRecovers(r)
  PROVE  DoorInv'
<1> USE Callers, DoorAssumption DEF DoorInv, TypeOK, record, posture, pausing,
        CaptureRecovers, Goto, Return, Fault
<1>1. RecordOK'
  BY Zenon DEF RecordOK
<1>2. PostureOK'
  BY Zenon DEF PostureOK
<1>3. PausingOK'
  BY Zenon DEF PausingOK, RequestsOK
<1>4. RequestsOK'
  BY Zenon DEF RequestsOK, Steps
<1>5. faults' \in 0 .. MaxFaults
  <2>1. faults' = faults \/ Fault
    BY Zenon
  <2> HIDE DEF CaptureRecovers
  <2>2. QED
    BY <2>1, DoorAssumption DEF Fault
<1>6. (LockHeld /\ Idle)'
  <2>1. CASE sealErr' = FALSE /\ Goto(r, "capture again") /\ UNCHANGED lock
    BY <2>1, Zenon DEF RequestsOK, LockHeld, Idle, Holding
  <2>2. CASE Return(r, "refused") /\ Goto(r, "done")
    BY <2>2, Zenon DEF RequestsOK, LockHeld, Idle, Holding
  <2>3. QED
    BY <2>1, <2>2, Zenon
<1>7. (OneAhead /\ Even /\ Admitted)'
  BY Zenon DEF RequestsOK, LockHeld, Idle, OneAhead, Even, Admitted, Holding,
     Landing
<1>8. (Written /\ SyncedWhen /\ Told)'
  <2>1. CASE Goto(r, "capture again") /\ UNCHANGED answer
    BY <2>1, Zenon DEF RequestsOK, Idle, Written, SyncedWhen, Told
  <2>2. CASE Return(r, "refused") /\ Goto(r, "done")
    BY <2>2, Zenon DEF RequestsOK, Idle, Written, SyncedWhen, Told
  <2>3. QED
    BY <2>1, <2>2, Zenon
<1>9. AnswersTrue'
  BY Zenon DEF RequestsOK, AnswersTrue, Told, Written
<1>10. RecordReplays'
  BY Zenon DEF RecordReplays
<1>11. CaptureAtBoundary'
  BY Zenon DEF RequestsOK, LockHeld, CaptureAtBoundary, Even, Idle, Holding,
     Landing
<1>12. QED
  BY <1>1, <1>2, <1>3, <1>4, <1>5, <1>6, <1>7, <1>8, <1>9, <1>10, <1>11, Zenon

\* PinAt pins the projection, or refuses.
LEMMA PinKeeps ==
  ASSUME DoorInv, NEW r \in Captures, Pin(r)
  PROVE  DoorInv'
<1> USE Callers, DoorAssumption DEF DoorInv, TypeOK, record, posture, pausing,
        Pin, Goto, Return
<1>1. TypeOK'
  BY Zenon DEF TypeOK, RecordOK, PostureOK, PausingOK, RequestsOK, Steps
<1>2. (LockHeld /\ Idle)'
  BY Zenon DEF RequestsOK, LockHeld, Idle, Holding
<1>3. (OneAhead /\ Even /\ Admitted)'
  BY Zenon DEF RequestsOK, LockHeld, Idle, OneAhead, Even, Admitted, Holding,
     Landing
<1>4. (Written /\ SyncedWhen /\ Told)'
  BY DEF RequestsOK, Idle, Written, SyncedWhen, Told
<1>5. (AnswersTrue /\ RecordReplays /\ CaptureAtBoundary)'
  BY Zenon DEF RequestsOK, LockHeld, Idle, Even, Told, Written, Holding, Landing,
     AnswersTrue, RecordReplays, CaptureAtBoundary
<1>6. QED
  BY <1>1, <1>2, <1>3, <1>4, <1>5

\* capture fails and leaves nothing.
LEMMA CaptureFailsKeeps ==
  ASSUME DoorInv, NEW r \in Captures, CaptureFails(r)
  PROVE  DoorInv'
<1> USE Callers, DoorAssumption DEF DoorInv, TypeOK, record, posture, pausing,
        CaptureFails, Goto, Return, Fault
<1>1. (RecordOK /\ PostureOK /\ PausingOK /\ RequestsOK)'
  BY Zenon DEF RecordOK, PostureOK, PausingOK, RequestsOK, Steps
<1>2. faults' \in 0 .. MaxFaults
  <2>1. faults' = faults \/ Fault
    BY Zenon
  <2> HIDE DEF CaptureFails
  <2>2. QED
    BY <2>1, DoorAssumption DEF Fault
<1>3. (LockHeld /\ Idle)'
  BY Zenon DEF RequestsOK, LockHeld, Idle, Holding
<1>4. (OneAhead /\ Even /\ Admitted)'
  BY Zenon DEF RequestsOK, LockHeld, Idle, OneAhead, Even, Admitted, Holding,
     Landing
<1>5. (Written /\ SyncedWhen /\ Told)'
  BY Zenon DEF RequestsOK, Idle, Written, SyncedWhen, Told
<1>6. (AnswersTrue /\ RecordReplays /\ CaptureAtBoundary)'
  BY Zenon DEF RequestsOK, LockHeld, Idle, Even, Told, Written, Holding, Landing,
     AnswersTrue, RecordReplays, CaptureAtBoundary
<1>7. QED
  BY <1>1, <1>2, <1>3, <1>4, <1>5, <1>6, Zenon

\* A pass begins: it holds no lock yet and has written nothing.
LEMMA BeginPassKeeps ==
  ASSUME DoorInv, NEW h \in Heads, BeginPass(h), PausingOK',
         UNCHANGED <<record, mirror, posture, lock, copy, answer, faults>>
  PROVE  DoorInv'
<1> USE Callers, DoorAssumption DEF DoorInv, TypeOK, record, posture, BeginPass, Goto
<1>1. (RecordOK /\ PostureOK)'
  BY Zenon DEF RecordOK, PostureOK
<1>2. RequestsOK'
  BY Zenon DEF RequestsOK, Steps
<1>3. faults' \in 0 .. MaxFaults
  BY Zenon
<1>4. (LockHeld /\ Idle)'
  BY Zenon DEF RequestsOK, LockHeld, Idle, Holding
<1>5. (OneAhead /\ Even /\ Admitted)'
  BY Zenon DEF RequestsOK, LockHeld, Idle, OneAhead, Even, Admitted, Holding,
     Landing
<1>6. (Written /\ SyncedWhen /\ Told)'
  BY Zenon DEF RequestsOK, Idle, Written, SyncedWhen, Told
<1>7. (AnswersTrue /\ RecordReplays /\ CaptureAtBoundary)'
  BY Zenon DEF RequestsOK, LockHeld, Idle, Even, Told, Written, Holding, Landing,
     AnswersTrue, RecordReplays, CaptureAtBoundary
<1>8. QED
  BY Zenon, <1>1, <1>2, <1>3, <1>4, <1>5, <1>6, <1>7

\* PauseAppends begins a pause, or leaves the one that runs.
LEMMA PauseAppendsTyped ==
  ASSUME PausingOK, NEW h \in Heads, PauseAppends(h),
         bookmark' \in [Heads -> Nat], again' \subseteq Heads,
         UNCHANGED <<expired, wait>>
  PROVE  PausingOK'
<1> USE DEF PauseAppends
<1>1. CASE Paused
  BY Zenon, <1>1 DEF PausingOK
<1>2. CASE ~Paused
  <2>1. 0 .. pauses \subseteq 0 .. pauses' /\ 1 .. pauses \subseteq 1 .. pauses'
    BY <1>2 DEF PausingOK
  <2>2. /\ pauses' \in 0 .. MaxPauses /\ pauseEnd' \in 0 .. pauses'
        /\ pauses + 1 \in 0 .. pauses'
    BY <1>2, DoorAssumption DEF PausingOK
  <2>3. own' \in [Heads -> 0 .. pauses']
    BY <1>2, <2>1, <2>2 DEF PausingOK
  <2>4. wait' \in [Events -> 0 .. pauses'] /\ expired' \subseteq 1 .. pauses'
    BY <2>1 DEF PausingOK
  <2>5. QED
    BY Zenon, <2>2, <2>3, <2>4 DEF PausingOK
<1>3. QED
  BY Zenon, <1>1, <1>2

\* A pass pauses appends and reads its bookmark.
LEMMA PauseKeeps ==
  ASSUME DoorInv, NEW h \in Heads, Pause(h)
  PROVE  DoorInv'
<1>1. PausingOK /\ bookmark' \in [Heads -> Nat]
  BY DEF Pause, DoorInv, TypeOK, RecordOK, PausingOK
<1>2. PausingOK'
  BY <1>1, PauseAppendsTyped, Zenon DEF Pause, PausingOK
<1>3. QED
  BY <1>2, BeginPassKeeps, Zenon DEF Pause

\* A pass pauses appends and sends a kept bookmark again.
LEMMA ResendKeeps ==
  ASSUME DoorInv, NEW h \in Heads, Resend(h)
  PROVE  DoorInv'
<1>1. PausingOK /\ bookmark' \in [Heads -> Nat] /\ again' \subseteq Heads
  BY DEF Resend, LeftBeside, DoorInv, TypeOK, RecordOK, PausingOK
<1>2. PausingOK'
  BY <1>1, PauseAppendsTyped, Zenon DEF Resend
<1>3. QED
  BY <1>2, BeginPassKeeps, Zenon DEF Resend

\* A pass mints the receipt an earlier one kept.
LEMMA SettlePendingKeeps ==
  ASSUME DoorInv, NEW h \in Heads, SettlePending(h)
  PROVE  DoorInv'
<1>1. PausingOK /\ bookmark' \in [Heads -> Nat]
  BY DEF SettlePending, LeftBeside, DoorInv, TypeOK, RecordOK, PausingOK
<1>2. PausingOK'
  BY <1>1, Zenon DEF SettlePending, PausingOK
<1>3. QED
  BY <1>2, BeginPassKeeps, Zenon DEF SettlePending

\* AnchorPass ends without a head.
LEMMA NoReceiptKeeps ==
  ASSUME DoorInv, NEW h \in Heads, NoReceipt(h)
  PROVE  DoorInv'
<1> USE Callers, DoorAssumption DEF DoorInv, TypeOK, record, posture, pausing,
        NoReceipt, Goto
<1>1. TypeOK'
  BY Zenon DEF TypeOK, RecordOK, PostureOK, PausingOK, RequestsOK, Steps
<1>2. (LockHeld /\ Idle)'
  BY Zenon DEF RequestsOK, LockHeld, Idle, Holding
<1>3. (OneAhead /\ Even /\ Admitted)'
  BY Zenon DEF RequestsOK, LockHeld, Idle, OneAhead, Even, Admitted, Holding,
     Landing
<1>4. (Written /\ SyncedWhen /\ Told)'
  BY DEF RequestsOK, Idle, Written, SyncedWhen, Told
<1>5. (AnswersTrue /\ RecordReplays /\ CaptureAtBoundary)'
  BY Zenon DEF RequestsOK, LockHeld, Idle, Even, Told, Written, Holding, Landing,
     AnswersTrue, RecordReplays, CaptureAtBoundary
<1>6. QED
  BY <1>1, <1>2, <1>3, <1>4, <1>5

\* AnchorPass releases its pause.
LEMMA ReleaseKeeps ==
  ASSUME DoorInv, NEW h \in Heads, Release(h)
  PROVE  DoorInv'
<1> USE Callers, DoorAssumption DEF DoorInv, TypeOK, record, posture, pausing,
        Release
<1>1. RecordOK'
  BY DEF RecordOK
<1>2. PostureOK'
  BY DEF PostureOK
<1>3. PausingOK'
  BY DEF PausingOK, RequestsOK
<1>4. RequestsOK'
  BY Zenon DEF RequestsOK, Steps
<1>5. faults' \in 0 .. MaxFaults
  BY Zenon
<1>6. (LockHeld /\ Idle)'
  BY Zenon DEF RequestsOK, LockHeld, Idle, Holding
<1>7. (OneAhead /\ Even /\ Admitted)'
  BY Zenon DEF RequestsOK, LockHeld, Idle, OneAhead, Even, Admitted, Holding,
     Landing
<1>8. (Written /\ SyncedWhen /\ Told)'
  BY DEF RequestsOK, Idle, Written, SyncedWhen, Told
<1>9. (AnswersTrue /\ RecordReplays /\ CaptureAtBoundary)'
  BY Zenon DEF RequestsOK, LockHeld, Idle, Even, Told, Written, Holding, Landing,
     AnswersTrue, RecordReplays, CaptureAtBoundary
<1>10. QED
  BY <1>1, <1>2, <1>3, <1>4, <1>5, <1>6, <1>7, <1>8, <1>9

\* A pause runs out.
LEMMA ExpireKeeps ==
  ASSUME DoorInv, Expire
  PROVE  DoorInv'
<1> USE Callers, DoorAssumption DEF DoorInv, TypeOK, record, posture, pausing,
        Expire, Paused
<1>1. RecordOK'
  BY DEF RecordOK
<1>2. PostureOK'
  BY DEF PostureOK
<1>3. PausingOK'
  BY DEF PausingOK, RequestsOK
<1>4. RequestsOK'
  BY Zenon DEF RequestsOK, Steps
<1>5. faults' \in 0 .. MaxFaults
  OBVIOUS
<1>6. (LockHeld /\ Idle)'
  BY Zenon DEF RequestsOK, LockHeld, Idle, Holding
<1>7. (OneAhead /\ Even /\ Admitted)'
  BY Zenon DEF RequestsOK, LockHeld, Idle, OneAhead, Even, Admitted, Holding,
     Landing
<1>8. (Written /\ SyncedWhen /\ Told)'
  BY DEF RequestsOK, Idle, Written, SyncedWhen, Told
<1>9. (AnswersTrue /\ RecordReplays /\ CaptureAtBoundary)'
  BY Zenon DEF RequestsOK, LockHeld, Idle, Even, Told, Written, Holding, Landing,
     AnswersTrue, RecordReplays, CaptureAtBoundary
<1>10. QED
  BY <1>1, <1>2, <1>3, <1>4, <1>5, <1>6, <1>7, <1>8, <1>9

\* A witness conflict calls enterSafeFor.
LEMMA ConflictKeeps ==
  ASSUME DoorInv, Conflict
  PROVE  DoorInv'
<1> USE Callers, DoorAssumption DEF DoorInv, TypeOK, record, posture, pausing,
        Conflict
<1>1. TypeOK'
  BY Zenon DEF TypeOK, RecordOK, PostureOK, PausingOK, RequestsOK, Steps
<1>2. (LockHeld /\ Idle)'
  BY Zenon DEF RequestsOK, LockHeld, Idle, Holding
<1>3. (OneAhead /\ Even /\ Admitted)'
  BY Zenon DEF RequestsOK, LockHeld, Idle, OneAhead, Even, Admitted, Holding,
     Landing
<1>4. (Written /\ SyncedWhen /\ Told)'
  BY DEF RequestsOK, Idle, Written, SyncedWhen, Told
<1>5. (AnswersTrue /\ RecordReplays /\ CaptureAtBoundary)'
  BY Zenon DEF RequestsOK, LockHeld, Idle, Even, Told, Written, Holding, Landing,
     AnswersTrue, RecordReplays, CaptureAtBoundary
<1>6. QED
  BY <1>1, <1>2, <1>3, <1>4, <1>5

\* enterSafeFor freezes the ledger.
LEMMA FreezeLedgerKeeps ==
  ASSUME DoorInv, FreezeLedger
  PROVE  DoorInv'
<1> USE Callers, DoorAssumption DEF DoorInv, TypeOK, record, posture, pausing,
        FreezeLedger
<1>1. TypeOK'
  BY Zenon DEF TypeOK, RecordOK, PostureOK, PausingOK, RequestsOK, Steps
<1>2. (LockHeld /\ Idle)'
  BY Zenon DEF RequestsOK, LockHeld, Idle, Holding
<1>3. (OneAhead /\ Even /\ Admitted)'
  BY Zenon DEF RequestsOK, LockHeld, Idle, OneAhead, Even, Admitted, Holding,
     Landing
<1>4. (Written /\ SyncedWhen /\ Told)'
  BY DEF RequestsOK, Idle, Written, SyncedWhen, Told
<1>5. (AnswersTrue /\ RecordReplays /\ CaptureAtBoundary)'
  BY Zenon DEF RequestsOK, LockHeld, Idle, Even, Told, Written, Holding, Landing,
     AnswersTrue, RecordReplays, CaptureAtBoundary
<1>6. QED
  BY <1>1, <1>2, <1>3, <1>4, <1>5

\* applySafeState freezes the store.
LEMMA FreezeStoreKeeps ==
  ASSUME DoorInv, FreezeStore
  PROVE  DoorInv'
<1> USE Callers, DoorAssumption DEF DoorInv, TypeOK, record, posture, pausing,
        FreezeStore
<1>1. TypeOK'
  BY Zenon DEF TypeOK, RecordOK, PostureOK, PausingOK, RequestsOK, Steps
<1>2. (LockHeld /\ Idle)'
  BY Zenon DEF RequestsOK, LockHeld, Idle, Holding
<1>3. (OneAhead /\ Even /\ Admitted)'
  BY Zenon DEF RequestsOK, LockHeld, Idle, OneAhead, Even, Admitted, Holding,
     Landing
<1>4. (Written /\ SyncedWhen /\ Told)'
  BY DEF RequestsOK, Idle, Written, SyncedWhen, Told
<1>5. (AnswersTrue /\ RecordReplays /\ CaptureAtBoundary)'
  BY Zenon DEF RequestsOK, LockHeld, Idle, Even, Told, Written, Holding, Landing,
     AnswersTrue, RecordReplays, CaptureAtBoundary
<1>6. QED
  BY <1>1, <1>2, <1>3, <1>4, <1>5

\* A seal beside the door fails.
LEMMA SealFailsKeeps ==
  ASSUME DoorInv, SealFails
  PROVE  DoorInv'
<1> USE Callers, DoorAssumption DEF DoorInv, TypeOK, record, posture, pausing,
        SealFails, Fault
<1>1. (RecordOK /\ PostureOK /\ PausingOK /\ RequestsOK)'
  BY Zenon DEF RecordOK, PostureOK, PausingOK, RequestsOK, Steps
<1>2. faults' \in 0 .. MaxFaults
  OBVIOUS
<1>3. (LockHeld /\ Idle)'
  BY Zenon DEF RequestsOK, LockHeld, Idle, Holding
<1>4. (OneAhead /\ Even /\ Admitted)'
  BY Zenon DEF RequestsOK, LockHeld, Idle, OneAhead, Even, Admitted, Holding,
     Landing
<1>5. (Written /\ SyncedWhen /\ Told)'
  BY DEF RequestsOK, Idle, Written, SyncedWhen, Told
<1>6. (AnswersTrue /\ RecordReplays /\ CaptureAtBoundary)'
  BY Zenon DEF RequestsOK, LockHeld, Idle, Even, Told, Written, Holding, Landing,
     AnswersTrue, RecordReplays, CaptureAtBoundary
<1>7. QED
  BY <1>1, <1>2, <1>3, <1>4, <1>5, <1>6

\* A start holds the record to the mirror.
LEMMA BootKeeps ==
  ASSUME DoorInv, Boot
  PROVE  DoorInv'
<1> USE Callers, DoorAssumption DEF DoorInv, TypeOK, record, posture, pausing,
        Boot
<1>1. RecordOK'
  BY DEF RecordOK
<1>2. PostureOK'
  BY Zenon DEF PostureOK
<1>3. PausingOK'
  BY DEF PausingOK, RequestsOK
<1>4. RequestsOK'
  BY Zenon DEF RequestsOK, Steps
<1>5. faults' \in 0 .. MaxFaults
  OBVIOUS
<1>6. (LockHeld /\ Idle)'
  BY Zenon DEF RequestsOK, LockHeld, Idle, Holding
<1>7. (OneAhead /\ Even /\ Admitted)'
  BY Zenon DEF RequestsOK, LockHeld, Idle, OneAhead, Even, Admitted, Holding,
     Landing
<1>8. (Written /\ SyncedWhen /\ Told)'
  BY DEF RequestsOK, Idle, Written, SyncedWhen, Told
<1>9. (AnswersTrue /\ RecordReplays /\ CaptureAtBoundary)'
  BY Zenon DEF RequestsOK, LockHeld, Idle, Even, Told, Written, Holding, Landing,
     AnswersTrue, RecordReplays, CaptureAtBoundary
<1>10. QED
  BY <1>1, <1>2, <1>3, <1>4, <1>5, <1>6, <1>7, <1>8, <1>9

\* A shutdown syncs and closes the ledger.
LEMMA StopKeeps ==
  ASSUME DoorInv, Stop
  PROVE  DoorInv'
<1> USE Callers, DoorAssumption DEF DoorInv, TypeOK, record, posture, pausing,
        Stop, Forget, InFlight
<1>1. \A r \in Requests : pc'[r] \in {"new", "done"} /\ (pc[r] = "new" \/ pc'[r] = "done")
  BY DEF RequestsOK
<1>2. In(SubSeq(log, 1, synced)) \subseteq In(SubSeq(log, 1, Len(log)))
  BY InPrefix DEF RecordOK
<1>3. RecordOK'
  BY DEF RecordOK
<1>4. PostureOK'
  BY Zenon DEF PostureOK
<1>5. PausingOK'
  BY DEF PausingOK, RequestsOK
<1>6. RequestsOK'
  <2>1. pc' \in [Requests -> Steps]
    BY Zenon DEF RequestsOK, Steps
  <2>2. copy' \in [Captures -> Seq(Appends)]
    OBVIOUS
  <2>3. QED
    BY <2>1, <2>2 DEF RequestsOK
<1>7. faults' \in 0 .. MaxFaults
  OBVIOUS
<1>8. (LockHeld /\ Idle)'
  BY <1>1, Zenon DEF RequestsOK, LockHeld, Idle, Holding
<1>9. (OneAhead /\ Even /\ Admitted)'
  BY <1>1 DEF OneAhead, Even, Admitted, Landing
<1>10. (Written /\ SyncedWhen /\ Told)'
  BY <1>1 DEF Written, SyncedWhen, Told, RequestsOK
<1>11. AnswersTrue'
  BY <1>1, <1>2 DEF RequestsOK, AnswersTrue, Told
<1>12. RecordReplays'
  BY DEF RecordReplays
<1>13. CaptureAtBoundary'
  BY <1>1 DEF CaptureAtBoundary
<1>14. QED
  BY <1>3, <1>4, <1>5, <1>6, <1>7, <1>8, <1>9, <1>10, <1>11, <1>12, <1>13

\* The process dies with calls in flight.
LEMMA CrashKeeps ==
  ASSUME DoorInv, Crash
  PROVE  DoorInv'
<1> USE Callers, DoorAssumption DEF DoorInv, TypeOK, record, posture, pausing,
        Crash, Forget, InFlight, Fault
<1>1. \A r \in Requests : pc'[r] \in {"new", "done"} /\ (pc[r] = "new" \/ pc'[r] = "done")
  BY DEF RequestsOK
<1>2. RecordOK'
  BY DEF RecordOK
<1>3. PostureOK'
  BY Zenon DEF PostureOK
<1>4. PausingOK'
  BY DEF PausingOK, RequestsOK
<1>5. RequestsOK'
  <2>1. pc' \in [Requests -> Steps]
    BY Zenon DEF RequestsOK, Steps
  <2>2. copy' \in [Captures -> Seq(Appends)]
    OBVIOUS
  <2>3. QED
    BY <2>1, <2>2 DEF RequestsOK
<1>6. faults' \in 0 .. MaxFaults
  OBVIOUS
<1>7. (LockHeld /\ Idle)'
  BY <1>1, Zenon DEF RequestsOK, LockHeld, Idle, Holding
<1>8. (OneAhead /\ Even /\ Admitted)'
  BY <1>1 DEF OneAhead, Even, Admitted, Landing
<1>9. (Written /\ SyncedWhen /\ Told)'
  BY <1>1 DEF Written, SyncedWhen, Told, RequestsOK
<1>10. AnswersTrue'
  BY DEF RequestsOK, AnswersTrue, Told, Written
<1>11. RecordReplays'
  BY DEF RecordReplays
<1>12. CaptureAtBoundary'
  BY <1>1 DEF CaptureAtBoundary
<1>13. QED
  BY <1>2, <1>3, <1>4, <1>5, <1>6, <1>7, <1>8, <1>9, <1>10, <1>11, <1>12

\* A power loss takes what was not synced.
LEMMA PowerLossKeeps ==
  ASSUME DoorInv, PowerLoss
  PROVE  DoorInv'
<1> USE Callers, DoorAssumption DEF DoorInv, TypeOK, record, posture, pausing,
        PowerLoss, Forget, InFlight, Fault
<1>1. \A r \in Requests : pc'[r] \in {"new", "done"} /\ (pc[r] = "new" \/ pc'[r] = "done")
  BY DEF RequestsOK
<1>2. /\ log' \in Seq(Appends) /\ synced' \in 0 .. Len(log')
     /\ In(log') \subseteq In(log)
     /\ In(SubSeq(log, 1, synced)) \subseteq In(SubSeq(log', 1, synced'))
     /\ Replays(log')
  <2>1. PICK k \in synced .. Len(log) : log' = SubSeq(log, 1, k) /\ synced' = k
    OBVIOUS
  <2>2. k \in 0 .. Len(log) /\ synced \in 0 .. k /\ log \in Seq(Appends) /\ Replays(log)
    BY DEF RecordOK, RecordReplays
  <2> HIDE DEF DoorInv, PowerLoss
  <2>3. SubSeq(log', 1, k) = SubSeq(log, 1, k)
    BY <2>1, <2>2
  <2>4. SubSeq(log, 1, k) \in Seq(Appends) /\ Len(SubSeq(log, 1, k)) = k
    BY <2>2, SubSeqFacts
  <2>5. Replays(SubSeq(log, 1, k))
    BY <2>2, ReplaysPrefix
  <2>6. /\ In(SubSeq(log, 1, synced)) \subseteq In(SubSeq(log, 1, k))
        /\ In(SubSeq(log, 1, k)) \subseteq In(log)
    BY <2>2, InPrefix
  <2>7. log' \in Seq(Appends) /\ synced' \in 0 .. Len(log')
    BY <2>1, <2>2, <2>4
  <2>8. In(SubSeq(log, 1, synced)) \subseteq In(SubSeq(log', 1, synced'))
    BY <2>1, <2>3, <2>6, Zenon
  <2>9. QED
    BY <2>1, <2>5, <2>6, <2>7, <2>8
<1>3. RecordOK'
  BY <1>2 DEF RecordOK
<1>4. PostureOK'
  BY Zenon DEF PostureOK
<1>5. PausingOK'
  BY DEF PausingOK, RequestsOK
<1>6. RequestsOK'
  <2>1. pc' \in [Requests -> Steps]
    BY Zenon DEF RequestsOK, Steps
  <2>2. copy' \in [Captures -> Seq(Appends)]
    OBVIOUS
  <2>3. QED
    BY <2>1, <2>2 DEF RequestsOK
<1>7. faults' \in 0 .. MaxFaults
  OBVIOUS
<1>8. (LockHeld /\ Idle)'
  BY <1>1, Zenon DEF RequestsOK, LockHeld, Idle, Holding
<1>9. (OneAhead /\ Even /\ Admitted)'
  BY <1>1 DEF OneAhead, Even, Admitted, Landing
<1>10. (Written /\ SyncedWhen /\ Told)'
  BY <1>1, <1>2 DEF Written, SyncedWhen, Told, RequestsOK
<1>11. AnswersTrue'
  BY <1>2, Zenon DEF AnswersTrue
<1>12. RecordReplays'
  BY <1>2 DEF RecordReplays
<1>13. CaptureAtBoundary'
  BY <1>1 DEF CaptureAtBoundary
<1>14. QED
  BY <1>3, <1>4, <1>5, <1>6, <1>7, <1>8, <1>9, <1>10, <1>11, <1>12, <1>13

\* The projection is rebuilt from the record.
LEMMA ReplayKeeps ==
  ASSUME DoorInv, Replay
  PROVE  DoorInv'
<1> USE Callers, DoorAssumption DEF DoorInv, TypeOK, record, posture, pausing,
        Replay
<1>1. In(SubSeq(log, 1, synced)) \subseteq In(log)
  BY InPrefix DEF RecordOK
<1>2. (RecordOK /\ PostureOK /\ PausingOK /\ RequestsOK)'
  BY Zenon DEF RecordOK, PostureOK, PausingOK, RequestsOK, Steps
<1>3. faults' \in 0 .. MaxFaults
  OBVIOUS
<1>4. (LockHeld /\ Idle)'
  BY Zenon DEF RequestsOK, LockHeld, Idle, Holding
<1>5. (OneAhead /\ Even /\ Admitted)'
  BY Zenon DEF RequestsOK, LockHeld, Idle, OneAhead, Even, Admitted, Holding,
     Landing
<1>6. (Written /\ SyncedWhen /\ Told)'
  BY DEF RequestsOK, Idle, Written, SyncedWhen, Told
<1>7. AnswersTrue'
  BY <1>1 DEF AnswersTrue
<1>8. RecordReplays'
  BY DEF RecordReplays
<1>9. CaptureAtBoundary'
  BY Zenon DEF RequestsOK, LockHeld, CaptureAtBoundary, Even, Idle, Holding,
     Landing
<1>10. QED
  BY <1>2, <1>3, <1>4, <1>5, <1>6, <1>7, <1>8, <1>9

-----------------------------------------------------------------------------
(* The theorems *)

\* A program that has started satisfies the invariant.
LEMMA DoorInit == Init => DoorInv
<1> SUFFICES ASSUME Init PROVE DoorInv
  OBVIOUS
<1> USE Callers, DoorAssumption DEF Init
<1>1. <<>> \in Seq(Appends) /\ Len(<<>>) = 0
  OBVIOUS
<1>2. In(<<>>) = {} /\ Replays(<<>>)
  BY DEF In, Replays
<1>3. RecordOK /\ faults \in 0 .. MaxFaults
  BY <1>1 DEF RecordOK
<1>4. PostureOK
  BY Zenon DEF PostureOK
<1>5. PausingOK
  BY DEF PausingOK
<1>6. RequestsOK
  BY <1>1 DEF RequestsOK, Steps
<1>7. LockHeld /\ Idle /\ OneAhead /\ Even /\ Admitted
  BY DEF LockHeld, Idle, OneAhead, Even, Admitted, Holding, Landing
<1>8. Written /\ SyncedWhen /\ Told
  BY <1>2 DEF Written, SyncedWhen, Told
<1>9. AnswersTrue /\ RecordReplays /\ CaptureAtBoundary
  BY <1>2 DEF AnswersTrue, RecordReplays, CaptureAtBoundary
<1>10. QED
  BY <1>3, <1>4, <1>5, <1>6, <1>7, <1>8, <1>9 DEF DoorInv, TypeOK

\* A step that changes nothing changes no part of the invariant.
LEMMA Stutters == DoorInv /\ UNCHANGED vars => DoorInv'
<1> SUFFICES ASSUME DoorInv, UNCHANGED vars PROVE DoorInv'
  OBVIOUS
<1> USE DEF DoorInv, vars, record, posture, pausing
<1>1. TypeOK'
  BY DEF TypeOK, RecordOK, PostureOK, PausingOK, RequestsOK
<1>2. (LockHeld /\ Idle /\ OneAhead /\ Even /\ Admitted)'
  BY DEF LockHeld, Idle, OneAhead, Even, Admitted
<1>3. (Written /\ SyncedWhen /\ Told)'
  BY DEF Written, SyncedWhen, Told
<1>4. (AnswersTrue /\ RecordReplays /\ CaptureAtBoundary)'
  BY DEF AnswersTrue, RecordReplays, CaptureAtBoundary
<1>5. QED
  BY <1>1, <1>2, <1>3, <1>4

\* Every step keeps the invariant.
LEMMA DoorStep == DoorInv /\ [Next]_vars => DoorInv'
<1> SUFFICES ASSUME DoorInv, [Next]_vars PROVE DoorInv'
  OBVIOUS
<1>1. ASSUME NEW r \in Requests, Enter(r) \/ NoLedger(r) PROVE DoorInv'
  BY <1>1, EnterKeeps, NoLedgerKeeps
<1>2. ASSUME NEW r \in Events, Wake(r) PROVE DoorInv'
  BY <1>2, WakeKeeps
<1>3. ASSUME NEW r \in Appends, AppendStep(r) PROVE DoorInv'
  BY <1>3, AdmitKeeps, RefuseKeeps, AppendRefusedKeeps, TailUnreadableKeeps,
     RecoverSealKeeps, WriteKeeps, SyncKeeps, UncertainKeeps, BeginKeeps, CommitKeeps, UnmaterializedKeeps,
     AlarmKeeps, AlarmedKeeps DEF AppendStep
<1>4. ASSUME NEW r \in Captures, CaptureStep(r) PROVE DoorInv'
  BY <1>4, CopyRecordKeeps, CaptureRecoversKeeps, PinKeeps, CaptureFailsKeeps
     DEF CaptureStep
<1>5. ASSUME NEW h \in Heads, AnchorPass(h) PROVE DoorInv'
  BY <1>5, PauseKeeps, ResendKeeps, SettlePendingKeeps, NoReceiptKeeps, ReleaseKeeps, Zenon
  DEF AnchorPass
<1>6. ASSUME Expire \/ Conflict \/ EnterSafe \/ SealFails PROVE DoorInv'
  BY <1>6, ExpireKeeps, ConflictKeeps, FreezeLedgerKeeps, FreezeStoreKeeps,
     SealFailsKeeps DEF EnterSafe
<1>7. ASSUME Stop \/ Crash \/ PowerLoss \/ Boot \/ Replay PROVE DoorInv'
  BY <1>7, StopKeeps, CrashKeeps, PowerLossKeeps, BootKeeps, ReplayKeeps
<1>8. QED
  BY <1>1, <1>2, <1>3, <1>4, <1>5, <1>6, <1>7, Stutters DEF Next

\* The inductive invariant holds in every reachable state, with however many
\* callers, pauses and failures.
THEOREM DoorInvariant == Spec => []DoorInv
BY DoorInit, DoorStep, PTL DEF Spec

\* Every variable keeps its type.
THEOREM DoorTypeCorrect == Spec => []TypeOK
<1>1. DoorInv => TypeOK
  BY DEF DoorInv
<1>2. QED
  BY <1>1, DoorInvariant, PTL

\* admit leaves record and projection equal whenever it gives back l.mu with
\* the ledger not frozen.
THEOREM StaysTogether == Spec => []Together
<1>1. DoorInv => Together
  <2> SUFFICES ASSUME DoorInv, up = "live", lock = Nobody, ~lfrozen PROVE mirror = log
    BY DEF Together
  <2>1. \A r \in Requests : pc[r] \notin Landing
    BY Callers, Zenon DEF DoorInv, LockHeld, Holding, Landing
  <2>2. QED
    BY <2>1 DEF DoorInv, Even
<1>2. QED
  BY <1>1, DoorInvariant, PTL

\* What Append, appendHead and their errors told a caller stays true across
\* errors, crashes, power losses and restarts.
THEOREM AnswersStayTrue == Spec => []AnswersTrue
<1>1. DoorInv => AnswersTrue
  BY DEF DoorInv
<1>2. QED
  BY <1>1, DoorInvariant, PTL

\* The program never writes an event its own replay refuses.
THEOREM AlwaysReplays == Spec => []RecordReplays
<1>1. DoorInv => RecordReplays
  BY DEF DoorInv
<1>2. QED
  BY <1>1, DoorInvariant, PTL

\* A capture finds the projection at the boundary it copied.
THEOREM CapturesAtBoundary == Spec => []CaptureAtBoundary
<1>1. DoorInv => CaptureAtBoundary
  BY DEF DoorInv
<1>2. QED
  BY <1>1, DoorInvariant, PTL
=============================================================================
