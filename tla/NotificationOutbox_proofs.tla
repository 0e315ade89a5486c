----------------------- MODULE NotificationOutbox_proofs -----------------------
(***************************************************************************)
(* Theorems about NotificationOutbox, for any number of processes and      *)
(* rows.  The inductive invariant says what a claim protects: while a      *)
(* process holds a row, the row stays as the claim left it, and what any   *)
(* other process has read of it is older than the claim.                   *)
(***************************************************************************)
EXTENDS NotificationOutbox, TLAPS

\* The row of a holder is as its claim wrote it.
HeldAsClaimed ==
  \A p \in Processes, r \in Rows :
    Holds(p, r) => /\ batch[p][r] # NotRead
                   /\ row[r].status = "PENDING"
                   /\ row[r].attempts = batch[p][r] + 1
                   /\ ~row[r].due

\* What a process read is never ahead of the row, and is behind it while
\* another process holds the row.
ReadsAreOld ==
  \A p \in Processes, r \in Rows :
    /\ batch[p][r] <= row[r].attempts
    /\ \A q \in Processes : q # p /\ Holds(q, r) => batch[p][r] < row[r].attempts

\* Only handed-over messages are about to be marked SENT.
AcceptedWasHanded ==
  \A p \in Processes, r \in Rows : phase[p][r] = "accepted" => handed[r] > 0

\* Attempts are within their bound, strictly when the next claim may come.
AttemptsWithinBound ==
  \A r \in Rows :
    /\ row[r].status = "ABSENT" => row[r].attempts = 0
    /\ row[r].attempts <= MaxAttempts + crashes
    /\ row[r].status = "PENDING" /\ (\A p \in Processes : ~Holds(p, r))
         => row[r].attempts < MaxAttempts + crashes

IInv ==
  /\ TypeOK
  /\ NoOverlappingDelivery
  /\ HeldAsClaimed
  /\ ReadsAreOld
  /\ AcceptedWasHanded
  /\ AttemptsWithinBound

----------------------------------------------------------------------------
\* A loop's row operations, its ticks, its crashes and the passing of time keep
\* every row and every loop in a state the code can write.
THEOREM OutboxTypeOK == Spec => []TypeOK
<1>1. Init => TypeOK
  BY DEF Init, TypeOK, OutboxRows, NotRead, Phases
<1>2. TypeOK /\ [Next]_vars => TypeOK'
  <2> SUFFICES ASSUME TypeOK, [Next]_vars PROVE TypeOK'
    OBVIOUS
  <2> USE DEF TypeOK
  <2>1. ASSUME NEW r \in Rows, Enqueue(r) PROVE TypeOK'
    BY <2>1 DEF Enqueue, OutboxRows
  <2>2. ASSUME NEW r \in Rows, NextAttemptComes(r) PROVE TypeOK'
    BY <2>2 DEF NextAttemptComes, OutboxRows
  <2>3. ASSUME NEW p \in Processes, ReadBatch(p) PROVE TypeOK'
    <3>1. \A r \in Rows : row[r].attempts \in Nat
      BY DEF OutboxRows
    <3> QED
      BY <2>3, <3>1 DEF ReadBatch
  <2>4. ASSUME NEW p \in Processes, Crash(p) PROVE TypeOK'
    BY <2>4 DEF Crash, Phases
  <2>5. ASSUME NEW p \in Processes, NEW r \in Rows, ClaimOutboxRow(p, r)
        PROVE  TypeOK'
    <3>1. batch[p][r] + 1 \in Nat
      BY <2>5 DEF ClaimOutboxRow, NotRead
    <3>2. row' \in [Rows -> OutboxRows]
      BY <2>5, <3>1 DEF ClaimOutboxRow, OutboxRows
    <3>3. phase' \in [Processes -> [Rows -> Phases]]
      BY <2>5 DEF ClaimOutboxRow, Phases
    <3> QED
      BY <2>5, <3>2, <3>3 DEF ClaimOutboxRow
  <2>6. ASSUME NEW p \in Processes, NEW r \in Rows, SkipRow(p, r) PROVE TypeOK'
    BY <2>6 DEF SkipRow
  <2>7. ASSUME NEW p \in Processes, NEW r \in Rows, DeliverOutboxRow(p, r)
        PROVE  TypeOK'
    <3>1. PICK end \in {"accepted", "rejected"} : phase' = [phase EXCEPT ![p][r] = end]
      BY <2>7 DEF DeliverOutboxRow
    <3>3. phase' \in [Processes -> [Rows -> Phases]]
      BY <3>1 DEF Phases
    <3>2. handed' \in [Rows -> Nat]
      BY <2>7 DEF DeliverOutboxRow
    <3> QED
      BY <2>7, <3>2, <3>3 DEF DeliverOutboxRow
  <2>8. ASSUME NEW p \in Processes, NEW r \in Rows,
               MarkOutboxSent(p, r) \/ MarkOutboxFailure(p, r)
        PROVE  TypeOK'
    <3>1. batch[p][r] + 1 \in Nat
      BY DEF NotRead
    <3>2. row' \in [Rows -> OutboxRows]
      <4>1. CASE MarkOutboxSent(p, r)
        BY <3>1, <4>1 DEF MarkOutboxSent, OutboxRows
      <4>2. CASE MarkOutboxFailure(p, r)
        <5> PICK s \in {"DEAD", "PENDING"} :
               row' = [row EXCEPT ![r] = [status |-> s, attempts |-> batch[p][r] + 1,
                                          due |-> FALSE]]
          BY <4>2 DEF MarkOutboxFailure
        <5> QED
          BY <3>1 DEF OutboxRows
      <4> QED
        BY <2>8, <4>1, <4>2
    <3>3. Done(p, r)
      BY <2>8 DEF MarkOutboxSent, MarkOutboxFailure
    <3>4. phase' \in [Processes -> [Rows -> Phases]]
      BY <3>3 DEF Done, Phases
    <3>5. batch' \in [Processes -> [Rows -> Nat \cup {NotRead}]]
      BY <3>3 DEF Done
    <3> QED
      BY <2>8, <3>2, <3>4, <3>5 DEF MarkOutboxSent, MarkOutboxFailure
  <2>9. ASSUME NEW p \in Processes, NEW r \in Rows, MarkSentFails(p, r) PROVE TypeOK'
    BY <2>9 DEF MarkSentFails, Phases
  <2>10. CASE UNCHANGED vars
    BY <2>10 DEF vars
  <2> QED
    BY <2>1, <2>2, <2>3, <2>4, <2>5, <2>6, <2>7, <2>8, <2>9, <2>10
       DEF Next, ProcessStep, RowStep
<1> QED
  BY <1>1, <1>2, PTL DEF Spec

----------------------------------------------------------------------------
\* Updating one cell of a table of two dimensions leaves the others alone.
LEMMA CellUpdate ==
  ASSUME NEW S, NEW T, NEW V, NEW f \in [S -> [T -> V]], NEW s \in S, NEW t \in T, NEW v
  PROVE  \A x \in S, y \in T :
           [f EXCEPT ![s][t] = v][x][y] = IF x = s /\ y = t THEN v ELSE f[x][y]
  OBVIOUS

\* The invariant holds at the start: nothing is read, held or tried.
LEMMA InitIInv == Init => IInv
<1> SUFFICES ASSUME Init PROVE IInv
  OBVIOUS
<1>1. TypeOK
  BY DEF Init, TypeOK, OutboxRows, NotRead, Phases
<1>2. NoOverlappingDelivery /\ HeldAsClaimed /\ ReadsAreOld /\ AcceptedWasHanded
  BY DEF Init, NoOverlappingDelivery, HeldAsClaimed, ReadsAreOld, AcceptedWasHanded, Holds, NotRead
<1>3. AttemptsWithinBound
  BY MaxAttemptsAssumption DEF Init, AttemptsWithinBound
<1> QED
  BY <1>1, <1>2, <1>3 DEF IInv

\* Claiming a row: it was as p read it, so nobody held it.
LEMMA ClaimKeepsIInv ==
  ASSUME IInv, TypeOK', NEW p \in Processes, NEW r \in Rows, ClaimOutboxRow(p, r)
  PROVE  IInv'
<1> USE DEF IInv
<1>1. /\ \A s \in Rows : s # r => row'[s] = row[s]
      /\ row'[r].status = "PENDING"
      /\ row'[r].attempts = row[r].attempts + 1
      /\ ~row'[r].due
      /\ row[r].status = "PENDING"
      /\ batch[p][r] = row[r].attempts
      /\ UNCHANGED <<batch, handed, crashes>>
  BY DEF ClaimOutboxRow, Claimable, TypeOK, OutboxRows
<1>2. \A q \in Processes, s \in Rows :
        phase'[q][s] = IF q = p /\ s = r THEN "claimed" ELSE phase[q][s]
  BY CellUpdate DEF ClaimOutboxRow, TypeOK
<1>4. row[r].attempts \in Nat /\ crashes \in Nat
  BY DEF TypeOK, OutboxRows
<1>3. \A q \in Processes : ~Holds(q, r)
  <2>1. ~Holds(p, r)
    BY DEF ClaimOutboxRow, Busy
  <2>2. ASSUME NEW q \in Processes, q # p, Holds(q, r) PROVE FALSE
    BY <1>1, <1>4, <2>2 DEF ReadsAreOld
  <2> QED
    BY <2>1, <2>2
<1>5. HeldAsClaimed'
  <2> SUFFICES ASSUME NEW q \in Processes, NEW s \in Rows, Holds(q, s)'
               PROVE  /\ batch'[q][s] # NotRead
                      /\ row'[s].status = "PENDING"
                      /\ row'[s].attempts = batch'[q][s] + 1
                      /\ ~row'[s].due
    BY DEF HeldAsClaimed
  <2>1. CASE s = r
    <3>1. q = p
      BY <1>2, <1>3, <2>1 DEF Holds
    <3> QED
      BY <1>1, <1>4, <2>1, <3>1 DEF NotRead
  <2>2. CASE s # r
    <3>1. Holds(q, s)
      BY <1>2, <2>2 DEF Holds
    <3> QED
      BY <1>1, <2>2, <3>1 DEF HeldAsClaimed
  <2> QED
    BY <2>1, <2>2
<1>6. ReadsAreOld'
  <2> SUFFICES ASSUME NEW q \in Processes, NEW s \in Rows
               PROVE  /\ batch'[q][s] <= row'[s].attempts
                      /\ \A o \in Processes : o # q /\ Holds(o, s)'
                           => batch'[q][s] < row'[s].attempts
    BY DEF ReadsAreOld
  <2>1. batch[q][s] \in Int /\ row[s].attempts \in Nat
    BY DEF TypeOK, OutboxRows, NotRead
  <2>2. CASE s = r
    BY <1>1, <2>1, <2>2 DEF ReadsAreOld
  <2>3. CASE s # r
    BY <1>1, <1>2, <2>3 DEF ReadsAreOld, Holds
  <2> QED
    BY <2>2, <2>3
<1>7. AcceptedWasHanded'
  BY <1>1, <1>2 DEF AcceptedWasHanded
<1>8. AttemptsWithinBound'
  BY <1>1, <1>2, <1>3, <1>4, MaxAttemptsAssumption DEF AttemptsWithinBound, Holds
<1>9. NoOverlappingDelivery'
  BY <1>2, <1>3 DEF NoOverlappingDelivery, Holds
<1> QED
  BY <1>5, <1>6, <1>7, <1>8, <1>9
\* Writing what became of a held row: nobody else holds it, and the attempts
\* written are those the claim has already counted.
LEMMA MarkKeepsIInv ==
  ASSUME IInv, TypeOK', NEW p \in Processes, NEW r \in Rows,
         MarkOutboxSent(p, r) \/ MarkOutboxFailure(p, r)
  PROVE  IInv'
<1> USE DEF IInv
<1>1. Holds(p, r) /\ Done(p, r) /\ UNCHANGED <<handed, crashes>>
  BY DEF MarkOutboxSent, MarkOutboxFailure, Holds
<1>2. /\ \A s \in Rows : s # r => row'[s] = row[s]
      /\ row'[r].attempts = row[r].attempts
      /\ row'[r].status # "ABSENT"
      /\ row'[r].status = "PENDING" => row'[r].attempts < MaxAttempts
  <2>0. row[r].attempts = batch[p][r] + 1 /\ row[r].attempts \in Nat
    BY <1>1 DEF HeldAsClaimed, TypeOK, OutboxRows
  <2>1. CASE MarkOutboxSent(p, r)
    BY <2>0, <2>1 DEF MarkOutboxSent, TypeOK, OutboxRows
  <2>2. CASE MarkOutboxFailure(p, r)
    BY <2>0, <2>2, MaxAttemptsAssumption DEF MarkOutboxFailure, TypeOK
  <2> QED
    BY <2>1, <2>2
<1>3. \A q \in Processes, s \in Rows :
        /\ phase'[q][s] = IF q = p /\ s = r THEN "waiting" ELSE phase[q][s]
        /\ batch'[q][s] = IF q = p /\ s = r THEN NotRead ELSE batch[q][s]
  BY <1>1, CellUpdate DEF Done, TypeOK
<1>4. \A q \in Processes : ~Holds(q, r)'
  BY <1>1, <1>3 DEF NoOverlappingDelivery, Holds
<1>5. \A q \in Processes, s \in Rows : Holds(q, s)' => Holds(q, s) /\ s # r
  BY <1>3, <1>4 DEF Holds
<1>6. NoOverlappingDelivery'
  BY <1>5 DEF NoOverlappingDelivery
<1>7. HeldAsClaimed'
  BY <1>2, <1>3, <1>5 DEF HeldAsClaimed
<1>8. ReadsAreOld'
  <2> SUFFICES ASSUME NEW q \in Processes, NEW s \in Rows
               PROVE  /\ batch'[q][s] <= row'[s].attempts
                      /\ \A o \in Processes : o # q /\ Holds(o, s)'
                           => batch'[q][s] < row'[s].attempts
    BY DEF ReadsAreOld
  <2>1. row'[s].attempts = row[s].attempts /\ row[s].attempts \in Nat
    BY <1>2 DEF TypeOK, OutboxRows
  <2>2. CASE q = p /\ s = r
    BY <1>3, <2>1, <2>2 DEF NotRead
  <2>3. CASE ~(q = p /\ s = r)
    BY <1>3, <1>5, <2>1, <2>3 DEF ReadsAreOld
  <2> QED
    BY <2>2, <2>3
<1>9. AcceptedWasHanded'
  BY <1>1, <1>3 DEF AcceptedWasHanded
<1>10. AttemptsWithinBound'
  <2> SUFFICES ASSUME NEW s \in Rows
               PROVE  /\ row'[s].status = "ABSENT" => row'[s].attempts = 0
                      /\ row'[s].attempts <= MaxAttempts + crashes'
                      /\ row'[s].status = "PENDING" /\ (\A q \in Processes : ~Holds(q, s)')
                           => row'[s].attempts < MaxAttempts + crashes'
    BY DEF AttemptsWithinBound
  <2>1. crashes' = crashes /\ crashes \in Nat /\ row[s].attempts \in Nat
    BY <1>1 DEF TypeOK, OutboxRows
  <2>2. CASE s = r
    BY <1>2, <2>1, <2>2, MaxAttemptsAssumption DEF AttemptsWithinBound
  <2>3. CASE s # r
    BY <1>2, <1>3, <2>1, <2>3 DEF AttemptsWithinBound, Holds
  <2> QED
    BY <2>2, <2>3
<1> QED
  BY <1>6, <1>7, <1>8, <1>9, <1>10
\* The steps that change one row and no loop: a new row, or time passing over a
\* row that nobody holds.
LEMMA RowKeepsIInv ==
  ASSUME LeaseOutlasts, IInv, TypeOK', NEW r \in Rows, Enqueue(r) \/ NextAttemptComes(r)
  PROVE  IInv'
<1> USE DEF IInv
<1>1. /\ \A s \in Rows : s # r => row'[s] = row[s]
      /\ row'[r].attempts = row[r].attempts
      /\ row'[r].status = "PENDING"
      /\ row[r].status \in {"ABSENT", "PENDING"}
      /\ UNCHANGED <<batch, phase, handed, crashes>>
  <2>1. CASE Enqueue(r)
    BY <2>1 DEF Enqueue, AttemptsWithinBound, TypeOK
  <2>2. CASE NextAttemptComes(r)
    BY <2>2 DEF NextAttemptComes, TypeOK, OutboxRows
  <2> QED
    BY <2>1, <2>2
<1>2. \A q \in Processes : ~Holds(q, r)
  BY LeaseOutlasts DEF Enqueue, NextAttemptComes, HeldAsClaimed
<1>3. \A q \in Processes, s \in Rows : Holds(q, s)' = Holds(q, s)
  BY <1>1 DEF Holds
<1>4. NoOverlappingDelivery'
  BY <1>3 DEF NoOverlappingDelivery
<1>5. HeldAsClaimed'
  BY <1>1, <1>2, <1>3 DEF HeldAsClaimed
<1>6. ReadsAreOld'
  BY <1>1, <1>3 DEF ReadsAreOld
<1>7. AcceptedWasHanded'
  BY <1>1 DEF AcceptedWasHanded
<1>8. AttemptsWithinBound'
  <2>1. row[r].status = "ABSENT" => row[r].attempts < MaxAttempts + crashes
    BY MaxAttemptsAssumption DEF AttemptsWithinBound, TypeOK
  <2> QED
    BY <1>1, <1>2, <1>3, <2>1 DEF AttemptsWithinBound
<1> QED
  BY <1>4, <1>5, <1>6, <1>7, <1>8

\* A tick reads rows that are due, which are rows nobody holds.
LEMMA ReadKeepsIInv ==
  ASSUME IInv, TypeOK', NEW p \in Processes, ReadBatch(p)
  PROVE  IInv'
<1> USE DEF IInv
<1>1. UNCHANGED <<row, phase, handed, crashes>>
  BY DEF ReadBatch
<1>2. \A q \in Processes, s \in Rows : Holds(q, s)' = Holds(q, s)
  BY <1>1 DEF Holds
<1>3. \A s \in Rows : ~Holds(p, s)
  BY DEF ReadBatch, HeldAsClaimed
<1>4. \A q \in Processes, s \in Rows : q # p => batch'[q][s] = batch[q][s]
  BY DEF ReadBatch, TypeOK
<1>5. \A s \in Rows : \/ batch'[p][s] = NotRead
                      \/ batch'[p][s] = row[s].attempts /\ row[s].due
  BY DEF ReadBatch, DueRows, TypeOK
<1>6. NoOverlappingDelivery'
  BY <1>2 DEF NoOverlappingDelivery
<1>7. HeldAsClaimed'
  BY <1>1, <1>2, <1>3, <1>4 DEF HeldAsClaimed
<1>8. ReadsAreOld'
  <2> SUFFICES ASSUME NEW q \in Processes, NEW s \in Rows
               PROVE  /\ batch'[q][s] <= row'[s].attempts
                      /\ \A o \in Processes : o # q /\ Holds(o, s)'
                           => batch'[q][s] < row'[s].attempts
    BY DEF ReadsAreOld
  <2>1. row[s].attempts \in Nat
    BY DEF TypeOK, OutboxRows
  <2>2. CASE q # p
    BY <1>1, <1>2, <1>4, <2>2 DEF ReadsAreOld
  <2>3. CASE q = p /\ batch'[q][s] = NotRead
    BY <1>1, <2>1, <2>3 DEF NotRead
  <2>4. CASE q = p /\ batch'[q][s] = row[s].attempts /\ row[s].due
    BY <1>1, <1>2, <2>1, <2>4 DEF HeldAsClaimed
  <2> QED
    BY <1>5, <2>2, <2>3, <2>4
<1>9. AcceptedWasHanded' /\ AttemptsWithinBound'
  BY <1>1, <1>2 DEF AcceptedWasHanded, AttemptsWithinBound
<1> QED
  BY <1>6, <1>7, <1>8, <1>9

\* The steps after which a process holds no more, and has read no more, than
\* before: skipping a row, delivering one, a failed write, a crash.
LEMMA LettingGoKeepsIInv ==
  ASSUME IInv, TypeOK', UNCHANGED row,
         \A q \in Processes, s \in Rows : Holds(q, s)' => Holds(q, s),
         \A q \in Processes, s \in Rows :
           batch'[q][s] = batch[q][s] \/ (batch'[q][s] = NotRead /\ ~Holds(q, s)'),
         AcceptedWasHanded',
         crashes' \in Nat,
         \/ /\ UNCHANGED crashes
            /\ \A q \in Processes, s \in Rows : Holds(q, s)' = Holds(q, s)
         \/ crashes' = crashes + 1
  PROVE  IInv'
<1> USE DEF IInv
<1>1. NoOverlappingDelivery'
  BY DEF NoOverlappingDelivery
<1>2. HeldAsClaimed'
  BY DEF HeldAsClaimed
<1>3. ReadsAreOld'
  <2> SUFFICES ASSUME NEW q \in Processes, NEW s \in Rows
               PROVE  /\ batch'[q][s] <= row'[s].attempts
                      /\ \A o \in Processes : o # q /\ Holds(o, s)'
                           => batch'[q][s] < row'[s].attempts
    BY DEF ReadsAreOld
  <2>1. row[s].attempts \in Nat
    BY DEF TypeOK, OutboxRows
  <2>2. CASE batch'[q][s] = NotRead
    BY <2>1, <2>2 DEF NotRead
  <2>3. CASE batch'[q][s] = batch[q][s]
    BY <2>3 DEF ReadsAreOld
  <2> QED
    BY <2>2, <2>3
<1>4. AttemptsWithinBound'
  <2> SUFFICES ASSUME NEW s \in Rows
               PROVE  /\ row'[s].status = "ABSENT" => row'[s].attempts = 0
                      /\ row'[s].attempts <= MaxAttempts + crashes'
                      /\ row'[s].status = "PENDING" /\ (\A q \in Processes : ~Holds(q, s)')
                           => row'[s].attempts < MaxAttempts + crashes'
    BY DEF AttemptsWithinBound
  <2>1. row[s].attempts \in Nat /\ crashes \in Nat
    BY DEF TypeOK, OutboxRows
  <2> QED
    BY <2>1, MaxAttemptsAssumption DEF AttemptsWithinBound
<1> QED
  BY <1>1, <1>2, <1>3, <1>4
LEMMA NextKeepsIInv == ASSUME LeaseOutlasts, IInv, TypeOK', [Next]_vars PROVE IInv'
<1>1. ASSUME NEW r \in Rows, Enqueue(r) \/ NextAttemptComes(r) PROVE IInv'
  BY <1>1, RowKeepsIInv
<1>2. ASSUME NEW p \in Processes, ReadBatch(p) PROVE IInv'
  BY <1>2, ReadKeepsIInv
<1>3. ASSUME NEW p \in Processes, Crash(p) PROVE IInv'
  <2>1. UNCHANGED <<row, handed>> /\ crashes' = crashes + 1 /\ crashes' \in Nat
    BY <1>3 DEF Crash, IInv, TypeOK
  <2>2. \A q \in Processes, s \in Rows :
          /\ phase'[q][s] = IF q = p THEN "waiting" ELSE phase[q][s]
          /\ batch'[q][s] = IF q = p THEN NotRead ELSE batch[q][s]
    BY <1>3 DEF Crash, IInv, TypeOK
  <2>3. \A q \in Processes, s \in Rows :
          /\ Holds(q, s)' => Holds(q, s)
          /\ batch'[q][s] = batch[q][s] \/ (batch'[q][s] = NotRead /\ ~Holds(q, s)')
    BY <2>2 DEF Holds
  <2>4. AcceptedWasHanded'
    BY <2>1, <2>2 DEF AcceptedWasHanded, IInv
  <2> QED
    BY <2>1, <2>3, <2>4, LettingGoKeepsIInv
<1>4. ASSUME NEW p \in Processes, NEW r \in Rows, ClaimOutboxRow(p, r) PROVE IInv'
  BY <1>4, ClaimKeepsIInv
<1>5. ASSUME NEW p \in Processes, NEW r \in Rows,
             MarkOutboxSent(p, r) \/ MarkOutboxFailure(p, r)
      PROVE  IInv'
  BY <1>5, MarkKeepsIInv
<1>6. ASSUME NEW p \in Processes, NEW r \in Rows, SkipRow(p, r) PROVE IInv'
  <2>1. UNCHANGED <<row, phase, handed, crashes>> /\ ~Holds(p, r)
    BY <1>6 DEF SkipRow, Busy
  <2>2. \A q \in Processes, s \in Rows :
          batch'[q][s] = IF q = p /\ s = r THEN NotRead ELSE batch[q][s]
    BY <1>6, CellUpdate DEF SkipRow, IInv, TypeOK
  <2>3. \A q \in Processes, s \in Rows :
          /\ Holds(q, s)' = Holds(q, s)
          /\ batch'[q][s] = batch[q][s] \/ (batch'[q][s] = NotRead /\ ~Holds(q, s)')
    BY <2>1, <2>2 DEF Holds
  <2>4. AcceptedWasHanded' /\ crashes' \in Nat
    BY <2>1 DEF AcceptedWasHanded, IInv, TypeOK
  <2> QED
    BY <2>1, <2>3, <2>4, LettingGoKeepsIInv
<1>7. ASSUME NEW p \in Processes, NEW r \in Rows,
             DeliverOutboxRow(p, r) \/ MarkSentFails(p, r)
      PROVE  IInv'
  <2>1. UNCHANGED <<row, batch, crashes>> /\ crashes' \in Nat
    BY <1>7 DEF DeliverOutboxRow, MarkSentFails, IInv, TypeOK
  <2>2. PICK end \in {"accepted", "rejected"} :
          /\ phase' = [phase EXCEPT ![p][r] = end]
          /\ handed' = [handed EXCEPT ![r] = @ + 1] \/ UNCHANGED handed
          /\ end = "accepted" => handed' = [handed EXCEPT ![r] = @ + 1]
    BY <1>7 DEF DeliverOutboxRow, MarkSentFails
  <2>3. \A q \in Processes, s \in Rows :
          phase'[q][s] = IF q = p /\ s = r THEN end ELSE phase[q][s]
    BY <2>2, CellUpdate DEF IInv, TypeOK
  <2>4. Holds(p, r)
    BY <1>7 DEF DeliverOutboxRow, MarkSentFails, Holds
  <2>5. \A q \in Processes, s \in Rows : Holds(q, s)' = Holds(q, s)
    BY <2>3, <2>4 DEF Holds
  <2>6. /\ \A s \in Rows : handed[s] \in Nat /\ handed'[s] >= handed[s]
        /\ end = "accepted" => handed'[r] > 0
    <3>1. handed \in [Rows -> Nat]
      BY DEF IInv, TypeOK
    <3> QED
      BY <2>2, <3>1
  <2>7. AcceptedWasHanded'
    <3> SUFFICES ASSUME NEW q \in Processes, NEW s \in Rows, phase'[q][s] = "accepted"
                 PROVE  handed'[s] > 0
      BY DEF AcceptedWasHanded
    <3>1. CASE q = p /\ s = r
      BY <2>3, <2>6, <3>1
    <3>2. CASE ~(q = p /\ s = r)
      <4>1. handed[s] > 0
        BY <2>3, <3>2 DEF AcceptedWasHanded, IInv
      <4>2. handed'[s] \in Nat
        BY <2>2 DEF IInv, TypeOK
      <4> QED
        BY <2>6, <4>1, <4>2
    <3> QED
      BY <3>1, <3>2
  <2> QED
    BY <2>1, <2>5, <2>7, LettingGoKeepsIInv
<1>8. CASE UNCHANGED vars
  BY <1>8 DEF vars, IInv, NoOverlappingDelivery, HeldAsClaimed, ReadsAreOld,
              AcceptedWasHanded, AttemptsWithinBound, Holds
<1> QED
  BY <1>1, <1>2, <1>3, <1>4, <1>5, <1>6, <1>7, <1>8 DEF Next, ProcessStep, RowStep
----------------------------------------------------------------------------
\* While no loop outlasts its lease, the compare-and-swap claim keeps a row in
\* the hands of one process at a time.
THEOREM OutboxNoOverlap == ASSUME LeaseOutlasts PROVE Spec => []NoOverlappingDelivery
<1>1. IInv /\ TypeOK' /\ [Next]_vars => IInv'
  BY NextKeepsIInv
<1>2. IInv => NoOverlappingDelivery
  BY DEF IInv
<1> QED
  BY <1>1, <1>2, InitIInv, OutboxTypeOK, PTL DEF Spec

\* While no loop outlasts its lease, attempts beyond MaxAttempts are owed to
\* crashes.
THEOREM OutboxRetriesBounded == ASSUME LeaseOutlasts PROVE Spec => []RetriesAreBounded
<1>1. IInv /\ TypeOK' /\ [Next]_vars => IInv'
  BY NextKeepsIInv
<1>2. IInv => RetriesAreBounded
  BY DEF IInv, AttemptsWithinBound, RetriesAreBounded
<1> QED
  BY <1>1, <1>2, InitIInv, OutboxTypeOK, PTL DEF Spec

\* The unconditional writes of markOutboxSent and markOutboxFailure undo nothing,
\* because the row they write is still as its claim left it.
THEOREM OutboxRowOnlyAdvances == ASSUME LeaseOutlasts PROVE Spec => RowOnlyAdvances
<1> DEFINE Advances ==
      \A r \in Rows :
        /\ row[r].status \in {"SENT", "DEAD"} => row'[r].status = row[r].status
        /\ row'[r].attempts >= row[r].attempts
<1>1. IInv /\ TypeOK' /\ [Next]_vars => IInv'
  BY NextKeepsIInv
<1>2. IInv /\ [Next]_vars => Advances
  <2> SUFFICES ASSUME IInv, [Next]_vars PROVE Advances
    OBVIOUS
  <2>0. \A s \in Rows : row[s].attempts \in Nat
    BY DEF IInv, TypeOK, OutboxRows
  <2>1. ASSUME UNCHANGED row PROVE Advances
    BY <2>0, <2>1
  <2>2. ASSUME NEW r \in Rows, \A s \in Rows : s # r => row'[s] = row[s],
               row[r].status \in {"ABSENT", "PENDING"},
               row'[r].attempts >= row[r].attempts
        PROVE  Advances
    BY <2>0, <2>2
  <2>3. ASSUME NEW r \in Rows, Enqueue(r) \/ NextAttemptComes(r) PROVE Advances
    <3>1. CASE Enqueue(r)
      BY <2>2, <3>1 DEF Enqueue, IInv, TypeOK, AttemptsWithinBound
    <3>2. CASE NextAttemptComes(r)
      BY <2>0, <2>2, <3>2 DEF NextAttemptComes, IInv, TypeOK, OutboxRows
    <3> QED
      BY <2>3, <3>1, <3>2
  <2>4. ASSUME NEW p \in Processes, NEW r \in Rows, ClaimOutboxRow(p, r) PROVE Advances
    <3>1. row'[r].attempts = row[r].attempts + 1 /\ row[r].status = "PENDING"
      BY <2>4 DEF ClaimOutboxRow, Claimable, IInv, TypeOK, OutboxRows
    <3> QED
      BY <2>0, <2>2, <2>4, <3>1 DEF ClaimOutboxRow, IInv, TypeOK
  <2>5. ASSUME NEW p \in Processes, NEW r \in Rows,
               MarkOutboxSent(p, r) \/ MarkOutboxFailure(p, r)
        PROVE  Advances
    <3>1. row[r].attempts = batch[p][r] + 1 /\ row[r].status = "PENDING"
      BY <2>5 DEF MarkOutboxSent, MarkOutboxFailure, IInv, HeldAsClaimed, Holds
    <3>2. row'[r].attempts = row[r].attempts /\ \A s \in Rows : s # r => row'[s] = row[s]
      <4>1. CASE MarkOutboxSent(p, r)
        BY <3>1, <4>1 DEF MarkOutboxSent, IInv, TypeOK, OutboxRows
      <4>2. CASE MarkOutboxFailure(p, r)
        BY <3>1, <4>2 DEF MarkOutboxFailure, IInv, TypeOK
      <4> QED
        BY <2>5, <4>1, <4>2
    <3> QED
      BY <2>0, <2>2, <3>1, <3>2
  <2>6. ASSUME NEW p \in Processes, ReadBatch(p) \/ Crash(p) PROVE Advances
    BY <2>1, <2>6 DEF ReadBatch, Crash
  <2>7. ASSUME NEW p \in Processes, NEW r \in Rows,
               SkipRow(p, r) \/ DeliverOutboxRow(p, r) \/ MarkSentFails(p, r)
        PROVE  Advances
    BY <2>1, <2>7 DEF SkipRow, DeliverOutboxRow, MarkSentFails
  <2>8. CASE UNCHANGED vars
    BY <2>1, <2>8 DEF vars
  <2> QED
    BY <2>3, <2>4, <2>5, <2>6, <2>7, <2>8 DEF Next, ProcessStep, RowStep
<1>3. IInv /\ [Next]_vars => [Advances]_vars
  BY <1>2
<1> QED
  BY <1>1, <1>3, InitIInv, OutboxTypeOK, PTL DEF Spec, RowOnlyAdvances
\* The loops implement OutboxDelivery: a row is concluded once, as SENT only if
\* it was handed over, and not handed over again after that.
THEOREM OutboxImplementsDelivery == ASSUME LeaseOutlasts PROVE Spec => DeliverySpec
<1>1. Init => Delivery!Init
  BY DEF Init, Delivery!Init
<1>2. IInv /\ TypeOK' /\ [Next]_vars => IInv'
  BY NextKeepsIInv
<1>3. IInv /\ [Next]_vars => [Delivery!Next]_(Delivery!vars)
  <2> SUFFICES ASSUME IInv, [Next]_vars PROVE [Delivery!Next]_(Delivery!vars)
    OBVIOUS
  <2> DEFINE outcome == [s \in Rows |-> row[s].status]
  <2> USE DEF Delivery!vars
  <2>1. ASSUME NEW r \in Rows, Enqueue(r) PROVE Delivery!Queue(r)
    <3>1. outcome[r] = "ABSENT" /\ UNCHANGED handed
      BY <2>1 DEF Enqueue
    <3>2. outcome' = [outcome EXCEPT ![r] = "PENDING"]
      BY <2>1 DEF Enqueue, IInv, TypeOK
    <3> QED
      BY <3>1, <3>2 DEF Delivery!Queue
  <2>2. ASSUME \A s \in Rows : row'[s].status = row[s].status, UNCHANGED handed
        PROVE  UNCHANGED Delivery!vars
    BY <2>2
  <2>3. ASSUME NEW r \in Rows, NextAttemptComes(r) PROVE UNCHANGED Delivery!vars
    BY <2>2, <2>3 DEF NextAttemptComes, IInv, TypeOK, OutboxRows
  <2>4. ASSUME NEW p \in Processes, ReadBatch(p) \/ Crash(p)
        PROVE  UNCHANGED Delivery!vars
    BY <2>2, <2>4 DEF ReadBatch, Crash
  <2>5. ASSUME NEW p \in Processes, NEW r \in Rows,
               ClaimOutboxRow(p, r) \/ SkipRow(p, r) \/ MarkSentFails(p, r)
        PROVE  UNCHANGED Delivery!vars
    <3>1. CASE ClaimOutboxRow(p, r)
      BY <2>2, <3>1 DEF ClaimOutboxRow, IInv, TypeOK, OutboxRows
    <3>2. CASE SkipRow(p, r) \/ MarkSentFails(p, r)
      BY <2>2, <3>2 DEF SkipRow, MarkSentFails
    <3> QED
      BY <2>5, <3>1, <3>2
  <2>6. ASSUME NEW p \in Processes, NEW r \in Rows, DeliverOutboxRow(p, r)
        PROVE  [Delivery!Next]_(Delivery!vars)
    <3>1. UNCHANGED row /\ (UNCHANGED handed \/ handed' = [handed EXCEPT ![r] = @ + 1])
      BY <2>6 DEF DeliverOutboxRow
    <3>2. outcome[r] = "PENDING" /\ UNCHANGED outcome
      BY <2>6, <3>1 DEF DeliverOutboxRow, IInv, HeldAsClaimed, Holds
    <3>3. CASE UNCHANGED handed
      BY <3>1, <3>3
    <3>4. CASE handed' = [handed EXCEPT ![r] = @ + 1]
      BY <3>2, <3>4 DEF Delivery!Next, Delivery!HandOver
    <3> QED
      BY <3>1, <3>3, <3>4
  <2>7. ASSUME NEW p \in Processes, NEW r \in Rows,
               MarkOutboxSent(p, r) \/ MarkOutboxFailure(p, r)
        PROVE  [Delivery!Next]_(Delivery!vars)
    <3>1. outcome[r] = "PENDING" /\ UNCHANGED handed
      BY <2>7 DEF MarkOutboxSent, MarkOutboxFailure, IInv, HeldAsClaimed, Holds
    <3>2. PICK verdict \in {"SENT", "DEAD", "PENDING"} :
            /\ outcome' = [outcome EXCEPT ![r] = verdict]
            /\ verdict = "SENT" => handed[r] > 0
      <4>1. CASE MarkOutboxSent(p, r)
        <5>1. handed[r] > 0
          BY <4>1 DEF MarkOutboxSent, IInv, AcceptedWasHanded
        <5>2. outcome' = [outcome EXCEPT ![r] = "SENT"]
          BY <4>1 DEF MarkOutboxSent, IInv, TypeOK, OutboxRows
        <5> QED
          BY <5>1, <5>2
      <4>2. CASE MarkOutboxFailure(p, r)
        <5>1. PICK v \in {"DEAD", "PENDING"} :
                row' = [row EXCEPT ![r] = [status |-> v, attempts |-> batch[p][r] + 1,
                                           due |-> FALSE]]
          BY <4>2 DEF MarkOutboxFailure
        <5>2. outcome' = [outcome EXCEPT ![r] = v]
          BY <5>1 DEF IInv, TypeOK
        <5> QED
          BY <5>2
      <4> QED
        BY <2>7, <4>1, <4>2
    <3>3. CASE verdict = "PENDING"
      <4>1. UNCHANGED outcome
        BY <3>1, <3>2, <3>3
      <4> QED
        BY <3>1, <4>1
    <3>4. CASE verdict \in {"SENT", "DEAD"}
      BY <3>1, <3>2, <3>4 DEF Delivery!Next, Delivery!Conclude
    <3> QED
      BY <3>3, <3>4
  <2>8. CASE UNCHANGED vars
    BY <2>8 DEF vars
  <2>9. ASSUME NEW r \in Rows, Delivery!Queue(r) PROVE [Delivery!Next]_(Delivery!vars)
    BY <2>9 DEF Delivery!Next
  <2> HIDE DEF Delivery!vars
  <2> QED
    BY <2>1, <2>3, <2>4, <2>5, <2>6, <2>7, <2>8, <2>9 DEF Next, ProcessStep, RowStep
<1> QED
  BY <1>1, <1>2, <1>3, InitIInv, OutboxTypeOK, PTL DEF Spec, DeliverySpec, Delivery!Spec
==============================================================================
