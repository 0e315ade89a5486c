---------------------- MODULE CustomerObligations_proofs ----------------------
(***************************************************************************)
(* For every number of jobs, requests, rows and batches: an obligation that *)
(* was paid or cancelled stays so, and a request is let through the gate    *)
(* only if each job was seen owing nothing while it passed.                 *)
(***************************************************************************)
EXTENDS CustomerObligations, FiniteSetTheorems, TLAPS

----------------------------------------------------------------------------
(* Types *)

\* The newest row is a row of the job in one of the statuses, if there is one.
LEMMA NewestFound ==
  ASSUME NEW j, NEW S
  PROVE  \/ Newest(j, S) = 0
         \/ Newest(j, S) \in Ids /\ rows[Newest(j, S)].status \in S
  BY DEF Newest

LEMMA RowsWithType ==
  ASSUME rows \in [Ids -> Rows], NEW r \in Ids \cup {0},
         NEW st \in {"PAUSED"} \cup Open \cup ClosedStates
  PROVE  RowsWith(r, st) \in [Ids -> Rows]
  BY DEF RowsWith, Rows

LEMMA NewestInType == ASSUME NEW j, NEW S PROVE Newest(j, S) \in Ids \cup {0}
  BY NewestFound

LEMMA GoesType ==
  ASSUME actor \in [Actors -> ActorStates], NEW a \in Actors, NEW to \in ActorStates, Goes(a, to)
  PROVE  actor' \in [Actors -> ActorStates]
  BY DEF Goes

LEMMA IdleType == Idle \in ActorStates
  BY DEF Idle, ActorStates, Steps

LEMMA ReturnedType ==
  ASSUME actor \in [Actors -> ActorStates], NEW a \in Actors
  PROVE  Returned(a) \in ActorStates
  BY IdleType, ZenonT(30) DEF Returned, ActorStates, Steps

LEMMA WorkersAct == Workers \subseteq Actors /\ Sweep \in Actors
  BY DEF Actors

\* What TypeOK says of everything but the history.
StateOK ==
  /\ jobs \in [Jobs -> JobStates]
  /\ rows \in [Ids -> Rows]
  /\ restricted \in BOOLEAN
  /\ actor \in [Actors -> ActorStates]
  /\ pass \in Passes
  /\ cursor \in Ids \cup {0}
  /\ cases \in 0..MaxCases /\ faults \in 0..MaxFaults

LEMMA SharedType ==
  ASSUME StateOK, NEW a \in Actors, SharedNext(a)
  PROVE  StateOK'
<1> USE DEF StateOK
<1>1. CASE PauseRead(a)
  <2>1. Newest(actor[a].job, Open) \in Ids \cup {0}
    BY NewestInType
  <2> DEFINE r == Newest(actor[a].job, Open)
  <2>2. [actor[a] EXCEPT !.at = IF r = 0 THEN "clear" ELSE "pausing", !.job = NoJob, !.row = r]
          \in ActorStates
    BY <2>1, ZenonT(30) DEF ActorStates, Steps
  <2>3. Goes(a, [actor[a] EXCEPT !.at = IF r = 0 THEN "clear" ELSE "pausing",
                                 !.job = NoJob, !.row = r])
    BY <1>1 DEF PauseRead
  <2> QED
    BY <1>1, <2>2, <2>3, GoesType DEF PauseRead
<1>2. CASE PauseWrite(a)
  <2>1. rows' \in [Ids -> Rows]
    BY <1>2, RowsWithType DEF PauseWrite, ActorStates
  <2>2. [actor[a] EXCEPT !.at = "clear", !.job = NoJob, !.row = 0] \in ActorStates
    BY ZenonT(30) DEF ActorStates, Steps
  <2> QED
    BY <1>2, <2>1, <2>2, GoesType DEF PauseWrite
<1>3. CASE ReadOwed(a)
  <2> DEFINE to == [actor[a] EXCEPT !.at = IF @ = "clear" THEN "clearing" ELSE "owing",
                                    !.left = QualifyingJobs(rows)]
  <2>1. to \in ActorStates
    BY ZenonT(30) DEF ActorStates, Steps, QualifyingJobs
  <2>2. Goes(a, to)
    BY <1>3 DEF ReadOwed
  <2> QED
    BY <1>3, <2>1, <2>2, GoesType DEF ReadOwed
<1>4. ASSUME NEW j \in Jobs, CheckCase(a, j) PROVE StateOK'
  <2>1. [actor[a] EXCEPT !.left = @ \ {j}] \in ActorStates
    BY DEF ActorStates
  <2>2. [Idle EXCEPT !.at = "refused"] \in ActorStates
    BY IdleType DEF ActorStates, Steps
  <2> QED
    BY <1>4, <2>1, <2>2, ReturnedType, GoesType DEF CheckCase
<1>5. CASE Lift(a)
  BY <1>5, ReturnedType, GoesType DEF Lift
<1> QED
  BY <1>1, <1>2, <1>3, <1>4, <1>5 DEF SharedNext

LEMMA RequestType ==
  ASSUME StateOK, NEW w \in Workers, RequestNext(w)
  PROVE  StateOK'
<1> USE DEF StateOK
<1>0. w \in Actors /\ Idle \in ActorStates
  BY WorkersAct, IdleType
<1>1. CASE EnsureRead(w)
  <2>1. [actor[w] EXCEPT !.at = "create"] \in ActorStates
    BY <1>0 DEF ActorStates, Steps
  <2> QED
    BY <1>0, <1>1, <2>1, GoesType DEF EnsureRead
<1>2. CASE EnsureCreate(w)
  <2>1. PICK r \in Ids :
          rows' = [rows EXCEPT ![r] =
            [job |-> actor[w].job, status |-> "DUE", window |-> actor[w].window, phase |-> 0,
             born |-> 1 + Cardinality({q \in Ids : rows[q].job = actor[w].job})]]
    BY <1>2 DEF EnsureCreate
  <2>2. Cardinality({q \in Ids : rows[q].job = actor[w].job}) \in Nat
    <3>1. IsFiniteSet(Ids)
      BY BoundsAssumption, FS_Interval DEF Ids
    <3> QED
      BY <3>1, FS_Subset, FS_CardinalityType
  <2>3. [job |-> actor[w].job, status |-> "DUE", window |-> actor[w].window, phase |-> 0,
         born |-> 1 + Cardinality({q \in Ids : rows[q].job = actor[w].job})] \in Rows
    BY <1>0, <2>2 DEF Rows, Open, ActorStates
  <2>4. rows' \in [Ids -> Rows]
    BY <2>1, <2>3
  <2> QED
    BY <1>0, <1>2, <2>4, GoesType DEF EnsureCreate, Finish
<1>3. CASE Reconciled(w)
  <2>1. [actor[w] EXCEPT !.at = "clear", !.next = "user"] \in ActorStates
    BY <1>0 DEF ActorStates, Steps
  <2> QED
    BY <1>0, <1>3, <2>1, GoesType DEF Reconciled
<1>4. CASE ReadUser(w)
  <2>1. /\ [Idle EXCEPT !.at = "refused"] \in ActorStates
        /\ [actor[w] EXCEPT !.at = "owes"] \in ActorStates
    BY <1>0 DEF ActorStates, Steps
  <2> QED
    BY <1>0, <1>4, <2>1, GoesType DEF ReadUser
<1>5. CASE Allow(w)
  <2>1. [Idle EXCEPT !.at = "allowed"] \in ActorStates
    BY <1>0 DEF ActorStates, Steps
  <2> QED
    BY <1>0, <1>5, <2>1, GoesType DEF Allow
<1>6. CASE Answer(w)
  BY <1>0, <1>6, GoesType DEF Answer, Finish
<1>7. ASSUME NEW j \in Jobs, ReconcileRow(w, j) PROVE StateOK'
  <2>1. /\ [actor[w] EXCEPT !.queue = @ \ {j}, !.job = j, !.at = "pause"] \in ActorStates
        /\ [actor[w] EXCEPT !.queue = @ \ {j}] \in ActorStates
    BY <1>0 DEF ActorStates, Steps
  <2> QED
    BY <1>0, <1>7, <2>1, GoesType DEF ReconcileRow
<1> QED
  BY <1>0, <1>1, <1>2, <1>3, <1>4, <1>5, <1>6, <1>7, SharedType DEF RequestNext

LEMMA StartType ==
  ASSUME StateOK, NEW a \in Actors, NEW to \in ActorStates, Start(a, to)
  PROVE  actor' \in [Actors -> ActorStates]
  BY GoesType DEF StateOK, Start

LEMMA RequestedType ==
  ASSUME StateOK, NEW w \in Workers, Requested(w) \/ StartGate(w)
  PROVE  StateOK'
<1> USE DEF StateOK
<1>0. w \in Actors /\ Idle \in ActorStates
  BY WorkersAct, IdleType
<1>1. ASSUME NEW j \in Jobs, MarkComplete(w, j) PROVE StateOK'
  <2>1. [Idle EXCEPT !.at = "ensure", !.job = j, !.window = j \in Windowed] \in ActorStates
    <3>1. \A b \in BOOLEAN :
            [Idle EXCEPT !.at = "ensure", !.job = j, !.window = b] \in ActorStates
      BY <1>0 DEF ActorStates, Steps
    <3>2. (j \in Windowed) \in BOOLEAN
      OBVIOUS
    <3> QED
      BY <3>1, <3>2, Zenon
  <2>2. jobs' \in [Jobs -> JobStates]
    BY <1>1 DEF MarkComplete, JobStates
  <2> QED
    BY <1>0, <1>1, <2>1, <2>2, StartType DEF MarkComplete
<1>2. ASSUME NEW j \in Jobs, BookPayment(w, j) PROVE StateOK'
  <2>1. [Idle EXCEPT !.at = "clear"] \in ActorStates
    BY <1>0 DEF ActorStates, Steps
  <2>2. jobs' \in [Jobs -> JobStates]
    BY <1>2 DEF BookPayment, JobStates
  <2>3. rows' \in [Ids -> Rows]
    BY <1>2, RowsWithType, NewestInType DEF BookPayment, ClosedStates
  <2> QED
    BY <1>0, <1>2, <2>1, <2>2, <2>3, StartType DEF BookPayment
<1>3. ASSUME NEW j \in Jobs, ReleaseFunds(w, j) PROVE StateOK'
  <2>1. [Idle EXCEPT !.at = "ensure", !.job = j] \in ActorStates
    BY <1>0 DEF ActorStates, Steps
  <2>2. jobs' \in [Jobs -> JobStates]
    BY <1>3 DEF ReleaseFunds, JobStates
  <2> QED
    BY <1>0, <1>3, <2>1, <2>2, StartType DEF ReleaseFunds
<1>4. ASSUME NEW j \in Jobs, ReadJob(w, j) PROVE StateOK'
  <2>1. [Idle EXCEPT !.at = "pause", !.job = j] \in ActorStates
    BY <1>0 DEF ActorStates, Steps
  <2> QED
    BY <1>0, <1>4, <2>1, StartType DEF ReadJob
<1>5. CASE StartGate(w)
  <2> DEFINE queue == {rows[r].job : r \in {q \in Ids : rows[q].status \in Open}}
  <2>1. [Idle EXCEPT !.at = "reconcile", !.next = "reconcile", !.queue = queue] \in ActorStates
    <3>1. queue \in SUBSET (Jobs \cup {NoJob})
      BY DEF Rows
    <3> HIDE DEF queue
    <3> QED
      BY <1>0, <3>1 DEF ActorStates, Steps
  <2> QED
    BY <1>0, <1>5, <2>1, StartType DEF StartGate
<1> QED
  BY <1>1, <1>2, <1>3, <1>4, <1>5 DEF Requested

LEMMA SweepType == ASSUME StateOK, SweepNext PROVE StateOK'
<1> USE DEF StateOK
<1>0. Sweep \in Actors /\ Idle \in ActorStates /\ NoPass \in Passes
  BY WorkersAct, IdleType DEF NoPass, Passes
<1>1. CASE ReadBatch
  <2>1. CASE Batch # {} /\ TakeBatch
    <3>1. [Idle EXCEPT !.at = "rows", !.next = "rows"] \in ActorStates
      BY <1>0 DEF ActorStates, Steps
    <3>2. Batch \in SUBSET Ids
      BY DEF Batch, Unread
    <3>3. (Cardinality(Batch) < BatchSize) \in BOOLEAN
      OBVIOUS
    <3>4. \A rs \in SUBSET Ids, n \in Nat, b \in BOOLEAN :
            [pass EXCEPT !.batch = rs, !.batches = n, !.last = b] \in Passes
      BY DEF Passes
    <3>6. pass.batches + 1 \in Nat
      BY DEF Passes
    <3>5. pass' \in Passes
      BY <2>1, <3>2, <3>3, <3>4, <3>6, Zenon DEF TakeBatch
    <3> QED
      BY <1>0, <2>1, <3>1, <3>2, <3>5, StartType DEF TakeBatch
  <2>2. CASE Batch = {}
    BY <1>0, <1>1, <2>2, StartType DEF ReadBatch
  <2> QED
    BY <1>1, <2>1, <2>2 DEF ReadBatch
<1>2. CASE EndBatch
  BY <1>0, <1>2, GoesType DEF EndBatch, Finish
<1>3. CASE SweepRow
  <2>1. PICK r \in pass.batch :
          /\ pass' = [pass EXCEPT !.batch = @ \ {r}]
          /\ Goes(Sweep, [actor[Sweep] EXCEPT
               !.row = r, !.job = rows[r].job,
               !.at = IF jobs[rows[r].job].case THEN "pause" ELSE "enforce"])
    BY <1>3 DEF SweepRow
  <2>2. r \in Ids
    BY DEF Passes
  <2>3. \A at \in Steps : [actor[Sweep] EXCEPT !.row = r, !.job = rows[r].job, !.at = at]
                            \in ActorStates
    BY <1>0, <2>2 DEF ActorStates, Rows
  <2>4. (IF jobs[rows[r].job].case THEN "pause" ELSE "enforce") \in Steps
    BY DEF Steps
  <2>5. actor' \in [Actors -> ActorStates]
    BY <1>0, <2>1, <2>3, <2>4, GoesType
  <2>6. pass' \in Passes
    BY <2>1 DEF Passes
  <2> QED
    BY <1>3, <2>5, <2>6 DEF SweepRow
<1>4. CASE EnforcePauses
  <2>1. rows' \in [Ids -> Rows]
    BY <1>4, RowsWithType, NewestInType DEF EnforcePauses
  <2>2. restricted' \in BOOLEAN
    BY <1>4 DEF EnforcePauses, RestrictedAfterPause
  <2> QED
    BY <1>0, <1>4, <2>1, <2>2, GoesType, ReturnedType DEF EnforcePauses
<1>5. CASE EnforceRead
  <2>1. [actor[Sweep] EXCEPT !.at = "enforcing"] \in ActorStates
    BY <1>0 DEF ActorStates, Steps
  <2>2. actor' \in [Actors -> ActorStates]
    BY <1>0, <1>5, <2>1, GoesType, ReturnedType DEF EnforceRead
  <2>3. pass' \in Passes
    <3> DEFINE overdue == rows[actor[Sweep].row].phase = 2 /\ rows[actor[Sweep].row].status = "DUE"
               restrict == ~restricted
    <3>1. overdue \in BOOLEAN /\ restrict \in BOOLEAN
      OBVIOUS
    <3>2. \A b, c \in BOOLEAN : [pass EXCEPT !.overdue = b, !.restrict = c] \in Passes
      BY DEF Passes
    <3>3. pass' = pass \/ pass' = [pass EXCEPT !.overdue = overdue, !.restrict = restrict]
      BY <1>5 DEF EnforceRead
    <3> QED
      BY <3>1, <3>2, <3>3, Zenon
  <2> QED
    BY <1>5, <2>2, <2>3 DEF EnforceRead
<1>6. CASE EnforceCommit
  <2>1. rows' \in [Ids -> Rows]
    BY <1>0, <1>6, RowsWithType DEF EnforceCommit, ActorStates, Open
  <2>2. pass' \in Passes /\ restricted' \in BOOLEAN
    BY <1>6 DEF EnforceCommit, Passes
  <2> QED
    BY <1>0, <1>6, <2>1, <2>2, GoesType, ReturnedType DEF EnforceCommit
<1>7. CASE RowFails
  <2>1. pass' \in Passes
    BY <1>7 DEF RowFails, Passes
  <2>2. faults' \in 0..MaxFaults
    <3>1. faults' = faults \/ faults' = faults + 1
      BY <1>7 DEF RowFails
    <3> QED
      BY <1>7, <3>1, BoundsAssumption DEF RowFails
  <2> QED
    BY <1>0, <1>7, <2>1, <2>2, GoesType, ReturnedType DEF RowFails
<1> QED
  BY <1>0, <1>1, <1>2, <1>3, <1>4, <1>5, <1>6, <1>7, SharedType DEF SweepNext

LEMMA EnvironmentType == ASSUME StateOK, Environment PROVE StateOK'
<1> USE DEF StateOK
<1>1. ASSUME NEW r \in Ids, TimePasses(r) PROVE StateOK'
  BY <1>1 DEF TimePasses, Rows
<1>2. ASSUME NEW j \in Jobs, OpenCase(j) PROVE StateOK'
  <2>1. rows' \in [Ids -> Rows]
    BY <1>2, RowsWithType, NewestInType DEF OpenCase
  <2>2. restricted' \in BOOLEAN
    BY <1>2 DEF OpenCase, RestrictedAfterPause
  <2>3. jobs' \in [Jobs -> JobStates]
    BY <1>2 DEF OpenCase, JobStates
  <2>4. cases' \in 0..MaxCases
    BY <1>2, BoundsAssumption DEF OpenCase
  <2> QED
    BY <1>2, <2>1, <2>2, <2>3, <2>4 DEF OpenCase
<1>3. ASSUME NEW j \in Jobs, ResolveResuming(j) PROVE StateOK'
  <2> DEFINE r == Newest(j, {"PAUSED"})
  <2>1. Resumed(r) \in Open
    BY DEF Resumed, Open
  <2>2. rows' = rows \/ rows' = RowsWith(r, Resumed(r))
    BY <1>3 DEF ResolveResuming, Resume
  <2>3. rows' \in [Ids -> Rows]
    <3>1. r \in Ids \cup {0}
      BY NewestInType
    <3> HIDE DEF r
    <3> QED
      BY <2>1, <2>2, <3>1, RowsWithType
  <2>4. PICK released \in BOOLEAN :
          jobs' = [jobs EXCEPT ![j].case = FALSE, ![j].due = @ \/ released]
    BY <1>3 DEF ResolveResuming
  <2>5. jobs' \in [Jobs -> JobStates]
    BY <2>4 DEF JobStates
  <2> QED
    BY <1>3, <2>3, <2>5 DEF ResolveResuming
<1>4. ASSUME NEW j \in Jobs, ResolveCancelling(j) PROVE StateOK'
  <2>1. rows' \in [Ids -> Rows]
    BY <1>4, RowsWithType, NewestInType DEF ResolveCancelling, ClosedStates
  <2>2. jobs' \in [Jobs -> JobStates]
    <3>1. PICK refunded \in BOOLEAN : jobs' = [jobs EXCEPT
            ![j].case = FALSE, ![j].due = FALSE, ![j].closed = refunded]
      BY <1>4 DEF ResolveCancelling
    <3> QED
      BY <3>1, ZenonT(30) DEF JobStates
  <2> QED
    BY <1>4, <2>1, <2>2 DEF ResolveCancelling
<1>5. CASE Crash
  BY <1>5, BoundsAssumption, IdleType DEF Crash, NoPass, Passes
<1> QED
  BY <1>1, <1>2, <1>3, <1>4, <1>5 DEF Environment

LEMMA WatchType ==
  ASSUME clearSince \in [Watched -> SUBSET Jobs], Watch
  PROVE  clearSince' \in [Watched -> SUBSET Jobs]
  BY DEF Watch

\* Every row and every step is one of those the code knows.
THEOREM TypeCorrect == Spec => []TypeOK
<1>1. Init => TypeOK
  <2> SUFFICES ASSUME Init PROVE TypeOK
    OBVIOUS
  <2>1. jobs \in [Jobs -> JobStates]
    BY DEF Init, JobStates
  <2>2. rows \in [Ids -> Rows]
    BY DEF Init, Rows, NoRow
  <2>3. actor \in [Actors -> ActorStates]
    BY IdleType DEF Init
  <2>4. pass \in Passes
    BY DEF Init, NoPass, Passes
  <2>5. clearSince \in [Watched -> SUBSET Jobs]
    BY DEF Init
  <2>6. restricted \in BOOLEAN /\ cursor \in Ids \cup {0}
    BY DEF Init
  <2>7. cases \in 0..MaxCases /\ faults \in 0..MaxFaults
    BY BoundsAssumption DEF Init
  <2> QED
    BY <2>1, <2>2, <2>3, <2>4, <2>5, <2>6, <2>7 DEF TypeOK
<1>2. TypeOK /\ [Next]_vars => TypeOK'
  <2> SUFFICES ASSUME TypeOK, [Next]_vars PROVE TypeOK'
    OBVIOUS
  <2>1. StateOK
    BY DEF TypeOK, StateOK
  <2>2. CASE Next
    <3>1. StateOK'
      BY <2>1, <2>2, RequestType, RequestedType, SweepType, EnvironmentType DEF Next
    <3> QED
      BY <2>2, <3>1, WatchType DEF TypeOK, StateOK, Next
  <2>3. CASE UNCHANGED vars
    BY <2>3 DEF TypeOK, vars
  <2> QED
    BY <2>2, <2>3
<1> QED
  BY <1>1, <1>2, PTL DEF Spec

----------------------------------------------------------------------------
(* Closed obligations *)

Keeps == \A r \in Ids : rows[r].status \in ClosedStates => rows'[r].status = rows[r].status

LEMMA RowsWithKeeps ==
  ASSUME rows \in [Ids -> Rows], NEW st, NEW r \in Ids \cup {0},
         r = 0 \/ rows[r].status \notin ClosedStates,
         rows' = RowsWith(r, st)
  PROVE  Keeps
  BY DEF RowsWith, Keeps, Rows

LEMMA NewestKeeps ==
  ASSUME rows \in [Ids -> Rows], NEW st, NEW j, NEW S,
         S \cap ClosedStates = {}, rows' = RowsWith(Newest(j, S), st)
  PROVE  Keeps
<1> DEFINE r == Newest(j, S)
<1>1. r = 0 \/ (r \in Ids /\ rows[r].status \in S)
  BY NewestFound
<1> HIDE DEF r
<1>2. rows' = RowsWith(r, st)
  BY DEF r
<1> QED
  BY <1>1, <1>2, RowsWithKeeps

LEMMA NextKeeps == ASSUME TypeOK, Next PROVE Keeps
<1>0. rows \in [Ids -> Rows] /\ actor \in [Actors -> ActorStates]
  BY DEF TypeOK
<1>1. ASSUME NEW a \in Actors, SharedNext(a) PROVE Keeps
  <2>1. CASE PauseWrite(a)
    <3>1. actor[a].row \in Ids \cup {0}
      BY <1>0 DEF ActorStates
    <3>2. CASE rows[actor[a].row].status \in Open
      BY <1>0, <2>1, <3>1, <3>2, RowsWithKeeps DEF PauseWrite, Open, ClosedStates
    <3>3. CASE rows[actor[a].row].status \notin Open
      BY <2>1, <3>3 DEF PauseWrite, Keeps
    <3> QED
      BY <3>2, <3>3
  <2> QED
    BY <1>1, <2>1 DEF SharedNext, PauseRead, ReadOwed, Lift, CheckCase, Keeps
<1>2. ASSUME NEW w \in Workers, RequestNext(w) PROVE Keeps
  <2>1. CASE EnsureCreate(w)
    <3>1. PICK r \in Ids : rows[r] = NoRow /\ \E row : rows' = [rows EXCEPT ![r] = row]
      BY <2>1 DEF EnsureCreate
    <3> QED
      BY <1>0, <3>1 DEF Keeps, NoRow, ClosedStates
  <2> QED
    BY <1>1, <1>2, <2>1, WorkersAct
       DEF RequestNext, EnsureRead, Reconciled, ReadUser, Allow, Answer, ReconcileRow, Keeps
<1>3. ASSUME NEW w \in Workers, Requested(w) \/ StartGate(w) PROVE Keeps
  <2>1. ASSUME NEW j \in Jobs, BookPayment(w, j) PROVE Keeps
    BY <1>0, <2>1, NewestKeeps DEF BookPayment, Open, ClosedStates
  <2> QED
    BY <1>3, <2>1 DEF Requested, StartGate, MarkComplete, ReleaseFunds, ReadJob, Keeps
<1>4. CASE SweepNext
  <2>1. CASE EnforcePauses
    BY <1>0, <2>1, NewestKeeps DEF EnforcePauses, Open, ClosedStates
  <2>2. CASE EnforceCommit
    <3>1. actor[Sweep].row \in Ids \cup {0}
      BY <1>0, WorkersAct DEF ActorStates
    <3>2. CASE pass.overdue
      <4>1. rows[actor[Sweep].row].status = "DUE" /\ rows' = RowsWith(actor[Sweep].row, "OVERDUE")
        BY <2>2, <3>2 DEF EnforceCommit, Conflict
      <4> QED
        BY <1>0, <3>1, <4>1, RowsWithKeeps DEF ClosedStates
    <3>3. CASE ~pass.overdue
      BY <2>2, <3>3 DEF EnforceCommit, Keeps
    <3> QED
      BY <3>2, <3>3
  <2> QED
    BY <1>1, <1>4, <2>1, <2>2, WorkersAct
       DEF SweepNext, ReadBatch, TakeBatch, EndBatch, SweepRow, EnforceRead, RowFails, Keeps
<1>5. CASE Environment
  <2>1. ASSUME NEW r \in Ids, TimePasses(r) PROVE Keeps
    BY <1>0, <2>1 DEF TimePasses, Keeps, Rows
  <2>2. ASSUME NEW j \in Jobs, OpenCase(j) PROVE Keeps
    BY <1>0, <2>2, NewestKeeps DEF OpenCase, Open, ClosedStates
  <2>3. ASSUME NEW j \in Jobs, ResolveResuming(j) PROVE Keeps
    <3>1. CASE rows' = rows
      BY <3>1 DEF Keeps
    <3>2. CASE \E st : rows' = RowsWith(Newest(j, {"PAUSED"}), st)
      BY <1>0, <3>2, NewestKeeps DEF ClosedStates
    <3> QED
      BY <2>3, <3>1, <3>2 DEF ResolveResuming, Resume
  <2>4. ASSUME NEW j \in Jobs, ResolveCancelling(j) PROVE Keeps
    BY <1>0, <2>4, NewestKeeps DEF ResolveCancelling, Open, ClosedStates
  <2>5. CASE Crash
    BY <2>5 DEF Crash, Keeps
  <2> QED
    BY <1>5, <2>1, <2>2, <2>3, <2>4, <2>5 DEF Environment
<1> QED
  BY <1>2, <1>3, <1>4, <1>5 DEF Next

\* An obligation that was paid or cancelled is never opened again.
THEOREM ClosedStays == Spec => ClosedStaysClosed
<1>1. TypeOK /\ [Next]_vars => [Keeps]_vars
  BY NextKeeps
<1> QED
  BY <1>1, TypeCorrect, PTL DEF Spec, ClosedStaysClosed, Keeps

----------------------------------------------------------------------------
(* The gate *)

Passing == {"owing", "allowed"}

\* What is left to check of a request that is about to be let through is all
\* that was not yet seen owing nothing.
GateOK(w) ==
  /\ actor[w].at = "owing" => Jobs \subseteq actor[w].left \cup clearSince[w]
  /\ actor[w].at = "allowed" => Jobs \subseteq clearSince[w]
GateInv == \A w \in Watched : GateOK(w)

\* How a request comes to its last steps: it stays, or reads what is owed, or
\* finds a job under a case, or has nothing left to check.
Advances(w) ==
  \/ actor'[w].at \notin Passing
  \/ actor'[w] = actor[w]
  \/ /\ actor'[w].at = "owing"
     /\ UNCHANGED <<jobs, rows>>
     /\ \/ actor'[w].left = QualifyingJobs(rows)
        \/ /\ actor[w].at = "owing"
           /\ \E j \in Jobs : jobs[j].case /\ actor'[w].left = actor[w].left \ {j}
  \/ /\ actor[w].at = "owing" /\ actor[w].left = {}
     /\ actor'[w].at = "allowed"

LEMMA GoesElsewhere ==
  ASSUME actor \in [Actors -> ActorStates], NEW a, NEW w \in Actors, NEW to,
         Goes(a, to), to.at \notin Passing
  PROVE  Advances(w)
  BY DEF Goes, Advances

LEMMA ReturnsElsewhere ==
  ASSUME actor \in [Actors -> ActorStates], NEW a \in Actors
  PROVE  Returned(a).at \notin Passing
  BY DEF Returned, Idle, ActorStates, Passing

LEMMA NextAdvances == ASSUME TypeOK, Next, NEW w \in Actors PROVE Advances(w)
<1>0. actor \in [Actors -> ActorStates] /\ Workers \subseteq Actors /\ Sweep \in Actors
  BY WorkersAct DEF TypeOK
<1>1. ASSUME NEW a \in Actors, SharedNext(a) PROVE Advances(w)
  <2>1. CASE PauseRead(a)
    <3> DEFINE r == Newest(actor[a].job, Open)
               to == [actor[a] EXCEPT !.at = IF r = 0 THEN "clear" ELSE "pausing",
                                      !.job = NoJob, !.row = r]
    <3>1. Goes(a, to)
      BY <2>1 DEF PauseRead
    <3>2. to.at \notin Passing
      BY <1>0 DEF ActorStates, Passing
    <3> QED
      BY <1>0, <3>1, <3>2, GoesElsewhere
  <2>2. CASE PauseWrite(a)
    <3>1. [actor[a] EXCEPT !.at = "clear", !.job = NoJob, !.row = 0].at \notin Passing
      BY <1>0 DEF ActorStates, Passing
    <3> QED
      BY <1>0, <2>2, <3>1, GoesElsewhere DEF PauseWrite
  <2>3. CASE ReadOwed(a)
    BY <1>0, <2>3 DEF ReadOwed, Goes, Advances, ActorStates, Passing
  <2>4. ASSUME NEW j \in Jobs, CheckCase(a, j) PROVE Advances(w)
    <3>1. CASE Goes(a, [actor[a] EXCEPT !.left = @ \ {j}]) /\ jobs[j].case
      <4>1. CASE a = w
        BY <1>0, <2>4, <3>1, <4>1 DEF CheckCase, Goes, Advances, ActorStates, Passing
      <4>2. CASE a # w
        BY <1>0, <3>1, <4>2 DEF Goes, Advances
      <4> QED
        BY <4>1, <4>2
    <3>2. CASE Goes(a, Returned(a))
      BY <1>0, <3>2, GoesElsewhere, ReturnsElsewhere
    <3>3. CASE Goes(a, [Idle EXCEPT !.at = "refused"])
      BY <1>0, <3>3, GoesElsewhere DEF Idle, Passing
    <3> QED
      BY <2>4, <3>1, <3>2, <3>3 DEF CheckCase
  <2>5. CASE Lift(a)
    BY <1>0, <2>5, GoesElsewhere, ReturnsElsewhere DEF Lift
  <2> QED
    BY <1>1, <2>1, <2>2, <2>3, <2>4, <2>5 DEF SharedNext
<1>2. ASSUME NEW a \in Workers, RequestNext(a) PROVE Advances(w)
  <2>0. a \in Actors
    BY <1>0
  <2>1. CASE Allow(a)
    BY <1>0, <2>0, <2>1 DEF Allow, Goes, Advances, Idle, Passing
  <2>2. CASE ReadUser(a)
    <3>1. /\ [Idle EXCEPT !.at = "refused"].at \notin Passing
          /\ [actor[a] EXCEPT !.at = "owes"].at \notin Passing
      BY <1>0, <2>0 DEF Idle, ActorStates, Passing
    <3> QED
      BY <1>0, <2>2, <3>1, GoesElsewhere DEF ReadUser
  <2>3. CASE Reconciled(a)
    <3>1. [actor[a] EXCEPT !.at = "clear", !.next = "user"].at \notin Passing
      BY <1>0, <2>0 DEF ActorStates, Passing
    <3> QED
      BY <1>0, <2>3, <3>1, GoesElsewhere DEF Reconciled
  <2>4. CASE EnsureRead(a)
    <3>1. Idle.at \notin Passing /\ [actor[a] EXCEPT !.at = "create"].at \notin Passing
      BY <1>0, <2>0 DEF Idle, ActorStates, Passing
    <3> QED
      BY <1>0, <2>4, <3>1, GoesElsewhere DEF EnsureRead
  <2>5. CASE EnsureCreate(a) \/ Answer(a)
    BY <1>0, <2>5, GoesElsewhere DEF EnsureCreate, Answer, Finish, Idle, Passing
  <2>6. ASSUME NEW j \in Jobs, ReconcileRow(a, j) PROVE Advances(w)
    <3>1. /\ [actor[a] EXCEPT !.queue = @ \ {j}, !.job = j, !.at = "pause"].at \notin Passing
          /\ [actor[a] EXCEPT !.queue = @ \ {j}].at \notin Passing
      BY <1>0, <2>0, <2>6 DEF ReconcileRow, ActorStates, Passing
    <3> QED
      BY <1>0, <2>6, <3>1, GoesElsewhere DEF ReconcileRow
  <2> QED
    BY <1>1, <1>2, <2>0, <2>1, <2>2, <2>3, <2>4, <2>5, <2>6 DEF RequestNext
<1>3. ASSUME NEW a \in Workers, Requested(a) \/ StartGate(a) PROVE Advances(w)
  <2>1. ASSUME NEW j \in Jobs, MarkComplete(a, j) PROVE Advances(w)
    BY <1>0, <2>1, GoesElsewhere DEF MarkComplete, Start, Idle, Passing
  <2>2. ASSUME NEW j \in Jobs, BookPayment(a, j) PROVE Advances(w)
    BY <1>0, <2>2, GoesElsewhere DEF BookPayment, Start, Idle, Passing
  <2>3. ASSUME NEW j \in Jobs, ReleaseFunds(a, j) PROVE Advances(w)
    BY <1>0, <2>3, GoesElsewhere DEF ReleaseFunds, Start, Idle, Passing
  <2>4. ASSUME NEW j \in Jobs, ReadJob(a, j) PROVE Advances(w)
    BY <1>0, <2>4, GoesElsewhere DEF ReadJob, Start, Idle, Passing
  <2>5. CASE StartGate(a)
    BY <1>0, <2>5, GoesElsewhere DEF StartGate, Start, Idle, Passing
  <2> QED
    BY <1>3, <2>1, <2>2, <2>3, <2>4, <2>5 DEF Requested
<1>4. CASE SweepNext
  <2>1. CASE ReadBatch
    BY <1>0, <2>1, GoesElsewhere DEF ReadBatch, TakeBatch, Start, Idle, Passing
  <2>2. CASE EndBatch
    BY <1>0, <2>2, GoesElsewhere DEF EndBatch, Finish, Idle, Passing
  <2>3. CASE SweepRow
    <3>1. PICK r : Goes(Sweep, [actor[Sweep] EXCEPT
            !.row = r, !.job = rows[r].job,
            !.at = IF jobs[rows[r].job].case THEN "pause" ELSE "enforce"])
      BY <2>3 DEF SweepRow
    <3>2. [actor[Sweep] EXCEPT
            !.row = r, !.job = rows[r].job,
            !.at = IF jobs[rows[r].job].case THEN "pause" ELSE "enforce"].at \notin Passing
      BY <1>0 DEF ActorStates, Passing
    <3> QED
      BY <1>0, <3>1, <3>2, GoesElsewhere
  <2>4. CASE EnforceRead
    <3>1. [actor[Sweep] EXCEPT !.at = "enforcing"].at \notin Passing
      BY <1>0 DEF ActorStates, Passing
    <3> QED
      BY <1>0, <2>4, <3>1, GoesElsewhere, ReturnsElsewhere DEF EnforceRead
  <2>5. CASE EnforcePauses \/ EnforceCommit \/ RowFails
    BY <1>0, <2>5, GoesElsewhere, ReturnsElsewhere DEF EnforcePauses, EnforceCommit, RowFails
  <2> QED
    BY <1>0, <1>1, <1>4, <2>1, <2>2, <2>3, <2>4, <2>5 DEF SweepNext
<1>5. CASE Environment
  <2>1. CASE Crash
    BY <1>0, <2>1 DEF Crash, Advances, Idle, Passing
  <2> QED
    BY <1>5, <2>1 DEF Environment, TimePasses, OpenCase, ResolveResuming, ResolveCancelling,
                      Advances
<1> QED
  BY <1>2, <1>3, <1>4, <1>5 DEF Next

LEMMA NextKeepsGateInv == ASSUME TypeOK, GateInv, Next PROVE GateInv'
<1> SUFFICES ASSUME NEW w \in Watched PROVE GateOK(w)'
  BY DEF GateInv
<1>0. w \in Actors /\ GateOK(w)
  BY SetsAssumption, WorkersAct DEF GateInv
<1>1. Advances(w)
  BY <1>0, NextAdvances
<1>2. CASE actor'[w].at \notin Passing
  BY <1>2 DEF GateOK, Passing
<1>3. CASE actor'[w].at \in Passing
  <2>1. clearSince'[w] = clearSince[w] \cup {j \in Jobs : ~Owes(j)'}
    <3>1. InGate(w)'
      BY <1>3 DEF InGate, Passing
    <3> QED
      BY <3>1 DEF Next, Watch
  <2>2. CASE actor'[w] = actor[w]
    BY <1>0, <2>1, <2>2 DEF GateOK
  <2>3. CASE /\ actor'[w].at = "owing"
             /\ UNCHANGED <<jobs, rows>>
             /\ actor'[w].left = QualifyingJobs(rows)
    <3>1. \A j \in Jobs : j \in QualifyingJobs(rows) \/ ~Owes(j)'
      BY <2>3 DEF Owes, QualifyingJobs
    <3> QED
      BY <2>1, <2>3, <3>1 DEF GateOK
  <2>4. CASE /\ actor'[w].at = "owing" /\ actor[w].at = "owing"
             /\ UNCHANGED <<jobs, rows>>
             /\ \E j \in Jobs : jobs[j].case /\ actor'[w].left = actor[w].left \ {j}
    <3>1. PICK j \in Jobs : jobs[j].case /\ actor'[w].left = actor[w].left \ {j}
      BY <2>4
    <3>2. ~Owes(j)'
      BY <2>4, <3>1 DEF Owes
    <3> QED
      BY <1>0, <2>1, <2>4, <3>1, <3>2 DEF GateOK
  <2>5. CASE actor[w].at = "owing" /\ actor[w].left = {} /\ actor'[w].at = "allowed"
    BY <1>0, <2>1, <2>5 DEF GateOK
  <2> QED
    BY <1>1, <1>3, <2>2, <2>3, <2>4, <2>5 DEF Advances
<1> QED
  BY <1>2, <1>3

\* The debts of a customer who is let through the gate were not there, each at
\* some moment while the request passed it.
THEOREM AllowedOwed == Spec => []AllowedOwedNothing
<1>1. Init => GateInv
  BY SetsAssumption, WorkersAct DEF Init, GateInv, GateOK, Idle
<1>2. TypeOK /\ GateInv /\ [Next]_vars => GateInv'
  <2>1. CASE UNCHANGED vars
    BY <2>1 DEF vars, GateInv, GateOK
  <2> QED
    BY <2>1, NextKeepsGateInv
<1>3. TypeOK /\ GateInv => AllowedOwedNothing
  BY DEF TypeOK, GateInv, GateOK, AllowedOwedNothing
<1> QED
  BY <1>1, <1>2, <1>3, TypeCorrect, PTL DEF Spec
================================================================================
