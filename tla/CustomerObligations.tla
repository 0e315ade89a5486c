-------------------------- MODULE CustomerObligations --------------------------
(***************************************************************************)
(* What one customer owes on jobs whose completion payment is due          *)
(* (services/customerPaymentObligation.service.js), the hourly sweep that  *)
(* enforces it (jobs/customerPaymentObligation.job.js), and the gate every *)
(* paid request of the customer passes. Requests are no transactions: they *)
(* interleave at each of their queries. The sweep runs in one place at a   *)
(* time, under its advisory lock.                                          *)
(***************************************************************************)
EXTENDS Integers, FiniteSets

CONSTANTS
  Jobs,        \* the customer's jobs
  Windowed,    \* those whose obligation has a restrictionStartsAt (50/50 jobs)
  NoJob,       \* the job of an id not in use
  Workers,     \* the requests the server works on at once
  Watched,     \* those a history is kept of
  BatchSize,   \* rows the sweep reads at a time
  MaxBatches,  \* batches of one pass
  MaxRows,     \* bound: obligations ever opened
  MaxCases,    \* bound: cases ever opened
  MaxFaults    \* bound: transactions that fail, and stops of the server

ASSUME SetsAssumption == NoJob \notin Jobs /\ Windowed \subseteq Jobs /\ Watched \subseteq Workers
ASSUME BoundsAssumption ==
  /\ BatchSize \in Nat \ {0} /\ MaxBatches \in Nat \ {0}
  /\ MaxRows \in Nat /\ MaxCases \in Nat /\ MaxFaults \in Nat

VARIABLES
  jobs,        \* what an obligation depends on: due, paid, closed, under a case
  rows,        \* the CustomerPaymentObligation rows, by id (ids are random)
  restricted,  \* User.marketplaceRestricted, for what is owed
  actor,       \* where each request, and the sweep, is
  pass,        \* the sweep's pass: the rows left of its batch, its transaction
  cursor,      \* cursorId: the last id the sweep read, 0 for null
  cases, faults,
  clearSince   \* history: jobs that owed nothing at some moment of a gate

vars == <<jobs, rows, restricted, actor, pass, cursor, cases, faults, clearSince>>

Ids == 1..MaxRows
Sweep == "sweep"
Actors == Workers \cup {Sweep}
Open == {"DUE", "OVERDUE"}
ClosedStates == {"PAID", "CANCELLED"}

\* phase: 0 before restrictionStartsAt, 1 after it, 2 after dueAt (kept while the
\* row may still be enforced). born: createdAt, by its order among the rows of
\* the job.
NoRow == [job |-> NoJob, status |-> "NONE", window |-> FALSE, phase |-> 0, born |-> 0]

\* what an actor does next, where it goes after a clear, the job and the row it
\* holds, what it still goes through, and the jobs it still checks for a case
Idle == [at |-> "idle", next |-> "idle", job |-> NoJob, window |-> FALSE, row |-> 0,
         queue |-> {}, left |-> {}]

NoPass == [batch |-> {}, batches |-> 0, last |-> FALSE, overdue |-> FALSE, restrict |-> FALSE]

Init ==
  /\ jobs = [j \in Jobs |-> [due |-> FALSE, paid |-> FALSE, closed |-> FALSE, case |-> FALSE]]
  /\ rows = [r \in Ids |-> NoRow]
  /\ restricted = FALSE
  /\ actor = [a \in Actors |-> Idle]
  /\ pass = NoPass
  /\ cursor = 0
  /\ cases = 0 /\ faults = 0
  /\ clearSince = [w \in Watched |-> {}]

----------------------------------------------------------------------------
(* Rows *)

\* findFirst, newest first: the id of a row of job j in one of the statuses, or 0
Newest(j, statuses) ==
  LET found == {r \in Ids : rows[r].job = j /\ rows[r].status \in statuses}
      newest == {r \in found : \A q \in found : rows[q].born <= rows[r].born}
  IN  IF newest = {} THEN 0 ELSE CHOOSE r \in newest : TRUE

\* rows, with row r (if any) in the status
RowsWith(r, status) ==
  IF r = 0 THEN rows
  ELSE [rows EXCEPT ![r].status = status, ![r].phase = IF status \in ClosedStates THEN 0 ELSE @]

\* When the customer is restricted for a row that is unpaid.
RestrictionStarted(row) == row.phase >= IF row.window THEN 1 ELSE 2

\* obligationQualifiesForRestriction
Qualifies(row) == row.status = "OVERDUE" \/ (row.status = "DUE" /\ RestrictionStarted(row))

\* The jobs customerHasQualifyingUnpaidObligation finds rows for, before it
\* looks for cases.
QualifyingJobs(rs) ==
  {j \in Jobs : ~jobs[j].paid /\ ~jobs[j].closed /\
                \E r \in Ids : rs[r].job = j /\ Qualifies(rs[r])}

\* Money the customer is restricted for.
Owes(j) == j \in QualifyingJobs(rows) /\ ~jobs[j].case

----------------------------------------------------------------------------
(* Shared steps of requests and sweep *)

Goes(a, to) == actor' = [actor EXCEPT ![a] = to]
Finish(a) == Goes(a, Idle)
Start(a, to) == actor[a].at = "idle" /\ Goes(a, to)

\* After a clear: back to the loop it was called in, or the end of the request.
Returned(a) == IF actor[a].next = "idle" THEN Idle
               ELSE [actor[a] EXCEPT !.at = actor[a].next, !.left = {}, !.job = NoJob, !.row = 0]

\* pauseWorkflowObligationForOpenCase outside a transaction: the open row is
\* looked up, and then paused only if it is still open; then
\* clearCustomerMarketplaceRestrictionIfClear.
PauseRead(a) ==
  /\ actor[a].at = "pause"
  /\ LET r == Newest(actor[a].job, Open)
     IN  Goes(a, [actor[a] EXCEPT !.at = IF r = 0 THEN "clear" ELSE "pausing",
                                  !.job = NoJob, !.row = r])
  /\ UNCHANGED <<jobs, rows, restricted, pass, cursor, cases, faults>>

\* (mutant: paused by its id alone)
PauseWriteById(a) ==
  /\ actor[a].at = "pausing"
  /\ rows' = RowsWith(actor[a].row, "PAUSED")
  /\ Goes(a, [actor[a] EXCEPT !.at = "clear", !.job = NoJob, !.row = 0])
  /\ UNCHANGED <<jobs, restricted, pass, cursor, cases, faults>>

PauseWrite(a) ==
  /\ actor[a].at = "pausing"
  /\ rows' = IF rows[actor[a].row].status \in Open
             THEN RowsWith(actor[a].row, "PAUSED") ELSE rows
  /\ Goes(a, [actor[a] EXCEPT !.at = "clear", !.job = NoJob, !.row = 0])
  /\ UNCHANGED <<jobs, restricted, pass, cursor, cases, faults>>

\* customerHasQualifyingUnpaidObligation: one query for the rows, one for the
\* case of each row that qualifies.
ReadOwed(a) ==
  /\ actor[a].at \in {"clear", "owes"}
  /\ Goes(a, [actor[a] EXCEPT !.at = IF @ = "clear" THEN "clearing" ELSE "owing",
                              !.left = QualifyingJobs(rows)])
  /\ UNCHANGED <<jobs, rows, restricted, pass, cursor, cases, faults>>

CheckCase(a, j) ==
  /\ actor[a].at \in {"clearing", "owing"} /\ j \in actor[a].left
  /\ Goes(a, CASE jobs[j].case -> [actor[a] EXCEPT !.left = @ \ {j}]
               [] ~jobs[j].case /\ actor[a].at = "clearing" -> Returned(a)
               [] OTHER -> [Idle EXCEPT !.at = "refused"])
  /\ UNCHANGED <<jobs, rows, restricted, pass, cursor, cases, faults>>

\* Nothing qualifies: the restriction is lifted.
Lift(a) ==
  /\ actor[a].at = "clearing" /\ actor[a].left = {}
  /\ restricted' = FALSE
  /\ Goes(a, Returned(a))
  /\ UNCHANGED <<jobs, rows, pass, cursor, cases, faults>>

----------------------------------------------------------------------------
(* Jobs, payments and cases *)

\* bound: every request under way that may open an obligation has an id left
RoomForRow == Cardinality({r \in Ids : rows[r] = NoRow})
                > Cardinality({w \in Workers : actor[w].at \in {"ensure", "create"}})

\* A job is marked complete (or completion is released without a paused
\* obligation): ensureObligationForJobIfPaymentDue follows. A job already
\* marked may be marked again by a request that overlaps.
MarkComplete(w, j) ==
  /\ RoomForRow
  /\ ~jobs[j].paid /\ ~jobs[j].closed /\ ~jobs[j].case
  /\ jobs' = [jobs EXCEPT ![j].due = TRUE]
  /\ Start(w, [Idle EXCEPT !.at = "ensure", !.job = j, !.window = j \in Windowed])
  /\ UNCHANGED <<rows, restricted, pass, cursor, cases, faults>>

\* upsertOpenObligation, at READ COMMITTED: looks for an open or paused row ...
EnsureRead(w) ==
  /\ actor[w].at = "ensure"
  /\ Goes(w, IF Newest(actor[w].job, Open \cup {"PAUSED"}) = 0
             THEN [actor[w] EXCEPT !.at = "create"] ELSE Idle)
  /\ UNCHANGED <<jobs, rows, restricted, pass, cursor, cases, faults>>

\* ... and creates one under a random id.
EnsureCreate(w) ==
  /\ actor[w].at = "create"
  /\ \E r \in Ids :
       /\ rows[r] = NoRow
       /\ rows' = [rows EXCEPT ![r] =
            [job |-> actor[w].job, status |-> "DUE", window |-> actor[w].window,
             phase |-> 0, born |-> 1 + Cardinality({q \in Ids : rows[q].job = actor[w].job})]]
  /\ Finish(w)
  /\ UNCHANGED <<jobs, restricted, pass, cursor, cases, faults>>

\* restrictionStartsAt or dueAt of a row passes.
TimePasses(r) ==
  /\ rows[r].status \in Open \cup {"PAUSED"} /\ rows[r].phase < 2
  /\ rows' = [rows EXCEPT ![r].phase = IF rows[r].window THEN @ + 1 ELSE 2]
  /\ UNCHANGED <<jobs, restricted, actor, pass, cursor, cases, faults>>

\* A completion payment is settled in the webhook's transaction
\* (markObligationPaidForJob); afterObligationPaid follows its commit.
BookPayment(w, j) ==
  /\ jobs[j].due /\ ~jobs[j].paid /\ ~jobs[j].case
  /\ jobs' = [jobs EXCEPT ![j].paid = TRUE, ![j].closed = TRUE]
  /\ rows' = RowsWith(Newest(j, Open \cup {"PAUSED"}), "PAID")
  /\ Start(w, [Idle EXCEPT !.at = "clear"])
  /\ UNCHANGED <<restricted, pass, cursor, cases, faults>>

\* restricted after clearCustomerMarketplaceRestrictionIfClear in a transaction
\* that leaves the rows rs and job j under a case
RestrictedAfterPause(rs, j) ==
  restricted /\ \E k \in QualifyingJobs(rs) \ {j} : ~jobs[k].case

\* A dispute or a cancellation case is opened: its transaction pauses the open
\* row and lifts the restriction if nothing else qualifies.
OpenCase(j) ==
  /\ cases < MaxCases /\ ~jobs[j].case /\ ~jobs[j].closed
  /\ cases' = cases + 1
  /\ jobs' = [jobs EXCEPT ![j].case = TRUE]
  /\ rows' = RowsWith(Newest(j, Open), "PAUSED")
  /\ restricted' = RestrictedAfterPause(rows', j)
  /\ UNCHANGED <<actor, pass, cursor, faults>>

\* (mutant: the status is taken over from the display)
ResumedAsDisplayed(r) == IF rows[r].phase = 2 THEN "OVERDUE" ELSE "NOT_DUE"

\* resumePausedObligation: the original dates stand.
Resumed(r) == IF rows[r].phase = 2 THEN "OVERDUE" ELSE "DUE"

Resume(j) ==
  LET r == Newest(j, {"PAUSED"}) IN rows' = IF r = 0 THEN rows ELSE RowsWith(r, Resumed(r))

\* resolveDispute: CLOSE_CASE, and RELEASE_FUNDS where a row was paused.
ResolveResuming(j) ==
  /\ jobs[j].case
  /\ \E released \in BOOLEAN :
       /\ released => Newest(j, {"PAUSED"}) # 0
       /\ jobs' = [jobs EXCEPT ![j].case = FALSE, ![j].due = @ \/ released]
  /\ Resume(j)
  /\ UNCHANGED <<restricted, actor, pass, cursor, cases, faults>>

\* RELEASE_FUNDS with nothing paused: an obligation is opened after the commit.
ReleaseFunds(w, j) ==
  /\ RoomForRow
  /\ jobs[j].case /\ Newest(j, {"PAUSED"}) = 0
  /\ jobs' = [jobs EXCEPT ![j].case = FALSE, ![j].due = TRUE]
  /\ Start(w, [Idle EXCEPT !.at = "ensure", !.job = j])
  /\ UNCHANGED <<rows, restricted, pass, cursor, cases, faults>>

\* A refund closes the job, RETURN_PROVIDER takes it back to work; both cancel
\* the obligation.
ResolveCancelling(j) ==
  /\ jobs[j].case
  /\ \E refunded \in BOOLEAN :
       jobs' = [jobs EXCEPT ![j].case = FALSE, ![j].due = FALSE, ![j].closed = refunded]
  /\ rows' = RowsWith(Newest(j, Open \cup {"PAUSED"}), "CANCELLED")
  /\ UNCHANGED <<restricted, actor, pass, cursor, cases, faults>>

----------------------------------------------------------------------------
(* Requests that look at what is owed *)

\* A job that is read under a case has its obligation paused.
ReadJob(w, j) ==
  /\ jobs[j].case
  /\ Start(w, [Idle EXCEPT !.at = "pause", !.job = j])
  /\ UNCHANGED <<jobs, rows, restricted, pass, cursor, cases, faults>>

\* assertCustomerCanStartPaidTransaction, assertCustomerMarketplaceSpendAllowed:
\* reconcileCustomerMarketplaceRestriction first ...
StartGate(w) ==
  /\ Start(w, [Idle EXCEPT !.at = "reconcile", !.next = "reconcile",
                           !.queue = {rows[r].job : r \in {q \in Ids : rows[q].status \in Open}}])
  /\ UNCHANGED <<jobs, rows, restricted, pass, cursor, cases, faults>>

ReconcileRow(w, j) ==
  /\ actor[w].at = "reconcile" /\ j \in actor[w].queue
  /\ Goes(w, IF jobs[j].case THEN [actor[w] EXCEPT !.queue = @ \ {j}, !.job = j, !.at = "pause"]
                             ELSE [actor[w] EXCEPT !.queue = @ \ {j}])
  /\ UNCHANGED <<jobs, rows, restricted, pass, cursor, cases, faults>>

\* (mutant: the restriction is not reconsidered)
ReconciledWithoutClear(w) ==
  /\ actor[w].at = "reconcile" /\ actor[w].queue = {}
  /\ Goes(w, [actor[w] EXCEPT !.at = "user"])
  /\ UNCHANGED <<jobs, rows, restricted, pass, cursor, cases, faults>>

Reconciled(w) ==
  /\ actor[w].at = "reconcile" /\ actor[w].queue = {}
  /\ Goes(w, [actor[w] EXCEPT !.at = "clear", !.next = "user"])
  /\ UNCHANGED <<jobs, rows, restricted, pass, cursor, cases, faults>>

\* (mutant: the restriction stands for what is owed)
ReadUserOnly(w) ==
  /\ actor[w].at = "user"
  /\ Goes(w, [Idle EXCEPT !.at = IF restricted THEN "refused" ELSE "allowed"])
  /\ UNCHANGED <<jobs, rows, restricted, pass, cursor, cases, faults>>

\* ... then the restriction, and, the sweep being hourly, what is owed.
ReadUser(w) ==
  /\ actor[w].at = "user"
  /\ Goes(w, IF restricted THEN [Idle EXCEPT !.at = "refused"]
             ELSE [actor[w] EXCEPT !.at = "owes"])
  /\ UNCHANGED <<jobs, rows, restricted, pass, cursor, cases, faults>>

Allow(w) ==
  /\ actor[w].at = "owing" /\ actor[w].left = {}
  /\ Goes(w, [Idle EXCEPT !.at = "allowed"])
  /\ UNCHANGED <<jobs, rows, restricted, pass, cursor, cases, faults>>

Answer(w) ==
  /\ actor[w].at \in {"allowed", "refused"}
  /\ Finish(w)
  /\ UNCHANGED <<jobs, rows, restricted, pass, cursor, cases, faults>>

----------------------------------------------------------------------------
(* The sweep *)

Unread == {r \in Ids : rows[r].status \in Open /\ r > cursor}
Batch == {r \in Unread : Cardinality({q \in Unread : q < r}) < BatchSize}

\* findMany, and the cursor on the last row of the batch
TakeBatch ==
  /\ Start(Sweep, [Idle EXCEPT !.at = "rows", !.next = "rows"])
  /\ cursor' \in Batch
  /\ \A r \in Batch : r <= cursor'
  /\ pass' = [pass EXCEPT !.batch = Batch, !.batches = @ + 1,
                          !.last = Cardinality(Batch) < BatchSize]
  /\ UNCHANGED <<jobs, rows, restricted, cases, faults>>

\* (mutant: the cursor is left at the end)
ReadBatchForward == Batch # {} /\ TakeBatch

\* The hourly timer with the lock free, or the next batch of a pass: the open
\* rows after the cursor, in the order of their ids. One that finds nothing is
\* the last, and the cursor is reset.
ReadBatch ==
  \/ Batch # {} /\ TakeBatch
  \/ /\ Batch = {}
     /\ Start(Sweep, Idle)
     /\ cursor' = 0
     /\ pass' = NoPass
     /\ UNCHANGED <<jobs, rows, restricted, cases, faults>>

\* A short batch was the last one. A pass out of batches leaves the cursor where
\* it is for the next pass.
EndBatch ==
  /\ actor[Sweep].at = "rows" /\ pass.batch = {}
  /\ Finish(Sweep)
  /\ cursor' = IF pass.last THEN 0 ELSE cursor
  /\ pass' = IF pass.last \/ pass.batches = MaxBatches THEN NoPass ELSE pass
  /\ UNCHANGED <<jobs, rows, restricted, cases, faults>>

\* The next row of the batch: a job under a case has its obligation paused.
SweepRow ==
  /\ actor[Sweep].at = "rows"
  /\ \E r \in pass.batch :
       /\ \A q \in pass.batch : r <= q
       /\ pass' = [pass EXCEPT !.batch = @ \ {r}]
       /\ Goes(Sweep, [actor[Sweep] EXCEPT
            !.row = r, !.job = rows[r].job,
            !.at = IF jobs[rows[r].job].case THEN "pause" ELSE "enforce"])
  /\ UNCHANGED <<jobs, rows, restricted, cursor, cases, faults>>

\* enforceCompletionWindow, enforceLegacyDue read the row afresh in a
\* Serializable transaction. Where a case is open by now they pause; that
\* transaction conflicts with the case's, so that it is one step.
EnforcePauses ==
  LET j == actor[Sweep].job
      r == actor[Sweep].row
  IN  /\ actor[Sweep].at = "enforce"
      /\ rows[r].status \in Open /\ jobs[j].case
      /\ rows' = RowsWith(Newest(j, Open), "PAUSED")
      /\ restricted' = RestrictedAfterPause(rows', j)
      /\ Goes(Sweep, Returned(Sweep))
      /\ UNCHANGED <<jobs, pass, cursor, cases, faults>>

\* Otherwise they restrict once the window (without one: the due date) has
\* begun, and mark the row once it is overdue. What is read here is written at
\* the commit, if nobody wrote the same rows in between.
EnforceRead ==
  LET j == actor[Sweep].job
      r == actor[Sweep].row
  IN  /\ actor[Sweep].at = "enforce"
      /\ ~(rows[r].status \in Open /\ jobs[j].case)
      /\ IF rows[r].status \in Open /\ ~jobs[j].paid /\ ~jobs[j].closed
              /\ RestrictionStarted(rows[r])
         THEN /\ Goes(Sweep, [actor[Sweep] EXCEPT !.at = "enforcing"])
              /\ pass' = [pass EXCEPT !.overdue = rows[r].phase = 2 /\ rows[r].status = "DUE",
                                      !.restrict = ~restricted]
         ELSE Goes(Sweep, Returned(Sweep)) /\ UNCHANGED pass
      /\ UNCHANGED <<jobs, rows, restricted, cursor, cases, faults>>

Conflict == \/ pass.overdue /\ rows[actor[Sweep].row].status # "DUE"
            \/ pass.restrict /\ restricted

EnforceCommit ==
  /\ actor[Sweep].at = "enforcing" /\ ~Conflict
  /\ rows' = IF pass.overdue THEN RowsWith(actor[Sweep].row, "OVERDUE") ELSE rows
  /\ restricted' = (restricted \/ pass.restrict)
  /\ Goes(Sweep, Returned(Sweep))
  /\ pass' = [pass EXCEPT !.overdue = FALSE, !.restrict = FALSE]
  /\ UNCHANGED <<jobs, cursor, cases, faults>>

\* The transaction cannot be serialised, or fails for another reason: the row
\* is left to the next pass.
RowFails ==
  /\ actor[Sweep].at = "enforcing"
  /\ faults' = IF Conflict THEN faults ELSE faults + 1
  /\ faults' <= MaxFaults
  /\ Goes(Sweep, Returned(Sweep))
  /\ pass' = [pass EXCEPT !.overdue = FALSE, !.restrict = FALSE]
  /\ UNCHANGED <<jobs, rows, restricted, cursor, cases>>

\* The server stops: its requests, the pass and the cursor are gone.
Crash ==
  /\ faults < MaxFaults
  /\ faults' = faults + 1
  /\ actor' = [a \in Actors |-> Idle]
  /\ pass' = NoPass
  /\ cursor' = 0
  /\ UNCHANGED <<jobs, rows, restricted, cases>>

----------------------------------------------------------------------------

SharedNext(a) ==
  PauseRead(a) \/ PauseWrite(a) \/ ReadOwed(a) \/ Lift(a) \/ \E j \in Jobs : CheckCase(a, j)

RequestNext(w) ==
  \/ EnsureRead(w) \/ EnsureCreate(w) \/ Reconciled(w) \/ ReadUser(w) \/ Allow(w) \/ Answer(w)
  \/ \E j \in Jobs : ReconcileRow(w, j)
  \/ SharedNext(w)

SweepNext ==
  \/ ReadBatch \/ EndBatch
  \/ SweepRow \/ EnforcePauses \/ EnforceRead \/ EnforceCommit \/ RowFails
  \/ SharedNext(Sweep)

Requested(w) ==
  \E j \in Jobs : MarkComplete(w, j) \/ BookPayment(w, j) \/ ReleaseFunds(w, j) \/ ReadJob(w, j)

Environment ==
  \/ \E r \in Ids : TimePasses(r)
  \/ \E j \in Jobs : OpenCase(j) \/ ResolveResuming(j) \/ ResolveCancelling(j)
  \/ Crash

\* The history: while a request is in the gate, the jobs seen owing nothing.
InGate(w) == \/ actor[w].at \in {"reconcile", "user", "owes", "owing", "allowed"}
             \/ actor[w].next \in {"reconcile", "user"}
Watch == clearSince' = [w \in Watched |->
           IF InGate(w)' THEN clearSince[w] \cup {j \in Jobs : ~Owes(j)'} ELSE {}]

Next ==
  /\ \/ \E w \in Workers : RequestNext(w) \/ Requested(w) \/ StartGate(w)
     \/ SweepNext
     \/ Environment
  /\ Watch

Spec == Init /\ [][Next]_vars

\* Requests and the pass run on; the timer fires hourly; a customer who is
\* refused asks again.
FairSpec ==
  /\ Spec
  /\ WF_vars(SweepNext /\ Watch)
  /\ \A w \in Workers : WF_vars(RequestNext(w) /\ Watch)
  /\ SF_vars((\E w \in Workers : StartGate(w)) /\ Watch)

----------------------------------------------------------------------------
(* What must hold *)

JobStates == [due : BOOLEAN, paid : BOOLEAN, closed : BOOLEAN, case : BOOLEAN]
Rows == [job : Jobs \cup {NoJob}, status : {"NONE", "PAUSED"} \cup Open \cup ClosedStates,
         window : BOOLEAN, phase : 0..2, born : Nat]
Passes == [batch : SUBSET Ids, batches : Nat, last : BOOLEAN, overdue : BOOLEAN,
           restrict : BOOLEAN]
Steps == {"idle", "ensure", "create", "pause", "pausing", "clear", "clearing", "reconcile", "user",
          "owes", "owing", "allowed", "refused", "rows", "enforce", "enforcing"}

ActorStates == [at : Steps, next : {"idle", "reconcile", "user", "rows"},
                job : Jobs \cup {NoJob}, window : BOOLEAN, row : Ids \cup {0},
                queue : SUBSET (Jobs \cup {NoJob}), left : SUBSET Jobs]

\* Every row and every step is one of those the code knows.
TypeOK ==
  /\ jobs \in [Jobs -> JobStates]
  /\ rows \in [Ids -> Rows]
  /\ restricted \in BOOLEAN
  /\ actor \in [Actors -> ActorStates]
  /\ pass \in Passes
  /\ cursor \in Ids \cup {0}
  /\ cases \in 0..MaxCases /\ faults \in 0..MaxFaults
  /\ clearSince \in [Watched -> SUBSET Jobs]

\* The debts of a customer who is let through the gate were not there, each at
\* some moment while the request passed it: no restriction lifted or not yet set
\* by the sweep, and no case closing meanwhile, lets one through who owed all along.
AllowedOwedNothing ==
  \A w \in Watched : actor[w].at = "allowed" => clearSince[w] = Jobs

\* An obligation that was paid or cancelled is never opened again, whatever a
\* pause, a resolution or the sweep read before.
ClosedStaysClosed ==
  [][\A r \in Ids : rows[r].status \in ClosedStates => rows'[r].status = rows[r].status]_vars

\* A customer who goes on owing ends up restricted for good, though rows fail,
\* passes are cut short, the server stops, and requests lift the restriction
\* on what they read before.
OwedStaysRestricted == <>[](\E j \in Jobs : Owes(j)) => <>[]restricted

\* A customer who owes nothing any more is not refused for ever: a restriction
\* left behind by a lost request or a late sweep is lifted at the gate.
ClearCustomerIsAllowed ==
  <>[](\A j \in Jobs : ~Owes(j)) => []<>(\E w \in Workers : actor[w].at = "allowed")

================================================================================
