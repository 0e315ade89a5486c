-------------------------- MODULE SettlementReconcile --------------------------
(***************************************************************************)
(* How payouts of one recipient's gateway account are recognised           *)
(* (services/payments/paystack.settlementReconcile.service.js and          *)
(* paystack.settlementAmountMatch.js). The gateway pays out in settlements *)
(* of its own making; the server polls them (every 15 minutes, when a      *)
(* provider opens the earnings page, when an admin asks), links each to    *)
(* the payments it covers and copies its status onto them. A pass works on *)
(* the list it was given at its start, and passes overlap. When the        *)
(* gateway does not say which transactions a settlement covers, the pass   *)
(* works it out from the amounts.                                          *)
(***************************************************************************)
EXTENDS Integers, FiniteSets, SequencesExt

CONSTANTS
  Payments,    \* payments of the account, numbered in the order of their ids
  Settlements, \* settlements the gateway makes, in the order of their ids
  NoSettlement,
  Net,         \* what the recipient gets of each payment, in cents
  Passes,      \* reconcile passes that may run at once
  Timer,       \* the one the timer starts
  DayOf,       \* the day of each moment
  Reported,    \* bound: statuses the gateway gives its settlements
  MaxFaults    \* bound: answers that do not come or do not say, and stops

ASSUME PaymentsAssumption ==
  Payments \subseteq Nat /\ IsFiniteSet(Payments) /\ Net \in [Payments -> Nat \ {0}]
ASSUME SettlementsAssumption ==
  Settlements \subseteq Nat /\ IsFiniteSet(Settlements) /\ NoSettlement \notin Settlements
ASSUME PassesAssumption == Timer \in Passes /\ MaxFaults \in Nat
ASSUME DaysAssumption == DOMAIN DayOf \subseteq Nat \ {0}
ASSUME ReportedAssumption == Reported \subseteq {"pending", "processing", "success", "failed", "reversed"}

VARIABLES
  settlement,  \* the gateway's settlements: status, payments covered, day
  clock,       \* the moment; the server stamps paidAt with it
  intent,      \* the PaymentIntents: paidAt, payout status, settlement, fee known
  local,       \* GatewayPayoutSettlement.status
  pass,        \* the rows a pass has left, and what it found for the first
  faults

vars == <<settlement, clock, intent, local, pass, faults>>

Words == {"pending", "processing", "success", "failed", "reversed"}
Statuses == {"PENDING", "PROCESSING", "SETTLED", "FAILED", "REVERSED"}
NotYet == "NONE"

\* mapPaystackSettlementApiStatus
Mapped == [pending |-> "PENDING", processing |-> "PROCESSING", success |-> "SETTLED",
           failed |-> "FAILED", reversed |-> "REVERSED"]

\* at the gateway: where a settlement goes from each status, and where it has been
Onward == [pending |-> {"processing", "success", "failed"}, processing |-> {"success", "failed"},
           success |-> {"reversed"}, failed |-> {}, reversed |-> {}]
Been == [pending |-> {"pending"}, processing |-> {"pending", "processing"},
         success |-> {"pending", "processing", "success"},
         failed |-> {"pending", "processing", "failed"},
         reversed |-> {"pending", "processing", "success", "reversed"}]

Made == {s \in Settlements : settlement[s].word \in Words}

NotMade == [word |-> NotYet, covers |-> {}, day |-> 0]
Unpaid == [paidAt |-> 0, payout |-> "NOT_APPLICABLE", linked |-> NoSettlement, netKnown |-> FALSE]
Holding(rows) == [rows |-> rows, found |-> {}]
Resting == Holding(<< >>)

Init ==
  /\ settlement = [s \in Settlements |-> NotMade]
  /\ clock \in DOMAIN DayOf /\ \A t \in DOMAIN DayOf : clock <= t
  /\ intent = [p \in Payments |-> Unpaid]
  /\ local = [s \in Settlements |-> NotYet]
  /\ pass = [w \in Passes |-> Resting]
  /\ faults = 0

----------------------------------------------------------------------------
(* The gateway, and the payments the server learns of *)

\* a new settlement of payments not yet paid out, later in the list than the others
GatewaySettles(s, covered) ==
  /\ s \notin Made /\ \A q \in Settlements : q < s => q \in Made
  /\ covered # {} /\ \A q \in Made : covered \cap settlement[q].covers = {}
  /\ settlement' = [settlement EXCEPT ![s] = [word |-> "pending", covers |-> covered, day |-> DayOf[clock]]]
  /\ UNCHANGED <<clock, intent, local, pass, faults>>

GatewayMoves(s) ==
  /\ s \in Made
  /\ \E word \in Onward[settlement[s].word] \cap Reported : settlement' = [settlement EXCEPT ![s].word = word]
  /\ UNCHANGED <<clock, intent, local, pass, faults>>

TimePasses ==
  /\ clock + 1 \in DOMAIN DayOf
  /\ clock' = clock + 1
  /\ UNCHANGED <<settlement, intent, local, pass, faults>>

\* (mutant: a charge counts as payout processing)
RecordAsProcessing(p, feeKnown) ==
  /\ intent[p].paidAt = 0
  /\ intent' = [intent EXCEPT ![p].paidAt = clock, ![p].payout = "PROCESSING", ![p].netKnown = @ \/ feeKnown]
  /\ UNCHANGED <<settlement, clock, local, pass, faults>>

\* the charge webhook marks the intent paid: the payout starts over as PENDING, a
\* settlement found before stays linked. The evidence may leave the fee open
\* (payoutColumnsForPaidIntent).
RecordPayment(p, feeKnown) ==
  /\ intent[p].paidAt = 0
  /\ intent' = [intent EXCEPT ![p].paidAt = clock, ![p].payout = "PENDING", ![p].netKnown = @ \/ feeKnown]
  /\ UNCHANGED <<settlement, clock, local, pass, faults>>

\* backfillProcessorFeeFromStoredEvidence and ...FromVerify
BackfillFee(p) ==
  /\ intent[p].paidAt # 0 /\ ~intent[p].netKnown
  /\ intent' = [intent EXCEPT ![p].netKnown = TRUE]
  /\ UNCHANGED <<settlement, clock, local, pass, faults>>
----------------------------------------------------------------------------
(* Working out from the amounts what a settlement covers *)

Amount(ps) == SumFunctionOnSet(Net, ps)

\* collectAmountFallbackCandidates: paid, not after the day of the settlement,
\* not in another settlement, and with a known net
Eligible(s) ==
  {p \in Payments :
     /\ intent[p].paidAt # 0 /\ DayOf[intent[p].paidAt] <= settlement[s].day
     /\ \/ intent[p].linked = NoSettlement /\ intent[p].payout \in {"PENDING", "PROCESSING", "FAILED"}
        \/ intent[p].linked = s
     /\ intent[p].netKnown}

\* oldest first, ties by id
Before(p, q) == \/ intent[p].paidAt < intent[q].paidAt
                \/ intent[p].paidAt = intent[q].paidAt /\ p < q

UpTo(q, candidates) == {p \in candidates : p = q \/ Before(p, q)}

\* uniqueChronologicalPrefix: the payments at which the running sum meets the
\* target (one at most, what they get being positive)
Cuts(candidates, target) == {q \in candidates : Amount(UpTo(q, candidates)) = target}

Tied(q, candidates) == \E p \in candidates : Before(q, p) /\ intent[p].paidAt = intent[q].paidAt

\* (mutant: a prefix may end between two payments of the same moment)
MatchedThroughTies(candidates, target) ==
  LET cuts == Cuts(candidates, target)
      singles == {p \in candidates : Net[p] = target}
      single == IF Cardinality(singles) = 1 THEN singles ELSE {}
      prefix == UNION {UpTo(q, candidates) : q \in cuts}
  IN  IF single # {} /\ prefix # {} /\ single # prefix THEN {}
      ELSE IF single # {} THEN single ELSE prefix

\* evaluateSettlementAmountMatch: the payments the settlement is taken to cover
Matched(candidates, target) ==
  LET cuts == Cuts(candidates, target)
      singles == {p \in candidates : Net[p] = target}
      single == IF Cardinality(singles) = 1 THEN singles ELSE {}
      prefix == UNION {UpTo(q, candidates) : q \in cuts}
  IN  IF \/ \E q \in cuts : Tied(q, candidates)
         \/ single # {} /\ prefix # {} /\ single # prefix
      THEN {}
      ELSE IF single # {} THEN single ELSE prefix

----------------------------------------------------------------------------
(* A reconcile pass *)

\* settlements as the gateway lists them now
Listed(ids) == [i \in DOMAIN ids |-> [id |-> ids[i], word |-> settlement[ids[i]].word]]
OldestFirst(ids) == \A i, j \in DOMAIN ids : i < j => ids[i] < ids[j]

\* reconcileRecentPaystackSettlements, reconcilePaystackSubaccountSettlements
List(w) ==
  /\ pass[w].rows = << >>
  /\ \E ids \in SetToSeqs(Made) :
       OldestFirst(ids) /\ pass' = [pass EXCEPT ![w] = Holding(Listed(ids))]
  /\ UNCHANGED <<settlement, clock, intent, local, faults>>

\* reconcilePaystackSettlementById: not what the timer asks for
ListOne(w, s) ==
  /\ w # Timer /\ pass[w].rows = << >> /\ s \in Made
  /\ pass' = [pass EXCEPT ![w] = Holding(Listed(<<s>>))]
  /\ UNCHANGED <<settlement, clock, intent, local, faults>>

\* a page that fails ends the list: the rows so far, unsorted
ListCutShort(w) ==
  /\ pass[w].rows = << >> /\ faults < MaxFaults
  /\ \E ss \in SUBSET Made : \E ids \in SetToSeqs(ss) :
       pass' = [pass EXCEPT ![w] = Holding(Listed(ids))]
  /\ faults' = faults + 1
  /\ UNCHANGED <<settlement, clock, intent, local>>

AtRow(w) == pass[w].rows # << >> /\ pass[w].found = {}
NextRow(w) == Holding(Tail(pass[w].rows))

\* applySettlementAmountFallback when the gateway names none
MatchByAmount(w) ==
  LET s == Head(pass[w].rows).id
      found == Matched(Eligible(s), Amount(settlement[s].covers))
  IN  /\ AtRow(w) /\ faults < MaxFaults
      /\ pass' = [pass EXCEPT ![w] = IF found = {} THEN NextRow(w) ELSE [@ EXCEPT !.found = found]]
      /\ faults' = faults + 1
      /\ UNCHANGED <<settlement, clock, intent, local>>

\* the call fails, or the row does: on to the next
SkipRow(w) ==
  /\ AtRow(w) /\ faults < MaxFaults
  /\ pass' = [pass EXCEPT ![w] = NextRow(w)]
  /\ faults' = faults + 1
  /\ UNCHANGED <<settlement, clock, intent, local>>

\* applyPaystackSettlementRow: the payments the gateway names, whatever the state of
\* their intents, unless it named none and the amounts were asked. What it names
\* does not change: the question is part of the step that uses the answer.
Covered(w) == IF pass[w].found = {} THEN settlement[Head(pass[w].rows).id].covers ELSE pass[w].found

\* (mutant: a settlement whose status is known already is left as it is)
LinkWhenChanged(w) ==
  LET row == Head(pass[w].rows)
      status == Mapped[row.word]
  IN  /\ pass[w].rows # << >>
      /\ local' = [local EXCEPT ![row.id] = status]
      /\ intent' = [p \in Payments |->
                      IF p \notin Covered(w) \/ local[row.id] = status THEN intent[p]
                      ELSE [intent[p] EXCEPT !.linked = row.id, !.payout = status,
                                             !.netKnown = TRUE]]
      /\ pass' = [pass EXCEPT ![w] = NextRow(w)]
      /\ UNCHANGED <<settlement, clock, faults>>

\* (mutant: the gateway's word is stored as it came)
LinkUnmapped(w) ==
  LET row == Head(pass[w].rows)
  IN  /\ pass[w].rows # << >>
      /\ local' = [local EXCEPT ![row.id] = row.word]
      /\ intent' = [p \in Payments |->
                      IF p \notin Covered(w) THEN intent[p]
                      ELSE [intent[p] EXCEPT !.linked = row.id, !.payout = row.word]]
      /\ pass' = [pass EXCEPT ![w] = NextRow(w)]
      /\ UNCHANGED <<settlement, clock, faults>>

\* finalizeLinkedPaystackSettlement, one transaction: the status of the list, on
\* the payments the settlement covers or was found to cover; their fee is known then, from the
\* transactions if not before
Link(w) ==
  LET row == Head(pass[w].rows)
      status == Mapped[row.word]
  IN  /\ pass[w].rows # << >>
      /\ local' = [local EXCEPT ![row.id] = status]
      /\ intent' = [p \in Payments |->
                      IF p \notin Covered(w) THEN intent[p]
                      ELSE [intent[p] EXCEPT !.linked = row.id, !.payout = status,
                                             !.netKnown = TRUE]]
      /\ pass' = [pass EXCEPT ![w] = NextRow(w)]
      /\ UNCHANGED <<settlement, clock, faults>>

\* the server stops: the pass is gone
Stop(w) ==
  /\ pass[w] # Resting /\ faults < MaxFaults
  /\ pass' = [pass EXCEPT ![w] = Resting]
  /\ faults' = faults + 1
  /\ UNCHANGED <<settlement, clock, intent, local>>

Gateway ==
  \/ \E s \in Settlements, covered \in SUBSET Payments : GatewaySettles(s, covered)
  \/ \E s \in Settlements : GatewayMoves(s)
  \/ TimePasses

Recording ==
  \/ \E p \in Payments, feeKnown \in BOOLEAN : RecordPayment(p, feeKnown)
  \/ \E p \in Payments : BackfillFee(p)

Reconcile(w) ==
  \/ List(w) \/ Link(w)
  \/ ListCutShort(w) \/ MatchByAmount(w) \/ SkipRow(w) \/ Stop(w)
  \/ \E s \in Settlements : ListOne(w, s)

Next == Gateway \/ Recording \/ \E w \in Passes : Reconcile(w)

Spec == Init /\ [][Next]_vars

\* paystackSettlementReconcile.job.js: at the start, then every fifteen minutes,
\* and a pass always goes on to its next row
FairSpec == Spec /\ WF_vars(List(Timer) \/ Link(Timer))

----------------------------------------------------------------------------
(* Properties *)

Moments == DOMAIN DayOf
Rows == [id : Settlements, word : Words]

\* The types of the gateway's settlements, the intents, the local rows and the
\* passes.
TypeOK ==
  /\ settlement \in [Settlements -> [word : Words \cup {NotYet}, covers : SUBSET Payments,
                                     day : Range(DayOf) \cup {0}]]
  /\ clock \in Moments
  /\ intent \in [Payments -> [paidAt : Moments \cup {0},
                              payout : Statuses \cup {"NOT_APPLICABLE"},
                              linked : Settlements \cup {NoSettlement}, netKnown : BOOLEAN]]
  /\ local \in [Settlements -> Statuses \cup {NotYet}]
  /\ pass \in [Passes -> [rows : Seq(Rows), found : SUBSET Payments]]
  /\ faults \in 0..MaxFaults

\* What the gateway has said of a settlement so far.
Said(s) == {Mapped[word] : word \in Been[settlement[s].word]}

\* No pass, however late it works on its list, and no charge webhook that comes
\* after the settlement was found, makes a payout or a settlement row show what
\* the gateway has not said of the settlement it is linked to; a payment without
\* one shows nothing of a payout yet.
ShownWasSaid ==
  /\ \A s \in Settlements : local[s] # NotYet => s \in Made /\ local[s] \in Said(s)
  /\ \A p \in Payments :
       IF intent[p].linked = NoSettlement THEN intent[p].payout \in {"NOT_APPLICABLE", "PENDING"}
       ELSE intent[p].linked \in Made /\ intent[p].payout \in Said(intent[p].linked)

\* ps is a chronological prefix of the candidates, however ties are ordered
Prefix(ps, candidates) ==
  \A p \in ps, q \in candidates \ ps : intent[p].paidAt < intent[q].paidAt

\* The amount fallback fails closed: what it takes a settlement to cover adds up to
\* the settlement, and no other reading would do as well - no other prefix of the
\* open payments, no other single payment unless this is the oldest ones.
FallbackIsUnambiguous ==
  \A s \in Made :
    LET candidates == Eligible(s)
        target == Amount(settlement[s].covers)
        found == Matched(candidates, target)
        singles == {{p} : p \in {q \in candidates : Net[q] = target}}
    IN  found # {} =>
          /\ Amount(found) = target
          /\ found \in singles \/ Prefix(found, candidates)
          /\ \A ps \in SUBSET candidates : ps # found /\ Prefix(ps, candidates) => Amount(ps) # target
          /\ singles \subseteq {found} \/ (Prefix(found, candidates) /\ Cardinality(singles) > 1)

\* Passes that overlap, work on an old list, match by amount to the wrong payments,
\* stop half-way, and charge webhooks that reset a payout leave no lasting mark:
\* once the gateway answers, every payment of a settlement ends up linked to it and
\* shows its status.
PayoutsConverge ==
  \A p \in Payments :
    <>[](\A s \in Settlements :
           p \in settlement[s].covers =>
             intent[p].linked = s /\ intent[p].payout = Mapped[settlement[s].word])
==============================================================================
