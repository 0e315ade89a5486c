----------------------- MODULE SettlementReconcile_proofs -----------------------
(***************************************************************************)
(* For any number of payments, settlements, passes and faults: the types   *)
(* of SettlementReconcile, that no payout shows what the gateway has not   *)
(* said, and that the amount fallback is never in doubt. A pass holds      *)
(* statuses of the past; what is inductive is that each of them is one its *)
(* settlement has been in. The fallback needs no history: the running sum  *)
(* over the payments in their order grows strictly, so that it meets an    *)
(* amount at one payment at most.                                          *)
(***************************************************************************)
EXTENDS SettlementReconcile, SumLemmas, FiniteSetTheorems, TLAPS

\* every row a pass still holds is of a settlement that is made, in a status it
\* has been in; what was found was found for a row
RowsWereSaid ==
  \A w \in Passes :
    /\ pass[w].found # {} => pass[w].rows # << >>
    /\ \A i \in DOMAIN pass[w].rows :
         /\ pass[w].rows[i].id \in Made
         /\ pass[w].rows[i].word \in Been[settlement[pass[w].rows[i].id].word]

Inv == TypeOK /\ ShownWasSaid /\ RowsWereSaid

----------------------------------------------------------------------------
(* What the gateway's statuses have to do with each other *)

LEMMA WordsGrow ==
  \A word \in Words : /\ Mapped[word] \in Statuses
                      /\ Been[word] \subseteq Words
                      /\ word \in Been[word]
                      /\ "pending" \in Been[word]
                      /\ Onward[word] \subseteq Words
                      /\ \A next \in Onward[word] : Been[word] \subseteq Been[next]
BY DEF Words, Mapped, Been, Onward, Statuses

\* What a list holds: settlements of ss, as they stand.
LEMMA ListedRows ==
  ASSUME TypeOK, NEW ss \in SUBSET Made, NEW ids \in SetToSeqs(ss)
  PROVE  /\ Listed(ids) \in Seq(Rows)
         /\ \A i \in DOMAIN Listed(ids) :
              /\ Listed(ids)[i].id \in Made
              /\ Listed(ids)[i].word = settlement[Listed(ids)[i].id].word
<1>1. IsFiniteSet(ss)
  BY SettlementsAssumption, FS_Subset DEF Made
<1>2. Cardinality(ss) \in Nat
  BY <1>1, FS_CardinalityType
<1>3. ids \in [1..Cardinality(ss) -> ss]
  BY DEF SetToSeqs
<1>4. \A i \in 1..Cardinality(ss) : ids[i] \in Made /\ ids[i] \in Settlements
                                   /\ settlement[ids[i]].word \in Words
  BY <1>3 DEF Made
<1>5. Listed(ids) \in [1..Cardinality(ss) -> Rows]
  BY <1>3, <1>4 DEF Listed, Rows
<1>6. Listed(ids) \in Seq(Rows)
  BY <1>2, <1>5
<1> QED
  BY <1>3, <1>4, <1>6 DEF Listed

LEMMA ListedRow ==
  ASSUME TypeOK, NEW s \in Made
  PROVE  /\ Listed(<<s>>) \in Seq(Rows)
         /\ \A i \in DOMAIN Listed(<<s>>) :
              /\ Listed(<<s>>)[i].id \in Made
              /\ Listed(<<s>>)[i].word = settlement[Listed(<<s>>)[i].id].word
<1>1. s \in Settlements /\ settlement[s].word \in Words
  BY DEF Made
<1> DEFINE row == [id |-> s, word |-> settlement[s].word]
<1>2. DOMAIN <<s>> = {1} /\ <<s>>[1] = s
  OBVIOUS
<1>3. Listed(<<s>>) = [i \in {1} |-> row]
  BY <1>2 DEF Listed
<1>4. DOMAIN Listed(<<s>>) = {1} /\ Listed(<<s>>)[1] = row
  BY <1>3
<1>5. row \in Rows
  BY <1>1 DEF Rows
<1>6. 1..1 = {1}
  OBVIOUS
<1>7. Listed(<<s>>) \in [1..1 -> Rows]
  BY <1>3, <1>5, <1>6
<1>8. \A n \in Nat : [1..n -> Rows] \subseteq Seq(Rows)
  OBVIOUS
<1>9. Listed(<<s>>) \in Seq(Rows)
  BY <1>7, <1>8
<1> QED
  BY <1>4, <1>9

\* What is left of a list when a row is done with.
LEMMA TailOfRows ==
  ASSUME NEW rows \in Seq(Rows), rows # << >>
  PROVE  /\ Head(rows) = rows[1] /\ Head(rows) \in Rows /\ 1 \in DOMAIN rows
         /\ Tail(rows) \in Seq(Rows)
         /\ \A i \in DOMAIN Tail(rows) : i + 1 \in DOMAIN rows /\ Tail(rows)[i] = rows[i + 1]
OBVIOUS

----------------------------------------------------------------------------
(* Steps that move one part of the state *)

\* The gateway goes on: what it has said of a settlement, it has said for good.
LEMMA GatewayGoesOn ==
  ASSUME Inv, UNCHANGED <<intent, local, pass>>,
         \A s \in Made : s \in Made' /\ Been[settlement[s].word] \subseteq Been[settlement'[s].word]
  PROVE  ShownWasSaid' /\ RowsWereSaid'
<1>1. \A s \in Made : s \in Made' /\ Said(s) \subseteq Said(s)'
  BY DEF Said
<1>2. ShownWasSaid'
  BY <1>1 DEF Inv, ShownWasSaid
<1>3. RowsWereSaid'
  BY DEF Inv, RowsWereSaid
<1> QED
  BY <1>2, <1>3

\* A pass is given other rows.
LEMMA OtherRows ==
  ASSUME Inv, NEW w \in Passes, NEW rows \in Seq(Rows), UNCHANGED settlement,
         pass' = [pass EXCEPT ![w] = Holding(rows)],
         \A i \in DOMAIN rows : /\ rows[i].id \in Made
                                /\ rows[i].word \in Been[settlement[rows[i].id].word]
  PROVE  /\ pass' \in [Passes -> [rows : Seq(Rows), found : SUBSET Payments]]
         /\ RowsWereSaid'
<1>1. Holding(rows) = [rows |-> rows, found |-> {}]
  BY DEF Holding
<1>2. pass' = [pass EXCEPT ![w] = [rows |-> rows, found |-> {}]]
  BY <1>1
<1>3. pass' \in [Passes -> [rows : Seq(Rows), found : SUBSET Payments]]
  BY <1>2 DEF Inv, TypeOK
<1>4. \A v \in Passes : pass'[v] = IF v = w THEN [rows |-> rows, found |-> {}] ELSE pass[v]
  BY <1>2 DEF Inv, TypeOK
<1>5. Made' = Made
  BY DEF Made
<1>6. RowsWereSaid'
  BY <1>4, <1>5 DEF Inv, RowsWereSaid
<1> QED
  BY <1>3, <1>6

\* A pass goes on to its next row.
LEMMA NextRowOfPass ==
  ASSUME Inv, NEW w \in Passes, pass[w].rows # << >>, UNCHANGED settlement,
         pass' = [pass EXCEPT ![w] = NextRow(w)]
  PROVE  /\ pass' \in [Passes -> [rows : Seq(Rows), found : SUBSET Payments]]
         /\ RowsWereSaid'
<1> DEFINE rows == Tail(pass[w].rows)
<1>1. pass[w].rows \in Seq(Rows)
  BY DEF Inv, TypeOK
<1>2. /\ rows \in Seq(Rows)
      /\ \A i \in DOMAIN rows : i + 1 \in DOMAIN pass[w].rows /\ rows[i] = pass[w].rows[i + 1]
  BY <1>1, TailOfRows
<1>3. \A i \in DOMAIN rows : /\ rows[i].id \in Made
                             /\ rows[i].word \in Been[settlement[rows[i].id].word]
  BY <1>2 DEF Inv, RowsWereSaid
<1>4. pass' = [pass EXCEPT ![w] = Holding(rows)]
  BY DEF NextRow
<1> HIDE DEF rows
<1> QED
  BY <1>2, <1>3, <1>4, OtherRows

\* A row is matched.
LEMMA RowMatched ==
  ASSUME Inv, NEW w \in Passes, NEW found \in SUBSET Payments, pass[w].rows # << >>,
         UNCHANGED settlement, pass' = [pass EXCEPT ![w] = [@ EXCEPT !.found = found]]
  PROVE  /\ pass' \in [Passes -> [rows : Seq(Rows), found : SUBSET Payments]]
         /\ RowsWereSaid'
<1>1. pass' \in [Passes -> [rows : Seq(Rows), found : SUBSET Payments]]
  BY DEF Inv, TypeOK
<1>2. \A v \in Passes : /\ pass'[v].rows = pass[v].rows
                        /\ v # w => pass'[v].found = pass[v].found
  BY DEF Inv, TypeOK
<1>3. Made' = Made
  BY DEF Made
<1>4. RowsWereSaid'
  BY <1>2, <1>3 DEF Inv, RowsWereSaid
<1> QED
  BY <1>1, <1>4

\* One value of a function of records changes.
LEMMA IntentChanged ==
  ASSUME Inv, NEW p \in Payments, NEW new,
         new \in [paidAt : Moments \cup {0}, payout : Statuses \cup {"NOT_APPLICABLE"},
                  linked : Settlements \cup {NoSettlement}, netKnown : BOOLEAN],
         new.linked = intent[p].linked,
         \/ new.payout = intent[p].payout
         \/ new.payout = "PENDING",
         intent' = [intent EXCEPT ![p] = new], UNCHANGED <<settlement, clock, local, pass, faults>>
  PROVE  Inv'
<1>1. intent' \in [Payments -> [paidAt : Moments \cup {0}, payout : Statuses \cup {"NOT_APPLICABLE"},
                                linked : Settlements \cup {NoSettlement}, netKnown : BOOLEAN]]
  BY DEF Inv, TypeOK
<1>2. TypeOK'
  BY <1>1 DEF Inv, TypeOK, Moments, Rows
<1>3. \A q \in Payments : intent'[q] = IF q = p THEN new ELSE intent[q]
  BY DEF Inv, TypeOK
<1>4. \A s \in Made : "PENDING" \in Said(s)
  <2> SUFFICES ASSUME NEW s \in Made PROVE "PENDING" \in Said(s)
    OBVIOUS
  <2>1. "pending" \in Been[settlement[s].word]
    BY WordsGrow DEF Made
  <2>2. Mapped["pending"] = "PENDING"
    BY DEF Mapped
  <2> QED
    BY <2>1, <2>2 DEF Said
<1>5. Made' = Made /\ \A s : Said(s)' = Said(s)
  BY DEF Made, Said
<1>6. \A q \in Payments :
       IF intent'[q].linked = NoSettlement THEN intent'[q].payout \in {"NOT_APPLICABLE", "PENDING"}
       ELSE intent'[q].linked \in Made' /\ intent'[q].payout \in Said(intent[q].linked)'
  BY <1>3, <1>4, <1>5 DEF Inv, ShownWasSaid
<1>7. ShownWasSaid'
  BY <1>5, <1>6 DEF Inv, ShownWasSaid
<1>8. RowsWereSaid'
  BY <1>5 DEF Inv, RowsWereSaid
<1> QED
  BY <1>2, <1>7, <1>8 DEF Inv

----------------------------------------------------------------------------
(* Every step keeps the invariant *)

LEMMA InitHolds == Init => Inv
<1> SUFFICES ASSUME Init PROVE Inv
  OBVIOUS
<1>1. TypeOK
  <2>1. settlement \in [Settlements -> [word : Words \cup {NotYet}, covers : SUBSET Payments,
                                        day : Range(DayOf) \cup {0}]]
    BY DEF Init, NotMade
  <2>2. intent \in [Payments -> [paidAt : Moments \cup {0}, payout : Statuses \cup {"NOT_APPLICABLE"},
                                 linked : Settlements \cup {NoSettlement}, netKnown : BOOLEAN]]
    BY DEF Init, Unpaid
  <2>3. pass \in [Passes -> [rows : Seq(Rows), found : SUBSET Payments]]
    BY DEF Init, Resting, Holding
  <2>4. faults \in 0..MaxFaults
    BY PassesAssumption DEF Init
  <2> QED
    BY <2>1, <2>2, <2>3, <2>4 DEF Init, TypeOK, Moments
<1>2. ShownWasSaid
  BY DEF Init, ShownWasSaid, Unpaid
<1>3. RowsWereSaid
  BY DEF Init, RowsWereSaid, Resting, Holding
<1> QED
  BY <1>1, <1>2, <1>3 DEF Inv

LEMMA GatewaySettlesKeeps ==
  ASSUME Inv, NEW s \in Settlements, NEW covered \in SUBSET Payments, GatewaySettles(s, covered)
  PROVE  Inv'
<1> DEFINE new == [word |-> "pending", covers |-> covered, day |-> DayOf[clock]]
<1>1. settlement' = [settlement EXCEPT ![s] = new] /\ s \notin Made
  BY DEF GatewaySettles
<1>2. "pending" \in Words
  BY DEF Words
<1>3. DayOf[clock] \in Range(DayOf)
  BY DEF Inv, TypeOK, Moments, Range
<1>4. new \in [word : Words \cup {NotYet}, covers : SUBSET Payments, day : Range(DayOf) \cup {0}]
  BY <1>2, <1>3
<1>5. settlement' \in [Settlements -> [word : Words \cup {NotYet}, covers : SUBSET Payments,
                                       day : Range(DayOf) \cup {0}]]
  BY <1>1, <1>4 DEF Inv, TypeOK
<1>6. TypeOK'
  BY <1>5 DEF Inv, TypeOK, GatewaySettles, Moments, Rows
<1>7. \A q \in Made : q \in Made' /\ settlement'[q] = settlement[q]
  BY <1>1 DEF Inv, TypeOK, Made
<1>8. ShownWasSaid' /\ RowsWereSaid'
  BY <1>7, GatewayGoesOn DEF GatewaySettles
<1> QED
  BY <1>6, <1>8 DEF Inv

LEMMA GatewayMovesKeeps ==
  ASSUME Inv, NEW s \in Settlements, GatewayMoves(s)
  PROVE  Inv'
<1>1. PICK word \in Onward[settlement[s].word] : settlement' = [settlement EXCEPT ![s].word = word]
  BY DEF GatewayMoves
<1>2. settlement[s].word \in Words
  BY DEF GatewayMoves, Made
<1>3. word \in Words /\ Been[settlement[s].word] \subseteq Been[word]
  BY <1>1, <1>2, WordsGrow
<1>4. TypeOK'
  <2> DEFINE new == [settlement[s] EXCEPT !.word = word]
  <2>1. settlement' = [settlement EXCEPT ![s] = new]
    BY <1>1 DEF Inv, TypeOK
  <2>2. new \in [word : Words \cup {NotYet}, covers : SUBSET Payments, day : Range(DayOf) \cup {0}]
    <3>1. settlement[s] \in [word : Words \cup {NotYet}, covers : SUBSET Payments,
                             day : Range(DayOf) \cup {0}]
      BY DEF Inv, TypeOK
    <3> QED
      BY <1>3, <3>1
  <2> HIDE DEF new
  <2>3. settlement' \in [Settlements -> [word : Words \cup {NotYet}, covers : SUBSET Payments,
                                         day : Range(DayOf) \cup {0}]]
    BY <2>1, <2>2 DEF Inv, TypeOK
  <2> QED
    BY <2>3 DEF Inv, TypeOK, GatewayMoves, Moments, Rows
<1>5. \A q \in Made : q \in Made' /\ Been[settlement[q].word] \subseteq Been[settlement'[q].word]
  BY <1>1, <1>3 DEF Inv, TypeOK, Made
<1>6. ShownWasSaid' /\ RowsWereSaid'
  BY <1>5, GatewayGoesOn DEF GatewayMoves
<1> QED
  BY <1>4, <1>6 DEF Inv

LEMMA TimePassesKeeps ==
  ASSUME Inv, TimePasses
  PROVE  Inv'
<1>1. TypeOK'
  BY DEF Inv, TypeOK, TimePasses, Moments, Rows
<1>2. ShownWasSaid' /\ RowsWereSaid'
  BY GatewayGoesOn DEF TimePasses, Made
<1> QED
  BY <1>1, <1>2 DEF Inv

LEMMA RecordPaymentKeeps ==
  ASSUME Inv, NEW p \in Payments, NEW feeKnown \in BOOLEAN, RecordPayment(p, feeKnown)
  PROVE  Inv'
<1> DEFINE known == intent[p].netKnown \/ feeKnown
           new == [intent[p] EXCEPT !.paidAt = clock, !.payout = "PENDING", !.netKnown = known]
<1>1. known \in BOOLEAN
  OBVIOUS
<1>2. intent' = [intent EXCEPT ![p].paidAt = clock, ![p].payout = "PENDING", ![p].netKnown = known]
  BY DEF RecordPayment
<1> HIDE DEF known
<1>3. /\ new \in [paidAt : Moments \cup {0}, payout : Statuses \cup {"NOT_APPLICABLE"},
                  linked : Settlements \cup {NoSettlement}, netKnown : BOOLEAN]
      /\ new.linked = intent[p].linked /\ new.payout = "PENDING"
  <2>1. intent[p] \in [paidAt : Moments \cup {0}, payout : Statuses \cup {"NOT_APPLICABLE"},
                       linked : Settlements \cup {NoSettlement}, netKnown : BOOLEAN]
    BY DEF Inv, TypeOK
  <2>2. clock \in Moments /\ "PENDING" \in Statuses
    BY DEF Inv, TypeOK, Statuses
  <2> QED
    BY <1>1, <2>1, <2>2
<1>4. intent' = [intent EXCEPT ![p] = new]
  BY <1>2 DEF Inv, TypeOK
<1> HIDE DEF new
<1> QED
  BY <1>3, <1>4, IntentChanged DEF RecordPayment

LEMMA BackfillFeeKeeps ==
  ASSUME Inv, NEW p \in Payments, BackfillFee(p)
  PROVE  Inv'
<1> DEFINE new == [intent[p] EXCEPT !.netKnown = TRUE]
<1>1. new \in [paidAt : Moments \cup {0}, payout : Statuses \cup {"NOT_APPLICABLE"},
               linked : Settlements \cup {NoSettlement}, netKnown : BOOLEAN]
  <2>1. intent[p] \in [paidAt : Moments \cup {0}, payout : Statuses \cup {"NOT_APPLICABLE"},
                     linked : Settlements \cup {NoSettlement}, netKnown : BOOLEAN]
    BY DEF Inv, TypeOK
  <2> QED
    BY <2>1
<1>2. new.linked = intent[p].linked /\ new.payout = intent[p].payout
  BY DEF Inv, TypeOK
<1>3. intent' = [intent EXCEPT ![p] = new]
  BY DEF BackfillFee, Inv, TypeOK
<1> HIDE DEF new
<1> QED
  BY <1>1, <1>2, <1>3, IntentChanged DEF BackfillFee

\* A step of a pass that leaves the intents and the local rows alone.
LEMMA OnlyThePass ==
  ASSUME Inv, UNCHANGED <<settlement, clock, intent, local>>, faults' \in 0..MaxFaults,
         pass' \in [Passes -> [rows : Seq(Rows), found : SUBSET Payments]], RowsWereSaid'
  PROVE  Inv'
<1>1. TypeOK'
  BY DEF Inv, TypeOK, Moments, Rows
<1>2. ShownWasSaid'
  BY DEF Inv, ShownWasSaid, Said, Made
<1> QED
  BY <1>1, <1>2 DEF Inv

LEMMA ListKeeps ==
  ASSUME Inv, NEW w \in Passes, List(w) \/ ListCutShort(w)
  PROVE  Inv'
<1>1. PICK ss \in SUBSET Made : \E ids \in SetToSeqs(ss) : pass' = [pass EXCEPT ![w] = Holding(Listed(ids))]
  <2>1. CASE List(w)
    BY <2>1 DEF List
  <2>2. CASE ListCutShort(w)
    BY <2>2 DEF ListCutShort
  <2> QED
    BY <2>1, <2>2
<1>2. PICK ids \in SetToSeqs(ss) : pass' = [pass EXCEPT ![w] = Holding(Listed(ids))]
  BY <1>1
<1>3. UNCHANGED <<settlement, clock, intent, local>> /\ faults' \in 0..MaxFaults
  BY PassesAssumption DEF List, ListCutShort, Inv, TypeOK
<1>4. /\ Listed(ids) \in Seq(Rows)
      /\ \A i \in DOMAIN Listed(ids) : /\ Listed(ids)[i].id \in Made
                                       /\ Listed(ids)[i].word = settlement[Listed(ids)[i].id].word
  BY ListedRows DEF Inv
<1>5. \A i \in DOMAIN Listed(ids) : Listed(ids)[i].word \in Been[settlement[Listed(ids)[i].id].word]
  BY <1>4, WordsGrow DEF Made
<1>6. /\ pass' \in [Passes -> [rows : Seq(Rows), found : SUBSET Payments]]
      /\ RowsWereSaid'
  BY <1>2, <1>3, <1>4, <1>5, OtherRows
<1> QED
  BY <1>3, <1>6, OnlyThePass

LEMMA ListOneKeeps ==
  ASSUME Inv, NEW w \in Passes, NEW s \in Settlements, ListOne(w, s)
  PROVE  Inv'
<1>1. s \in Made /\ pass' = [pass EXCEPT ![w] = Holding(Listed(<<s>>))]
  BY DEF ListOne
<1>2. UNCHANGED <<settlement, clock, intent, local>> /\ faults' \in 0..MaxFaults
  BY DEF ListOne, Inv, TypeOK
<1>3. /\ Listed(<<s>>) \in Seq(Rows)
      /\ \A i \in DOMAIN Listed(<<s>>) : /\ Listed(<<s>>)[i].id \in Made
                                         /\ Listed(<<s>>)[i].word = settlement[Listed(<<s>>)[i].id].word
  BY <1>1, ListedRow DEF Inv
<1>4. \A i \in DOMAIN Listed(<<s>>) : Listed(<<s>>)[i].word \in Been[settlement[Listed(<<s>>)[i].id].word]
  BY <1>3, WordsGrow DEF Made
<1>5. /\ pass' \in [Passes -> [rows : Seq(Rows), found : SUBSET Payments]]
      /\ RowsWereSaid'
  BY <1>1, <1>2, <1>3, <1>4, OtherRows
<1> QED
  BY <1>2, <1>5, OnlyThePass

\* The fallback takes nothing but candidates.
LEMMA MatchedAreCandidates ==
  ASSUME NEW candidates, NEW target
  PROVE  Matched(candidates, target) \subseteq candidates
<1> DEFINE singles == {p \in candidates : Net[p] = target}
           single == IF Cardinality(singles) = 1 THEN singles ELSE {}
           prefix == UNION {UpTo(q, candidates) : q \in Cuts(candidates, target)}
<1>1. prefix \subseteq candidates
  BY DEF UpTo
<1>2. single \subseteq candidates
  OBVIOUS
<1>3. Matched(candidates, target) \in {single, prefix, {}}
  BY DEF Matched
<1> QED
  BY <1>1, <1>2, <1>3

LEMMA MatchKeeps ==
  ASSUME Inv, NEW w \in Passes, MatchByAmount(w) \/ SkipRow(w)
  PROVE  Inv'
<1>1. UNCHANGED <<settlement, clock, intent, local>> /\ faults' \in 0..MaxFaults
  BY PassesAssumption DEF MatchByAmount, SkipRow, Inv, TypeOK
<1>2. pass[w].rows # << >>
  BY DEF MatchByAmount, SkipRow, AtRow
<1>3. \/ \E found \in SUBSET Payments : pass' = [pass EXCEPT ![w] = [@ EXCEPT !.found = found]]
      \/ pass' = [pass EXCEPT ![w] = NextRow(w)]
  <2>1. CASE MatchByAmount(w)
    <3> DEFINE found == Matched(Eligible(Head(pass[w].rows).id),
                                Amount(settlement[Head(pass[w].rows).id].covers))
    <3>1. found \in SUBSET Payments
      <4>1. Eligible(Head(pass[w].rows).id) \subseteq Payments
        BY DEF Eligible
      <4> QED BY <4>1, MatchedAreCandidates
    <3>2. pass' = [pass EXCEPT ![w] = IF found = {} THEN NextRow(w) ELSE [@ EXCEPT !.found = found]]
      BY <2>1 DEF MatchByAmount
    <3> HIDE DEF found
    <3> QED
      BY <3>1, <3>2
  <2>2. CASE SkipRow(w)
    BY <2>2 DEF SkipRow
  <2> QED
    BY <2>1, <2>2
<1>4. /\ pass' \in [Passes -> [rows : Seq(Rows), found : SUBSET Payments]]
      /\ RowsWereSaid'
  BY <1>1, <1>2, <1>3, RowMatched, NextRowOfPass
<1> QED
  BY <1>1, <1>4, OnlyThePass

LEMMA LinkKeeps ==
  ASSUME Inv, NEW w \in Passes, Link(w)
  PROVE  Inv'
<1> DEFINE row == Head(pass[w].rows)
           status == Mapped[row.word]
<1>1. pass[w].rows # << >> /\ pass[w].rows \in Seq(Rows)
  BY DEF Link, Inv, TypeOK, RowsWereSaid
<1>2. row = pass[w].rows[1] /\ 1 \in DOMAIN pass[w].rows /\ row \in Rows
  BY <1>1, TailOfRows
<1>3. row.id \in Made /\ row.id \in Settlements /\ row.word \in Been[settlement[row.id].word]
  BY <1>2 DEF Inv, RowsWereSaid, Rows
<1>4. status \in Said(row.id) /\ status \in Statuses
  BY <1>2, <1>3, WordsGrow DEF Said, Rows
<1>5. /\ local' = [local EXCEPT ![row.id] = status]
      /\ intent' = [p \in Payments |->
                      IF p \notin Covered(w) THEN intent[p]
                      ELSE [intent[p] EXCEPT !.linked = row.id, !.payout = status, !.netKnown = TRUE]]
      /\ pass' = [pass EXCEPT ![w] = NextRow(w)]
      /\ UNCHANGED <<settlement, clock, faults>>
  BY DEF Link
<1> HIDE DEF row, status
<1>6. intent' \in [Payments -> [paidAt : Moments \cup {0}, payout : Statuses \cup {"NOT_APPLICABLE"},
                                linked : Settlements \cup {NoSettlement}, netKnown : BOOLEAN]]
  BY <1>3, <1>4, <1>5, ZenonT(30) DEF Inv, TypeOK
<1>7. local' \in [Settlements -> Statuses \cup {NotYet}]
  BY <1>3, <1>4, <1>5 DEF Inv, TypeOK
<1>8. /\ pass' \in [Passes -> [rows : Seq(Rows), found : SUBSET Payments]]
      /\ RowsWereSaid'
  BY <1>1, <1>5, NextRowOfPass
<1>9. TypeOK'
  BY <1>5, <1>6, <1>7, <1>8 DEF Inv, TypeOK, Moments, Rows
<1>10. Made' = Made /\ \A s : Said(s)' = Said(s)
  BY <1>5 DEF Made, Said
<1>11. \A s \in Settlements : local'[s] # NotYet => s \in Made /\ local'[s] \in Said(s)
  BY <1>3, <1>4, <1>5 DEF Inv, TypeOK, ShownWasSaid
<1>12. ASSUME NEW p \in Payments
       PROVE  IF intent'[p].linked = NoSettlement THEN intent'[p].payout \in {"NOT_APPLICABLE", "PENDING"}
              ELSE intent'[p].linked \in Made /\ intent'[p].payout \in Said(intent'[p].linked)
  <2>1. CASE p \notin Covered(w)
    <3>1. intent'[p] = intent[p]
      BY <1>5, <2>1
    <3> QED
      BY <3>1 DEF Inv, ShownWasSaid
  <2>2. CASE p \in Covered(w)
    <3>1. intent'[p].linked = row.id /\ intent'[p].payout = status
      BY <1>5, <2>2, ZenonT(30) DEF Inv, TypeOK
    <3>2. row.id # NoSettlement
      BY <1>3, SettlementsAssumption
    <3> QED
      BY <1>3, <1>4, <3>1, <3>2
  <2> QED
    BY <2>1, <2>2
<1>13. ShownWasSaid'
  BY <1>10, <1>11, <1>12 DEF ShownWasSaid
<1> QED
  BY <1>8, <1>9, <1>13 DEF Inv

LEMMA StopKeeps ==
  ASSUME Inv, NEW w \in Passes, Stop(w)
  PROVE  Inv'
<1>1. UNCHANGED <<settlement, clock, intent, local>> /\ faults' \in 0..MaxFaults
  BY PassesAssumption DEF Stop, Inv, TypeOK
<1>2. << >> \in Seq(Rows) /\ DOMAIN << >> = {}
  OBVIOUS
<1>3. pass' = [pass EXCEPT ![w] = Holding(<< >>)]
  BY DEF Stop, Resting
<1>4. /\ pass' \in [Passes -> [rows : Seq(Rows), found : SUBSET Payments]]
      /\ RowsWereSaid'
  BY <1>1, <1>2, <1>3, OtherRows
<1> QED
  BY <1>1, <1>4, OnlyThePass

LEMMA NextHolds == Inv /\ [Next]_vars => Inv'
<1> SUFFICES ASSUME Inv, [Next]_vars PROVE Inv'
  OBVIOUS
<1>1. CASE Gateway
  BY <1>1, GatewaySettlesKeeps, GatewayMovesKeeps, TimePassesKeeps DEF Gateway
<1>2. CASE Recording
  BY <1>2, RecordPaymentKeeps, BackfillFeeKeeps DEF Recording
<1>3. ASSUME NEW w \in Passes, Reconcile(w) PROVE Inv'
  BY <1>3, ListKeeps, ListOneKeeps, MatchKeeps, LinkKeeps, StopKeeps DEF Reconcile
<1>4. CASE UNCHANGED vars
  BY <1>4 DEF vars, Inv, TypeOK, ShownWasSaid, RowsWereSaid, Said, Made, Moments, Rows
<1> QED
  BY <1>1, <1>2, <1>3, <1>4 DEF Next

----------------------------------------------------------------------------
(* The theorems *)

\* The inductive invariant: a pass may hold an old status of a settlement, never
\* one it has not been in.
THEOREM Invariant == Spec => []Inv
BY InitHolds, NextHolds, PTL DEF Spec

\* Settlements, intents, local rows and passes have their types, for any number of
\* passes that overlap.
THEOREM TypeCorrect == Spec => []TypeOK
<1>1. Inv => TypeOK
  BY DEF Inv
<1> QED
  BY <1>1, Invariant, PTL

\* No interleaving of passes, lists and charge webhooks makes the server show a
\* payout status the gateway has not given the settlement the payment is linked to.
THEOREM ShownWasSaidAlways == Spec => []ShownWasSaid
<1>1. Inv => ShownWasSaid
  BY DEF Inv
<1> QED
  BY <1>1, Invariant, PTL

----------------------------------------------------------------------------
(* The amount fallback.  What a payment brings is positive, so the running  *)
(* sum over the payments, oldest first, grows strictly: it meets the amount *)
(* of a settlement once at most, and a chronological prefix with the amount *)
(* of the settlement is where it does.                                      *)

\* The payments, and when they were paid, as the order compares them.
Comparable(candidates) ==
  /\ candidates \subseteq Payments
  /\ \A p \in candidates : intent[p].paidAt \in Nat

LEMMA CandidatesAreComparable ==
  ASSUME TypeOK, NEW s
  PROVE  Comparable(Eligible(s)) /\ IsFiniteSet(Eligible(s))
<1>1. Eligible(s) \subseteq Payments
  BY DEF Eligible
<1>2. \A p \in Payments : intent[p].paidAt \in Nat
  BY DaysAssumption DEF TypeOK, Moments
<1> QED
  BY <1>1, <1>2, PaymentsAssumption, FS_Subset DEF Comparable

LEMMA OrderIsTotal ==
  ASSUME NEW candidates, Comparable(candidates), NEW p \in candidates, NEW q \in candidates
  PROVE  /\ p = q \/ Before(p, q) \/ Before(q, p)
         /\ ~ (Before(p, q) /\ (p = q \/ Before(q, p)))
         /\ Before(p, q) => intent[p].paidAt <= intent[q].paidAt
         /\ \A r \in candidates : Before(r, p) /\ Before(p, q) => Before(r, q)
<1>1. /\ p \in Nat /\ q \in Nat /\ intent[p].paidAt \in Nat /\ intent[q].paidAt \in Nat
      /\ \A r \in candidates : r \in Nat /\ intent[r].paidAt \in Nat
  BY PaymentsAssumption DEF Comparable
<1> QED
  BY <1>1 DEF Before

LEMMA AmountIsNat ==
  ASSUME NEW candidates, Comparable(candidates), IsFiniteSet(candidates), NEW ps \in SUBSET candidates
  PROVE  Amount(ps) \in Nat /\ IsFiniteSet(ps) /\ \A p \in ps : Net[p] \in Nat /\ Net[p] > 0
<1>1. IsFiniteSet(ps)
  BY FS_Subset
<1>2. \A p \in ps : Net[p] \in Nat /\ Net[p] > 0
  BY PaymentsAssumption DEF Comparable
<1> QED
  BY <1>1, <1>2, SumNat DEF Amount

\* More payments bring more.
LEMMA AmountGrows ==
  ASSUME NEW candidates, Comparable(candidates), IsFiniteSet(candidates),
         NEW ps \in SUBSET candidates, NEW q \in candidates, q \notin ps,
         NEW qs \in SUBSET candidates, ps \union {q} \subseteq qs
  PROVE  Amount(ps) < Amount(qs)
<1>1. /\ Amount(ps) \in Nat /\ IsFiniteSet(ps) /\ \A p \in ps : Net[p] \in Int
      /\ Amount(qs) \in Nat /\ IsFiniteSet(qs) /\ \A p \in qs : Net[p] \in Nat
  BY AmountIsNat
<1>2. Net[q] \in Nat /\ Net[q] > 0
  BY PaymentsAssumption DEF Comparable
<1>3. Amount(ps \union {q}) = Net[q] + Amount(ps)
  <2>1. Net[q] \in Int
    BY <1>2
  <2> QED BY <1>1, <2>1, SumAdd DEF Amount
<1>4. Amount(ps \union {q}) <= Amount(qs)
  <2>1. (ps \union {q}) \in SUBSET qs
    OBVIOUS
  <2> QED BY <1>1, <2>1, SumGrows DEF Amount
<1> QED
  BY <1>1, <1>2, <1>3, <1>4

\* The running sum grows strictly ...
LEMMA RunningSumGrows ==
  ASSUME NEW candidates, Comparable(candidates), IsFiniteSet(candidates),
         NEW p \in candidates, NEW q \in candidates, Before(p, q)
  PROVE  Amount(UpTo(p, candidates)) < Amount(UpTo(q, candidates))
<1>1. UpTo(p, candidates) \in SUBSET candidates /\ UpTo(q, candidates) \in SUBSET candidates
  BY DEF UpTo
<1>2. q \notin UpTo(p, candidates)
  BY OrderIsTotal DEF UpTo
<1>3. UpTo(p, candidates) \union {q} \subseteq UpTo(q, candidates)
  BY OrderIsTotal DEF UpTo
<1> QED
  BY <1>1, <1>2, <1>3, AmountGrows

\* ... and meets a target once at most.
LEMMA OneCut ==
  ASSUME NEW candidates, Comparable(candidates), IsFiniteSet(candidates), NEW target,
         NEW p \in Cuts(candidates, target), NEW q \in Cuts(candidates, target)
  PROVE  p = q
<1>1. /\ p \in candidates /\ q \in candidates
      /\ Amount(UpTo(p, candidates)) = target /\ Amount(UpTo(q, candidates)) = target
  BY DEF Cuts
<1>2. target \in Nat
  <2>1. UpTo(p, candidates) \in SUBSET candidates
    BY DEF UpTo
  <2> QED BY <1>1, <2>1, AmountIsNat
<1>3. ~Before(p, q) /\ ~Before(q, p)
  BY <1>1, <1>2, RunningSumGrows
<1> QED
  BY <1>1, <1>3, OrderIsTotal

\* A set of payments that are there has a last one.
LEMMA LastOfPayments ==
  ASSUME NEW candidates, Comparable(candidates), IsFiniteSet(candidates),
         NEW ps \in SUBSET candidates, ps # {}
  PROVE  \E q \in ps : \A p \in ps : p = q \/ Before(p, q)
<1> DEFINE after(q) == Amount(candidates) - Amount(UpTo(q, candidates))
           Bad == {after(q) : q \in ps}
<1>1. \A q \in ps : after(q) \in Nat
  <2> SUFFICES ASSUME NEW q \in ps PROVE after(q) \in Nat
    OBVIOUS
  <2>1. UpTo(q, candidates) \in SUBSET candidates /\ candidates \in SUBSET candidates
    BY DEF UpTo
  <2>2. /\ Amount(UpTo(q, candidates)) \in Nat /\ Amount(candidates) \in Nat
        /\ \A p \in candidates : Net[p] \in Nat
    BY <2>1, AmountIsNat
  <2>3. Amount(UpTo(q, candidates)) <= Amount(candidates)
    BY <2>1, <2>2, SumGrows DEF Amount
  <2> QED BY <2>2, <2>3
<1>2. Bad \in SUBSET Nat /\ Bad # {}
  BY <1>1
<1>3. PICK m \in Bad : \A n \in Bad : m <= n
  <2> HIDE DEF Bad
  <2> QED BY <1>2, SmallestNumber
<1>4. PICK q \in ps : m = after(q)
  BY <1>3
<1>5. ASSUME NEW p \in ps, p # q, ~Before(p, q) PROVE FALSE
  <2>1. Before(q, p)
    BY <1>5, OrderIsTotal
  <2>2. Amount(UpTo(q, candidates)) < Amount(UpTo(p, candidates))
    BY <2>1, RunningSumGrows
  <2>3. after(q) <= after(p)
    BY <1>3, <1>4
  <2>4. Amount(UpTo(q, candidates)) \in Nat /\ Amount(UpTo(p, candidates)) \in Nat /\ Amount(candidates) \in Nat
    <3>1. /\ UpTo(q, candidates) \in SUBSET candidates /\ UpTo(p, candidates) \in SUBSET candidates
          /\ candidates \in SUBSET candidates
      BY DEF UpTo
    <3> QED BY <3>1, AmountIsNat
  <2> QED BY <2>2, <2>3, <2>4
<1> QED
  BY <1>5

\* A chronological prefix ends at its last payment.
LEMMA PrefixIsUpTo ==
  ASSUME NEW candidates, Comparable(candidates), IsFiniteSet(candidates),
         NEW ps \in SUBSET candidates, ps # {}, Prefix(ps, candidates)
  PROVE  \E q \in ps : ps = UpTo(q, candidates)
<1>1. PICK q \in ps : \A p \in ps : p = q \/ Before(p, q)
  BY LastOfPayments
<1>2. ps \subseteq UpTo(q, candidates)
  BY <1>1 DEF UpTo
<1>3. ASSUME NEW r \in candidates \ ps, r = q \/ Before(r, q) PROVE FALSE
  <2>1. intent[q].paidAt < intent[r].paidAt /\ Before(r, q)
    BY <1>3 DEF Prefix
  <2>2. intent[r].paidAt <= intent[q].paidAt /\ intent[r].paidAt \in Nat /\ intent[q].paidAt \in Nat
    BY <2>1, OrderIsTotal DEF Comparable
  <2> QED BY <2>1, <2>2
<1> QED
  BY <1>2, <1>3 DEF UpTo

\* Up to a payment that the next is not tied with is a chronological prefix.
LEMMA UpToIsPrefix ==
  ASSUME NEW candidates, Comparable(candidates), NEW q \in candidates, ~Tied(q, candidates)
  PROVE  Prefix(UpTo(q, candidates), candidates)
<1> SUFFICES ASSUME NEW p \in UpTo(q, candidates), NEW r \in candidates \ UpTo(q, candidates)
             PROVE  intent[p].paidAt < intent[r].paidAt
  BY DEF Prefix
<1>1. Before(q, r) /\ p \in candidates
  BY OrderIsTotal DEF UpTo
<1>2. intent[p].paidAt \in Nat /\ intent[q].paidAt \in Nat /\ intent[r].paidAt \in Nat
  BY <1>1 DEF Comparable
<1>3. intent[p].paidAt <= intent[q].paidAt
  BY <1>1, <1>2, OrderIsTotal DEF UpTo
<1>4. intent[q].paidAt <= intent[r].paidAt /\ intent[q].paidAt # intent[r].paidAt
  BY <1>1, OrderIsTotal DEF Tied
<1> QED
  BY <1>2, <1>3, <1>4

\* What is found adds up; it is one payment, or a prefix; no other prefix adds up.
LEMMA MatchedIsUnambiguous ==
  ASSUME NEW candidates, Comparable(candidates), IsFiniteSet(candidates), NEW target,
         NEW found, found = Matched(candidates, target), found # {},
         NEW singles, singles = {q \in candidates : Net[q] = target}
  PROVE  /\ Amount(found) = target
         /\ \/ \E x : singles = {x} /\ found = {x}
            \/ Prefix(found, candidates) /\ Cardinality(singles) # 1
         /\ \A ps \in SUBSET candidates : ps # found /\ Prefix(ps, candidates) => Amount(ps) # target
<1> DEFINE cuts == Cuts(candidates, target)
           single == IF Cardinality(singles) = 1 THEN singles ELSE {}
           prefix == UNION {UpTo(q, candidates) : q \in cuts}
<1>1. /\ ~ \E q \in cuts : Tied(q, candidates)
      /\ ~ (single # {} /\ prefix # {} /\ single # prefix)
      /\ found = IF single # {} THEN single ELSE prefix
  BY DEF Matched
<1>2. \A q \in cuts : q \in candidates /\ q \in UpTo(q, candidates) /\ Amount(UpTo(q, candidates)) = target
  BY DEF Cuts, UpTo
<1>3. \A q \in cuts : prefix = UpTo(q, candidates)
  <2> SUFFICES ASSUME NEW q \in cuts PROVE prefix = UpTo(q, candidates)
    OBVIOUS
  <2>1. \A p \in cuts : p = q
    BY OneCut
  <2>2. cuts = {q}
    BY <2>1
  <2> HIDE DEF cuts
  <2> QED BY <2>2
<1>4. single # {} => \E x : singles = {x}
  <2>1. IsFiniteSet(singles)
    BY FS_Subset
  <2> QED BY <2>1, FS_Singleton
<1>5. Amount(found) = target /\ target > 0 /\ target \in Nat
  <2>1. CASE single # {}
    <3>1. PICK x : singles = {x}
      BY <1>4, <2>1
    <3>2. x \in candidates /\ Net[x] = target
      BY <3>1
    <3>3. target \in Nat /\ target > 0
      BY <3>2, PaymentsAssumption DEF Comparable
    <3>4. Amount({}) = 0
      BY SumEmpty DEF Amount
    <3>5. Amount({} \union {x}) = Net[x] + Amount({})
      <4>1. Net[x] \in Int /\ x \notin {} /\ IsFiniteSet({}) /\ \A p \in {} : Net[p] \in Int
        BY <3>2, <3>3, FS_EmptySet
      <4> QED BY <4>1, SumAdd DEF Amount
    <3>6. found = {} \union {x}
      BY <1>1, <2>1, <3>1
    <3> QED BY <3>2, <3>3, <3>4, <3>5, <3>6
  <2>2. CASE single = {}
    <3>1. PICK q \in cuts : TRUE
      BY <1>1, <2>2
    <3>2. found = UpTo(q, candidates) /\ Amount(found) = target /\ q \in candidates
      BY <1>1, <1>2, <1>3, <2>2, <3>1
    <3>3. UpTo(q, candidates) \in SUBSET candidates /\ {} \in SUBSET candidates /\ {} \union {q} \subseteq UpTo(q, candidates)
      BY <1>2, <3>1 DEF UpTo
    <3>4. Amount({}) < target /\ Amount({}) \in Nat /\ target \in Nat
      <4>1. Amount({}) < Amount(UpTo(q, candidates))
        BY <3>2, <3>3, AmountGrows
      <4> QED BY <3>2, <3>3, <4>1, AmountIsNat
    <3> QED BY <3>2, <3>4
  <2> QED BY <2>1, <2>2
<1>6. ASSUME NEW ps \in SUBSET candidates, ps # found, Prefix(ps, candidates), Amount(ps) = target
      PROVE  FALSE
  <2>1. ps # {}
    <3>1. Amount({}) = 0
      BY SumEmpty DEF Amount
    <3> QED BY <1>5, <1>6, <3>1
  <2>2. PICK q \in ps : ps = UpTo(q, candidates)
    BY <1>6, <2>1, PrefixIsUpTo
  <2>3. q \in cuts
    BY <1>6, <2>2 DEF Cuts
  <2>4. prefix = ps
    BY <1>3, <2>2, <2>3
  <2> HIDE DEF single, prefix, cuts
  <2> QED BY <1>1, <1>6, <2>1, <2>4
<1>7. \/ \E x : singles = {x} /\ found = {x}
      \/ Prefix(found, candidates) /\ Cardinality(singles) # 1
  <2>1. CASE single # {}
    BY <1>1, <1>4, <2>1
  <2>2. CASE single = {}
    <3>1. PICK q \in cuts : TRUE
      BY <1>1, <2>2
    <3>2. found = UpTo(q, candidates) /\ q \in candidates /\ ~Tied(q, candidates)
      BY <1>1, <1>2, <1>3, <2>2, <3>1
    <3>3. Prefix(found, candidates)
      BY <3>2, UpToIsPrefix
    <3>4. Cardinality(singles) # 1
      <4> SUFFICES ASSUME Cardinality(singles) = 1 PROVE FALSE
        OBVIOUS
      <4>1. IsFiniteSet(singles) /\ singles = {}
        BY <2>2, FS_Subset
      <4> QED BY <4>1, FS_EmptySet
    <3> QED BY <3>3, <3>4
  <2> QED BY <2>1, <2>2
<1> QED
  BY <1>5, <1>6, <1>7

\* Whatever passes and webhooks have done to the intents: what the amount fallback
\* (evaluateSettlementAmountMatch) takes a settlement to cover adds up to it, and
\* no other reading of the open payments does as well.
THEOREM FallbackFailsClosed == Spec => []FallbackIsUnambiguous
<1>1. TypeOK => FallbackIsUnambiguous
  <2> SUFFICES ASSUME TypeOK, NEW s \in Made
               PROVE  LET candidates == Eligible(s)
                          target == Amount(settlement[s].covers)
                          found == Matched(candidates, target)
                          singles == {{p} : p \in {q \in candidates : Net[q] = target}}
                      IN  found # {} =>
                            /\ Amount(found) = target
                            /\ found \in singles \/ Prefix(found, candidates)
                            /\ \A ps \in SUBSET candidates : ps # found /\ Prefix(ps, candidates) => Amount(ps) # target
                            /\ singles \subseteq {found} \/ (Prefix(found, candidates) /\ Cardinality(singles) > 1)
    BY DEF FallbackIsUnambiguous
  <2>1. PICK candidates : candidates = Eligible(s)
    OBVIOUS
  <2>2. PICK target : target = Amount(settlement[s].covers)
    OBVIOUS
  <2>3. PICK found : found = Matched(candidates, target)
    OBVIOUS
  <2>4. PICK alone : alone = {q \in candidates : Net[q] = target}
    OBVIOUS
  <2>5. PICK singles : singles = {{p} : p \in alone}
    OBVIOUS
  <2>6. Comparable(candidates) /\ IsFiniteSet(candidates)
    BY <2>1, CandidatesAreComparable
  <2> SUFFICES ASSUME found # {}
               PROVE  /\ Amount(found) = target
                      /\ found \in singles \/ Prefix(found, candidates)
                      /\ \A ps \in SUBSET candidates : ps # found /\ Prefix(ps, candidates) => Amount(ps) # target
                      /\ singles \subseteq {found} \/ (Prefix(found, candidates) /\ Cardinality(singles) > 1)
    BY <2>1, <2>2, <2>3, <2>4, <2>5
  <2>7. /\ Amount(found) = target
        /\ \/ \E x : alone = {x} /\ found = {x}
           \/ Prefix(found, candidates) /\ Cardinality(alone) # 1
        /\ \A ps \in SUBSET candidates : ps # found /\ Prefix(ps, candidates) => Amount(ps) # target
    BY <2>3, <2>4, <2>6, MatchedIsUnambiguous
  <2>8. CASE \E x : alone = {x} /\ found = {x}
    BY <2>5, <2>7, <2>8
  <2>9. CASE Prefix(found, candidates) /\ Cardinality(alone) # 1
    <3>1. IsFiniteSet(alone) /\ IsFiniteSet(singles)
      <4>1. IsFiniteSet(alone)
        BY <2>4, <2>6, FS_Subset
      <4> DEFINE single == [p \in alone |-> {p}]
      <4>2. single \in Surjection(alone, singles)
        BY <2>5 DEF Surjection
      <4> HIDE DEF single
      <4> QED BY <4>1, <4>2, FS_Surjection
    <3>2. CASE singles = {}
      BY <2>7, <2>9, <3>2
    <3>3. CASE singles # {}
      <4>1. Cardinality(singles) # 1
        <5> SUFFICES ASSUME Cardinality(singles) = 1 PROVE FALSE
          OBVIOUS
        <5>1. PICK y : singles = {y}
          BY <3>1, FS_Singleton
        <5>2. PICK x \in alone : y = {x}
          BY <2>5, <5>1
        <5>3. alone = {x}
          <6>1. \A p \in alone : {p} = {x}
            BY <2>5, <5>1, <5>2
          <6>2. \A p \in alone : p = x
            <7> TAKE p \in alone
            <7>1. p \in {x}
              BY <6>1
            <7> QED BY <7>1
          <6> QED BY <5>2, <6>2
        <5>4. Cardinality(alone) = 1
          BY <3>1, <5>3, FS_Singleton
        <5> QED BY <2>9, <5>4
      <4>2. Cardinality(singles) \in Nat /\ Cardinality(singles) # 0
        BY <3>1, <3>3, FS_CardinalityType, FS_EmptySet
      <4> QED BY <2>7, <2>9, <4>1, <4>2
    <3> QED BY <3>2, <3>3
  <2> QED BY <2>7, <2>8, <2>9
<1> QED
  BY <1>1, TypeCorrect, PTL
==============================================================================
