---------------------------- MODULE AIQuotaProofs ----------------------------
(***************************************************************************)
(* What AIQuota promises of points and questions, proved for any calls,    *)
(* costs, limits and months.  Points are counted as pairs of a call and a  *)
(* point, so that a sum over calls is a cardinality: PointsAdded says what *)
(* one more call adds to it.                                               *)
(***************************************************************************)
EXTENDS AIQuota, FiniteSetTheorems, TLAPS

\* One more call, with its amount.
LEMMA PointsAdded ==
  ASSUME NEW S, IsFiniteSet(S), NEW f, NEW g, NEW c, c \notin S,
         NEW n \in 0..MaxPoints, g[c] = n, \A x \in S : g[x] = f[x]
  PROVE  Points(S, f) \in Nat /\ Points(S \cup {c}, g) = Points(S, f) + n
<1> DEFINE A == {p \in S \X (1..MaxPoints) : p[2] <= f[p[1]]}
           B == {p \in (S \cup {c}) \X (1..MaxPoints) : p[2] <= g[p[1]]}
           C == {c} \X (1..n)
<1>1. MaxPoints \in Nat /\ n \in Nat /\ n <= MaxPoints
  BY PointsAssumption
<1>2. IsFiniteSet(A) /\ Cardinality(A) \in Nat
  <2>1. IsFiniteSet(1..MaxPoints)
    BY <1>1, FS_Interval
  <2>2. IsFiniteSet(S \X (1..MaxPoints))
    BY <2>1, FS_Product
  <2>3. IsFiniteSet(A)
    BY <2>2, FS_Subset
  <2> QED
    BY <2>3, FS_CardinalityType
<1>3. IsFiniteSet(C) /\ Cardinality(C) = n
  <2>1. IsFiniteSet(1..n) /\ Cardinality(1..n) = n
    BY <1>1, FS_Interval
  <2>2. IsFiniteSet({c}) /\ Cardinality({c}) = 1
    BY FS_Singleton
  <2>3. IsFiniteSet(C) /\ Cardinality(C) = Cardinality({c}) * Cardinality(1..n)
    BY <2>1, <2>2, FS_Product
  <2>4. Cardinality({c}) * Cardinality(1..n) = 1 * n
    BY <2>1, <2>2
  <2> QED
    BY <1>1, <2>3, <2>4
<1>4. B = A \cup C /\ A \cap C = {}
  BY <1>1
<1>5. Cardinality(A \cup C) = Cardinality(A) + Cardinality(C) - Cardinality(A \cap C)
  BY <1>2, <1>3, FS_Union
<1>6. Cardinality(B) = Cardinality(A) + n
  <2>1. Cardinality(A \cap C) = 0
    BY <1>4, FS_EmptySet
  <2> HIDE DEF A, B, C
  <2>2. Cardinality(B) = Cardinality(A) + Cardinality(C) - 0
    BY <1>4, <1>5, <2>1
  <2> QED
    BY <1>1, <1>2, <1>3, <2>2
<1> QED
  BY <1>2, <1>6 DEF Points

\* One more call under the same amounts.
LEMMA PointsPlus ==
  ASSUME NEW S, IsFiniteSet(S), NEW f, NEW c, c \notin S, f[c] \in 0..MaxPoints
  PROVE  Points(S \cup {c}, f) = Points(S, f) + f[c]
<1>1. \A x \in S : f[x] = f[x]
  OBVIOUS
<1> QED
  BY <1>1, PointsAdded

\* Points depend on the amounts of the calls that are counted.
LEMMA PointsKept ==
  ASSUME NEW S, NEW f, NEW g, \A x \in S : g[x] = f[x]
  PROVE  Points(S, g) = Points(S, f)
  BY DEF Points

LEMMA PointsNat ==
  ASSUME NEW S \in SUBSET Calls, NEW f
  PROVE  Points(S, f) \in Nat
<1>1. IsFiniteSet(S)
  BY CallsAssumption, FS_Subset
<1>2. IsFiniteSet(1..MaxPoints)
  BY PointsAssumption, FS_Interval
<1>3. IsFiniteSet(S \X (1..MaxPoints))
  BY <1>1, <1>2, FS_Product
<1>4. IsFiniteSet({p \in S \X (1..MaxPoints) : p[2] <= f[p[1]]})
  BY <1>3, FS_Subset
<1> QED
  BY <1>4, FS_CardinalityType DEF Points

-----------------------------------------------------------------------------
\* What does not touch the accounts keeps them; so does a step that leaves the month of every
\* inserted request, and what was given back, as they are.
LEMMA AccountsKept ==
  ASSUME ChargedInFull, UNCHANGED <<used, balance, granted, bill>>
  PROVE  ChargedInFull'
  BY DEF ChargedInFull, Points, Billed, Spent, Monthly, Credited

LEMMA ReservedKept ==
  ASSUME ReservationsHeld, UNCHANGED <<reserved, freed>>,
         \A c \in Calls :
           /\ request'[c] = "none" <=> request[c] = "none"
           /\ local'[c].month = local[c].month \/ (request[c] = "none" /\ freed[c] = 0)
  PROVE  ReservationsHeld'
<1>1. \A m \in Months : m # 0
  BY MonthsAssumption DEF Months
<1>2. \A m \in Months : Held(m)' = Held(m) /\ Foreign(m)' = Foreign(m)
  BY <1>1 DEF Held, Foreign
<1> QED
  BY <1>2 DEF ReservationsHeld, Points

LEMMA ReservationsNat == \A c \in Calls : Reservation[c] \in 0..MaxPoints /\ Reservation[c] \in Nat
<1>1. Reservation \in [Calls -> 1..MaxPoints] /\ MaxPoints \in Nat
  BY PointsAssumption
<1> QED
  BY <1>1

\* Steps that touch no call keep what is said of calls and their rows.
LEMMA CallsUntouched ==
  ASSUME AIInv, UNCHANGED <<rows, handler, bill, freed, answered>>
  PROVE  CallsFit' /\ RowsFit' /\ ChargedOnce' /\ QuestionsSettled' /\ (UNCHANGED reserved => ReservationsHeld')
<1> USE DEF rows, handler
<1>1. CallsFit' /\ RowsFit'
  BY DEF AIInv, CallsKnown, CallsFit, CallFits, Spent, RowsFit
<1>2. ChargedOnce' /\ QuestionsSettled'
  BY DEF AIInv, ChargedOnce, QuestionsSettled, Spent
<1>3. UNCHANGED reserved => ReservationsHeld'
  BY ReservedKept DEF AIInv
<1> QED
  BY <1>1, <1>2, <1>3

\* A transaction that ends changes nothing else that its call knows.
LEMMA OpensEnds ==
  ASSUME local \in [Calls -> Local], NEW c \in Calls, local' = [local EXCEPT ![c].opens = FALSE]
  PROVE  /\ local' \in [Calls -> Local]
         /\ \A d \in Calls :
              /\ local'[d].month = local[d].month /\ local'[d].in = local[d].in
              /\ local'[d].cost = local[d].cost
              /\ local'[d].monthly = local[d].monthly /\ local'[d].credit = local[d].credit
  BY DEF Local

\* The provider's answer adds its cost.
LEMMA CostKnown ==
  ASSUME local \in [Calls -> Local], NEW c \in Calls, NEW cost \in 0..MaxPoints,
         local' = [local EXCEPT ![c].cost = cost]
  PROVE  /\ local' \in [Calls -> Local]
         /\ \A d \in Calls : local'[d].month = local[d].month /\ (d # c => local'[d] = local[d])
  BY DEF Local

\* The locals of a call that was admitted.
LEMMA AdmittedLocal ==
  ASSUME NEW m \in 0..MaxMonth, NEW o \in BOOLEAN
  PROVE  /\ [NoLocal EXCEPT !.month = m, !.opens = o] \in Local
         /\ [NoLocal EXCEPT !.month = m, !.opens = o].month = m
<1>1. NoLocal \in Local
  BY MonthsAssumption, PointsAssumption DEF NoLocal, Local
<1> QED
  BY <1>1 DEF Local

-----------------------------------------------------------------------------
\* One lemma per action: the six named parts of the invariant, after a step of it.
LEMMA ReplayStep ==
  ASSUME AIInv, NEW c \in Calls, Replay(c)
  PROVE  AIInv'
<1> USE DEF AIInv, CallsKnown, Replay, GoTo, Answer, Earlier, settings, usage, rows, handler, billing
<1>1. AITypeOK'
  BY DEF AITypeOK, Months
<1>2. CallsFit'
  BY DEF AITypeOK, CallsFit, CallFits, Spent
<1>3. RowsFit'
  BY DEF AITypeOK, CallsFit, CallFits, RowsFit, Live
<1>4. ChargedOnce'
  BY DEF AITypeOK, CallsFit, CallFits, ChargedOnce, Spent, RowsFit, Live
<1>5. QuestionsSettled'
  BY DEF AITypeOK, CallsFit, CallFits, QuestionsSettled, RowsFit, Live
<1>6. ChargedInFull'
  BY AccountsKept
<1>7. ReservationsHeld'
  BY ReservedKept DEF AITypeOK, CallsFit, CallFits, Live
<1> QED
  BY <1>1, <1>2, <1>3, <1>4, <1>5, <1>6, <1>7

LEMMA RefuseStep ==
  ASSUME AIInv, NEW c \in Calls, Refuse(c)
  PROVE  AIInv'
<1> USE DEF AIInv, CallsKnown, Refuse, GoTo, Answer, settings, usage, rows, handler, billing
<1>1. AITypeOK'
  BY DEF AITypeOK
<1>2. CallsFit'
  BY DEF AITypeOK, CallsFit, CallFits, Spent
<1>3. RowsFit'
  BY DEF AITypeOK, CallsFit, CallFits, RowsFit, Live
<1>4. ChargedOnce'
  BY DEF AITypeOK, CallsFit, CallFits, ChargedOnce, Spent, RowsFit, Live
<1>5. QuestionsSettled'
  BY DEF AITypeOK, CallsFit, CallFits, QuestionsSettled, RowsFit, Live
<1>6. ChargedInFull'
  BY AccountsKept
<1>7. ReservationsHeld'
  BY ReservedKept DEF AITypeOK, CallsFit, CallFits, Live
<1> QED
  BY <1>1, <1>2, <1>3, <1>4, <1>5, <1>6, <1>7

LEMMA AdmitStep ==
  ASSUME AIInv, NEW c \in Calls, Admit(c)
  PROVE  AIInv'
<1> USE DEF AIInv, CallsKnown, Admit, GoTo, settings, usage, rows, handler, billing
<1>0. /\ local' \in [Calls -> Local]
      /\ \A d \in Calls \ {c} : local'[d] = local[d]
      /\ local'[c].month = month
  <2>1. Opens \in BOOLEAN /\ month \in 0..MaxMonth
    BY MonthsAssumption DEF Opens, AITypeOK, Months
  <2>2. /\ [NoLocal EXCEPT !.month = month, !.opens = Opens] \in Local
        /\ [NoLocal EXCEPT !.month = month, !.opens = Opens].month = month
    <3> HIDE DEF Opens, NoLocal
    <3> QED
      BY <2>1, AdmittedLocal
  <2> QED
    BY <2>2 DEF AITypeOK
<1>1. AITypeOK'
  BY <1>0 DEF AITypeOK
<1>2. CallsFit'
  <2>1. ASSUME NEW d \in Calls
        PROVE  CallFits(d)'
    <3>1. CallFits(d)
      BY DEF CallsFit
    <3> QED
      BY <1>0, <3>1 DEF AITypeOK, CallFits, Spent
  <2> QED
    BY <2>1 DEF CallsFit
<1>3. RowsFit'
  BY DEF AITypeOK, CallsFit, CallFits, RowsFit, Live
<1>4. ChargedOnce'
  BY DEF AITypeOK, CallsFit, CallFits, ChargedOnce, Spent, RowsFit, Live
<1>5. QuestionsSettled'
  BY DEF AITypeOK, CallsFit, CallFits, QuestionsSettled, RowsFit, Live
<1>6. ChargedInFull'
  BY AccountsKept
<1>7. ReservationsHeld'
  BY <1>0, ReservedKept DEF AITypeOK, CallsFit, CallFits, Live
<1> QED
  BY <1>1, <1>2, <1>3, <1>4, <1>5, <1>6, <1>7

LEMMA CreateStep ==
  ASSUME AIInv, NEW c \in Calls, Create(c)
  PROVE  AIInv'
<1> USE DEF AIInv, CallsKnown, Create, GoTo, Earlier, Known, settings, usage, rows, handler, billing
<1>0. local' \in [Calls -> Local]
      /\ \A d \in Calls :
           /\ local'[d].month = local[d].month /\ local'[d].in = local[d].in
           /\ local'[d].cost = local[d].cost
           /\ local'[d].monthly = local[d].monthly /\ local'[d].credit = local[d].credit
  BY OpensEnds DEF AITypeOK
<1>1. AITypeOK'
  <2>1. local[c].month \in Months /\ Reservation[c] \in Nat
    BY PointsAssumption DEF CallsFit, CallFits
  <2>2. reserved' \in [Months -> Nat] /\ rowed' \subseteq Months
    BY <2>1 DEF AITypeOK
  <2>3. talk' \in [Talks -> {"none", "open", "deleted"}]
    BY DEF AITypeOK, Talks
  <2> QED
    BY <1>0, <2>2, <2>3 DEF AITypeOK, Live
<1>2. CallsFit'
  <2>1. ASSUME NEW d \in Calls, d # c
        PROVE  CallFits(d)'
    <3>1. CallFits(d)
      BY DEF CallsFit
    <3> QED
      BY <1>0, <2>1, <3>1 DEF AITypeOK, CallFits, Spent
  <2>2. CallFits(c)'
    <3>1. CallFits(c)
      BY DEF CallsFit
    <3> QED
      BY <1>0, <3>1, MonthsAssumption DEF AITypeOK, CallFits, Spent, Live, Months
  <2> QED
    BY <2>1, <2>2 DEF CallsFit
<1>3. RowsFit'
  BY DEF AITypeOK, CallsFit, CallFits, RowsFit, Live
<1>4. ChargedOnce'
  BY DEF AITypeOK, CallsFit, CallFits, ChargedOnce, Spent, RowsFit, Live
<1>5. QuestionsSettled'
  BY DEF AITypeOK, CallsFit, CallFits, QuestionsSettled, RowsFit, Live
<1>6. ChargedInFull'
  BY AccountsKept
<1>7. ReservationsHeld'
  <2> DEFINE m0 == local[c].month
  <2>1. m0 \in Months /\ request[c] = "none" /\ freed[c] = 0 /\ Reservation[c] \in 0..MaxPoints
    BY PointsAssumption DEF CallsFit, CallFits, Spent
  <2>2. SUFFICES ASSUME NEW m \in Months
                 PROVE  /\ reserved'[m] <= Points(Held(m)', Reservation)
                        /\ Points(Held(m)', Reservation) <= reserved'[m] + Points(Foreign(m)', Reservation)
    BY DEF ReservationsHeld
  <2>3. m # 0
    BY MonthsAssumption DEF Months
  <2>4. Foreign(m)' = Foreign(m)
    BY <1>0, <2>1, <2>3 DEF Foreign
  <2>5. /\ reserved[m] <= Points(Held(m), Reservation)
        /\ Points(Held(m), Reservation) <= reserved[m] + Points(Foreign(m), Reservation)
    BY DEF ReservationsHeld
  <2>6. CASE m # m0
    <3>1. Held(m)' = Held(m)
      BY <1>0, <2>1, <2>6 DEF Held, AITypeOK
    <3>2. reserved'[m] = reserved[m]
      BY <2>6 DEF AITypeOK
    <3> QED
      BY <2>4, <2>5, <3>1, <3>2
  <2>7. CASE m = m0
    <3>1. Held(m)' = Held(m) \cup {c} /\ c \notin Held(m)
      BY <1>0, <2>1, <2>3, <2>7 DEF Held, AITypeOK
    <3>2. Points(Held(m)', Reservation) = Points(Held(m), Reservation) + Reservation[c]
      <4>1. IsFiniteSet(Held(m))
        BY CallsAssumption, FS_Subset DEF Held
      <4> QED
        BY <2>1, <3>1, <4>1, PointsPlus
    <3>3. reserved'[m] = reserved[m] + Reservation[c]
      BY <2>1, <2>7 DEF AITypeOK
    <3>4. Points(Held(m), Reservation) \in Nat /\ Points(Foreign(m), Reservation) \in Nat
      BY PointsNat DEF Held, Foreign
    <3>5. reserved[m] \in Nat
      BY DEF AITypeOK
    <3>6. Reservation[c] \in Nat
      BY PointsAssumption
    <3> QED
      BY <2>4, <2>5, <3>2, <3>3, <3>4, <3>5, <3>6
  <2> QED
    BY <2>6, <2>7
<1> QED
  BY <1>1, <1>2, <1>3, <1>4, <1>5, <1>6, <1>7

LEMMA RefuseLateStep ==
  ASSUME AIInv, NEW c \in Calls, RefuseLate(c)
  PROVE  AIInv'
<1> USE DEF AIInv, CallsKnown, RefuseLate, GoTo, Answer, NoLocal, settings, usage, rows, handler, billing
<1>0. /\ local' \in [Calls -> Local]
      /\ \A d \in Calls \ {c} : local'[d] = local[d]
  <2>1. NoLocal \in Local
    BY MonthsAssumption, PointsAssumption DEF NoLocal, Local
  <2> QED
    BY <2>1 DEF AITypeOK
<1>1. AITypeOK'
  BY <1>0 DEF AITypeOK
<1>2. CallsFit'
  BY DEF AITypeOK, CallsFit, CallFits, Spent
<1>3. RowsFit'
  BY DEF AITypeOK, CallsFit, CallFits, RowsFit, Live
<1>4. ChargedOnce'
  BY DEF AITypeOK, CallsFit, CallFits, ChargedOnce, Spent, RowsFit, Live
<1>5. QuestionsSettled'
  BY DEF AITypeOK, CallsFit, CallFits, QuestionsSettled, RowsFit, Live
<1>6. ChargedInFull'
  BY AccountsKept
<1>7. ReservationsHeld'
  BY ReservedKept DEF AITypeOK, CallsFit, CallFits, Live
<1> QED
  BY <1>1, <1>2, <1>3, <1>4, <1>5, <1>6, <1>7

LEMMA ProviderAnswersStep ==
  ASSUME AIInv, NEW c \in Calls, ProviderAnswers(c)
  PROVE  AIInv'
<1> USE DEF AIInv, CallsKnown, ProviderAnswers, GoTo, settings, usage, rows, handler, billing
<1>0. /\ local' \in [Calls -> Local]
      /\ \A d \in Calls : /\ local'[d].month = local[d].month
                          /\ d # c => local'[d] = local[d]
  <2>1. PICK cost \in Costs : local' = [local EXCEPT ![c].cost = cost]
    OBVIOUS
  <2>2. cost \in 0..MaxPoints
    BY PointsAssumption
  <2> QED
    BY <2>1, <2>2, CostKnown DEF AITypeOK
<1>1. AITypeOK'
  BY <1>0 DEF AITypeOK
<1>2. CallsFit'
  <2>1. ASSUME NEW d \in Calls, d # c
        PROVE  CallFits(d)'
    <3>1. CallFits(d)
      BY DEF CallsFit
    <3> QED
      BY <1>0, <2>1, <3>1 DEF AITypeOK, CallFits, Spent
  <2>2. CallFits(c)'
    <3>1. CallFits(c)
      BY DEF CallsFit
    <3> QED
      BY <1>0, <3>1, MonthsAssumption DEF AITypeOK, CallFits, Spent, Live, Months
  <2> QED
    BY <2>1, <2>2 DEF CallsFit
<1>3. RowsFit'
  BY DEF AITypeOK, CallsFit, CallFits, RowsFit, Live
<1>4. ChargedOnce'
  BY DEF AITypeOK, CallsFit, CallFits, ChargedOnce, Spent, RowsFit, Live
<1>5. QuestionsSettled'
  BY DEF AITypeOK, CallsFit, CallFits, QuestionsSettled, RowsFit, Live
<1>6. ChargedInFull'
  BY AccountsKept
<1>7. ReservationsHeld'
  BY <1>0, ReservedKept DEF AITypeOK, CallsFit, CallFits, Live
<1> QED
  BY <1>1, <1>2, <1>3, <1>4, <1>5, <1>6, <1>7

LEMMA ProviderFailsStep ==
  ASSUME AIInv, NEW c \in Calls, ProviderFails(c)
  PROVE  AIInv'
<1> USE DEF AIInv, CallsKnown, ProviderFails, GoTo, settings, usage, rows, handler, billing
<1>1. AITypeOK'
  BY DEF AITypeOK
<1>2. CallsFit'
  BY DEF AITypeOK, CallsFit, CallFits, Spent
<1>3. RowsFit'
  BY DEF AITypeOK, CallsFit, CallFits, RowsFit, Live
<1>4. ChargedOnce'
  BY DEF AITypeOK, CallsFit, CallFits, ChargedOnce, Spent, RowsFit, Live
<1>5. QuestionsSettled'
  BY DEF AITypeOK, CallsFit, CallFits, QuestionsSettled, RowsFit, Live
<1>6. ChargedInFull'
  BY AccountsKept
<1>7. ReservationsHeld'
  BY ReservedKept DEF AITypeOK, CallsFit, CallFits, Live
<1> QED
  BY <1>1, <1>2, <1>3, <1>4, <1>5, <1>6, <1>7

LEMMA AbandonStep ==
  ASSUME AIInv, NEW c \in Calls, Abandon(c)
  PROVE  AIInv'
<1> USE DEF AIInv, CallsKnown, Abandon, GoTo, Answer, settings, usage, rows, handler, billing
<1>0. local' \in [Calls -> Local]
      /\ \A d \in Calls :
           /\ local'[d].month = local[d].month /\ local'[d].in = local[d].in
           /\ local'[d].cost = local[d].cost
           /\ local'[d].monthly = local[d].monthly /\ local'[d].credit = local[d].credit
  BY OpensEnds DEF AITypeOK
<1>1. AITypeOK'
  BY <1>0 DEF AITypeOK
<1>2. CallsFit'
  <2>1. ASSUME NEW d \in Calls, d # c
        PROVE  CallFits(d)'
    <3>1. CallFits(d)
      BY DEF CallsFit
    <3> QED
      BY <1>0, <2>1, <3>1 DEF AITypeOK, CallFits, Spent
  <2>2. CallFits(c)'
    <3>1. CallFits(c)
      BY DEF CallsFit
    <3> QED
      BY <1>0, <3>1, MonthsAssumption DEF AITypeOK, CallFits, Spent, Live, Months
  <2> QED
    BY <2>1, <2>2 DEF CallsFit
<1>3. RowsFit'
  BY DEF AITypeOK, CallsFit, CallFits, RowsFit, Live
<1>4. ChargedOnce'
  BY DEF AITypeOK, CallsFit, CallFits, ChargedOnce, Spent, RowsFit, Live
<1>5. QuestionsSettled'
  BY DEF AITypeOK, CallsFit, CallFits, QuestionsSettled, RowsFit, Live
<1>6. ChargedInFull'
  BY AccountsKept
<1>7. ReservationsHeld'
  BY <1>0, ReservedKept DEF AITypeOK, CallsFit, CallFits, Live
<1> QED
  BY <1>1, <1>2, <1>3, <1>4, <1>5, <1>6, <1>7

\* The shares of a cost add up to it.
LEMMA SharesFit ==
  ASSUME AITypeOK, NEW cost \in Nat
  PROVE  CreditShare(cost) \in Nat /\ CreditShare(cost) <= cost
<1>1. Limit \in Nat /\ Credit \in Nat
  BY PointsAssumption DEF Limit, Credit, AITypeOK
<1>2. used[month] \in Nat
  BY DEF AITypeOK
<1>3. Less(Limit, used[month]) \in Nat
  BY <1>1, <1>2 DEF Less
<1>4. MonthlyShare(cost) \in Nat /\ MonthlyShare(cost) <= cost
  BY <1>3 DEF MonthlyShare, Lesser
<1> QED
  BY <1>1, <1>4 DEF CreditShare, Lesser

LEMMA SettleStep ==
  ASSUME AIInv, NEW c \in Calls, Settle(c)
  PROVE  AIInv'
<1> USE DEF AIInv, CallsKnown, Settle, GoTo, settings, usage, rows, handler, billing
<1>0. /\ local' \in [Calls -> Local]
      /\ \A d \in Calls : /\ local'[d].month = local[d].month
                          /\ d # c => local'[d] = local[d]
      /\ local'[c].in = month /\ local'[c].monthly + local'[c].credit = local'[c].cost
  <2> DEFINE cost   == local[c].cost
             credit == CreditShare(cost)
  <2>1. cost \in 0..MaxPoints /\ cost \in Nat
    BY PointsAssumption DEF AITypeOK, Local
  <2>2. credit \in Nat /\ credit <= cost
    BY <2>1, SharesFit
  <2>3. local' = [local EXCEPT ![c] = [@ EXCEPT !.opens = Opens, !.in = month, !.credit = credit, !.monthly = cost - credit]]
    OBVIOUS
  <2>4. Opens \in BOOLEAN /\ month \in 0..MaxMonth
    BY MonthsAssumption DEF Opens, AITypeOK, Months
  <2>5. cost - credit \in Nat /\ (cost - credit) + credit = cost
    BY <2>1, <2>2
  <2> DEFINE new == [local[c] EXCEPT !.opens = Opens, !.in = month, !.credit = credit, !.monthly = cost - credit]
  <2>6. /\ new \in Local
        /\ new.month = local[c].month /\ new.in = month /\ new.cost = local[c].cost
        /\ new.monthly = cost - credit /\ new.credit = credit
    <3>1. local[c] \in Local
      BY DEF AITypeOK
    <3>2. new = [local[c] EXCEPT !.opens = Opens, !.in = month, !.credit = credit, !.monthly = cost - credit]
      OBVIOUS
    <3> HIDE DEF AIInv, CallsKnown, Settle, GoTo, Opens, credit, cost, new
    <3> QED
      BY <2>2, <2>4, <2>5, <3>1, <3>2 DEF Local
  <2>7. local'[c] = new /\ local' \in [Calls -> Local] /\ \A d \in Calls \ {c} : local'[d] = local[d]
    <3>1. local' = [local EXCEPT ![c] = new]
      BY <2>3 DEF AITypeOK
    <3> HIDE DEF new
    <3> QED
      BY <2>6, <3>1 DEF AITypeOK
  <2> QED
    BY <2>5, <2>6, <2>7
<1>1. AITypeOK'
  BY <1>0 DEF AITypeOK
<1>2. CallsFit'
  <2>1. ASSUME NEW d \in Calls, d # c
        PROVE  CallFits(d)'
    <3>1. CallFits(d)
      BY DEF CallsFit
    <3> QED
      BY <1>0, <2>1, <3>1 DEF AITypeOK, CallFits, Spent
  <2>2. CallFits(c)'
    <3>1. CallFits(c)
      BY DEF CallsFit
    <3> QED
      BY <1>0, <3>1, MonthsAssumption DEF AITypeOK, CallFits, Spent, Live, Months
  <2> QED
    BY <2>1, <2>2 DEF CallsFit
<1>3. RowsFit'
  BY DEF AITypeOK, CallsFit, CallFits, RowsFit, Live
<1>4. ChargedOnce'
  BY DEF AITypeOK, CallsFit, CallFits, ChargedOnce, Spent, RowsFit, Live
<1>5. QuestionsSettled'
  BY DEF AITypeOK, CallsFit, CallFits, QuestionsSettled, RowsFit, Live
<1>6. ChargedInFull'
  BY AccountsKept
<1>7. ReservationsHeld'
  BY <1>0, ReservedKept DEF AITypeOK, CallsFit, CallFits, Live
<1> QED
  BY <1>1, <1>2, <1>3, <1>4, <1>5, <1>6, <1>7

LEMMA SettleDeletedStep ==
  ASSUME AIInv, NEW c \in Calls, SettleDeleted(c)
  PROVE  AIInv'
<1> USE DEF AIInv, CallsKnown, SettleDeleted, GoTo, settings, usage, rows, handler, billing
<1>1. AITypeOK'
  BY DEF AITypeOK
<1>2. CallsFit'
  BY DEF AITypeOK, CallsFit, CallFits, Spent
<1>3. RowsFit'
  BY DEF AITypeOK, CallsFit, CallFits, RowsFit, Live
<1>4. ChargedOnce'
  BY DEF AITypeOK, CallsFit, CallFits, ChargedOnce, Spent, RowsFit, Live
<1>5. QuestionsSettled'
  BY DEF AITypeOK, CallsFit, CallFits, QuestionsSettled, RowsFit, Live
<1>6. ChargedInFull'
  BY AccountsKept
<1>7. ReservationsHeld'
  BY ReservedKept DEF AITypeOK, CallsFit, CallFits, Live
<1> QED
  BY <1>1, <1>2, <1>3, <1>4, <1>5, <1>6, <1>7

\* A reservation that is given back in its month leaves its points there; one that is given back in
\* another month takes as much at most from what is held there.
LEMMA GivenBack ==
  ASSUME AITypeOK, ReservationsHeld, NEW c \in Calls, NEW m0 \in Months, GiveBack(c, m0),
         freed[c] = 0, request[c] # "none",
         \A d \in Calls : (request'[d] = "none" <=> request[d] = "none") /\ local'[d].month = local[d].month
  PROVE  ReservationsHeld'
<1> SUFFICES ASSUME NEW m \in Months
             PROVE  /\ reserved'[m] <= Points(Held(m)', Reservation)
                    /\ Points(Held(m)', Reservation) <= reserved'[m] + Points(Foreign(m)', Reservation)
  BY DEF ReservationsHeld
<1>1. /\ reserved[m] <= Points(Held(m), Reservation)
      /\ Points(Held(m), Reservation) <= reserved[m] + Points(Foreign(m), Reservation)
  BY DEF ReservationsHeld
<1>2. m # 0 /\ reserved[m] \in Nat /\ Reservation[c] \in 0..MaxPoints /\ Reservation[c] \in Nat
  <2>1. m # 0
    BY MonthsAssumption DEF Months
  <2> QED
    BY <2>1, ReservationsNat DEF AITypeOK
<1>3. /\ freed'[c] = m0 /\ \A d \in Calls \ {c} : freed'[d] = freed[d]
      /\ reserved'[m] = IF m = m0 THEN Less(reserved[m], Reservation[c]) ELSE reserved[m]
  BY DEF GiveBack, AITypeOK
<1>4. /\ Points(Held(m), Reservation) \in Nat /\ Points(Foreign(m), Reservation) \in Nat
      /\ Points(Held(m) \ {c}, Reservation) \in Nat
  BY PointsNat DEF Held, Foreign
<1>5. CASE m # m0
  <2>1. Held(m)' = Held(m) /\ Foreign(m)' = Foreign(m)
    BY <1>2, <1>3, <1>5 DEF Held, Foreign
  <2> QED
    BY <1>1, <1>3, <1>5, <2>1
<1>6. CASE m = m0 /\ local[c].month = m
  <2>1. c \in Held(m) /\ Held(m)' = Held(m) \ {c} /\ Foreign(m)' = Foreign(m)
    BY <1>2, <1>3, <1>6 DEF Held, Foreign
  <2>2. Points(Held(m), Reservation) = Points(Held(m) \ {c}, Reservation) + Reservation[c]
    <3>1. IsFiniteSet(Held(m) \ {c}) /\ c \notin Held(m) \ {c} /\ (Held(m) \ {c}) \cup {c} = Held(m)
      BY <2>1, CallsAssumption, FS_Subset DEF Held
    <3>2. Points((Held(m) \ {c}) \cup {c}, Reservation) = Points(Held(m) \ {c}, Reservation) + Reservation[c]
      BY <1>2, <3>1, PointsPlus
    <3> QED
      BY <3>1, <3>2
  <2> QED
    BY <1>1, <1>2, <1>3, <1>4, <1>6, <2>1, <2>2 DEF Less
<1>7. CASE m = m0 /\ local[c].month # m
  <2>1. Held(m)' = Held(m) /\ c \notin Foreign(m) /\ Foreign(m)' = Foreign(m) \cup {c}
    BY <1>2, <1>3, <1>7 DEF Held, Foreign
  <2>2. Points(Foreign(m) \cup {c}, Reservation) = Points(Foreign(m), Reservation) + Reservation[c]
    <3>1. IsFiniteSet(Foreign(m))
      BY CallsAssumption, FS_Subset DEF Foreign
    <3> QED
      BY <1>2, <2>1, <3>1, PointsPlus
  <2> QED
    BY <1>1, <1>2, <1>3, <1>4, <1>7, <2>1, <2>2 DEF Less
<1> QED
  BY <1>5, <1>6, <1>7

LEMMA ChargeStep ==
  ASSUME AIInv, NEW c \in Calls, Charge(c)
  PROVE  AIInv'
<1> USE DEF AIInv, CallsKnown, Charge, GoTo, GiveBack, settings, usage, rows, handler, billing
<1>0. local' \in [Calls -> Local]
      /\ \A d \in Calls :
           /\ local'[d].month = local[d].month /\ local'[d].in = local[d].in
           /\ local'[d].cost = local[d].cost
           /\ local'[d].monthly = local[d].monthly /\ local'[d].credit = local[d].credit
  BY OpensEnds DEF AITypeOK
<1>1. AITypeOK'
  <2>1. /\ local[c].in \in Months /\ local[c].monthly + local[c].credit = local[c].cost
        /\ local[c].monthly \in Nat /\ local[c].credit \in Nat /\ local[c].cost \in 0..MaxPoints
    BY DEF CallsFit, CallFits, AITypeOK, Local
  <2>2. local[c].monthly \in 0..MaxPoints /\ local[c].credit \in 0..MaxPoints /\ local[c].in \in 0..MaxMonth
    BY <2>1, PointsAssumption, MonthsAssumption DEF Months
  <2>3. Reservation[c] \in Nat /\ reserved[local[c].in] \in Nat
    BY <2>1, ReservationsNat DEF AITypeOK
  <2>4. Less(reserved[local[c].in], Reservation[c]) \in Nat /\ Less(balance, local[c].credit) \in Nat
    BY <2>1, <2>3 DEF Less, AITypeOK
  <2>5. reserved' \in [Months -> Nat] /\ freed' \in [Calls -> 0..MaxMonth]
    BY <2>2, <2>4 DEF AITypeOK
  <2>6. used' \in [Months -> Nat] /\ rowed' \subseteq Months /\ balance' \in Nat
    BY <2>1, <2>4 DEF AITypeOK
  <2>7. counted' \in [Calls -> BOOLEAN]
    BY DEF AITypeOK
  <2>8. bill' \in [Calls -> [in : 0..MaxMonth, cost : 0..MaxPoints, monthly : 0..MaxPoints, credit : 0..MaxPoints]]
    BY <2>1, <2>2 DEF AITypeOK
  <2> QED
    BY <1>0, <2>5, <2>6, <2>7, <2>8 DEF AITypeOK
<1>2. CallsFit'
  <2>1. ASSUME NEW d \in Calls, d # c
        PROVE  CallFits(d)'
    <3>1. CallFits(d)
      BY DEF CallsFit
    <3>2. at'[d] = at[d] /\ request'[d] = request[d] /\ counted'[d] = counted[d]
      BY <2>1 DEF AITypeOK
    <3>3. freed'[d] = freed[d] /\ bill'[d] = bill[d]
      BY <2>1 DEF AITypeOK
    <3>4. d \in Spent' <=> d \in Spent
      BY <3>3 DEF Spent
    <3> HIDE DEF AIInv, CallsKnown, Charge, GoTo, GiveBack
    <3> QED
      BY <1>0, <3>1, <3>2, <3>3, <3>4 DEF CallFits
  <2>2. CallFits(c)'
    <3>1. CallFits(c)
      BY DEF CallsFit
    <3>2. /\ at[c] = "charge" /\ at'[c] = "complete" /\ request'[c] = request[c]
          /\ counted'[c] = (request[c] \in Live)
      BY DEF AITypeOK
    <3>3. local[c].in \in Months /\ local[c].month \in Months /\ request[c] \in {"PENDING", "deleted"}
      BY <3>1, <3>2 DEF CallFits
    <3>4. c \in Spent'
      <4>1. bill'[c].in = local[c].in
        BY DEF AITypeOK
      <4> QED
        BY <3>3, <4>1, MonthsAssumption DEF Spent, Months
    <3> HIDE DEF AIInv, CallsKnown, Charge, GoTo, GiveBack
    <3> QED
      BY <1>0, <3>2, <3>3, <3>4 DEF CallFits
  <2> QED
    BY <2>1, <2>2 DEF CallsFit
<1>3. RowsFit'
  BY DEF AITypeOK, CallsFit, CallFits, RowsFit, Live
<1>4. ChargedOnce'
  BY DEF AITypeOK, CallsFit, CallFits, ChargedOnce, Spent, RowsFit, Live
<1>5. QuestionsSettled'
  BY DEF AITypeOK, CallsFit, CallFits, QuestionsSettled, RowsFit, Live
<1>6. ChargedInFull'
  <2> DEFINE l == local[c]
  <2>1. /\ l.in \in Months /\ c \notin Spent /\ l.monthly + l.credit = l.cost
        /\ l.monthly \in 0..MaxPoints /\ l.credit \in 0..MaxPoints /\ l.monthly \in Nat /\ l.credit \in Nat
    BY PointsAssumption DEF CallsFit, CallFits, Spent, AITypeOK, Local
  <2>2. /\ bill'[c] = [in |-> l.in, cost |-> l.cost, monthly |-> l.monthly, credit |-> l.credit]
        /\ \A d \in Calls \ {c} : bill'[d] = bill[d]
    BY DEF AITypeOK
  <2>3. l.in # 0
    BY <2>1, MonthsAssumption DEF Months
  <2>4. ASSUME NEW m \in Months
        PROVE  used'[m] = Points(Billed(m)', Monthly')
    <3>1. used[m] = Points(Billed(m), Monthly) /\ used[m] \in Nat
      BY DEF ChargedInFull, AITypeOK
    <3>2. CASE m # l.in
      <4>1. used'[m] = used[m]
        BY <3>2 DEF AITypeOK
      <4>2. Billed(m)' = Billed(m)
        BY <2>1, <2>2, <2>3, <3>2, MonthsAssumption DEF Billed, Spent, Months
      <4>3. \A d \in Billed(m) : Monthly'[d] = Monthly[d]
        BY <2>1, <2>2, MonthsAssumption DEF Billed, Spent, Monthly, Months
      <4> QED
        BY <3>1, <4>1, <4>2, <4>3, PointsKept
    <3>3. CASE m = l.in
      <4>1. used'[m] = used[m] + l.monthly
        BY <2>1, <3>3 DEF AITypeOK
      <4>2. Billed(m)' = Billed(m) \cup {c} /\ c \notin Billed(m)
        BY <2>1, <2>2, <2>3, <3>3 DEF Billed, Spent
      <4>3. Monthly'[c] = l.monthly /\ \A d \in Billed(m) : Monthly'[d] = Monthly[d]
        BY <2>2, <4>2 DEF Billed, Monthly
      <4>4. IsFiniteSet(Billed(m))
        BY CallsAssumption, FS_Subset DEF Billed
      <4>5. Points(Billed(m) \cup {c}, Monthly') = Points(Billed(m), Monthly) + l.monthly
        BY <2>1, <4>2, <4>3, <4>4, PointsAdded
      <4> QED
        BY <3>1, <4>1, <4>2, <4>5
    <3> QED
      BY <3>2, <3>3
  <2>5. balance' + Points(Spent', Credited') = granted'
    <3>1. Spent' = Spent \cup {c}
      BY <2>2, <2>3 DEF Spent
    <3>2. Credited'[c] = l.credit /\ \A d \in Spent : Credited'[d] = Credited[d]
      BY <2>1, <2>2 DEF Spent, Credited
    <3>3. IsFiniteSet(Spent)
      BY CallsAssumption, FS_Subset DEF Spent
    <3>4. Points(Spent \cup {c}, Credited') = Points(Spent, Credited) + l.credit /\ Points(Spent, Credited) \in Nat
      BY <2>1, <3>2, <3>3, PointsAdded
    <3>5. balance \in Nat /\ balance >= l.credit /\ balance' = Less(balance, l.credit)
      BY <2>1 DEF LacksCredit, AITypeOK
    <3>6. balance' = balance - l.credit
      BY <2>1, <3>5 DEF Less
    <3> QED
      BY <2>1, <3>1, <3>4, <3>5, <3>6 DEF ChargedInFull
  <2>6. \A d \in Spent' : bill'[d].monthly + bill'[d].credit = bill'[d].cost
    BY <2>1, <2>2 DEF ChargedInFull, Spent
  <2> QED
    BY <2>4, <2>5, <2>6 DEF ChargedInFull
<1>7. ReservationsHeld'
  <2>1. freed[c] = 0 /\ request[c] # "none" /\ local[c].in \in Months
    BY DEF CallsFit, CallFits, Spent
  <2>2. \A d \in Calls : (request'[d] = "none" <=> request[d] = "none") /\ local'[d].month = local[d].month
    BY <1>0
  <2> QED
    BY <2>1, <2>2, GivenBack
<1> QED
  BY <1>1, <1>2, <1>3, <1>4, <1>5, <1>6, <1>7

LEMMA RollBackChargeStep ==
  ASSUME AIInv, NEW c \in Calls, RollBackCharge(c)
  PROVE  AIInv'
<1> USE DEF AIInv, CallsKnown, RollBackCharge, GoTo, settings, usage, rows, handler, billing
<1>0. local' \in [Calls -> Local]
      /\ \A d \in Calls :
           /\ local'[d].month = local[d].month /\ local'[d].in = local[d].in
           /\ local'[d].cost = local[d].cost
           /\ local'[d].monthly = local[d].monthly /\ local'[d].credit = local[d].credit
  BY OpensEnds DEF AITypeOK
<1>1. AITypeOK'
  BY <1>0 DEF AITypeOK
<1>2. CallsFit'
  <2>1. ASSUME NEW d \in Calls, d # c
        PROVE  CallFits(d)'
    <3>1. CallFits(d)
      BY DEF CallsFit
    <3> QED
      BY <1>0, <2>1, <3>1 DEF AITypeOK, CallFits, Spent
  <2>2. CallFits(c)'
    <3>1. CallFits(c)
      BY DEF CallsFit
    <3> QED
      BY <1>0, <3>1, MonthsAssumption DEF AITypeOK, CallFits, Spent, Live, Months
  <2> QED
    BY <2>1, <2>2 DEF CallsFit
<1>3. RowsFit'
  BY DEF AITypeOK, CallsFit, CallFits, RowsFit, Live
<1>4. ChargedOnce'
  BY DEF AITypeOK, CallsFit, CallFits, ChargedOnce, Spent, RowsFit, Live
<1>5. QuestionsSettled'
  BY DEF AITypeOK, CallsFit, CallFits, QuestionsSettled, RowsFit, Live
<1>6. ChargedInFull'
  BY AccountsKept
<1>7. ReservationsHeld'
  BY <1>0, ReservedKept DEF AITypeOK, CallsFit, CallFits, Live
<1> QED
  BY <1>1, <1>2, <1>3, <1>4, <1>5, <1>6, <1>7

LEMMA FinishStep ==
  ASSUME AIInv, NEW c \in Calls, Finish(c)
  PROVE  AIInv'
<1> USE DEF AIInv, CallsKnown, Finish, GoTo, Answer, GiveBack, Outcome, Questions, settings, usage, rows, handler, billing
<1>1. AITypeOK'
  <2>1. reserved' \in [Months -> Nat] /\ freed' \in [Calls -> 0..MaxMonth] /\ rowed' \subseteq Months
    <3>1. CASE MustGiveBack(c)
      <4>1. month \in Months /\ month \in 0..MaxMonth /\ Reservation[c] \in Nat /\ reserved[month] \in Nat
        BY ReservationsNat, MonthsAssumption DEF AITypeOK, Months
      <4>2. Less(reserved[month], Reservation[c]) \in Nat
        BY <4>1 DEF Less
      <4>3. reserved' = [reserved EXCEPT ![month] = Less(@, Reservation[c])]
        BY <3>1
      <4>4. freed' = [freed EXCEPT ![c] = month] /\ rowed' = rowed \cup {month}
        BY <3>1
      <4>5. reserved' \in [Months -> Nat]
        BY <4>1, <4>2, <4>3 DEF AITypeOK
      <4> QED
        BY <4>1, <4>4, <4>5 DEF AITypeOK
    <3>2. CASE ~MustGiveBack(c)
      BY <3>2 DEF AITypeOK
    <3> QED
      BY <3>1, <3>2
  <2>2. request' \in [Calls -> Live \cup {"none", "deleted"}] /\ question' \in [Calls -> {"none", "PENDING", "COMPLETE", "FAILED"}]
    BY DEF AITypeOK, Live
  <2> QED
    BY <2>1, <2>2 DEF AITypeOK
<1>2. CallsFit'
  <2>1. ASSUME NEW d \in Calls, d # c
        PROVE  CallFits(d)'
    <3>1. CallFits(d) /\ freed'[d] = freed[d]
      BY <2>1 DEF CallsFit, AITypeOK
    <3> QED
      BY <2>1, <3>1 DEF AITypeOK, CallFits, Spent
  <2>2. CallFits(c)'
    <3>1. CallFits(c)
      BY DEF CallsFit
    <3> QED
      BY <3>1 DEF AITypeOK, CallFits, Spent, Live
  <2> QED
    BY <2>1, <2>2 DEF CallsFit
<1>3. RowsFit'
  BY DEF AITypeOK, CallsFit, CallFits, RowsFit, Live
<1>4. ChargedOnce'
  BY DEF AITypeOK, CallsFit, CallFits, ChargedOnce, Spent, RowsFit, Live
<1>5. QuestionsSettled'
  BY DEF AITypeOK, CallsFit, CallFits, QuestionsSettled, RowsFit, Live
<1>6. ChargedInFull'
  BY AccountsKept
<1>7. ReservationsHeld'
  <2>1. request[c] # "none" /\ \A d \in Calls : request'[d] = "none" <=> request[d] = "none"
    BY DEF AITypeOK, Live
  <2>2. CASE MustGiveBack(c)
    <3>1. freed[c] = 0
      BY <2>2 DEF MustGiveBack, CallsFit, CallFits
    <3>2. GiveBack(c, month) /\ month \in Months
      BY <2>2 DEF AITypeOK
    <3> QED
      BY <2>1, <3>1, <3>2, GivenBack
  <2>3. CASE ~MustGiveBack(c)
    BY <2>1, <2>3, ReservedKept
  <2> QED
    BY <2>2, <2>3
<1> QED
  BY <1>1, <1>2, <1>3, <1>4, <1>5, <1>6, <1>7

LEMMA FinishDeletedStep ==
  ASSUME AIInv, NEW c \in Calls, FinishDeleted(c)
  PROVE  AIInv'
<1> USE DEF AIInv, CallsKnown, FinishDeleted, GoTo, Answer, settings, usage, rows, handler, billing
<1>1. AITypeOK'
  BY DEF AITypeOK
<1>2. CallsFit'
  BY DEF AITypeOK, CallsFit, CallFits, Spent
<1>3. RowsFit'
  BY DEF AITypeOK, CallsFit, CallFits, RowsFit, Live
<1>4. ChargedOnce'
  BY DEF AITypeOK, CallsFit, CallFits, ChargedOnce, Spent, RowsFit, Live
<1>5. QuestionsSettled'
  BY DEF AITypeOK, CallsFit, CallFits, QuestionsSettled, RowsFit, Live
<1>6. ChargedInFull'
  BY AccountsKept
<1>7. ReservationsHeld'
  BY ReservedKept DEF AITypeOK, CallsFit, CallFits, Live
<1> QED
  BY <1>1, <1>2, <1>3, <1>4, <1>5, <1>6, <1>7

LEMMA DeleteConversationStep ==
  ASSUME AIInv, NEW t \in Talks, DeleteConversation(t)
  PROVE  AIInv'
<1> USE DEF AIInv, CallsKnown, DeleteConversation, settings, usage, rows, handler, billing
<1>1. AITypeOK'
  BY DEF AITypeOK, Live
<1>2. CallsFit'
  BY DEF AITypeOK, CallsFit, CallFits, Spent, Live
<1>3. RowsFit'
  BY DEF AITypeOK, CallsFit, CallFits, RowsFit, Live
<1>4. ChargedOnce'
  BY DEF AITypeOK, CallsFit, CallFits, ChargedOnce, Spent, RowsFit, Live
<1>5. QuestionsSettled'
  <2>1. SUFFICES ASSUME NEW d \in Calls, request'[d] \in {"COMPLETE", "FAILED"}
                 PROVE  /\ question'[d] \in {"COMPLETE", "FAILED"}
                        /\ \E e \in Calls : TalkOf[e] = TalkOf[d] /\ request'[e] = question'[d]
    BY DEF QuestionsSettled
  <2>2. request[d] = request'[d] /\ TalkOf[d] # t
    BY <2>1 DEF AITypeOK, Live
  <2>3. question'[d] = question[d] /\ question[d] \in {"COMPLETE", "FAILED"}
    BY <2>1, <2>2 DEF QuestionsSettled
  <2>4. PICK e \in Calls : TalkOf[e] = TalkOf[d] /\ request[e] = question[d]
    BY <2>1, <2>2 DEF QuestionsSettled
  <2>5. request'[e] = request[e]
    BY <2>2, <2>4
  <2> QED
    BY <2>3, <2>4, <2>5
<1>6. ChargedInFull'
  BY AccountsKept
<1>7. ReservationsHeld'
  BY ReservedKept DEF AITypeOK, CallsFit, CallFits, Live
<1> QED
  BY <1>1, <1>2, <1>3, <1>4, <1>5, <1>6, <1>7

LEMMA ReadUsageStep ==
  ASSUME AIInv, ReadUsage
  PROVE  AIInv'
<1> USE DEF AIInv, CallsKnown, ReadUsage, settings, usage, rows, handler, billing
<1>1. AITypeOK'
  BY DEF AITypeOK
<1>2. CallsFit' /\ RowsFit' /\ ChargedOnce' /\ QuestionsSettled' /\ ReservationsHeld'
  BY CallsUntouched
<1>3. ChargedInFull'
  BY AccountsKept
<1> QED
  BY <1>1, <1>2, <1>3

LEMMA MonthEndsStep ==
  ASSUME AIInv, MonthEnds
  PROVE  AIInv'
<1> USE DEF AIInv, CallsKnown, MonthEnds, settings, usage, rows, handler, billing
<1>1. AITypeOK'
  <2>1. month' \in Months
    BY MonthsAssumption DEF AITypeOK, Months
  <2> QED
    BY <2>1 DEF AITypeOK
<1>2. CallsFit' /\ RowsFit' /\ ChargedOnce' /\ QuestionsSettled' /\ ReservationsHeld'
  BY CallsUntouched
<1>3. ChargedInFull'
  BY AccountsKept
<1> QED
  BY <1>1, <1>2, <1>3

LEMMA ChangeSettingsStep ==
  ASSUME AIInv, ChangeSettings
  PROVE  AIInv'
<1> USE DEF AIInv, CallsKnown, ChangeSettings, settings, usage, rows, handler, billing
<1>1. AITypeOK'
  <2>1. mode' \in Modes /\ member' \in BOOLEAN /\ enabled' \in BOOLEAN /\ allowance' \in Allowances
    BY DEF AITypeOK
  <2>2. changes' \in Nat
    BY DEF AITypeOK
  <2> QED
    BY <2>1, <2>2 DEF AITypeOK
<1>2. CallsFit' /\ RowsFit' /\ ChargedOnce' /\ QuestionsSettled' /\ ReservationsHeld'
  BY CallsUntouched
<1>3. ChargedInFull'
  BY AccountsKept
<1> QED
  BY <1>1, <1>2, <1>3

LEMMA GrantCreditsStep ==
  ASSUME AIInv, GrantCredits
  PROVE  AIInv'
<1> USE DEF AIInv, CallsKnown, GrantCredits, settings, usage, rows, handler, billing
<1>1. AITypeOK'
  <2>1. balance' \in Nat /\ granted' \in Nat /\ changes' \in Nat
    BY PointsAssumption DEF AITypeOK
  <2> QED
    BY <2>1 DEF AITypeOK
<1>2. CallsFit' /\ RowsFit' /\ ChargedOnce' /\ QuestionsSettled' /\ ReservationsHeld'
  BY CallsUntouched
<1>3. ChargedInFull'
  <2>1. /\ \A m \in Months : (Points(Billed(m), Monthly) = Points(Billed(m), Monthly)')
        /\ Points(Spent, Credited) = Points(Spent, Credited)'
    BY DEF Points, Billed, Spent, Monthly, Credited
  <2>2. Points(Spent, Credited) \in Nat
    BY PointsNat DEF Spent
  <2>3. balance' + Points(Spent, Credited) = granted'
    <3>1. balance \in Nat /\ granted \in Nat /\ CreditPoints \in Nat
      BY PointsAssumption DEF AITypeOK
    <3>2. balance + Points(Spent, Credited) = granted
      BY DEF ChargedInFull
    <3>3. balance' = balance + CreditPoints /\ granted' = granted + CreditPoints
      OBVIOUS
    <3> QED
      BY <2>2, <3>1, <3>2, <3>3
  <2> QED
    BY <2>1, <2>3 DEF ChargedInFull, Spent
<1> QED
  BY <1>1, <1>2, <1>3

LEMMA AIStep ==
  ASSUME AIInv, [AINext]_aiVars
  PROVE  AIInv'
<1>1. CASE UNCHANGED aiVars
  <2> USE <1>1 DEF aiVars, settings, usage, rows, handler, billing
  <2>1. CallsKnown'
    BY DEF AIInv, CallsKnown, AITypeOK, CallsFit, CallFits, RowsFit, Spent
  <2>2. ChargedInFull'
    BY AccountsKept DEF AIInv
  <2>3. ReservationsHeld'
    BY ReservedKept DEF AIInv
  <2>4. ChargedOnce' /\ QuestionsSettled'
    BY DEF AIInv, ChargedOnce, QuestionsSettled, Spent
  <2> QED
    BY <2>1, <2>2, <2>3, <2>4 DEF AIInv
<1>2. CASE AINext
  <2>1. ASSUME NEW c \in Calls,
               Replay(c) \/ Refuse(c) \/ Admit(c) \/ Create(c) \/ RefuseLate(c)
        PROVE  AIInv'
    BY <2>1, ReplayStep, RefuseStep, AdmitStep, CreateStep, RefuseLateStep
  <2>2. ASSUME NEW c \in Calls,
               ProviderAnswers(c) \/ ProviderFails(c) \/ Abandon(c)
        PROVE  AIInv'
    BY <2>2, ProviderAnswersStep, ProviderFailsStep, AbandonStep
  <2>3. ASSUME NEW c \in Calls,
               \/ Settle(c) \/ SettleDeleted(c) \/ Charge(c) \/ RollBackCharge(c)
               \/ Finish(c) \/ FinishDeleted(c)
        PROVE  AIInv'
    BY <2>3, SettleStep, SettleDeletedStep, ChargeStep, RollBackChargeStep, FinishStep, FinishDeletedStep
  <2>4. ASSUME NEW t \in Talks, DeleteConversation(t)
        PROVE  AIInv'
    BY <2>4, DeleteConversationStep
  <2>5. ASSUME ReadUsage \/ MonthEnds \/ ChangeSettings \/ GrantCredits
        PROVE  AIInv'
    BY <2>5, ReadUsageStep, MonthEndsStep, ChangeSettingsStep, GrantCreditsStep
  <2> QED
    BY <1>2, <2>1, <2>2, <2>3, <2>4, <2>5 DEF AINext
<1> QED
  BY <1>1, <1>2

LEMMA AIInitially == AIInit => AIInv
<1> SUFFICES ASSUME AIInit PROVE AIInv
  OBVIOUS
<1>1. AITypeOK
  BY MonthsAssumption, PointsAssumption DEF AIInit, AITypeOK, Local, NoLocal, NoBill, Months, Live
<1>2. \A c \in Calls : bill[c].in = 0 /\ local[c].month = 0 /\ freed[c] = 0
  BY DEF AIInit, NoBill, NoLocal
<1>3. \A m \in Months : m # 0
  BY MonthsAssumption DEF Months
<1>4. Spent = {} /\ \A m \in Months : Billed(m) = {} /\ Held(m) = {} /\ Foreign(m) = {}
  BY <1>2, <1>3 DEF Spent, Billed, Held, Foreign
<1>5. ASSUME NEW f PROVE Points({}, f) = 0
  <2>1. {p \in {} \X (1..MaxPoints) : p[2] <= f[p[1]]} = {}
    OBVIOUS
  <2> QED
    BY <2>1, FS_EmptySet DEF Points
<1>6. ChargedInFull
  BY <1>4, <1>5 DEF AIInit, ChargedInFull
<1>7. ReservationsHeld
  BY <1>4, <1>5 DEF AIInit, ReservationsHeld
<1>8. CallsKnown
  BY <1>1, <1>4 DEF AIInit, CallsKnown, CallsFit, CallFits, RowsFit, Live
<1>9. ChargedOnce /\ QuestionsSettled
  BY <1>4 DEF AIInit, ChargedOnce, QuestionsSettled
<1> QED
  BY <1>6, <1>7, <1>8, <1>9 DEF AIInv

\* Calls, their rows and the account of points agree, in every step and from the start.
THEOREM AIInvariant == AISpec => []AIInv
<1>1. AIInit => AIInv
  BY AIInitially
<1>2. AIInv /\ [AINext]_aiVars => AIInv'
  BY AIStep
<1> QED
  BY <1>1, <1>2, PTL DEF AISpec

\* However calls overlap and end, the month's usage and the credits are those of the answers.
THEOREM EachAnswerChargedInFull == AISpec => []ChargedInFull
<1>1. AIInv => ChargedInFull
  BY DEF AIInv
<1> QED
  BY <1>1, AIInvariant, PTL

\* No reservation is given back twice, and those in a month are short at most of foreign ones.
THEOREM ReservationsAreHeld == AISpec => []ReservationsHeld
<1>1. AIInv => ReservationsHeld
  BY DEF AIInv
<1> QED
  BY <1>1, AIInvariant, PTL

\* Calls with the same client_request_id are charged once.
THEOREM SameQuestionChargedOnce == AISpec => []ChargedOnce
<1>1. AIInv => ChargedOnce
  BY DEF AIInv
<1> QED
  BY <1>1, AIInvariant, PTL

\* A request that has ended leaves no question pending.
THEOREM NoQuestionLeftPending == AISpec => []QuestionsSettled
<1>1. AIInv => QuestionsSettled
  BY DEF AIInv
<1> QED
  BY <1>1, AIInvariant, PTL

\* What the rows say of a call wherever it is; each client_request_id has one request.
THEOREM CallsAreKnown == AISpec => []CallsKnown
<1>1. AIInv => CallsKnown
  BY DEF AIInv
<1> QED
  BY <1>1, AIInvariant, PTL
==============================================================================
