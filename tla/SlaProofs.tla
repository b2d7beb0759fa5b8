------------------------------ MODULE SlaProofs ------------------------------
(***************************************************************************)
(* What holds of the SLA clocks for any calendar, any stages, any number of *)
(* scans and any bounds.                                                   *)
(*                                                                         *)
(* First what the calendar computes.  Its recursive functions are the ones *)
(* a formula without recursion describes, and what they and the sum over   *)
(* workdays have to do with single working units follows from the least    *)
(* amount, or number of days, for which it could fail.  Then the scans and *)
(* the cases they open, which need nothing of that; then the end of a      *)
(* shipment; and last the promise of a clock.                              *)
(***************************************************************************)
EXTENDS Sla, FiniteSetTheorems, WellFoundedInduction, TLAPS
-----------------------------------------------------------------------------
(* The calendar: days, their working time, and which units lie in it.      *)

LEMMA Calendar ==
  /\ DayLength \in Nat \ {0} /\ OpensAt \in Nat /\ ClosesAt \in Nat
  /\ OpensAt < ClosesAt /\ ClosesAt <= DayLength /\ WeekLength \in Nat \ {0, 1}
  BY CalendarAssumption

LEMMA DayOfTime ==
  ASSUME NEW t \in Nat
  PROVE  /\ Day(t) \in Nat /\ Day(t) * DayLength <= t /\ t < Day(t) * DayLength + DayLength
         /\ t % DayLength = t - Day(t) * DayLength
  BY Calendar DEF Day

LEMMA DayIs ==
  ASSUME NEW t \in Nat, NEW d \in Nat, d * DayLength <= t, t < d * DayLength + DayLength
  PROVE  Day(t) = d
  BY Calendar DEF Day

\* Working time lies within its day.
LEMMA Period ==
  ASSUME NEW d \in Nat
  PROVE  /\ d * DayLength \in Nat /\ BusinessStart(d) \in Nat /\ PeriodEnd(d) \in Nat
         /\ d * DayLength <= BusinessStart(d) /\ BusinessStart(d) < PeriodEnd(d)
         /\ PeriodEnd(d) <= d * DayLength + DayLength
         /\ (d + 1) * DayLength = d * DayLength + DayLength
  BY Calendar DEF BusinessStart, PeriodEnd

LEMMA DayOfStart ==
  ASSUME NEW d \in Nat
  PROVE  Day(BusinessStart(d)) = d
<1>1. /\ BusinessStart(d) \in Nat /\ d * DayLength <= BusinessStart(d)
      /\ BusinessStart(d) < d * DayLength + DayLength
  BY Period, Calendar
<1> QED
  BY <1>1, DayIs

LEMMA DaysInOrder ==
  ASSUME NEW s \in Nat, NEW t \in Nat, s <= t
  PROVE  Day(s) <= Day(t)
<1>1. /\ Day(s) \in Nat /\ Day(s) * DayLength <= s
      /\ Day(t) \in Nat /\ t < Day(t) * DayLength + DayLength
  BY DayOfTime
<1>2. ASSUME Day(t) < Day(s) PROVE FALSE
  <2>1. /\ Day(t) + 1 <= Day(s) /\ Day(t) + 1 \in Nat /\ DayLength \in Nat
        /\ (Day(t) + 1) * DayLength = Day(t) * DayLength + DayLength
    BY <1>1, <1>2, Period, Calendar
  <2>2. (Day(t) + 1) * DayLength <= Day(s) * DayLength
    <3> DEFINE a == Day(t) + 1
               b == Day(s)
    <3>1. a \in Nat /\ b \in Nat /\ a <= b /\ DayLength \in Nat
      BY <1>1, <2>1
    <3> HIDE DEF a, b
    <3>2. a * DayLength <= b * DayLength
      BY <3>1
    <3> QED
      BY <3>2 DEF a, b
  <2>3. Day(t) * DayLength \in Nat /\ Day(s) * DayLength \in Nat
    BY <1>1, Period
  <2> QED
    BY <1>1, <2>1, <2>2, <2>3
<1> QED
  BY <1>1, <1>2

LEMMA WorkingIs ==
  ASSUME NEW u \in Nat
  PROVE  Working(u) <=> /\ IsWorkday(Day(u))
                        /\ BusinessStart(Day(u)) <= u /\ u < PeriodEnd(Day(u))
<1>1. /\ Day(u) \in Nat /\ u % DayLength = u - Day(u) * DayLength
      /\ Day(u) * DayLength \in Nat
  BY DayOfTime, Period
<1>2. /\ u % DayLength \in OpensAt .. ClosesAt - 1 <=>
           OpensAt <= u - Day(u) * DayLength /\ u - Day(u) * DayLength < ClosesAt
  BY <1>1, Calendar
<1> QED
  BY <1>1, <1>2, Calendar DEF Working, BusinessStart, PeriodEnd

\* No two days of rest follow each other.
LEMMA RestIsOneDay ==
  ASSUME NEW d \in Nat, ~IsWorkday(d)
  PROVE  IsWorkday(d + 1)
<1>1. WeekLength \in Nat \ {0, 1} /\ d % WeekLength = WeekLength - 1
  BY Calendar DEF IsWorkday
<1>2. d % WeekLength = d - WeekLength * (d \div WeekLength) /\ d \div WeekLength \in Nat
  BY <1>1
<1> DEFINE q == d \div WeekLength
<1>3. q \in Nat /\ d + 1 = (q + 1) * WeekLength + 0 /\ q + 1 \in Nat /\ d + 1 \in Nat
  BY <1>1, <1>2
<1> HIDE DEF q
<1>4. (d + 1) % WeekLength = 0
  <2>1. ASSUME NEW n \in Nat, NEW k \in Nat \ {0}, NEW m \in Nat, NEW r \in 0 .. k - 1,
               n = m * k + r
        PROVE  n % k = r
    BY <2>1
  <2>2. 0 \in 0 .. WeekLength - 1
    BY <1>1
  <2> QED
    BY <1>1, <1>3, <2>1, <2>2
<1> QED
  BY <1>1, <1>4 DEF IsWorkday

-----------------------------------------------------------------------------
(* Working time, counted unit by unit.                                     *)

Units(s, t) == {u \in s .. t - 1 : Working(u)}
Worked(t)   == Cardinality(Units(0, t))

LEMMA UnitsFinite ==
  ASSUME NEW s \in Nat, NEW t \in Nat
  PROVE  IsFiniteSet(Units(s, t)) /\ Cardinality(Units(s, t)) \in Nat
<1>1. IsFiniteSet(s .. t - 1)
  BY FS_Interval
<1>2. Units(s, t) \in SUBSET (s .. t - 1)
  BY DEF Units
<1> QED
  BY <1>1, <1>2, FS_Subset, FS_CardinalityType

LEMMA WorkedAdds ==
  ASSUME NEW s \in Nat, NEW t \in Nat, s <= t
  PROVE  /\ Worked(s) \in Nat /\ Worked(t) \in Nat /\ Worked(s) <= Worked(t)
         /\ Worked(t) = Worked(s) + Cardinality(Units(s, t))
<1>1. Units(0, t) = Units(0, s) \cup Units(s, t) /\ Units(0, s) \cap Units(s, t) = {}
  BY DEF Units
<1>2. /\ IsFiniteSet(Units(0, s)) /\ IsFiniteSet(Units(s, t))
      /\ Cardinality(Units(0, s)) \in Nat /\ Cardinality(Units(s, t)) \in Nat
  BY UnitsFinite
<1>3. Cardinality(Units(0, t)) = Cardinality(Units(0, s)) + Cardinality(Units(s, t)) - 0
  BY <1>1, <1>2, FS_Union, FS_EmptySet
<1> QED
  BY <1>2, <1>3 DEF Worked

\* Time without working units does not count, working time counts unit for unit.
LEMMA Rested ==
  ASSUME NEW s \in Nat, NEW t \in Nat, s <= t, \A u \in s .. t - 1 : ~Working(u)
  PROVE  Worked(t) = Worked(s)
<1>1. Units(s, t) = {}
  BY DEF Units
<1>2. Cardinality(Units(s, t)) = 0
  BY <1>1, FS_EmptySet
<1>3. Worked(t) = Worked(s) + Cardinality(Units(s, t)) /\ Worked(s) \in Nat
  BY WorkedAdds
<1> QED
  BY <1>2, <1>3

LEMMA WorkedThrough ==
  ASSUME NEW s \in Nat, NEW t \in Nat, s <= t, \A u \in s .. t - 1 : Working(u)
  PROVE  Worked(t) = Worked(s) + (t - s)
<1>1. Units(s, t) = s .. t - 1
  BY DEF Units
<1>2. Cardinality(s .. t - 1) = t - s
  <2>1. s \in Int /\ t - 1 \in Int
    OBVIOUS
  <2>2. Cardinality(s .. t - 1) = IF s > t - 1 THEN 0 ELSE (t - 1) - s + 1
    BY <2>1, FS_Interval
  <2> QED
    BY <2>2
<1> QED
  BY <1>1, <1>2, WorkedAdds

\* A unit of time.
LEMMA WorkedUnit ==
  ASSUME NEW t \in Nat
  PROVE  Worked(t + 1) = Worked(t) + (IF Working(t) THEN 1 ELSE 0)
<1>1. t .. (t + 1) - 1 = {t}
  OBVIOUS
<1>2. CASE Working(t)
  <2>1. Worked(t + 1) = Worked(t) + ((t + 1) - t)
    BY <1>1, <1>2, WorkedThrough
  <2> QED
    BY <1>2, <2>1
<1>3. CASE ~Working(t)
  <2>1. t + 1 \in Nat /\ t <= t + 1 /\ \A u \in t .. (t + 1) - 1 : ~Working(u)
    BY <1>1, <1>3
  <2>2. Worked(t + 1) = Worked(t) /\ Worked(t) \in Nat
    BY <2>1, Rested, WorkedAdds
  <2> QED
    BY <1>3, <2>2
<1> QED
  BY <1>2, <1>3

-----------------------------------------------------------------------------
(* The recursive functions of the calendar.  What each is defined by has a *)
(* solution, given here without recursion, so its equation holds.          *)

LEMMA MaxOfTwo ==
  ASSUME NEW a \in Int, NEW b \in Int
  PROVE  Max({a, b}) = IF a >= b THEN a ELSE b
<1>1. ASSUME NEW m \in {a, b}, \A y \in {a, b} : m >= y
      PROVE  Max({a, b}) = m
  <2>1. \E x \in {a, b} : \A y \in {a, b} : x >= y
    BY <1>1
  <2>2. Max({a, b}) \in {a, b} /\ \A y \in {a, b} : Max({a, b}) >= y
    BY <2>1 DEF Max
  <2> QED
    BY <1>1, <2>2
<1> QED
  BY <1>1

LEMMA MinOfTwo ==
  ASSUME NEW a \in Int, NEW b \in Int
  PROVE  Min({a, b}) = IF a <= b THEN a ELSE b
<1>1. ASSUME NEW m \in {a, b}, \A y \in {a, b} : m <= y
      PROVE  Min({a, b}) = m
  <2>1. \E x \in {a, b} : \A y \in {a, b} : x <= y
    BY <1>1
  <2>2. Min({a, b}) \in {a, b} /\ \A y \in {a, b} : Min({a, b}) <= y
    BY <2>1 DEF Min
  <2> QED
    BY <1>1, <2>2
<1> QED
  BY <1>1

InHours(t) == IsWorkday(Day(t)) /\ t < PeriodEnd(Day(t))

\* The next time that is in working time or at its start.
NextStart(t) ==
  IF InHours(t) THEN Max({t, BusinessStart(Day(t))})
  ELSE IF IsWorkday(Day(t) + 1) THEN BusinessStart(Day(t) + 1)
  ELSE BusinessStart(Day(t) + 2)

LEMMA StartOfWorkday ==
  ASSUME NEW d \in Nat
  PROVE  IF IsWorkday(d) THEN NextStart(BusinessStart(d)) = BusinessStart(d)
         ELSE NextStart(BusinessStart(d)) = BusinessStart(d + 1)
<1>1. Day(BusinessStart(d)) = d /\ BusinessStart(d) \in Nat /\ BusinessStart(d) < PeriodEnd(d)
  BY DayOfStart, Period
<1>2. CASE IsWorkday(d)
  <2>1. Max({BusinessStart(d), BusinessStart(d)}) = BusinessStart(d)
    BY <1>1, MaxOfTwo
  <2> QED
    BY <1>1, <1>2, <2>1 DEF NextStart, InHours
<1>3. CASE ~IsWorkday(d)
  BY <1>1, <1>3, RestIsOneDay DEF NextStart, InHours
<1> QED
  BY <1>2, <1>3

LEMMA NextStartSolves ==
  ASSUME NEW t \in Nat
  PROVE  NextStart(t) = IF IsWorkday(Day(t)) /\ t < PeriodEnd(Day(t))
                        THEN Max({t, BusinessStart(Day(t))})
                        ELSE NextStart(BusinessStart(Day(t) + 1))
<1>1. CASE InHours(t)
  BY <1>1 DEF NextStart, InHours
<1>2. CASE ~InHours(t)
  <2>1. Day(t) + 1 \in Nat /\ (Day(t) + 1) + 1 = Day(t) + 2
    BY DayOfTime
  <2>2. NextStart(BusinessStart(Day(t) + 1)) =
          IF IsWorkday(Day(t) + 1) THEN BusinessStart(Day(t) + 1) ELSE BusinessStart(Day(t) + 2)
    BY <2>1, StartOfWorkday
  <2>3. NextStart(t) =
          IF IsWorkday(Day(t) + 1) THEN BusinessStart(Day(t) + 1) ELSE BusinessStart(Day(t) + 2)
    BY <1>2 DEF NextStart
  <2> QED
    BY <1>2, <2>2, <2>3 DEF InHours
<1> QED
  BY <1>1, <1>2

\* _next_business_start() does what its recursion says.
LEMMA NextBusinessStartRec ==
  ASSUME NEW t \in Nat
  PROVE  NextBusinessStart[t] = IF IsWorkday(Day(t)) /\ t < PeriodEnd(Day(t))
                                THEN Max({t, BusinessStart(Day(t))})
                                ELSE NextBusinessStart[BusinessStart(Day(t) + 1)]
<1> DEFINE F(f) == [x \in Nat |-> IF IsWorkday(Day(x)) /\ x < PeriodEnd(Day(x))
                                  THEN Max({x, BusinessStart(Day(x))})
                                  ELSE f[BusinessStart(Day(x) + 1)]]
           g == [x \in Nat |-> NextStart(x)]
<1>1. g = F(g)
  <2>1. ASSUME NEW x \in Nat PROVE g[x] = F(g)[x]
    <3>1. BusinessStart(Day(x) + 1) \in Nat
      <4>1. Day(x) + 1 \in Nat
        BY DayOfTime
      <4> QED
        BY <4>1, Period
    <3> QED
      BY <3>1, NextStartSolves
  <2> QED
    BY <2>1
<1>2. NextBusinessStart = CHOOSE f : f = F(f)
  BY DEF NextBusinessStart
<1> HIDE DEF g
<1>3. \E f : f = F(f)
  BY <1>1
<1>4. NextBusinessStart = F(NextBusinessStart)
  BY ONLY <1>2, <1>3, Zenon
<1> QED
  BY <1>4

\* It is the next time that is in working time or at its start.
LEMMA NextBusinessStartIs ==
  ASSUME NEW t \in Nat
  PROVE  LET s == NextBusinessStart[t]
         IN /\ s \in Nat /\ t <= s /\ IsWorkday(Day(s))
            /\ BusinessStart(Day(s)) <= s /\ s < PeriodEnd(Day(s))
            /\ \A u \in t .. s - 1 : ~Working(u)
<1> DEFINE d == Day(t)
<1>1. /\ d \in Nat /\ t < d * DayLength + DayLength
      /\ d + 1 \in Nat /\ d + 2 \in Nat /\ (d + 1) + 1 = d + 2
  BY DayOfTime
<1>2. \A u \in Nat : Working(u) => /\ IsWorkday(Day(u)) /\ BusinessStart(Day(u)) <= u
                                   /\ u < PeriodEnd(Day(u)) /\ Day(u) \in Nat
  BY WorkingIs, DayOfTime
\* A workday's start: nothing before it, after the working time of day k, is working time.
<1>3. ASSUME NEW s \in Nat, NEW k \in Nat, NEW m \in Nat, s = BusinessStart(m), k <= m,
             t <= s, IsWorkday(m), \A e \in k .. m - 1 : ~IsWorkday(e) \/ PeriodEnd(e) <= t,
             k = Day(t)
      PROVE  /\ t <= s /\ IsWorkday(Day(s))
             /\ BusinessStart(Day(s)) <= s /\ s < PeriodEnd(Day(s))
             /\ \A u \in t .. s - 1 : ~Working(u)
  <2>1. Day(s) = m /\ s < PeriodEnd(m)
    BY <1>3, DayOfStart, Period
  <2>2. ASSUME NEW u \in t .. s - 1, Working(u) PROVE FALSE
    <3>1. /\ u \in Nat /\ IsWorkday(Day(u)) /\ BusinessStart(Day(u)) <= u
          /\ u < PeriodEnd(Day(u)) /\ Day(u) \in Nat
      BY <1>2, <1>3, <2>2
    <3>2. k <= Day(u) /\ Day(u) <= m
      BY <1>3, <2>1, <3>1, DaysInOrder
    <3>3. CASE Day(u) = m
      BY <1>3, <3>1, <3>3
    <3>4. CASE Day(u) # m
      <4>1. Day(u) \in k .. m - 1
        BY <3>1, <3>2, <3>4
      <4>2. PeriodEnd(Day(u)) <= t /\ PeriodEnd(Day(u)) \in Nat
        BY <1>3, <3>1, <4>1, Period
      <4> QED
        BY <1>3, <3>1, <4>2
    <3> QED
      BY <3>3, <3>4
  <2> QED
    BY <1>3, <2>1, <2>2
<1>4. CASE InHours(t)
  <2>1. NextBusinessStart[t] = Max({t, BusinessStart(d)})
    BY <1>4, NextBusinessStartRec DEF InHours
  <2>2. BusinessStart(d) \in Nat
    BY <1>1, Period
  <2>3. CASE BusinessStart(d) <= t
    <3>1. NextBusinessStart[t] = t
      BY <2>1, <2>2, <2>3, MaxOfTwo
    <3> QED
      BY <1>4, <2>3, <3>1 DEF InHours
  <2>4. CASE t < BusinessStart(d)
    <3>1. NextBusinessStart[t] = BusinessStart(d)
      BY <2>1, <2>2, <2>4, MaxOfTwo
    <3>2. \A e \in d .. d - 1 : FALSE
      BY <1>1
    <3>3. d <= d /\ IsWorkday(d) /\ t <= BusinessStart(d)
      BY <1>1, <1>4, <2>2, <2>4 DEF InHours
    <3> HIDE DEF d
    <3> QED
      BY <1>1, <1>3, <2>2, <3>1, <3>2, <3>3 DEF d
  <2> QED
    BY <2>2, <2>3, <2>4
<1>5. CASE ~InHours(t)
  <2>1. NextBusinessStart[t] = NextBusinessStart[BusinessStart(d + 1)]
    BY <1>5, NextBusinessStartRec DEF InHours
  <2>2. /\ BusinessStart(d + 1) \in Nat /\ BusinessStart(d + 2) \in Nat
        /\ Day(BusinessStart(d + 1)) = d + 1 /\ Day(BusinessStart(d + 2)) = d + 2
        /\ BusinessStart(d + 1) < PeriodEnd(d + 1) /\ BusinessStart(d + 2) < PeriodEnd(d + 2)
        /\ t <= BusinessStart(d + 1) /\ BusinessStart(d + 1) <= BusinessStart(d + 2)
    <3>1. /\ BusinessStart(d + 1) \in Nat /\ BusinessStart(d + 2) \in Nat
          /\ BusinessStart(d + 1) < PeriodEnd(d + 1) /\ BusinessStart(d + 2) < PeriodEnd(d + 2)
          /\ PeriodEnd(d + 1) <= (d + 1) * DayLength + DayLength
          /\ PeriodEnd(d + 1) \in Nat /\ (d + 1) * DayLength \in Nat
          /\ (d + 1) * DayLength <= BusinessStart(d + 1)
          /\ (d + 1) * DayLength = d * DayLength + DayLength
      BY <1>1, Period
    <3>2. /\ (d + 2) * DayLength <= BusinessStart(d + 2) /\ (d + 2) * DayLength \in Nat
          /\ (d + 2) * DayLength = (d + 1) * DayLength + DayLength
      BY <1>1, Period
    <3>3. Day(BusinessStart(d + 1)) = d + 1 /\ Day(BusinessStart(d + 2)) = d + 2
      BY <1>1, DayOfStart
    <3> HIDE DEF d
    <3> QED
      BY <1>1, <3>1, <3>2, <3>3
  <2>3. ~IsWorkday(d) \/ PeriodEnd(d) <= t
    BY <1>1, <1>5, Period DEF InHours
  <2>4. CASE IsWorkday(d + 1)
    <3>1. NextBusinessStart[t] = BusinessStart(d + 1)
      <4>1. NextBusinessStart[BusinessStart(d + 1)] =
              Max({BusinessStart(d + 1), BusinessStart(d + 1)})
        BY <2>2, <2>4, NextBusinessStartRec
      <4> QED
        BY <2>1, <2>2, <4>1, MaxOfTwo
    <3>2. \A e \in d .. (d + 1) - 1 : e = d
      BY <1>1
    <3>3. d <= d + 1
      BY <1>1
    <3> HIDE DEF d
    <3> QED
      BY <1>1, <1>3, <2>2, <2>3, <2>4, <3>1, <3>2, <3>3 DEF d
  <2>5. CASE ~IsWorkday(d + 1)
    <3>1. IsWorkday(d + 2)
      BY <1>1, <2>5, RestIsOneDay
    <3>2. NextBusinessStart[t] = BusinessStart(d + 2)
      <4>1. NextBusinessStart[BusinessStart(d + 1)] = NextBusinessStart[BusinessStart(d + 2)]
        BY <1>1, <2>2, <2>5, NextBusinessStartRec
      <4>2. NextBusinessStart[BusinessStart(d + 2)] =
              Max({BusinessStart(d + 2), BusinessStart(d + 2)})
        BY <2>2, <3>1, NextBusinessStartRec
      <4> QED
        BY <2>1, <2>2, <4>1, <4>2, MaxOfTwo
    <3>3. \A e \in d .. (d + 2) - 1 : e = d \/ e = d + 1
      BY <1>1
    <3>4. d <= d + 2 /\ t <= BusinessStart(d + 2)
      BY <1>1, <2>2
    <3> HIDE DEF d
    <3> QED
      BY <1>1, <1>3, <2>2, <2>3, <2>5, <3>1, <3>2, <3>3, <3>4 DEF d
  <2> QED
    BY <2>4, <2>5
<1> QED
  BY <1>4, <1>5

\* A set of numbers has a least one.
LEMMA LeastExists ==
  ASSUME NEW S \in SUBSET Nat, S # {}
  PROVE  \E n \in S : \A m \in S : n <= m
<1> DEFINE R == OpToRel(<, Nat)
<1>1. PICK n \in S : \A m \in S : <<m, n>> \notin R
  <2>1. IsWellFoundedOn(R, Nat)
    BY NatLessThanWellFounded
  <2> HIDE DEF R
  <2> QED
    BY ONLY <2>1, S \in SUBSET Nat, S # {}, WFMin, Zenon
<1>2. \A m \in S : ~(m < n)
  BY <1>1 DEF OpToRel
<1> QED
  BY <1>2

\* From a working unit on, the day is working time up to its end, and then rest up to the
\* start of the next one.
LEMMA RestOfDay ==
  ASSUME NEW t \in Nat, IsWorkday(Day(t)), BusinessStart(Day(t)) <= t, t < PeriodEnd(Day(t))
  PROVE  LET d == Day(t)
         IN /\ PeriodEnd(d) \in Nat /\ BusinessStart(d + 1) \in Nat
            /\ PeriodEnd(d) <= BusinessStart(d + 1)
            /\ \A u \in t .. PeriodEnd(d) - 1 : Working(u)
            /\ \A u \in PeriodEnd(d) .. BusinessStart(d + 1) - 1 : ~Working(u)
<1> DEFINE d == Day(t)
<1>1. /\ d \in Nat /\ d + 1 \in Nat /\ d * DayLength \in Nat /\ d * DayLength <= t
      /\ BusinessStart(d) \in Nat /\ PeriodEnd(d) \in Nat /\ BusinessStart(d + 1) \in Nat
      /\ PeriodEnd(d) <= d * DayLength + DayLength
      /\ (d + 1) * DayLength = d * DayLength + DayLength
      /\ (d + 1) * DayLength <= BusinessStart(d + 1)
      /\ BusinessStart(d + 1) < (d + 1) * DayLength + DayLength
  <2>1. d \in Nat /\ d + 1 \in Nat /\ d * DayLength <= t
    BY DayOfTime
  <2>2. BusinessStart(d + 1) < PeriodEnd(d + 1) /\ PeriodEnd(d + 1) \in Nat
        /\ PeriodEnd(d + 1) <= (d + 1) * DayLength + DayLength
        /\ BusinessStart(d + 1) \in Nat /\ (d + 1) * DayLength \in Nat
    BY <2>1, Period
  <2> QED
    BY <2>1, <2>2, Period, Calendar
<1>2. ASSUME NEW u \in Nat, t <= u, u < BusinessStart(d + 1)
      PROVE  Day(u) = d \/ (Day(u) = d + 1 /\ u >= PeriodEnd(d))
  <2>1. CASE u < d * DayLength + DayLength
    <3>1. d * DayLength <= u
      BY <1>1, <1>2
    <3> QED
      BY <1>1, <2>1, <3>1, DayIs
  <2>2. CASE ~(u < d * DayLength + DayLength)
    <3>1. (d + 1) * DayLength <= u /\ u < (d + 1) * DayLength + DayLength
      BY <1>1, <1>2, <2>2, Calendar
    <3>2. Day(u) = d + 1
      BY <1>1, <3>1, DayIs
    <3> QED
      BY <1>1, <1>2, <2>2, <3>2, Calendar
  <2> QED
    BY <2>1, <2>2
<1>3. PeriodEnd(d) <= BusinessStart(d + 1)
  <2>1. (d + 1) * DayLength \in Nat
    BY <1>1, Period
  <2> QED
    BY <1>1, <2>1
<1>4. ASSUME NEW u \in t .. PeriodEnd(d) - 1 PROVE Working(u)
  <2>1. u \in Nat /\ t <= u /\ u < PeriodEnd(d) /\ u < BusinessStart(d + 1)
    BY <1>1, <1>3, <1>4
  <2>2. Day(u) = d
    BY <1>1, <1>2, <2>1
  <2>3. BusinessStart(d) <= u
    BY <1>1, <2>1
  <2> QED
    BY <2>1, <2>2, <2>3, WorkingIs
<1>5. ASSUME NEW u \in PeriodEnd(d) .. BusinessStart(d + 1) - 1 PROVE ~Working(u)
  <2>1. u \in Nat /\ t <= u /\ PeriodEnd(d) <= u /\ u < BusinessStart(d + 1)
    BY <1>1, <1>5
  <2>2. Day(u) = d \/ Day(u) = d + 1
    BY <1>2, <2>1
  <2>3. ~(u < PeriodEnd(d)) /\ ~(BusinessStart(d + 1) <= u)
    BY <1>1, <2>1
  <2> QED
    BY <2>1, <2>2, <2>3, WorkingIs
<1> QED
  BY <1>1, <1>3, <1>4, <1>5

\* Time n of working time ends with a working unit.
Ends(e, n) == e \in Nat \ {0} /\ Worked(e) = n /\ Working(e - 1)
EndOf(n)   == CHOOSE e : Ends(e, n)

LEMMA EndIsUnique ==
  ASSUME NEW n, NEW d, NEW e, Ends(d, n), Ends(e, n), d < e
  PROVE  FALSE
<1>1. d \in Nat /\ e \in Nat /\ e - 1 \in Nat /\ d <= e - 1 /\ (e - 1) + 1 = e
  BY DEF Ends
<1>2. Worked(e) = Worked(e - 1) + 1 /\ Worked(d) <= Worked(e - 1) /\ Worked(e - 1) \in Nat
  <2>1. Worked((e - 1) + 1) = Worked(e - 1) + 1
    BY <1>1, WorkedUnit DEF Ends
  <2> QED
    BY <1>1, <2>1, WorkedAdds
<1> QED
  BY <1>1, <1>2, WorkedAdds DEF Ends

LEMMA EndExists ==
  ASSUME NEW n \in Nat \ {0}
  PROVE  \E e : Ends(e, n)
<1> DEFINE S == {m \in Nat \ {0} : ~\E e : Ends(e, m)}
<1>1. SUFFICES ASSUME S # {} PROVE FALSE
  BY <1>1
<1>2. PICK m \in S : \A k \in S : m <= k
  <2>1. S \in SUBSET Nat
    OBVIOUS
  <2> HIDE DEF S
  <2> QED
    BY <1>1, <2>1, LeastExists
<1>3. PICK t \in Nat : Worked(t) = m - 1
  <2>1. CASE m = 1
    <3>1. Units(0, 0) = {}
      BY DEF Units
    <3>2. Worked(0) = 0
      BY <3>1, FS_EmptySet DEF Worked
    <3> QED
      BY <2>1, <3>2
  <2>2. CASE m # 1
    <3>1. m - 1 \in Nat \ {0} /\ ~(m <= m - 1)
      BY <2>2
    <3>2. \E e : Ends(e, m - 1)
      BY <1>2, <3>1
    <3> QED
      BY <3>2 DEF Ends
  <2> QED
    BY <2>1, <2>2
<1> DEFINE s == NextBusinessStart[t]
<1>4. s \in Nat /\ t <= s /\ Working(s) /\ \A u \in t .. s - 1 : ~Working(u)
  <2>1. /\ s \in Nat /\ t <= s /\ IsWorkday(Day(s))
        /\ BusinessStart(Day(s)) <= s /\ s < PeriodEnd(Day(s))
        /\ \A u \in t .. s - 1 : ~Working(u)
    BY NextBusinessStartIs
  <2> HIDE DEF s
  <2> QED
    BY <2>1, WorkingIs
<1> HIDE DEF s
<1>5. Worked(s + 1) = (m - 1) + 1
  <2>1. Worked(s) = m - 1
    BY <1>3, <1>4, Rested
  <2> QED
    BY <1>4, <2>1, WorkedUnit
<1>6. Ends(s + 1, m)
  <2>1. s + 1 \in Nat \ {0} /\ (s + 1) - 1 = s /\ (m - 1) + 1 = m
    BY <1>2, <1>4
  <2> QED
    BY <1>4, <1>5, <2>1 DEF Ends
<1> QED
  BY <1>2, <1>6

LEMMA EndOfIs ==
  ASSUME NEW n \in Nat, NEW e, Ends(e, n)
  PROVE  EndOf(n) = e
<1>1. Ends(EndOf(n), n)
  BY DEF EndOf
<1>2. e \in Nat /\ EndOf(n) \in Nat
  BY <1>1 DEF Ends
<1>3. ~(e < EndOf(n)) /\ ~(EndOf(n) < e)
  BY <1>1, EndIsUnique
<1> QED
  BY <1>2, <1>3

LaterIn(t, amount) == IF amount = 0 THEN t ELSE EndOf(Worked(t) + amount)

\* One day of add_work_hours().
LEMMA WorkDay ==
  ASSUME NEW t \in Nat, NEW amount \in Nat \ {0}
  PROVE  LET from      == NextBusinessStart[t]
             available == PeriodEnd(Day(from)) - from
             next      == BusinessStart(Day(from) + 1)
         IN /\ from \in Nat /\ available \in Nat \ {0} /\ next \in Nat
            /\ amount <= available => Ends(from + amount, Worked(t) + amount)
            /\ Worked(next) = Worked(t) + available
<1> DEFINE from      == NextBusinessStart[t]
           end       == PeriodEnd(Day(from))
           next      == BusinessStart(Day(from) + 1)
<1>1. /\ from \in Nat /\ t <= from /\ IsWorkday(Day(from))
      /\ BusinessStart(Day(from)) <= from /\ from < end
      /\ \A u \in t .. from - 1 : ~Working(u)
  BY NextBusinessStartIs
<1> HIDE DEF from
<1>2. /\ end \in Nat /\ next \in Nat /\ end <= next
      /\ \A u \in from .. end - 1 : Working(u)
      /\ \A u \in end .. next - 1 : ~Working(u)
  BY <1>1, RestOfDay
<1> HIDE DEF end, next
<1>3. Worked(from) = Worked(t) /\ Worked(t) \in Nat
  BY <1>1, Rested, WorkedAdds
<1>4. ASSUME amount <= end - from PROVE Ends(from + amount, Worked(t) + amount)
  <2>1. /\ from + amount \in Nat \ {0} /\ from <= from + amount
        /\ (from + amount) - from = amount
        /\ (from + amount) - 1 \in from .. end - 1
    BY <1>1, <1>2, <1>4
  <2>2. \A u \in from .. (from + amount) - 1 : Working(u)
    BY <1>1, <1>2, <1>4
  <2>3. Worked(from + amount) = Worked(from) + ((from + amount) - from)
    BY <1>1, <2>1, <2>2, WorkedThrough
  <2> QED
    BY <1>2, <1>3, <2>1, <2>3 DEF Ends
<1>5. Worked(next) = Worked(t) + (end - from)
  <2>1. Worked(end) = Worked(from) + (end - from)
    BY <1>1, <1>2, WorkedThrough
  <2>2. Worked(next) = Worked(end)
    BY <1>2, Rested
  <2> QED
    BY <1>3, <2>1, <2>2
<1>6. end - from \in Nat \ {0}
  BY <1>1, <1>2
<1> QED
  BY <1>1, <1>2, <1>4, <1>5, <1>6 DEF from, end, next

LEMMA LaterInSolves ==
  ASSUME NEW t \in Nat, NEW amount \in Nat
  PROVE  LaterIn(t, amount) =
           IF amount = 0 THEN t
           ELSE LET from == NextBusinessStart[t]
                    available == PeriodEnd(Day(from)) - from
                IN  IF amount <= available
                    THEN from + amount
                    ELSE LaterIn(BusinessStart(Day(from) + 1), amount - available)
<1> DEFINE from      == NextBusinessStart[t]
           available == PeriodEnd(Day(from)) - from
           next      == BusinessStart(Day(from) + 1)
<1>1. CASE amount = 0
  BY <1>1 DEF LaterIn
<1>2. CASE amount # 0
  <2>1. /\ from \in Nat /\ available \in Nat \ {0} /\ next \in Nat
        /\ amount <= available => Ends(from + amount, Worked(t) + amount)
        /\ Worked(next) = Worked(t) + available /\ Worked(t) \in Nat
    BY <1>2, WorkDay, WorkedAdds
  <2> HIDE DEF from, available, next
  <2>2. CASE amount <= available
    <3>1. EndOf(Worked(t) + amount) = from + amount
      BY <2>1, <2>2, EndOfIs
    <3> QED
      BY <1>2, <2>2, <3>1 DEF LaterIn, from, available, next
  <2>3. CASE ~(amount <= available)
    <3>1. Worked(next) + (amount - available) = Worked(t) + amount /\ amount - available # 0
      BY <2>1, <2>3
    <3>2. LaterIn(next, amount - available) = LaterIn(t, amount)
      BY <1>2, <3>1 DEF LaterIn
    <3> QED
      BY <1>2, <2>3, <3>2 DEF from, available, next
  <2> QED
    BY <2>2, <2>3
<1> QED
  BY <1>1, <1>2

\* add_work_hours() does what its recursion says.
LEMMA AddWorkHoursRec ==
  ASSUME NEW t \in Nat, NEW amount \in Nat
  PROVE  AddWorkHours[amount][t] =
           IF amount = 0 THEN t
           ELSE LET from == NextBusinessStart[t]
                    available == PeriodEnd(Day(from)) - from
                IN  IF amount <= available
                    THEN from + amount
                    ELSE AddWorkHours[amount - available][BusinessStart(Day(from) + 1)]
<1> DEFINE G(f, a, x) == IF a = 0 THEN x
                         ELSE LET from == NextBusinessStart[x]
                                  available == PeriodEnd(Day(from)) - from
                              IN  IF a <= available
                                  THEN from + a
                                  ELSE f[a - available][BusinessStart(Day(from) + 1)]
           F(f) == [a \in Nat |-> [x \in Nat |-> G(f, a, x)]]
           g == [a \in Nat |-> [x \in Nat |-> LaterIn(x, a)]]
<1>1. ASSUME NEW x \in Nat, NEW a \in Nat PROVE LaterIn(x, a) = G(g, a, x)
  <2> DEFINE from      == NextBusinessStart[x]
             available == PeriodEnd(Day(from)) - from
             next      == BusinessStart(Day(from) + 1)
  <2>1. CASE a = 0
    BY <2>1 DEF LaterIn
  <2>2. CASE a # 0
    <3>1. from \in Nat /\ available \in Nat \ {0} /\ next \in Nat
      BY <2>2, WorkDay
    <3>2. LaterIn(x, a) = IF a <= available THEN from + a ELSE LaterIn(next, a - available)
      BY <2>2, LaterInSolves
    <3>3. G(g, a, x) = IF a <= available THEN from + a ELSE g[a - available][next]
      BY <2>2
    <3> HIDE DEF from, available, next, G
    <3>4. ~(a <= available) => a - available \in Nat
      BY <3>1
    <3>5. ~(a <= available) => g[a - available][next] = LaterIn(next, a - available)
      BY <3>1, <3>4
    <3> QED
      BY <3>2, <3>3, <3>5
  <2> QED
    BY <2>1, <2>2
<1>2. g = F(g)
  <2> HIDE DEF G
  <2> DEFINE h(a) == [x \in Nat |-> LaterIn(x, a)]
             k(a) == [x \in Nat |-> G(g, a, x)]
  <2>1. ASSUME NEW a \in Nat PROVE h(a) = k(a)
    <3> HIDE DEF g
    <3> QED
      BY <1>1
  <2>2. g = [a \in Nat |-> h(a)] /\ F(g) = [a \in Nat |-> k(a)]
    OBVIOUS
  <2> HIDE DEF h, k
  <2> QED
    BY <2>1, <2>2
<1>3. AddWorkHours = CHOOSE f : f = F(f)
  BY DEF AddWorkHours
<1> HIDE DEF g
<1>4. \E f : f = F(f)
  BY <1>2
<1>5. AddWorkHours = F(AddWorkHours)
  BY ONLY <1>3, <1>4, Zenon
<1>6. AddWorkHours[amount][t] = G(AddWorkHours, amount, t)
  <2> HIDE DEF G
  <2>1. AddWorkHours[amount] = [x \in Nat |-> G(AddWorkHours, amount, x)]
    <3> DEFINE k(a) == [x \in Nat |-> G(AddWorkHours, a, x)]
    <3>1. AddWorkHours = [a \in Nat |-> k(a)]
      BY <1>5, Zenon
    <3> HIDE DEF k
    <3>2. AddWorkHours[amount] = k(amount)
      BY <3>1
    <3> QED
      BY <3>2 DEF k
  <2> QED
    BY <2>1
<1> QED
  BY <1>6

\* Whatever day and hour it starts from, add_work_hours() returns the time that
\* lies exactly the given amount of working units later.
THEOREM AddsWorkingTime ==
  ASSUME NEW t \in Nat, NEW amount \in Nat
  PROVE  /\ AddWorkHours[amount][t] \in Nat
         /\ Worked(AddWorkHours[amount][t]) = Worked(t) + amount
<1> DEFINE Good(x, a) == /\ AddWorkHours[a][x] \in Nat
                         /\ Worked(AddWorkHours[a][x]) = Worked(x) + a
           S == {a \in Nat : \E x \in Nat : ~Good(x, a)}
<1>1. SUFFICES ASSUME S # {} PROVE FALSE
  BY <1>1
<1>2. PICK a \in S : \A b \in S : a <= b
  <2>1. S \in SUBSET Nat
    OBVIOUS
  <2> HIDE DEF S
  <2> QED
    BY <1>1, <2>1, LeastExists
<1>3. PICK x \in Nat : ~Good(x, a)
  BY <1>2
<1>4. a \in Nat /\ \A b \in Nat : b < a => \A y \in Nat : Good(y, b)
  BY <1>2
<1>5. Worked(x) \in Nat
  BY WorkedAdds
<1>6. CASE a = 0
  <2>1. AddWorkHours[a][x] = x
    BY <1>4, <1>6, AddWorkHoursRec
  <2> QED
    BY <1>3, <1>5, <1>6, <2>1
<1>7. CASE a # 0
  <2> DEFINE from      == NextBusinessStart[x]
             available == PeriodEnd(Day(from)) - from
             next      == BusinessStart(Day(from) + 1)
  <2>1. /\ from \in Nat /\ available \in Nat \ {0} /\ next \in Nat
        /\ a <= available => Ends(from + a, Worked(x) + a)
        /\ Worked(next) = Worked(x) + available
    BY <1>4, <1>7, WorkDay
  <2>2. AddWorkHours[a][x] = IF a <= available THEN from + a
                             ELSE AddWorkHours[a - available][next]
    BY <1>4, <1>7, AddWorkHoursRec
  <2> HIDE DEF from, available, next
  <2>3. CASE a <= available
    BY <1>3, <2>1, <2>2, <2>3 DEF Ends
  <2>4. CASE ~(a <= available)
    <3>1. a - available \in Nat /\ a - available < a
      BY <1>4, <2>1, <2>4
    <3>2. Good(next, a - available)
      BY <1>4, <2>1, <3>1
    <3>3. Worked(next) + (a - available) = Worked(x) + a
      BY <1>4, <1>5, <2>1
    <3> QED
      BY <1>3, <2>2, <2>4, <3>2, <3>3
  <2> QED
    BY <2>3, <2>4
<1> QED
  BY <1>6, <1>7

-----------------------------------------------------------------------------
(* work_hours_between() counts the working units from one time to another. *)

Window(start, end, day) ==
  Max({0, Min({end, PeriodEnd(day)}) - Max({start, BusinessStart(day)})})

Workdays(start, end) == {day \in Day(start)..Day(end) : IsWorkday(day)}

\* The working units of a set of days.
UnitsOn(start, end, days) == {u \in Units(start, end) : Day(u) \in days}

\* A workday's part of the time is a run of working units.
LEMMA WindowCounts ==
  ASSUME NEW start \in Nat, NEW end \in Nat, start <= end, NEW day \in Nat, IsWorkday(day)
  PROVE  Window(start, end, day) = Cardinality(UnitsOn(start, end, {day}))
<1> DEFINE a == Max({start, BusinessStart(day)})
           b == Min({end, PeriodEnd(day)})
<1>1. /\ BusinessStart(day) \in Nat /\ PeriodEnd(day) \in Nat
      /\ day * DayLength \in Nat /\ day * DayLength <= BusinessStart(day)
      /\ PeriodEnd(day) <= day * DayLength + DayLength
  BY Period
<1>2. /\ a = IF start >= BusinessStart(day) THEN start ELSE BusinessStart(day)
      /\ b = IF end <= PeriodEnd(day) THEN end ELSE PeriodEnd(day)
  BY <1>1, MaxOfTwo, MinOfTwo
<1> HIDE DEF a, b
<1>3. a \in Nat /\ b \in Nat
  BY <1>1, <1>2
<1>4. UnitsOn(start, end, {day}) = a .. b - 1
  <2>1. ASSUME NEW u \in UnitsOn(start, end, {day}) PROVE u \in a .. b - 1
    <3>1. u \in Nat /\ start <= u /\ u < end /\ Working(u) /\ Day(u) = day
      BY <2>1 DEF UnitsOn, Units
    <3>2. BusinessStart(day) <= u /\ u < PeriodEnd(day)
      BY <3>1, WorkingIs
    <3> QED
      BY <1>1, <1>2, <1>3, <3>1, <3>2
  <2>2. ASSUME NEW u \in a .. b - 1 PROVE u \in UnitsOn(start, end, {day})
    <3>1. /\ u \in Nat /\ start <= u /\ u <= end - 1
          /\ BusinessStart(day) <= u /\ u < PeriodEnd(day)
      BY <1>1, <1>2, <1>3, <2>2
    <3>2. Day(u) = day
      BY <1>1, <3>1, DayIs, Calendar
    <3>3. Working(u)
      BY <3>1, <3>2, WorkingIs
    <3> QED
      BY <3>1, <3>2, <3>3 DEF UnitsOn, Units
  <2> QED
    BY <2>1, <2>2
<1>5. Cardinality(a .. b - 1) = IF a > b - 1 THEN 0 ELSE (b - 1) - a + 1
  <2>1. a \in Int /\ b - 1 \in Int
    BY <1>3
  <2> QED
    BY <2>1, FS_Interval
<1>6. Window(start, end, day) = IF 0 >= b - a THEN 0 ELSE b - a
  <2>1. Window(start, end, day) = Max({0, b - a})
    BY DEF Window, a, b
  <2>2. b - a \in Int /\ 0 \in Int
    BY <1>3
  <2> QED
    BY <2>1, <2>2, MaxOfTwo
<1> QED
  BY <1>3, <1>4, <1>5, <1>6

LEMMA UnitsOnFinite ==
  ASSUME NEW start \in Nat, NEW end \in Nat, NEW days
  PROVE  /\ IsFiniteSet(UnitsOn(start, end, days))
         /\ Cardinality(UnitsOn(start, end, days)) \in Nat
<1>1. IsFiniteSet(Units(start, end)) /\ UnitsOn(start, end, days) \in SUBSET Units(start, end)
  BY UnitsFinite DEF UnitsOn
<1> QED
  BY <1>1, FS_Subset, FS_CardinalityType

\* The sum of a set of days: of one of them, and of the others.
LEMMA SumSplits ==
  ASSUME NEW start \in Nat, NEW end \in Nat, start <= end,
         NEW days \in SUBSET Workdays(start, end), NEW day \in days
  PROVE  Cardinality(UnitsOn(start, end, days)) =
           Window(start, end, day) + Cardinality(UnitsOn(start, end, days \ {day}))
<1>1. day \in Nat /\ IsWorkday(day)
  <2>1. Day(start) \in Nat /\ Day(end) \in Nat
    BY DayOfTime
  <2> QED
    BY <2>1 DEF Workdays
<1> DEFINE A == UnitsOn(start, end, {day})
           B == UnitsOn(start, end, days \ {day})
<1>2. UnitsOn(start, end, days) = A \cup B /\ A \cap B = {}
  BY DEF UnitsOn
<1>3. /\ IsFiniteSet(A) /\ IsFiniteSet(B)
      /\ Cardinality(A) \in Nat /\ Cardinality(B) \in Nat
  BY UnitsOnFinite
<1>4. Window(start, end, day) = Cardinality(A)
  BY <1>1, WindowCounts
<1> HIDE DEF A, B
<1>5. Cardinality(A \cup B) = Cardinality(A) + Cardinality(B) - Cardinality({})
  BY <1>2, <1>3, FS_Union
<1> QED
  BY <1>2, <1>3, <1>4, <1>5, FS_EmptySet DEF B

\* work_hours_between() returns the number of working units from one time to a
\* later one, which is the difference of what has been worked up to each.
THEOREM CountsWorkingTime ==
  ASSUME NEW start \in Nat, NEW end \in Nat, start <= end
  PROVE  /\ WorkHoursBetween(start, end) = Cardinality(Units(start, end))
         /\ Worked(end) = Worked(start) + WorkHoursBetween(start, end)
         /\ WorkHoursBetween(start, end) \in Nat
<1> DEFINE D    == Workdays(start, end)
           W(d) == Window(start, end, d)
           C(s) == CHOOSE x \in s : TRUE
           F(f) == [s \in SUBSET D |-> IF s = {} THEN 0 ELSE W(C(s)) + f[s \ {C(s)}]]
           g    == [s \in SUBSET D |-> Cardinality(UnitsOn(start, end, s))]
           sum  == CHOOSE f : f = F(f)
<1>1. WorkHoursBetween(start, end) = sum[D]
  BY DEF WorkHoursBetween, MapThenSumSet, MapThenFoldSet, Window, Workdays
<1> HIDE DEF D, W, C
<1>2. g = F(g)
  <2>1. ASSUME NEW s \in SUBSET D
        PROVE  g[s] = IF s = {} THEN 0 ELSE W(C(s)) + g[s \ {C(s)}]
    <3>1. CASE s = {}
      <4>1. UnitsOn(start, end, s) = {}
        BY <3>1 DEF UnitsOn
      <4> QED
        BY <3>1, <4>1, FS_EmptySet
    <3>2. CASE s # {}
      <4>1. C(s) \in s
        BY <3>2 DEF C
      <4>2. s \ {C(s)} \in SUBSET D
        OBVIOUS
      <4>3. g[s] = W(C(s)) + Cardinality(UnitsOn(start, end, s \ {C(s)}))
        BY <4>1, SumSplits DEF D, W
      <4> QED
        BY <3>2, <4>2, <4>3
    <3> QED
      BY <3>1, <3>2
  <2> HIDE DEF g
  <2>2. g = [s \in SUBSET D |-> g[s]]
    BY DEF g
  <2> QED
    BY <2>1, <2>2
<1>3. sum = F(sum)
  <2> HIDE DEF g, F
  <2>1. \E f : f = F(f)
    BY <1>2
  <2> QED
    BY ONLY <2>1, Zenon
<1> HIDE DEF sum
<1>4. sum[D] = Cardinality(UnitsOn(start, end, D))
  <2> DEFINE Bad == {n \in Nat : \E s \in SUBSET D : /\ Cardinality(s) = n /\ sum[s] # g[s]}
  <2>1. IsFiniteSet(D)
    <3>1. Day(start) \in Nat /\ Day(end) \in Nat
      BY DayOfTime
    <3>2. IsFiniteSet(Day(start)..Day(end)) /\ D \in SUBSET (Day(start)..Day(end))
      BY <3>1, FS_Interval DEF D, Workdays
    <3> QED
      BY <3>2, FS_Subset
  <2>2. \A s \in SUBSET D : IsFiniteSet(s) /\ Cardinality(s) \in Nat
    BY <2>1, FS_Subset, FS_CardinalityType
  <2>3. SUFFICES ASSUME sum[D] # g[D] PROVE FALSE
    OBVIOUS
  <2>4. Bad # {} /\ Bad \in SUBSET Nat
    BY <2>2, <2>3
  <2>5. PICK n \in Bad : \A m \in Bad : n <= m
    <3> HIDE DEF Bad
    <3> QED
      BY <2>4, LeastExists
  <2>6. PICK s \in SUBSET D : Cardinality(s) = n /\ sum[s] # g[s]
    BY <2>5
  <2> HIDE DEF g
  <2>7. sum[s] = IF s = {} THEN 0 ELSE W(C(s)) + sum[s \ {C(s)}]
    BY <1>3
  <2>8. g[s] = IF s = {} THEN 0 ELSE W(C(s)) + g[s \ {C(s)}]
    BY <1>2
  <2>9. CASE s = {}
    BY <2>6, <2>7, <2>8, <2>9
  <2>10. CASE s # {}
    <3>1. C(s) \in s /\ s \ {C(s)} \in SUBSET D
      BY <2>10 DEF C
    <3>2. Cardinality(s \ {C(s)}) = n - 1 /\ n - 1 \in Nat
      <4>1. IsFiniteSet(s) /\ Cardinality(s) = n /\ n \in Nat
        BY <2>2, <2>6
      <4>2. Cardinality(s \ {C(s)}) = n - 1
        BY <3>1, <4>1, FS_RemoveElement
      <4>3. Cardinality(s \ {C(s)}) \in Nat
        BY <2>2, <3>1
      <4> QED
        BY <4>2, <4>3
    <3>3. n - 1 \notin Bad
      BY <2>2, <2>5, <2>6, <3>2
    <3>4. sum[s \ {C(s)}] = g[s \ {C(s)}]
      BY <3>1, <3>2, <3>3
    <3> QED
      BY <2>6, <2>7, <2>8, <2>10, <3>4
  <2> QED
    BY <2>9, <2>10
<1>5. UnitsOn(start, end, D) = Units(start, end)
  <2>1. ASSUME NEW u \in Units(start, end) PROVE Day(u) \in D
    <3>1. u \in Nat /\ start <= u /\ u <= end /\ Working(u)
      BY <2>1 DEF Units
    <3>2. /\ Day(start) <= Day(u) /\ Day(u) <= Day(end) /\ IsWorkday(Day(u))
          /\ Day(start) \in Nat /\ Day(u) \in Nat /\ Day(end) \in Nat
      BY <3>1, DaysInOrder, DayOfTime, WorkingIs
    <3> QED
      BY <3>2 DEF D, Workdays
  <2> QED
    BY <2>1 DEF UnitsOn
<1> QED
  BY <1>1, <1>4, <1>5, WorkedAdds, UnitsFinite

-----------------------------------------------------------------------------
(* The scans and the cases they open.                                      *)

\* A clock, whatever its times are.
IsClock(c) ==
  \E p, q, b : c \in [status : Statuses, promised : {p}, pausedAt : {q},
                      breached : {b}, scanned : BOOLEAN]

Rows ==
  /\ DOMAIN clocks = Stages /\ clocks = [stage \in Stages |-> clocks[stage]]
  /\ \A stage \in Stages : IsClock(clocks[stage])
  /\ cases \in [Stages -> Nat]
  /\ scans \in [Scanners -> Scan]
  /\ call \in Calls \cup {None}

\* A scan has the clocks it marked to itself, and has opened a case exactly for
\* those of them that had none.
ScanSound(scanner) ==
  /\ scans[scanner].at \notin scans[scanner].marked
  /\ scans[scanner].opened \subseteq scans[scanner].marked
  /\ \A stage \in scans[scanner].marked :
       cases[stage] = IF stage \in scans[scanner].opened THEN 0 ELSE 1
  /\ \A other \in Scanners \ {scanner} : Locked(scanner) \cap Locked(other) = {}

Sound == \A scanner \in Scanners : ScanSound(scanner)

IInv == Rows /\ Sound /\ OneCasePerBreach

-----------------------------------------------------------------------------
\* The kinds of clock a step may leave behind.
LEMMA ClockSteps ==
  ASSUME NEW c, IsClock(c)
  PROVE  /\ IsClock(Paused(c)) /\ Paused(c).status = "PAUSED" /\ Paused(c).breached = c.breached
         /\ IsClock(Completed(c)) /\ Completed(c).status = "COMPLETED"
         /\ IsClock(Cancelled(c)) /\ Cancelled(c).status = "CANCELLED"
         /\ Cancelled(c).breached = c.breached
<1>1. PICK p, q, b : c \in [status : Statuses, promised : {p}, pausedAt : {q},
                         breached : {b}, scanned : BOOLEAN]
  BY DEF IsClock
<1>2. Paused(c) \in [status : Statuses, promised : {p}, pausedAt : {now},
                     breached : {b}, scanned : BOOLEAN]
  BY <1>1 DEF Paused, Statuses
<1>3. Completed(c) \in [status : Statuses, promised : {p}, pausedAt : {q},
                        breached : {now > c.promised}, scanned : BOOLEAN]
  BY <1>1 DEF Completed, Statuses
<1>4. Cancelled(c) \in [status : Statuses, promised : {p}, pausedAt : {q},
                        breached : {b}, scanned : BOOLEAN]
  BY <1>1 DEF Cancelled, Statuses
<1>5. IsClock(Paused(c)) /\ IsClock(Completed(c)) /\ IsClock(Cancelled(c))
  BY <1>2, <1>3, <1>4 DEF IsClock
<1> QED
  BY <1>1, <1>5 DEF Paused, Completed, Cancelled

LEMMA StartedClock ==
  ASSUME NEW stage
  PROVE  /\ IsClock(Started(stage))
         /\ Started(stage).status = "RUNNING" /\ ~Started(stage).breached
<1> DEFINE p == Later(stage, now, Target)
<1> HIDE DEF p
<1>1. Started(stage) = [status |-> "RUNNING", promised |-> p, pausedAt |-> 0,
                        breached |-> FALSE, scanned |-> FALSE]
  <2>1. Started(stage) = [NotStarted EXCEPT !.status = "RUNNING", !.promised = p]
    BY DEF Started, p
  <2> QED
    BY <2>1 DEF NotStarted
<1>2. Started(stage) \in [status : Statuses, promised : {p}, pausedAt : {0},
                          breached : {FALSE}, scanned : BOOLEAN]
  BY <1>1 DEF Statuses
<1>3. IsClock(Started(stage))
  BY <1>2 DEF IsClock
<1>4. Started(stage).status = "RUNNING" /\ ~Started(stage).breached
  BY <1>1
<1> QED
  BY <1>3, <1>4

LEMMA ResumedClock ==
  ASSUME NEW stage, IsClock(clocks[stage])
  PROVE  /\ IsClock(Resumed(stage)) /\ Resumed(stage).status = "RUNNING"
         /\ Resumed(stage).breached = clocks[stage].breached
<1>1. PICK p, q, b : clocks[stage] \in [status : Statuses, promised : {p}, pausedAt : {q},
                                     breached : {b}, scanned : BOOLEAN]
  BY DEF IsClock
<1> DEFINE r == Later(stage, clocks[stage].promised, PauseLength(stage))
<1> HIDE DEF r
<1>2. Resumed(stage) = [clocks[stage] EXCEPT !.status = "RUNNING", !.promised = r, !.pausedAt = 0]
  BY DEF Resumed, r
<1>3. Resumed(stage) \in [status : Statuses, promised : {r}, pausedAt : {0},
                          breached : {b}, scanned : BOOLEAN]
  BY <1>1, <1>2 DEF Statuses
<1> QED
  BY <1>1, <1>2, <1>3 DEF IsClock

LEMMA MarkedClock ==
  ASSUME NEW c, IsClock(c)
  PROVE  LET m == [c EXCEPT !.breached = TRUE, !.scanned = TRUE]
         IN  IsClock(m) /\ m.status = c.status
<1>1. PICK p, q, b : c \in [status : Statuses, promised : {p}, pausedAt : {q},
                         breached : {b}, scanned : BOOLEAN]
  BY DEF IsClock
<1>2. [c EXCEPT !.breached = TRUE, !.scanned = TRUE] \in
        [status : Statuses, promised : {p}, pausedAt : {q},
         breached : {TRUE}, scanned : BOOLEAN]
  BY <1>1
<1> QED
  BY <1>1, <1>2 DEF IsClock

-----------------------------------------------------------------------------
(* IInv is inductive *)

\* Init has no row and no transaction.
LEMMA Initially == Init => IInv
<1> SUFFICES ASSUME Init PROVE IInv
  OBVIOUS
<1>1. IsClock(NotStarted)
  <2>1. NotStarted \in [status : Statuses, promised : {0}, pausedAt : {0},
                       breached : {FALSE}, scanned : BOOLEAN]
    BY DEF NotStarted, Statuses
  <2> QED
    BY <2>1 DEF IsClock
<1>2. Rows
  BY <1>1 DEF Init, Rows, Scan, NoScan
<1>3. Sound
  BY SlaAssumption DEF Init, Sound, ScanSound, Locked, NoScan
<1>4. OneCasePerBreach
  BY DEF Init, OneCasePerBreach, NotStarted
<1> QED
  BY <1>2, <1>3, <1>4 DEF IInv

\* A step may change the clocks as long as no unreported one comes out marked.
LEMMA ClocksChange ==
  ASSUME IInv, UNCHANGED <<cases, scans>>, call' \in Calls \cup {None},
         clocks' = [stage \in Stages |-> clocks'[stage]],
         \A stage \in Stages :
           /\ IsClock(clocks'[stage])
           /\ clocks'[stage].breached /\ clocks'[stage].status # "COMPLETED"
                => cases[stage] = 1
  PROVE  IInv'
<1>1. Rows'
  BY DEF IInv, Rows, IsClock
<1>2. Sound'
  BY DEF IInv, Sound, ScanSound, Locked
<1>3. OneCasePerBreach'
  BY DEF IInv, OneCasePerBreach
<1> QED
  BY <1>1, <1>2, <1>3 DEF IInv

\* What a scan becomes when it marks a clock, and when it has reported it.
LEMMA MarkingScan ==
  ASSUME NEW s \in Scan, NEW stage \in Stages
  PROVE  LET r == [s EXCEPT !.at = stage, !.left = @ \ {stage}]
         IN  r \in Scan /\ r.at = stage /\ r.marked = s.marked /\ r.opened = s.opened
BY DEF Scan

LEMMA NoneIsNoStage == None \notin Stages
  BY SlaAssumption

\* A scan may go on as long as it stays sound.
LEMMA ScanChange ==
  ASSUME IInv, UNCHANGED <<call, clocks, cases>>,
         NEW scanner \in Scanners, NEW scan \in Scan,
         scans' = [scans EXCEPT ![scanner] = scan],
         scan.at \notin scan.marked, scan.opened \subseteq scan.marked,
         \A stage \in scan.marked : cases[stage] = IF stage \in scan.opened THEN 0 ELSE 1,
         \A other \in Scanners \ {scanner} :
           (scan.marked \cup (Stages \cap {scan.at})) \cap Locked(other) = {}
  PROVE  IInv'
<1>1. Rows'
  BY DEF IInv, Rows
<1>2. scans'[scanner] = scan /\ \A other \in Scanners \ {scanner} : scans'[other] = scans[other]
  BY DEF IInv, Rows
<1>3. ScanSound(scanner)'
  BY <1>2 DEF ScanSound, Locked
<1>4. ASSUME NEW other \in Scanners, other # scanner PROVE ScanSound(other)'
  <2>1. ScanSound(other)
    BY DEF IInv, Sound
  <2>2. \A third \in Scanners \ {other} : Locked(other)' \cap Locked(third)' = {}
    BY <1>2, <1>4, <2>1 DEF ScanSound, Locked
  <2> QED
    BY <1>2, <1>4, <2>1, <2>2 DEF ScanSound
<1>5. Sound'
  BY <1>3, <1>4 DEF Sound
<1> QED
  BY <1>1, <1>5 DEF IInv, OneCasePerBreach

\* Operators change one clock that is not completed, and mark it at most as
\* they complete it.
LEMMA OneClockChange ==
  ASSUME IInv, NEW stage \in Stages, NEW statuses, NEW clock,
         "COMPLETED" \notin statuses, Operate(stage, statuses, clock), IsClock(clock),
         clock.breached /\ clock.status # "COMPLETED" => clocks[stage].breached
  PROVE  IInv'
<1>1. \A other \in Stages : clocks'[other] = IF other = stage THEN clock ELSE clocks[other]
  BY DEF IInv, Rows, Operate
<1>2. clocks' = [other \in Stages |-> clocks'[other]]
  BY DEF IInv, Rows, Operate
<1>3. ASSUME NEW other \in Stages
      PROVE  /\ IsClock(clocks'[other])
             /\ clocks'[other].breached /\ clocks'[other].status # "COMPLETED"
                  => cases[other] = 1
  BY <1>1 DEF IInv, Rows, OneCasePerBreach, Operate
<1>4. UNCHANGED <<cases, scans>> /\ call' \in Calls \cup {None}
  BY DEF IInv, Rows, Operate
<1> QED
  BY <1>2, <1>3, <1>4, ClocksChange

\* One step of one action, one action after the other.
LEMMA Inductive == IInv /\ [Next]_vars => IInv'
<1> SUFFICES ASSUME IInv, [Next]_vars PROVE IInv'
  OBVIOUS
<1> USE DEF IInv
<1>1. ASSUME UNCHANGED <<clocks, cases, scans>>, call' \in Calls \cup {None} PROVE IInv'
  BY <1>1 DEF Rows, Sound, ScanSound, Locked, OneCasePerBreach, IsClock
<1>2. CASE Tick \/ LockShipment \/ CallFails \/ UNCHANGED vars
           \/ \E stage \in Stages : LockClock(stage)
  BY <1>1, <1>2 DEF Tick, LockShipment, CallFails, LockClock, vars, Rows
<1>3. CASE FinishCall
  <2>1. clocks' = [stage \in Stages |-> clocks'[stage]]
    BY <1>3 DEF FinishCall
  <2>2. ASSUME NEW stage \in Stages
        PROVE  /\ IsClock(clocks'[stage])
               /\ clocks'[stage].breached /\ clocks'[stage].status # "COMPLETED"
                    => cases[stage] = 1
    <3>1. IsClock(clocks[stage])
      BY DEF Rows
    <3>2. CASE clocks'[stage] = Started(stage)
      BY <3>2, StartedClock
    <3>3. CASE clocks'[stage] = clocks[stage]
      BY <3>1, <3>3 DEF OneCasePerBreach
    <3>4. CASE clocks'[stage] = Completed(clocks[stage])
      BY <3>1, <3>4, ClockSteps
    <3>5. CASE stage \in Stopped(call) /\ clocks'[stage] = Cancelled(clocks[stage])
      <4>1. clocks[stage].status # "COMPLETED"
        BY <3>5 DEF Stopped, Live
      <4> QED
        BY <3>1, <3>5, <4>1, ClockSteps DEF OneCasePerBreach
    <3> QED
      BY <1>3, <3>2, <3>3, <3>4, <3>5 DEF FinishCall
  <2> QED
    BY <1>3, <2>1, <2>2, ClocksChange DEF FinishCall
<1>4. ASSUME NEW stage \in Stages,
             StartClock(stage) \/ Pause(stage) \/ Resume(stage) \/ Complete(stage)
      PROVE  IInv'
  <2>1. IsClock(clocks[stage])
    BY DEF Rows
  <2>2. CASE StartClock(stage)
    BY <2>2, StartedClock, OneClockChange DEF StartClock
  <2>3. CASE Pause(stage)
    BY <2>1, <2>3, ClockSteps, OneClockChange DEF Pause
  <2>4. CASE Resume(stage)
    BY <2>1, <2>4, ResumedClock, OneClockChange DEF Resume
  <2>5. CASE Complete(stage)
    BY <2>1, <2>5, ClockSteps, OneClockChange DEF Complete
  <2> QED
    BY <1>4, <2>2, <2>3, <2>4, <2>5
<1>5. ASSUME NEW scanner \in Scanners, ScanLoads(scanner) PROVE IInv'
  <2> DEFINE scan == [NoScan EXCEPT !.left = Found]
  <2>1. scan = [left |-> Found, at |-> None, marked |-> {}, opened |-> {}]
    BY DEF NoScan
  <2>2. scan \in Scan
    BY <2>1 DEF Scan, Found
  <2>3. scans' = [scans EXCEPT ![scanner] = scan] /\ UNCHANGED <<call, clocks, cases>>
    BY <1>5 DEF ScanLoads, Rows
  <2>4. /\ scan.at \notin scan.marked /\ scan.opened \subseteq scan.marked
        /\ scan.marked = {} /\ Stages \cap {scan.at} = {}
    BY <2>1, NoneIsNoStage
  <2> HIDE DEF scan
  <2> QED
    BY <2>2, <2>3, <2>4, ScanChange
<1>6. ASSUME NEW scanner \in Scanners, ScanFails(scanner) PROVE IInv'
  <2>1. NoScan \in Scan /\ NoScan.at = None /\ NoScan.marked = {} /\ NoScan.opened = {}
    BY DEF NoScan, Scan
  <2>2. scans' = [scans EXCEPT ![scanner] = NoScan] /\ UNCHANGED <<call, clocks, cases>>
    BY <1>6 DEF ScanFails
  <2> QED
    BY <2>1, <2>2, ScanChange, NoneIsNoStage
<1>7. ASSUME NEW scanner \in Scanners, NEW stage \in Stages, ScanMarks(scanner, stage)
      PROVE  IInv'
  <2> DEFINE old == scans[scanner]
             scan == [old EXCEPT !.at = stage, !.left = @ \ {stage}]
  <2>1. old \in Scan /\ ScanSound(scanner)
    BY DEF Rows, Sound
  <2>2. /\ scan \in Scan /\ scan.at = stage
        /\ scan.marked = old.marked /\ scan.opened = old.opened
    BY <2>1, MarkingScan
  <2>3. scans' = [scans EXCEPT ![scanner] = scan] /\ UNCHANGED <<call, clocks, cases>>
    BY <1>7 DEF ScanMarks, Rows
  <2>4. stage \notin Locked(scanner) /\ \A other \in Scanners : stage \notin Locked(other)
    BY <1>7 DEF ScanMarks, LockedByScan
  <2>5. scan.at \notin scan.marked
    BY <2>2, <2>4 DEF Locked
  <2>6. \A other \in Scanners \ {scanner} :
          (scan.marked \cup (Stages \cap {scan.at})) \cap Locked(other) = {}
    BY <2>1, <2>2, <2>4 DEF ScanSound, Locked
  <2>7. /\ scan.opened \subseteq scan.marked
        /\ \A s \in scan.marked : cases[s] = IF s \in scan.opened THEN 0 ELSE 1
    BY <2>1, <2>2 DEF ScanSound
  <2> HIDE DEF scan
  <2> QED
    BY <2>2, <2>3, <2>5, <2>6, <2>7, ScanChange
<1>8. ASSUME NEW scanner \in Scanners, ScanReports(scanner) PROVE IInv'
  <2> DEFINE old == scans[scanner]
             stage == old.at
             more == IF Reported(stage) THEN old.opened ELSE old.opened \cup {stage}
             scan == [old EXCEPT !.at = None, !.marked = @ \cup {stage}, !.opened = more]
  <2>1. old \in Scan /\ ScanSound(scanner) /\ stage \in Stages /\ more \in SUBSET Stages
    BY <1>8 DEF Rows, Sound, Scan, ScanReports
  <2>2. /\ scan \in Scan /\ scan.at = None
        /\ scan.marked = old.marked \cup {stage} /\ scan.opened = more
    <3> HIDE DEF more, stage, old
    <3> QED
      BY <2>1 DEF Scan
  <2>3. scans' = [scans EXCEPT ![scanner] = scan] /\ UNCHANGED <<call, clocks, cases>>
    BY <1>8 DEF ScanReports, Rows
  <2>4. stage \notin old.marked /\ old.opened \subseteq old.marked
    BY <2>1 DEF ScanSound
  <2>5. cases[stage] = IF stage \in scan.opened THEN 0 ELSE 1
    BY <2>1, <2>2, <2>4 DEF Reported, OneCasePerBreach, Rows
  <2>6. \A s \in scan.marked : cases[s] = IF s \in scan.opened THEN 0 ELSE 1
    BY <2>1, <2>2, <2>4, <2>5 DEF ScanSound
  <2>7. \A other \in Scanners \ {scanner} :
          (scan.marked \cup (Stages \cap {scan.at})) \cap Locked(other) = {}
    BY <2>1, <2>2, NoneIsNoStage DEF ScanSound, Locked
  <2>8. scan.at \notin scan.marked /\ scan.opened \subseteq scan.marked
    <3>1. scan.marked \subseteq Stages
      BY <2>2 DEF Scan
    <3> HIDE DEF scan
    <3> QED
      BY <2>1, <2>2, <2>4, <3>1, NoneIsNoStage
  <2> HIDE DEF scan
  <2> QED
    BY <2>2, <2>3, <2>6, <2>7, <2>8, ScanChange
<1>9. ASSUME NEW scanner \in Scanners, ScanCommits(scanner) PROVE IInv'
  <2> DEFINE marked == scans[scanner].marked
             opened == scans[scanner].opened
  <2>1. /\ ScanSound(scanner) /\ marked \subseteq Stages /\ scans[scanner] \in Scan
        /\ UNCHANGED call
    BY <1>9 DEF Sound, Rows, Scan, ScanCommits
  <2>2. \A stage \in Stages :
          /\ stage \in marked => /\ IsClock(clocks'[stage]) /\ cases'[stage] = 1
          /\ stage \notin marked => /\ clocks'[stage] = clocks[stage]
                                    /\ cases'[stage] = cases[stage]
    <3> SUFFICES ASSUME NEW stage \in Stages
                 PROVE  /\ stage \in marked => IsClock(clocks'[stage]) /\ cases'[stage] = 1
                        /\ stage \notin marked => /\ clocks'[stage] = clocks[stage]
                                                  /\ cases'[stage] = cases[stage]
      OBVIOUS
    <3>1. stage \in marked => IsClock(clocks'[stage])
      BY <1>9, MarkedClock DEF ScanCommits, Rows
    <3>2. stage \in marked => cases'[stage] = 1
      <4>1. cases'[stage] = IF stage \in opened THEN cases[stage] + 1 ELSE cases[stage]
        BY <1>9 DEF ScanCommits
      <4> QED
        BY <2>1, <4>1 DEF ScanSound
    <3>3. stage \notin marked => clocks'[stage] = clocks[stage] /\ cases'[stage] = cases[stage]
      BY <1>9, <2>1 DEF ScanCommits, ScanSound
    <3> QED
      BY <3>1, <3>2, <3>3
  <2>3. /\ scans'[scanner] = NoScan
        /\ \A other \in Scanners \ {scanner} : scans'[other] = scans[other]
        /\ scans' \in [Scanners -> Scan]
    BY <1>9 DEF ScanCommits, Rows, NoScan, Scan
  <2>4. Rows'
    <3>1. DOMAIN clocks' = Stages /\ clocks' = [stage \in Stages |-> clocks'[stage]]
      BY <1>9 DEF ScanCommits
    <3>2. \A stage \in Stages : IsClock(clocks'[stage])
      BY <2>2 DEF Rows
    <3>3. cases' \in [Stages -> Nat]
      <4>1. cases' = [stage \in Stages |->
                       IF stage \in opened THEN cases[stage] + 1 ELSE cases[stage]]
        BY <1>9 DEF ScanCommits
      <4>2. cases \in [Stages -> Nat]
        BY DEF Rows
      <4> QED
        BY <4>1, <4>2
    <3> QED
      BY <2>1, <2>3, <3>1, <3>2, <3>3 DEF Rows, IsClock
  <2>5. ASSUME NEW other \in Scanners PROVE ScanSound(other)'
    <3>1. CASE other = scanner
      BY <2>3, <3>1, SlaAssumption DEF ScanSound, Locked, NoScan
    <3>2. CASE other # scanner
      <4>1. ScanSound(other) /\ scans[other] \in Scan
        BY DEF Sound, Rows
      <4>2. \A stage \in scans[other].marked : stage \in Stages \ marked
        BY <2>1, <3>2, <4>1 DEF ScanSound, Locked, Scan
      <4>3. \A third \in Scanners \ {other} : (Locked(other) \cap Locked(third) = {})'
        BY <2>3, <3>2, <4>1, SlaAssumption DEF ScanSound, Locked, NoScan
      <4>4. \A stage \in scans[other].marked : cases'[stage] = cases[stage]
        BY <2>2, <4>2
      <4> QED
        BY <2>3, <3>2, <4>1, <4>3, <4>4 DEF ScanSound
    <3> QED
      BY <3>1, <3>2
  <2>6. OneCasePerBreach'
    BY <2>2 DEF OneCasePerBreach
  <2> QED
    BY <2>4, <2>5, <2>6 DEF Sound
<1> QED
  BY <1>2, <1>3, <1>4, <1>5, <1>6, <1>7, <1>8, <1>9 DEF Next

\* Whatever the overlap of scans, calls and operators, a marked clock has one
\* case: nothing bounds the scans, the stages or the failures.
THEOREM OneCaseAlways == Spec => []OneCasePerBreach
<1>1. IInv => OneCasePerBreach
  BY DEF IInv
<1> QED
  BY <1>1, Initially, Inductive, PTL DEF Spec

-----------------------------------------------------------------------------
\* A call that cancels or returns stops every live clock, and nothing starts
\* one that has stopped.
LEMMA StepStopsClocks ==
  ASSUME IInv, [Next]_vars, NEW stage \in Stages
  PROVE  /\ shipment' \in {"CANCELLED", "RETURNED"} /\ shipment' # shipment
              => clocks'[stage].status \notin Live
         /\ clocks[stage].status \in {"COMPLETED", "CANCELLED"}
              => clocks'[stage].status = clocks[stage].status
<1> USE DEF IInv
<1>1. IsClock(clocks[stage])
  BY DEF Rows
<1>2. CASE UNCHANGED <<shipment, clocks>>
  BY <1>2
<1>3. CASE FinishCall
  <2>1. CASE stage \in Starts(call)
    <3>1. clocks[stage].status = "NONE" /\ call.starts # None
      BY <2>1, SlaAssumption DEF Starts
    <3>2. call.to \notin {"CANCELLED", "RETURNED"}
      BY <1>3, <3>1 DEF Rows, FinishCall, Calls, Move
    <3> QED
      BY <1>3, <3>1, <3>2 DEF FinishCall
  <2>2. CASE stage \notin Starts(call) /\ stage \notin Stopped(call)
    <3>1. clocks'[stage] = clocks[stage]
      BY <1>3, <2>2 DEF FinishCall
    <3> QED
      BY <1>3, <2>2, <3>1 DEF FinishCall, Stopped
  <2>3. CASE stage \notin Starts(call) /\ stage \in Stopped(call)
    <3>1. clocks'[stage] \in {Completed(clocks[stage]), Cancelled(clocks[stage])}
      BY <1>3, <2>3 DEF FinishCall
    <3>2. clocks[stage].status \in Live
      BY <2>3 DEF Stopped, Live
    <3> QED
      BY <1>1, <3>1, <3>2, ClockSteps DEF Live
  <2> QED
    BY <2>1, <2>2, <2>3
<1>4. ASSUME NEW other \in Stages,
             StartClock(other) \/ Pause(other) \/ Resume(other) \/ Complete(other)
      PROVE  UNCHANGED shipment /\ (clocks[stage].status \in {"COMPLETED", "CANCELLED"}
                                      => clocks'[stage] = clocks[stage])
  BY <1>4 DEF StartClock, Pause, Resume, Complete, Operate, Rows
<1>5. ASSUME NEW scanner \in Scanners, ScanCommits(scanner)
      PROVE  UNCHANGED shipment /\ clocks'[stage].status = clocks[stage].status
  BY <1>1, <1>5, MarkedClock DEF ScanCommits
<1> QED
  BY <1>2, <1>3, <1>4, <1>5
  DEF Next, Tick, LockShipment, CallFails, LockClock, ScanLoads, ScanMarks, ScanReports,
      ScanFails, vars

\* Cancellation and return leave no clock running or paused, and no clock
\* starts again, for any number of stages.
THEOREM ClosingStopsAllClocks == Spec => ClosingStopsClocks
<1>1. IInv /\ [Next]_vars =>
        [\A stage \in Stages :
           /\ shipment' \in {"CANCELLED", "RETURNED"} /\ shipment' # shipment
                => clocks'[stage].status \notin Live
           /\ clocks[stage].status \in {"COMPLETED", "CANCELLED"}
                => clocks'[stage].status = clocks[stage].status]_vars
  BY StepStopsClocks
<1> QED
  BY <1>1, Initially, Inductive, PTL DEF Spec, ClosingStopsClocks

-----------------------------------------------------------------------------
(* The time that counts for a stage, and the promise of its clock          *)

\* The time that has counted for a stage by time t, from the first midnight on.
Counted(stage, t) == IF stage \in WorkStages THEN Worked(t) ELSE t

\* A clock owes its stage the target, and charges it with what it has used up
\* to now, or up to its pause.
FairRow(stage) ==
  /\ clocks[stage].status = "NONE" => used[stage] = 0
  /\ clocks[stage].status = "RUNNING" =>
       /\ clocks[stage].promised \in Nat
       /\ Counted(stage, clocks[stage].promised) + used[stage] = Target + Counted(stage, now)
  /\ clocks[stage].status = "PAUSED" =>
       /\ clocks[stage].promised \in Nat /\ clocks[stage].pausedAt \in 0..now
       /\ Counted(stage, clocks[stage].promised) + used[stage] =
            Target + Counted(stage, clocks[stage].pausedAt)

Fair ==
  /\ now \in Nat /\ used \in [Stages -> Nat]
  /\ \A stage \in Stages : FairRow(stage)

LEMMA CountedGrows ==
  ASSUME NEW stage, NEW t \in Nat, NEW u \in Nat, t <= u
  PROVE  Counted(stage, t) \in Nat /\ Counted(stage, u) \in Nat
         /\ Counted(stage, t) <= Counted(stage, u)
  BY WorkedAdds DEF Counted

LEMMA CountedUnit ==
  ASSUME NEW stage, NEW t \in Nat
  PROVE  Counted(stage, t + 1) =
           Counted(stage, t) + (IF stage \in WorkStages => Working(t) THEN 1 ELSE 0)
  BY WorkedUnit DEF Counted

\* calculate_promised_at() adds as much of the time that counts as it is given.
LEMMA LaterCounts ==
  ASSUME NEW stage, NEW t \in Nat, NEW amount \in Nat
  PROVE  /\ Later(stage, t, amount) \in Nat
         /\ Counted(stage, Later(stage, t, amount)) = Counted(stage, t) + amount
  BY AddsWorkingTime DEF Later, Counted

\* resume() measures a pause in the time that counts.
LEMMA PauseCounts ==
  ASSUME NEW stage, now \in Nat, clocks[stage].pausedAt \in 0..now
  PROVE  /\ PauseLength(stage) \in Nat
         /\ Counted(stage, now) = Counted(stage, clocks[stage].pausedAt) + PauseLength(stage)
<1>1. CASE stage \in WorkStages
  BY <1>1, CountsWorkingTime DEF PauseLength, Counted
<1>2. CASE stage \notin WorkStages
  BY <1>2 DEF PauseLength, Counted
<1> QED
  BY <1>1, <1>2

\* What a step may do to a clock.
Moves(stage, clock) ==
  \/ clock = clocks[stage]
  \/ clocks[stage].status = "NONE" /\ clock = Started(stage)
  \/ clocks[stage].status = "RUNNING" /\ clock = Paused(clocks[stage])
  \/ clocks[stage].status = "PAUSED" /\ clock = Resumed(stage)
  \/ clock.status \in {"COMPLETED", "CANCELLED"}
  \/ clock = [clocks[stage] EXCEPT !.breached = TRUE, !.scanned = TRUE]

LEMMA MovesAreFair ==
  ASSUME NEW stage \in Stages, IsClock(clocks[stage]), Fair, UNCHANGED <<now, used>>,
         Moves(stage, clocks'[stage])
  PROVE  FairRow(stage)'
<1> DEFINE c == clocks[stage]
           d == clocks'[stage]
<1>1. PICK p, q, b : c \in [status : Statuses, promised : {p}, pausedAt : {q},
                         breached : {b}, scanned : BOOLEAN]
  BY DEF IsClock
<1>2. now \in Nat /\ used[stage] \in Nat /\ FairRow(stage) /\ Target \in Nat
  BY SlaAssumption DEF Fair
<1>3. CASE d = c
  BY <1>2, <1>3 DEF FairRow
<1>4. CASE c.status = "NONE" /\ d = Started(stage)
  <2>1. d.status = "RUNNING" /\ d.promised = Later(stage, now, Target)
    BY <1>4 DEF Started, NotStarted
  <2>2. used[stage] = 0 /\ Counted(stage, now) \in Nat
    BY <1>2, <1>4, CountedGrows DEF FairRow
  <2>3. d.promised \in Nat /\ Counted(stage, d.promised) = Counted(stage, now) + Target
    BY <1>2, <2>1, LaterCounts
  <2> QED
    BY <1>2, <2>1, <2>2, <2>3 DEF FairRow, Counted
<1>5. CASE c.status = "RUNNING" /\ d = Paused(c)
  <2>1. d.status = "PAUSED" /\ d.pausedAt = now /\ d.promised = c.promised
    BY <1>1, <1>5 DEF Paused
  <2>2. now \in 0..now
    BY <1>2
  <2> QED
    BY <1>2, <1>5, <2>1, <2>2 DEF FairRow, Counted
<1>6. CASE c.status = "PAUSED" /\ d = Resumed(stage)
  <2>1. d.status = "RUNNING" /\ d.promised = Later(stage, c.promised, PauseLength(stage))
    BY <1>1, <1>6 DEF Resumed
  <2>2. /\ c.promised \in Nat /\ c.pausedAt \in 0..now
        /\ Counted(stage, c.promised) + used[stage] = Target + Counted(stage, c.pausedAt)
        /\ Counted(stage, c.promised) \in Nat /\ Counted(stage, c.pausedAt) \in Nat
    BY <1>2, <1>6, CountedGrows DEF FairRow
  <2>3. /\ PauseLength(stage) \in Nat
        /\ Counted(stage, now) = Counted(stage, c.pausedAt) + PauseLength(stage)
    BY <1>2, <2>2, PauseCounts
  <2>4. /\ d.promised \in Nat
        /\ Counted(stage, d.promised) = Counted(stage, c.promised) + PauseLength(stage)
    <3> DEFINE p0 == c.promised
               n  == PauseLength(stage)
    <3>1. p0 \in Nat /\ n \in Nat /\ d.promised = Later(stage, p0, n)
      BY <2>1, <2>2, <2>3
    <3> HIDE DEF p0, n, d
    <3>2. /\ Later(stage, p0, n) \in Nat
          /\ Counted(stage, Later(stage, p0, n)) = Counted(stage, p0) + n
      BY <3>1, LaterCounts
    <3>3. d.promised \in Nat /\ Counted(stage, d.promised) = Counted(stage, p0) + n
      BY <3>1, <3>2, Zenon
    <3> QED
      BY <3>3 DEF p0, n
  <2>5. Counted(stage, d.promised) + used[stage] = Target + Counted(stage, now)
    BY <1>2, <2>2, <2>3, <2>4
  <2> QED
    BY <1>2, <2>1, <2>4, <2>5 DEF FairRow, Counted
<1>7. CASE d.status \in {"COMPLETED", "CANCELLED"}
  BY <1>7 DEF FairRow
<1>8. CASE d = [c EXCEPT !.breached = TRUE, !.scanned = TRUE]
  <2>1. d.status = c.status /\ d.promised = c.promised /\ d.pausedAt = c.pausedAt
    BY <1>1, <1>8
  <2> QED
    BY <1>2, <2>1 DEF FairRow, Counted
<1> QED
  BY <1>3, <1>4, <1>5, <1>6, <1>7, <1>8 DEF Moves

\* A unit of time passes for the clocks that run, and counts for their stages.
LEMMA TickIsFair ==
  ASSUME Fair, Tick, NEW stage \in Stages
  PROVE  FairRow(stage)' /\ used'[stage] \in Nat
<1> DEFINE c == clocks[stage]
<1>1. /\ now \in Nat /\ now' = now + 1 /\ clocks' = clocks /\ used[stage] \in Nat
      /\ used'[stage] = IF c.status = "RUNNING" /\ (stage \in WorkStages => Working(now))
                        THEN used[stage] + 1 ELSE used[stage]
      /\ FairRow(stage) /\ Target \in Nat
  BY SlaAssumption DEF Fair, Tick
<1>2. CASE c.status = "RUNNING"
  <2>1. Counted(stage, now + 1) =
          Counted(stage, now) + (IF stage \in WorkStages => Working(now) THEN 1 ELSE 0)
    BY <1>1, CountedUnit
  <2>2. /\ c.promised \in Nat /\ Counted(stage, c.promised) \in Nat
        /\ Counted(stage, now) \in Nat
        /\ Counted(stage, c.promised) + used[stage] = Target + Counted(stage, now)
    BY <1>1, <1>2, CountedGrows DEF FairRow
  <2>3. Counted(stage, c.promised) + used'[stage] = Target + Counted(stage, now + 1)
    BY <1>1, <1>2, <2>1, <2>2
  <2> QED
    BY <1>1, <1>2, <2>2, <2>3 DEF FairRow, Counted
<1>3. CASE c.status # "RUNNING"
  <2>1. used'[stage] = used[stage] /\ now' \in Nat /\ \A t \in 0..now : t \in 0..now'
    BY <1>1, <1>3
  <2> QED
    BY <1>1, <1>3, <2>1 DEF FairRow, Counted
<1> QED
  BY <1>2, <1>3

LEMMA FairInductive == IInv /\ Fair /\ [Next]_vars => Fair'
<1> SUFFICES ASSUME IInv, Fair, [Next]_vars PROVE Fair'
  OBVIOUS
<1>1. \A stage \in Stages : IsClock(clocks[stage])
  BY DEF IInv, Rows
<1>2. CASE Tick
  <2>1. now' \in Nat /\ used' = [stage \in Stages |-> used'[stage]]
    BY <1>2 DEF Fair, Tick
  <2> QED
    BY <1>2, <2>1, TickIsFair DEF Fair
<1>3. ASSUME UNCHANGED <<now, used>>, \A stage \in Stages : Moves(stage, clocks'[stage])
      PROVE  Fair'
  <2>1. \A stage \in Stages : FairRow(stage)'
    BY <1>1, <1>3, MovesAreFair
  <2> QED
    BY <1>3, <2>1 DEF Fair
<1>4. CASE FinishCall
  <2>1. ASSUME NEW stage \in Stages PROVE Moves(stage, clocks'[stage])
    <3>1. CASE stage \in Starts(call)
      BY <1>4, <3>1 DEF FinishCall, Starts, Moves
    <3>2. CASE stage \notin Starts(call)
      BY <1>1, <1>4, <3>2, ClockSteps DEF FinishCall, Moves
    <3> QED
      BY <3>1, <3>2
  <2> QED
    BY <1>3, <1>4, <2>1 DEF FinishCall
<1>5. ASSUME NEW stage \in Stages,
             StartClock(stage) \/ Pause(stage) \/ Resume(stage) \/ Complete(stage)
      PROVE  Fair'
  <2>1. /\ UNCHANGED <<now, used>>
        /\ \A other \in Stages \ {stage} : clocks'[other] = clocks[other]
    BY <1>5 DEF StartClock, Pause, Resume, Complete, Operate, IInv, Rows
  <2>2. Moves(stage, clocks'[stage])
    BY <1>1, <1>5, ClockSteps
    DEF StartClock, Pause, Resume, Complete, Operate, IInv, Rows, Moves
  <2> QED
    BY <1>3, <2>1, <2>2 DEF Moves
<1>6. ASSUME NEW scanner \in Scanners, ScanCommits(scanner) PROVE Fair'
  BY <1>3, <1>6 DEF ScanCommits, Moves
<1>7. CASE UNCHANGED <<now, used, clocks>>
  BY <1>3, <1>7 DEF Moves
<1> QED
  BY <1>2, <1>4, <1>5, <1>6, <1>7
  DEF Next, LockShipment, CallFails, LockClock, ScanLoads, ScanMarks, ScanReports, ScanFails, vars

LEMMA FairInitially == Init => Fair
<1> SUFFICES ASSUME Init PROVE Fair
  OBVIOUS
<1>1. now \in Nat /\ used \in [Stages -> Nat]
  BY Calendar DEF Init
<1> QED
  BY <1>1 DEF Init, Fair, FairRow, NotStarted

\* Whatever pauses, nights and days of rest lie between, the promise computed
\* by add_work_hours() and shifted by resume() is passed exactly when the time
\* that counts has run out, for every calendar and every target.
THEOREM ClocksAreFair == Spec => []ClockIsFair
<1>1. Fair => ClockIsFair
  <2> SUFFICES ASSUME Fair, NEW stage \in Stages, clocks[stage].status = "RUNNING"
               PROVE  /\ now > clocks[stage].promised => used[stage] >= Target
                      /\ used[stage] > Target => now > clocks[stage].promised
    BY DEF ClockIsFair
  <2> DEFINE p == clocks[stage].promised
  <2>1. /\ now \in Nat /\ p \in Nat /\ used[stage] \in Nat /\ Target \in Nat
        /\ Counted(stage, p) + used[stage] = Target + Counted(stage, now)
    BY SlaAssumption DEF Fair, FairRow
  <2> HIDE DEF p
  <2>2. /\ Counted(stage, p) \in Nat /\ Counted(stage, now) \in Nat
        /\ p <= now => Counted(stage, p) <= Counted(stage, now)
        /\ now <= p => Counted(stage, now) <= Counted(stage, p)
    BY <2>1, CountedGrows
  <2>3. now > p => used[stage] >= Target
    BY <2>1, <2>2
  <2>4. used[stage] > Target => now > p
    BY <2>1, <2>2
  <2> QED
    BY <2>3, <2>4 DEF p
<1> QED
  BY <1>1, FairInitially, Initially, Inductive, FairInductive, PTL DEF Spec

-----------------------------------------------------------------------------
(* Types                                                                   *)

LEMMA ClocksTyped ==
  ASSUME NEW stage \in Stages, clocks[stage] \in Clock, now \in Nat, FairRow(stage)
  PROVE  LET c == clocks[stage]
         IN /\ {Started(stage), Paused(c), Completed(c), Cancelled(c)} \subseteq Clock
            /\ [c EXCEPT !.breached = TRUE, !.scanned = TRUE] \in Clock
            /\ c.status = "PAUSED" => Resumed(stage) \in Clock
<1> DEFINE c == clocks[stage]
<1>1. Target \in Nat
  BY SlaAssumption
<1>2. Started(stage) \in Clock
  <2>1. Later(stage, now, Target) \in Nat
    BY <1>1, LaterCounts
  <2> QED
    BY <2>1 DEF Started, NotStarted, Clock, Statuses
<1>3. {Paused(c), Completed(c), Cancelled(c)} \subseteq Clock
  <2>1. {"PAUSED", "COMPLETED", "CANCELLED"} \subseteq Statuses
    BY DEF Statuses
  <2>2. Paused(c) \in Clock
    BY <2>1 DEF Paused, Clock
  <2>3. Completed(c) \in Clock
    <3> DEFINE late == now > c.promised
    <3>1. late \in BOOLEAN
      OBVIOUS
    <3>2. Completed(c) = [c EXCEPT !.status = "COMPLETED", !.breached = late]
      BY DEF Completed
    <3> HIDE DEF late
    <3> QED
      BY <2>1, <3>1, <3>2 DEF Clock
  <2>4. Cancelled(c) \in Clock
    BY <2>1 DEF Cancelled, Clock
  <2> QED
    BY <2>2, <2>3, <2>4
<1>4. [c EXCEPT !.breached = TRUE, !.scanned = TRUE] \in Clock
  BY DEF Clock
<1>5. ASSUME c.status = "PAUSED" PROVE Resumed(stage) \in Clock
  <2> DEFINE r == Later(stage, c.promised, PauseLength(stage))
  <2>1. c.promised \in Nat /\ PauseLength(stage) \in Nat
    BY <1>5, PauseCounts DEF FairRow
  <2>2. r \in Nat
    BY <2>1, LaterCounts
  <2>3. Resumed(stage) = [c EXCEPT !.status = "RUNNING", !.promised = r, !.pausedAt = 0]
    BY DEF Resumed
  <2>4. "RUNNING" \in Statuses
    BY DEF Statuses
  <2> HIDE DEF r
  <2>5. [c EXCEPT !.status = "RUNNING", !.promised = r] \in Clock
    BY <2>2, <2>4 DEF Clock
  <2>6. \A d \in Clock : [d EXCEPT !.pausedAt = 0] \in Clock
    BY DEF Clock
  <2> QED
    BY <2>3, <2>5, <2>6
<1> QED
  BY <1>2, <1>3, <1>4, <1>5

\* What calls do to the shipment, and the clocks they lock.
LEMMA CallsTyped == \A move \in Calls : move.from \in Milestones /\ move.to \in Milestones
  BY DEF Calls, Move, Milestones

LEMMA StoppedStays ==
  ASSUME \A stage \in Stages : clocks'[stage].status = clocks[stage].status, UNCHANGED call
  PROVE  Stopped(call)' = Stopped(call)
  BY DEF Stopped

LEMMA TypesKept == IInv /\ Fair /\ TypeOK /\ [Next]_vars => TypeOK'
<1> SUFFICES ASSUME IInv, Fair, TypeOK, [Next]_vars PROVE TypeOK'
  OBVIOUS
<1> DEFINE Calling == /\ call \in Calls \cup {None} /\ (call # None => call.from = shipment)
                      /\ shipment \in Milestones /\ held \subseteq Stopped(call)
<1>1. /\ cases' \in [Stages -> Nat] /\ scans' \in [Scanners -> Scan] /\ Fair'
  BY Inductive, FairInductive DEF IInv, Rows
<1>2. now' \in Nat /\ used' \in [Stages -> Nat]
  BY <1>1 DEF Fair
<1>3. requests' \in 0..MaxRequests /\ failures' \in 0..MaxFailures
  <2>1. /\ MaxRequests \in Nat /\ MaxFailures \in Nat
        /\ requests \in 0..MaxRequests /\ failures \in 0..MaxFailures
    BY SlaAssumption DEF TypeOK
  <2>2. \/ UNCHANGED requests
        \/ requests < MaxRequests /\ requests' = requests + 1
    BY DEF Next, Tick, LockShipment, FinishCall, CallFails, LockClock, StartClock, Pause, Resume,
           Complete, Operate, ScanLoads, ScanMarks, ScanReports, ScanCommits, ScanFails, vars
  <2>3. \/ UNCHANGED failures
        \/ failures < MaxFailures /\ failures' = failures + 1
    BY DEF Next, Tick, LockShipment, FinishCall, CallFails, LockClock, StartClock, Pause, Resume,
           Complete, Operate, ScanLoads, ScanMarks, ScanReports, ScanCommits, ScanFails, Loses,
           vars
  <2> QED
    BY <2>1, <2>2, <2>3
<1>4. SUFFICES Calling' /\ clocks' \in [Stages -> Clock]
  BY <1>1, <1>2, <1>3 DEF TypeOK
<1>5. ASSUME NEW stage \in Stages
      PROVE  LET c == clocks[stage]
             IN /\ {Started(stage), Paused(c), Completed(c), Cancelled(c)} \subseteq Clock
                /\ [c EXCEPT !.breached = TRUE, !.scanned = TRUE] \in Clock
                /\ c.status = "PAUSED" => Resumed(stage) \in Clock
                /\ c \in Clock
  BY <1>5, ClocksTyped DEF Fair, TypeOK
<1>6. CASE LockShipment
  <2>1. held = {} /\ held' = {}
    BY <1>6 DEF LockShipment, TypeOK, Stopped
  <2> QED
    BY <1>6, <2>1 DEF LockShipment, TypeOK
<1>7. CASE FinishCall
  <2>1. clocks' \in [Stages -> Clock]
    BY <1>5, <1>7 DEF FinishCall
  <2>2. call' = None /\ held' = {} /\ shipment' \in Milestones
    <3>1. call \in Calls /\ shipment' = call.to /\ call' = None /\ held' = {}
      BY <1>7 DEF FinishCall, TypeOK
    <3> QED
      BY <3>1, CallsTyped
  <2> QED
    BY <2>1, <2>2
<1>8. CASE CallFails
  BY <1>8 DEF CallFails, TypeOK
<1>9. ASSUME NEW stage \in Stages, LockClock(stage)
      PROVE  Calling' /\ clocks' \in [Stages -> Clock]
  <2>1. Stopped(call)' = Stopped(call)
    BY <1>9, StoppedStays DEF LockClock
  <2> QED
    <3>1. /\ UNCHANGED <<call, shipment, clocks>>
          /\ held' = held \cup {stage} /\ stage \in Stopped(call)
      BY <1>9 DEF LockClock
    <3>2. Calling /\ clocks \in [Stages -> Clock]
      BY DEF TypeOK
    <3> QED
      BY <2>1, <3>1, <3>2
<1>10. ASSUME NEW stage \in Stages,
              StartClock(stage) \/ Pause(stage) \/ Resume(stage) \/ Complete(stage)
       PROVE  Calling' /\ clocks' \in [Stages -> Clock]
  <2>1. held' = {} /\ UNCHANGED <<call, shipment>>
    BY <1>10 DEF StartClock, Pause, Resume, Complete, Operate
  <2>2. \E clock \in Clock : clocks' = [clocks EXCEPT ![stage] = clock]
    BY <1>5, <1>10 DEF StartClock, Pause, Resume, Complete, Operate
  <2> QED
    <3>1. Calling /\ clocks \in [Stages -> Clock]
      BY DEF TypeOK
    <3> QED
      BY <2>1, <2>2, <3>1
<1>11. ASSUME NEW scanner \in Scanners, ScanCommits(scanner)
       PROVE  Calling' /\ clocks' \in [Stages -> Clock]
  <2>1. clocks' \in [Stages -> Clock]
    BY <1>5, <1>11 DEF ScanCommits
  <2>2. ASSUME NEW stage \in Stages PROVE clocks'[stage].status = clocks[stage].status
    BY <1>5, <1>11 DEF ScanCommits, Clock
  <2>3. Stopped(call)' = Stopped(call)
    BY <1>11, <2>2, StoppedStays DEF ScanCommits
  <2> QED
    <3>1. UNCHANGED <<call, shipment, held>>
      BY <1>11 DEF ScanCommits
    <3>2. Calling
      BY DEF TypeOK
    <3> QED
      BY <2>1, <2>3, <3>1, <3>2
<1>12. CASE UNCHANGED <<clocks, call, shipment, held>>
  <2>1. Stopped(call)' = Stopped(call)
    BY <1>12, StoppedStays
  <2> QED
    <3>1. Calling /\ clocks \in [Stages -> Clock]
      BY DEF TypeOK
    <3> QED
      BY <1>12, <2>1, <3>1
<1> QED
  BY <1>6, <1>7, <1>8, <1>9, <1>10, <1>11, <1>12
  DEF Next, Tick, ScanLoads, ScanMarks, ScanReports, ScanFails, vars

\* Rows, locks and transactions stay well formed: a call under way started from
\* the shipment as it is, and has locked only clocks it is going to stop.
THEOREM TypeCorrect == Spec => []TypeOK
<1>1. Init => TypeOK
  <2> SUFFICES ASSUME Init PROVE TypeOK
    OBVIOUS
  <2>1. NotStarted \in Clock /\ NoScan \in Scan
    BY DEF NotStarted, Clock, Statuses, NoScan, Scan
  <2>2. now \in Nat /\ {MaxRequests, MaxFailures} \subseteq Nat
    BY Calendar, SlaAssumption DEF Init
  <2> QED
    BY <2>1, <2>2 DEF Init, TypeOK, Milestones
<1> QED
  BY <1>1, FairInitially, Initially, Inductive, FairInductive, TypesKept, PTL DEF Spec
=============================================================================
