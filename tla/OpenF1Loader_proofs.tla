------------------------ MODULE OpenF1Loader_proofs -------------------------
(***************************************************************************)
(* Theorems of OpenF1Loader, for any lists of records, any latencies and   *)
(* any number of loads that fail anywhere.                                 *)
(*                                                                         *)
(* First what the adapter makes of a session: sorting and filtering yield  *)
(* lists with the same members, in order, hence the events are sorted,     *)
(* have no place, and hold every lap.  Then the loader's invariants.       *)
(***************************************************************************)
EXTENDS OpenF1Loader, TimingReducer_proofs, FiniteSetTheorems

-----------------------------------------------------------------------------
(* Ranked, Sorted and Those. *)

\* Ranked lists the indices one by one, all of them, by key.
LEMMA Ranking ==
    ASSUME NEW S \in SUBSET Nat, IsFiniteSet(S), NEW key, \A i \in S : key[i] \in Nat
    PROVE  LET n == Cardinality(S)
               rank == Ranked(S, key)
           IN  /\ n \in Nat
               /\ rank \in [1..n -> S]
               /\ \A i \in S : \E a \in 1..n : rank[a] = i
               /\ \A a, b \in 1..n : a < b => Precedes(key, rank[a], rank[b])
<1> DEFINE n == Cardinality(S)
           rank == Ranked(S, key)
           Earlier(i) == {j \in S : Precedes(key, j, i)}
           count == [i \in S |-> Cardinality(Earlier(i))]
<1>1. n \in Nat
  BY FS_CardinalityType
<1>2. \A i, j, k \in S : /\ ~Precedes(key, i, i)
                         /\ i # j => Precedes(key, i, j) \/ Precedes(key, j, i)
                         /\ Precedes(key, i, j) /\ Precedes(key, j, k) => Precedes(key, i, k)
  BY DEF Precedes
<1>3. \A i \in S : IsFiniteSet(Earlier(i)) /\ count[i] \in Nat /\ count[i] < n
  <2> TAKE i \in S
  <2>1. Earlier(i) \in SUBSET S /\ Earlier(i) # S
    BY <1>2
  <2> HIDE DEF Earlier
  <2>2. IsFiniteSet(Earlier(i)) /\ Cardinality(Earlier(i)) <= n /\ Cardinality(Earlier(i)) # n
    BY <2>1, FS_Subset
  <2>3. Cardinality(Earlier(i)) \in Nat
    BY <2>2, FS_CardinalityType
  <2> QED
    BY <1>1, <2>2, <2>3
<1>4. \A i, j \in S : Precedes(key, i, j) => count[i] < count[j]
  <2> SUFFICES ASSUME NEW i \in S, NEW j \in S, Precedes(key, i, j) PROVE count[i] < count[j]
    OBVIOUS
  <2>1. Earlier(i) \in SUBSET Earlier(j) /\ i \in Earlier(j) /\ i \notin Earlier(i)
    BY <1>2
  <2> HIDE DEF Earlier
  <2>2. Cardinality(Earlier(i)) <= Cardinality(Earlier(j)) /\ Cardinality(Earlier(i)) # Cardinality(Earlier(j))
    <3>1. IsFiniteSet(Earlier(j))
      BY <1>3
    <3> QED
      BY <2>1, <3>1, FS_Subset
  <2> QED
    BY <1>3, <2>2
<1>5. \A i, j \in S : count[i] = count[j] => i = j
  <2> SUFFICES ASSUME NEW i \in S, NEW j \in S, i # j PROVE count[i] # count[j]
    OBVIOUS
  <2> QED
    BY <1>2, <1>3, <1>4
<1>6. \A a \in 1..n : \E i \in S : count[i] = a - 1
  <2>1. count \in Injection(S, 0..n - 1)
    <3>1. \A i \in S : count[i] \in 0..n - 1
      BY <1>1, <1>3
    <3>2. count \in [S -> 0..n - 1]
      BY <3>1
    <3>3. IsInjective(count)
      BY <1>5 DEF IsInjective
    <3> QED
      BY <3>2, <3>3 DEF Injection
  <2>2. IsFiniteSet(0..n - 1) /\ Cardinality(0..n - 1) = n
    <3> HIDE DEF n, count
    <3>1. 0 \in Int /\ n - 1 \in Int
      BY <1>1
    <3>2. /\ IsFiniteSet(0..n - 1)
          /\ Cardinality(0..n - 1) = IF 0 > n - 1 THEN 0 ELSE n - 1 - 0 + 1
      BY <3>1, FS_Interval
    <3> QED
      BY <1>1, <3>2
  <2>3. count \in Surjection(S, 0..n - 1)
    <3> HIDE DEF count
    <3> QED
      BY <2>1, <2>2, FS_Injection
  <2> HIDE DEF count
  <2> QED
    BY <1>1, <2>3 DEF Surjection
<1>7. \A a \in 1..n : rank[a] \in S /\ count[rank[a]] = a - 1
  <2> TAKE a \in 1..n
  <2>1. rank[a] = CHOOSE i \in S : Cardinality(Earlier(i)) = a - 1
    BY DEF Ranked
  <2>2. \E i \in S : Cardinality(Earlier(i)) = a - 1
    BY <1>6
  <2> HIDE DEF Earlier, rank
  <2>3. rank[a] \in S /\ Cardinality(Earlier(rank[a])) = a - 1
    BY <2>1, <2>2, Zenon
  <2> QED
    BY <2>3
<1>8. DOMAIN rank = 1..n /\ rank = [a \in 1..n |-> rank[a]]
  <2> DEFINE First(a) == CHOOSE i \in S : Cardinality({j \in S : Precedes(key, j, i)}) = a - 1
  <2>1. rank = [a \in 1..n |-> First(a)]
    BY Zenon DEF Ranked
  <2> HIDE DEF First, rank, n
  <2> QED
    BY <2>1
<1> HIDE DEF rank, count, n
<1>9. rank \in [1..n -> S]
  BY <1>7, <1>8
<1>10. \A i \in S : \E a \in 1..n : rank[a] = i
  <2> TAKE i \in S
  <2>1. PICK a : a = count[i] + 1
    OBVIOUS
  <2>2. count[i] \in Nat /\ count[i] < n
    BY <1>3
  <2>3. a \in 1..n /\ a - 1 = count[i]
    BY <1>1, <2>1, <2>2
  <2>4. rank[a] \in S /\ count[rank[a]] = count[i]
    BY <1>7, <2>3
  <2> QED
    BY <1>5, <2>3, <2>4
<1>11. \A a, b \in 1..n : a < b => Precedes(key, rank[a], rank[b])
  <2> SUFFICES ASSUME NEW a \in 1..n, NEW b \in 1..n, a < b PROVE Precedes(key, rank[a], rank[b])
    OBVIOUS
  <2>1. count[rank[a]] < count[rank[b]] /\ rank[a] \in S /\ rank[b] \in S
    BY <1>1, <1>7
  <2>2. count[rank[a]] \in Nat /\ count[rank[b]] \in Nat
    BY <1>3, <2>1
  <2>3. rank[a] # rank[b] /\ ~(count[rank[b]] < count[rank[a]])
    BY <2>1, <2>2
  <2> QED
    BY <1>2, <1>4, <2>1, <2>3
<1> QED
  BY <1>1, <1>9, <1>10, <1>11 DEF n, rank

LEMMA FunctionIsSeq ==
    ASSUME NEW n \in Nat, NEW s, s = [i \in 1..n |-> s[i]]
    PROVE  IsSeq(s) /\ Len(s) = n /\ DOMAIN s = 1..n
<1>1. DOMAIN s = 1..n /\ s \in [1..n -> {s[i] : i \in DOMAIN s}]
  BY Zenon
<1>2. s \in Seq({s[i] : i \in DOMAIN s})
  BY <1>1, SeqDef
<1>3. Len(s) \in Nat /\ DOMAIN s = 1..Len(s)
  BY <1>2, LenProperties
<1> QED
  BY <1>1, <1>2, <1>3 DEF IsSeq

LEMMA ListIndices ==
    ASSUME NEW list, IsSeq(list), NEW S \in SUBSET DOMAIN list
    PROVE  S \in SUBSET Nat /\ IsFiniteSet(S)
<1>1. DOMAIN list = 1..Len(list) /\ Len(list) \in Nat
  BY SeqDomain
<1>2. IsFiniteSet(1..Len(list))
  BY <1>1, FS_Interval
<1> QED
  BY <1>1, <1>2, FS_Subset

\* A sorted list has the members of the list, by key, and by index where the
\* keys are equal.
LEMMA Sorting ==
    ASSUME NEW list, IsSeq(list), NEW key, \A i \in DOMAIN list : key[i] \in Nat
    PROVE  LET rank == Ranked(DOMAIN list, key)
               sorted == Sorted(list, key)
           IN  /\ IsSeq(sorted) /\ DOMAIN sorted = DOMAIN list
               /\ \A a \in DOMAIN list : rank[a] \in DOMAIN list /\ sorted[a] = list[rank[a]]
               /\ \A i \in DOMAIN list : \E a \in DOMAIN list : rank[a] = i
               /\ \A a, b \in DOMAIN list : a < b => Precedes(key, rank[a], rank[b])
<1> DEFINE n == Len(list)
           rank == Ranked(DOMAIN list, key)
           sorted == Sorted(list, key)
<1>1. n \in Nat /\ DOMAIN list = 1..n
  BY SeqDomain
<1>2. DOMAIN list \in SUBSET Nat /\ IsFiniteSet(DOMAIN list) /\ Cardinality(DOMAIN list) = n
  <2>1. Cardinality(1..n) = IF 1 > n THEN 0 ELSE n - 1 + 1
    BY <1>1, FS_Interval
  <2>2. Cardinality(1..n) = n
    BY <1>1, <2>1
  <2>3. DOMAIN list \in SUBSET Nat /\ IsFiniteSet(DOMAIN list)
    BY ListIndices
  <2> QED
    BY <1>1, <2>2, <2>3
<1>3. /\ rank \in [1..n -> 1..n]
      /\ \A i \in 1..n : \E a \in 1..n : rank[a] = i
      /\ \A a, b \in 1..n : a < b => Precedes(key, rank[a], rank[b])
  BY <1>1, <1>2, Ranking
<1>4. sorted = [a \in 1..n |-> list[rank[a]]]
  BY <1>1 DEF Sorted
<1> HIDE DEF n, rank, sorted
<1>5. IsSeq(sorted) /\ Len(sorted) = n /\ DOMAIN sorted = 1..n
  BY <1>1, <1>4, FunctionIsSeq
<1> QED
  BY <1>1, <1>3, <1>4, <1>5 DEF n, rank, sorted

\* Those members of a list, and no others.
LEMMA Filtering ==
    ASSUME NEW list, IsSeq(list), NEW S \in SUBSET DOMAIN list
    PROVE  LET those == Those(list, S)
           IN  /\ IsSeq(those)
               /\ \A a \in DOMAIN those : \E i \in S : those[a] = list[i]
               /\ \A i \in S : \E a \in DOMAIN those : those[a] = list[i]
<1> DEFINE n == Cardinality(S)
           key == [i \in S |-> i]
           rank == Ranked(S, key)
           those == Those(list, S)
<1>1. S \in SUBSET Nat /\ IsFiniteSet(S)
  BY ListIndices
<1>2. n \in Nat /\ rank \in [1..n -> S] /\ \A i \in S : \E a \in 1..n : rank[a] = i
  <2>1. \A i \in S : key[i] \in Nat
    BY <1>1
  <2> HIDE DEF key
  <2> QED
    BY <1>1, <2>1, Ranking
<1>3. those = [a \in 1..n |-> list[rank[a]]]
  BY DEF Those
<1> HIDE DEF n, rank, those
<1>4. IsSeq(those) /\ DOMAIN those = 1..n
  BY <1>2, <1>3, FunctionIsSeq
<1> QED
  BY <1>2, <1>3, <1>4 DEF those

\* The members of a concatenation.
Joins(s, t, both) ==
    /\ \A k \in DOMAIN both : (\E i \in DOMAIN s : both[k] = s[i]) \/ (\E j \in DOMAIN t : both[k] = t[j])
    /\ \A j \in DOMAIN t : \E k \in DOMAIN both : both[k] = t[j]

LEMMA Concatenation ==
    ASSUME NEW s, IsSeq(s), NEW t, IsSeq(t) PROVE IsSeq(s \o t) /\ Joins(s, t, s \o t)
<1> DEFINE both == s \o t
<1> DEFINE T == {s[i] : i \in DOMAIN s} \cup {t[i] : i \in DOMAIN t}
<1>1. s \in Seq(T) /\ t \in Seq(T)
  BY SeqMonotonic DEF IsSeq
<1> HIDE DEF T
<1>2. /\ both \in Seq(T)
      /\ Len(both) = Len(s) + Len(t)
      /\ \A i \in 1..Len(s) + Len(t) : both[i] = IF i <= Len(s) THEN s[i] ELSE t[i - Len(s)]
  BY <1>1, ConcatProperties
<1>3. /\ Len(s) \in Nat /\ DOMAIN s = 1..Len(s)
      /\ Len(t) \in Nat /\ DOMAIN t = 1..Len(t)
      /\ IsSeq(both) /\ DOMAIN both = 1..Len(s) + Len(t)
  BY <1>2, SeqDomain, SeqIsSeq
<1> HIDE DEF both
<1>4. \A k \in DOMAIN both : (\E i \in DOMAIN s : both[k] = s[i]) \/ (\E j \in DOMAIN t : both[k] = t[j])
  <2> TAKE k \in DOMAIN both
  <2>1. CASE k <= Len(s)
    <3>1. k \in DOMAIN s /\ both[k] = s[k]
      BY <1>2, <1>3, <2>1
    <3> QED
      BY <3>1
  <2>2. CASE ~(k <= Len(s))
    <3>1. k - Len(s) \in DOMAIN t /\ both[k] = t[k - Len(s)]
      BY <1>2, <1>3, <2>2
    <3> QED
      BY <3>1
  <2> QED
    BY <2>1, <2>2
<1>5. \A j \in DOMAIN t : \E k \in DOMAIN both : both[k] = t[j]
  <2> TAKE j \in DOMAIN t
  <2>1. PICK k : k = Len(s) + j
    OBVIOUS
  <2>2. k \in DOMAIN both /\ ~(k <= Len(s)) /\ k - Len(s) = j
    BY <1>3, <2>1
  <2>3. both[k] = t[j]
    BY <1>2, <1>3, <2>2
  <2> QED
    BY <2>2, <2>3
<1> QED
  BY <1>3, <1>4, <1>5 DEF both, Joins

\* The first of a set of indices.
LEMMA Smallest ==
    ASSUME NEW S \in SUBSET Nat, S # {} PROVE Min(S) \in S /\ \A k \in S : Min(S) <= k
<1>1. \E m \in S : \A k \in S : m <= k
  BY Least
<1> QED
  BY <1>1, Zenon DEF Min

-----------------------------------------------------------------------------
(* The laps. *)

LapRecord == [driver : Driver \cup {None, Absent}, number : Number, duration : Nat \cup {None}, date : Number]

\* Each driver's laps are all there, by number.
LEMMA LapsSorted ==
    ASSUME NEW records \in Seq(LapRecord)
    PROVE  LET laps == LapsByDriver(records)
           IN  /\ IsSeq(laps)
               /\ \A p \in DOMAIN laps : \E i \in DOMAIN records :
                      laps[p] = records[i] /\ records[i].driver # Absent
               /\ \A i \in DOMAIN records : records[i].driver # Absent
                      => \E p \in DOMAIN laps : laps[p] = records[i]
               /\ \A p, q \in DOMAIN laps : p < q /\ DriverNumber(laps[p]) = DriverNumber(laps[q])
                      => LapNumber(laps[p]) <= LapNumber(laps[q])
<1> DEFINE S == {i \in DOMAIN records : records[i].driver # Absent}
           listed == WithDriver(records)
           number == [i \in DOMAIN listed |-> LapNumber(listed[i])]
           First(d) == Min({i \in DOMAIN listed : DriverNumber(listed[i]) = d})
           byNumber == Sorted(listed, number)
           group == [i \in DOMAIN byNumber |-> First(DriverNumber(byNumber[i]))]
           laps == LapsByDriver(records)
<1>1. IsSeq(records) /\ \A i \in DOMAIN records : records[i] \in LapRecord
  BY SeqIsSeq, ElementOfSeq, LenProperties
<1>2. /\ IsSeq(listed)
      /\ \A a \in DOMAIN listed : \E i \in S : listed[a] = records[i]
      /\ \A i \in S : \E a \in DOMAIN listed : listed[a] = records[i]
  <2>1. S \in SUBSET DOMAIN records
    OBVIOUS
  <2>2. listed = Those(records, S)
    BY DEF WithDriver
  <2> HIDE DEF S, listed
  <2> QED
    BY <1>1, <2>1, <2>2, Filtering
<1>3. \A a \in DOMAIN listed : number[a] \in Nat
  <2> TAKE a \in DOMAIN listed
  <2>1. listed[a] \in LapRecord
    BY <1>1, <1>2
  <2> QED
    BY <2>1 DEF LapNumber, LapRecord, Number
<1>4. /\ IsSeq(byNumber) /\ DOMAIN byNumber = DOMAIN listed
      /\ \A a \in DOMAIN listed : Ranked(DOMAIN listed, number)[a] \in DOMAIN listed
                                  /\ byNumber[a] = listed[Ranked(DOMAIN listed, number)[a]]
      /\ \A i \in DOMAIN listed : \E a \in DOMAIN listed : Ranked(DOMAIN listed, number)[a] = i
      /\ \A a, b \in DOMAIN listed : a < b =>
             Precedes(number, Ranked(DOMAIN listed, number)[a], Ranked(DOMAIN listed, number)[b])
  <2> HIDE DEF listed, number
  <2> QED
    BY <1>2, <1>3, Sorting
<1>5. /\ \A a \in DOMAIN byNumber : \E i \in S : byNumber[a] = records[i]
      /\ \A i \in S : \E a \in DOMAIN byNumber : byNumber[a] = records[i]
      /\ \A a, b \in DOMAIN byNumber : a < b => LapNumber(byNumber[a]) <= LapNumber(byNumber[b])
  <2> DEFINE rank == Ranked(DOMAIN listed, number)
  <2>1. \A a \in DOMAIN listed : LapNumber(byNumber[a]) = number[rank[a]]
    BY <1>4
  <2>2. \A a, b \in DOMAIN listed : a < b => number[rank[a]] <= number[rank[b]]
    <3> HIDE DEF number, rank
    <3> SUFFICES ASSUME NEW a \in DOMAIN listed, NEW b \in DOMAIN listed, a < b
                 PROVE  number[rank[a]] <= number[rank[b]]
      OBVIOUS
    <3>1. Precedes(number, rank[a], rank[b]) /\ rank[a] \in DOMAIN listed /\ rank[b] \in DOMAIN listed
      BY <1>4 DEF rank
    <3> QED
      BY <1>3, <3>1 DEF Precedes
  <2>3. \A i \in S : \E a \in DOMAIN byNumber : byNumber[a] = records[i]
    <3> TAKE i \in S
    <3>1. PICK j \in DOMAIN listed : listed[j] = records[i]
      BY <1>2
    <3>2. PICK a \in DOMAIN listed : rank[a] = j
      BY <1>4
    <3> HIDE DEF listed, byNumber, rank
    <3> QED
      BY <1>4, <3>1, <3>2 DEF rank
  <2>4. \A a \in DOMAIN byNumber : \E i \in S : byNumber[a] = records[i]
    <3> TAKE a \in DOMAIN byNumber
    <3>1. rank[a] \in DOMAIN listed /\ byNumber[a] = listed[rank[a]]
      BY <1>4
    <3> HIDE DEF listed, byNumber, rank, S
    <3> QED
      BY <1>2, <3>1
  <2>5. DOMAIN byNumber = DOMAIN listed
    BY <1>4
  <2> HIDE DEF rank, number, byNumber, listed, S
  <2> QED
    BY <2>1, <2>2, <2>3, <2>4, <2>5
<1>6. \A a \in DOMAIN byNumber : group[a] \in Nat
  <2> TAKE a \in DOMAIN byNumber
  <2> DEFINE mine == {i \in DOMAIN listed : DriverNumber(listed[i]) = DriverNumber(byNumber[a])}
  <2>1. \E i \in DOMAIN listed : listed[i] = byNumber[a]
    BY <1>4
  <2>2. mine # {} /\ mine \in SUBSET Nat
    <3>1. DOMAIN listed \in SUBSET Nat
      BY <1>2, ListIndices
    <3> QED
      BY <2>1, <3>1
  <2>3. group[a] = Min(mine)
    OBVIOUS
  <2> HIDE DEF mine, group
  <2> QED
    BY <2>2, <2>3, Smallest
<1>7. \A a, b \in DOMAIN byNumber : DriverNumber(byNumber[a]) = DriverNumber(byNumber[b]) => group[a] = group[b]
  OBVIOUS
<1>8. laps = Sorted(byNumber, group)
  BY DEF LapsByDriver
<1>9. IsSeq(byNumber)
  BY <1>4
<1> HIDE DEF listed, number, byNumber, group, laps, S
<1> DEFINE rank == Ranked(DOMAIN byNumber, group)
<1>10. /\ IsSeq(laps) /\ DOMAIN laps = DOMAIN byNumber
       /\ \A a \in DOMAIN laps : rank[a] \in DOMAIN byNumber /\ laps[a] = byNumber[rank[a]]
       /\ \A i \in DOMAIN byNumber : \E a \in DOMAIN laps : rank[a] = i
       /\ \A a, b \in DOMAIN laps : a < b => Precedes(group, rank[a], rank[b])
  BY <1>6, <1>8, <1>9, Sorting
<1> HIDE DEF rank
<1>11. \A p \in DOMAIN laps : \E i \in S : laps[p] = records[i]
  <2> TAKE p \in DOMAIN laps
  <2>1. laps[p] = byNumber[rank[p]] /\ rank[p] \in DOMAIN byNumber
    BY <1>10
  <2> QED
    BY <1>5, <2>1
<1>12. \A i \in S : \E p \in DOMAIN laps : laps[p] = records[i]
  <2> TAKE i \in S
  <2>1. PICK a \in DOMAIN byNumber : byNumber[a] = records[i]
    BY <1>5
  <2>2. PICK p \in DOMAIN laps : rank[p] = a
    BY <1>10
  <2> QED
    BY <1>10, <2>1, <2>2
<1>13. \A p, q \in DOMAIN laps : p < q /\ DriverNumber(laps[p]) = DriverNumber(laps[q])
                                   => LapNumber(laps[p]) <= LapNumber(laps[q])
  <2> SUFFICES ASSUME NEW p \in DOMAIN laps, NEW q \in DOMAIN laps, p < q,
                      DriverNumber(laps[p]) = DriverNumber(laps[q])
               PROVE  LapNumber(laps[p]) <= LapNumber(laps[q])
    OBVIOUS
  <2>1. /\ rank[p] \in DOMAIN byNumber /\ rank[q] \in DOMAIN byNumber
        /\ laps[p] = byNumber[rank[p]] /\ laps[q] = byNumber[rank[q]]
        /\ Precedes(group, rank[p], rank[q])
    BY <1>10
  <2>2. group[rank[p]] = group[rank[q]] /\ group[rank[p]] \in Nat
    BY <1>6, <1>7, <2>1
  <2>3. rank[p] < rank[q]
    BY <2>1, <2>2 DEF Precedes
  <2> QED
    BY <1>5, <2>1, <2>3
<1> QED
  BY <1>10, <1>11, <1>12, <1>13 DEF laps, S

-----------------------------------------------------------------------------
(* The events. *)

\* A session the service holds: what is loaded once the first response is there.
IsData(data) == data \in Sessions /\ data.session # None

\* What the adapter makes of one record, in some list.
IsBuilt(data, dated) ==
    /\ dated.timestamp \in Nat
    /\ dated.event.event_type \in {"SESSION_INFO", "SESSION_STATUS", "DRIVER_LIST",
                                   "RACE_CONTROL_MESSAGE", "PIT_STOP", "LAP_UPDATE"}
    /\ dated.event.event_type = "LAP_UPDATE" =>
           \E p \in DOMAIN laps_to_events(data.laps) : dated = laps_to_events(data.laps)[p]

LEMMA DatedIs ==
    ASSUME NEW date \in Number, NEW event
    PROVE  Dated(date, event).timestamp \in Nat /\ Dated(date, event).event = event
  BY DEF Dated, Number, Epoch

LEMMA LapEvents ==
    ASSUME NEW data, IsData(data)
    PROVE  LET laps == LapsByDriver(data.laps)
               events == laps_to_events(data.laps)
           IN  /\ IsSeq(events) /\ DOMAIN events = DOMAIN laps
               /\ \A p \in DOMAIN events :
                      /\ IsBuilt(data, events[p])
                      /\ events[p].timestamp = IF laps[p].date = None THEN Epoch ELSE laps[p].date
                      /\ events[p].event.event_type = "LAP_UPDATE"
                      /\ events[p].event.payload =
                             [d \in {DriverNumber(laps[p])} |->
                                 [last_lap_time  |-> FormatLapTime(laps[p].duration),
                                  best_lap_time  |-> RunningBest(laps, p),
                                  number_of_laps |-> laps[p].number,
                                  position       |-> None]]
<1> DEFINE laps == LapsByDriver(data.laps)
           events == laps_to_events(data.laps)
           Payload(p) == [d \in {DriverNumber(laps[p])} |->
                             [last_lap_time  |-> FormatLapTime(laps[p].duration),
                              best_lap_time  |-> RunningBest(laps, p),
                              number_of_laps |-> laps[p].number,
                              position       |-> None]]
<1>1. data.laps \in Seq(LapRecord)
  BY SessionsAssumption DEF IsData, LapRecord
<1>2. IsSeq(laps) /\ \A p \in DOMAIN laps : \E i \in DOMAIN data.laps : laps[p] = data.laps[i]
  BY <1>1, LapsSorted
<1>3. DOMAIN laps = 1..Len(laps) /\ Len(laps) \in Nat
  BY <1>2, SeqDomain
<1>4. events = [p \in DOMAIN laps |-> Dated(laps[p].date, TimingEvent("LAP_UPDATE", Payload(p)))]
  BY DEF laps_to_events
<1>5. \A p \in DOMAIN laps : laps[p].date \in Number
  <2> TAKE p \in DOMAIN laps
  <2>1. laps[p] \in LapRecord
    BY <1>1, <1>2, ElementOfSeq, LenProperties
  <2> QED
    BY <2>1 DEF LapRecord
<1> HIDE DEF laps, Payload, events
<1>6. IsSeq(events) /\ DOMAIN events = DOMAIN laps
  <2>1. events = [p \in 1..Len(laps) |-> events[p]]
    BY <1>3, <1>4
  <2> QED
    BY <1>3, <2>1, FunctionIsSeq
<1>7. \A p \in DOMAIN events :
          /\ events[p].event.event_type = "LAP_UPDATE" /\ events[p].event.payload = Payload(p)
          /\ events[p].timestamp \in Nat
          /\ events[p].timestamp = IF laps[p].date = None THEN Epoch ELSE laps[p].date
  <2> TAKE p \in DOMAIN events
  <2>1. events[p] = Dated(laps[p].date, TimingEvent("LAP_UPDATE", Payload(p)))
    BY <1>4, <1>6
  <2>2. events[p].timestamp \in Nat /\ events[p].event = TimingEvent("LAP_UPDATE", Payload(p))
    BY <1>5, <1>6, <2>1, DatedIs
  <2>3. events[p].timestamp = IF laps[p].date = None THEN Epoch ELSE laps[p].date
    BY <2>1 DEF Dated
  <2> QED
    BY <2>2, <2>3 DEF TimingEvent
<1>8. \A p \in DOMAIN events : IsBuilt(data, events[p])
  BY <1>7 DEF IsBuilt, events
<1> QED
  BY <1>6, <1>7, <1>8 DEF laps, events, Payload

\* A list of such events, and how two of them are put together.
AllBuilt(data, list) == IsSeq(list) /\ \A i \in DOMAIN list : IsBuilt(data, list[i])

LEMMA BuiltTogether ==
    ASSUME NEW data, NEW s, AllBuilt(data, s), NEW t, AllBuilt(data, t)
    PROVE  AllBuilt(data, s \o t)
<1> DEFINE both == s \o t
<1>1. IsSeq(s) /\ IsSeq(t)
  BY DEF AllBuilt
<1>2. IsSeq(both) /\ Joins(s, t, both)
  BY <1>1, Concatenation
<1> HIDE DEF both
<1>3. \A k \in DOMAIN both : IsBuilt(data, both[k])
  <2> TAKE k \in DOMAIN both
  <2>1. CASE \E i \in DOMAIN s : both[k] = s[i]
    <3>1. PICK i \in DOMAIN s : both[k] = s[i]
      BY <2>1
    <3> QED
      BY <3>1 DEF AllBuilt
  <2>2. CASE \E j \in DOMAIN t : both[k] = t[j]
    <3>1. PICK j \in DOMAIN t : both[k] = t[j]
      BY <2>2
    <3> QED
      BY <3>1 DEF AllBuilt
  <2> QED
    BY <1>2, <2>1, <2>2 DEF Joins
<1> QED
  BY <1>2, <1>3 DEF AllBuilt, both

\* The records with a date, whatever else is in them.
LEMMA DatedRecords ==
    ASSUME NEW records, IsSeq(records), \A i \in DOMAIN records : records[i].date \in Number
    PROVE  /\ IsSeq(WithDate(records))
           /\ \A i \in DOMAIN WithDate(records) : WithDate(records)[i].date \in Number
<1> DEFINE S == {i \in DOMAIN records : records[i].date # None}
           dated == WithDate(records)
<1>1. dated = Those(records, S)
  BY DEF WithDate
<1>2. S \in SUBSET DOMAIN records
  OBVIOUS
<1> HIDE DEF S, dated
<1>3. IsSeq(dated) /\ \A a \in DOMAIN dated : \E i \in S : dated[a] = records[i]
  BY <1>1, <1>2, Filtering
<1> QED
  BY <1>2, <1>3 DEF dated

LEMMA RaceControlBuilt ==
    ASSUME NEW data, IsData(data) PROVE AllBuilt(data, race_control_to_events(data.race_control))
<1> DEFINE dated == WithDate(data.race_control)
           Event(i) == TimingEvent("RACE_CONTROL_MESSAGE",
                           [message |-> dated[i].message, lap |-> dated[i].lap])
           events == race_control_to_events(data.race_control)
<1>1. IsSeq(dated) /\ \A i \in DOMAIN dated : dated[i].date \in Number
  <2>1. data.race_control \in Seq([message : STRING, lap : Number, date : Number])
    BY SessionsAssumption DEF IsData
  <2>2. IsSeq(data.race_control)
    BY <2>1, SeqIsSeq
  <2>3. \A i \in DOMAIN data.race_control : data.race_control[i].date \in Number
    <3> TAKE i \in DOMAIN data.race_control
    <3>1. data.race_control[i] \in [message : STRING, lap : Number, date : Number]
      BY <2>1, ElementOfSeq, LenProperties
    <3> QED
      BY <3>1
  <2> QED
    BY <2>2, <2>3, DatedRecords
<1>2. events = [i \in DOMAIN dated |-> Dated(dated[i].date, Event(i))]
  BY DEF race_control_to_events
<1>3. \A i \in DOMAIN dated : Event(i).event_type = "RACE_CONTROL_MESSAGE"
  BY DEF TimingEvent
<1>4. DOMAIN dated = 1..Len(dated) /\ Len(dated) \in Nat
  BY <1>1, SeqDomain
<1> HIDE DEF dated, Event, events
<1>5. IsSeq(events) /\ DOMAIN events = DOMAIN dated
  <2>1. events = [i \in 1..Len(dated) |-> events[i]]
    BY <1>2, <1>4
  <2> QED
    BY <1>4, <2>1, FunctionIsSeq
<1>6. \A i \in DOMAIN events : IsBuilt(data, events[i])
  BY <1>1, <1>2, <1>3, <1>5, DatedIs DEF IsBuilt
<1> QED
  BY <1>5, <1>6 DEF AllBuilt, events

LEMMA PitBuilt == ASSUME NEW data, IsData(data) PROVE AllBuilt(data, pit_to_events(data.pit))
<1> DEFINE dated == WithDate(data.pit)
           Event(i) == TimingEvent("PIT_STOP", [racing_number |-> DriverNumber(dated[i]), lap |-> dated[i].lap])
           events == pit_to_events(data.pit)
<1>1. IsSeq(dated) /\ \A i \in DOMAIN dated : dated[i].date \in Number
  <2>1. data.pit \in Seq([driver : Driver \cup {None, Absent}, lap : Number, date : Number])
    BY SessionsAssumption DEF IsData
  <2>2. IsSeq(data.pit)
    BY <2>1, SeqIsSeq
  <2>3. \A i \in DOMAIN data.pit : data.pit[i].date \in Number
    <3> TAKE i \in DOMAIN data.pit
    <3>1. data.pit[i] \in [driver : Driver \cup {None, Absent}, lap : Number, date : Number]
      BY <2>1, ElementOfSeq, LenProperties
    <3> QED
      BY <3>1
  <2> QED
    BY <2>2, <2>3, DatedRecords
<1>2. events = [i \in DOMAIN dated |-> Dated(dated[i].date, Event(i))]
  BY DEF pit_to_events
<1>3. \A i \in DOMAIN dated : Event(i).event_type = "PIT_STOP"
  BY DEF TimingEvent
<1>4. DOMAIN dated = 1..Len(dated) /\ Len(dated) \in Nat
  BY <1>1, SeqDomain
<1> HIDE DEF dated, Event, events
<1>5. IsSeq(events) /\ DOMAIN events = DOMAIN dated
  <2>1. events = [i \in 1..Len(dated) |-> events[i]]
    BY <1>2, <1>4
  <2> QED
    BY <1>4, <2>1, FunctionIsSeq
<1>6. \A i \in DOMAIN events : IsBuilt(data, events[i])
  BY <1>1, <1>2, <1>3, <1>5, DatedIs DEF IsBuilt
<1> QED
  BY <1>5, <1>6 DEF AllBuilt, events

\* The events of a session are in the order of their dates, and every lap is
\* among them.
LEMMA EventsBuilt ==
    ASSUME NEW data, IsData(data)
    PROVE  LET events == BuildEvents(data)
           IN  /\ AllBuilt(data, events)
               /\ \A i, j \in DOMAIN events : i < j => events[i].timestamp <= events[j].timestamp
               /\ \A p \in DOMAIN laps_to_events(data.laps) :
                      \E i \in DOMAIN events : events[i] = laps_to_events(data.laps)[p]
<1> DEFINE session == session_to_events(data.session)
           drivers == drivers_to_event(data.drivers, data.session.date_start)
           rest == race_control_to_events(data.race_control)
           pits == pit_to_events(data.pit)
           laps == laps_to_events(data.laps)
           unsorted == session \o drivers \o rest \o pits \o laps
           key == [i \in DOMAIN unsorted |-> unsorted[i].timestamp]
           rank == Ranked(DOMAIN unsorted, key)
           events == BuildEvents(data)
<1>1. data.session.date_start \in Number
  BY SessionsAssumption DEF IsData
<1>2. AllBuilt(data, session)
  <2> DEFINE Info == TimingEvent("SESSION_INFO", [key |-> data.session.key])
             Status == TimingEvent("SESSION_STATUS", [status |-> "Finished"])
             e == Dated(data.session.date_start, Info)
             f == Dated(data.session.date_start, Status)
  <2>1. Info.event_type = "SESSION_INFO" /\ Status.event_type = "SESSION_STATUS"
    BY DEF TimingEvent
  <2> HIDE DEF Info, Status
  <2>2. e.timestamp \in Nat /\ e.event = Info /\ f.timestamp \in Nat /\ f.event = Status
    BY <1>1, DatedIs
  <2>3. session = <<e, f>>
    BY DEF session_to_events, Info, Status
  <2> HIDE DEF session, e, f
  <2>4. IsBuilt(data, e) /\ IsBuilt(data, f)
    BY <2>1, <2>2 DEF IsBuilt
  <2>5. session \in Seq({e, f}) /\ DOMAIN session = 1..2 /\ session[1] = e /\ session[2] = f
    BY <2>3
  <2>6. IsSeq(session)
    BY <2>5, SeqIsSeq
  <2> QED
    BY <2>4, <2>5, <2>6 DEF AllBuilt
<1>3. AllBuilt(data, drivers)
  <2>1. CASE drivers = << >>
    <3>1. IsSeq(<< >>) /\ DOMAIN << >> = {}
      BY DEF IsSeq
    <3> QED
      BY <2>1, <3>1 DEF AllBuilt
  <2>2. CASE drivers # << >>
    <3>1. \E content : drivers = <<Dated(data.session.date_start, TimingEvent("DRIVER_LIST", content))>>
      BY <2>2 DEF drivers_to_event
    <3>2. PICK content :
            drivers = <<Dated(data.session.date_start, TimingEvent("DRIVER_LIST", content))>>
      BY <3>1
    <3> DEFINE List == TimingEvent("DRIVER_LIST", content)
               e == Dated(data.session.date_start, List)
    <3>3. List.event_type = "DRIVER_LIST"
      BY DEF TimingEvent
    <3> HIDE DEF List
    <3>4. e.timestamp \in Nat /\ e.event = List
      BY <1>1, DatedIs
    <3>5. drivers = <<e>>
      BY <3>2 DEF List
    <3> HIDE DEF e, drivers
    <3>6. IsBuilt(data, e)
      BY <3>3, <3>4 DEF IsBuilt
    <3>7. drivers \in Seq({e}) /\ DOMAIN drivers = 1..1 /\ drivers[1] = e
      BY <3>5
    <3>8. IsSeq(drivers)
      BY <3>7, SeqIsSeq
    <3> QED
      BY <3>6, <3>7, <3>8 DEF AllBuilt
  <2> QED
    BY <2>1, <2>2
<1>4. AllBuilt(data, laps) /\ AllBuilt(data, rest) /\ AllBuilt(data, pits)
  BY LapEvents, RaceControlBuilt, PitBuilt DEF AllBuilt
<1> HIDE DEF session, drivers, rest, pits, laps
<1>5. AllBuilt(data, session \o drivers \o rest \o pits)
  <2>1. AllBuilt(data, session \o drivers)
    BY <1>2, <1>3, BuiltTogether
  <2>2. AllBuilt(data, session \o drivers \o rest)
    BY <1>4, <2>1, BuiltTogether
  <2> QED
    BY <1>4, <2>2, BuiltTogether
<1> DEFINE before == session \o drivers \o rest \o pits
<1> HIDE DEF before
<1>6. AllBuilt(data, before) /\ unsorted = before \o laps
  BY <1>5 DEF before
<1> HIDE DEF unsorted
<1>7. AllBuilt(data, unsorted)
  BY <1>4, <1>6, BuiltTogether
<1>8. \A p \in DOMAIN laps : \E i \in DOMAIN unsorted : unsorted[i] = laps[p]
  <2>1. IsSeq(before) /\ IsSeq(laps)
    BY <1>4, <1>6 DEF AllBuilt
  <2>2. Joins(before, laps, unsorted)
    BY <1>6, <2>1, Concatenation
  <2> QED
    BY <2>2 DEF Joins
<1>9. events = Sorted(unsorted, key)
  BY DEF BuildEvents, unsorted, session, drivers, rest, pits, laps
<1>10. \A i \in DOMAIN unsorted : key[i] \in Nat /\ key[i] = unsorted[i].timestamp
  BY <1>7 DEF AllBuilt, IsBuilt
<1> HIDE DEF events, key, rank
<1>11. /\ IsSeq(events) /\ DOMAIN events = DOMAIN unsorted
       /\ \A a \in DOMAIN unsorted : rank[a] \in DOMAIN unsorted /\ events[a] = unsorted[rank[a]]
       /\ \A i \in DOMAIN unsorted : \E a \in DOMAIN unsorted : rank[a] = i
       /\ \A a, b \in DOMAIN unsorted : a < b => Precedes(key, rank[a], rank[b])
  BY <1>7, <1>9, <1>10, Sorting DEF rank, AllBuilt
<1>12. \A a \in DOMAIN events : IsBuilt(data, events[a])
  <2> TAKE a \in DOMAIN events
  <2>1. rank[a] \in DOMAIN unsorted /\ events[a] = unsorted[rank[a]]
    BY <1>11
  <2> QED
    BY <1>7, <2>1 DEF AllBuilt
<1>13. \A a, b \in DOMAIN events : a < b => events[a].timestamp <= events[b].timestamp
  <2> SUFFICES ASSUME NEW a \in DOMAIN events, NEW b \in DOMAIN events, a < b
               PROVE  events[a].timestamp <= events[b].timestamp
    OBVIOUS
  <2>1. /\ rank[a] \in DOMAIN unsorted /\ events[a] = unsorted[rank[a]]
        /\ rank[b] \in DOMAIN unsorted /\ events[b] = unsorted[rank[b]]
        /\ Precedes(key, rank[a], rank[b])
    BY <1>11
  <2>2. key[rank[a]] <= key[rank[b]]
    BY <1>10, <2>1 DEF Precedes
  <2> QED
    BY <1>10, <2>1, <2>2
<1>14. \A p \in DOMAIN laps : \E a \in DOMAIN events : events[a] = laps[p]
  <2> TAKE p \in DOMAIN laps
  <2>1. PICK i \in DOMAIN unsorted : unsorted[i] = laps[p]
    BY <1>8
  <2>2. PICK a \in DOMAIN unsorted : rank[a] = i
    BY <1>11
  <2> QED
    BY <1>11, <2>1, <2>2
<1> QED
  BY <1>11, <1>12, <1>13, <1>14 DEF AllBuilt, events, laps

-----------------------------------------------------------------------------
(* The invariant of the loader. *)

Built == BuildEvents(service)
Done == Len(Built) - Len(queue)

\* The first response says whether the session exists.
Answered == progress \in {"fetching", "reducing", "loaded"} /\ responses > 0 => service.session # None

\* A request is as old as the next one, and older by Delay if fetch() slept
\* between the two; what the service no longer counts are the oldest.
Spaced ==
    /\ progress \notin {"found", "fetching"} => DOMAIN ages = {}
    /\ progress = "found" => DOMAIN ages \subseteq {0}
    /\ progress = "fetching" =>
           /\ responses < Len(Endpoint)
           /\ DOMAIN ages \subseteq 0..responses + 1
           /\ \A r \in DOMAIN ages : r <= responses =>
                  /\ r + 1 \in DOMAIN ages
                  /\ ages[r] >= ages[r + 1]
                  /\ r >= 2 => ages[r] >= ages[r + 1] + Delay

\* What to_state() has not come to is an end of the events it built.
QueueIsRest ==
    /\ IsSeq(queue)
    /\ progress # "reducing" => queue = << >>
    /\ progress = "reducing" =>
           /\ Len(queue) <= Len(Built)
           /\ \A i \in 1..Len(queue) : queue[i] = Built[Done + i]

\* The lists of a state, and its laps, are of whatever events have put there.
WellFormed(s) ==
    /\ IsState(s)
    /\ IsSeq(s.race_control_messages) /\ Len(s.race_control_messages) <= RaceControlCap
    /\ IsSeq(s.pit_history)
    /\ s.latest_laps = [d \in DOMAIN s.latest_laps |-> s.latest_laps[d]]

\* A load starts afresh, and until the projection there are no places.
NoPlacesYet ==
    /\ progress \notin {"reducing", "loaded"} => state = initial_state
    /\ progress = "reducing" => DOMAIN state.driver_positions = {}

\* The places are no events, so a replay has none.
NoPlacesStored == DOMAIN replayed.driver_positions = {}

\* The fields that hold what their last event brought, and that event's type.
SetBy(field) ==
    CASE field = "session_info" -> "SESSION_INFO"
      [] field = "session_status" -> "SESSION_STATUS"
      [] field = "driver_list" -> "DRIVER_LIST"
SetFields == {"session_info", "session_status", "driver_list"}

HasLap(event, d) == event.event_type = "LAP_UPDATE" /\ d \in DOMAIN event.payload

\* What an earlier load has left in the store, this one brings again.
StoredBefore ==
    /\ \A field \in SetFields : replayed[field] # initial_state[field]
           => \E i \in DOMAIN Built : Built[i].event.event_type = SetBy(field)
    /\ \A d \in DOMAIN replayed.latest_laps : \E i \in DOMAIN Built : HasLap(Built[i].event, d)

SameLap(d) ==
    /\ d \in DOMAIN state.latest_laps <=> d \in DOMAIN replayed.latest_laps
    /\ d \in DOMAIN state.latest_laps => state.latest_laps[d] = replayed.latest_laps[d]

EndsIn(list, end) ==
    /\ Len(end) <= Len(list)
    /\ \A i \in 1..Len(end) : end[i] = list[Len(list) - Len(end) + i]

\* What the state holds once is the same in a replay, or is still to come; the
\* rest a replay ends in.
Retained ==
    progress \in {"reducing", "loaded"} /\ keeping /\ ~lost =>
        /\ \A field \in SetFields :
               \/ replayed[field] = state[field]
               \/ \E i \in DOMAIN queue : queue[i].event.event_type = SetBy(field)
        /\ \A d \in DOMAIN state.latest_laps \cup DOMAIN replayed.latest_laps :
               SameLap(d) \/ \E i \in DOMAIN queue : HasLap(queue[i].event, d)
        /\ EndsIn(replayed.race_control_messages, state.race_control_messages)
        /\ EndsIn(replayed.pit_history, state.pit_history)

\* A driver's lap in the state is that of the last event that has come with one.
LastLapShown ==
    progress \in {"reducing", "loaded"} =>
        \A d \in Driver \cup {"None"} : \A i \in 1..Done : HasLap(Built[i].event, d) =>
            /\ d \in DOMAIN state.latest_laps
            /\ \E j \in i..Done :
                   /\ HasLap(Built[j].event, d)
                   /\ \A k \in j + 1..Done : ~HasLap(Built[k].event, d)
                   /\ state.latest_laps[d] = Built[j].event.payload[d]

\* The types of what fetch() counts.
FetchTypes ==
    /\ progress \in {"idle", "found", "fetching", "reducing", "loaded", "failed"}
    /\ responses \in 0..Len(Endpoint)
    /\ progress \in {"reducing", "loaded"} => responses = Len(Endpoint)
    /\ DOMAIN ages \subseteq 0..Len(Endpoint) /\ \A r \in DOMAIN ages : ages[r] \in 0..Second - 1

OtherTypes ==
    /\ keeping \in BOOLEAN /\ torn \in BOOLEAN /\ readable \in BOOLEAN /\ lost \in BOOLEAN
    /\ loads \in 0..MaxLoads

LoaderInv ==
    /\ service \in Sessions /\ FetchTypes /\ OtherTypes
    /\ Answered /\ Spaced /\ QueueIsRest
    /\ WellFormed(state) /\ WellFormed(replayed) /\ NoPlacesYet /\ NoPlacesStored
    /\ StoredBefore /\ Retained /\ LastLapShown /\ PlacesShown

-----------------------------------------------------------------------------
(* fetch(): a request that is still counted was sent after all that are not. *)

LEMMA EmptyHasNone == DOMAIN EmptyDict = {}
  BY DEF EmptyDict

LEMMA SixRequests == Len(Endpoint) = 6 /\ Endpoint[1] = "sessions"
  BY DEF Endpoint

LEMMA FetchBegins ==
    ASSUME FetchTypes, Spaced, FindSession \/ LoadState
    PROVE  FetchTypes' /\ Spaced'
<1>1. Len(Endpoint) = 6 /\ Second \in Nat \ {0} /\ Latency \subseteq Nat /\ Delay \in Nat
  BY SixRequests, TimeAssumption
<1>2. CASE FindSession /\ progress' = "found"
  <2>1. PICK ticks \in Latency : ages' = Recent([r \in {0} |-> ticks])
    BY <1>2 DEF FindSession
  <2>2. DOMAIN ages' \subseteq {0} /\ \A r \in DOMAIN ages' : ages'[r] = ticks /\ ticks < Second
    BY <2>1 DEF Recent
  <2>3. \A r \in DOMAIN ages' : ages'[r] \in 0..Second - 1
    BY <1>1, <2>2
  <2>4. responses' = responses
    BY <1>2 DEF FindSession
  <2> QED
    BY <1>1, <1>2, <2>2, <2>3, <2>4 DEF FetchTypes, Spaced
<1>3. CASE FindSession /\ progress' # "found"
  <2>1. progress' = "failed" /\ ages' = ages /\ responses' = responses /\ progress \notin {"found", "fetching"}
    BY <1>3 DEF FindSession
  <2> QED
    BY <2>1 DEF FetchTypes, Spaced
<1>4. CASE LoadState
  <2>1. /\ progress' = "fetching" /\ responses' = 0 /\ ages' = Send(1, ages)
        /\ progress # "fetching"
    BY <1>4 DEF LoadState
  <2>2. DOMAIN ages \subseteq {0}
    BY <2>1 DEF Spaced
  <2>3. /\ DOMAIN ages' = DOMAIN ages \cup {1} /\ ages'[1] = 0
        /\ \A r \in DOMAIN ages : ages'[r] = ages[r]
    BY <2>1, <2>2 DEF Send, Update
  <2>4. \A r \in DOMAIN ages' : ages'[r] \in 0..Second - 1
    BY <1>1, <2>2, <2>3 DEF FetchTypes
  <2>5. /\ DOMAIN ages' \subseteq 0..responses' + 1
        /\ \A r \in DOMAIN ages' : r <= responses' => r = 0
    BY <2>1, <2>2, <2>3
  <2>6. \A r \in DOMAIN ages' : ages'[r] >= ages'[1]
    BY <1>1, <2>3, <2>4
  <2>7. Spaced'
    BY <1>1, <2>1, <2>3, <2>5, <2>6 DEF Spaced
  <2> QED
    BY <1>1, <2>1, <2>2, <2>3, <2>4, <2>7 DEF FetchTypes
<1> QED
  BY <1>2, <1>3, <1>4

LEMMA FetchGoesOn ==
    ASSUME FetchTypes, Spaced, Responds PROVE FetchTypes' /\ Spaced'
<1>1. Len(Endpoint) = 6 /\ Second \in Nat \ {0} /\ Latency \subseteq Nat /\ Delay \in Nat
  BY SixRequests, TimeAssumption
<1>2. progress = "fetching" /\ responses' = responses + 1 /\ responses \in 0..5
  BY <1>1 DEF Responds, FetchTypes, Spaced
<1>3. CASE responses' = 6
  <2>1. progress' = "reducing" /\ DOMAIN ages' = {}
    BY <1>1, <1>3, EmptyHasNone DEF Responds, BeginToState
  <2> QED
    BY <1>1, <1>3, <2>1 DEF FetchTypes, Spaced
<1>4. CASE responses' # 6
  <2>1. PICK ticks \in Latency :
          ages' = Send(responses' + 1, Pass(ticks + Sleep(responses'))) /\ progress' = progress
    BY <1>1, <1>4 DEF Responds, SendNext
  <2> DEFINE t == ticks + Sleep(responses')
             last == responses' + 1
  <2>2. t \in Nat /\ (responses' >= 2 => t >= Delay)
    BY <1>1, <1>2 DEF Sleep
  <2> HIDE DEF t
  <2>3. /\ DOMAIN Pass(t) = {r \in DOMAIN ages : ages[r] + t < Second}
        /\ \A r \in DOMAIN Pass(t) : Pass(t)[r] = ages[r] + t
    BY DEF Pass, Recent
  <2>4. /\ DOMAIN ages' = DOMAIN Pass(t) \cup {last} /\ ages'[last] = 0
        /\ \A r \in DOMAIN Pass(t) : r # last => ages'[r] = Pass(t)[r]
    BY <2>1 DEF t, Send, Update
  <2>5. DOMAIN ages \subseteq 0..responses'
    BY <1>2 DEF Spaced
  <2>6. DOMAIN ages' = {r \in DOMAIN ages : ages[r] + t < Second} \cup {last}
    BY <2>3, <2>4
  <2>7. \A r \in DOMAIN ages : ages[r] + t < Second => ages'[r] = ages[r] + t
    BY <1>2, <2>3, <2>4, <2>5
  <2> HIDE DEF last
  <2>8. \A r \in DOMAIN ages' : ages'[r] \in 0..Second - 1
    BY <1>1, <2>2, <2>4, <2>6, <2>7 DEF FetchTypes
  <2>9. \A r \in DOMAIN ages' : r <= responses' =>
           /\ r + 1 \in DOMAIN ages'
           /\ ages'[r] >= ages'[r + 1]
           /\ r >= 2 => ages'[r] >= ages'[r + 1] + Delay
    <3> SUFFICES ASSUME NEW r \in DOMAIN ages', r <= responses'
                 PROVE  /\ r + 1 \in DOMAIN ages'
                        /\ ages'[r] >= ages'[r + 1]
                        /\ r >= 2 => ages'[r] >= ages'[r + 1] + Delay
      OBVIOUS
    <3>1. r \in DOMAIN ages /\ ages[r] + t < Second /\ ages'[r] = ages[r] + t /\ ages[r] \in Nat
      BY <1>2, <2>6, <2>7 DEF last, FetchTypes
    <3>2. r \in 0..responses'
      BY <2>5, <3>1
    <3>3. CASE r = responses'
      BY <1>1, <1>2, <2>2, <2>4, <2>6, <3>1, <3>3 DEF last
    <3>4. CASE r # responses'
      <4>1. r <= responses
        BY <1>2, <3>2, <3>4
      <4>2. /\ r + 1 \in DOMAIN ages /\ ages[r] >= ages[r + 1]
            /\ r >= 2 => ages[r] >= ages[r + 1] + Delay
        BY <1>2, <3>1, <4>1 DEF Spaced
      <4>3. ages[r + 1] \in Nat
        BY <1>1, <4>2 DEF FetchTypes
      <4>4. r + 1 \in DOMAIN ages' /\ ages'[r + 1] = ages[r + 1] + t
        BY <1>1, <2>2, <2>6, <2>7, <3>1, <4>2, <4>3
      <4> QED
        BY <1>1, <2>2, <3>1, <4>2, <4>3, <4>4
    <3> QED
      BY <3>3, <3>4
  <2>10. DOMAIN ages' \subseteq 0..responses' + 1
    BY <1>2, <2>5, <2>6 DEF last
  <2>11. Spaced'
    BY <1>1, <1>2, <1>4, <2>1, <2>9, <2>10 DEF Spaced
  <2> QED
    BY <1>1, <1>2, <1>4, <2>1, <2>8, <2>10, <2>11 DEF FetchTypes
<1> QED
  BY <1>3, <1>4

LEMMA FetchEnds ==
    ASSUME FetchTypes, Spaced, Fails \/ ReduceNext \/ ProjectPositions \/ UNCHANGED loaderVars
    PROVE  FetchTypes' /\ Spaced'
<1>1. CASE Fails
  <2>1. progress' = "failed" /\ responses' = 0 /\ DOMAIN ages' = {}
    BY <1>1, EmptyHasNone DEF Fails
  <2> QED
    BY <2>1, SixRequests DEF FetchTypes, Spaced
<1>2. CASE ReduceNext
  BY <1>2 DEF ReduceNext, fetchVars, FetchTypes, Spaced
<1>3. CASE ProjectPositions
  <2>1. progress = "reducing" /\ progress' = "loaded" /\ ages' = ages /\ responses' = responses
    BY <1>3 DEF ProjectPositions
  <2> QED
    BY <2>1 DEF FetchTypes, Spaced
<1>4. CASE UNCHANGED loaderVars
  BY <1>4 DEF loaderVars, fetchVars, FetchTypes, Spaced
<1> QED
  BY <1>1, <1>2, <1>3, <1>4

LEMMA FetchStep ==
    ASSUME FetchTypes, Spaced, [Next]_loaderVars PROVE FetchTypes' /\ Spaced'
  BY FetchBegins, FetchGoesOn, FetchEnds DEF Next, FetchFails, AppendFails

\* What three sleeps take is more than a second.
LEMMA SpacedIsPaced ==
    ASSUME FetchTypes, Spaced PROVE Paced
<1> SUFFICES ASSUME progress = "fetching", responses > 3
             PROVE  Cardinality(DOMAIN ages) <= 3
  BY DEF Paced
<1>1. /\ Second \in Nat \ {0} /\ Delay \in Nat /\ Second <= 3 * Delay
      /\ responses \in Nat
  BY TimeAssumption, DelayAssumption DEF FetchTypes
<1>2. \A r \in DOMAIN ages : r \in Nat /\ r <= responses + 1 /\ ages[r] \in Nat /\ ages[r] < Second
  BY <1>1 DEF FetchTypes, Spaced
<1>3. responses - 2 \notin DOMAIN ages
  <2> SUFFICES ASSUME responses - 2 \in DOMAIN ages PROVE FALSE
    OBVIOUS
  <2>0. \A r \in DOMAIN ages : r <= responses =>
           r + 1 \in DOMAIN ages /\ (r >= 2 => ages[r] >= ages[r + 1] + Delay)
    BY DEF Spaced
  <2>1. responses - 2 >= 2 /\ responses - 2 <= responses /\ (responses - 2) + 1 = responses - 1
        /\ responses - 1 <= responses /\ (responses - 1) + 1 = responses
    BY <1>1
  <2>2. responses - 1 \in DOMAIN ages /\ ages[responses - 2] >= ages[responses - 1] + Delay
    BY <2>1, <2>0
  <2>3. responses \in DOMAIN ages /\ ages[responses - 1] >= ages[responses] + Delay
    <3>1. responses - 1 <= responses /\ responses - 1 >= 2
      BY <1>1
    <3>2. (responses - 1) + 1 = responses
      BY <2>1
    <3> QED
      BY <2>2, <2>0, <3>1, <3>2
  <2>4. responses + 1 \in DOMAIN ages /\ ages[responses] >= ages[responses + 1] + Delay
    BY <1>1, <2>3, <2>0, responses <= responses, responses >= 2
  <2> QED
    BY <1>1, <1>2, <2>2, <2>3, <2>4
<1>4. \A r \in DOMAIN ages : r > responses - 2
  <2> DEFINE T == {r \in DOMAIN ages : r <= responses - 2}
  <2> SUFFICES ASSUME T # {} PROVE FALSE
    BY <1>1, <1>2
  <2> DEFINE Back == {responses - r : r \in T}
  <2>1. Back \in SUBSET Nat /\ Back # {}
    BY <1>1, <1>2
  <2> HIDE DEF Back
  <2>2. PICK m \in Back : \A k \in Back : m <= k
    BY <2>1, Least
  <2> USE DEF Back
  <2>3. PICK r \in T : m = responses - r
    OBVIOUS
  <2>4. \A q \in T : responses - r <= responses - q
    BY <2>2, <2>3
  <2>5. r + 1 \in DOMAIN ages /\ r < responses - 2
    BY <1>1, <1>2, <1>3 DEF Spaced
  <2>6. r + 1 \in T
    BY <1>1, <1>2, <2>5
  <2> QED
    BY <1>1, <1>2, <2>4, <2>6
<1>5. DOMAIN ages \subseteq responses - 1..responses + 1
  BY <1>1, <1>2, <1>4
<1>6. /\ IsFiniteSet(responses - 1..responses + 1)
      /\ Cardinality(responses - 1..responses + 1) = 3
  BY <1>1, FS_Interval
<1> QED
  BY <1>5, <1>6, FS_Subset

-----------------------------------------------------------------------------
(* to_state(): what the events do to a state. *)

\* Once the first response is there, what BuildEvents makes of the service.
LEMMA BuiltIs ==
    ASSUME service \in Sessions, service.session # None
    PROVE  /\ AllBuilt(service, Built) /\ Len(Built) \in Nat /\ DOMAIN Built = 1..Len(Built)
           /\ \A i, j \in DOMAIN Built : i < j => Built[i].timestamp <= Built[j].timestamp
<1>1. IsData(service)
  BY DEF IsData
<1>2. /\ AllBuilt(service, Built)
      /\ \A i, j \in DOMAIN Built : i < j => Built[i].timestamp <= Built[j].timestamp
  BY <1>1, EventsBuilt DEF Built
<1> QED
  BY <1>2, SeqDomain DEF AllBuilt

LEMMA FieldsOf ==
    ASSUME NEW s, WellFormed(s) PROVE DOMAIN s = Fields
  BY DEF WellFormed, IsState

LEMMA Initially == WellFormed(initial_state) /\ DOMAIN initial_state = Fields
<1>1. IsState(initial_state) /\ DOMAIN initial_state = Fields
  BY DEF initial_state, IsState, Fields
<1>2. IsSeq(<< >>) /\ Len(<< >>) = 0
  BY DEF IsSeq
<1>3. EmptyDict = [d \in DOMAIN EmptyDict |-> EmptyDict[d]]
  BY DEF EmptyDict
<1>4. /\ initial_state.race_control_messages = << >> /\ initial_state.pit_history = << >>
      /\ initial_state.latest_laps = EmptyDict
  BY DEF initial_state
<1> QED
  BY <1>1, <1>2, <1>3, <1>4, CapAssumption DEF WellFormed

\* What is left when the oldest entries are dropped.
LEMMA CappedIs ==
    ASSUME NEW list, IsSeq(list), Len(list) <= RaceControlCap, NEW x
    PROVE  LET capped == Capped(Append(list, x))
               drop == IF Len(list) = RaceControlCap THEN 1 ELSE 0
           IN  /\ IsSeq(capped) /\ Len(capped) = Len(list) + 1 - drop
               /\ \A i \in 1..Len(list) - drop : capped[i] = list[drop + i]
               /\ capped[Len(list) + 1 - drop] = x
<1> DEFINE longer == Append(list, x)
           drop == IF Len(list) = RaceControlCap THEN 1 ELSE 0
           capped == Capped(longer)
           T == {longer[i] : i \in DOMAIN longer}
<1>1. Len(list) \in Nat /\ RaceControlCap \in Nat \ {0}
  BY SeqDomain, CapAssumption
<1>2. /\ IsSeq(longer) /\ Len(longer) = Len(list) + 1
      /\ \A i \in 1..Len(list) : longer[i] = list[i]
      /\ longer[Len(list) + 1] = x
  BY AppendAnything
<1>3. longer \in Seq(T)
  BY <1>2 DEF IsSeq
<1> HIDE DEF longer, T
<1>4. capped = SubSeq(longer, drop + 1, Len(list) + 1) /\ drop \in {0, 1} /\ drop <= Len(list)
  <2>1. drop = (IF Len(longer) > RaceControlCap THEN Len(longer) - RaceControlCap ELSE 0)
    BY <1>1, <1>2
  <2>2. drop \in {0, 1} /\ drop <= Len(list)
    BY <1>1
  <2> HIDE DEF drop
  <2>3. capped = SubSeq(longer, drop + 1, Len(longer))
    BY <2>1 DEF Capped
  <2> QED
    BY <1>2, <2>2, <2>3
<1> HIDE DEF capped, drop
<1>5. /\ capped \in Seq(T) /\ Len(capped) = Len(list) + 1 - drop
      /\ \A i \in 1..Len(list) + 1 - drop : capped[i] = longer[drop + i]
  <2>1. drop + 1 \in 1..Len(longer) + 1 /\ Len(list) + 1 \in drop + 1 - 1..Len(longer)
    BY <1>1, <1>2, <1>4
  <2>2. \A i \in drop + 1..Len(list) + 1 : i \in 1..Len(longer) /\ longer[i] \in T
    BY <1>1, <1>2, <1>3, <1>4, ElementOfSeq
  <2>3. /\ SubSeq(longer, drop + 1, Len(list) + 1) \in Seq(T)
        /\ Len(SubSeq(longer, drop + 1, Len(list) + 1)) = (Len(list) + 1) - (drop + 1) + 1
        /\ \A i \in 1..(Len(list) + 1) - (drop + 1) + 1 :
               SubSeq(longer, drop + 1, Len(list) + 1)[i] = longer[drop + 1 + i - 1]
    BY <1>1, <1>2, <1>3, <1>4, <2>1, <2>2, SubSeqProperties
  <2>4. (Len(list) + 1) - (drop + 1) + 1 = Len(list) + 1 - drop
        /\ \A i \in Nat : drop + 1 + i - 1 = drop + i
    BY <1>1, <1>4
  <2> QED
    BY <1>1, <1>4, <2>3, <2>4
<1>6. IsSeq(capped)
  BY <1>5, SeqIsSeq
<1>7. \A i \in 1..Len(list) - drop : capped[i] = list[drop + i]
  BY <1>1, <1>2, <1>4, <1>5
<1>8. capped[Len(list) + 1 - drop] = x
  BY <1>1, <1>2, <1>4, <1>5
<1> QED
  BY <1>5, <1>6, <1>7, <1>8 DEF longer, capped, drop

\* A message or a stop in both lists leaves one the end of the other.
LEMMA CappedEndsIn ==
    ASSUME NEW list, IsSeq(list), Len(list) <= RaceControlCap,
           NEW end, IsSeq(end), EndsIn(list, end), NEW x
    PROVE  EndsIn(Capped(Append(list, x)), Capped(Append(end, x)))
<1> DEFINE l == Capped(Append(list, x))
           e == Capped(Append(end, x))
           m == IF Len(list) = RaceControlCap THEN 1 ELSE 0
           n == IF Len(end) = RaceControlCap THEN 1 ELSE 0
<1>1. Len(list) \in Nat /\ Len(end) \in Nat /\ RaceControlCap \in Nat \ {0} /\ Len(end) <= Len(list)
  BY SeqDomain, CapAssumption DEF EndsIn
<1>2. /\ Len(l) = Len(list) + 1 - m /\ l[Len(list) + 1 - m] = x
      /\ \A i \in 1..Len(list) - m : l[i] = list[m + i]
  BY CappedIs
<1>3. /\ Len(e) = Len(end) + 1 - n /\ e[Len(end) + 1 - n] = x
      /\ \A i \in 1..Len(end) - n : e[i] = end[n + i]
  BY <1>1, CappedIs
<1>4. m \in {0, 1} /\ n \in {0, 1} /\ m >= n /\ n <= Len(end) /\ m <= Len(list)
      /\ Len(end) + 1 - n <= Len(list) + 1 - m
  BY <1>1
<1>5. \A i \in 1..Len(end) : end[i] = list[Len(list) - Len(end) + i]
  BY DEF EndsIn
<1> HIDE DEF l, e, m, n
<1>6. \A i \in 1..Len(e) : e[i] = l[Len(l) - Len(e) + i]
  <2> TAKE i \in 1..Len(e)
  <2>1. CASE i = Len(e)
    BY <1>1, <1>2, <1>3, <1>4, <2>1
  <2>2. CASE i # Len(e)
    <3>1. i \in 1..Len(end) - n /\ n + i \in 1..Len(end)
      BY <1>1, <1>3, <1>4, <2>2
    <3>2. e[i] = end[n + i] /\ end[n + i] = list[Len(list) - Len(end) + (n + i)]
      BY <1>3, <1>5, <3>1
    <3> DEFINE k == Len(l) - Len(e) + i
    <3>3. k \in 1..Len(list) - m /\ m + k = Len(list) - Len(end) + (n + i)
      <4>1. Len(l) = Len(list) + 1 - m /\ Len(e) = Len(end) + 1 - n /\ i \in Nat \ {0}
        BY <1>1, <1>2, <1>3, <1>4
      <4> QED
        BY <1>1, <1>4, <3>1, <4>1
    <3> HIDE DEF k
    <3>4. l[k] = list[m + k]
      BY <1>2, <3>3
    <3> QED
      BY <3>2, <3>3, <3>4 DEF k
  <2> QED
    BY <2>1, <2>2
<1> QED
  BY <1>1, <1>2, <1>3, <1>4, <1>6 DEF EndsIn, l, e

LEMMA AppendEndsIn ==
    ASSUME NEW list, IsSeq(list), NEW end, IsSeq(end), EndsIn(list, end), NEW x
    PROVE  EndsIn(Append(list, x), Append(end, x))
<1> DEFINE l == Append(list, x)
           e == Append(end, x)
<1>1. Len(list) \in Nat /\ Len(end) \in Nat /\ Len(end) <= Len(list)
  BY SeqDomain DEF EndsIn
<1>2. Len(l) = Len(list) + 1 /\ l[Len(list) + 1] = x /\ \A i \in 1..Len(list) : l[i] = list[i]
  BY AppendAnything
<1>3. Len(e) = Len(end) + 1 /\ e[Len(end) + 1] = x /\ \A i \in 1..Len(end) : e[i] = end[i]
  BY AppendAnything
<1>4. \A i \in 1..Len(end) : end[i] = list[Len(list) - Len(end) + i]
  BY DEF EndsIn
<1> HIDE DEF l, e
<1>5. \A i \in 1..Len(e) : e[i] = l[Len(l) - Len(e) + i]
  <2> TAKE i \in 1..Len(e)
  <2>1. CASE i = Len(e)
    BY <1>1, <1>2, <1>3, <2>1
  <2>2. CASE i # Len(e)
    <3>1. i \in 1..Len(end)
      BY <1>1, <1>3, <2>2
    <3> DEFINE k == Len(l) - Len(e) + i
    <3>2. k \in 1..Len(list) /\ k = Len(list) - Len(end) + i
      BY <1>1, <1>2, <1>3, <3>1
    <3> HIDE DEF k
    <3>3. e[i] = end[i] /\ l[k] = list[k]
      BY <1>2, <1>3, <3>1, <3>2
    <3> QED
      BY <1>4, <3>1, <3>2, <3>3 DEF k
  <2> QED
    BY <2>1, <2>2
<1> QED
  BY <1>1, <1>2, <1>3, <1>5 DEF EndsIn, l, e

\* Field by field, as TimingReducer_proofs has it.
LEMMA EffectOnField ==
    ASSUME NEW s, WellFormed(s), NEW event, NEW field \in Fields
    PROVE  Reduce(s, event)[field] = Effect(event, field, s[field])
<1>1. Reduce(s, event) = [f \in Fields |-> Effect(event, f, s[f])]
  BY ReduceByField DEF WellFormed
<1> QED
  BY <1>1

LEMMA SetOrKept ==
    ASSUME NEW field \in SetFields, NEW event, NEW v, NEW w
    PROVE  /\ event.event_type = SetBy(field) => Effect(event, field, v) = Effect(event, field, w)
           /\ event.event_type # SetBy(field) => Effect(event, field, v) = v
<1> DEFINE type == event.event_type
<1>1. CASE field = "session_info"
  <2>1. SetBy(field) = "SESSION_INFO"
    BY <1>1, Zenon DEF SetBy
  <2> QED
    BY <1>1, <2>1 DEF Effect
<1>2. CASE field = "session_status"
  <2>1. SetBy(field) = "SESSION_STATUS"
    BY <1>2 DEF SetBy
  <2> QED
    BY <1>2, <2>1 DEF Effect
<1>3. CASE field = "driver_list"
  <2>1. SetBy(field) = "DRIVER_LIST"
    BY <1>3 DEF SetBy
  <2> QED
    BY <1>3, <2>1 DEF Effect
<1> QED
  BY <1>1, <1>2, <1>3 DEF SetFields

LEMMA LapOrKept ==
    ASSUME NEW event, NEW v, NEW d
    PROVE  LET new == Effect(event, "latest_laps", v)
           IN  /\ HasLap(event, d) => d \in DOMAIN new /\ new[d] = event.payload[d]
               /\ ~HasLap(event, d) => /\ d \in DOMAIN new <=> d \in DOMAIN v
                                       /\ d \in DOMAIN v => new[d] = v[d]
<1>1. CASE event.event_type = "LAP_UPDATE"
  <2>1. Effect(event, "latest_laps", v) = Update(v, event.payload)
    BY <1>1 DEF Effect
  <2> QED
    BY <1>1, <2>1 DEF Update, HasLap
<1>2. CASE event.event_type # "LAP_UPDATE"
  <2>1. Effect(event, "latest_laps", v) = v
    BY <1>2 DEF Effect
  <2> QED
    BY <1>2, <2>1 DEF HasLap
<1> QED
  BY <1>1, <1>2

\* The laps of the service have no place.
LEMMA NoPlaceInEvents ==
    ASSUME NEW data, IsData(data), NEW dated, IsBuilt(data, dated), NEW v, DOMAIN v = {}
    PROVE  DOMAIN Effect(dated.event, "driver_positions", v) = {}
<1> DEFINE e == dated.event
<1>1. CASE e.event_type = "LAP_UPDATE"
  <2>1. PICK p \in DOMAIN laps_to_events(data.laps) : dated = laps_to_events(data.laps)[p]
    BY <1>1 DEF IsBuilt
  <2> DEFINE laps == LapsByDriver(data.laps)
  <2>2. e.payload = [d \in {DriverNumber(laps[p])} |->
                        [last_lap_time  |-> FormatLapTime(laps[p].duration),
                         best_lap_time  |-> RunningBest(laps, p),
                         number_of_laps |-> laps[p].number,
                         position       |-> None]]
    BY <2>1, LapEvents
  <2>3. \A d \in DOMAIN e.payload : e.payload[d].position = None
    BY <2>2
  <2>4. DOMAIN PositionsIn(e.payload) = {}
    BY <2>3, NoneAssumption DEF PositionsIn
  <2>5. Effect(e, "driver_positions", v) = Update(v, PositionsIn(e.payload))
    BY <1>1 DEF Effect
  <2> QED
    BY <2>4, <2>5 DEF Update
<1>2. CASE e.event_type # "LAP_UPDATE"
  <2>1. e.event_type # "POSITION_UPDATE"
    BY DEF IsBuilt
  <2>2. Effect(e, "driver_positions", v) = v
    BY <1>2, <2>1 DEF Effect
  <2> QED
    BY <2>2
<1> QED
  BY <1>1, <1>2

LEMMA ListEffects ==
    ASSUME NEW event, NEW v
    PROVE  /\ Effect(event, "race_control_messages", v) =
                  IF event.event_type = "RACE_CONTROL_MESSAGE" THEN Capped(Append(v, event.payload)) ELSE v
           /\ Effect(event, "pit_history", v) =
                  IF event.event_type = "PIT_STOP" THEN Append(v, event.payload) ELSE v
  BY DEF Effect

LEMMA StaysWellFormed ==
    ASSUME NEW s, WellFormed(s), NEW event PROVE WellFormed(Reduce(s, event))
<1> DEFINE t == Reduce(s, event)
<1>1. IsState(t)
  BY ReduceGivesState DEF WellFormed
<1>2. {"race_control_messages", "pit_history", "latest_laps"} \subseteq Fields
  BY DEF Fields
<1>3. /\ t.race_control_messages = Effect(event, "race_control_messages", s.race_control_messages)
      /\ t.pit_history = Effect(event, "pit_history", s.pit_history)
      /\ t.latest_laps = Effect(event, "latest_laps", s.latest_laps)
  BY <1>2, EffectOnField
<1> HIDE DEF t
<1>4. /\ IsSeq(s.race_control_messages) /\ Len(s.race_control_messages) <= RaceControlCap
      /\ IsSeq(s.pit_history)
      /\ s.latest_laps = [d \in DOMAIN s.latest_laps |-> s.latest_laps[d]]
  BY DEF WellFormed
<1>5. IsSeq(t.race_control_messages) /\ Len(t.race_control_messages) <= RaceControlCap
  <2> DEFINE v == s.race_control_messages
             capped == Capped(Append(v, event.payload))
  <2>1. /\ IsSeq(capped)
        /\ Len(capped) = Len(v) + 1 - (IF Len(v) = RaceControlCap THEN 1 ELSE 0)
    BY <1>4, CappedIs
  <2>2. Len(v) \in Nat /\ RaceControlCap \in Nat \ {0} /\ Len(v) <= RaceControlCap
    BY <1>4, SeqDomain, CapAssumption
  <2>3. t.race_control_messages = v \/ t.race_control_messages = capped
    BY <1>3, ListEffects
  <2> HIDE DEF v, capped
  <2>4. Len(capped) <= RaceControlCap
    BY <2>1, <2>2
  <2> QED
    BY <1>4, <2>1, <2>3, <2>4 DEF v
<1>6. IsSeq(t.pit_history)
  <2> DEFINE v == s.pit_history
             stop == event.payload
  <2>1. t.pit_history = v \/ t.pit_history = Append(v, stop)
    BY <1>3, ListEffects
  <2>2. IsSeq(v)
    BY <1>4
  <2> HIDE DEF v, stop
  <2>3. IsSeq(Append(v, stop))
    BY <2>2, AppendAnything
  <2> QED
    BY <2>1, <2>2, <2>3
<1>7. t.latest_laps = [d \in DOMAIN t.latest_laps |-> t.latest_laps[d]]
  <2>1. CASE event.event_type = "LAP_UPDATE"
    <3>1. t.latest_laps = Update(s.latest_laps, event.payload)
      BY <1>3, <2>1 DEF Effect
    <3> QED
      BY <3>1 DEF Update
  <2>2. CASE event.event_type # "LAP_UPDATE"
    <3>1. t.latest_laps = s.latest_laps
      BY <1>3, <2>2 DEF Effect
    <3> QED
      BY <1>4, <3>1
  <2> QED
    BY <2>1, <2>2
<1> QED
  BY <1>1, <1>5, <1>6, <1>7 DEF WellFormed, t

-----------------------------------------------------------------------------
(* The steps of a load. *)

LEMMA ServiceStays ==
    ASSUME [Next]_loaderVars PROVE service' = service /\ Built' = Built
<1>1. service' = service
  BY DEF Next, FindSession, LoadState, Responds, FetchFails, Fails, ReduceNext, AppendFails,
         ProjectPositions, loaderVars
<1> QED
  BY <1>1 DEF Built

LEMMA AnsweredStep ==
    ASSUME FetchTypes, Answered, [Next]_loaderVars PROVE Answered'
<1>1. service' = service
  BY ServiceStays
<1>2. CASE FindSession \/ Fails
  BY <1>2 DEF FindSession, Fails, Answered
<1>3. CASE LoadState
  BY <1>3 DEF LoadState, Answered
<1>4. CASE Responds
  <2>1. progress = "fetching" /\ ~NotFound /\ responses \in Nat
    BY <1>4, SixRequests DEF Responds, FetchTypes
  <2>2. CASE responses = 0
    BY <1>1, <2>1, <2>2, SixRequests DEF NotFound, Answered
  <2>3. CASE responses > 0
    BY <1>1, <2>1, <2>3 DEF Answered
  <2> QED
    BY <2>1, <2>2, <2>3
<1>5. CASE ReduceNext
  BY <1>5 DEF ReduceNext, fetchVars, Answered
<1>6. CASE ProjectPositions
  BY <1>6 DEF ProjectPositions, Answered
<1>7. CASE UNCHANGED loaderVars
  BY <1>7 DEF loaderVars, fetchVars, Answered
<1> QED
  BY <1>2, <1>3, <1>4, <1>5, <1>6, <1>7 DEF Next, FetchFails, AppendFails

\* From the events on, the session is there and so are they.
LEMMA EventsAreThere ==
    ASSUME service \in Sessions, FetchTypes, Answered, progress \in {"reducing", "loaded"}
    PROVE  /\ IsData(service)
           /\ AllBuilt(service, Built) /\ Len(Built) \in Nat /\ DOMAIN Built = 1..Len(Built)
           /\ \A i, j \in DOMAIN Built : i < j => Built[i].timestamp <= Built[j].timestamp
<1>1. service.session # None
  BY SixRequests DEF FetchTypes, Answered
<1> QED
  BY <1>1, BuiltIs DEF IsData

\* The event that ReduceNext and AppendFails come to is the next of those built.
LEMMA NextEvent ==
    ASSUME service \in Sessions, FetchTypes, Answered, QueueIsRest, progress = "reducing", queue # << >>
    PROVE  /\ Len(queue) \in Nat \ {0} /\ Done \in Nat /\ Done < Len(Built)
           /\ Head(queue) = Built[Done + 1] /\ IsBuilt(service, Head(queue))
           /\ IsSeq(Tail(queue)) /\ Len(Tail(queue)) = Len(queue) - 1
           /\ \A i \in 1..Len(queue) - 1 : Tail(queue)[i] = queue[i + 1]
<1>1. AllBuilt(service, Built) /\ Len(Built) \in Nat /\ DOMAIN Built = 1..Len(Built)
  BY EventsAreThere
<1>2. /\ IsSeq(queue) /\ Len(queue) <= Len(Built)
      /\ \A i \in 1..Len(queue) : queue[i] = Built[Done + i]
  BY DEF QueueIsRest
<1> DEFINE T == {queue[i] : i \in DOMAIN queue}
<1>3. queue \in Seq(T) /\ queue # << >>
  BY <1>2 DEF IsSeq
<1> HIDE DEF T
<1>4. /\ Len(queue) \in Nat \ {0} /\ Head(queue) = queue[1]
      /\ Tail(queue) \in Seq(T) /\ Len(Tail(queue)) = Len(queue) - 1
      /\ \A i \in 1..Len(queue) - 1 : Tail(queue)[i] = queue[i + 1]
  <2>1. Len(queue) \in Nat \ {0}
    BY <1>3, EmptySeq, LenProperties
  <2> QED
    BY <1>3, <2>1, HeadTailProperties
<1>5. Done \in Nat /\ Done < Len(Built)
  BY <1>1, <1>2, <1>4 DEF Done
<1>6. Head(queue) = Built[Done + 1] /\ Done + 1 \in DOMAIN Built
  BY <1>1, <1>2, <1>4, <1>5
<1> QED
  BY <1>1, <1>4, <1>5, <1>6, SeqIsSeq DEF AllBuilt

LEMMA QueueStep ==
    ASSUME service \in Sessions, FetchTypes, Answered, QueueIsRest, [Next]_loaderVars
    PROVE  QueueIsRest'
<1>1. Built' = Built
  BY ServiceStays
<1>2. IsSeq(<< >>)
  BY DEF IsSeq
<1>3. CASE progress' # "reducing"
  <2>1. CASE queue' = << >>
    BY <1>2, <1>3, <2>1 DEF QueueIsRest
  <2>2. CASE queue' # << >>
    <3>1. queue' = queue /\ progress # "reducing"
      BY <1>3, <2>2 DEF Next, FindSession, LoadState, Responds, SendNext, BeginToState, FetchFails,
                        Fails, ReduceNext, AppendFails, ProjectPositions, loaderVars, fetchVars
    <3> QED
      BY <1>3, <3>1 DEF QueueIsRest
  <2> QED
    BY <2>1, <2>2
<1>4. CASE Responds /\ progress' = "reducing"
  <2>1. queue' = Built /\ service' = service /\ progress = "fetching" /\ responses' = 6
    BY <1>4, SixRequests DEF Responds, SendNext, BeginToState, Built
  <2>2. FetchTypes' /\ Answered'
    <3>1. responses + 1 = 6 /\ responses' = responses + 1 /\ ~NotFound
      BY <1>4, <2>1 DEF Responds
    <3>2. FetchTypes'
      BY <1>4, <2>1, EmptyHasNone, SixRequests DEF Responds, SendNext, BeginToState, FetchTypes
    <3> QED
      BY <3>2, AnsweredStep
  <2>3. AllBuilt(service, Built) /\ Len(Built) \in Nat
    <3>1. service.session # None
      BY <1>4, <2>1, <2>2 DEF Answered
    <3> QED
      BY <3>1, BuiltIs
  <2>4. Done' = 0
    BY <1>1, <2>1, <2>3 DEF Done
  <2>5. \A i \in 1..Len(Built) : Built[i] = Built[0 + i]
    BY <2>3
  <2> QED
    BY <1>1, <1>4, <2>1, <2>3, <2>4, <2>5 DEF QueueIsRest, AllBuilt
<1>5. CASE ReduceNext
  <2>1. progress = "reducing" /\ queue # << >> /\ progress' = progress /\ queue' = Tail(queue)
    BY <1>5 DEF ReduceNext, fetchVars
  <2>2. /\ Len(queue) \in Nat \ {0} /\ Done \in Nat
        /\ IsSeq(queue') /\ Len(queue') = Len(queue) - 1
        /\ \A i \in 1..Len(queue) - 1 : queue'[i] = queue[i + 1]
    BY <2>1, NextEvent
  <2>3. Len(Built) \in Nat
    BY <2>1, EventsAreThere
  <2>4. /\ Len(queue) <= Len(Built)
        /\ \A i \in 1..Len(queue) : queue[i] = Built[Done + i]
    BY <2>1 DEF QueueIsRest
  <2>5. Done' = Done + 1
    BY <1>1, <2>2, <2>3 DEF Done
  <2>6. \A i \in 1..Len(queue') : queue'[i] = Built[Done' + i]
    <3> TAKE i \in 1..Len(queue')
    <3>1. i + 1 \in 1..Len(queue) /\ Done' + i = Done + (i + 1) /\ i \in 1..Len(queue) - 1
      BY <2>2, <2>5
    <3> QED
      BY <2>2, <2>4, <3>1
  <2> QED
    BY <1>1, <2>1, <2>2, <2>3, <2>4, <2>6 DEF QueueIsRest
<1>6. CASE UNCHANGED loaderVars
  BY <1>1, <1>6 DEF loaderVars, fetchVars, QueueIsRest, Done
<1> QED
  BY <1>3, <1>4, <1>5, <1>6 DEF Next, FindSession, LoadState, FetchFails, AppendFails, Fails, ProjectPositions

\* What is left of a sorted list is sorted.
LEMMA QueueSorted ==
    ASSUME service \in Sessions, FetchTypes, Answered, QueueIsRest
    PROVE  \A i, j \in DOMAIN queue : i < j => queue[i].timestamp <= queue[j].timestamp
<1>1. CASE progress # "reducing"
  <2>1. queue = << >>
    BY <1>1 DEF QueueIsRest
  <2> QED
    BY <2>1
<1>2. CASE progress = "reducing"
  <2>1. /\ Len(Built) \in Nat /\ DOMAIN Built = 1..Len(Built)
        /\ \A i, j \in DOMAIN Built : i < j => Built[i].timestamp <= Built[j].timestamp
    BY <1>2, EventsAreThere
  <2>2. /\ DOMAIN queue = 1..Len(queue) /\ Len(queue) \in Nat /\ Len(queue) <= Len(Built)
        /\ \A i \in 1..Len(queue) : queue[i] = Built[Done + i]
    BY <1>2, SeqDomain DEF QueueIsRest
  <2> SUFFICES ASSUME NEW i \in DOMAIN queue, NEW j \in DOMAIN queue, i < j
               PROVE  queue[i].timestamp <= queue[j].timestamp
    OBVIOUS
  <2>3. Done \in Nat /\ Done + i \in DOMAIN Built /\ Done + j \in DOMAIN Built /\ Done + i < Done + j
    BY <2>1, <2>2 DEF Done
  <2>4. queue[i] = Built[Done + i] /\ queue[j] = Built[Done + j]
    BY <2>2
  <2> QED
    BY <2>1, <2>3, <2>4
<1> QED
  BY <1>1, <1>2

\* The store is extended by the next event or not at all.
LEMMA StoreChanges ==
    ASSUME [Next]_loaderVars
    PROVE  \/ replayed' = replayed
           \/ /\ progress = "reducing" /\ queue # << >> /\ ~torn
              /\ replayed' = Reduce(replayed, Head(queue).event)
<1>1. CASE ReduceNext \/ AppendFails
  BY <1>1 DEF ReduceNext, AppendFails, WriteLine, storeVars
<1>2. CASE ~(ReduceNext \/ AppendFails)
  BY <1>2 DEF Next, FindSession, LoadState, Responds, FetchFails, ProjectPositions, loaderVars, storeVars
<1> QED
  BY <1>1, <1>2

\* The state is built from the events of this load.
LEMMA StateChanges ==
    ASSUME [Next]_loaderVars
    PROVE  \/ state' = state \/ state' = initial_state
           \/ progress = "reducing" /\ queue # << >> /\ state' = Reduce(state, Head(queue).event)
           \/ \E positions : state' = [state EXCEPT !.driver_positions = positions]
<1>1. CASE ProjectPositions
  BY <1>1 DEF ProjectPositions
<1>2. CASE ReduceNext
  BY <1>2 DEF ReduceNext
<1>3. CASE ~(ReduceNext \/ ProjectPositions)
  BY <1>3 DEF Next, FindSession, LoadState, Responds, SendNext, BeginToState, FetchFails, AppendFails,
              Fails, loaderVars
<1> QED
  BY <1>1, <1>2, <1>3

LEMMA ExceptPlaces ==
    ASSUME NEW s, WellFormed(s), NEW positions
    PROVE  LET t == [s EXCEPT !.driver_positions = positions]
           IN  /\ WellFormed(t) /\ t.driver_positions = positions
               /\ \A field \in Fields \ {"driver_positions"} : t[field] = s[field]
<1> DEFINE t == [s EXCEPT !.driver_positions = positions]
<1>1. DOMAIN s = Fields
  BY FieldsOf
<1>2. /\ t = [field \in Fields |-> IF field = "driver_positions" THEN positions ELSE s[field]]
  BY <1>1
<1>3. t.driver_positions = positions /\ \A field \in Fields \ {"driver_positions"} : t[field] = s[field]
  BY <1>2 DEF Fields
<1>4. IsState(t)
  BY <1>2 DEF IsState
<1> HIDE DEF t
<1>5. {"race_control_messages", "pit_history", "latest_laps"} \subseteq Fields \ {"driver_positions"}
  BY DEF Fields
<1>6. /\ t.race_control_messages = s.race_control_messages
      /\ t.pit_history = s.pit_history /\ t.latest_laps = s.latest_laps
  BY <1>3, <1>5
<1>7. WellFormed(t)
  BY <1>4, <1>6 DEF WellFormed
<1> QED
  BY <1>3, <1>7 DEF t

LEMMA StatesStep ==
    ASSUME WellFormed(state), WellFormed(replayed), [Next]_loaderVars
    PROVE  WellFormed(state)' /\ WellFormed(replayed)'
<1>1. WellFormed(replayed')
  BY StoreChanges, StaysWellFormed
<1>2. WellFormed(state')
  <2>1. CASE state' = state \/ state' = initial_state
    BY <2>1, Initially
  <2>2. CASE state' = Reduce(state, Head(queue).event)
    BY <2>2, StaysWellFormed
  <2>3. ASSUME NEW positions, state' = [state EXCEPT !.driver_positions = positions]
        PROVE  WellFormed(state')
    BY <2>3, ExceptPlaces
  <2> QED
    BY <2>1, <2>2, <2>3, StateChanges
<1> QED
  BY <1>1, <1>2

LEMMA PlacesStep ==
    ASSUME service \in Sessions, FetchTypes, Answered, QueueIsRest,
           WellFormed(state), NoPlacesYet, [Next]_loaderVars
    PROVE  NoPlacesYet'
<1>1. DOMAIN initial_state.driver_positions = {}
  BY EmptyHasNone DEF initial_state
<1>2. CASE FindSession \/ LoadState \/ Fails
  BY <1>2 DEF FindSession, LoadState, Fails, NoPlacesYet
<1>3. CASE Responds
  <2>1. state' = state /\ progress = "fetching"
    BY <1>3 DEF Responds, SendNext, BeginToState
  <2> QED
    BY <1>1, <2>1 DEF NoPlacesYet
<1>4. CASE ReduceNext
  <2>1. progress = "reducing" /\ queue # << >> /\ progress' = progress
        /\ state' = Reduce(state, Head(queue).event)
    BY <1>4 DEF ReduceNext, fetchVars
  <2>2. IsData(service) /\ IsBuilt(service, Head(queue))
    BY <2>1, EventsAreThere, NextEvent
  <2>3. DOMAIN state.driver_positions = {}
    BY <2>1 DEF NoPlacesYet
  <2>4. state'.driver_positions = Effect(Head(queue).event, "driver_positions", state.driver_positions)
    <3>1. "driver_positions" \in Fields
      BY DEF Fields
    <3> QED
      BY <2>1, <3>1, EffectOnField
  <2>5. DOMAIN state'.driver_positions = {}
    BY <2>2, <2>3, <2>4, NoPlaceInEvents
  <2> QED
    BY <2>1, <2>5 DEF NoPlacesYet
<1>5. CASE ProjectPositions
  BY <1>5 DEF ProjectPositions, NoPlacesYet
<1>6. CASE UNCHANGED loaderVars
  BY <1>6 DEF loaderVars, fetchVars, NoPlacesYet
<1> QED
  BY <1>2, <1>3, <1>4, <1>5, <1>6 DEF Next, FetchFails, AppendFails

LEMMA PlacesStoredStep ==
    ASSUME service \in Sessions, FetchTypes, Answered, QueueIsRest,
           WellFormed(replayed), NoPlacesStored, [Next]_loaderVars
    PROVE  NoPlacesStored'
<1>1. CASE replayed' = replayed
  BY <1>1 DEF NoPlacesStored
<1>2. CASE /\ progress = "reducing" /\ queue # << >>
           /\ replayed' = Reduce(replayed, Head(queue).event)
  <2>1. IsData(service) /\ IsBuilt(service, Head(queue))
    BY <1>2, EventsAreThere, NextEvent
  <2>2. replayed'.driver_positions = Effect(Head(queue).event, "driver_positions", replayed.driver_positions)
    <3>1. "driver_positions" \in Fields
      BY DEF Fields
    <3> QED
      BY <1>2, <3>1, EffectOnField
  <2>3. DOMAIN replayed'.driver_positions = {}
    BY <2>1, <2>2, NoPlaceInEvents DEF NoPlacesStored
  <2> QED
    BY <2>3 DEF NoPlacesStored
<1> QED
  BY <1>1, <1>2, StoreChanges

LEMMA StoredStep ==
    ASSUME service \in Sessions, FetchTypes, Answered, QueueIsRest,
           WellFormed(replayed), StoredBefore, [Next]_loaderVars
    PROVE  StoredBefore'
<1>1. Built' = Built
  BY ServiceStays
<1>2. CASE replayed' = replayed
  BY <1>1, <1>2 DEF StoredBefore
<1>3. CASE progress = "reducing" /\ queue # << >> /\ replayed' = Reduce(replayed, Head(queue).event)
  <2> DEFINE event == Head(queue).event
  <2>1. Done + 1 \in DOMAIN Built /\ Built[Done + 1].event = event
    <3>1. Done \in Nat /\ Done < Len(Built) /\ Head(queue) = Built[Done + 1]
      BY <1>3, NextEvent
    <3>2. DOMAIN Built = 1..Len(Built) /\ Len(Built) \in Nat
      BY <1>3, EventsAreThere
    <3> QED
      BY <3>1, <3>2
  <2> HIDE DEF event
  <2>2. \A field \in Fields : replayed'[field] = Effect(event, field, replayed[field])
    BY <1>3, EffectOnField DEF event
  <2>3. ASSUME NEW field \in SetFields, replayed'[field] # initial_state[field]
        PROVE  \E i \in DOMAIN Built : Built[i].event.event_type = SetBy(field)
    <3>1. field \in Fields
      BY DEF SetFields, Fields
    <3>2. CASE event.event_type = SetBy(field)
      BY <2>1, <3>2
    <3>3. CASE event.event_type # SetBy(field)
      <4>1. replayed'[field] = replayed[field]
        BY <2>2, <3>1, <3>3, SetOrKept
      <4> QED
        BY <2>3, <4>1 DEF StoredBefore
    <3> QED
      BY <3>2, <3>3
  <2>4. ASSUME NEW d \in DOMAIN replayed'.latest_laps
        PROVE  \E i \in DOMAIN Built : HasLap(Built[i].event, d)
    <3>1. replayed'.latest_laps = Effect(event, "latest_laps", replayed.latest_laps)
      <4>1. "latest_laps" \in Fields
        BY DEF Fields
      <4> QED
        BY <2>2, <4>1
    <3>2. CASE HasLap(event, d)
      BY <2>1, <3>2
    <3>3. CASE ~HasLap(event, d)
      <4>1. d \in DOMAIN replayed.latest_laps
        BY <3>1, <3>3, LapOrKept
      <4> QED
        BY <4>1 DEF StoredBefore
    <3> QED
      BY <3>2, <3>3
  <2> QED
    BY <1>1, <2>3, <2>4 DEF StoredBefore
<1> QED
  BY <1>2, <1>3, StoreChanges

\* Of an event that both come to, the state and a replay keep the same.
LEMMA RetainedReduce ==
    ASSUME service \in Sessions, FetchTypes, Answered, QueueIsRest,
           WellFormed(state), WellFormed(replayed), Retained, ReduceNext,
           keeping', ~lost'
    PROVE  Retained'
<1> DEFINE event == Head(queue).event
           rest == Tail(queue)
<1>1. /\ progress = "reducing" /\ queue # << >> /\ queue' = rest /\ progress' = progress
      /\ keeping' = keeping /\ state' = Reduce(state, event)
      /\ IF keeping THEN WriteLine(event) ELSE UNCHANGED storeVars
  BY DEF ReduceNext, fetchVars
<1>2. keeping /\ ~lost /\ replayed' = Reduce(replayed, event)
  BY <1>1 DEF WriteLine, storeVars
<1>3. /\ Len(queue) \in Nat \ {0} /\ IsSeq(rest) /\ Len(rest) = Len(queue) - 1
      /\ \A i \in 1..Len(queue) - 1 : rest[i] = queue[i + 1]
      /\ event = queue[1].event
  <2>1. Head(queue) = queue[1]
    <3>1. queue \in Seq({queue[i] : i \in DOMAIN queue})
      BY DEF QueueIsRest, IsSeq
    <3> QED
      BY <1>1, <3>1, HeadTailProperties
  <2> QED
    BY <1>1, <2>1, NextEvent
<1>4. DOMAIN queue = 1..Len(queue) /\ DOMAIN rest = 1..Len(rest)
  BY <1>3, SeqDomain DEF QueueIsRest
<1>5. /\ \A field \in SetFields :
             \/ replayed[field] = state[field]
             \/ \E i \in DOMAIN queue : queue[i].event.event_type = SetBy(field)
      /\ \A d \in DOMAIN state.latest_laps \cup DOMAIN replayed.latest_laps :
             SameLap(d) \/ \E i \in DOMAIN queue : HasLap(queue[i].event, d)
      /\ EndsIn(replayed.race_control_messages, state.race_control_messages)
      /\ EndsIn(replayed.pit_history, state.pit_history)
  BY <1>1, <1>2 DEF Retained
<1> HIDE DEF event, rest
<1>6. \A field \in Fields :
         /\ state'[field] = Effect(event, field, state[field])
         /\ replayed'[field] = Effect(event, field, replayed[field])
  BY <1>1, <1>2, EffectOnField
<1>7. {"race_control_messages", "pit_history", "latest_laps"} \cup SetFields \subseteq Fields
  BY DEF Fields, SetFields
<1>8. ASSUME NEW field \in SetFields
      PROVE  \/ replayed'[field] = state'[field]
             \/ \E i \in DOMAIN rest : rest[i].event.event_type = SetBy(field)
  <2>1. CASE event.event_type = SetBy(field)
    BY <1>6, <1>7, <2>1, SetOrKept
  <2>2. CASE event.event_type # SetBy(field)
    <3>1. replayed'[field] = replayed[field] /\ state'[field] = state[field]
      BY <1>6, <1>7, <2>2, SetOrKept
    <3>2. CASE replayed[field] = state[field]
      BY <3>1, <3>2
    <3>3. CASE \E i \in DOMAIN queue : queue[i].event.event_type = SetBy(field)
      <4>1. PICK i \in DOMAIN queue : queue[i].event.event_type = SetBy(field)
        BY <3>3
      <4>2. i - 1 \in DOMAIN rest /\ i - 1 \in 1..Len(queue) - 1 /\ (i - 1) + 1 = i
        <5>1. i # 1
          BY <1>3, <2>2, <4>1
        <5> QED
          BY <1>3, <1>4, <5>1
      <4>3. rest[i - 1] = queue[i]
        BY <1>3, <4>2
      <4> QED
        BY <4>1, <4>2, <4>3
    <3> QED
      BY <1>5, <3>2, <3>3
  <2> QED
    BY <2>1, <2>2
<1>9. ASSUME NEW d \in DOMAIN state'.latest_laps \cup DOMAIN replayed'.latest_laps
      PROVE  SameLap(d)' \/ \E i \in DOMAIN rest : HasLap(rest[i].event, d)
  <2>1. /\ state'.latest_laps = Effect(event, "latest_laps", state.latest_laps)
        /\ replayed'.latest_laps = Effect(event, "latest_laps", replayed.latest_laps)
    BY <1>6, <1>7
  <2>2. CASE HasLap(event, d)
    <3>1. /\ d \in DOMAIN state'.latest_laps /\ state'.latest_laps[d] = event.payload[d]
          /\ d \in DOMAIN replayed'.latest_laps /\ replayed'.latest_laps[d] = event.payload[d]
      BY <2>1, <2>2, LapOrKept
    <3> QED
      BY <3>1 DEF SameLap
  <2>3. CASE ~HasLap(event, d)
    <3>1. /\ d \in DOMAIN state'.latest_laps <=> d \in DOMAIN state.latest_laps
          /\ d \in DOMAIN state.latest_laps => state'.latest_laps[d] = state.latest_laps[d]
          /\ d \in DOMAIN replayed'.latest_laps <=> d \in DOMAIN replayed.latest_laps
          /\ d \in DOMAIN replayed.latest_laps => replayed'.latest_laps[d] = replayed.latest_laps[d]
      BY <2>1, <2>3, LapOrKept
    <3>2. CASE SameLap(d)
      BY <3>1, <3>2 DEF SameLap
    <3>3. CASE \E i \in DOMAIN queue : HasLap(queue[i].event, d)
      <4>1. PICK i \in DOMAIN queue : HasLap(queue[i].event, d)
        BY <3>3
      <4>2. i - 1 \in DOMAIN rest /\ i - 1 \in 1..Len(queue) - 1 /\ (i - 1) + 1 = i
        <5>1. i # 1
          BY <1>3, <2>3, <4>1
        <5> QED
          BY <1>3, <1>4, <5>1
      <4>3. rest[i - 1] = queue[i]
        BY <1>3, <4>2
      <4> QED
        BY <4>1, <4>2, <4>3
    <3> QED
      BY <1>5, <3>1, <3>2, <3>3
  <2> QED
    BY <2>2, <2>3
<1>10. EndsIn(replayed'.race_control_messages, state'.race_control_messages)
  <2> DEFINE r == replayed.race_control_messages
             s == state.race_control_messages
             message == event.payload
  <2>1. IsSeq(r) /\ IsSeq(s) /\ Len(r) <= RaceControlCap /\ EndsIn(r, s)
    BY <1>5 DEF WellFormed
  <2>2. \/ replayed'.race_control_messages = r /\ state'.race_control_messages = s
        \/ /\ replayed'.race_control_messages = Capped(Append(r, message))
           /\ state'.race_control_messages = Capped(Append(s, message))
    BY <1>6, <1>7, ListEffects
  <2> HIDE DEF r, s, message
  <2>3. EndsIn(Capped(Append(r, message)), Capped(Append(s, message)))
    BY <2>1, CappedEndsIn
  <2> QED
    BY <2>1, <2>2, <2>3
<1>11. EndsIn(replayed'.pit_history, state'.pit_history)
  <2> DEFINE r == replayed.pit_history
             s == state.pit_history
             stop == event.payload
  <2>1. IsSeq(r) /\ IsSeq(s) /\ EndsIn(r, s)
    BY <1>5 DEF WellFormed
  <2>2. \/ replayed'.pit_history = r /\ state'.pit_history = s
        \/ replayed'.pit_history = Append(r, stop) /\ state'.pit_history = Append(s, stop)
    BY <1>6, <1>7, ListEffects
  <2> HIDE DEF r, s, stop
  <2>3. EndsIn(Append(r, stop), Append(s, stop))
    BY <2>1, AppendEndsIn
  <2> QED
    BY <2>1, <2>2, <2>3
<1> QED
  BY <1>1, <1>8, <1>9, <1>10, <1>11 DEF Retained

LEMMA RetainedStep ==
    ASSUME service \in Sessions, FetchTypes, Answered, QueueIsRest, WellFormed(state),
           WellFormed(replayed), NoPlacesYet, StoredBefore, Retained, [Next]_loaderVars
    PROVE  Retained'
<1> SUFFICES ASSUME progress' \in {"reducing", "loaded"}, keeping', ~lost'
             PROVE  Retained'
  BY DEF Retained
<1>1. CASE Responds
  <2>1. /\ progress = "fetching" /\ queue' = Built /\ state' = state /\ replayed' = replayed
    BY <1>1 DEF Responds, SendNext, BeginToState, storeVars, Built
  <2>2. state' = initial_state
    BY <2>1 DEF NoPlacesYet
  <2>3. \A field \in SetFields :
           \/ replayed'[field] = state'[field]
           \/ \E i \in DOMAIN queue' : queue'[i].event.event_type = SetBy(field)
    BY <2>1, <2>2 DEF StoredBefore
  <2>4. \A d \in DOMAIN state'.latest_laps \cup DOMAIN replayed'.latest_laps :
           \E i \in DOMAIN queue' : HasLap(queue'[i].event, d)
    <3>1. DOMAIN state'.latest_laps = {}
      BY <2>2, EmptyHasNone DEF initial_state
    <3> QED
      BY <2>1, <3>1 DEF StoredBefore
  <2>5. /\ state'.race_control_messages = << >> /\ state'.pit_history = << >>
        /\ IsSeq(replayed'.race_control_messages) /\ IsSeq(replayed'.pit_history)
    BY <2>1, <2>2 DEF initial_state, WellFormed
  <2>6. \A list : IsSeq(list) => EndsIn(list, << >>)
    BY SeqDomain DEF EndsIn
  <2> QED
    BY <2>3, <2>4, <2>5, <2>6 DEF Retained
<1>2. CASE ReduceNext
  BY <1>2, RetainedReduce
<1>3. CASE ProjectPositions
  <2>1. /\ progress = "reducing" /\ keeping' = keeping /\ lost' = lost /\ queue' = queue
        /\ replayed' = replayed
        /\ state' = state \/ \E positions : state' = [state EXCEPT !.driver_positions = positions]
    BY <1>3 DEF ProjectPositions, storeVars
  <2>2. \A field \in Fields \ {"driver_positions"} : state'[field] = state[field]
    BY <2>1, ExceptPlaces
  <2>3. {"race_control_messages", "pit_history", "latest_laps"} \cup SetFields
           \subseteq Fields \ {"driver_positions"}
    BY DEF Fields, SetFields
  <2>4. /\ \A field \in SetFields : state'[field] = state[field]
        /\ state'.race_control_messages = state.race_control_messages
        /\ state'.pit_history = state.pit_history /\ state'.latest_laps = state.latest_laps
    BY <2>2, <2>3
  <2> QED
    BY <2>1, <2>4 DEF Retained, SameLap
<1>4. CASE UNCHANGED loaderVars
  BY <1>4 DEF loaderVars, fetchVars, storeVars, Retained, SameLap
<1> QED
  BY <1>1, <1>2, <1>3, <1>4 DEF Next, FindSession, LoadState, FetchFails, AppendFails, Fails

LEMMA LapsStep ==
    ASSUME service \in Sessions, FetchTypes, Answered, QueueIsRest, WellFormed(state),
           LastLapShown, [Next]_loaderVars
    PROVE  LastLapShown'
<1>1. Built' = Built
  BY ServiceStays
<1> SUFFICES ASSUME progress' \in {"reducing", "loaded"} PROVE LastLapShown'
  BY DEF LastLapShown
<1>2. CASE Responds
  <2>1. queue' = Built /\ service' = service /\ progress' = "reducing" /\ responses' = 6
    BY <1>2, SixRequests DEF Responds, SendNext, BeginToState, Built
  <2>2. Answered' /\ service.session # None
    <3>1. Answered'
      BY AnsweredStep
    <3> QED
      BY <2>1, <3>1 DEF Answered
  <2>3. Len(Built) \in Nat
    BY <2>2, BuiltIs
  <2>4. Done' = 0
    BY <1>1, <2>1, <2>3 DEF Done
  <2> QED
    BY <2>4 DEF LastLapShown
<1>3. CASE ReduceNext
  <2> DEFINE event == Head(queue).event
  <2>1. progress = "reducing" /\ queue # << >> /\ queue' = Tail(queue)
        /\ state' = Reduce(state, event)
    BY <1>3 DEF ReduceNext
  <2>2. /\ Len(queue) \in Nat \ {0} /\ Done \in Nat /\ Done < Len(Built)
        /\ Built[Done + 1].event = event /\ Len(queue') = Len(queue) - 1
    BY <2>1, NextEvent
  <2>3. Len(Built) \in Nat
    BY <2>1, EventsAreThere
  <2>4. Done' = Done + 1
    BY <1>1, <2>2, <2>3 DEF Done
  <2> HIDE DEF event
  <2>5. state'.latest_laps = Effect(event, "latest_laps", state.latest_laps)
    <3>1. "latest_laps" \in Fields
      BY DEF Fields
    <3> QED
      BY <2>1, <3>1, EffectOnField
  <2> SUFFICES ASSUME NEW d \in Driver \cup {"None"}, NEW i \in 1..Done + 1, HasLap(Built[i].event, d)
               PROVE  /\ d \in DOMAIN state'.latest_laps
                      /\ \E j \in i..Done + 1 :
                             /\ HasLap(Built[j].event, d)
                             /\ \A k \in j + 1..Done + 1 : ~HasLap(Built[k].event, d)
                             /\ state'.latest_laps[d] = Built[j].event.payload[d]
    BY <1>1, <2>4 DEF LastLapShown
  <2>6. CASE HasLap(event, d)
    <3>1. d \in DOMAIN state'.latest_laps /\ state'.latest_laps[d] = event.payload[d]
      BY <2>5, <2>6, LapOrKept
    <3>2. Done + 1 \in i..Done + 1 /\ \A k \in (Done + 1) + 1..Done + 1 : FALSE
      BY <2>2
    <3> QED
      BY <2>2, <2>6, <3>1, <3>2
  <2>7. CASE ~HasLap(event, d)
    <3>1. i \in 1..Done
      BY <2>2, <2>7
    <3>2. d \in DOMAIN state.latest_laps
      BY <2>1, <3>1 DEF LastLapShown
    <3>3. PICK j \in i..Done :
             /\ HasLap(Built[j].event, d)
             /\ \A k \in j + 1..Done : ~HasLap(Built[k].event, d)
             /\ state.latest_laps[d] = Built[j].event.payload[d]
      BY <2>1, <3>1 DEF LastLapShown
    <3>4. d \in DOMAIN state'.latest_laps /\ state'.latest_laps[d] = state.latest_laps[d]
      BY <2>5, <2>7, <3>2, LapOrKept
    <3>5. \A k \in j + 1..Done + 1 : ~HasLap(Built[k].event, d)
      <4> TAKE k \in j + 1..Done + 1
      <4>1. k = Done + 1 \/ k \in j + 1..Done
        BY <2>2
      <4> QED
        BY <2>2, <2>7, <3>3, <4>1
    <3>6. j \in i..Done + 1
      BY <2>2
    <3> QED
      BY <3>3, <3>4, <3>5, <3>6
  <2> QED
    BY <2>6, <2>7
<1>4. CASE ProjectPositions
  <2>1. /\ progress = "reducing" /\ queue' = queue
        /\ state' = state \/ \E positions : state' = [state EXCEPT !.driver_positions = positions]
    BY <1>4 DEF ProjectPositions
  <2>2. state'.latest_laps = state.latest_laps
    <3>1. "latest_laps" \in Fields \ {"driver_positions"}
      BY DEF Fields
    <3> QED
      BY <2>1, <3>1, ExceptPlaces
  <2>3. Done' = Done
    BY <1>1, <2>1 DEF Done
  <2> QED
    BY <1>1, <2>1, <2>2, <2>3 DEF LastLapShown
<1>5. CASE UNCHANGED loaderVars
  <2>1. progress' = progress /\ state' = state /\ Done' = Done
    BY <1>1, <1>5 DEF loaderVars, fetchVars, Done
  <2> QED
    BY <1>1, <2>1 DEF LastLapShown
<1> QED
  BY <1>2, <1>3, <1>4, <1>5 DEF Next, FindSession, LoadState, FetchFails, AppendFails, Fails

-----------------------------------------------------------------------------
(* The places. *)

LEMMA Largest ==
    ASSUME NEW S \in SUBSET Nat, IsFiniteSet(S), S # {}
    PROVE  Max(S) \in S /\ \A k \in S : k <= Max(S)
<1> DEFINE key == [i \in S |-> i]
           n == Cardinality(S)
           rank == Ranked(S, key)
<1>1. \A i \in S : key[i] = i /\ key[i] \in Nat
  OBVIOUS
<1> HIDE DEF key
<1>2. /\ n \in Nat /\ rank \in [1..n -> S]
      /\ \A i \in S : \E a \in 1..n : rank[a] = i
      /\ \A a, b \in 1..n : a < b => Precedes(key, rank[a], rank[b])
  BY <1>1, Ranking DEF n, rank
<1>3. \A i, j \in S : Precedes(key, i, j) => i <= j
  BY <1>1 DEF Precedes
<1> HIDE DEF rank, n
<1>4. PICK last \in 1..n : last = n
  <2>1. PICK i \in S : TRUE
    OBVIOUS
  <2>2. PICK a \in 1..n : rank[a] = i
    BY <1>2
  <2> QED
    BY <1>2, <2>2
<1>5. \A i \in S : i <= rank[last]
  <2> TAKE i \in S
  <2>1. PICK a \in 1..n : rank[a] = i
    BY <1>2
  <2>2. CASE a = last
    BY <1>2, <2>1, <2>2
  <2>3. CASE a < last
    BY <1>2, <1>3, <2>1, <2>3
  <2> QED
    BY <1>4, <2>2, <2>3
<1>6. \E m \in S : \A k \in S : m >= k
  BY <1>2, <1>5
<1>7. Max(S) \in S /\ \A k \in S : Max(S) >= k
  BY <1>6, Zenon DEF Max
<1> QED
  BY <1>7

PlaceRecord == [driver : Driver \cup {None, Absent}, position : Number, date : Number]

\* Each driver's place is that of a newest record.
LEMMA FinalPlaces ==
    ASSUME NEW records \in Seq(PlaceRecord)
    PROVE  LET usable == {i \in DOMAIN records : HasPlace(records[i])}
               places == final_positions(records)
           IN  /\ DOMAIN places = {DriverNumber(records[i]) : i \in usable}
               /\ \A d \in DOMAIN places : \E i \in usable :
                      /\ DriverNumber(records[i]) = d /\ records[i].position = places[d]
                      /\ \A j \in usable : DriverNumber(records[j]) = d => records[j].date <= records[i].date
<1> DEFINE usable == {i \in DOMAIN records : HasPlace(records[i])}
           Mine(d) == {i \in usable : DriverNumber(records[i]) = d}
           Newest(d) == Max({records[i].date : i \in Mine(d)})
           places == final_positions(records)
<1>1. places = [d \in {DriverNumber(records[i]) : i \in usable} |->
                   records[Min({i \in Mine(d) : records[i].date = Newest(d)})].position]
  BY DEF final_positions
<1>2. IsSeq(records) /\ \A i \in DOMAIN records : records[i] \in PlaceRecord
  BY SeqIsSeq, ElementOfSeq, LenProperties
<1>3. usable \in SUBSET Nat /\ IsFiniteSet(usable)
  BY <1>2, ListIndices
<1>4. \A i \in usable : records[i].date \in Nat
  BY <1>2 DEF PlaceRecord, Number, HasPlace
<1>5. ASSUME NEW d, Mine(d) # {}
      PROVE  LET best == {i \in Mine(d) : records[i].date = Newest(d)}
             IN  /\ Min(best) \in usable /\ DriverNumber(records[Min(best)]) = d
                 /\ \A j \in usable : DriverNumber(records[j]) = d => records[j].date <= records[Min(best)].date
  <2> DEFINE mine == Mine(d)
             dates == {records[i].date : i \in mine}
             best == {i \in mine : records[i].date = Max(dates)}
  <2>1. mine \in SUBSET usable
    OBVIOUS
  <2> HIDE DEF usable
  <2>2. dates \in SUBSET Nat /\ dates # {}
    BY <1>4, <1>5, <2>1
  <2>3. IsFiniteSet(dates)
    <3>1. IsFiniteSet(mine)
      BY <1>3, <2>1, FS_Subset
    <3> DEFINE dateOf == [i \in mine |-> records[i].date]
    <3>2. dateOf \in Surjection(mine, dates)
      BY DEF Surjection
    <3> HIDE DEF dateOf, mine, dates
    <3> QED
      BY <3>1, <3>2, FS_Surjection
  <2>4. Max(dates) \in dates /\ \A k \in dates : k <= Max(dates)
    <3> HIDE DEF dates
    <3> QED
      BY <2>2, <2>3, Largest
  <2>5. best \in SUBSET Nat /\ best # {}
    BY <1>3, <2>1, <2>4
  <2>6. Min(best) \in best
    <3> HIDE DEF best
    <3> QED
      BY <2>5, Smallest
  <2>7. \A j \in mine : records[j].date <= records[Min(best)].date
    BY <2>4, <2>6
  <2> QED
    BY <2>1, <2>6, <2>7
<1>6. ASSUME NEW d \in DOMAIN places
      PROVE  \E i \in usable :
                /\ DriverNumber(records[i]) = d /\ records[i].position = places[d]
                /\ \A j \in usable : DriverNumber(records[j]) = d => records[j].date <= records[i].date
  <2>1. \E i \in usable : DriverNumber(records[i]) = d
    BY <1>1
  <2>2. Mine(d) # {}
    BY <2>1
  <2> DEFINE first == Min({i \in Mine(d) : records[i].date = Newest(d)})
  <2>3. /\ first \in usable /\ DriverNumber(records[first]) = d
        /\ \A j \in usable : DriverNumber(records[j]) = d => records[j].date <= records[first].date
    BY <1>5, <2>2
  <2>4. places[d] = records[first].position
    BY <1>1
  <2> HIDE DEF first, usable, places
  <2> QED
    BY <2>3, <2>4
<1>7. DOMAIN places = {DriverNumber(records[i]) : i \in usable}
  BY <1>1
<1> QED
  BY <1>6, <1>7

\* The projection is of the records, and before it there are no places.
LEMMA PlacesShownStep ==
    ASSUME service \in Sessions, FetchTypes, Answered, WellFormed(state), NoPlacesYet,
           PlacesShown, [Next]_loaderVars
    PROVE  PlacesShown'
<1>1. service' = service
  BY ServiceStays
<1>2. CASE ProjectPositions
  <2> DEFINE records == service.position
             usable == {i \in DOMAIN records : HasPlace(records[i])}
             places == final_positions(records)
             shown == state'.driver_positions
  <2>1. progress = "reducing"
        /\ state' = IF places = EmptyDict THEN state ELSE [state EXCEPT !.driver_positions = places]
    BY <1>2 DEF ProjectPositions
  <2>2. records \in Seq(PlaceRecord)
    <3>1. IsData(service)
      BY <2>1, EventsAreThere
    <3> QED
      BY <3>1, SessionsAssumption DEF IsData, PlaceRecord
  <2>3. /\ DOMAIN places = {DriverNumber(records[i]) : i \in usable}
        /\ \A d \in DOMAIN places : \E i \in usable :
               /\ DriverNumber(records[i]) = d /\ records[i].position = places[d]
               /\ \A j \in usable : DriverNumber(records[j]) = d => records[j].date <= records[i].date
    <3> HIDE DEF records
    <3> QED
      BY <2>2, FinalPlaces
  <2>5. /\ DOMAIN shown = {DriverNumber(records[i]) : i \in usable}
        /\ \A d \in DOMAIN shown : \E i \in usable :
               /\ DriverNumber(records[i]) = d /\ records[i].position = shown[d]
               /\ \A j \in usable : DriverNumber(records[j]) = d => records[j].date <= records[i].date
    <3> HIDE DEF usable, records, places, shown
    <3>1. CASE places = EmptyDict
      <4>1. DOMAIN shown = {}
        BY <2>1, <3>1 DEF NoPlacesYet, shown
      <4>2. DOMAIN places = {}
        BY <3>1, EmptyHasNone
      <4> QED
        BY <2>3, <4>1, <4>2
    <3>2. CASE places # EmptyDict
      <4>1. state' = [state EXCEPT !.driver_positions = places]
        BY <2>1, <3>2
      <4>2. shown = places
        BY <4>1, ExceptPlaces DEF shown
      <4> QED
        BY <2>3, <4>2
    <3> QED
      BY <3>1, <3>2
  <2> DEFINE every == {records[i] : i \in DOMAIN records}
             those == {r \in every : r.driver # Absent /\ r.position # None /\ r.date # None}
  <2>6. those = {records[i] : i \in usable}
    BY DEF HasPlace
  <2> HIDE DEF usable, shown, places
  <2>7. DOMAIN shown = {DriverNumber(r) : r \in those}
    BY <2>5, <2>6
  <2>8. ASSUME NEW r \in those
        PROVE  \E t \in those : /\ DriverNumber(t) = DriverNumber(r) /\ r.date <= t.date
                                /\ t.position = shown[DriverNumber(r)]
    <3>1. DriverNumber(r) \in DOMAIN shown
      BY <2>7
    <3>2. PICK i \in usable :
             /\ DriverNumber(records[i]) = DriverNumber(r)
             /\ records[i].position = shown[DriverNumber(r)]
             /\ \A j \in usable : DriverNumber(records[j]) = DriverNumber(r)
                                    => records[j].date <= records[i].date
      BY <2>5, <3>1
    <3>3. PICK j \in usable : r = records[j]
      BY <2>6
    <3> QED
      BY <2>6, <3>2, <3>3
  <2>9. every = {service'.position[i] : i \in DOMAIN service'.position}
    BY <1>1
  <2> HIDE DEF records, every
  <2> QED
    BY <2>7, <2>8, <2>9 DEF PlacesShown, shown
<1>3. CASE UNCHANGED loaderVars
  <2>1. progress' = progress /\ state' = state
    BY <1>3 DEF loaderVars, fetchVars
  <2> QED
    BY <1>1, <2>1 DEF PlacesShown
<1>4. CASE ~ProjectPositions /\ ~UNCHANGED loaderVars
  <2>1. progress' # "loaded"
    BY <1>4 DEF Next, FindSession, LoadState, Responds, SendNext, BeginToState, FetchFails, Fails,
                ReduceNext, AppendFails, fetchVars
  <2> QED
    BY <2>1 DEF PlacesShown
<1> QED
  BY <1>2, <1>3, <1>4

-----------------------------------------------------------------------------
(* What follows from the invariant. *)

LEMMA OtherTypesStep == ASSUME OtherTypes, [Next]_loaderVars PROVE OtherTypes'
<1>1. MaxLoads \in Nat
  BY LoadsAssumption
<1>2. loads' \in 0..MaxLoads
  <2>1. CASE LoadState
    BY <1>1, <2>1 DEF LoadState, OtherTypes
  <2>2. CASE ~LoadState
    <3>1. loads' = loads
      BY <2>2 DEF Next, FindSession, Responds, FetchFails, Fails, ReduceNext, AppendFails,
                  ProjectPositions, loaderVars
    <3> QED
      BY <3>1 DEF OtherTypes
  <2> QED
    BY <2>1, <2>2
<1>3. keeping' \in BOOLEAN
  <2>1. keeping' \in BOOLEAN \/ keeping' = keeping
    BY DEF Next, FindSession, LoadState, Responds, FetchFails, Fails, ReduceNext, AppendFails,
           ProjectPositions, loaderVars
  <2> QED
    BY <2>1 DEF OtherTypes
<1>4. torn' \in BOOLEAN /\ (lost' = lost \/ lost' = FALSE \/ lost' = (lost \/ torn))
  <2>1. CASE LoadState
    BY <2>1 DEF LoadState, OtherTypes
  <2>2. CASE ReduceNext \/ AppendFails
    BY <2>2, Zenon DEF ReduceNext, AppendFails, WriteLine, storeVars, OtherTypes
  <2>3. CASE ~LoadState /\ ~ReduceNext /\ ~AppendFails
    <3>1. torn' = torn /\ lost' = lost
      BY <2>3 DEF Next, FindSession, Responds, FetchFails, ProjectPositions, loaderVars, storeVars
    <3> QED
      BY <3>1 DEF OtherTypes
  <2> QED
    BY <2>1, <2>2, <2>3
<1>5. readable' \in BOOLEAN
  <2>1. CASE ReduceNext \/ AppendFails
    BY <2>1, Zenon DEF ReduceNext, AppendFails, WriteLine, storeVars, OtherTypes
  <2>2. CASE ~ReduceNext /\ ~AppendFails
    <3>1. readable' = readable
      BY <2>2 DEF Next, FindSession, LoadState, Responds, FetchFails, ProjectPositions, loaderVars, storeVars
    <3> QED
      BY <3>1 DEF OtherTypes
  <2> QED
    BY <2>1, <2>2
<1> QED
  BY <1>2, <1>3, <1>4, <1>5, Zenon DEF OtherTypes

LEMMA InvGivesTypes == ASSUME LoaderInv PROVE TypeOK
<1>1. \A i, j \in DOMAIN queue : i < j => queue[i].timestamp <= queue[j].timestamp
  BY QueueSorted DEF LoaderInv
<1>2. DOMAIN state = DOMAIN initial_state /\ DOMAIN replayed = DOMAIN initial_state
  BY FieldsOf, Initially DEF LoaderInv
<1> QED
  BY <1>1, <1>2, Zenon DEF LoaderInv, FetchTypes, OtherTypes, TypeOK

LEMMA EndIsSuffix ==
    ASSUME NEW list, IsSeq(list), NEW end, IsSeq(end), EndsIn(list, end)
    PROVE  IsSuffix(end, list)
<1> DEFINE m == Len(list)
           n == Len(end)
           T == {list[i] : i \in 1..m} \cup {end[i] : i \in 1..n}
           back == [i \in 1..m |-> list[(m - i) + 1]]
           ahead == [i \in 1..n |-> end[(n - i) + 1]]
<1>1. m \in Nat /\ n \in Nat /\ n <= m
  BY SeqDomain DEF EndsIn
<1>2. \A i \in 1..n : end[i] = list[m - n + i]
  BY DEF EndsIn
<1>3. Reverse(list) = back /\ Reverse(end) = ahead
  BY DEF Reverse
<1>4. /\ \A i \in 1..m : back[i] = list[(m - i) + 1] /\ back[i] \in T
      /\ \A i \in 1..n : ahead[i] = end[(n - i) + 1] /\ ahead[i] \in T
  BY <1>1
<1>5. back \in [1..m -> T] /\ ahead \in [1..n -> T]
  BY <1>4
<1>6. back \in Seq(T) /\ ahead \in Seq(T) /\ Len(back) = m /\ Len(ahead) = n
  <2> HIDE DEF back, ahead, T, m, n
  <2>1. back \in Seq(T) /\ ahead \in Seq(T) /\ DOMAIN back = 1..m /\ DOMAIN ahead = 1..n
    BY <1>1, <1>5, SeqDef
  <2> QED
    BY <1>1, <2>1, LenProperties
<1>7. \A i \in 1..n : ahead[i] = back[i]
  <2> TAKE i \in 1..n
  <2>1. (n - i) + 1 \in 1..n /\ m - n + ((n - i) + 1) = (m - i) + 1 /\ i \in 1..m
    BY <1>1
  <2> QED
    BY <1>2, <1>4, <2>1
<1> HIDE DEF back, ahead, T, m, n
<1>8. SubSeq(ahead, 1, n) = SubSeq(back, 1, n)
  <2>1. \A i \in 1..n : ahead[i] \in T /\ back[i] \in T
    BY <1>1, <1>4
  <2>2. /\ SubSeq(ahead, 1, n) \in Seq(T)
        /\ Len(SubSeq(ahead, 1, n)) = IF 1 <= n THEN n - 1 + 1 ELSE 0
        /\ \A i \in 1..n - 1 + 1 : SubSeq(ahead, 1, n)[i] = ahead[1 + i - 1]
    BY <1>1, <2>1, SubSeqProperties
  <2>3. /\ SubSeq(back, 1, n) \in Seq(T)
        /\ Len(SubSeq(back, 1, n)) = IF 1 <= n THEN n - 1 + 1 ELSE 0
        /\ \A i \in 1..n - 1 + 1 : SubSeq(back, 1, n)[i] = back[1 + i - 1]
    BY <1>1, <2>1, SubSeqProperties
  <2> QED
    BY <1>1, <1>7, <2>2, <2>3, SeqEqual
<1> QED
  BY <1>1, <1>3, <1>6, <1>8 DEF IsSuffix, IsPrefix, m, n

LEMMA InvGivesRetained == ASSUME LoaderInv PROVE ReplayRetains
<1> SUFFICES ASSUME progress = "loaded", keeping, ~lost
             PROVE  /\ \A field \in {"session_info", "session_status", "driver_list", "latest_laps"} :
                           replayed[field] = state[field]
                    /\ IsSuffix(state.race_control_messages, replayed.race_control_messages)
                    /\ IsSuffix(state.pit_history, replayed.pit_history)
  BY DEF ReplayRetains, LoaderInv, NoPlacesStored
<1>1. DOMAIN queue = {}
  <2>1. queue = << >>
    BY DEF LoaderInv, QueueIsRest
  <2> QED
    BY <2>1
<1>2. /\ \A field \in SetFields : replayed[field] = state[field]
      /\ \A d \in DOMAIN state.latest_laps \cup DOMAIN replayed.latest_laps : SameLap(d)
      /\ EndsIn(replayed.race_control_messages, state.race_control_messages)
      /\ EndsIn(replayed.pit_history, state.pit_history)
  BY <1>1 DEF LoaderInv, Retained
<1>3. /\ WellFormed(state) /\ WellFormed(replayed)
  BY DEF LoaderInv
<1>4. replayed.latest_laps = state.latest_laps
  <2> DEFINE r == replayed.latest_laps
             s == state.latest_laps
  <2>1. r = [d \in DOMAIN r |-> r[d]] /\ s = [d \in DOMAIN s |-> s[d]]
    BY <1>3 DEF WellFormed
  <2>2. DOMAIN r = DOMAIN s /\ \A d \in DOMAIN s : r[d] = s[d]
    BY <1>2 DEF SameLap
  <2> HIDE DEF r, s
  <2>3. r = s
    BY <2>1, <2>2
  <2> QED
    BY <2>3 DEF r, s
<1>5. \A field \in {"session_info", "session_status", "driver_list", "latest_laps"} :
         replayed[field] = state[field]
  BY <1>2, <1>4 DEF SetFields
<1>6. /\ IsSuffix(state.race_control_messages, replayed.race_control_messages)
      /\ IsSuffix(state.pit_history, replayed.pit_history)
  <2> DEFINE mr == replayed.race_control_messages
             ms == state.race_control_messages
             pr == replayed.pit_history
             ps == state.pit_history
  <2>1. IsSeq(mr) /\ IsSeq(ms) /\ EndsIn(mr, ms) /\ IsSeq(pr) /\ IsSeq(ps) /\ EndsIn(pr, ps)
    BY <1>2, <1>3 DEF WellFormed
  <2> HIDE DEF mr, ms, pr, ps
  <2>2. IsSuffix(ms, mr) /\ IsSuffix(ps, pr)
    BY <2>1, EndIsSuffix
  <2> QED
    BY <2>2 DEF mr, ms, pr, ps
<1> QED
  BY <1>5, <1>6

\* The durations FormatLapTime shows are those that are there and not 0.
LEMMA TimesFormatted ==
    ASSUME NEW T, T \subseteq Nat \cup {None}
    PROVE  {FormatLapTime(t) : t \in T} \ {None} = T \ {None, 0}
  BY NoneAssumption DEF FormatLapTime

\* The fastest of the laps up to a number.
IsBest(best, laps, number) ==
    LET times == {lap.duration : lap \in {l \in laps : l.number <= number}} \ {None, 0}
    IN  IF times = {} THEN best = None ELSE best \in times /\ \A t \in times : best <= t

\* A driver's running best at one of the laps, when the laps are all numbered
\* differently: the best up to that lap's number.
LEMMA RunningBestIs ==
    ASSUME NEW laps, IsSeq(laps), \A p \in DOMAIN laps : laps[p] \in LapRecord,
           \A p, q \in DOMAIN laps : p < q /\ DriverNumber(laps[p]) = DriverNumber(laps[q])
               => LapNumber(laps[p]) <= LapNumber(laps[q]),
           NEW m \in DOMAIN laps, NEW Mine,
           Mine = {laps[p] : p \in {q \in DOMAIN laps : DriverNumber(laps[q]) = DriverNumber(laps[m])}},
           \A a, b \in Mine : a.number # None /\ (a # b => a.number # b.number)
    PROVE  IsBest(RunningBest(laps, m), Mine, laps[m].number)
<1> DEFINE d == DriverNumber(laps[m])
           before == {k \in 1..m : DriverNumber(laps[k]) = d}
           upTo == {lap \in Mine : lap.number <= laps[m].number}
           times == {lap.duration : lap \in upTo} \ {None, 0}
           driven == {laps[j].duration : j \in before}
           formatted == {FormatLapTime(laps[j].duration) : j \in before} \ {None}
<1>1. DOMAIN laps = 1..Len(laps) /\ Len(laps) \in Nat /\ 1..m \subseteq DOMAIN laps
  BY SeqDomain
<1>2. upTo = {laps[j] : j \in before}
  <2>1. ASSUME NEW j \in before PROVE laps[j] \in upTo
    <3>1. j \in DOMAIN laps /\ DriverNumber(laps[j]) = DriverNumber(laps[m]) /\ j <= m
      BY <1>1
    <3>2. laps[j] \in Mine /\ laps[m] \in Mine
      BY <3>1
    <3>3. laps[j].number # None /\ laps[m].number # None
      BY <3>2
    <3>4. laps[j].number \in Nat /\ laps[m].number \in Nat
      BY <3>1, <3>3 DEF LapRecord, Number
    <3>5. laps[j].number <= laps[m].number
      <4>1. CASE j = m
        BY <3>4, <4>1
      <4>2. CASE j < m
        <5>1. LapNumber(laps[j]) <= LapNumber(laps[m])
          BY <3>1, <4>2
        <5> QED
          BY <3>3, <5>1 DEF LapNumber
      <4> QED
        BY <1>1, <3>1, <4>1, <4>2
    <3> QED
      BY <3>2, <3>5
  <2>2. ASSUME NEW lap \in upTo PROVE \E j \in before : lap = laps[j]
    <3>1. PICK q \in DOMAIN laps : lap = laps[q] /\ DriverNumber(laps[q]) = DriverNumber(laps[m])
      OBVIOUS
    <3>2. CASE q <= m
      BY <1>1, <3>1, <3>2
    <3>3. CASE m < q
      <4>1. laps[m] \in Mine /\ laps[q] \in Mine /\ laps[q].number <= laps[m].number
        BY <3>1
      <4>2. laps[m].number # None /\ laps[q].number # None
        BY <4>1
      <4>3. laps[m].number \in Nat /\ laps[q].number \in Nat
        BY <4>2 DEF LapRecord, Number
      <4>4. LapNumber(laps[m]) <= LapNumber(laps[q])
        BY <3>1, <3>3
      <4>5. laps[m].number = laps[q].number
        BY <4>1, <4>2, <4>3, <4>4 DEF LapNumber
      <4>6. laps[m] = laps[q]
        BY <4>1, <4>5
      <4>7. m \in before
        BY <1>1
      <4> QED
        BY <3>1, <4>6, <4>7
    <3> QED
      BY <1>1, <3>2, <3>3
  <2> HIDE DEF upTo, before
  <2> QED
    BY <2>1, <2>2
<1>3. {lap.duration : lap \in upTo} = driven
  <2> HIDE DEF upTo, before
  <2> QED
    BY <1>2
<1>4. driven \subseteq Nat \cup {None}
  BY <1>1 DEF LapRecord
<1>5. formatted = times
  <2>1. formatted = {FormatLapTime(t) : t \in driven} \ {None}
    <3> HIDE DEF before
    <3> QED
      OBVIOUS
  <2> HIDE DEF driven, formatted, before, upTo
  <2>2. {FormatLapTime(t) : t \in driven} \ {None} = driven \ {None, 0}
    BY <1>4, TimesFormatted
  <2> QED
    BY <1>3, <2>1, <2>2
<1>6. RunningBest(laps, m) = IF formatted = {} THEN None ELSE Min(formatted)
  BY DEF RunningBest
<1>7. times \in SUBSET Nat
  BY <1>3, <1>4
<1> HIDE DEF times, formatted
<1>8. times # {} => Min(times) \in times /\ \A t \in times : Min(times) <= t
  BY <1>7, Smallest
<1> QED
  BY <1>5, <1>6, <1>8 DEF times, IsBest

LEMMA InvGivesLaps == ASSUME LoaderInv PROVE LapsShown
<1> SUFFICES ASSUME progress = "loaded", NEW d \in Driver \cup {"None"}, DatedLapsOf(d) # {},
                    \A a, b \in LapsOf(d) : a.number # None /\ (a # b => a.number # b.number),
                    \A a, b \in DatedLapsOf(d) : a.number < b.number => a.date < b.date
             PROVE  LET shown == state.latest_laps[d]
                        upTo == {lap \in LapsOf(d) : lap.number <= shown.number_of_laps}
                        times == {lap.duration : lap \in upTo} \ {None, 0}
                    IN  /\ \A lap \in DatedLapsOf(d) : lap.number <= shown.number_of_laps
                        /\ IF times = {} THEN shown.best_lap_time = None
                           ELSE shown.best_lap_time \in times /\ \A t \in times : shown.best_lap_time <= t
  BY DEF LapsShown
<1> DEFINE records == service.laps
           laps == LapsByDriver(records)
           events == laps_to_events(records)
           shown == state.latest_laps[d]
<1>1. /\ IsData(service) /\ AllBuilt(service, Built) /\ Len(Built) \in Nat /\ DOMAIN Built = 1..Len(Built)
      /\ \A i, j \in DOMAIN Built : i < j => Built[i].timestamp <= Built[j].timestamp
  BY EventsAreThere DEF LoaderInv
<1>2. Done = Len(Built)
  <2>1. queue = << >>
    BY DEF LoaderInv, QueueIsRest
  <2> QED
    BY <1>1, <2>1 DEF Done
<1>3. records \in Seq(LapRecord) /\ \A i \in DOMAIN records : records[i] \in LapRecord
  <2>1. records \in Seq(LapRecord)
    BY <1>1, SessionsAssumption DEF IsData, LapRecord
  <2> HIDE DEF records
  <2> QED
    BY <2>1, ElementOfSeq, LenProperties
<1>4. /\ IsSeq(laps)
      /\ \A p \in DOMAIN laps : \E i \in DOMAIN records :
             laps[p] = records[i] /\ records[i].driver # Absent
      /\ \A i \in DOMAIN records : records[i].driver # Absent
             => \E p \in DOMAIN laps : laps[p] = records[i]
      /\ \A p, q \in DOMAIN laps : p < q /\ DriverNumber(laps[p]) = DriverNumber(laps[q])
             => LapNumber(laps[p]) <= LapNumber(laps[q])
  <2> HIDE DEF records
  <2> QED
    BY <1>3, LapsSorted
<1>5. /\ DOMAIN events = DOMAIN laps
      /\ \A p \in DOMAIN events :
             /\ events[p].timestamp = IF laps[p].date = None THEN Epoch ELSE laps[p].date
             /\ events[p].event.event_type = "LAP_UPDATE"
             /\ events[p].event.payload = [x \in {DriverNumber(laps[p])} |->
                    [last_lap_time  |-> FormatLapTime(laps[p].duration),
                     best_lap_time  |-> RunningBest(laps, p),
                     number_of_laps |-> laps[p].number,
                     position       |-> None]]
  BY <1>1, LapEvents
<1>6. \A p \in DOMAIN events : \E i \in DOMAIN Built : Built[i] = events[p]
  BY <1>1, EventsBuilt DEF Built
<1>7. \A i \in DOMAIN Built : HasLap(Built[i].event, d) =>
         \E p \in DOMAIN events : Built[i] = events[p]
  BY <1>1 DEF AllBuilt, IsBuilt, HasLap
<1>8. \A p \in DOMAIN laps : laps[p] \in LapRecord
  <2> HIDE DEF records, laps
  <2> QED
    BY <1>3, <1>4
<1> HIDE DEF records, laps, events
<1>9. \A p \in DOMAIN events :
         /\ HasLap(events[p].event, d) <=> DriverNumber(laps[p]) = d
         /\ DriverNumber(laps[p]) = d =>
                /\ events[p].event.payload[d].number_of_laps = laps[p].number
                /\ events[p].event.payload[d].best_lap_time = RunningBest(laps, p)
  <2> TAKE p \in DOMAIN events
  <2> DEFINE Entry == [last_lap_time  |-> FormatLapTime(laps[p].duration),
                       best_lap_time  |-> RunningBest(laps, p),
                       number_of_laps |-> laps[p].number,
                       position       |-> None]
  <2>1. events[p].event.event_type = "LAP_UPDATE" /\ events[p].event.payload = [x \in {DriverNumber(laps[p])} |-> Entry]
    BY <1>5
  <2>2. Entry.number_of_laps = laps[p].number /\ Entry.best_lap_time = RunningBest(laps, p)
    OBVIOUS
  <2> HIDE DEF Entry
  <2>3. HasLap(events[p].event, d) <=> DriverNumber(laps[p]) = d
    BY <2>1 DEF HasLap
  <2>4. DriverNumber(laps[p]) = d => events[p].event.payload[d] = Entry
    BY <2>1
  <2> QED
    BY <2>2, <2>3, <2>4
<1>10. LapsOf(d) = {laps[p] : p \in {q \in DOMAIN laps : DriverNumber(laps[q]) = d}}
  <2>1. LapsOf(d) = {records[i] : i \in {j \in DOMAIN records : DriverNumber(records[j]) = d}}
    BY DEF LapsOf, records
  <2>2. \A r : DriverNumber(r) = d => r.driver # Absent
    BY AbsentAssumption DEF DriverNumber
  <2> QED
    BY <1>4, <2>1, <2>2
\* Of what is reduced last of the driver, the lap that is shown.
<1>11. ASSUME NEW p \in DOMAIN laps, DriverNumber(laps[p]) = d
       PROVE  \E q \in DOMAIN laps :
                 /\ DriverNumber(laps[q]) = d /\ events[p].timestamp <= events[q].timestamp
                 /\ shown = events[q].event.payload[d]
  <2>1. PICK i \in DOMAIN Built : Built[i] = events[p]
    BY <1>5, <1>6
  <2>2. i \in 1..Done /\ HasLap(Built[i].event, d)
    BY <1>1, <1>2, <1>5, <1>9, <1>11, <2>1
  <2>3. PICK j \in i..Done : HasLap(Built[j].event, d) /\ shown = Built[j].event.payload[d]
    BY <2>2 DEF LoaderInv, LastLapShown
  <2>4. j \in DOMAIN Built /\ (i < j \/ i = j)
    BY <1>1, <1>2, <2>2
  <2>5. PICK q \in DOMAIN events : Built[j] = events[q]
    BY <1>7, <2>3, <2>4
  <2>6. DriverNumber(laps[q]) = d
    BY <1>9, <2>3, <2>5
  <2>7. events[p].timestamp \in Nat
    BY <1>1, <2>1 DEF AllBuilt, IsBuilt
  <2>8. events[p].timestamp <= events[q].timestamp
    BY <1>1, <2>1, <2>4, <2>5, <2>7
  <2> QED
    BY <1>5, <2>3, <2>5, <2>6, <2>8
<1>12. \A lap \in DatedLapsOf(d) : lap.number <= shown.number_of_laps
  <2> TAKE lap \in DatedLapsOf(d)
  <2>1. PICK p \in DOMAIN laps : DriverNumber(laps[p]) = d /\ lap = laps[p] /\ lap.date # None
    BY <1>10 DEF DatedLapsOf
  <2>2. PICK q \in DOMAIN laps :
           /\ DriverNumber(laps[q]) = d /\ events[p].timestamp <= events[q].timestamp
           /\ shown = events[q].event.payload[d]
    BY <1>11, <2>1
  <2>3. shown.number_of_laps = laps[q].number
    BY <1>5, <1>9, <2>2
  <2>4. lap \in LapsOf(d) /\ laps[q] \in LapsOf(d)
    BY <1>10, <2>1, <2>2
  <2>5. lap.number \in Nat /\ laps[q].number \in Nat /\ lap.date \in Nat \ {0}
    BY <1>8, <2>1, <2>4 DEF LapRecord, Number
  <2>6. events[p].timestamp = lap.date
    BY <1>5, <2>1
  <2> SUFFICES ASSUME laps[q].number < lap.number PROVE FALSE
    BY <2>3, <2>5
  <2>7. laps[q].date # None
    <3> SUFFICES ASSUME laps[q].date = None PROVE FALSE
      OBVIOUS
    <3>1. events[q].timestamp = 0
      BY <1>5 DEF Epoch
    <3> QED
      BY <2>2, <2>5, <2>6, <3>1
  <2>8. laps[q] \in DatedLapsOf(d)
    BY <2>4, <2>7 DEF DatedLapsOf
  <2>9. laps[q].date < lap.date /\ laps[q].date \in Nat
    BY <1>8, <2>7, <2>8 DEF LapRecord, Number
  <2>10. events[q].timestamp = laps[q].date
    BY <1>5, <2>7
  <2> QED
    BY <2>2, <2>5, <2>6, <2>9, <2>10
<1>13. PICK m \in DOMAIN laps :
          /\ DriverNumber(laps[m]) = d /\ shown.number_of_laps = laps[m].number
          /\ shown.best_lap_time = RunningBest(laps, m)
  <2>1. PICK lap \in DatedLapsOf(d) : TRUE
    OBVIOUS
  <2>2. PICK p \in DOMAIN laps : DriverNumber(laps[p]) = d
    BY <1>10 DEF DatedLapsOf
  <2>3. PICK q \in DOMAIN laps : DriverNumber(laps[q]) = d /\ shown = events[q].event.payload[d]
    BY <1>11, <2>2
  <2> QED
    BY <1>5, <1>9, <2>3
<1>14. IsBest(shown.best_lap_time, LapsOf(d), shown.number_of_laps)
  <2> DEFINE Mine == LapsOf(d)
  <2>1. Mine = {laps[p] : p \in {q \in DOMAIN laps : DriverNumber(laps[q]) = DriverNumber(laps[m])}}
    BY <1>10, <1>13
  <2>2. \A a, b \in Mine : a.number # None /\ (a # b => a.number # b.number)
    OBVIOUS
  <2> HIDE DEF Mine
  <2>3. IsBest(RunningBest(laps, m), Mine, laps[m].number)
    BY <1>4, <1>8, <2>1, <2>2, RunningBestIs
  <2> QED
    BY <1>13, <2>3 DEF Mine
<1> QED
  BY <1>12, <1>14 DEF IsBest

-----------------------------------------------------------------------------
(* Theorems. *)

LEMMA LoaderInit == Init => LoaderInv
<1> SUFFICES ASSUME Init PROVE LoaderInv
  OBVIOUS
<1>1. /\ service \in Sessions /\ progress = "idle" /\ responses = 0 /\ ages = EmptyDict
      /\ keeping = FALSE /\ queue = << >> /\ state = initial_state /\ replayed = initial_state
      /\ torn = FALSE /\ readable = TRUE /\ lost = FALSE /\ loads = 0
  BY DEF Init
<1>2. FetchTypes /\ OtherTypes /\ Answered /\ Spaced
  <2>1. DOMAIN ages = {} /\ 0 \in 0..Len(Endpoint) /\ 0 \in 0..MaxLoads
    BY <1>1, EmptyHasNone, SixRequests, LoadsAssumption
  <2>2. FetchTypes /\ Spaced
    BY <1>1, <2>1 DEF FetchTypes, Spaced
  <2>3. OtherTypes
    BY <1>1, <2>1 DEF OtherTypes
  <2>4. Answered
    BY <1>1 DEF Answered
  <2> QED
    BY <2>2, <2>3, <2>4
<1>3. QueueIsRest
  <2>1. IsSeq(<< >>)
    BY DEF IsSeq
  <2> QED
    BY <1>1, <2>1 DEF QueueIsRest
<1>4. WellFormed(state) /\ WellFormed(replayed) /\ NoPlacesYet /\ NoPlacesStored
  BY <1>1, Initially, EmptyHasNone DEF NoPlacesYet, NoPlacesStored, initial_state
<1>5. StoredBefore
  <2>1. DOMAIN replayed.latest_laps = {}
    BY <1>1, EmptyHasNone DEF initial_state
  <2> QED
    BY <1>1, <2>1 DEF StoredBefore
<1>6. Retained /\ LastLapShown /\ PlacesShown
  BY <1>1 DEF Retained, LastLapShown, PlacesShown
<1> QED
  BY <1>1, <1>2, <1>3, <1>4, <1>5, <1>6 DEF LoaderInv

LEMMA LoaderStep == LoaderInv /\ [Next]_loaderVars => LoaderInv'
<1> SUFFICES ASSUME LoaderInv, [Next]_loaderVars PROVE LoaderInv'
  OBVIOUS
<1>1. /\ service \in Sessions /\ FetchTypes /\ OtherTypes
      /\ Answered /\ Spaced /\ QueueIsRest
      /\ WellFormed(state) /\ WellFormed(replayed) /\ NoPlacesYet /\ NoPlacesStored
      /\ StoredBefore /\ Retained /\ LastLapShown /\ PlacesShown
  BY DEF LoaderInv
<1>2. service' \in Sessions
  BY <1>1, ServiceStays
<1>3. FetchTypes' /\ Spaced' /\ OtherTypes' /\ Answered' /\ QueueIsRest'
  BY <1>1, FetchStep, OtherTypesStep, AnsweredStep, QueueStep
<1>4. WellFormed(state)' /\ WellFormed(replayed)' /\ NoPlacesYet' /\ NoPlacesStored'
  BY <1>1, StatesStep, PlacesStep, PlacesStoredStep
<1>5. StoredBefore' /\ Retained' /\ LastLapShown' /\ PlacesShown'
  BY <1>1, StoredStep, RetainedStep, LapsStep, PlacesShownStep
<1> QED
  BY <1>2, <1>3, <1>4, <1>5 DEF LoaderInv

LEMMA LoaderInvariant == Spec => []LoaderInv
  BY LoaderInit, LoaderStep, PTL DEF Spec

\* The types, and the queue of events sorted by their timestamps.
THEOREM LoadTypeCorrect == Spec => []TypeOK
  BY LoaderInvariant, InvGivesTypes, PTL

\* fetch()'s pauses keep the rate limit, whatever the latencies, as long as
\* three of them are at least a second (openf1/client.py:10-14, session.py:127-143).
THEOREM LimitKept == Spec => []Paced
<1>1. LoaderInv => Paced
  BY SpacedIsPaced DEF LoaderInv
<1> QED
  BY <1>1, LoaderInvariant, PTL

\* Any number of failed and repeated loads into one store before it do not
\* change what a replay of a session loaded in full retains (session.py:180-183).
THEOREM LoadIsRetained == Spec => []ReplayRetains
  BY LoaderInvariant, InvGivesRetained, PTL

\* For any lists of laps in any order, each driver's last lap and fastest time
\* are shown (adapter.py:251-314, session.py:232-234).
THEOREM LastLapsShown == Spec => []LapsShown
  BY LoaderInvariant, InvGivesLaps, PTL

\* For any records in any order, the newest places are shown (adapter.py:317-346).
THEOREM NewestPlacesShown == Spec => []PlacesShown
<1>1. LoaderInv => PlacesShown
  BY DEF LoaderInv
<1> QED
  BY <1>1, LoaderInvariant, PTL
=============================================================================
