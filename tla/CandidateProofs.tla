--------------------------- MODULE CandidateProofs ---------------------------
(***************************************************************************)
(* The scans of CandidateLoops return what Candidates defines, for every   *)
(* choice of values, bounds, ranges and entries.                           *)
(*                                                                         *)
(* The invariant says, for each loop, what the turns so far have ruled     *)
(* out: the own ranges before "turn" have no free value (Exhausted), no    *)
(* value of the range being scanned below "candidate" is free, no released *)
(* value that has been read may be handed out, and no value between the    *)
(* floor and "candidate" is fresh.                                         *)
(***************************************************************************)
EXTENDS CandidateLoops, SequenceTheorems, TLAPS

ScanTypes ==
  /\ ranges \in Seq([start: Cells, end: Cells])
  /\ \A i \in 1..Len(ranges) : ranges[i].start <= ranges[i].end
  /\ \A i, j \in 1..Len(ranges) : i < j => ranges[i].start <= ranges[j].start
  /\ own \subseteq 1..Len(ranges)
  /\ ever \subseteq Cells /\ live \subseteq ever
  /\ ns \in [next: Starts, min: Mins, max: Maxs]
  /\ turn \in Nat /\ 1 <= turn
  /\ pc \in {"range", "scan", "global", "released", "skip", "done"}

\* The own ranges of which the loop of chooseCandidate is through are full.
Exhausted ==
  \A i \in own : i < turn => \A v \in Values : InRange(ranges[i], v) => v \in live

ScanLoop ==
  pc = "scan" =>
    /\ turn \in own
    /\ candidate \in Int /\ ranges[turn].start <= candidate
    /\ \A v \in Values : ranges[turn].start <= v /\ v < candidate => v \in live
    /\ rows = {v \in live : InRange(ranges[turn], v) /\ candidate <= v}

GlobalSearch == pc \in {"global", "released", "skip"} => Len(ranges) < turn

ReleasedLoop ==
  pc = "released" =>
    /\ candidate = Floor(ns, ns.next)
    /\ rows \subseteq ever \ live
    /\ \A v \in rows : candidate <= v
    /\ \A v \in (ever \ live) \ rows : candidate <= v => globalRangeContains(AllRanges, v)

SkipLoop ==
  pc = "skip" =>
    /\ candidate \in Values /\ Floor(ns, ns.next) <= candidate
    /\ \A v \in ever : v < candidate
    /\ Reusable(ns, AllRanges, Floor(ns, ns.next), live, ever) = {}
    /\ \A v \in Fresh(ns, AllRanges, Floor(ns, ns.next), ever) : candidate <= v

ScanInv ==
  /\ ScanTypes
  /\ Exhausted
  /\ ScanLoop
  /\ GlobalSearch
  /\ ReleasedLoop
  /\ SkipLoop
  /\ AgreesWithCandidates

-----------------------------------------------------------------------------
LEMMA ValuesAreNumbers ==
  /\ Nil \notin Int /\ Values \subseteq Int
  /\ Cells \subseteq Values /\ Starts \subseteq Values /\ Mins \ {Nil} \subseteq Values
  /\ Maxs \subseteq Int \cup {Nil}
  /\ \A a, b \in Cells : a..b \subseteq Values
  /\ \A a \in Cells : a + 1 \in Values
BY CandidatesAssumption, CandidateLoopsAssumption

\* What one range is.
LEMMA RangeAt ==
  ASSUME ScanTypes, NEW i \in 1..Len(ranges)
  PROVE  /\ ranges[i] \in [start: Cells, end: Cells]
         /\ ranges[i].start \in Cells /\ ranges[i].end \in Cells
         /\ ranges[i].start \in Int /\ ranges[i].end \in Int
         /\ ranges[i].start <= ranges[i].end
         /\ ranges[i] \in AllRanges
         /\ \A v \in Int : InRange(ranges[i], v) => v \in Values
<1>1. ranges[i] \in [start: Cells, end: Cells]
  BY ElementOfSeq DEF ScanTypes
<1>2. ranges[i].start \in Int /\ ranges[i].end \in Int
  BY <1>1, ValuesAreNumbers
<1>3. ASSUME NEW v \in Int, InRange(ranges[i], v)
      PROVE  v \in Values
  <2>1. v \in ranges[i].start..ranges[i].end
    BY <1>2, <1>3 DEF InRange
  <2> QED BY <1>1, <2>1, ValuesAreNumbers
<1>4. ranges[i] \in AllRanges
  BY DEF AllRanges, RangesOf
<1> QED BY <1>1, <1>2, <1>3, <1>4 DEF ScanTypes

\* The floor is a value, and not below the cursor or the minimum.
LEMMA FloorIsValue ==
  ASSUME ScanTypes
  PROVE  /\ Floor(ns, ns.next) \in Values /\ Floor(ns, ns.next) \in Int
         /\ ns.max \in Int \cup {Nil}
BY ValuesAreNumbers DEF ScanTypes, Floor

\* When every own range is full there is nothing free in them.
LEMMA NoneFree ==
  ASSUME ScanTypes, Exhausted, Len(ranges) < turn
  PROVE  FreeInRanges(RangesOf(own), live) = {}
<1> SUFFICES ASSUME NEW v \in Values, NEW i \in own, InRange(ranges[i], v), v \notin live
             PROVE  FALSE
  BY DEF FreeInRanges, RangesOf, globalRangeContains
<1>1. i \in 1..Len(ranges) /\ Len(ranges) \in Nat
  BY DEF ScanTypes
<1>2. i < turn
  BY <1>1 DEF ScanTypes
<1> QED BY <1>2 DEF Exhausted

-----------------------------------------------------------------------------
LEMMA ScanInit == Init => ScanInv
<1> SUFFICES ASSUME Init PROVE ScanInv
  OBVIOUS
<1> DEFINE Row == [start: Cells, end: Cells]
<1> HIDE DEF Row
<1>1. PICK k \in 0..MaxRanges : ranges \in [1..k -> Row]
  BY DEF Init, Row
<1>0. ranges \in Seq(Row)
  BY <1>1, CandidateLoopsAssumption
<1> USE DEF Init
<1>2. ranges \in Seq([start: Cells, end: Cells])
  BY <1>0 DEF Row
<1>3. \A i \in 1..Len(ranges) : ranges[i].start \in Int /\ ranges[i].end \in Int
  <2> SUFFICES ASSUME NEW i \in 1..Len(ranges)
               PROVE  ranges[i].start \in Int /\ ranges[i].end \in Int
    OBVIOUS
  <2>1. ranges[i] \in [start: Cells, end: Cells]
    BY <1>2, ElementOfSeq
  <2> QED BY <2>1, ValuesAreNumbers
<1>4. \A i, j \in 1..Len(ranges) : i < j => ranges[i].start <= ranges[j].start
  BY <1>3 DEF Before
<1>5. ns \in [next: Starts, min: Mins, max: Maxs]
  OBVIOUS
<1>6. ScanTypes
  BY <1>2, <1>4, <1>5 DEF ScanTypes
<1>7. Exhausted
  BY <1>6, ValuesAreNumbers DEF Exhausted, ScanTypes
<1>8. ScanLoop /\ GlobalSearch /\ ReleasedLoop /\ SkipLoop /\ AgreesWithCandidates
  BY DEF ScanLoop, GlobalSearch, ReleasedLoop, SkipLoop, AgreesWithCandidates
<1> QED BY <1>6, <1>7, <1>8 DEF ScanInv

\* Nothing but the place in the loops changes.
LEMMA InputsStay ==
  ASSUME ScanTypes, UNCHANGED inputs
  PROVE  /\ AllRanges' = AllRanges /\ RangesOf(own)' = RangesOf(own)
         /\ turn' \in Nat /\ 1 <= turn'
              /\ pc' \in {"range", "scan", "global", "released", "skip", "done"} => ScanTypes'
         /\ (turn' = turn /\ Exhausted) => Exhausted'
<1>1. AllRanges' = AllRanges /\ RangesOf(own)' = RangesOf(own)
  BY DEF inputs, AllRanges, RangesOf
<1>2. ASSUME turn' \in Nat, 1 <= turn', pc' \in {"range", "scan", "global", "released", "skip", "done"}
      PROVE  ScanTypes'
  BY <1>2 DEF ScanTypes, inputs
<1>3. ASSUME turn' = turn, Exhausted
      PROVE  Exhausted'
  BY <1>3 DEF Exhausted, inputs
<1> QED BY <1>1, <1>2, <1>3

LEMMA RangeStep ==
  ASSUME ScanInv, NextRange
  PROVE  ScanInv'
<1> USE DEF NextRange
<1>1. ScanTypes /\ Exhausted /\ pc = "range" /\ UNCHANGED inputs
  BY DEF ScanInv
<1>2. Len(ranges) \in Nat /\ turn \in Nat /\ 1 <= turn
  BY <1>1 DEF ScanTypes
<1>3. CASE turn > Len(ranges) /\ pc' = "global" /\ UNCHANGED <<turn, candidate, rows>>
  <2>1. ScanTypes' /\ Exhausted'
    BY <1>1, <1>2, <1>3, InputsStay
  <2>2. GlobalSearch'
    BY <1>1, <1>2, <1>3 DEF GlobalSearch, inputs
  <2>3. ScanLoop' /\ ReleasedLoop' /\ SkipLoop' /\ AgreesWithCandidates'
    BY <1>3 DEF ScanLoop, ReleasedLoop, SkipLoop, AgreesWithCandidates
  <2> QED BY <2>1, <2>2, <2>3 DEF ScanInv
<1>4. CASE turn \notin own /\ turn' = turn + 1 /\ UNCHANGED <<pc, candidate, rows>>
  <2>1. ScanTypes'
    BY <1>1, <1>2, <1>4, InputsStay
  <2>2. Exhausted'
    <3>1. \A i \in own : i \in Nat /\ (i < turn + 1 => i < turn)
      BY <1>1, <1>2, <1>4 DEF ScanTypes
    <3> QED BY <1>1, <1>4, <3>1 DEF Exhausted, inputs
  <2>3. ScanLoop' /\ GlobalSearch' /\ ReleasedLoop' /\ SkipLoop' /\ AgreesWithCandidates'
    BY <1>1, <1>4 DEF ScanLoop, GlobalSearch, ReleasedLoop, SkipLoop, AgreesWithCandidates
  <2> QED BY <2>1, <2>2, <2>3 DEF ScanInv
<1>5. CASE /\ turn <= Len(ranges) /\ turn \in own
           /\ candidate' = ranges[turn].start
           /\ rows' = {v \in live : InRange(ranges[turn], v)}
           /\ pc' = "scan" /\ UNCHANGED turn
  <2>1. ScanTypes' /\ Exhausted'
    BY <1>1, <1>2, <1>5, InputsStay
  <2>2. turn \in 1..Len(ranges)
    BY <1>2, <1>5
  <2>3. ranges[turn].start \in Int
    BY <1>1, <2>2, RangeAt
  <2>4. \A v \in live : v \in Int
    BY <1>1, ValuesAreNumbers DEF ScanTypes
  <2>5. ScanLoop'
    BY <1>1, <1>5, <2>3, <2>4, ValuesAreNumbers DEF ScanLoop, inputs, InRange
  <2>6. GlobalSearch' /\ ReleasedLoop' /\ SkipLoop' /\ AgreesWithCandidates'
    BY <1>5 DEF GlobalSearch, ReleasedLoop, SkipLoop, AgreesWithCandidates
  <2> QED BY <2>1, <2>5, <2>6 DEF ScanInv
<1> QED BY <1>3, <1>4, <1>5

LEMMA ScanStep ==
  ASSUME ScanInv, ScanRange
  PROVE  ScanInv'
<1>1. ScanTypes /\ Exhausted /\ ScanLoop /\ pc = "scan" /\ UNCHANGED <<inputs, pc, turn>>
  BY DEF ScanInv, ScanRange
<1>2. PICK used \in rows : /\ IsLeast(used, rows) /\ rows' = rows \ {used} /\ used <= candidate
                           /\ candidate' = IF used = candidate THEN candidate + 1 ELSE candidate
  BY DEF ScanRange, Read
<1>3. ScanTypes' /\ Exhausted'
  BY <1>1, InputsStay DEF ScanTypes
<1>4. candidate \in Int /\ used \in live /\ candidate <= used
  BY <1>1, <1>2 DEF ScanLoop
<1>5. \A v \in live : v \in Int
  BY <1>1, ValuesAreNumbers DEF ScanTypes
<1>6. used = candidate /\ candidate' = candidate + 1
  BY <1>2, <1>4, <1>5
<1>7. turn \in 1..Len(ranges)
  BY <1>1 DEF ScanLoop, ScanTypes
<1>8. ranges[turn].start \in Int
  BY <1>1, <1>7, RangeAt
<1>9. ScanLoop'
  <2>1. candidate' \in Int /\ ranges[turn].start <= candidate'
    BY <1>1, <1>4, <1>6, <1>8 DEF ScanLoop
  <2>2. \A v \in Values : ranges[turn].start <= v /\ v < candidate' => v \in live
    <3>1. \A v \in Values : v < candidate + 1 => v < candidate \/ v = candidate
      BY <1>4, ValuesAreNumbers
    <3> QED BY <1>1, <1>4, <1>6, <3>1 DEF ScanLoop
  <2>3. rows' = {v \in live : InRange(ranges[turn], v) /\ candidate' <= v}
    <3>1. \A v \in live : candidate + 1 <= v <=> candidate <= v /\ v # candidate
      BY <1>4, <1>5
    <3> QED BY <1>1, <1>2, <1>6, <3>1 DEF ScanLoop
  <2> QED BY <1>1, <2>1, <2>2, <2>3 DEF ScanLoop, inputs
<1>10. GlobalSearch' /\ ReleasedLoop' /\ SkipLoop' /\ AgreesWithCandidates'
  BY <1>1 DEF GlobalSearch, ReleasedLoop, SkipLoop, AgreesWithCandidates
<1> QED BY <1>3, <1>9, <1>10 DEF ScanInv

LEMMA EndScanStep ==
  ASSUME ScanInv, EndScan
  PROVE  ScanInv'
<1>1. ScanTypes /\ Exhausted /\ ScanLoop /\ pc = "scan" /\ UNCHANGED inputs
  BY DEF ScanInv, EndScan, Return
<1>2. turn \in own /\ turn \in 1..Len(ranges) /\ candidate \in Int
  BY <1>1 DEF ScanLoop, ScanTypes
<1>3. /\ ranges[turn].start \in Cells /\ ranges[turn].end \in Cells
      /\ ranges[turn].start \in Int /\ ranges[turn].end \in Int
  BY <1>1, <1>2, RangeAt
<1>4. \A v \in live : v \in Int /\ v \in Values
  BY <1>1, ValuesAreNumbers DEF ScanTypes
<1>5. \A v \in live : InRange(ranges[turn], v) => v < candidate \/ candidate < v
  BY <1>1, <1>2, <1>4 DEF EndScan, ScanLoop
<1>6. CASE candidate <= ranges[turn].end /\ Return({[value |-> candidate, fromReserved |-> TRUE]})
  <2>1. InRange(ranges[turn], candidate)
    BY <1>1, <1>6 DEF ScanLoop, InRange
  <2>2. candidate \in Values
    BY <1>1, <1>2, <2>1, RangeAt
  <2>3. candidate \notin live
    BY <1>2, <1>5, <2>1
  <2>4. candidate \in FreeInRanges(RangesOf(own), live)
    BY <1>2, <2>1, <2>2, <2>3 DEF FreeInRanges, RangesOf, globalRangeContains
  <2>5. ASSUME NEW v \in FreeInRanges(RangesOf(own), live)
        PROVE  candidate <= v
    <3>1. PICK i \in own : InRange(ranges[i], v)
      BY DEF FreeInRanges, RangesOf, globalRangeContains
    <3>2. v \in Values /\ v \notin live /\ v \in Int
      BY ValuesAreNumbers DEF FreeInRanges
    <3>3. i \in 1..Len(ranges) /\ ~(i < turn)
      BY <1>1, <3>1, <3>2 DEF ScanTypes, Exhausted
    <3>4. ranges[i].start \in Int /\ ranges[turn].start <= ranges[i].start
      <4>1. ranges[i].start \in Int
        BY <1>1, <3>3, RangeAt
      <4>2. i = turn \/ turn < i
        BY <1>2, <3>3
      <4> QED BY <1>1, <1>2, <1>3, <3>3, <4>1, <4>2 DEF ScanTypes
    <3>5. ranges[turn].start <= v
      BY <1>3, <3>1, <3>2, <3>4 DEF InRange
    <3>6. ~(v < candidate)
      BY <1>1, <3>2, <3>5 DEF ScanLoop
    <3> QED BY <1>2, <3>2, <3>6
  <2>6. IsLeast(candidate, FreeInRanges(RangesOf(own), live))
    BY <2>4, <2>5 DEF IsLeast
  <2>7. AgreesWithCandidates'
    <3>1. chooseCandidate(candidate, TRUE, ns, AllRanges, RangesOf(own), live, ever)
      BY <2>4, <2>6 DEF chooseCandidate
    <3>2. /\ AllRanges' = AllRanges /\ RangesOf(own)' = RangesOf(own)
          /\ ns' = ns /\ live' = live /\ ever' = ever
      BY <1>1, InputsStay DEF inputs
    <3>3. result' = {[value |-> candidate, fromReserved |-> TRUE]}
      BY <1>6 DEF Return
    <3>4. \A r \in result' :
            chooseCandidate(r.value, r.fromReserved, ns, AllRanges, RangesOf(own), live, ever)
      BY <3>1, <3>3 DEF chooseCandidate
    <3> QED BY <3>2, <3>3, <3>4 DEF AgreesWithCandidates
  <2>8. ScanTypes' /\ Exhausted'
    BY <1>1, <1>6, InputsStay DEF ScanTypes, Return
  <2>9. ScanLoop' /\ GlobalSearch' /\ ReleasedLoop' /\ SkipLoop'
    BY <1>6 DEF Return, ScanLoop, GlobalSearch, ReleasedLoop, SkipLoop
  <2> QED BY <2>7, <2>8, <2>9 DEF ScanInv
<1>7. CASE /\ candidate > ranges[turn].end /\ turn' = turn + 1 /\ pc' = "range"
           /\ UNCHANGED <<inputs, candidate, rows, result>>
  <2>1. ScanTypes'
    BY <1>1, <1>2, <1>7, InputsStay
  <2>2. \A v \in Values : InRange(ranges[turn], v) => v \in live
    BY <1>1, <1>2, <1>3, <1>7, ValuesAreNumbers DEF ScanLoop, InRange
  <2>3. \A i \in own : i < turn + 1 => i < turn \/ i = turn
    BY <1>1, <1>2 DEF ScanTypes
  <2>4. Exhausted'
    BY <1>1, <1>7, <2>2, <2>3 DEF Exhausted, inputs
  <2>5. ScanLoop' /\ GlobalSearch' /\ ReleasedLoop' /\ SkipLoop' /\ AgreesWithCandidates'
    BY <1>7 DEF ScanLoop, GlobalSearch, ReleasedLoop, SkipLoop, AgreesWithCandidates
  <2> QED BY <2>1, <2>4, <2>5 DEF ScanInv
<1> QED BY <1>6, <1>7 DEF EndScan

-----------------------------------------------------------------------------
\* What the search of the whole namespace returns agrees with Candidates as
\* soon as the value does: no own range has a free one.
LEMMA ReturnsGlobal ==
  ASSUME ScanInv, pc \in {"released", "skip"}, NEW value, ReturnGlobal(value),
         nextGlobalCandidate(value, ns, AllRanges, ns.next, live, ever)
  PROVE  ScanInv'
<1>1. ScanTypes /\ Exhausted /\ Len(ranges) < turn /\ UNCHANGED <<inputs, turn>> /\ pc' = "done"
  BY DEF ScanInv, GlobalSearch, ReturnGlobal, Return
<1>2. FreeInRanges(RangesOf(own), live) = {}
  BY <1>1, NoneFree
<1>3. chooseCandidate(value, FALSE, ns, AllRanges, RangesOf(own), live, ever)
  BY <1>2 DEF chooseCandidate
<1>4. /\ AllRanges' = AllRanges /\ RangesOf(own)' = RangesOf(own)
      /\ ns' = ns /\ live' = live /\ ever' = ever
  BY <1>1, InputsStay DEF inputs
<1>5. result' = {[value |-> value, fromReserved |-> FALSE]}
  BY DEF ReturnGlobal, Return
<1>6. \A r \in result' :
        chooseCandidate(r.value, r.fromReserved, ns, AllRanges, RangesOf(own), live, ever)
  BY <1>3, <1>5 DEF chooseCandidate
<1>7. AgreesWithCandidates'
  BY <1>4, <1>5, <1>6 DEF AgreesWithCandidates
<1>8. ScanTypes' /\ Exhausted'
  BY <1>1, InputsStay DEF ScanTypes
<1>9. ScanLoop' /\ GlobalSearch' /\ ReleasedLoop' /\ SkipLoop'
  BY <1>1 DEF ScanLoop, GlobalSearch, ReleasedLoop, SkipLoop
<1> QED BY <1>7, <1>8, <1>9 DEF ScanInv

LEMMA QueryStep ==
  ASSUME ScanInv, QueryReleased
  PROVE  ScanInv'
<1>1. ScanTypes /\ Exhausted /\ Len(ranges) < turn /\ UNCHANGED <<inputs, turn>> /\ pc' = "released"
  BY DEF ScanInv, GlobalSearch, QueryReleased
<1>2. ScanTypes' /\ Exhausted'
  BY <1>1, InputsStay DEF ScanTypes
<1>3. candidate' = Floor(ns, ns.next) /\ rows' = {v \in ever \ live : v >= candidate'}
  BY DEF QueryReleased, Floor
<1>4. candidate' \in Int /\ \A v \in ever : v \in Int
  BY <1>1, <1>3, FloorIsValue, ValuesAreNumbers DEF ScanTypes
<1>5. ReleasedLoop'
  BY <1>1, <1>3, <1>4 DEF ReleasedLoop, inputs
<1>6. ScanLoop' /\ GlobalSearch' /\ SkipLoop' /\ AgreesWithCandidates'
  BY <1>1 DEF ScanLoop, GlobalSearch, SkipLoop, AgreesWithCandidates, inputs
<1> QED BY <1>2, <1>5, <1>6 DEF ScanInv

LEMMA SkipReleasedStep ==
  ASSUME ScanInv, SkipReleased
  PROVE  ScanInv'
<1>1. /\ ScanTypes /\ Exhausted /\ ReleasedLoop /\ GlobalSearch
      /\ pc = "released" /\ UNCHANGED <<inputs, turn, pc, candidate>>
  BY DEF ScanInv, SkipReleased
<1>2. PICK value \in rows : rows' = rows \ {value} /\ globalRangeContains(AllRanges, value)
  BY DEF SkipReleased, Read
<1>3. ScanTypes' /\ Exhausted' /\ AllRanges' = AllRanges
  BY <1>1, InputsStay DEF ScanTypes
<1>4. ReleasedLoop'
  BY <1>1, <1>2, <1>3 DEF ReleasedLoop, inputs
<1>5. ScanLoop' /\ GlobalSearch' /\ SkipLoop' /\ AgreesWithCandidates'
  BY <1>1 DEF ScanLoop, GlobalSearch, SkipLoop, AgreesWithCandidates, inputs
<1> QED BY <1>3, <1>4, <1>5 DEF ScanInv

\* What is left of the query holds every released value to be handed out.
LEMMA ReusableAreRows ==
  ASSUME ScanInv, pc = "released"
  PROVE  Reusable(ns, AllRanges, Floor(ns, ns.next), live, ever)
           = {v \in rows : WithinMax(ns, v) /\ ~globalRangeContains(AllRanges, v)}
<1>1. ScanTypes /\ ReleasedLoop
  BY DEF ScanInv
<1>2. rows \subseteq Values
  BY <1>1, ValuesAreNumbers DEF ReleasedLoop, ScanTypes
<1> QED BY <1>1, <1>2 DEF ReleasedLoop, Reusable

LEMMA TakeStep ==
  ASSUME ScanInv, TakeReleased
  PROVE  ScanInv'
<1>1. pc = "released"
  BY DEF TakeReleased
<1>2. PICK value \in rows : /\ IsLeast(value, rows)
                            /\ WithinMax(ns, value) /\ ~globalRangeContains(AllRanges, value)
                            /\ ReturnGlobal(value)
  BY DEF TakeReleased
<1>3. IsLeast(value, Reusable(ns, AllRanges, Floor(ns, ns.next), live, ever))
  BY <1>1, <1>2, ReusableAreRows DEF IsLeast
<1>4. nextGlobalCandidate(value, ns, AllRanges, ns.next, live, ever)
  BY <1>3 DEF nextGlobalCandidate
<1> QED BY <1>1, <1>2, <1>4, ReturnsGlobal

LEMMA HighWaterStep ==
  ASSUME ScanInv, HighWaterMark
  PROVE  ScanInv'
<1>1. /\ ScanTypes /\ Exhausted /\ ReleasedLoop /\ GlobalSearch
      /\ pc = "released" /\ pc' = "skip" /\ UNCHANGED <<inputs, turn, rows, result>>
  BY DEF ScanInv, HighWaterMark, NoneReleased
<1>2. ScanTypes' /\ Exhausted' /\ AllRanges' = AllRanges
  BY <1>1, InputsStay DEF ScanTypes
<1>3. Reusable(ns, AllRanges, Floor(ns, ns.next), live, ever) = {}
  BY <1>1, ReusableAreRows DEF HighWaterMark, NoneReleased
<1>4. /\ candidate = Floor(ns, ns.next) /\ candidate \in Values /\ candidate \in Int
      /\ ever \subseteq Int /\ Values \subseteq Int
  BY <1>1, FloorIsValue, ValuesAreNumbers DEF ReleasedLoop, ScanTypes
<1>5. /\ candidate' \in Values /\ candidate <= candidate'
      /\ \A v \in ever : v < candidate'
      /\ \A v \in Fresh(ns, AllRanges, candidate, ever) : candidate' <= v
  <2>1. CASE ever = {} /\ candidate' = candidate
    BY <1>4, <2>1 DEF Fresh
  <2>2. CASE \E top \in ever : MaxEver(top) /\ candidate' = IF candidate <= top THEN top + 1 ELSE candidate
    <3>0. PICK top \in ever : MaxEver(top) /\ candidate' = IF candidate <= top THEN top + 1 ELSE candidate
      BY <2>2
    <3>1. top \in Int /\ top + 1 \in Values /\ \A v \in ever : v \in Int /\ v <= top
      BY <1>1, <1>4, <3>0, ValuesAreNumbers DEF MaxEver, ScanTypes
    <3>2. CASE candidate <= top
      BY <1>4, <3>0, <3>1, <3>2 DEF Fresh
    <3>3. CASE ~(candidate <= top)
      BY <1>4, <3>0, <3>1, <3>3 DEF Fresh
    <3> QED BY <3>2, <3>3
  <2> QED BY <2>1, <2>2 DEF HighWaterMark
<1>6. SkipLoop'
  BY <1>1, <1>2, <1>3, <1>4, <1>5 DEF SkipLoop, inputs
<1>7. ScanLoop' /\ GlobalSearch' /\ ReleasedLoop' /\ AgreesWithCandidates'
  BY <1>1 DEF ScanLoop, GlobalSearch, ReleasedLoop, AgreesWithCandidates, inputs
<1> QED BY <1>2, <1>6, <1>7 DEF ScanInv

-----------------------------------------------------------------------------
\* The search gives up only when there is no fresh value either.
LEMMA GivesUp ==
  ASSUME ScanInv, pc = "skip", ns.max # Nil, Return({}),
         \A v \in Fresh(ns, AllRanges, Floor(ns, ns.next), ever) : FALSE
  PROVE  ScanInv'
<1>1. /\ ScanTypes /\ Exhausted /\ SkipLoop /\ Len(ranges) < turn
      /\ UNCHANGED <<inputs, turn>> /\ pc' = "done" /\ result' = {}
  BY DEF ScanInv, GlobalSearch, Return
<1>2. FreeInRanges(RangesOf(own), live) = {}
  BY <1>1, NoneFree
<1>3. NamespaceExhausted(ns, AllRanges, ns.next, live, ever)
  BY <1>1 DEF NamespaceExhausted, SkipLoop
<1>4. /\ AllRanges' = AllRanges /\ RangesOf(own)' = RangesOf(own)
      /\ ns' = ns /\ live' = live /\ ever' = ever
  BY <1>1, InputsStay DEF inputs
<1>5. AgreesWithCandidates'
  BY <1>1, <1>2, <1>3, <1>4 DEF AgreesWithCandidates
<1>6. ScanTypes' /\ Exhausted'
  BY <1>1, InputsStay DEF ScanTypes
<1>7. ScanLoop' /\ GlobalSearch' /\ ReleasedLoop' /\ SkipLoop'
  BY <1>1 DEF ScanLoop, GlobalSearch, ReleasedLoop, SkipLoop
<1> QED BY <1>5, <1>6, <1>7 DEF ScanInv

LEMMA SkipStep ==
  ASSUME ScanInv, SkipRange
  PROVE  ScanInv'
<1>1. ScanTypes /\ Exhausted /\ SkipLoop /\ GlobalSearch /\ pc = "skip"
  BY DEF ScanInv, SkipRange
<1>2. /\ candidate \in Values /\ candidate \in Int /\ Values \subseteq Int
      /\ Floor(ns, ns.next) \in Int /\ Floor(ns, ns.next) <= candidate
      /\ ns.max \in Int \cup {Nil} /\ Nil \notin Int
      /\ ever \subseteq Int
  BY <1>1, FloorIsValue, ValuesAreNumbers DEF SkipLoop, ScanTypes
<1>3. \A v \in Fresh(ns, AllRanges, Floor(ns, ns.next), ever) :
        v \in Int /\ candidate <= v /\ WithinMax(ns, v) /\ ~globalRangeContains(AllRanges, v)
  BY <1>1, <1>2 DEF SkipLoop, Fresh
<1>4. CASE ~WithinMax(ns, candidate) /\ Return({})
  <2>1. ns.max \in Int /\ ns.max # Nil /\ ns.max < candidate
    BY <1>2, <1>4 DEF WithinMax
  <2>2. \A v \in Fresh(ns, AllRanges, Floor(ns, ns.next), ever) : FALSE
    BY <1>2, <1>3, <2>1 DEF WithinMax
  <2> QED BY <1>1, <1>4, <2>1, <2>2, GivesUp
<1>5. ASSUME NEW i \in 1..Len(ranges), Containing(i),
             \/ ns.max # Nil /\ ranges[i].end >= ns.max /\ Return({})
             \/ /\ ns.max # Nil => ranges[i].end < ns.max
                /\ candidate' = ranges[i].end + 1
                /\ UNCHANGED <<inputs, pc, turn, rows, result>>
      PROVE  ScanInv'
  <2>1. /\ ranges[i].start \in Int /\ ranges[i].end \in Int /\ ranges[i].end \in Cells
        /\ ranges[i] \in AllRanges
        /\ ranges[i].start <= candidate /\ candidate <= ranges[i].end
    BY <1>1, <1>5, RangeAt DEF Containing, InRange
  <2>2. \A v \in Fresh(ns, AllRanges, Floor(ns, ns.next), ever) : ranges[i].end < v
    <3> SUFFICES ASSUME NEW v \in Fresh(ns, AllRanges, Floor(ns, ns.next), ever),
                        ~(ranges[i].end < v)
                 PROVE  FALSE
      OBVIOUS
    <3>1. v \in Int /\ ~globalRangeContains(AllRanges, v) /\ candidate <= v
      BY <1>3
    <3>2. InRange(ranges[i], v)
      BY <1>2, <2>1, <3>1 DEF InRange
    <3> QED BY <2>1, <3>1, <3>2 DEF globalRangeContains
  <2>3. CASE ns.max # Nil /\ ranges[i].end >= ns.max /\ Return({})
    <3>1. \A v \in Fresh(ns, AllRanges, Floor(ns, ns.next), ever) : FALSE
      <4> SUFFICES ASSUME NEW v \in Fresh(ns, AllRanges, Floor(ns, ns.next), ever)
                   PROVE  FALSE
        OBVIOUS
      <4>1. v \in Int /\ v <= ns.max /\ ranges[i].end < v
        BY <1>3, <2>2, <2>3 DEF WithinMax
      <4> QED BY <1>2, <2>1, <2>3, <4>1
    <3> QED BY <1>1, <2>3, <3>1, GivesUp
  <2>4. CASE /\ candidate' = ranges[i].end + 1
             /\ UNCHANGED <<inputs, pc, turn, rows, result>>
    <3>1. ScanTypes' /\ Exhausted' /\ AllRanges' = AllRanges
      BY <1>1, <2>4, InputsStay DEF ScanTypes
    <3>2. candidate' \in Values /\ candidate' \in Int /\ candidate < candidate'
      BY <1>2, <2>1, <2>4, ValuesAreNumbers
    <3>3. \A v \in ever : v < candidate'
      BY <1>1, <1>2, <3>2 DEF SkipLoop
    <3>4. \A v \in Fresh(ns, AllRanges, Floor(ns, ns.next), ever) : candidate' <= v
      BY <1>3, <2>1, <2>2, <2>4
    <3>5. Floor(ns, ns.next) <= candidate'
      BY <1>2, <3>2
    <3>6. SkipLoop'
      BY <1>1, <2>4, <3>1, <3>2, <3>3, <3>4, <3>5 DEF SkipLoop, inputs
    <3>7. ScanLoop' /\ GlobalSearch' /\ ReleasedLoop' /\ AgreesWithCandidates'
      BY <1>1, <2>4 DEF ScanLoop, GlobalSearch, ReleasedLoop, AgreesWithCandidates, inputs
    <3> QED BY <3>1, <3>6, <3>7 DEF ScanInv
  <2> QED BY <1>5, <2>3, <2>4
<1>6. CASE WithinMax(ns, candidate) /\ ~globalRangeContains(AllRanges, candidate) /\ ReturnGlobal(candidate)
  <2>1. candidate \in Fresh(ns, AllRanges, Floor(ns, ns.next), ever)
    BY <1>1, <1>2, <1>6 DEF SkipLoop, Fresh
  <2>2. IsLeast(candidate, Fresh(ns, AllRanges, Floor(ns, ns.next), ever))
    BY <1>3, <2>1 DEF IsLeast
  <2>3. nextGlobalCandidate(candidate, ns, AllRanges, ns.next, live, ever)
    BY <1>1, <2>2 DEF nextGlobalCandidate, SkipLoop
  <2> QED BY <1>1, <1>6, <2>3, ReturnsGlobal
<1> QED BY <1>4, <1>5, <1>6 DEF SkipRange

-----------------------------------------------------------------------------
LEMMA ScanStays == ScanInv /\ UNCHANGED vars => ScanInv'
<1> SUFFICES ASSUME ScanInv, UNCHANGED vars
             PROVE  ScanInv'
  OBVIOUS
<1>1. AllRanges' = AllRanges /\ RangesOf(own)' = RangesOf(own)
  BY DEF vars, AllRanges, RangesOf
<1>2. ScanTypes' /\ Exhausted' /\ ScanLoop' /\ GlobalSearch'
  BY DEF vars, ScanInv, ScanTypes, Exhausted, ScanLoop, GlobalSearch
<1>3. ReleasedLoop' /\ SkipLoop' /\ AgreesWithCandidates'
  BY <1>1 DEF vars, ScanInv, ReleasedLoop, SkipLoop, AgreesWithCandidates
<1> QED BY <1>2, <1>3 DEF ScanInv

\* Of every state of the scans, ScanInv holds.
LEMMA ScansInvariance == Spec => []ScanInv
<1>1. ScanInv /\ [Next]_vars => ScanInv'
  <2> SUFFICES ASSUME ScanInv, [Next]_vars
               PROVE  ScanInv'
    OBVIOUS
  <2>1. CASE NextRange     BY <2>1, RangeStep
  <2>2. CASE ScanRange     BY <2>2, ScanStep
  <2>3. CASE EndScan       BY <2>3, EndScanStep
  <2>4. CASE QueryReleased BY <2>4, QueryStep
  <2>5. CASE SkipReleased  BY <2>5, SkipReleasedStep
  <2>6. CASE TakeReleased  BY <2>6, TakeStep
  <2>7. CASE HighWaterMark BY <2>7, HighWaterStep
  <2>8. CASE SkipRange     BY <2>8, SkipStep
  <2>9. CASE Done          BY <2>9, ScanStays DEF Done
  <2>10. CASE UNCHANGED vars BY <2>10, ScanStays
  <2> QED BY <2>1, <2>2, <2>3, <2>4, <2>5, <2>6, <2>7, <2>8, <2>9, <2>10 DEF Next
<1> QED BY ScanInit, <1>1, PTL DEF Spec

\* For all values, bounds, ranges and entries: what the scans of
\* chooseCandidate return is what Candidates defines, on which the registry's
\* model is built.
THEOREM ScansAgree == Spec => []AgreesWithCandidates
<1>1. ScanInv => AgreesWithCandidates
  BY DEF ScanInv
<1> QED BY <1>1, ScansInvariance, PTL

-----------------------------------------------------------------------------
(***************************************************************************)
(* Why the scans end: every step goes on to a later range, or to a later   *)
(* stage, or reads one more row, or leaves at least one more range behind. *)
(***************************************************************************)
Stage == [range |-> 0, scan |-> 1, global |-> 2, released |-> 3, skip |-> 4, done |-> 5]

\* The ranges that can still hold a later candidate.
Ahead == {i \in 1..Len(ranges) : candidate <= ranges[i].end}

Advances ==
  \/ turn < turn' /\ turn' <= Len(ranges) + 1
  \/ turn' = turn /\ Stage[pc] < Stage[pc']
  \/ /\ UNCHANGED <<turn, pc>>
     /\ \/ pc \in {"scan", "released"} /\ rows' \subseteq rows /\ rows' # rows
        \/ pc = "skip" /\ Ahead' \subseteq Ahead /\ Ahead' # Ahead

LEMMA SkipAdvances == ScanInv /\ SkipRange => Advances
<1> SUFFICES ASSUME ScanInv, SkipRange PROVE Advances
  OBVIOUS
<1>1. pc = "skip" /\ candidate \in Int
  BY ValuesAreNumbers DEF SkipRange, ScanInv, SkipLoop
<1>2. ASSUME NEW values, Return(values) PROVE Advances
  BY <1>1, <1>2 DEF Return, Advances, Stage
<1>3. ASSUME NEW i \in 1..Len(ranges), Containing(i), candidate' = ranges[i].end + 1,
             UNCHANGED <<inputs, pc, turn, rows, result>>
      PROVE  Advances
  <2>1. \A j \in 1..Len(ranges) : ranges[j].end \in Int
    BY RangeAt DEF ScanInv
  <2>2. candidate <= ranges[i].end /\ ranges' = ranges
    BY <1>3 DEF Containing, InRange, inputs
  <2>3. i \in Ahead /\ i \notin Ahead'
    BY <1>1, <1>3, <2>1, <2>2 DEF Ahead
  <2>4. Ahead' \subseteq Ahead
    <3>1. candidate < candidate' /\ candidate' \in Int
      BY <1>1, <1>3, <2>1, <2>2
    <3>2. ASSUME NEW j \in Ahead' PROVE j \in Ahead
      <4>1. j \in 1..Len(ranges) /\ candidate' <= ranges[j].end
        BY <2>2, <3>2 DEF Ahead
      <4>2. ranges[j].end \in Int
        BY <2>1, <4>1
      <4>3. candidate <= ranges[j].end
        BY <1>1, <3>1, <4>1, <4>2
      <4> QED
        BY <4>1, <4>3 DEF Ahead
    <3> QED
      BY <3>2
  <2> QED
    BY <1>1, <1>3, <2>3, <2>4 DEF Advances
<1> QED
  BY <1>2, <1>3 DEF SkipRange, ReturnGlobal

LEMMA StepAdvances == ScanInv /\ Next => Advances \/ UNCHANGED vars
<1> SUFFICES ASSUME ScanInv, Next PROVE Advances \/ UNCHANGED vars
  OBVIOUS
<1>0. ScanTypes /\ ScanLoop
  BY DEF ScanInv
<1>1. turn \in Nat /\ Len(ranges) \in Nat
  BY <1>0 DEF ScanTypes
<1>2. ASSUME NEW values, Return(values), pc \in {"scan", "released"} PROVE Advances
  BY <1>2 DEF Return, Advances, Stage
<1>3. ASSUME NEW value, Read(value), pc \in {"scan", "released"}, UNCHANGED <<turn, pc>> PROVE Advances
  <2>1. value \in rows /\ rows' = rows \ {value}
    BY <1>3 DEF Read, IsLeast
  <2> QED
    BY <1>3, <2>1 DEF Advances
<1>4. CASE NextRange
  BY <1>1, <1>4 DEF NextRange, Advances, Stage
<1>5. CASE ScanRange
  BY <1>3, <1>5 DEF ScanRange
<1>6. CASE EndScan
  <2>1. turn <= Len(ranges)
    BY <1>0, <1>6 DEF EndScan, ScanLoop, ScanTypes
  <2> QED
    BY <1>1, <1>2, <1>6, <2>1 DEF EndScan, Advances
<1>7. CASE QueryReleased
  BY <1>7 DEF QueryReleased, Advances, Stage
<1>8. CASE SkipReleased
  BY <1>3, <1>8 DEF SkipReleased
<1>9. CASE TakeReleased
  BY <1>2, <1>9 DEF TakeReleased, ReturnGlobal
<1>10. CASE HighWaterMark
  BY <1>10 DEF HighWaterMark, NoneReleased, Advances, Stage
<1>11. CASE SkipRange
  BY <1>11, SkipAdvances
<1> QED
  BY <1>4, <1>5, <1>6, <1>7, <1>8, <1>9, <1>10, <1>11 DEF Next, Done

\* Whatever the ranges, the rows and the bounds, no loop of chooseCandidate
\* takes a turn that brings it no further: not even that of
\* nextNonReservedValue, which starts anew with the first range every time.
THEOREM ScansAdvance == Spec => [][Advances]_vars
<1>1. ScanInv /\ [Next]_vars => [Advances]_vars
  BY StepAdvances
<1> QED
  BY <1>1, ScansInvariance, PTL DEF Spec
=============================================================================
