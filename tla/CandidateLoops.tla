--------------------------- MODULE CandidateLoops ---------------------------
(***************************************************************************)
(* The scans of chooseCandidate in internal/store/entry.go, one turn of a  *)
(* loop at a time, for every small namespace: that they end, and that what *)
(* they return is what Candidates says.                                    *)
(***************************************************************************)
EXTENDS Candidates, Sequences

CONSTANTS
  Cells,      \* the values that entries and ranges may have
  MaxRanges,  \* the number of reserved ranges
  Starts, Mins, Maxs  \* the next_value, min_value, max_value a namespace may have

\* No value that a scan can come to is left out of Values.
ASSUME CandidateLoopsAssumption ==
  /\ MaxRanges \in Nat
  /\ \A a, b \in Cells : a..b \subseteq Values
  /\ \A a \in Cells : a + 1 \in Values
  /\ Cells \cup Starts \cup (Mins \ {Nil}) \subseteq Values
  /\ Maxs \subseteq Int \cup {Nil}

VARIABLES
  ns,         \* the namespace row
  ranges,     \* its reserved ranges, as decodeReservedRanges sorts them
  own,        \* which of them the requesting project has
  live, ever, \* the values in use, and all that were ever in use
  pc,
  turn,       \* index in ranges
  candidate,
  rows,       \* what is left of a query result, read in ascending order
  result      \* what is returned: a value, or none when exhausted

inputs == <<ns, ranges, own, live, ever>>
vars == <<ns, ranges, own, live, ever, pc, turn, candidate, rows, result>>

\* sort.Slice in decodeReservedRanges.
Before(r, q) == r.start < q.start \/ (r.start = q.start /\ r.end < q.end)

RangesOf(indexes) == {ranges[i] : i \in indexes}
AllRanges == RangesOf(1..Len(ranges))

Init ==
  /\ ranges \in UNION {[1..k -> [start: Cells, end: Cells]] : k \in 0..MaxRanges}
  /\ \A i \in 1..Len(ranges) : ranges[i].start <= ranges[i].end
  /\ \A i, j \in 1..Len(ranges) : i < j => ~Before(ranges[j], ranges[i])
  /\ own \in SUBSET (1..Len(ranges))
  /\ ever \in SUBSET Cells
  /\ live \in SUBSET ever
  /\ \E min \in Mins, max \in Maxs, next \in Starts :
       /\ min # Nil /\ max # Nil => min <= max
       /\ ns = [next |-> next, min |-> min, max |-> max]
  /\ pc = "range"
  /\ turn = 1
  /\ candidate = 0
  /\ rows = {}
  /\ result = {}

Return(values) ==
  /\ result' = values
  /\ pc' = "done"
  /\ UNCHANGED <<inputs, turn, candidate, rows>>

\* for _, r := range ns.ReservedRanges, in chooseCandidate.
NextRange ==
  /\ pc = "range"
  /\ \/ /\ turn > Len(ranges)
        /\ pc' = "global"
        /\ UNCHANGED <<turn, candidate, rows>>
     \/ /\ turn <= Len(ranges) /\ turn \notin own
        /\ turn' = turn + 1
        /\ UNCHANGED <<pc, candidate, rows>>
     \/ /\ turn <= Len(ranges) /\ turn \in own
        /\ candidate' = ranges[turn].start
        /\ rows' = {v \in live : InRange(ranges[turn], v)}
        /\ pc' = "scan"
        /\ UNCHANGED turn
  /\ UNCHANGED <<inputs, result>>

\* rows.Next() and rows.Scan.
Read(value) == IsLeast(value, rows) /\ rows' = rows \ {value}

\* for rows.Next(), in firstFreeInRange.
ScanRange ==
  /\ pc = "scan"
  /\ \E used \in rows :
       /\ Read(used)
       /\ used <= candidate
       /\ candidate' = IF used = candidate THEN candidate + 1 ELSE candidate
  /\ UNCHANGED <<inputs, pc, turn, result>>

EndScan ==
  /\ pc = "scan"
  /\ \A used \in rows : used > candidate
  /\ \/ candidate <= ranges[turn].end /\ Return({[value |-> candidate, fromReserved |-> TRUE]})
     \/ /\ candidate > ranges[turn].end
        /\ turn' = turn + 1
        /\ pc' = "range"
        /\ UNCHANGED <<inputs, candidate, rows, result>>

\* The query for released values in nextGlobalCandidate.
QueryReleased ==
  /\ pc = "global"
  /\ candidate' = IF ns.min # Nil /\ ns.next < ns.min THEN ns.min ELSE ns.next
  /\ rows' = {v \in ever \ live : v >= candidate'}
  /\ pc' = "released"
  /\ UNCHANGED <<inputs, turn, result>>

SkipReleased ==
  /\ pc = "released"
  /\ \E value \in rows :
       Read(value) /\ WithinMax(ns, value) /\ globalRangeContains(AllRanges, value)
  /\ UNCHANGED <<inputs, pc, turn, candidate, result>>

ReturnGlobal(value) == Return({[value |-> value, fromReserved |-> FALSE]})

TakeReleased ==
  /\ pc = "released"
  /\ \E value \in rows :
       /\ IsLeast(value, rows)
       /\ WithinMax(ns, value) /\ ~globalRangeContains(AllRanges, value)
       /\ ReturnGlobal(value)

\* No row is left, or those left are above the maximum.
NoneReleased ==
  /\ pc = "released"
  /\ \A value \in rows : ~WithinMax(ns, value)

\* SELECT MAX(value) over all entries.
MaxEver(top) == top \in ever /\ \A v \in ever : v <= top

\* Faulty variant: a cursor on the high-water mark stays there.
HighWaterMarkBelow ==
  /\ NoneReleased
  /\ \/ ever = {} /\ candidate' = candidate
     \/ \E top \in ever :
          /\ MaxEver(top)
          /\ candidate' = IF candidate < top THEN top + 1 ELSE candidate
  /\ pc' = "skip"
  /\ UNCHANGED <<inputs, turn, rows, result>>

HighWaterMark ==
  /\ NoneReleased
  /\ \/ ever = {} /\ candidate' = candidate
     \/ \E top \in ever :
          /\ MaxEver(top)
          /\ candidate' = IF candidate <= top THEN top + 1 ELSE candidate
  /\ pc' = "skip"
  /\ UNCHANGED <<inputs, turn, rows, result>>

\* The first range that holds the candidate, in nextNonReservedValue.
Containing(i) ==
  /\ i \in 1..Len(ranges) /\ InRange(ranges[i], candidate)
  /\ \A j \in 1..(i - 1) : ~InRange(ranges[j], candidate)

\* Faulty variant: candidate = r.EndValue.
SkipToEnd ==
  /\ pc = "skip"
  /\ \/ ~WithinMax(ns, candidate) /\ Return({})
     \/ /\ WithinMax(ns, candidate)
        /\ \E i \in 1..Len(ranges) : Containing(i) /\ candidate' = ranges[i].end
        /\ UNCHANGED <<inputs, pc, turn, rows, result>>
     \/ /\ WithinMax(ns, candidate) /\ ~globalRangeContains(AllRanges, candidate)
        /\ ReturnGlobal(candidate)

SkipRange ==
  /\ pc = "skip"
  /\ \/ ~WithinMax(ns, candidate) /\ Return({})
     \/ /\ WithinMax(ns, candidate)
        /\ \E i \in 1..Len(ranges) :
             /\ Containing(i)
             /\ \/ ns.max # Nil /\ ranges[i].end >= ns.max /\ Return({})
                \/ /\ ns.max # Nil => ranges[i].end < ns.max
                   /\ candidate' = ranges[i].end + 1
                   /\ UNCHANGED <<inputs, pc, turn, rows, result>>
     \/ /\ WithinMax(ns, candidate) /\ ~globalRangeContains(AllRanges, candidate)
        /\ ReturnGlobal(candidate)

Done == pc = "done" /\ UNCHANGED vars

Next ==
  \/ NextRange \/ ScanRange \/ EndScan
  \/ QueryReleased \/ SkipReleased \/ TakeReleased \/ HighWaterMark \/ SkipRange
  \/ Done

Spec == Init /\ [][Next]_vars /\ WF_vars(Next)

-----------------------------------------------------------------------------
\* The scans return a value exactly when Candidates has one, the same one,
\* and say that it comes from a reserved range in the same cases
\* (chooseCandidate).
AgreesWithCandidates ==
  pc = "done" =>
    /\ \A r \in result :
         chooseCandidate(r.value, r.fromReserved, ns, AllRanges, RangesOf(own), live, ever)
    /\ result = {} =>
         /\ FreeInRanges(RangesOf(own), live) = {}
         /\ NamespaceExhausted(ns, AllRanges, ns.next, live, ever)

\* No layout of ranges keeps the loop of nextNonReservedValue, which has no
\* exit condition of its own, going for ever.
ScansEnd == <>(pc = "done")
=============================================================================
