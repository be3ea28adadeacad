----------------------------- MODULE Candidates -----------------------------
(***************************************************************************)
(* Which value the registry hands out next.                                *)
(*                                                                         *)
(* The store answers that question with scans over query results and over  *)
(* the sorted list of reserved ranges (chooseCandidate, firstFreeInRange,  *)
(* nextGlobalCandidate, nextNonReservedValue in internal/store/entry.go).  *)
(* This module says what those scans compute, as a relation between a      *)
(* value and                                                               *)
(*   ns     a type_namespaces row: its next, min and max fields are used,  *)
(*   ranges the reserved ranges of that namespace,                         *)
(*   live   the values of its entries whose status is not REVOKED,         *)
(*   ever   the values of all its entries.                                 *)
(* A value of which every entry is REVOKED, which the query of             *)
(* nextGlobalCandidate selects, is then a member of ever \ live.           *)
(*                                                                         *)
(* CandidateLoops steps through the scans themselves and compares.         *)
(***************************************************************************)
EXTENDS Integers

CONSTANTS
  Values,  \* the type values that can be handed out; the bound of every run
  Nil      \* an absent min_value, max_value, or any other NULL

ASSUME CandidatesAssumption == Values \subseteq Int /\ Nil \notin Int

IsLeast(v, S) == v \in S /\ \A w \in S : v <= w

InRange(r, v) == r.start <= v /\ v <= r.end

globalRangeContains(ranges, v) == \E r \in ranges : InRange(r, v)

\* Faulty variant: one more than the maximum.
PastMax(ns, v) == ns.max # Nil => v <= ns.max + 1
WithinMax(ns, v) == ns.max # Nil => v <= ns.max

Floor(ns, start) == IF ns.min # Nil /\ start < ns.min THEN ns.min ELSE start

(***************************************************************************)
(* The free values of a project's own ranges.  The code takes the ranges   *)
(* in the order of (start, end) and the least free value of the first one  *)
(* that has any; that is the least free value of them all.                 *)
(***************************************************************************)
FreeInRanges(own, live) ==
  {v \in Values : globalRangeContains(own, v) /\ v \notin live}

\* Faulty variant: r.value > floor.
ReusableAbove(ns, ranges, floor, live, ever) ==
  {v \in (ever \ live) \cap Values :
      floor < v /\ WithinMax(ns, v) /\ ~globalRangeContains(ranges, v)}

\* Faulty variant: released values are not compared with the ranges.
ReusableReserved(ns, ranges, floor, live, ever) ==
  {v \in (ever \ live) \cap Values : floor <= v /\ WithinMax(ns, v)}

\* Released values that may be handed out again at or above floor.
Reusable(ns, ranges, floor, live, ever) ==
  {v \in (ever \ live) \cap Values :
      floor <= v /\ WithinMax(ns, v) /\ ~globalRangeContains(ranges, v)}

\* Values above everything the namespace has ever held.
Fresh(ns, ranges, floor, ever) ==
  {v \in Values :
      /\ floor <= v
      /\ \A u \in ever : u < v
      /\ WithinMax(ns, v)
      /\ ~globalRangeContains(ranges, v)}

\* v is what a search from start returns: the least released value, or else
\* the first fresh one.
nextGlobalCandidate(v, ns, ranges, start, live, ever) ==
  LET released == Reusable(ns, ranges, Floor(ns, start), live, ever)
      fresh    == Fresh(ns, ranges, Floor(ns, start), ever)
  IN  \/ IsLeast(v, released)
      \/ released = {} /\ IsLeast(v, fresh)

\* ErrNamespaceExhausted.  Without a maximum the search never gives up.
NamespaceExhausted(ns, ranges, start, live, ever) ==
  /\ ns.max # Nil
  /\ Reusable(ns, ranges, Floor(ns, start), live, ever) = {}
  /\ Fresh(ns, ranges, Floor(ns, start), ever) = {}

(***************************************************************************)
(* chooseCandidate: a free value of the project's own ranges if there is   *)
(* one (fromReserved), else the global candidate at the cursor.            *)
(***************************************************************************)
chooseCandidate(v, fromReserved, ns, ranges, own, live, ever) ==
  IF FreeInRanges(own, live) # {}
  THEN fromReserved /\ IsLeast(v, FreeInRanges(own, live))
  ELSE ~fromReserved /\ nextGlobalCandidate(v, ns, ranges, ns.next, live, ever)

\* The cursor after candidate was taken; past it when nothing is left.
NextCursor(c, candidate, ns, ranges, live, ever) ==
  IF NamespaceExhausted(ns, ranges, candidate + 1, live, ever)
  THEN c = candidate + 1
  ELSE nextGlobalCandidate(c, ns, ranges, candidate + 1, live, ever)
=============================================================================
