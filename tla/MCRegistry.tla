----------------------------- MODULE MCRegistry -----------------------------
(***************************************************************************)
(* The instances of Registry that TLC checks, and the properties checked.  *)
(***************************************************************************)
EXTENDS RegistryProperties, TLC, FiniteSets

CONSTANTS h1, h2, h3, n1, n2, n3, a1, a2, a3, a4, P, p, Q, s

Symmetry == Permutations(Handlers) \cup Permutations(Allocs)
HandlerSymmetry == Permutations(Handlers)

\* P and p are two spellings of one name.
MCKey(name) == IF name = p THEN P ELSE name

Row(next, min, max) == [next |-> next, min |-> min, max |-> max, status |-> "ACTIVE"]
Reserved(start, end, project) == [start |-> start, end |-> end, project |-> project]
Empty == [i \in Ids |-> Nil]

Allocations(n, names, symbols, counts) ==
  [op: {"allocate"}, ns: {n}, project: names, symbol: symbols, count: counts, alloc: Allocs]
Recalculations(n) == [op: {"recalculate"}, ns: {n}]

-----------------------------------------------------------------------------
\* small: one namespace 1..3 without reserved ranges; batches and symbols; a
\* batch is revoked as a whole, or its first entry alone.
SmallRanges == [n \in {n1} |-> {}]
SmallNamespaces == [n \in {n1} |-> Row(1, 1, 3)]
SmallWorkload ==
  Allocations(n1, {Nil}, {Nil, s}, 1..MaxCount) \cup Recalculations(n1)
    \cup [op: {"revokeEntry"}, id: Allocs \X {1}] \cup [op: {"revokeAllocation"}, alloc: Allocs]

-----------------------------------------------------------------------------
\* ranges: value 2 is reserved for P, value 3 for nobody; the bounds and the
\* status change, and a1 is a DEPRECATED entry of an older database.
RangesRanges == [n \in {n1} |-> {Reserved(2, 2, P), Reserved(3, 3, Nil)}]
RangesNamespaces == [n \in {n1} |-> Row(1, Nil, Nil)]
RangesEntries ==
  [Empty EXCEPT ![<<a1, 1>>] =
     [ns |-> n1, value |-> 1, symbol |-> Nil, project |-> Nil, status |-> "DEPRECATED"]]
RangesBounds == {<<1, 3>>, <<1, 5>>, <<3, 5>>}
RangesWorkload ==
  Allocations(n1, {Nil, p, Q}, {Nil}, {1})
    \cup [op: {"revokeEntry"}, id: Ids]
    \cup Recalculations(n1)
    \cup [op: {"update"}, ns: {n1}, bounds: {<<1, 3>>, <<3, 5>>}, status: {"ACTIVE"}]
    \cup [op: {"update"}, ns: {n1}, bounds: {<<1, 5>>}, status: {"ACTIVE", "DEPRECATED"}]

-----------------------------------------------------------------------------
\* answered: a new project under two spellings, in three namespaces at once,
\* one of them created along the way; a recalculation waits for the row of another.
AnsweredRanges == [n \in {n1, n2, n3} |-> {}]
AnsweredNamespaces == [n \in {n1, n2, n3} |-> IF n = n2 THEN Nil ELSE Row(1, Nil, 2)]
AnsweredNewRows == {Row(1, Nil, Nil)}
AnsweredWorkload ==
  {[op |-> "allocate", ns |-> n1, project |-> P, symbol |-> Nil, count |-> 1, alloc |-> a1],
   [op |-> "allocate", ns |-> n2, project |-> p, symbol |-> Nil, count |-> 1, alloc |-> a2],
   [op |-> "allocate", ns |-> n3, project |-> P, symbol |-> Nil, count |-> 1, alloc |-> a3]}
    \cup Recalculations(n1)

-----------------------------------------------------------------------------
\* stranded_by_range: value 2 of 1..3 is reserved for P.
StrandedRanges == [n \in {n1} |-> {Reserved(2, 2, P)}]
StrandedWorkload == Allocations(n1, {Nil, P}, {Nil}, {1}) \cup [op: {"revokeEntry"}, id: Ids]
=============================================================================
