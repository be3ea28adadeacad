---------------------------- MODULE TypeRegistry ----------------------------
(***************************************************************************)
(* What the registry promises, without handlers, locks, cursors or         *)
(* transactions: batches of distinct values are granted at once, and       *)
(* granted values are released for ever.                                   *)
(***************************************************************************)
EXTENDS Integers

CONSTANTS
  Ids,         \* the entries there can be, pairs of a batch and a place in it
  Namespaces, Ranges, Key(_), Nil,
  StoredEntries, StoredNamespaces

VARIABLES
  entries,     \* by id: Nil, or a row with ns, value, symbol, project, status
  limits       \* by namespace: Nil, or its max and status

vars == <<entries, limits>>

Live(i) == entries[i] # Nil /\ entries[i].status # "REVOKED"

Limits(row) == IF row = Nil THEN Nil ELSE [max |-> row.max, status |-> row.status]

\* v may be given to project in namespace n: it is in no reserved range and
\* within the maximum, or in a range of that project.
Permitted(n, v, project) ==
  LET containing == {r \in Ranges[n] : r.start <= v /\ v <= r.end}
  IN  IF containing = {}
      THEN limits[n].max = Nil \/ v <= limits[n].max
      ELSE \E r \in containing :
             Nil \notin {r.project, project} /\ Key(r.project) = Key(project)

Init ==
  /\ entries = StoredEntries
  /\ limits = [n \in Namespaces |-> Limits(StoredNamespaces[n])]

\* A batch of new live rows, in one active namespace.
Grant(n) ==
  /\ limits[n] # Nil /\ limits[n].status = "ACTIVE"
  /\ \A i \in Ids : entries'[i] # entries[i] =>
       /\ entries[i] = Nil
       /\ entries'[i] # Nil /\ entries'[i].ns = n /\ entries'[i].status = "ACTIVE"
       /\ Permitted(n, entries'[i].value, entries'[i].project)
       /\ \A j \in Ids \ {i} :
            entries'[j] # Nil /\ entries'[j].status # "REVOKED" /\ entries'[j].ns = n =>
              /\ entries'[j].value # entries'[i].value
              /\ entries'[j].symbol # Nil => entries'[j].symbol # entries'[i].symbol
              /\ entries[j] = Nil => j[1] = i[1]
  /\ UNCHANGED limits

\* Some ACTIVE rows of one batch are revoked, and stay as they were otherwise.
ReleaseBatch(a) ==
  /\ \E S \in SUBSET {i \in Ids : i[1] = a /\ entries[i] # Nil} :
       /\ \A i \in S : entries[i].status = "ACTIVE"
       /\ entries' = [i \in Ids |->
            IF i \in S THEN [entries[i] EXCEPT !.status = "REVOKED"] ELSE entries[i]]
  /\ UNCHANGED limits

\* New limits, which every live value respects.
SetLimits(n) ==
  /\ limits'[n] # Nil
  /\ limits' = [limits EXCEPT ![n] = limits'[n]]
  /\ limits[n] # Nil /\ limits'[n].max # Nil =>
       \A i \in Ids : Live(i) /\ entries[i].ns = n => entries[i].value <= limits'[n].max
  /\ UNCHANGED entries

Next ==
  \/ \E n \in Namespaces : Grant(n) \/ SetLimits(n)
  \/ \E a \in {i[1] : i \in Ids} : ReleaseBatch(a)

Spec == Init /\ [][Next]_vars
=============================================================================
