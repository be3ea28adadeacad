------------------------------ MODULE MCLabels ------------------------------
(***************************************************************************)
(* The instances of Labels that TLC checks.                                *)
(***************************************************************************)
EXTENDS LabelsProperties, TLC

CONSTANTS h1, h2, A, B, C, D

Symmetry == Permutations(Handlers)

NamespaceA == [code |-> A, display |-> A, aliases |-> {}]
Stored == [r \in Rows |-> IF r = 1 THEN NamespaceA ELSE Nil]
StoredTwo ==
  [r \in Rows |->
     CASE r = 1 -> NamespaceA [] r = 2 -> [NamespaceA EXCEPT !.code = B, !.display = B] [] OTHER -> Nil]

\* Aliases of two namespaces, deleted, renamed, created and resolved.
Racing ==
  [op: {"alias"}, code: {A, B}, label: {C, D}] \cup [op: {"unalias"}, code: {A}, id: {1}]
    \cup [op: {"update"}, code: {A, B}, display: {C}]
    \cup [op: {"create"}, code: {C, D}, display: {C}]
    \cup [op: {"resolve"}, label: {C}]
=============================================================================
