------------------------------- MODULE MCPage -------------------------------
(***************************************************************************)
(* The instances of Page that TLC checks.                                  *)
(***************************************************************************)
EXTENDS PageProperties, TLC

CONSTANTS n1, n2, x, y

\* The entries are in n2; one of them is there at first.
MCNamespaceOf == [e \in Entries |-> n2]

\* page: an alias in n1; wrong_alias: one of the same id in each namespace.
PageAliases == [n \in Namespaces |-> IF n = n1 THEN {[id |-> 1, label |-> x]} ELSE {}]
WrongAliases == [n \in Namespaces |-> {[id |-> 1, label |-> IF n = n1 THEN x ELSE y]}]
=============================================================================
