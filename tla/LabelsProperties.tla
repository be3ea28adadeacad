-------------------------- MODULE LabelsProperties --------------------------
(***************************************************************************)
(* What the labels of Labels promise.                                      *)
(***************************************************************************)
EXTENDS Labels

\* The types of the variables (internal/model/model.go, and the stages of the
\* handlers in internal/service/registry.go).
TypeOK ==
  /\ row \in [Rows -> Namespace \cup {Nil}]
  /\ lock \in [Rows -> Handlers \cup {Free}]
  /\ pc \in [Handlers -> {"idle", "code", "display", "insert", "find", "except", "update", "exists",
                          "scan", "write", "delete", "resolve", "names", "done"}]
  /\ req \in [Handlers -> Workload \cup {NoRequest}]
  /\ target \in [Handlers -> Rows \cup {Nil}]
  /\ list \in [Handlers -> SUBSET Alias]
  /\ answer \in [Handlers ->
       {Nil, "ok", "found", "notFound", "conflict", "invalid", "error"}]
  /\ overlapped \in BOOLEAN

\* No two aliases are the same label, in one namespace or in two, however many
\* requests register aliases at once: each holds the locks of all rows while
\* it checks and writes (CreateNamespaceAlias).
AliasesDistinct ==
  \A r, k \in Present : \A x \in row[r].aliases, y \in row[k].aliases :
    x.label = y.label => r = k /\ x = y

\* The id by which an alias is deleted names one alias of its namespace.
AliasIdsDistinct ==
  \A r \in Present : \A x, y \in row[r].aliases : x.id = y.id => x = y

\* The code of a namespace names one namespace, whatever races (uk_namespace_code).
CodesDistinct == \A r, k \in Present : row[r].code = row[k].code => r = k

\* An alias goes only by a deletion of its id: no update of the JSON list,
\* a read and a write back, loses one that was added in between.
OnlyNamedDeleted ==
  [][\A r \in Present : \A item \in row[r].aliases :
       item \notin row'[r].aliases =>
         \E h \in Handlers : /\ pc[h] = "delete" /\ target[h] = r
                             /\ req[h].id = item.id]_vars

\* Every label names one namespace (src/README.md:173), and no alias repeats
\* the code or the name of its own.
LabelsUnique ==
  /\ \A r, k \in Present : r # k => LabelsOf(r) \cap LabelsOf(k) = {}
  /\ \A r \in Present : {row[r].code, row[r].display} \cap AliasLabels(r) = {}

\* The promise about labels holds as long as no two requests overlap: the
\* checks of registry.go between them then see every label there is.
UniqueUnlessOverlapped == ~overlapped => LabelsUnique

\* Until requests overlap, a label that somebody has resolves to its owner,
\* and no other does.  The step is that of the answer (ResolveNamespace).
ResolvesToOwner ==
  [][\A h \in Handlers :
       /\ ~overlapped
       /\ pc[h] \in {"resolve", "names"} /\ pc'[h] = "done" /\ answer'[h] # "error"
       => \/ answer'[h] = "found" /\ req[h].label \in LabelsOf(target'[h])
          \/ answer'[h] = "notFound" /\ ~LabelExists(req[h].label)]_vars

\* Every request is answered, also one that waits for the locks of all rows
\* while others come and go.
AllAnswered == \A h \in Handlers : pc[h] # "idle" ~> pc[h] = "done"
-----------------------------------------------------------------------------
(***************************************************************************)
(* The inductive invariant.                                                *)
(***************************************************************************)

\* Which request a handler has at which step, and that it found a row, which
\* nothing deletes.
Control ==
  \A h \in Handlers :
    /\ pc[h] # "idle" => req[h] \in Workload
    /\ pc[h] \in {"code", "display", "insert"} => req[h] \in CreateRequest
    /\ pc[h] \in {"except", "update"} => req[h] \in UpdateRequest
    /\ pc[h] \in {"exists", "scan", "write"} => req[h] \in AliasRequest
    /\ pc[h] = "delete" => req[h] \in UnaliasRequest
    /\ pc[h] \in {"find", "except", "update", "exists", "scan", "write", "delete"} =>
         req[h].op \in {"update", "alias", "unalias"}
    /\ pc[h] \in {"except", "update", "exists", "scan", "write", "delete"} => target[h] \in Present

\* What an alias transaction has seen of the rows it has locked stays true.
LockedRows ==
  \A r \in Rows, h \in Handlers : lock[r] = h =>
    /\ pc[h] \in {"scan", "write"}
    /\ r \in Present
    /\ req[h].label \notin AliasLabels(r)
    /\ r = target[h] => list[h] = row[r].aliases

\* When it writes, it holds every row but those created in the meantime.
Writing ==
  \A h \in Handlers : pc[h] = "write" =>
    /\ lock[target[h]] = h
    /\ \A r \in Present : lock[r] = h \/ row[r].aliases = {}

OneWriter == \A h, g \in Handlers : pc[h] = "write" /\ pc[g] = "write" => h = g

\* Everything above, which together every step preserves (namespace.go:151).
Inv ==
  /\ TypeOK /\ Control
  /\ LockedRows /\ Writing /\ OneWriter
  /\ AliasesDistinct /\ AliasIdsDistinct /\ CodesDistinct
=============================================================================
