------------------------------- MODULE Labels -------------------------------
(***************************************************************************)
(* The labels of namespaces: codes, display names and aliases, and the     *)
(* requests that add, change and resolve them (internal/service/           *)
(* registry.go and internal/store/namespace.go).                           *)
(*                                                                         *)
(* Creating and updating a namespace check their labels with queries of    *)
(* their own, outside of the transaction that writes.  Creating an alias   *)
(* checks it again while it holds the locks of all rows.  A label stands   *)
(* for all spellings that strings.EqualFold and the collation equate.      *)
(***************************************************************************)
EXTENDS Integers, FiniteSets

CONSTANTS
  Handlers,     \* concurrent requests
  Rows,         \* ids of type_namespaces
  Names,        \* labels, up to spelling
  Workload,     \* the requests that clients make
  StoredRows,   \* type_namespaces at the start
  MaxAliasId,   \* bound on alias ids
  Nil, Free, NoRequest

VARIABLES
  row,      \* type_namespaces: code, display name and aliases; committed
  lock,     \* lock[r]: the transaction that locked row r
  pc, req,  \* per handler: where it is, and what it was asked
  target,   \* the id of the namespace it found
  list,     \* the aliases of that row as an alias transaction read them
  answer,   \* the class of its answer; "found" is a resolution to target
  overlapped \* history: two requests have been in progress at once

vars == <<row, lock, pc, req, target, list, answer, overlapped>>

-----------------------------------------------------------------------------
Alias == [id: Nat \ {0}, label: Names]
Namespace == [code: Names, display: Names, aliases: SUBSET Alias]

CreateRequest  == [op: {"create"}, code: Names, display: Names]
UpdateRequest  == [op: {"update"}, code: Names, display: Names]
AliasRequest   == [op: {"alias"}, code: Names, label: Names]
UnaliasRequest == [op: {"unalias"}, code: Names, id: 1..MaxAliasId]
ResolveRequest == [op: {"resolve"}, label: Names]
Requests ==
  CreateRequest \cup UpdateRequest \cup AliasRequest \cup UnaliasRequest \cup ResolveRequest

ASSUME LabelsAssumption ==
  /\ Rows \subseteq Nat
  /\ Workload \subseteq Requests
  /\ NoRequest \notin Requests
  /\ Free \notin Handlers
  /\ StoredRows \in [Rows -> Namespace \cup {Nil}]
  /\ Nil \notin Namespace \cup Rows
  /\ MaxAliasId \in Nat

\* What uk_namespace_code and, in older versions, a unique index over aliases
\* have kept true of the stored rows.  Ids are given in order (AUTO_INCREMENT).
ASSUME StoredAssumption ==
  /\ \A r, k \in {n \in Rows : StoredRows[n] # Nil} :
       /\ StoredRows[r].code = StoredRows[k].code => r = k
       /\ \A x \in StoredRows[r].aliases, y \in StoredRows[k].aliases :
            /\ x.label = y.label => r = k /\ x = y
            /\ r = k /\ x.id = y.id => x = y
  /\ \A r, k \in Rows : k < r /\ StoredRows[r] # Nil => StoredRows[k] # Nil

Present == {r \in Rows : row[r] # Nil}
AliasLabels(r) == {item.label : item \in row[r].aliases}
LabelsOf(r) == {row[r].code, row[r].display} \cup AliasLabels(r)
CodeOf(r, code) == r \in Present /\ row[r].code = code

\* NamespaceLabelExists and NamespaceLabelExistsExcept: one query each.
LabelExists(label) == \E r \in Present : label \in LabelsOf(r)

\* Faulty variant: nothing of the namespace itself is compared.
OthersLabel(label, own) == \E r \in Present \ {own} : label \in LabelsOf(r)
LabelExistsExcept(label, own) ==
  \E r \in Present : label \in IF r = own THEN AliasLabels(r) ELSE LabelsOf(r)

\* Faulty variant: SELECT without FOR UPDATE.
Unlocked(r) == TRUE
Grantable(r) == lock[r] = Free

-----------------------------------------------------------------------------
Init ==
  /\ row = StoredRows
  /\ lock = [r \in Rows |-> Free]
  /\ pc = [h \in Handlers |-> "idle"]
  /\ req = [h \in Handlers |-> NoRequest]
  /\ target = [h \in Handlers |-> Nil]
  /\ list = [h \in Handlers |-> {}]
  /\ answer = [h \in Handlers |-> Nil]
  /\ overlapped = FALSE

Goto(h, label) == pc' = [pc EXCEPT ![h] = label]
\* Faulty variant: no Rollback.
LeakLocks(h) == lock' = lock
Unlock(h) == lock' = [r \in Rows |-> IF lock[r] = h THEN Free ELSE lock[r]]

\* The end of the request, and of its transaction.
Finish(h, result) ==
  /\ Unlock(h)
  /\ Goto(h, "done")
  /\ answer' = [answer EXCEPT ![h] = result]
  /\ list' = [list EXCEPT ![h] = {}]
  /\ UNCHANGED <<req, target, overlapped>>

Refuse(h, result) == Finish(h, result) /\ UNCHANGED row
Proceed(h, label) == Goto(h, label) /\ UNCHANGED <<row, lock, req, target, list, answer, overlapped>>

\* The reply of COMMIT may be lost.
Committed(h) == \E result \in {"ok", "error"} : Finish(h, result)

\* MaxAliasId and the ids in Rows are bounds of the model.
WithinBounds(r) ==
  /\ r.op = "create" =>
       Cardinality(Rows \ Present) >
         Cardinality({g \in Handlers : pc[g] # "idle" /\ req[g].op = "create"})
  /\ r.op = "alias" => \A n \in Present : \A item \in row[n].aliases : item.id < MaxAliasId

Submit(h) ==
  /\ pc[h] = "idle"
  /\ \E r \in Workload :
       /\ WithinBounds(r)
       /\ req' = [req EXCEPT ![h] = r]
       /\ Goto(h, CASE r.op = "create" -> "code" [] r.op = "resolve" -> "resolve" [] OTHER -> "find")
  /\ overlapped' = (overlapped \/ \E g \in Handlers : pc[g] # "idle")
  /\ UNCHANGED <<row, lock, target, list, answer>>

-----------------------------------------------------------------------------
\* CreateNamespace: two checks, then one INSERT under the unique code.
CheckCode(h) ==
  /\ pc[h] = "code"
  /\ IF LabelExists(req[h].code) THEN Refuse(h, "conflict")
     ELSE Proceed(h, IF req[h].display = req[h].code THEN "insert" ELSE "display")

CheckDisplay(h) ==
  /\ pc[h] = "display"
  /\ IF LabelExists(req[h].display) THEN Refuse(h, "conflict") ELSE Proceed(h, "insert")

DuplicateCode(code) == \E r \in Present : row[r].code = code

InsertNamespace(h) ==
  /\ pc[h] = "insert"
  /\ \/ DuplicateCode(req[h].code) /\ Refuse(h, "conflict")
     \/ /\ ~DuplicateCode(req[h].code)
        /\ \E r \in Rows \ Present :
             /\ \A k \in Rows \ Present : r <= k
             /\ row' = [row EXCEPT ![r] =
                  [code |-> req[h].code, display |-> req[h].display, aliases |-> {}]]
        /\ Committed(h)

-----------------------------------------------------------------------------
\* GetNamespace at the start of an update, a new alias or a deletion.  An alias
\* like the namespace's own code or name is refused there.
FindNamespace(h) ==
  /\ pc[h] = "find"
  /\ \/ /\ \A r \in Present : row[r].code # req[h].code
        /\ Refuse(h, "notFound")
     \/ \E r \in Rows :
          /\ CodeOf(r, req[h].code)
          /\ \/ /\ req[h].op = "alias" /\ req[h].label \in {row[r].code, row[r].display}
                /\ Refuse(h, "invalid")
             \/ /\ req[h].op = "alias" => req[h].label \notin {row[r].code, row[r].display}
                /\ target' = [target EXCEPT ![h] = r]
                /\ Goto(h, CASE req[h].op = "update" -> "except"
                             [] req[h].op = "alias"  -> "exists"
                             [] OTHER                -> "delete")
                /\ UNCHANGED <<row, lock, req, list, answer, overlapped>>

\* UpdateNamespace: the check, then the transaction on the row, which may
\* also refuse the bounds that came with the name (Registry, BoundsConflict).
CheckExcept(h) ==
  /\ pc[h] = "except"
  /\ IF LabelExistsExcept(req[h].display, target[h]) THEN Refuse(h, "conflict")
     ELSE Proceed(h, "update")

UpdateNamespace(h) ==
  /\ pc[h] = "update"
  /\ Grantable(target[h])
  /\ \/ Refuse(h, "conflict")
     \/ /\ row' = [row EXCEPT ![target[h]].display = req[h].display]
        /\ Committed(h)

-----------------------------------------------------------------------------
\* CreateNamespaceAlias: a first check without locks.
CheckAlias(h) ==
  /\ pc[h] = "exists"
  /\ IF LabelExists(req[h].label) THEN Refuse(h, "conflict") ELSE Proceed(h, "scan")

\* Faulty variant: only the row of the namespace is locked and read.
OwnRowOnly(h) == {target[h]}
RowsToLock(h) == Present

\* SELECT ... ORDER BY id FOR UPDATE: row after row is locked, then read.
LockNextRow(h) ==
  /\ pc[h] = "scan"
  /\ \E r \in RowsToLock(h) :
       /\ Grantable(r)
       /\ \A k \in RowsToLock(h) : k < r => lock[k] = h
       /\ IF req[h].label \in LabelsOf(r)
          THEN Refuse(h, "conflict")
          ELSE /\ lock' = [lock EXCEPT ![r] = h]
               /\ list' = IF r = target[h] THEN [list EXCEPT ![h] = row[r].aliases] ELSE list
               /\ UNCHANGED <<row, pc, req, target, answer, overlapped>>

EndScan(h) ==
  /\ pc[h] = "scan"
  /\ \A r \in RowsToLock(h) : lock[r] = h
  /\ Proceed(h, "write")

\* Faulty variant: the number of aliases, plus one.
CountPlusOne(items) == {Cardinality(items) + 1}
\* One more than the greatest id, from 1.
NextId(items) == {id \in {1} \cup {item.id + 1 : item \in items} : \A item \in items : item.id < id}

WriteAlias(h) ==
  /\ pc[h] = "write"
  /\ \E id \in NextId(list[h]) :
       row' = [row EXCEPT ![target[h]].aliases = list[h] \cup {[id |-> id, label |-> req[h].label]}]
  /\ Committed(h)

NamedAliases(h) == {item \in row[target[h]].aliases : item.id = req[h].id}

\* DeleteNamespaceAlias, under the lock of the row.
DeleteAlias(h) ==
  /\ pc[h] = "delete"
  /\ Grantable(target[h])
  /\ \/ /\ NamedAliases(h) = {}
        /\ Refuse(h, "notFound")
     \/ /\ NamedAliases(h) # {}
        /\ row' = [row EXCEPT ![target[h]].aliases = @ \ NamedAliases(h)]
        /\ Committed(h)

-----------------------------------------------------------------------------
\* A resolution that found namespace r.
Found(h, r) ==
  /\ Goto(h, "done")
  /\ target' = [target EXCEPT ![h] = r]
  /\ answer' = [answer EXCEPT ![h] = "found"]
  /\ UNCHANGED <<row, lock, req, list, overlapped>>

\* ResolveNamespace: the code with a query of its own, then all rows.
ResolveCode(h) ==
  /\ pc[h] = "resolve"
  /\ \/ \E r \in Present : row[r].code = req[h].label /\ Found(h, r)
     \/ /\ \A r \in Present : row[r].code # req[h].label
        /\ Proceed(h, "names")

\* Faulty variant: the aliases are not looked through.
NoAliased(label) == {}
Displayed(label) == {r \in Present : row[r].display = label}
Aliased(label) == {r \in Present : label \in AliasLabels(r)}

\* A name of two namespaces is a conflict; of aliases the last row wins.
ResolveName(h) ==
  /\ pc[h] = "names"
  /\ LET named == Displayed(req[h].label)
         aliased == Aliased(req[h].label)
     IN  \/ Cardinality(named) > 1 /\ Refuse(h, "conflict")
         \/ Cardinality(named) = 1 /\ \E r \in named : Found(h, r)
         \/ /\ named = {}
            /\ \E r \in aliased : (\A k \in aliased : k <= r) /\ Found(h, r)
         \/ named = {} /\ aliased = {} /\ Refuse(h, "notFound")

-----------------------------------------------------------------------------
\* The context ends, or the database or the server fails: rolled back.
Abort(h) == pc[h] \notin {"idle", "done"} /\ Refuse(h, "error")

Respond(h) ==
  /\ pc[h] = "done"
  /\ Goto(h, "idle")
  /\ req' = [req EXCEPT ![h] = NoRequest]
  /\ target' = [target EXCEPT ![h] = Nil]
  /\ answer' = [answer EXCEPT ![h] = Nil]
  /\ UNCHANGED <<row, lock, list, overlapped>>

Work(h) ==
  \/ CheckCode(h) \/ CheckDisplay(h) \/ InsertNamespace(h)
  \/ FindNamespace(h) \/ CheckExcept(h)
  \/ CheckAlias(h) \/ EndScan(h) \/ WriteAlias(h)
  \/ ResolveCode(h) \/ ResolveName(h)
  \/ Respond(h)

\* The steps that wait for a row lock.
Wait(h) == UpdateNamespace(h) \/ LockNextRow(h) \/ DeleteAlias(h)

Next == \E h \in Handlers : Submit(h) \/ Work(h) \/ Wait(h) \/ Abort(h)

Spec == Init /\ [][Next]_vars

\* A goroutine that can run does; InnoDB serves the waiters of a row in turn.
FairSpec == Spec /\ \A h \in Handlers : WF_vars(Work(h)) /\ SF_vars(Wait(h))
=============================================================================
