---------------------------- MODULE LabelsProofs ----------------------------
(***************************************************************************)
(* Proofs about Labels, for every set of handlers, rows, names, requests   *)
(* and stored rows.                                                        *)
(***************************************************************************)
EXTENDS LabelsProperties, FiniteSetTheorems, TLAPS

-----------------------------------------------------------------------------
LEMMA RequestKinds ==
  \A r \in Requests :
    /\ r.op \in {"create", "update", "alias", "unalias", "resolve"}
    /\ r.op = "create" => r \in CreateRequest
    /\ r.op = "update" => r \in UpdateRequest
    /\ r.op = "alias" => r \in AliasRequest
    /\ r.op = "unalias" => r \in UnaliasRequest
  BY DEF Requests, CreateRequest, UpdateRequest, AliasRequest, UnaliasRequest, ResolveRequest

LEMMA InitInv == Init => Inv
<1> SUFFICES ASSUME Init PROVE Inv
  OBVIOUS
<1>1. TypeOK
  BY LabelsAssumption DEF Init, TypeOK
<1>2. Control /\ LockedRows /\ Writing /\ OneWriter
  BY LabelsAssumption DEF Init, Control, LockedRows, Writing, OneWriter
<1>3. AliasesDistinct /\ AliasIdsDistinct /\ CodesDistinct
  BY StoredAssumption DEF Init, AliasesDistinct, AliasIdsDistinct, CodesDistinct, Present
<1> QED
  BY <1>1, <1>2, <1>3 DEF Inv

\* A row that is there has the fields of a namespace.
LEMMA RowTypes ==
  ASSUME TypeOK, NEW r \in Present
  PROVE  /\ r \in Rows
         /\ row[r] \in Namespace
         /\ row[r].code \in Names /\ row[r].display \in Names /\ row[r].aliases \subseteq Alias
<1>1. r \in Rows /\ row[r] \in Namespace
  BY DEF Present, TypeOK
<1> QED
  BY <1>1 DEF Namespace

\* The end of a request touches the handler's own variables and its locks.
LEMMA FinishTypes ==
  ASSUME Inv, NEW h \in Handlers, NEW result, Finish(h, result),
         result \in {"ok", "found", "notFound", "conflict", "invalid", "error"},
         row' \in [Rows -> Namespace \cup {Nil}], Present \subseteq Present', pc[h] # "idle"
  PROVE  TypeOK' /\ Control'
<1>0. TypeOK /\ Control
  BY DEF Inv
<1>1. TypeOK'
  <2>1. lock' \in [Rows -> Handlers \cup {Free}]
    BY <1>0 DEF TypeOK, Finish, Unlock
  <2>2. \A g \in Handlers : list'[g] \subseteq Alias
    BY <1>0 DEF TypeOK, Finish
  <2> QED
    BY <1>0, <2>1, <2>2 DEF TypeOK, Finish, Goto
<1>2. Control'
  BY <1>0 DEF TypeOK, Control, Finish, Goto
<1> QED
  BY <1>1, <1>2

-----------------------------------------------------------------------------
(***************************************************************************)
(* What the steps that change rows do, by which the rest is proved.        *)
(***************************************************************************)
Inserted(h, r) ==
  /\ r \in Rows \ Present
  /\ ~DuplicateCode(req[h].code)
  /\ row' = [row EXCEPT ![r] = [code |-> req[h].code, display |-> req[h].display, aliases |-> {}]]

LEMMA InsertStep ==
  ASSUME Inv, NEW h \in Handlers, InsertNamespace(h)
  PROVE  \/ Refuse(h, "conflict")
         \/ \E r \in Rows \ Present, result \in {"ok", "error"} :
              /\ Inserted(h, r) /\ Finish(h, result)
              /\ row' \in [Rows -> Namespace \cup {Nil}]
              /\ Present' = Present \cup {r}
<1>1. TypeOK /\ req[h] \in CreateRequest /\ pc[h] = "insert"
  BY DEF Inv, Control, InsertNamespace
<1>2. CASE ~Refuse(h, "conflict")
  <2>1. PICK r \in Rows \ Present : Inserted(h, r)
    BY <1>2 DEF InsertNamespace, Inserted
  <2>2. PICK result \in {"ok", "error"} : Finish(h, result)
    BY <1>2 DEF InsertNamespace, Committed
  <2>3. [code |-> req[h].code, display |-> req[h].display, aliases |-> {}] \in Namespace
    BY <1>1 DEF CreateRequest, Namespace
  <2>4. row' \in [Rows -> Namespace \cup {Nil}]
    BY <1>1, <2>1, <2>3 DEF TypeOK, Inserted
  <2>5. Present' = Present \cup {r}
    <3>1. row'[r] # Nil
      BY <1>1, <2>1, <2>3, LabelsAssumption DEF TypeOK, Inserted
    <3>2. \A k \in Rows \ {r} : row'[k] = row[k]
      BY <1>1, <2>1 DEF TypeOK, Inserted
    <3> QED
      BY <2>1, <3>1, <3>2 DEF Present
  <2> QED
    BY <2>1, <2>2, <2>4, <2>5
<1> QED
  BY <1>2

Renamed(h) ==
  /\ \A r \in Rows \ {target[h]} : row'[r] = row[r]
  /\ row'[target[h]].code = row[target[h]].code
  /\ row'[target[h]].display = req[h].display
  /\ row'[target[h]].aliases = row[target[h]].aliases

LEMMA UpdateStep ==
  ASSUME Inv, NEW h \in Handlers, UpdateNamespace(h)
  PROVE  \/ Refuse(h, "conflict")
         \/ \E result \in {"ok", "error"} :
              /\ Renamed(h) /\ Finish(h, result)
              /\ row' \in [Rows -> Namespace \cup {Nil}]
              /\ Present' = Present
<1>1. TypeOK /\ req[h] \in UpdateRequest /\ target[h] \in Present
  BY DEF Inv, Control, UpdateNamespace
<1>2. CASE ~Refuse(h, "conflict")
  <2>1. row' = [row EXCEPT ![target[h]].display = req[h].display]
    BY <1>2 DEF UpdateNamespace
  <2>2. PICK result \in {"ok", "error"} : Finish(h, result)
    BY <1>2 DEF UpdateNamespace, Committed
  <2>3. row[target[h]] \in Namespace /\ target[h] \in Rows
    BY <1>1, RowTypes
  <2>4. PICK item : item = [row[target[h]] EXCEPT !.display = req[h].display]
    OBVIOUS
  <2>5. /\ item \in Namespace /\ item.code = row[target[h]].code
        /\ item.display = req[h].display /\ item.aliases = row[target[h]].aliases
    BY <1>1, <2>3, <2>4 DEF Namespace, UpdateRequest
  <2>6. row' = [row EXCEPT ![target[h]] = item]
    BY <1>1, <2>1, <2>3, <2>4 DEF TypeOK
  <2>7. Renamed(h) /\ row' \in [Rows -> Namespace \cup {Nil}]
    BY <1>1, <2>3, <2>5, <2>6 DEF TypeOK, Renamed
  <2>8. Present' = Present
    BY <1>1, <2>3, <2>5, <2>6, LabelsAssumption DEF TypeOK, Present
  <2> QED
    BY <2>2, <2>7, <2>8
<1> QED
  BY <1>2

\* The row of a new alias: what was read under the lock, and one more.
Added(h, id) ==
  /\ \A r \in Rows \ {target[h]} : row'[r] = row[r]
  /\ row'[target[h]].code = row[target[h]].code
  /\ row'[target[h]].display = row[target[h]].display
  /\ row'[target[h]].aliases = row[target[h]].aliases \cup {[id |-> id, label |-> req[h].label]}

LEMMA WriteStep ==
  ASSUME Inv, NEW h \in Handlers, WriteAlias(h)
  PROVE  \E id \in Nat \ {0}, result \in {"ok", "error"} :
           /\ \A item \in row[target[h]].aliases : item.id < id
           /\ Added(h, id) /\ Finish(h, result)
           /\ row' \in [Rows -> Namespace \cup {Nil}]
           /\ Present' = Present
<1>1. TypeOK /\ req[h] \in AliasRequest /\ target[h] \in Present
  BY DEF Inv, Control, WriteAlias
<1>2. row[target[h]] \in Namespace /\ target[h] \in Rows /\ row[target[h]].aliases \subseteq Alias
  BY <1>1, RowTypes
<1>3. list[h] = row[target[h]].aliases
  BY <1>2 DEF Inv, WriteAlias, Writing, LockedRows
<1>4. PICK id \in NextId(list[h]) :
        row' = [row EXCEPT ![target[h]].aliases = list[h] \cup {[id |-> id, label |-> req[h].label]}]
  BY DEF WriteAlias
<1>5. id \in Nat \ {0} /\ \A item \in row[target[h]].aliases : item.id < id
  BY <1>2, <1>3 DEF NextId, Alias
<1>6. PICK result \in {"ok", "error"} : Finish(h, result)
  BY DEF WriteAlias, Committed
<1>7. PICK new : new = row[target[h]].aliases \cup {[id |-> id, label |-> req[h].label]}
  OBVIOUS
<1>8. new \subseteq Alias
  BY <1>1, <1>2, <1>5, <1>7 DEF Alias, AliasRequest
<1>9. PICK item : item = [row[target[h]] EXCEPT !.aliases = new]
  OBVIOUS
<1>10. /\ item \in Namespace /\ item.code = row[target[h]].code
       /\ item.display = row[target[h]].display /\ item.aliases = new
  BY <1>2, <1>8, <1>9 DEF Namespace
<1>11. row' = [row EXCEPT ![target[h]] = item]
  BY <1>1, <1>2, <1>3, <1>4, <1>7, <1>9 DEF TypeOK
<1>12. Added(h, id) /\ row' \in [Rows -> Namespace \cup {Nil}]
  BY <1>1, <1>2, <1>7, <1>10, <1>11 DEF TypeOK, Added
<1>13. Present' = Present
  BY <1>1, <1>2, <1>10, <1>11, LabelsAssumption DEF TypeOK, Present
<1> QED
  BY <1>5, <1>6, <1>12, <1>13

Removed(h) ==
  /\ \A r \in Rows \ {target[h]} : row'[r] = row[r]
  /\ row'[target[h]].code = row[target[h]].code
  /\ row'[target[h]].display = row[target[h]].display
  /\ row'[target[h]].aliases = row[target[h]].aliases \ NamedAliases(h)

LEMMA DeleteStep ==
  ASSUME Inv, NEW h \in Handlers, DeleteAlias(h)
  PROVE  \/ Refuse(h, "notFound")
         \/ \E result \in {"ok", "error"} :
              /\ Removed(h) /\ Finish(h, result)
              /\ row' \in [Rows -> Namespace \cup {Nil}]
              /\ Present' = Present
<1>1. TypeOK /\ target[h] \in Present
  BY DEF Inv, Control, DeleteAlias
<1>2. CASE ~Refuse(h, "notFound")
  <2>1. row' = [row EXCEPT ![target[h]].aliases = @ \ NamedAliases(h)]
    BY <1>2 DEF DeleteAlias
  <2>2. PICK result \in {"ok", "error"} : Finish(h, result)
    BY <1>2 DEF DeleteAlias, Committed
  <2>3. row[target[h]] \in Namespace /\ target[h] \in Rows /\ row[target[h]].aliases \subseteq Alias
    BY <1>1, RowTypes
  <2>4. PICK new : new = row[target[h]].aliases \ NamedAliases(h)
    OBVIOUS
  <2>5. PICK item : item = [row[target[h]] EXCEPT !.aliases = new]
    OBVIOUS
  <2>6. /\ item \in Namespace /\ item.code = row[target[h]].code
        /\ item.display = row[target[h]].display /\ item.aliases = new
    BY <2>3, <2>4, <2>5 DEF Namespace
  <2>7. row' = [row EXCEPT ![target[h]] = item]
    BY <1>1, <2>1, <2>3, <2>4, <2>5 DEF TypeOK
  <2>8. Removed(h) /\ row' \in [Rows -> Namespace \cup {Nil}]
    BY <1>1, <2>3, <2>4, <2>6, <2>7 DEF TypeOK, Removed
  <2>9. Present' = Present
    BY <1>1, <2>3, <2>6, <2>7, LabelsAssumption DEF TypeOK, Present
  <2> QED
    BY <2>2, <2>8, <2>9
<1> QED
  BY <1>2

-----------------------------------------------------------------------------
\* Steps that move a handler on keep the types.
LEMMA ProceedTypes ==
  ASSUME Inv, NEW h \in Handlers, NEW label, Proceed(h, label), pc[h] # "idle",
         \/ label = "display" /\ pc[h] = "code"
         \/ label = "insert" /\ pc[h] \in {"code", "display"}
         \/ label = "update" /\ pc[h] = "except"
         \/ label = "scan" /\ pc[h] = "exists"
         \/ label = "write" /\ pc[h] = "scan"
         \/ label = "names" /\ pc[h] = "resolve"
  PROVE  TypeOK' /\ Control'
  BY DEF Inv, TypeOK, Control, Proceed, Goto, Present

LEMMA FoundTypes ==
  ASSUME Inv, NEW h \in Handlers, NEW r \in Rows, Found(h, r), pc[h] # "idle"
  PROVE  TypeOK' /\ Control'
  BY DEF Inv, TypeOK, Control, Found, Goto, Present

LEMMA TypeStep == Inv /\ [Next]_vars => TypeOK' /\ Control'
<1> SUFFICES ASSUME Inv, [Next]_vars PROVE TypeOK' /\ Control'
  OBVIOUS
<1>0. TypeOK /\ Control
  BY DEF Inv
<1>u. CASE UNCHANGED vars
  BY <1>0, <1>u DEF vars, TypeOK, Control, Present
<1>r. ASSUME NEW h \in Handlers, NEW result \in {"notFound", "conflict", "invalid", "error"},
             pc[h] # "idle", Refuse(h, result)
      PROVE  TypeOK' /\ Control'
  <2>1. Present' = Present
    BY <1>r DEF Refuse, Present
  <2> QED
    BY <1>0, <1>r, <2>1, FinishTypes DEF Refuse, TypeOK
<1>1. ASSUME NEW h \in Handlers, Submit(h) PROVE TypeOK' /\ Control'
  <2>1. PICK r \in Workload :
          /\ req' = [req EXCEPT ![h] = r]
          /\ Goto(h, CASE r.op = "create" -> "code" [] r.op = "resolve" -> "resolve" [] OTHER -> "find")
    BY <1>1 DEF Submit
  <2>2. r \in Requests /\ r.op \in {"create", "update", "alias", "unalias", "resolve"}
    BY LabelsAssumption, RequestKinds
  <2>3. PICK label \in {"code", "resolve", "find"} :
          /\ Goto(h, label)
          /\ label = "code" => r.op = "create"
          /\ label = "find" => r.op \in {"update", "alias", "unalias"}
    BY <2>1, <2>2
  <2>4. UNCHANGED <<row, lock, target, list, answer>> /\ pc[h] = "idle" /\ overlapped' \in BOOLEAN
    BY <1>0, <1>1 DEF Submit, TypeOK
  <2>5. TypeOK'
    BY <1>0, <2>1, <2>3, <2>4 DEF TypeOK, Goto
  <2>6. Control'
    BY <1>0, <2>1, <2>2, <2>3, <2>4, RequestKinds DEF Control, TypeOK, Goto, Present
  <2> QED
    BY <2>5, <2>6
<1>2. ASSUME NEW h \in Handlers, CheckCode(h) \/ CheckDisplay(h) \/ CheckExcept(h) \/ CheckAlias(h) \/ EndScan(h)
      PROVE  TypeOK' /\ Control'
  BY <1>r, <1>2, ProceedTypes DEF CheckCode, CheckDisplay, CheckExcept, CheckAlias, EndScan
<1>3. ASSUME NEW h \in Handlers, InsertNamespace(h) PROVE TypeOK' /\ Control'
  BY <1>r, <1>3, InsertStep, FinishTypes DEF InsertNamespace
<1>4. ASSUME NEW h \in Handlers, UpdateNamespace(h) PROVE TypeOK' /\ Control'
  BY <1>r, <1>4, UpdateStep, FinishTypes DEF UpdateNamespace
<1>5. ASSUME NEW h \in Handlers, WriteAlias(h) PROVE TypeOK' /\ Control'
  BY <1>5, WriteStep, FinishTypes DEF WriteAlias
<1>6. ASSUME NEW h \in Handlers, DeleteAlias(h) PROVE TypeOK' /\ Control'
  BY <1>r, <1>6, DeleteStep, FinishTypes DEF DeleteAlias
<1>7. ASSUME NEW h \in Handlers, FindNamespace(h) PROVE TypeOK' /\ Control'
  <2>1. CASE \E result \in {"notFound", "invalid"} : Refuse(h, result)
    BY <1>r, <1>7, <2>1 DEF FindNamespace
  <2>2. CASE ~\E result \in {"notFound", "invalid"} : Refuse(h, result)
    <3>1. PICK r \in Rows :
            /\ CodeOf(r, req[h].code)
            /\ target' = [target EXCEPT ![h] = r]
            /\ Goto(h, CASE req[h].op = "update" -> "except"
                         [] req[h].op = "alias"  -> "exists"
                         [] OTHER                -> "delete")
            /\ UNCHANGED <<row, lock, req, list, answer, overlapped>>
      BY <1>7, <2>2 DEF FindNamespace
    <3>2. req[h] \in Requests /\ req[h].op \in {"update", "alias", "unalias"} /\ pc[h] = "find"
      BY <1>0, <1>7, LabelsAssumption DEF FindNamespace, Control
    <3>3. PICK label \in {"except", "exists", "delete"} :
            /\ Goto(h, label)
            /\ label = "except" => req[h].op = "update"
            /\ label = "exists" => req[h].op = "alias"
            /\ label = "delete" => req[h].op = "unalias"
      BY <3>1, <3>2
    <3>4. TypeOK'
      BY <1>0, <3>1, <3>3 DEF TypeOK, Goto
    <3>5. Control'
      BY <1>0, <3>1, <3>2, <3>3, RequestKinds DEF Control, TypeOK, Goto, Present, CodeOf
    <3> QED
      BY <3>4, <3>5
  <2> QED
    BY <2>1, <2>2
<1>8. ASSUME NEW h \in Handlers, LockNextRow(h) PROVE TypeOK' /\ Control'
  <2>1. CASE Refuse(h, "conflict")
    BY <1>r, <1>8, <2>1 DEF LockNextRow
  <2>2. CASE ~Refuse(h, "conflict")
    <3>1. PICK r \in Present :
            /\ lock' = [lock EXCEPT ![r] = h]
            /\ list' = IF r = target[h] THEN [list EXCEPT ![h] = row[r].aliases] ELSE list
            /\ UNCHANGED <<row, pc, req, target, answer, overlapped>>
      BY <1>8, <2>2 DEF LockNextRow, RowsToLock
    <3>2. r \in Rows /\ row[r].aliases \subseteq Alias
      BY <1>0, RowTypes
    <3>3. lock' \in [Rows -> Handlers \cup {Free}] /\ \A g \in Handlers : list'[g] \subseteq Alias
      BY <1>0, <3>1, <3>2 DEF TypeOK
    <3>4. TypeOK'
      BY <1>0, <3>1, <3>3 DEF TypeOK
    <3> QED
      BY <1>0, <3>1, <3>4 DEF Control, Present
  <2> QED
    BY <2>1, <2>2
<1>9. ASSUME NEW h \in Handlers, ResolveCode(h) PROVE TypeOK' /\ Control'
  BY <1>r, <1>9, ProceedTypes, FoundTypes DEF ResolveCode, Present
<1>10. ASSUME NEW h \in Handlers, ResolveName(h) PROVE TypeOK' /\ Control'
  BY <1>r, <1>10, FoundTypes DEF ResolveName, Present, Displayed, Aliased
<1>11. ASSUME NEW h \in Handlers, Respond(h) PROVE TypeOK' /\ Control'
  BY <1>0, <1>11 DEF Respond, TypeOK, Control, Goto, Present
<1>12. ASSUME NEW h \in Handlers, Abort(h) PROVE TypeOK' /\ Control'
  BY <1>r, <1>12 DEF Abort
<1> QED
  BY <1>u, <1>1, <1>2, <1>3, <1>4, <1>5, <1>6, <1>7, <1>8, <1>9, <1>10, <1>11, <1>12
  DEF Next, Work, Wait

-----------------------------------------------------------------------------
(***************************************************************************)
(* Locks.                                                                  *)
(***************************************************************************)
LockInv == LockedRows /\ Writing /\ OneWriter

\* Only a scan or a write holds locks.
LEMMA NoLocks ==
  ASSUME Inv, NEW h \in Handlers, pc[h] \notin {"scan", "write"}, NEW r \in Rows
  PROVE  lock[r] # h
  BY DEF Inv, LockedRows

\* A step of a handler outside of a scan that leaves rows and locks alone.
LEMMA OutsideStep ==
  ASSUME Inv, NEW h \in Handlers, NEW label, pc[h] \notin {"scan", "write"}, label # "write",
         pc' = [pc EXCEPT ![h] = label], UNCHANGED <<row, lock, list>>,
         \A g \in Handlers \ {h} : req'[g] = req[g] /\ target'[g] = target[g]
  PROVE  LockInv'
<1>0. TypeOK /\ LockInv
  BY DEF Inv, LockInv
<1>1. LockedRows'
  BY <1>0, NoLocks DEF LockInv, LockedRows, Present, AliasLabels, TypeOK
<1>2. Writing'
  BY <1>0 DEF LockInv, Writing, Present, TypeOK
<1>3. OneWriter'
  BY <1>0 DEF LockInv, OneWriter, TypeOK
<1> QED
  BY <1>1, <1>2, <1>3 DEF LockInv

\* The end of a request gives back its locks; what the others have locked is
\* as it was, and new rows have no aliases.
LEMMA FinishLocks ==
  ASSUME Inv, NEW h \in Handlers, NEW result, Finish(h, result),
         \A r \in Rows, g \in Handlers \ {h} : lock[r] = g => row'[r] # Nil /\ row'[r].aliases = row[r].aliases,
         \A r \in Present : row'[r] # Nil,
         \A r \in Present' : \/ r \in Present /\ (row[r].aliases = {} => row'[r].aliases = {} \/ pc[h] = "write")
                             \/ row'[r].aliases = {}
  PROVE  LockInv'
<1>0. TypeOK /\ LockInv
  BY DEF Inv, LockInv
<1>1. /\ \A g \in Handlers \ {h} : pc'[g] = pc[g] /\ req'[g] = req[g] /\ target'[g] = target[g] /\ list'[g] = list[g]
      /\ pc'[h] = "done"
      /\ \A r \in Rows : lock'[r] = IF lock[r] = h THEN Free ELSE lock[r]
  BY <1>0 DEF Finish, Unlock, Goto, TypeOK
<1>2. \A r \in Rows : lock'[r] # h
  BY <1>1, LabelsAssumption
<1>3. LockedRows'
  <2> SUFFICES ASSUME NEW r \in Rows, NEW g \in Handlers, lock'[r] = g
      PROVE  /\ pc'[g] \in {"scan", "write"}
             /\ r \in Present'
             /\ req'[g].label \notin AliasLabels(r)'
             /\ r = target'[g] => list'[g] = row'[r].aliases
    BY DEF LockedRows
  <2>1. g # h /\ lock[r] = g
    BY <1>1, <1>2, LabelsAssumption
  <2> QED
    BY <1>0, <1>1, <2>1 DEF LockInv, LockedRows, Present, AliasLabels
<1>4. Writing'
  <2> SUFFICES ASSUME NEW g \in Handlers, pc'[g] = "write"
      PROVE  /\ lock'[target'[g]] = g
             /\ \A r \in Present' : lock'[r] = g \/ row'[r].aliases = {}
    BY DEF Writing
  <2>1. g # h /\ pc[g] = "write" /\ pc[h] # "write"
    BY <1>0, <1>1 DEF LockInv, OneWriter
  <2>2. lock[target[g]] = g /\ target[g] \in Rows /\ \A r \in Present : lock[r] = g \/ row[r].aliases = {}
    BY <1>0, <2>1 DEF LockInv, Writing, Inv, Control, Present
  <2>3. lock'[target'[g]] = g
    BY <1>1, <2>1, <2>2
  <2>4. ASSUME NEW r \in Present' PROVE lock'[r] = g \/ row'[r].aliases = {}
    BY <1>1, <2>1, <2>2, <2>4 DEF Present
  <2> QED
    BY <2>3, <2>4
<1>5. OneWriter'
  BY <1>0, <1>1 DEF LockInv, OneWriter
<1> QED
  BY <1>3, <1>4, <1>5 DEF LockInv

LEMMA RefuseLocks ==
  ASSUME Inv, NEW h \in Handlers, NEW result, Refuse(h, result)
  PROVE  LockInv'
<1>1. Finish(h, result) /\ row' = row
  BY DEF Refuse
<1>2. \A r \in Rows, g \in Handlers \ {h} : lock[r] = g => row'[r] # Nil /\ row'[r].aliases = row[r].aliases
  BY <1>1 DEF Inv, LockedRows, Present
<1>3. /\ \A r \in Present : row'[r] # Nil
      /\ \A r \in Present' : r \in Present /\ (row[r].aliases = {} => row'[r].aliases = {})
  BY <1>1 DEF Present
<1> QED
  BY <1>1, <1>2, <1>3, FinishLocks

\* A write to a row that nobody else has locked.
LEMMA WriteLocks ==
  ASSUME Inv, NEW h \in Handlers, NEW result, Finish(h, result), target[h] \in Present,
         Grantable(target[h]) \/ lock[target[h]] = h,
         \A r \in Rows \ {target[h]} : row'[r] = row[r],
         Present' = Present,
         row[target[h]].aliases = {} => row'[target[h]].aliases = {} \/ pc[h] = "write"
  PROVE  LockInv'
<1>1. \A r \in Rows, g \in Handlers \ {h} : lock[r] = g => r \in Present /\ r # target[h]
  BY LabelsAssumption DEF Inv, LockedRows, Grantable
<1>2. \A r \in Rows, g \in Handlers \ {h} : lock[r] = g => row'[r] # Nil /\ row'[r].aliases = row[r].aliases
  BY <1>1 DEF Present
<1>3. \A r \in Present : row'[r] # Nil
  BY DEF Present
<1>4. \A r \in Present' : r \in Present /\ (row[r].aliases = {} => row'[r].aliases = {} \/ pc[h] = "write")
  BY DEF Present
<1> QED
  BY <1>2, <1>3, <1>4, FinishLocks

LEMMA LockStep == Inv /\ [Next]_vars => LockInv'
<1> SUFFICES ASSUME Inv, [Next]_vars PROVE LockInv'
  OBVIOUS
<1>0. TypeOK /\ Control /\ LockInv
  BY DEF Inv, LockInv
<1>u. CASE UNCHANGED vars
  BY <1>0, <1>u DEF vars, LockInv, LockedRows, Writing, OneWriter, Present, AliasLabels
<1>p. ASSUME NEW h \in Handlers, NEW label \in {"display", "insert", "update", "scan", "names"},
             pc[h] \notin {"scan", "write"}, Proceed(h, label)
      PROVE  LockInv'
  BY <1>p, OutsideStep DEF Proceed, Goto
<1>1. ASSUME NEW h \in Handlers, Submit(h) PROVE LockInv'
  <2>1. PICK r, label : req' = [req EXCEPT ![h] = r] /\ pc' = [pc EXCEPT ![h] = label] /\ label # "write"
    BY <1>1 DEF Submit, Goto
  <2>2. UNCHANGED <<row, lock, list, target>> /\ pc[h] = "idle"
    BY <1>1 DEF Submit
  <2> QED
    BY <1>0, <2>1, <2>2, OutsideStep DEF TypeOK
<1>2. ASSUME NEW h \in Handlers, CheckCode(h) \/ CheckDisplay(h) \/ CheckExcept(h) \/ CheckAlias(h)
      PROVE  LockInv'
  BY <1>p, <1>2, RefuseLocks DEF CheckCode, CheckDisplay, CheckExcept, CheckAlias
<1>3. ASSUME NEW h \in Handlers, InsertNamespace(h) PROVE LockInv'
  <2>1. CASE Refuse(h, "conflict")
    BY <2>1, RefuseLocks
  <2>2. CASE ~Refuse(h, "conflict")
    <3>1. PICK n \in Rows \ Present, result \in {"ok", "error"} :
            Inserted(h, n) /\ Finish(h, result) /\ Present' = Present \cup {n}
      BY <1>3, <2>2, InsertStep
    <3>2. (\A r \in Rows \ {n} : row'[r] = row[r]) /\ row'[n].aliases = {}
      BY <1>0, <3>1 DEF TypeOK, Inserted
    <3>3. \A r \in Rows, g \in Handlers : lock[r] = g => r \in Present /\ r # n
      BY <1>0, <3>1 DEF LockInv, LockedRows
    <3>4. \A r \in Present : r # n /\ row'[r] # Nil
      BY <3>1, <3>2 DEF Present
    <3>5. \A r \in Rows, g \in Handlers \ {h} : lock[r] = g => row'[r] # Nil /\ row'[r].aliases = row[r].aliases
      BY <3>2, <3>3, <3>4
    <3>6. \A r \in Present' : \/ r \in Present /\ (row[r].aliases = {} => row'[r].aliases = {})
                              \/ row'[r].aliases = {}
      BY <3>1, <3>2 DEF Present
    <3> QED
      BY <3>1, <3>4, <3>5, <3>6, FinishLocks
  <2> QED
    BY <2>1, <2>2
<1>4. ASSUME NEW h \in Handlers, UpdateNamespace(h) PROVE LockInv'
  BY <1>0, <1>4, UpdateStep, RefuseLocks, WriteLocks DEF Renamed, UpdateNamespace, Control
<1>5. ASSUME NEW h \in Handlers, WriteAlias(h) PROVE LockInv'
  <2>1. lock[target[h]] = h /\ target[h] \in Present /\ pc[h] = "write"
    BY <1>0, <1>5 DEF WriteAlias, Control, LockInv, Writing
  <2> QED
    BY <1>5, <2>1, WriteStep, WriteLocks DEF Added
<1>6. ASSUME NEW h \in Handlers, DeleteAlias(h) PROVE LockInv'
  BY <1>0, <1>6, DeleteStep, RefuseLocks, WriteLocks DEF Removed, DeleteAlias, Control
<1>7. ASSUME NEW h \in Handlers, FindNamespace(h) PROVE LockInv'
  <2>1. CASE \E result : Refuse(h, result)
    BY <2>1, RefuseLocks
  <2>2. CASE ~\E result : Refuse(h, result)
    <3>1. PICK r, label :
            /\ target' = [target EXCEPT ![h] = r]
            /\ pc' = [pc EXCEPT ![h] = label] /\ label # "write"
            /\ UNCHANGED <<row, lock, req, list>>
            /\ pc[h] = "find"
      BY <1>7, <2>2 DEF FindNamespace, Goto
    <3> QED
      BY <1>0, <3>1, OutsideStep DEF TypeOK
  <2> QED
    BY <2>1, <2>2
<1>8. ASSUME NEW h \in Handlers, LockNextRow(h) PROVE LockInv'
  <2>1. CASE Refuse(h, "conflict")
    BY <2>1, RefuseLocks
  <2>2. CASE ~Refuse(h, "conflict")
    <3>1. PICK n \in Present :
            /\ lock[n] = Free
            /\ req[h].label \notin LabelsOf(n)
            /\ lock' = [lock EXCEPT ![n] = h]
            /\ list' = IF n = target[h] THEN [list EXCEPT ![h] = row[n].aliases] ELSE list
            /\ UNCHANGED <<row, pc, req, target>>
      BY <1>8, <2>2 DEF LockNextRow, RowsToLock, Grantable
    <3>2. pc[h] = "scan" /\ n \in Rows
      BY <1>8 DEF LockNextRow, Present
    <3>3. LockedRows'
      <4> SUFFICES ASSUME NEW r \in Rows, NEW g \in Handlers, lock'[r] = g
          PROVE  /\ pc[g] \in {"scan", "write"}
                 /\ r \in Present
                 /\ req[g].label \notin AliasLabels(r)
                 /\ r = target[g] => list'[g] = row[r].aliases
        BY <3>1 DEF LockedRows, Present, AliasLabels
      <4>1. CASE r = n
        <5>1. g = h
          BY <1>0, <3>1, <3>2, <4>1 DEF TypeOK
        <5>2. r = target[h] => list'[h] = row[r].aliases
          BY <1>0, <3>1, <4>1 DEF TypeOK
        <5>3. req[h].label \notin AliasLabels(n)
          BY <3>1 DEF LabelsOf
        <5> QED
          BY <3>1, <3>2, <4>1, <5>1, <5>2, <5>3
      <4>2. CASE r # n
        <5>1. lock[r] = g
          BY <1>0, <3>1, <3>2, <4>2 DEF TypeOK
        <5>2. r = target[g] => list'[g] = list[g]
          BY <1>0, <3>1, <4>2 DEF TypeOK
        <5> QED
          BY <1>0, <5>1, <5>2 DEF LockInv, LockedRows
      <4> QED
        BY <4>1, <4>2
    <3>4. Writing'
      <4> SUFFICES ASSUME NEW g \in Handlers, pc[g] = "write"
          PROVE  /\ lock'[target[g]] = g
                 /\ \A r \in Present : lock'[r] = g \/ row[r].aliases = {}
        BY <3>1 DEF Writing, Present
      <4>1. lock[target[g]] = g /\ target[g] \in Rows /\ \A r \in Present : lock[r] = g \/ row[r].aliases = {}
        BY <1>0 DEF LockInv, Writing, Control, Present
      <4> QED
        BY <1>0, <3>1, <3>2, <4>1, LabelsAssumption DEF TypeOK, Present
    <3>5. OneWriter'
      BY <1>0, <3>1 DEF LockInv, OneWriter
    <3> QED
      BY <3>3, <3>4, <3>5 DEF LockInv
  <2> QED
    BY <2>1, <2>2
<1>9. ASSUME NEW h \in Handlers, EndScan(h) PROVE LockInv'
  <2>1. /\ pc[h] = "scan" /\ target[h] \in Present
        /\ \A r \in Present : lock[r] = h
        /\ pc' = [pc EXCEPT ![h] = "write"]
        /\ UNCHANGED <<row, lock, req, target, list>>
    BY <1>0, <1>9 DEF EndScan, RowsToLock, Proceed, Goto, Control
  <2>2. LockedRows'
    BY <1>0, <2>1 DEF LockInv, LockedRows, Present, AliasLabels, TypeOK
  <2>3. Writing'
    BY <1>0, <2>1 DEF LockInv, Writing, Present, TypeOK
  <2>4. \A g \in Handlers : pc[g] # "write"
    BY <1>0, <2>1 DEF LockInv, Writing, Control
  <2>5. OneWriter'
    BY <1>0, <2>1, <2>4 DEF OneWriter, TypeOK
  <2> QED
    BY <2>2, <2>3, <2>5 DEF LockInv
<1>10. ASSUME NEW h \in Handlers, ResolveCode(h) \/ ResolveName(h) PROVE LockInv'
  <2>1. CASE \E result : Refuse(h, result)
    BY <2>1, RefuseLocks
  <2>2. CASE \E r : Found(h, r)
    <3>1. PICK r : Found(h, r)
      BY <2>2
    <3>2. pc[h] \in {"resolve", "names"}
      BY <1>10 DEF ResolveCode, ResolveName
    <3>3. /\ pc' = [pc EXCEPT ![h] = "done"]
          /\ target' = [target EXCEPT ![h] = r]
          /\ UNCHANGED <<row, lock, req, list>>
      BY <3>1 DEF Found, Goto
    <3>4. \A g \in Handlers \ {h} : req'[g] = req[g] /\ target'[g] = target[g]
      BY <1>0, <3>3 DEF TypeOK
    <3> QED
      BY <3>2, <3>3, <3>4, OutsideStep
  <2>3. CASE Proceed(h, "names") /\ pc[h] = "resolve"
    BY <1>p, <2>3
  <2> QED
    BY <1>10, <2>1, <2>2, <2>3 DEF ResolveCode, ResolveName
<1>11. ASSUME NEW h \in Handlers, Respond(h) PROVE LockInv'
  BY <1>0, <1>11, OutsideStep DEF Respond, Goto, TypeOK
<1>12. ASSUME NEW h \in Handlers, Abort(h) PROVE LockInv'
  BY <1>12, RefuseLocks DEF Abort
<1> QED
  BY <1>u, <1>1, <1>2, <1>3, <1>4, <1>5, <1>6, <1>7, <1>8, <1>9, <1>10, <1>11, <1>12
  DEF Next, Work, Wait

-----------------------------------------------------------------------------
(***************************************************************************)
(* The labels themselves.                                                  *)
(***************************************************************************)
ValueInv == AliasesDistinct /\ AliasIdsDistinct /\ CodesDistinct

\* Only four actions write rows.
LEMMA RowSteps ==
  ASSUME [Next]_vars
  PROVE  \/ row' = row
         \/ \E h \in Handlers :
              InsertNamespace(h) \/ UpdateNamespace(h) \/ WriteAlias(h) \/ DeleteAlias(h)
<1>1. ASSUME NEW h \in Handlers, Work(h), ~InsertNamespace(h), ~WriteAlias(h) PROVE row' = row
  BY <1>1 DEF Work, CheckCode, CheckDisplay, FindNamespace, CheckExcept, CheckAlias, EndScan,
              ResolveCode, ResolveName, Respond, Refuse, Proceed, Found
<1>2. ASSUME NEW h \in Handlers, Wait(h), ~UpdateNamespace(h), ~DeleteAlias(h) PROVE row' = row
  BY <1>2 DEF Wait, LockNextRow, Refuse
<1>3. ASSUME NEW h \in Handlers, Submit(h) \/ Abort(h) PROVE row' = row
  BY <1>3 DEF Submit, Abort, Refuse
<1> QED
  BY <1>1, <1>2, <1>3 DEF Next, vars

\* The label of a request that writes is no alias of any row.
LEMMA NewLabel ==
  ASSUME Inv, NEW h \in Handlers, pc[h] = "write", NEW r \in Present
  PROVE  req[h].label \notin AliasLabels(r)
<1>1. r \in Rows /\ (lock[r] = h \/ row[r].aliases = {})
  BY DEF Inv, Writing, Present
<1> QED
  BY <1>1 DEF Inv, LockedRows, AliasLabels

LEMMA ValueStep == Inv /\ [Next]_vars => ValueInv'
<1> SUFFICES ASSUME Inv, [Next]_vars PROVE ValueInv'
  OBVIOUS
<1>0. TypeOK /\ Control /\ ValueInv
  BY DEF Inv, ValueInv
<1>u. CASE row' = row
  BY <1>0, <1>u DEF ValueInv, AliasesDistinct, AliasIdsDistinct, CodesDistinct, Present
<1>1. ASSUME NEW h \in Handlers, InsertNamespace(h), row' # row PROVE ValueInv'
  <2>1. PICK n \in Rows \ Present, result \in {"ok", "error"} :
          Inserted(h, n) /\ Present' = Present \cup {n}
    BY <1>1, InsertStep DEF Refuse
  <2>2. /\ \A r \in Present : row'[r] = row[r]
        /\ row'[n].aliases = {} /\ row'[n].code = req[h].code
        /\ \A r \in Present : row[r].code # req[h].code
    BY <1>0, <2>1 DEF TypeOK, Inserted, DuplicateCode, Present
  <2>3. AliasesDistinct'
    BY <1>0, <2>1, <2>2 DEF ValueInv, AliasesDistinct
  <2>4. AliasIdsDistinct'
    BY <1>0, <2>1, <2>2 DEF ValueInv, AliasIdsDistinct
  <2>5. CodesDistinct'
    BY <1>0, <2>1, <2>2 DEF ValueInv, CodesDistinct
  <2> QED
    BY <2>3, <2>4, <2>5 DEF ValueInv
<1>2. ASSUME NEW h \in Handlers, UpdateNamespace(h), row' # row PROVE ValueInv'
  <2>1. Renamed(h) /\ Present' = Present
    BY <1>2, UpdateStep DEF Refuse
  <2>2. \A r \in Present : row'[r].aliases = row[r].aliases /\ row'[r].code = row[r].code
    BY <2>1 DEF Renamed, Present
  <2> QED
    BY <1>0, <2>1, <2>2 DEF ValueInv, AliasesDistinct, AliasIdsDistinct, CodesDistinct
<1>3. ASSUME NEW h \in Handlers, WriteAlias(h), row' # row PROVE ValueInv'
  <2>1. PICK id \in Nat \ {0}, result \in {"ok", "error"} :
           /\ \A item \in row[target[h]].aliases : item.id < id
           /\ Added(h, id) /\ Present' = Present
    BY <1>3, WriteStep
  <2>2. target[h] \in Present /\ pc[h] = "write"
    BY <1>0, <1>3 DEF Control, WriteAlias
  <2>3. PICK new : new = [id |-> id, label |-> req[h].label]
    OBVIOUS
  <2>4. /\ \A r \in Present \ {target[h]} : row'[r] = row[r]
        /\ \A r \in Present : row'[r].code = row[r].code
        /\ row'[target[h]].aliases = row[target[h]].aliases \cup {new}
    BY <2>1, <2>2, <2>3 DEF Added, Present
  <2>5. \A r \in Present : \A item \in row[r].aliases : item.label # new.label
    BY <2>2, <2>3, NewLabel DEF AliasLabels
  <2>6. \A item \in row[target[h]].aliases : item.id # new.id
    <3> SUFFICES ASSUME NEW item \in row[target[h]].aliases PROVE item.id # new.id
      OBVIOUS
    <3>1. item.id \in Nat
      BY <1>0, <2>2, RowTypes DEF Alias
    <3> QED
      BY <2>1, <2>3, <3>1
  <2>7. AliasesDistinct'
    <3> SUFFICES ASSUME NEW r \in Present, NEW k \in Present,
                        NEW x \in row'[r].aliases, NEW y \in row'[k].aliases, x.label = y.label
        PROVE r = k /\ x = y
      BY <2>1 DEF AliasesDistinct
    <3>1. x \in row[r].aliases \/ (x = new /\ r = target[h])
      BY <2>4
    <3>2. y \in row[k].aliases \/ (y = new /\ k = target[h])
      BY <2>4
    <3> QED
      BY <1>0, <2>5, <3>1, <3>2 DEF ValueInv, AliasesDistinct
  <2>8. AliasIdsDistinct'
    <3> SUFFICES ASSUME NEW r \in Present, NEW x \in row'[r].aliases, NEW y \in row'[r].aliases, x.id = y.id
        PROVE x = y
      BY <2>1 DEF AliasIdsDistinct
    <3>1. x \in row[r].aliases \/ (x = new /\ r = target[h])
      BY <2>4
    <3>2. y \in row[r].aliases \/ (y = new /\ r = target[h])
      BY <2>4
    <3> QED
      BY <1>0, <2>6, <3>1, <3>2 DEF ValueInv, AliasIdsDistinct
  <2>9. CodesDistinct'
    BY <1>0, <2>1, <2>4 DEF ValueInv, CodesDistinct
  <2> QED
    BY <2>7, <2>8, <2>9 DEF ValueInv
<1>4. ASSUME NEW h \in Handlers, DeleteAlias(h), row' # row PROVE ValueInv'
  <2>1. Removed(h) /\ Present' = Present
    BY <1>4, DeleteStep DEF Refuse
  <2>2. \A r \in Present : row'[r].aliases \subseteq row[r].aliases /\ row'[r].code = row[r].code
    BY <2>1 DEF Removed, Present
  <2> QED
    BY <1>0, <2>1, <2>2 DEF ValueInv, AliasesDistinct, AliasIdsDistinct, CodesDistinct
<1> QED
  BY <1>u, <1>1, <1>2, <1>3, <1>4, RowSteps

-----------------------------------------------------------------------------
LEMMA InvStep == Inv /\ [Next]_vars => Inv'
<1> SUFFICES ASSUME Inv, [Next]_vars PROVE Inv'
  OBVIOUS
<1>1. TypeOK' /\ Control'
  BY TypeStep
<1>2. LockedRows' /\ Writing' /\ OneWriter'
  BY LockStep DEF LockInv
<1>3. AliasesDistinct' /\ AliasIdsDistinct' /\ CodesDistinct'
  BY ValueStep DEF ValueInv
<1> QED
  BY <1>1, <1>2, <1>3 DEF Inv

\* The inductive invariant: types, control, locks, and what alias transactions
\* know of the rows they hold, for any number of handlers and rows.
THEOREM LabelsInvariance == Spec => []Inv
<1>1. Init => Inv
  BY InitInv
<1>2. Inv /\ [Next]_vars => Inv'
  BY InvStep
<1> QED
  BY <1>1, <1>2, PTL DEF Spec

\* No two aliases are the same label, however many requests register aliases
\* at once: the locks of all rows suffice (CreateNamespaceAlias).
THEOREM AliasDistinctness == Spec => []AliasesDistinct
<1>1. Inv => AliasesDistinct
  BY DEF Inv
<1> QED
  BY <1>1, LabelsInvariance, PTL

\* An alias goes only by a deletion of its id: the JSON list that is written
\* back is the one that is there (CreateNamespaceAlias, DeleteNamespaceAlias).
THEOREM NamedDeleted == Spec => OnlyNamedDeleted
<1>1. ASSUME Inv, [Next]_vars
      PROVE  \A r \in Present : \A item \in row[r].aliases :
               item \notin row'[r].aliases =>
                 \E h \in Handlers : pc[h] = "delete" /\ target[h] = r /\ req[h].id = item.id
  <2> SUFFICES ASSUME NEW r \in Present, NEW item \in row[r].aliases, item \notin row'[r].aliases
      PROVE \E h \in Handlers : pc[h] = "delete" /\ target[h] = r /\ req[h].id = item.id
    OBVIOUS
  <2>0. TypeOK /\ r \in Rows /\ row' # row
    BY <1>1 DEF Inv, Present
  <2>1. ASSUME NEW h \in Handlers, InsertNamespace(h) PROVE FALSE
    <3>1. PICK n \in Rows \ Present : Inserted(h, n)
      BY <1>1, <2>0, <2>1, InsertStep DEF Refuse
    <3> QED
      BY <2>0, <3>1 DEF Inserted, TypeOK
  <2>2. ASSUME NEW h \in Handlers, UpdateNamespace(h) PROVE FALSE
    BY <1>1, <2>0, <2>2, UpdateStep DEF Refuse, Renamed
  <2>3. ASSUME NEW h \in Handlers, WriteAlias(h) PROVE FALSE
    BY <1>1, <2>0, <2>3, WriteStep DEF Added
  <2>4. ASSUME NEW h \in Handlers, DeleteAlias(h)
        PROVE pc[h] = "delete" /\ target[h] = r /\ req[h].id = item.id
    <3>1. Removed(h)
      BY <1>1, <2>0, <2>4, DeleteStep DEF Refuse
    <3>2. target[h] = r /\ item \in NamedAliases(h)
      BY <2>0, <3>1 DEF Removed
    <3> QED
      BY <2>4, <3>2 DEF DeleteAlias, NamedAliases
  <2> QED
    BY <1>1, <2>0, <2>1, <2>2, <2>3, <2>4, RowSteps
<1>2. Inv /\ [Next]_vars =>
        [\A r \in Present : \A item \in row[r].aliases :
           item \notin row'[r].aliases =>
             \E h \in Handlers : /\ pc[h] = "delete" /\ target[h] = r
                                 /\ req[h].id = item.id]_vars
  BY <1>1
<1> QED
  BY <1>2, LabelsInvariance, PTL DEF Spec, OnlyNamedDeleted

-----------------------------------------------------------------------------
Alone == \A h, g \in Handlers : pc[h] # "idle" /\ pc[g] # "idle" => h = g

\* What handler h has found out by its queries so far.
Checked(h) ==
  /\ pc[h] = "display" => ~LabelExists(req[h].code)
  /\ pc[h] = "insert" => ~LabelExists(req[h].code) /\ ~LabelExists(req[h].display)
  /\ pc[h] = "update" => ~LabelExistsExcept(req[h].display, target[h])
  /\ pc[h] \in {"scan", "write"} => ~LabelExists(req[h].label)
  /\ pc[h] = "names" => \A r \in Present : row[r].code # req[h].label

AloneInv == ~overlapped => Alone /\ LabelsUnique /\ \A h \in Handlers : Checked(h)

-----------------------------------------------------------------------------
\* One handler steps, the others keep their places; a request that meets
\* another one is remembered, and nothing forgets it.
LEMMA StepOfOne ==
  ASSUME TypeOK, NEW h \in Handlers, Submit(h) \/ Work(h) \/ Wait(h) \/ Abort(h)
  PROVE  /\ \A g \in Handlers \ {h} : pc'[g] = pc[g]
         /\ overlapped => overlapped'
         /\ Submit(h) /\ ~overlapped' => \A g \in Handlers : pc[g] = "idle"
         /\ ~Submit(h) => pc[h] # "idle"
<1>1. CASE Submit(h)
  BY <1>1 DEF TypeOK, Submit, Goto
<1>2. CASE Work(h)
  BY <1>2 DEF TypeOK, Work, CheckCode, CheckDisplay, InsertNamespace, FindNamespace, CheckExcept,
     CheckAlias, EndScan, WriteAlias, ResolveCode, ResolveName, Respond, Submit,
     Refuse, Proceed, Found, Committed, Finish, Goto
<1>3. CASE Wait(h) \/ Abort(h)
  BY <1>3 DEF TypeOK, Wait, Abort, UpdateNamespace, LockNextRow, DeleteAlias, Submit,
     Refuse, Committed, Finish, Goto
<1> QED
  BY <1>1, <1>2, <1>3

\* After a write the handler is done.
LEMMA WritersAreDone ==
  ASSUME TypeOK, NEW h \in Handlers, Submit(h) \/ Work(h) \/ Wait(h) \/ Abort(h), row' # row
  PROVE  pc'[h] = "done"
<1>1. InsertNamespace(h) \/ UpdateNamespace(h) \/ WriteAlias(h) \/ DeleteAlias(h)
  BY DEF Work, Wait, Submit, CheckCode, CheckDisplay, FindNamespace, CheckExcept,
         CheckAlias, LockNextRow, EndScan, ResolveCode, ResolveName, Respond, Abort,
         Refuse, Proceed, Found
<1>2. \E result : Finish(h, result)
  BY <1>1 DEF InsertNamespace, UpdateNamespace, WriteAlias, DeleteAlias, Committed, Refuse
<1> QED
  BY <1>2 DEF TypeOK, Finish, Goto

\* What a handler finds out it has found out.
LEMMA CheckedStep ==
  ASSUME TypeOK, NEW h \in Handlers, Submit(h) \/ Work(h) \/ Wait(h) \/ Abort(h),
         Checked(h), row' = row
  PROVE  Checked(h)'
<1> DEFINE Same == req'[h] = req[h] /\ target'[h] = target[h]
<1>0. \A label, own : /\ LabelExists(label)' <=> LabelExists(label)
                      /\ LabelExistsExcept(label, own)' <=> LabelExistsExcept(label, own)
  BY DEF LabelExists, LabelExistsExcept, LabelsOf, AliasLabels, Present
<1>d. CASE pc'[h] \notin {"display", "insert", "update", "scan", "write", "names"}
  BY <1>d DEF Checked
<1>1. CASE CheckCode(h) /\ pc'[h] # "done"
  BY <1>0, <1>1 DEF Checked, TypeOK, CheckCode, Proceed, Refuse, Finish, Goto
<1>2. CASE CheckDisplay(h) /\ pc'[h] # "done"
  BY <1>0, <1>2 DEF Checked, TypeOK, CheckDisplay, Proceed, Refuse, Finish, Goto
<1>3. CASE CheckExcept(h) /\ pc'[h] # "done"
  BY <1>0, <1>3 DEF Checked, TypeOK, CheckExcept, Proceed, Refuse, Finish, Goto
<1>4. CASE CheckAlias(h) /\ pc'[h] # "done"
  BY <1>0, <1>4 DEF Checked, TypeOK, CheckAlias, Proceed, Refuse, Finish, Goto
<1>5. CASE EndScan(h)
  BY <1>0, <1>5 DEF Checked, TypeOK, EndScan, Proceed, Goto
<1>6. CASE LockNextRow(h) /\ pc'[h] # "done"
  <2>1. pc[h] = "scan" /\ UNCHANGED <<pc, req, target>>
    BY <1>6 DEF TypeOK, LockNextRow, Refuse, Finish, Goto
  <2> QED
    BY <1>0, <2>1 DEF Checked
<1>8. CASE ResolveCode(h) /\ pc'[h] # "done"
  <2>1. pc'[h] = "names" /\ req' = req /\ \A r \in Present : row[r].code # req[h].label
    BY <1>8 DEF TypeOK, ResolveCode, Found, Proceed, Goto
  <2> QED
    BY <2>1 DEF Checked, Present
<1>7. CASE pc'[h] \in {"display", "insert", "update", "scan", "write", "names"}
  <2>1. pc'[h] # "done"
    BY <1>7
  <2>2. ~Submit(h)
    BY <1>7 DEF TypeOK, Submit, Goto
  <2>3. \/ CheckCode(h) \/ CheckDisplay(h) \/ CheckExcept(h)
        \/ CheckAlias(h) \/ EndScan(h) \/ LockNextRow(h) \/ ResolveCode(h)
    <3>1. ASSUME \E result : Finish(h, result) PROVE FALSE
      BY <1>7, <3>1 DEF TypeOK, Finish, Goto
    <3>2. ASSUME \E r : Found(h, r) PROVE FALSE
      BY <1>7, <3>2 DEF TypeOK, Found, Goto
    <3>3. ~Respond(h) /\ ~Abort(h)
      BY <1>7, <3>1 DEF TypeOK, Respond, Goto, Abort, Refuse
    <3>4. ~InsertNamespace(h) /\ ~WriteAlias(h) /\ ~UpdateNamespace(h) /\ ~DeleteAlias(h)
      BY <3>1 DEF InsertNamespace, WriteAlias, UpdateNamespace, DeleteAlias, Committed, Refuse
    <3>5. ~FindNamespace(h)
      BY <1>7, <3>1 DEF TypeOK, FindNamespace, Goto, Refuse
    <3>6. ~ResolveName(h)
      BY <1>7, <3>1, <3>2 DEF ResolveName, Refuse
    <3> QED
      BY <2>2, <3>3, <3>4, <3>5, <3>6 DEF Work, Wait
  <2> QED
    BY <1>1, <1>2, <1>3, <1>4, <1>5, <1>6, <1>8, <2>1, <2>3
<1> QED
  BY <1>d, <1>7

\* One write after the checks keeps the labels unique.
LEMMA UniqueStep ==
  ASSUME Inv, [Next]_vars, LabelsUnique, \A h \in Handlers : Checked(h)
  PROVE  LabelsUnique'
<1>0. TypeOK /\ Control
  BY DEF Inv
<1>u. CASE row' = row
  BY <1>u DEF LabelsUnique, LabelsOf, AliasLabels, Present
<1>1. ASSUME NEW h \in Handlers, InsertNamespace(h), row' # row PROVE LabelsUnique'
  <2>1. PICK n \in Rows \ Present, result \in {"ok", "error"} :
          Inserted(h, n) /\ Present' = Present \cup {n}
    BY <1>1, InsertStep DEF Refuse
  <2>2. \A r \in Present : req[h].code \notin LabelsOf(r) /\ req[h].display \notin LabelsOf(r)
    BY <1>1 DEF Checked, LabelExists, InsertNamespace
  <2>3. \A r \in Present : row'[r] = row[r] /\ r # n
    BY <1>0, <2>1 DEF TypeOK, Inserted, Present
  <2>4. row'[n].aliases = {} /\ row'[n].code = req[h].code /\ row'[n].display = req[h].display
    BY <1>0, <2>1 DEF TypeOK, Inserted
  <2>5. \A r \in Present : LabelsOf(r)' = LabelsOf(r) /\ AliasLabels(r)' = AliasLabels(r)
    BY <2>3 DEF LabelsOf, AliasLabels
  <2>6. \A r \in {n} : LabelsOf(r)' = {req[h].code, req[h].display} /\ AliasLabels(r)' = {}
    BY <2>4 DEF LabelsOf, AliasLabels
  <2>7. \A r, k \in Present' : r # k => LabelsOf(r)' \cap LabelsOf(k)' = {}
    BY <2>1, <2>2, <2>5, <2>6 DEF LabelsUnique
  <2>8. \A r \in Present' : {row'[r].code, row'[r].display} \cap AliasLabels(r)' = {}
    BY <2>1, <2>3, <2>5, <2>6 DEF LabelsUnique
  <2> QED
    BY <2>7, <2>8 DEF LabelsUnique
<1>2. ASSUME NEW h \in Handlers, UpdateNamespace(h), row' # row PROVE LabelsUnique'
  <2>1. PICK t : t = target[h]
    OBVIOUS
  <2>2. Renamed(h) /\ Present' = Present /\ t \in Present /\ t \in Rows
    BY <1>0, <1>2, <2>1, UpdateStep DEF Refuse, Control, UpdateNamespace, Present
  <2>3. /\ \A r \in Present \ {t} : req[h].display \notin LabelsOf(r)
        /\ req[h].display \notin AliasLabels(t)
    BY <1>2, <2>1, <2>2 DEF Checked, LabelExistsExcept, UpdateNamespace
  <2>4. \A r \in Present : AliasLabels(r)' = AliasLabels(r) /\ row'[r].code = row[r].code
    BY <2>1, <2>2 DEF AliasLabels, Renamed, Present
  <2>5. \A r \in Present \ {t} : LabelsOf(r)' = LabelsOf(r) /\ row'[r] = row[r]
    BY <2>1, <2>2 DEF LabelsOf, AliasLabels, Renamed, Present
  <2>6. \A r \in {t} : /\ row'[r].display = req[h].display
                       /\ LabelsOf(r)' = {row[r].code, req[h].display} \cup AliasLabels(r)
    BY <2>1, <2>2, <2>4 DEF LabelsOf, Renamed
  <2>7. \A r, k \in Present : r # k => LabelsOf(r)' \cap LabelsOf(k)' = {}
    <3> SUFFICES ASSUME NEW r \in Present, NEW k \in Present, r # k, NEW x, x \in LabelsOf(r)', x \in LabelsOf(k)'
        PROVE FALSE
      OBVIOUS
    <3>1. ASSUME NEW i \in Present, x \in LabelsOf(i)' PROVE x \in LabelsOf(i) \/ (i = t /\ x = req[h].display)
      BY <2>5, <2>6, <3>1 DEF LabelsOf
    <3>2. x \in LabelsOf(r) \/ (r = t /\ x = req[h].display)
      BY <3>1
    <3>3. x \in LabelsOf(k) \/ (k = t /\ x = req[h].display)
      BY <3>1
    <3> QED
      BY <2>3, <3>2, <3>3 DEF LabelsUnique
  <2>8. \A r \in Present : {row'[r].code, row'[r].display} \cap AliasLabels(r)' = {}
    BY <2>3, <2>4, <2>5, <2>6 DEF LabelsUnique
  <2> QED
    BY <2>2, <2>7, <2>8 DEF LabelsUnique
<1>3. ASSUME NEW h \in Handlers, WriteAlias(h), row' # row PROVE LabelsUnique'
  <2>1. PICK t : t = target[h]
    OBVIOUS
  <2>2. PICK id \in Nat \ {0}, result \in {"ok", "error"} : Added(h, id) /\ Present' = Present
    BY <1>3, WriteStep
  <2>3. t \in Present /\ t \in Rows
    BY <1>0, <1>3, <2>1 DEF Control, WriteAlias, Present
  <2>4. \A r \in Present : req[h].label \notin LabelsOf(r)
    BY <1>3 DEF Checked, LabelExists, WriteAlias
  <2>5. \A r \in Present : row'[r].code = row[r].code /\ row'[r].display = row[r].display
    BY <2>1, <2>2 DEF Added, Present
  <2>6. \A r \in Present \ {t} : row'[r] = row[r]
    BY <2>1, <2>2 DEF Added, Present
  <2>7. \A r \in {t} : \A item \in row'[r].aliases : item \in row[r].aliases \/ item.label = req[h].label
    BY <2>1, <2>2 DEF Added
  <2>8. \A r \in Present : \A x \in AliasLabels(r)' : x \in AliasLabels(r) \/ (r = t /\ x = req[h].label)
    <3>1. ASSUME NEW r \in Present, NEW x \in AliasLabels(r)'
          PROVE  x \in AliasLabels(r) \/ (r = t /\ x = req[h].label)
      <4>1. PICK item \in row'[r].aliases : x = item.label
        BY <3>1 DEF AliasLabels
      <4>2. item \in row[r].aliases \/ (r = t /\ item.label = req[h].label)
        BY <2>6, <2>7, <3>1, <4>1
      <4> QED
        BY <4>1, <4>2 DEF AliasLabels
    <3> QED
      BY <3>1
  <2>9. \A r \in Present : \A x \in LabelsOf(r)' : x \in LabelsOf(r) \/ (r = t /\ x = req[h].label)
    BY <2>5, <2>8 DEF LabelsOf
  <2>10. \A r, k \in Present : r # k => LabelsOf(r)' \cap LabelsOf(k)' = {}
    <3> SUFFICES ASSUME NEW r \in Present, NEW k \in Present, r # k, NEW x, x \in LabelsOf(r)', x \in LabelsOf(k)'
        PROVE FALSE
      OBVIOUS
    <3> QED
      BY <2>4, <2>9 DEF LabelsUnique
  <2>11. \A r \in Present : {row'[r].code, row'[r].display} \cap AliasLabels(r)' = {}
    BY <2>4, <2>5, <2>8 DEF LabelsUnique, LabelsOf
  <2> QED
    BY <2>2, <2>10, <2>11 DEF LabelsUnique
<1>4. ASSUME NEW h \in Handlers, DeleteAlias(h), row' # row PROVE LabelsUnique'
  <2>1. Removed(h) /\ Present' = Present
    BY <1>4, DeleteStep DEF Refuse
  <2>2. \A r \in Present : row'[r].code = row[r].code /\ row'[r].display = row[r].display
    BY <2>1 DEF Removed, Present
  <2>3. \A r \in Present : row'[r].aliases \subseteq row[r].aliases
    BY <2>1 DEF Removed, Present
  <2>4. \A r \in Present : AliasLabels(r)' \subseteq AliasLabels(r) /\ LabelsOf(r)' \subseteq LabelsOf(r)
    BY <2>2, <2>3 DEF AliasLabels, LabelsOf
  <2>5. \A r, k \in Present : r # k => LabelsOf(r)' \cap LabelsOf(k)' = {}
    BY <2>4 DEF LabelsUnique
  <2>6. \A r \in Present : {row'[r].code, row'[r].display} \cap AliasLabels(r)' = {}
    BY <2>2, <2>4 DEF LabelsUnique
  <2> QED
    BY <2>1, <2>5, <2>6 DEF LabelsUnique
<1> QED
  BY <1>u, <1>1, <1>2, <1>3, <1>4, RowSteps

LEMMA AloneStep == Inv /\ AloneInv /\ [Next]_vars => AloneInv'
<1> SUFFICES ASSUME Inv, AloneInv, [Next]_vars, ~overlapped' PROVE Alone' /\ LabelsUnique' /\ \A h \in Handlers : Checked(h)'
  BY DEF AloneInv
<1>0. TypeOK
  BY DEF Inv
<1>u. CASE UNCHANGED vars
  BY <1>u DEF AloneInv, vars, Alone, Checked, LabelsUnique, LabelExists, LabelExistsExcept, LabelsOf, AliasLabels, Present
<1>1. ASSUME NEW h \in Handlers, Submit(h) \/ Work(h) \/ Wait(h) \/ Abort(h)
      PROVE  Alone' /\ LabelsUnique' /\ \A g \in Handlers : Checked(g)'
  <2>1. Alone /\ LabelsUnique /\ \A g \in Handlers : Checked(g)
    BY <1>0, <1>1, StepOfOne DEF AloneInv
  <2>2. \A g \in Handlers \ {h} : pc'[g] = "idle"
    BY <1>0, <1>1, <2>1, StepOfOne DEF Alone
  <2>3. Alone'
    BY <2>2 DEF Alone
  <2>4. LabelsUnique'
    BY <2>1, UniqueStep
  <2>5. Checked(h)'
    BY <1>0, <1>1, <2>1, CheckedStep, WritersAreDone DEF Checked
  <2>6. \A g \in Handlers \ {h} : Checked(g)'
    BY <2>2 DEF Checked
  <2> QED
    BY <2>3, <2>4, <2>5, <2>6
<1> QED
  BY <1>u, <1>1 DEF Next

-----------------------------------------------------------------------------
\* From unique labels, labels stay unique until two requests overlap
\* (CreateNamespace, UpdateNamespace and CreateNamespaceAlias of registry.go).
THEOREM UniqueAlone == Spec /\ LabelsUnique => []UniqueUnlessOverlapped
<1>1. Init /\ LabelsUnique => AloneInv
  BY DEF Init, AloneInv, Alone, Checked
<1>2. Inv /\ AloneInv /\ [Next]_vars => AloneInv'
  BY AloneStep
<1>3. AloneInv => UniqueUnlessOverlapped
  BY DEF AloneInv, UniqueUnlessOverlapped
<1> QED
  BY <1>1, <1>2, <1>3, LabelsInvariance, PTL DEF Spec

\* What ResolveNamespace finds by the names or aliases of all rows.
LEMMA NameResolved ==
  ASSUME TypeOK, LabelsUnique, NEW h \in Handlers, ResolveName(h), Checked(h)
  PROVE  \/ answer'[h] = "found" /\ req[h].label \in LabelsOf(target'[h])
         \/ answer'[h] = "notFound" /\ ~LabelExists(req[h].label)
<1> DEFINE label == req[h].label
<1>1. \A r, k \in Displayed(label) : r = k
  BY DEF Displayed, LabelsUnique, LabelsOf
<1>2. CASE Cardinality(Displayed(label)) > 1
  <2>1. Displayed(label) # {}
    BY <1>2, FS_EmptySet
  <2>2. PICK r : r \in Displayed(label)
    BY <2>1
  <2>3. Displayed(label) = {r}
    BY <1>1, <2>2
  <2>4. Cardinality(Displayed(label)) = 1
    BY <2>3, FS_Singleton
  <2> QED
    BY <1>2, <2>4
<1>3. ASSUME NEW r \in Displayed(label) \cup Aliased(label), Found(h, r)
      PROVE  answer'[h] = "found" /\ req[h].label \in LabelsOf(target'[h])
  <2>1. answer'[h] = "found" /\ target'[h] = r
    BY <1>3 DEF TypeOK, Found
  <2>2. label \in LabelsOf(r)
    BY DEF Displayed, Aliased, LabelsOf
  <2> QED
    BY <2>1, <2>2
<1>4. CASE Displayed(label) = {} /\ Aliased(label) = {} /\ Refuse(h, "notFound")
  <2>1. \A r \in Present : row[r].code # label /\ row[r].display # label /\ label \notin AliasLabels(r)
    BY <1>4 DEF Displayed, Aliased, ResolveName, Checked
  <2>2. ~LabelExists(label)
    BY <2>1 DEF LabelExists, LabelsOf
  <2>3. answer'[h] = "notFound"
    BY <1>4 DEF TypeOK, Refuse, Finish
  <2> QED
    BY <2>2, <2>3
<1> QED
  BY <1>2, <1>3, <1>4 DEF ResolveName

\* Until two requests overlap, a label resolves to the one namespace that has
\* it, and is not found only if none has (ResolveNamespace).
THEOREM OwnerResolved == Spec /\ LabelsUnique => ResolvesToOwner
<1>1. Init /\ LabelsUnique => AloneInv
  BY DEF Init, AloneInv, Alone, Checked
<1>2. Inv /\ AloneInv /\ [Next]_vars => AloneInv'
  BY AloneStep
<1>3. ASSUME Inv, AloneInv, [Next]_vars, ~overlapped, NEW h \in Handlers,
             pc[h] \in {"resolve", "names"}, pc'[h] = "done", answer'[h] # "error"
      PROVE  \/ answer'[h] = "found" /\ req[h].label \in LabelsOf(target'[h])
             \/ answer'[h] = "notFound" /\ ~LabelExists(req[h].label)
  <2>0. TypeOK /\ LabelsUnique /\ Checked(h)
    BY <1>3 DEF Inv, AloneInv
  <2>1. Submit(h) \/ Work(h) \/ Wait(h) \/ Abort(h)
    <3>1. pc' # pc
      BY <1>3
    <3>2. PICK g \in Handlers : Submit(g) \/ Work(g) \/ Wait(g) \/ Abort(g)
      BY <1>3, <3>1 DEF Next, vars
    <3> QED
      BY <1>3, <2>0, <3>2, StepOfOne
  <2>2. ~Abort(h)
    BY <1>3, <2>0 DEF TypeOK, Abort, Refuse, Finish
  <2>3. ResolveCode(h) \/ ResolveName(h)
    BY <1>3, <2>1, <2>2 DEF Submit, Work, Wait, CheckCode, CheckDisplay, InsertNamespace, FindNamespace,
       CheckExcept, CheckAlias, EndScan, WriteAlias, Respond, UpdateNamespace, LockNextRow, DeleteAlias
  <2>4. CASE ResolveCode(h)
    <3>1. PICK r \in Present : row[r].code = req[h].label /\ Found(h, r)
      BY <1>3, <2>0, <2>4 DEF TypeOK, ResolveCode, Proceed, Goto
    <3>2. answer'[h] = "found" /\ target'[h] = r
      BY <2>0, <3>1 DEF TypeOK, Found
    <3> QED
      BY <3>1, <3>2 DEF LabelsOf
  <2>5. CASE ResolveName(h)
    BY <2>0, <2>5, NameResolved
  <2> QED
    BY <2>3, <2>4, <2>5
<1>4. Inv /\ AloneInv /\ [Next]_vars =>
        [\A h \in Handlers :
           /\ ~overlapped
           /\ pc[h] \in {"resolve", "names"} /\ pc'[h] = "done" /\ answer'[h] # "error"
           => \/ answer'[h] = "found" /\ req[h].label \in LabelsOf(target'[h])
              \/ answer'[h] = "notFound" /\ ~LabelExists(req[h].label)]_vars
  BY <1>3
<1> QED
  BY <1>1, <1>2, <1>4, LabelsInvariance, PTL DEF Spec, ResolvesToOwner
-----------------------------------------------------------------------------
\* Rows get their ids in order, and every transaction that locks them all
\* goes by the id, so whoever has a row has all the rows before it.
LockOrder ==
  /\ \A r \in Present, k \in Rows : k < r => k \in Present
  /\ \A r, k \in Present : k < r /\ lock[r] # Free => lock[k] = lock[r]

LEMMA LockOrderStep == Inv /\ LockOrder /\ [Next]_vars => LockOrder'
<1> SUFFICES ASSUME Inv, LockOrder, [Next]_vars PROVE LockOrder'
  OBVIOUS
<1>0. TypeOK /\ LockedRows /\ \A r \in Rows : r \in Int
  BY LabelsAssumption DEF Inv
<1>l. \A r \in Rows : lock[r] # Free => r \in Present
  BY <1>0 DEF TypeOK, LockedRows
<1>u. CASE UNCHANGED vars
  BY <1>u DEF vars, LockOrder, Present
<1>k. ASSUME Present' = Present, UNCHANGED lock PROVE LockOrder'
  BY <1>k DEF LockOrder
<1>f. ASSUME Present' = Present, NEW h \in Handlers, Unlock(h) PROVE LockOrder'
  <2>1. ASSUME NEW r \in Present, NEW k \in Present, k < r, lock'[r] # Free PROVE lock'[k] = lock'[r]
    BY <1>f, <2>1 DEF LockOrder, Unlock, Present
  <2> QED
    BY <1>f, <2>1 DEF LockOrder
<1>1. ASSUME NEW h \in Handlers, InsertNamespace(h), row' # row PROVE LockOrder'
  <2>1. PICK n \in Rows \ Present :
          /\ \A k \in Rows \ Present : n <= k
          /\ row' = [row EXCEPT ![n] =
               [code |-> req[h].code, display |-> req[h].display, aliases |-> {}]]
    BY <1>1 DEF InsertNamespace, Refuse
  <2>2. Present' = Present \cup {n}
    <3>1. req[h] \in CreateRequest
      BY <1>1 DEF Inv, Control, InsertNamespace
    <3>2. [code |-> req[h].code, display |-> req[h].display, aliases |-> {}] \in Namespace
      BY <3>1 DEF CreateRequest, Namespace
    <3>3. row'[n] # Nil /\ \A k \in Rows \ {n} : row'[k] = row[k]
      BY <1>0, <2>1, <3>2, LabelsAssumption DEF TypeOK
    <3> QED
      BY <2>1, <3>3 DEF Present
  <2>3. \A r \in Rows : lock'[r] = IF lock[r] = h THEN Free ELSE lock[r]
    BY <1>1 DEF InsertNamespace, Committed, Refuse, Finish, Unlock
  <2>4. ASSUME NEW r \in Present', NEW k \in Rows, k < r PROVE k \in Present'
    <3>1. CASE r = n
      BY <1>0, <2>1, <2>2, <2>4, <3>1
    <3>2. CASE r # n
      BY <2>2, <2>4, <3>2 DEF LockOrder
    <3> QED
      BY <3>1, <3>2
  <2>5. ASSUME NEW r \in Present', NEW k \in Present', k < r, lock'[r] # Free PROVE lock'[k] = lock'[r]
    <3>1. r \in Rows /\ k \in Rows /\ lock[r] # Free /\ r # n
      BY <1>l, <2>1, <2>2, <2>3, <2>5 DEF Present
    <3>2. r \in Present /\ k \in Present
      BY <2>2, <2>5, <3>1 DEF LockOrder
    <3> QED
      BY <2>3, <2>5, <3>1, <3>2 DEF LockOrder
  <2> QED
    BY <2>4, <2>5 DEF LockOrder
<1>2. ASSUME NEW h \in Handlers, LockNextRow(h), ~Refuse(h, "conflict") PROVE LockOrder'
  <2>1. PICK r \in Present :
          /\ lock[r] = Free
          /\ \A k \in Present : k < r => lock[k] = h
          /\ lock' = [lock EXCEPT ![r] = h] /\ row' = row
    BY <1>2 DEF LockNextRow, RowsToLock, Grantable
  <2>2. Present' = Present /\ r \in Rows
    BY <2>1 DEF Present
  <2>3. \A k \in Rows : lock'[k] = IF k = r THEN h ELSE lock[k]
    BY <1>0, <2>1 DEF TypeOK
  <2>4. ASSUME NEW i \in Present, NEW k \in Present, k < i, lock'[i] # Free PROVE lock'[k] = lock'[i]
    <3>0. i \in Rows /\ k \in Rows
      BY DEF Present
    <3>1. CASE i = r
      BY <1>0, <2>1, <2>3, <2>4, <3>0, <3>1
    <3>2. CASE i # r
      <4>1. lock[k] = lock[i] /\ lock[k] # Free
        BY <2>3, <2>4, <3>0, <3>2 DEF LockOrder
      <4> QED
        BY <2>1, <2>3, <3>0, <3>2, <4>1
    <3> QED
      BY <3>1, <3>2
  <2> QED
    BY <2>2, <2>4 DEF LockOrder
<1>3. ASSUME NEW h \in Handlers, UpdateNamespace(h) \/ WriteAlias(h) \/ DeleteAlias(h) PROVE LockOrder'
  <2>1. Present' = Present
    BY <1>3, UpdateStep, WriteStep, DeleteStep DEF Refuse, Present
  <2>2. Unlock(h)
    BY <1>3 DEF UpdateNamespace, WriteAlias, DeleteAlias, Committed, Refuse, Finish
  <2> QED
    BY <1>f, <2>1, <2>2
<1>4. ASSUME NEW h \in Handlers, row' = row, Unlock(h) PROVE LockOrder'
  BY <1>f, <1>4 DEF Present
<1>5. ASSUME NEW h \in Handlers, row' = row, lock' = lock PROVE LockOrder'
  BY <1>k, <1>5 DEF Present
<1>6. ASSUME NEW h \in Handlers, Submit(h) \/ Work(h) \/ Wait(h) \/ Abort(h),
             ~UpdateNamespace(h), ~WriteAlias(h), ~DeleteAlias(h),
             ~(InsertNamespace(h) /\ row' # row), ~(LockNextRow(h) /\ ~Refuse(h, "conflict"))
      PROVE  row' = row /\ (Unlock(h) \/ lock' = lock)
  BY <1>6
  DEF Submit, Work, Wait, Abort, CheckCode, CheckDisplay, InsertNamespace, FindNamespace, CheckExcept,
      CheckAlias, LockNextRow, EndScan, ResolveCode, ResolveName, Respond, Refuse, Proceed, Found,
      Committed, Finish
<1> QED
  BY <1>u, <1>1, <1>2, <1>3, <1>4, <1>5, <1>6 DEF Next

\* The rows that are locked are those of one transaction, and it has no row
\* of another to wait for.
OneHolder ==
  \A r \in Rows : lock[r] # Free =>
    /\ lock[r] \in Handlers /\ pc[lock[r]] \in {"scan", "write"}
    /\ \A k \in Rows : lock[k] \in {Free, lock[r]}

LEMMA OneHolderHolds == Inv /\ LockOrder => OneHolder
<1> SUFFICES ASSUME Inv, LockOrder, NEW r \in Rows, lock[r] # Free
             PROVE  /\ lock[r] \in Handlers /\ pc[lock[r]] \in {"scan", "write"}
                    /\ \A k \in Rows : lock[k] \in {Free, lock[r]}
  BY DEF OneHolder
<1>1. \A k \in Rows : lock[k] # Free =>
        lock[k] \in Handlers /\ pc[lock[k]] \in {"scan", "write"} /\ k \in Present
  BY DEF Inv, TypeOK, LockedRows
<1>2. \A k \in Rows : k < r \/ r < k \/ k = r
  BY LabelsAssumption
<1> QED
  BY <1>1, <1>2 DEF LockOrder

\* Alias transactions that lock all rows, and updates and deletions that lock
\* one, never wait for each other in a circle (ORDER BY id FOR UPDATE).
THEOREM LockHolderGoesOn == Spec => []OneHolder
<1>1. Init => LockOrder
  BY StoredAssumption, LabelsAssumption DEF Init, LockOrder, Present
<1>2. LockOrder /\ Inv /\ [Next]_vars => LockOrder'
  BY LockOrderStep
<1>3. Inv /\ LockOrder => OneHolder
  BY OneHolderHolds
<1> QED
  BY <1>1, <1>2, <1>3, LabelsInvariance, PTL DEF Spec
=============================================================================
