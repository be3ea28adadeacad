--------------------------- MODULE RegistryProofs ---------------------------
(***************************************************************************)
(* Proofs about Registry, for every value of its constants.                *)
(***************************************************************************)
EXTENDS RegistryProperties, TLAPS

-----------------------------------------------------------------------------
LEMMA Distinct ==
  /\ Nil \notin EntryRow /\ Nil \notin NamespaceRow /\ Nil \notin NamespaceLimits
  /\ Free \notin Handlers /\ NoRequest \notin Requests
  BY RegistryAssumption

LEMMA InitInv == Init => Inv
<1> SUFFICES ASSUME Init PROVE Inv
  OBVIOUS
<1> USE RegistryAssumption, CandidatesAssumption
<1>1. TypeOK
  BY DEF Init, TypeOK
<1>2. Control /\ Locked /\ PicksFree /\ PicksPermitted
  BY DEF Init, Control, Locked, PicksFree, PicksPermitted, Inserting, InTx
<1>3. OwnAllocation /\ NoValueConflict
  BY DEF Init, OwnAllocation, NoValueConflict
<1>4. LiveUnique
  BY StoredAssumption DEF Init, LiveUnique, LiveRows, RowsOf
<1>5. FoundRows /\ RereadIsRevoked
  BY StoredAssumption DEF Init, FoundRows, RereadIsRevoked
<1> QED
  BY <1>1, <1>2, <1>3, <1>4, <1>5 DEF Inv

LEMMA RequestKinds ==
  \A r \in Requests :
    /\ r.op \in {"allocate", "revokeEntry", "revokeAllocation", "update", "recalculate"}
    /\ r.op = "allocate" => r \in AllocateRequest
    /\ r.op = "revokeEntry" => r \in RevokeRequest /\ r.id \in Ids
    /\ r.op = "revokeAllocation" => r \in RevokeRequest /\ r.alloc \in Allocs
    /\ r.op = "update" => r \in UpdateRequest
    /\ r.op = "recalculate" => r \in RecalculateRequest
    /\ r \notin RevokeRequest => r.ns \in Namespaces
    /\ r \in AllocateRequest => r.op = "allocate"
    /\ r \in RevokeRequest => r.op \in {"revokeEntry", "revokeAllocation"}
  BY DEF Requests, AllocateRequest, RevokeRequest, UpdateRequest, RecalculateRequest

\* The end of a request touches the handler's own variables and the lock.
LEMMA FinishTypes ==
  ASSUME Inv, NEW h \in Handlers, NEW result \in Answers, Finish(h, result), pc[h] \in Active,
         entries' \in [Ids -> EntryRow \cup {Nil}],
         namespace' \in [Namespaces -> NamespaceRow \cup {Nil}],
         projects' \subseteq Projects
  PROVE  TypeOK' /\ Control'
<1>1. TypeOK'
  BY DEF Inv, TypeOK, Finish, EndTx, Goto
<1>2. Control'
  BY <1>1 DEF Inv, TypeOK, Control, Finish, EndTx, Goto, InTx, Inserting, Active
<1> QED
  BY <1>1, <1>2

\* What a search returns is a value.
LEMMA CandidateTypes ==
  ASSUME NEW ns, NEW ranges, NEW own, NEW start, NEW live, NEW ever, NEW v,
         \/ nextGlobalCandidate(v, ns, ranges, start, live, ever)
         \/ \E fromReserved \in BOOLEAN : chooseCandidate(v, fromReserved, ns, ranges, own, live, ever)
  PROVE  v \in Values /\ v \in Int
  BY CandidatesAssumption
  DEF nextGlobalCandidate, chooseCandidate, IsLeast, Reusable, Fresh, FreeInRanges

LEMMA TypeStep == Inv /\ [Next]_vars => TypeOK' /\ Control'
<1> SUFFICES ASSUME Inv, [Next]_vars PROVE TypeOK' /\ Control'
  OBVIOUS
<1> USE RegistryAssumption, CandidatesAssumption
<1>0. TypeOK /\ Control
  BY DEF Inv
<1>u. ASSUME UNCHANGED vars PROVE TypeOK' /\ Control'
  <2>1. TypeOK'
    BY <1>0, <1>u DEF vars, TypeOK
  <2>2. Control'
    BY <1>0, <1>u DEF vars, Control
  <2> QED
    BY <2>1, <2>2
<1>r. ASSUME NEW h \in Handlers, NEW result \in Answers, pc[h] \in Active, Refuse(h, result)
      PROVE  TypeOK' /\ Control'
  BY <1>0, <1>r, FinishTypes DEF Refuse, TypeOK
<1>1. ASSUME NEW h \in Handlers, Submit(h) PROVE TypeOK' /\ Control'
  <2>1. PICK r \in Workload :
          /\ req' = [req EXCEPT ![h] = r]
          /\ IF r \in RevokeRequest
             THEN Goto(h, "find") /\ UNCHANGED target
             ELSE Goto(h, "lock") /\ target' = [target EXCEPT ![h] = r.ns]
    BY <1>1 DEF Submit
  <2>2. r \in Requests /\ (r \notin RevokeRequest => r.ns \in Namespaces)
    BY RequestKinds
  <2>3. UNCHANGED <<entries, namespace, projects, lock, local, picks, answer>> /\ pc[h] = "idle"
    BY <1>1 DEF Submit
  <2>4. TypeOK'
    <3>1. pc' \in [Handlers -> Active \cup {"idle", "done"}]
      BY <1>0, <2>1 DEF TypeOK, Goto, Active
    <3>2. req' \in [Handlers -> Requests \cup {NoRequest}]
      BY <1>0, <2>1, <2>2 DEF TypeOK
    <3>3. target' \in [Handlers -> Namespaces \cup {Nil}]
      BY <1>0, <2>1, <2>2 DEF TypeOK
    <3> QED
      BY <1>0, <2>3, <3>1, <3>2, <3>3 DEF TypeOK
  <2>5. Control'
    BY <1>0, <2>1, <2>2, <2>3, <2>4 DEF TypeOK, Control, Goto, InTx, Inserting
  <2> QED
    BY <2>4, <2>5
<1>2. ASSUME NEW h \in Handlers, FindNamespace(h) PROVE TypeOK' /\ Control'
  <2>1. CASE Named(h) = {}
    BY <1>2, <1>r, <2>1 DEF FindNamespace, Active, Answers
  <2>2. CASE Named(h) # {}
    <3>1. PICK i \in Named(h) : target' = [target EXCEPT ![h] = entries[i].ns]
      BY <1>2, <2>2 DEF FindNamespace
    <3>2. entries[i] \in EntryRow
      BY <1>0, <1>2, <3>1, RequestKinds DEF Named, EntriesOf, TypeOK, Control, FindNamespace
    <3>3. entries[i].ns \in Namespaces
      BY <3>2 DEF EntryRow
    <3>4. TypeOK'
      BY <1>0, <1>2, <2>2, <3>1, <3>3 DEF TypeOK, FindNamespace, Goto, Active
    <3>5. UNCHANGED <<req, local, picks>> /\ pc' = [pc EXCEPT ![h] = "lock"] /\ pc[h] = "find"
      BY <1>2, <2>2 DEF FindNamespace, Goto
    <3>6. \A g \in Handlers : pc'[g] = IF g = h THEN "lock" ELSE pc[g]
      BY <1>0, <3>5 DEF TypeOK
    <3>7. \A g \in Handlers : target'[g] = IF g = h THEN entries[i].ns ELSE target[g]
      BY <1>0, <3>1 DEF TypeOK
    <3>8. Control'
      BY <1>0, <3>3, <3>5, <3>6, <3>7 DEF Control, InTx, Inserting
    <3> QED
      BY <3>4, <3>8
  <2> QED
    BY <2>1, <2>2
<1>3. ASSUME NEW h \in Handlers, LockNamespace(h) PROVE TypeOK' /\ Control'
  <2>1. CASE Refuse(h, "notFound") \/ Refuse(h, "inactive")
    BY <1>3, <1>r, <2>1 DEF LockNamespace, Active, Answers
  <2>2. CASE /\ namespace[target[h]] # Nil
             /\ lock' = [lock EXCEPT ![target[h]] = h]
             /\ local' = [local EXCEPT ![h] = namespace[target[h]]]
             /\ Goto(h, AfterLock(req[h]))
             /\ UNCHANGED <<entries, namespace, projects, req, target, picks, answer>>
    <3>1. req[h] \in Requests /\ target[h] \in Namespaces
      BY <1>0, <1>3 DEF LockNamespace, Control
    <3>2. namespace[target[h]] \in NamespaceRow
      BY <1>0, <2>2, <3>1 DEF TypeOK
    <3>3. /\ AfterLock(req[h]) \in InTx \ {"commit"}
          /\ AfterLock(req[h]) \in {"project", "queue", "pick"} => req[h] \in AllocateRequest
          /\ AfterLock(req[h]) = "revoke" => req[h] \in RevokeRequest
          /\ AfterLock(req[h]) = "update" => req[h] \in UpdateRequest
      BY <3>1, RequestKinds DEF AfterLock, InTx
    <3>4. TypeOK'
      BY <1>0, <2>2, <3>1, <3>2, <3>3 DEF TypeOK, Goto, Active, InTx
    <3>5. Control'
      BY <1>0, <1>3, <2>2, <3>1, <3>2, <3>3, <3>4 DEF TypeOK, Control, LockNamespace, Goto, InTx, Inserting
    <3> QED
      BY <3>4, <3>5
  <2> QED
    BY <1>3, <2>1, <2>2 DEF LockNamespace
<1>4. ASSUME NEW h \in Handlers, EnsureProject(h) PROVE TypeOK' /\ Control'
  <2>1. PICK p \in Projects : req' = [req EXCEPT ![h].project = p]
    BY <1>4 DEF EnsureProject
  <2>2. req[h] \in AllocateRequest /\ req'[h] \in AllocateRequest
    <3>1. req[h] \in AllocateRequest
      BY <1>0, <1>4 DEF EnsureProject, Control
    <3>2. req'[h] = [req[h] EXCEPT !.project = p]
      BY <1>0, <2>1 DEF TypeOK
    <3>3. [req[h] EXCEPT !.project = p] \in AllocateRequest
      BY <3>1 DEF AllocateRequest
    <3> QED
      BY <3>1, <3>2, <3>3
  <2>3. TypeOK'
    BY <1>0, <1>4, <2>1, <2>2 DEF EnsureProject, TypeOK, Goto, Active, Requests
  <2>4. Control'
    BY <1>0, <1>4, <2>1, <2>2, <2>3 DEF EnsureProject, TypeOK, Control, Goto, InTx, Inserting, Requests
  <2> QED
    BY <2>3, <2>4
<1>4q. ASSUME NEW h \in Handlers, QueueForProject(h) PROVE TypeOK' /\ Control'
  <2>1. TypeOK'
    BY <1>0, <1>4q DEF QueueForProject, TypeOK, Goto, Active
  <2>2. Control'
    BY <1>0, <1>4q, <2>1 DEF QueueForProject, TypeOK, Control, Goto, InTx, Inserting
  <2> QED
    BY <2>1, <2>2
<1>4v. ASSUME NEW h \in Handlers, DeadlockVictim(h) PROVE TypeOK' /\ Control'
  BY <1>4v, <1>r DEF DeadlockVictim, Deadlocked, Active, Answers
<1>5. ASSUME NEW h \in Handlers, PickExhausted(h) PROVE TypeOK' /\ Control'
  BY <1>5, <1>r DEF PickExhausted, Active, Answers
<1>6. ASSUME NEW h \in Handlers, Pick(h) PROVE TypeOK' /\ Control'
  <2>1. PICK v \in Values, fromReserved \in BOOLEAN :
          PickConflict(h, v) \/ PickInsert(h, v, fromReserved)
    BY <1>6 DEF Pick
  <2>2. CASE PickConflict(h, v)
    BY <1>6, <1>r, <2>2 DEF Pick, PickConflict, Active, Answers
  <2>3. CASE PickInsert(h, v, fromReserved)
    <3>1. local[h] \in NamespaceRow /\ v \in Int
      BY <1>0, <1>6 DEF Pick, Control, InTx
    <3>2. local' \in [Handlers -> NamespaceRow \cup {Nil}] /\ local'[h] \in NamespaceRow
      <4>1. CASE local' = local
        BY <1>0, <3>1, <4>1 DEF TypeOK
      <4>2. CASE local' # local
        <5>1. PICK c \in Values \cup {v + 1} : local' = [local EXCEPT ![h].next = c]
          BY <2>3, <4>2 DEF PickInsert
        <5>2. c \in Int
          BY <3>1
        <5>3. [local[h] EXCEPT !.next = c] \in NamespaceRow
          BY <3>1, <5>2 DEF NamespaceRow
        <5> QED
          BY <1>0, <5>1, <5>3 DEF TypeOK
      <4> QED
        BY <4>1, <4>2
    <3>3. \A g \in Handlers \ {h} : local'[g] = local[g]
      BY <1>0, <2>3 DEF PickInsert, TypeOK
    <3>4. TypeOK'
      <4>1. picks[h] \in Seq(Int) /\ Append(picks[h], v) \in Seq(Int)
        BY <1>0, <3>1 DEF TypeOK
      <4>2. picks' \in [Handlers -> Seq(Int)]
        BY <1>0, <2>3, <4>1 DEF PickInsert, TypeOK
      <4> QED
        BY <1>0, <2>3, <3>2, <4>2 DEF PickInsert, TypeOK, Goto, Active
    <3>5. Control'
      BY <1>0, <1>6, <2>3, <3>2, <3>3, <3>4 DEF Pick, PickInsert, TypeOK, Control, Goto, InTx, Inserting
    <3> QED
      BY <3>4, <3>5
  <2> QED
    BY <2>1, <2>2, <2>3
<1>7. ASSUME NEW h \in Handlers, CommitAllocation(h) PROVE TypeOK' /\ Control'
  <2>1. /\ target[h] \in Namespaces /\ local[h] \in NamespaceRow
        /\ req[h] \in AllocateRequest /\ picks[h] \in Seq(Int)
    BY <1>0, <1>7 DEF CommitAllocation, Control, InTx, TypeOK
  <2>2. \A k \in DOMAIN picks[h] : NewRow(h, picks[h][k]) \in EntryRow
    BY <2>1 DEF NewRow, EntryRow, AllocateRequest
  <2>3. entries' \in [Ids -> EntryRow \cup {Nil}]
    BY <1>0, <1>7, <2>2 DEF CommitAllocation, TypeOK, Granted
  <2>4. namespace' \in [Namespaces -> NamespaceRow \cup {Nil}]
    <3>1. ASSUME namespace[target[h]] \in NamespaceRow
          PROVE  namespace' \in [Namespaces -> NamespaceRow \cup {Nil}]
      BY <1>0, <1>7, <2>1, <3>1 DEF CommitAllocation, TypeOK, NamespaceRow
    <3> QED
      BY <1>7, <3>1 DEF Inv, Locked, CommitAllocation, InTx
  <2>5. projects' \subseteq Projects
    BY <1>0, <1>7, <2>1 DEF CommitAllocation, TypeOK, AllocateRequest
  <2>6. PICK result \in {"ok", "error"} : Finish(h, result)
    BY <1>7 DEF CommitAllocation, Committed
  <2>7. result \in Answers /\ pc[h] \in Active
    BY <1>7, <2>6 DEF CommitAllocation, Answers, Active
  <2> QED
    BY <2>3, <2>4, <2>5, <2>6, <2>7, FinishTypes
<1>8. ASSUME NEW h \in Handlers, NEW ids \in SUBSET Ids, \A i \in ids : entries[i] # Nil,
             pc[h] = "revoke", Revoke(h, ids)
      PROVE  TypeOK' /\ Control'
  <2>1. CASE Refuse(h, "conflict")
    BY <1>8, <1>r, <2>1 DEF Active, Answers
  <2>2. CASE Release(h, ids)
    <3>1. \A i \in ids : entries[i] \in EntryRow /\ entries[i].value \in Int
      BY <1>0, <1>8 DEF TypeOK, EntryRow
    <3>2. \A i \in ids : [entries[i] EXCEPT !.status = "REVOKED"] \in EntryRow
      BY <3>1 DEF EntryRow
    <3>3. entries' \in [Ids -> EntryRow \cup {Nil}]
      BY <1>0, <2>2, <3>2 DEF Release, Released, TypeOK
    <3>4. target[h] \in Namespaces /\ namespace[target[h]] \in NamespaceRow
      BY <1>8 DEF Inv, Control, Locked, InTx
    <3>5. PICK c \in {namespace[target[h]].next} \cup {entries[i].value : i \in Released(ids)} :
            namespace' = [namespace EXCEPT ![target[h]].next = c]
      BY <2>2 DEF Release, Cursors
    <3>6. c \in Int
      BY <3>1, <3>4, <3>5 DEF NamespaceRow, Released
    <3>7. [namespace[target[h]] EXCEPT !.next = c] \in NamespaceRow
      BY <3>4, <3>6 DEF NamespaceRow
    <3>8. namespace' \in [Namespaces -> NamespaceRow \cup {Nil}]
      BY <1>0, <3>4, <3>5, <3>7 DEF TypeOK
    <3>9. TypeOK'
      BY <1>0, <2>2, <3>3, <3>8 DEF Release, EndTx, Goto, TypeOK, Active
    <3>10. Control'
      BY <1>0, <1>8, <2>2, <3>9 DEF Release, EndTx, Goto, TypeOK, Control, InTx, Inserting
    <3> QED
      BY <3>9, <3>10
  <2> QED
    BY <1>8, <2>1, <2>2 DEF Revoke
<1>9. ASSUME NEW h \in Handlers, RevokeEntry(h) \/ RevokeAllocation(h) PROVE TypeOK' /\ Control'
  <2>1. req[h] \in Requests
    BY <1>0, <1>9 DEF Control, RevokeEntry, RevokeAllocation
  <2>2. CASE RevokeEntry(h)
    BY <1>8, <2>1, <2>2, RequestKinds DEF RevokeEntry
  <2>3. CASE RevokeAllocation(h)
    BY <1>8, <2>3 DEF RevokeAllocation, EntriesOf
  <2> QED
    BY <1>9, <2>2, <2>3
<1>10. ASSUME NEW h \in Handlers, ReadRevoked(h) PROVE TypeOK' /\ Control'
  BY <1>10, <1>r DEF ReadRevoked, Active, Answers
<1>11. ASSUME NEW h \in Handlers, UpdateNamespace(h) PROVE TypeOK' /\ Control'
  <2>1. CASE Refuse(h, "conflict")
    BY <1>11, <1>r, <2>1 DEF UpdateNamespace, Active, Answers
  <2>2. CASE ~Refuse(h, "conflict")
    <3>1. /\ target[h] \in Namespaces /\ local[h] \in NamespaceRow /\ req[h] \in UpdateRequest
      BY <1>0, <1>11 DEF UpdateNamespace, Control, InTx
    <3> DEFINE min == req[h].bounds[1]
               max == req[h].bounds[2]
               row == [next |-> IF min # Nil /\ local[h].next < min THEN min ELSE local[h].next,
                       min |-> min, max |-> max, status |-> req[h].status]
    <3>2. min \in Int \cup {Nil} /\ max \in Int \cup {Nil} /\ req[h].status \in {"ACTIVE", "DEPRECATED"}
      BY <3>1 DEF UpdateRequest
    <3>3. row \in NamespaceRow
      BY <3>1, <3>2 DEF NamespaceRow
    <3>4. namespace' = [namespace EXCEPT ![target[h]] = row] /\ Committed(h)
          /\ UNCHANGED <<entries, projects>>
      BY <1>11, <2>2 DEF UpdateNamespace, RaisedCursor
    <3>5. namespace' \in [Namespaces -> NamespaceRow \cup {Nil}]
      BY <1>0, <3>1, <3>3, <3>4 DEF TypeOK
    <3> HIDE DEF row
    <3>6. PICK result \in {"ok", "error"} : Finish(h, result)
      BY <3>4 DEF Committed
    <3>7. pc[h] \in Active /\ result \in Answers /\ projects' \subseteq Projects
              /\ entries' \in [Ids -> EntryRow \cup {Nil}]
      BY <1>0, <1>11, <3>4, <3>6 DEF UpdateNamespace, TypeOK, Active, Answers
    <3> QED
      BY <3>5, <3>6, <3>7, FinishTypes
  <2> QED
    BY <2>1, <2>2
<1>12. ASSUME NEW h \in Handlers, RecalculateCursor(h) PROVE TypeOK' /\ Control'
  <2>1. CASE Refuse(h, "ok")
    BY <1>12, <1>r, <2>1 DEF RecalculateCursor, Active, Answers
  <2>2. CASE ~Refuse(h, "ok")
    <3>1. target[h] \in Namespaces /\ local[h] \in NamespaceRow
          /\ namespace[target[h]] \in NamespaceRow
      BY <1>12 DEF RecalculateCursor, Inv, Control, Locked, InTx
    <3>2. PICK c \in Values \cup (IF local[h].max = Nil THEN {} ELSE {local[h].max + 1}) :
            namespace' = [namespace EXCEPT ![target[h]].next = c]
      BY <1>12, <2>2 DEF RecalculateCursor
    <3>3. c \in Int
      BY <3>1, <3>2 DEF NamespaceRow
    <3>4. [namespace[target[h]] EXCEPT !.next = c] \in NamespaceRow
      BY <3>1, <3>3 DEF NamespaceRow
    <3>5. namespace' \in [Namespaces -> NamespaceRow \cup {Nil}]
      BY <1>0, <3>1, <3>2, <3>4 DEF TypeOK
    <3>6. Committed(h) /\ UNCHANGED <<entries, projects>>
      BY <1>12, <2>2 DEF RecalculateCursor
    <3>7. PICK result \in {"ok", "error"} : Finish(h, result)
      BY <3>6 DEF Committed
    <3>8. pc[h] \in Active /\ result \in Answers /\ projects' \subseteq Projects
              /\ entries' \in [Ids -> EntryRow \cup {Nil}]
      BY <1>0, <1>12, <3>6, <3>7 DEF RecalculateCursor, TypeOK, Active, Answers
    <3> QED
      BY <3>5, <3>7, <3>8, FinishTypes
  <2> QED
    BY <2>1, <2>2
<1>13. ASSUME NEW h \in Handlers, Abort(h) PROVE TypeOK' /\ Control'
  BY <1>13, <1>r DEF Abort, Answers
<1>14. ASSUME NEW h \in Handlers, Respond(h) PROVE TypeOK' /\ Control'
  <2>1. TypeOK'
    BY <1>0, <1>14 DEF Respond, Goto, TypeOK, Active
  <2>2. Control'
    BY <1>0, <1>14, <2>1 DEF Respond, Goto, TypeOK, Control, InTx, Inserting
  <2> QED
    BY <2>1, <2>2
<1>15. ASSUME NEW n \in Namespaces, CreateNamespace(n) PROVE TypeOK' /\ Control'
  <2>1. TypeOK'
    BY <1>0, <1>15 DEF CreateNamespace, TypeOK
  <2>2. Control'
    BY <1>0, <1>15 DEF CreateNamespace, Control
  <2> QED
    BY <2>1, <2>2
<1> QED
  BY <1>u, <1>1, <1>2, <1>3, <1>4, <1>4q, <1>4v, <1>5, <1>6, <1>7, <1>9, <1>10, <1>11, <1>12, <1>13,
     <1>14, <1>15
  DEF Next, Wait, Work

-----------------------------------------------------------------------------
HandlerStep(h) == Submit(h) \/ Wait(h) \/ Work(h) \/ Abort(h)

\* A step of h leaves the other handlers alone,
Quiet(h) ==
  \A g \in Handlers \ {h} :
    /\ pc'[g] = pc[g] /\ req'[g] = req[g] /\ target'[g] = target[g]
    /\ local'[g] = local[g] /\ picks'[g] = picks[g] /\ answer'[g] = answer[g]

\* their locks,
KeepsLocks(h) == \A n \in Namespaces : lock[n] \notin {h, Free} => lock'[n] = lock[n]

\* and every namespace and entry but those of the namespace it has locked.
KeepsTables(h) ==
  /\ \A n \in Namespaces : namespace'[n] # namespace[n] => lock[n] = h
  /\ \A i \in Ids : entries'[i] # entries[i] =>
       /\ lock[target[h]] = h
       /\ entries'[i] # Nil /\ entries'[i].ns = target[h]
       /\ entries[i] # Nil => entries[i].ns = target[h]

LEMMA QuietStep == ASSUME TypeOK, NEW h \in Handlers, HandlerStep(h) PROVE Quiet(h)
<1> USE DEF TypeOK, Quiet, Goto
<1>r. ASSUME NEW result, Finish(h, result) PROVE Quiet(h)
  BY <1>r DEF Finish, EndTx
<1>1. CASE Submit(h)
  <2>1. PICK r \in Workload :
          /\ req' = [req EXCEPT ![h] = r]
          /\ IF r \in RevokeRequest
             THEN Goto(h, "find") /\ UNCHANGED target
             ELSE Goto(h, "lock") /\ target' = [target EXCEPT ![h] = r.ns]
    BY <1>1 DEF Submit
  <2> QED
    BY <1>1, <2>1 DEF Submit
<1>2. CASE FindNamespace(h)
  BY <1>2, <1>r DEF FindNamespace, Refuse
<1>3. CASE LockNamespace(h)
  BY <1>3, <1>r DEF LockNamespace, Refuse
<1>4. CASE QueueForProject(h) \/ EnsureProject(h)
  BY <1>4 DEF QueueForProject, EnsureProject
<1>5. CASE PickExhausted(h) \/ ReadRevoked(h) \/ Abort(h) \/ DeadlockVictim(h)
  BY <1>5, <1>r DEF PickExhausted, ReadRevoked, Abort, DeadlockVictim, Refuse
<1>6. CASE Pick(h)
  BY <1>6, <1>r DEF Pick, PickConflict, PickInsert, Refuse
<1>7. CASE CommitAllocation(h)
  BY <1>7, <1>r DEF CommitAllocation, Committed
<1>8. CASE RevokeEntry(h) \/ RevokeAllocation(h)
  BY <1>8, <1>r DEF RevokeEntry, RevokeAllocation, Revoke, Release, EndTx, Refuse
<1>9. CASE UpdateNamespace(h)
  BY <1>9, <1>r DEF UpdateNamespace, Committed, Refuse
<1>10. CASE RecalculateCursor(h)
  BY <1>10, <1>r DEF RecalculateCursor, Committed, Refuse
<1>11. CASE Respond(h)
  BY <1>11 DEF Respond
<1> QED
  BY <1>1, <1>2, <1>3, <1>4, <1>5, <1>6, <1>7, <1>8, <1>9, <1>10, <1>11 DEF HandlerStep, Wait, Work

LEMMA LockStep == ASSUME TypeOK, NEW h \in Handlers, HandlerStep(h) PROVE KeepsLocks(h)
<1> USE DEF TypeOK, KeepsLocks
<1>r. ASSUME EndTx(h) PROVE KeepsLocks(h)
  BY <1>r DEF EndTx
<1>1. CASE UNCHANGED lock
  BY <1>1
<1>2. CASE LockNamespace(h)
  BY <1>2, <1>r DEF LockNamespace, Grantable, Refuse, Committed, Finish
<1> QED
  BY <1>1, <1>2, <1>r
  DEF HandlerStep, Wait, Work, QueueForProject, DeadlockVictim, Submit, FindNamespace, EnsureProject,
      PickExhausted, Pick, PickConflict, PickInsert, CommitAllocation, RevokeEntry, RevokeAllocation,
      Revoke, Release, ReadRevoked, UpdateNamespace, RecalculateCursor, Respond, Abort, Refuse, Committed,
      Finish

LEMMA NewRowType ==
  ASSUME Inv, NEW h \in Handlers, pc[h] = "commit", NEW k \in DOMAIN picks[h]
  PROVE  NewRow(h, picks[h][k]) \in EntryRow /\ NewRow(h, picks[h][k]) # Nil
<1>1. /\ target[h] \in Namespaces
      /\ req[h] \in AllocateRequest /\ picks[h] \in Seq(Int)
  BY DEF Inv, Control, InTx, TypeOK
<1>2. NewRow(h, picks[h][k]) \in EntryRow
  BY <1>1 DEF NewRow, EntryRow, AllocateRequest
<1> QED
  BY <1>2, RegistryAssumption

\* A step of h stores rows of the batch it commits, or revokes rows it names.
Stored(h, i) ==
  /\ pc[h] = "commit" /\ i[1] = req[h].alloc /\ i[2] \in DOMAIN picks[h]
  /\ entries[i] = Nil
  /\ entries'[i] = NewRow(h, picks[h][i[2]])
Revoked(h, i) ==
  /\ pc[h] = "revoke" /\ i \in Named(h)
  /\ entries[i] \in EntryRow /\ entries[i].status = "ACTIVE"
  /\ entries'[i] = [entries[i] EXCEPT !.status = "REVOKED"]

LEMMA RowStep ==
  ASSUME Inv, NEW h \in Handlers, HandlerStep(h), NEW i \in Ids, entries'[i] # entries[i]
  PROVE  Stored(h, i) \/ Revoked(h, i)
<1>0. TypeOK /\ Control
  BY DEF Inv
<1>1. CASE CommitAllocation(h)
  <2>1. EntriesOf(req[h].alloc) = {}
    BY <1>0, <1>1, RequestKinds, Distinct DEF Inv, OwnAllocation, CommitAllocation, Control
  <2> QED
    BY <1>1, <2>1 DEF CommitAllocation, Granted, Stored, EntriesOf
<1>2. CASE RevokeEntry(h) \/ RevokeAllocation(h)
  <2>1. req[h] \in RevokeRequest /\ req[h] \in Requests
    BY <1>0, <1>2 DEF Control, RevokeEntry, RevokeAllocation
  <2>2. /\ \A j \in Named(h) : entries[j] # Nil
        /\ Refuse(h, "conflict") \/ Release(h, Named(h))
    BY <1>2, <2>1, RequestKinds DEF Named, EntriesOf, RevokeEntry, RevokeAllocation, Revoke
  <2>3. /\ i \in Named(h) /\ entries[i].status = "ACTIVE"
        /\ entries'[i] = [entries[i] EXCEPT !.status = "REVOKED"]
    BY <2>2 DEF Refuse, Release, Released
  <2> QED
    BY <1>0, <1>2, <2>2, <2>3 DEF TypeOK, Revoked, RevokeEntry, RevokeAllocation
<1> QED
  BY <1>1, <1>2
  DEF HandlerStep, Wait, Work, QueueForProject, DeadlockVictim, Submit, FindNamespace, LockNamespace,
      EnsureProject, PickExhausted, Pick, PickConflict, PickInsert, ReadRevoked, UpdateNamespace,
      RecalculateCursor, Respond, Abort, Refuse

LEMMA StoredRow ==
  ASSUME Inv, NEW h \in Handlers, NEW i \in Ids, Stored(h, i)
  PROVE  /\ entries'[i] \in EntryRow /\ entries'[i] # Nil
         /\ entries'[i].ns = target[h] /\ entries'[i].value = picks[h][i[2]]
         /\ entries'[i].symbol = req[h].symbol /\ entries'[i].status = "ACTIVE"
<1>1. entries'[i] \in EntryRow /\ entries'[i] # Nil
  BY NewRowType DEF Stored
<1> QED
  BY <1>1 DEF Stored, NewRow

LEMMA RevokedRow ==
  ASSUME Inv, NEW h \in Handlers, NEW i \in Ids, Revoked(h, i)
  PROVE  /\ entries[i] # Nil /\ entries'[i] \in EntryRow /\ entries'[i] # Nil
         /\ entries[i].ns = target[h] /\ entries'[i].ns = target[h]
         /\ entries'[i].value = entries[i].value /\ entries'[i].symbol = entries[i].symbol
         /\ entries'[i].status = "REVOKED"
<1>1. entries'[i] \in EntryRow /\ entries'[i].ns = entries[i].ns
      /\ entries'[i].value = entries[i].value /\ entries'[i].symbol = entries[i].symbol
      /\ entries'[i].status = "REVOKED"
  BY DEF Revoked, EntryRow
<1>2. req[h] \in RevokeRequest
  BY DEF Revoked, Inv, Control
<1>3. entries[i].ns = target[h]
  BY <1>2 DEF Revoked, Inv, FoundRows
<1> QED
  BY <1>1, <1>3, Distinct DEF Revoked

LEMMA TablesStep == ASSUME Inv, NEW h \in Handlers, HandlerStep(h) PROVE KeepsTables(h)
<1>0. TypeOK /\ Control /\ Locked
  BY DEF Inv
<1>l. ASSUME pc[h] \in InTx PROVE lock[target[h]] = h /\ target[h] \in Namespaces
  BY <1>0, <1>l DEF Control, Locked
<1>1. ASSUME NEW i \in Ids, entries'[i] # entries[i]
      PROVE  /\ lock[target[h]] = h
             /\ entries'[i] # Nil /\ entries'[i].ns = target[h]
             /\ entries[i] # Nil => entries[i].ns = target[h]
  <2>1. lock[target[h]] = h
    BY <1>1, <1>l, RowStep DEF Stored, Revoked, InTx
  <2>2. CASE Stored(h, i)
    BY <2>1, <2>2, StoredRow DEF Stored
  <2>3. CASE Revoked(h, i)
    BY <2>1, <2>3, RevokedRow
  <2> QED
    BY <1>1, <2>2, <2>3, RowStep
<1>2. ASSUME NEW n \in Namespaces, namespace'[n] # namespace[n] PROVE lock[n] = h
  <2>1. pc[h] \in InTx
    BY <1>2
    DEF HandlerStep, Wait, Work, QueueForProject, DeadlockVictim, Submit, FindNamespace, LockNamespace,
        EnsureProject, PickExhausted, Pick, PickConflict, PickInsert, CommitAllocation, RevokeEntry,
        RevokeAllocation, ReadRevoked, UpdateNamespace, RecalculateCursor, Respond, Abort, Refuse, InTx
  <2>2. \A row : namespace' = [namespace EXCEPT ![target[h]] = row] => n = target[h]
    BY <1>0, <1>2 DEF TypeOK
  <2>3. \A c : namespace' = [namespace EXCEPT ![target[h]].next = c] => n = target[h]
    BY <1>0, <1>2 DEF TypeOK
  <2>4. n = target[h]
    BY <1>2, <2>2, <2>3
    DEF HandlerStep, Wait, Work, QueueForProject, DeadlockVictim, Submit, FindNamespace, LockNamespace,
        EnsureProject, PickExhausted, Pick, PickConflict, PickInsert, CommitAllocation, RevokeEntry,
        RevokeAllocation, Revoke, Release, ReadRevoked, UpdateNamespace, RecalculateCursor, Respond,
        Abort, Refuse
  <2> QED
    BY <1>l, <2>1, <2>4
<1> QED
  BY <1>1, <1>2 DEF KeepsTables

\* The conjuncts of Locked for one handler.
LEMMA LockedStep == Inv /\ [Next]_vars => Locked'
<1> SUFFICES ASSUME Inv, [Next]_vars, NEW g \in Handlers, pc'[g] \in InTx
             PROVE  /\ lock'[target'[g]] = g
                    /\ namespace'[target'[g]] \in NamespaceRow
                    /\ namespace'[target'[g]].min = local'[g].min
                    /\ namespace'[target'[g]].max = local'[g].max
                    /\ namespace'[target'[g]].status = local'[g].status
                    /\ req'[g].op = "allocate" => local'[g].status = "ACTIVE"
  BY DEF Locked
<1>0. TypeOK /\ Control /\ Locked /\ TypeOK' /\ Control'
  BY TypeStep DEF Inv
<1>h. pc[g] \in InTx =>
        /\ target[g] \in Namespaces /\ lock[target[g]] = g
        /\ namespace[target[g]] \in NamespaceRow
        /\ namespace[target[g]].min = local[g].min
        /\ namespace[target[g]].max = local[g].max
        /\ namespace[target[g]].status = local[g].status
        /\ req[g].op = "allocate" => local[g].status = "ACTIVE"
  BY <1>0 DEF Control, Locked
<1>u. CASE UNCHANGED vars
  BY <1>h, <1>u DEF vars
<1>c. ASSUME NEW n \in Namespaces, CreateNamespace(n)
      PROVE  /\ pc[g] \in InTx /\ target[g] # n
             /\ UNCHANGED <<lock, req, target, local>> /\ namespace'[target[g]] = namespace[target[g]]
  <2>1. pc[g] \in InTx /\ namespace[n] = Nil
    BY <1>c DEF CreateNamespace
  <2>2. target[g] # n
    BY <1>h, <2>1, Distinct
  <2> QED
    BY <1>0, <1>c, <1>h, <2>1, <2>2 DEF CreateNamespace, TypeOK
<1>1. CASE \E n \in Namespaces : CreateNamespace(n)
  BY <1>1, <1>c, <1>h
<1>2. ASSUME NEW h \in Handlers \ {g}, HandlerStep(h)
      PROVE  /\ pc[g] \in InTx
             /\ req'[g] = req[g] /\ target'[g] = target[g] /\ local'[g] = local[g]
             /\ lock'[target[g]] = lock[target[g]] /\ namespace'[target[g]] = namespace[target[g]]
  <2>1. Quiet(h) /\ KeepsLocks(h) /\ KeepsTables(h)
    BY <1>0, <1>2, QuietStep, LockStep, TablesStep
  <2>2. pc[g] \in InTx /\ req'[g] = req[g] /\ target'[g] = target[g] /\ local'[g] = local[g]
    BY <1>2, <2>1 DEF Quiet
  <2> QED
    BY <1>2, <1>h, <2>1, <2>2, Distinct DEF KeepsLocks, KeepsTables
<1>3. CASE \E h \in Handlers \ {g} : HandlerStep(h)
  BY <1>3, <1>2, <1>h
<1>4. CASE LockNamespace(g)
  <2>1. /\ lock' = [lock EXCEPT ![target[g]] = g]
        /\ local' = [local EXCEPT ![g] = namespace[target[g]]]
        /\ UNCHANGED <<namespace, req, target>>
        /\ namespace[target[g]] # Nil
        /\ req[g].op = "allocate" => namespace[target[g]].status = "ACTIVE"
    BY <1>0, <1>4 DEF LockNamespace, Refuse, Committed, Finish, Goto, TypeOK, InTx
  <2>2. target[g] \in Namespaces
    BY <1>0, <1>4 DEF LockNamespace, Control
  <2> QED
    BY <1>0, <2>1, <2>2, Distinct DEF TypeOK
<1>5. CASE QueueForProject(g) \/ EnsureProject(g)
  <2>1. pc[g] \in InTx /\ req[g] \in AllocateRequest
    BY <1>0, <1>5 DEF QueueForProject, EnsureProject, Control, InTx
  <2>2. UNCHANGED <<namespace, lock, target, local>>
    BY <1>5 DEF QueueForProject, EnsureProject
  <2> QED
    BY <1>h, <2>1, <2>2, RequestKinds DEF Requests
<1>6. CASE Pick(g)
  <2>1. PICK v \in Values, fromReserved \in BOOLEAN : PickInsert(g, v, fromReserved)
    BY <1>0, <1>6 DEF Pick, PickConflict, Refuse, Committed, Finish, Goto, TypeOK, InTx
  <2>2. pc[g] \in InTx /\ UNCHANGED <<namespace, lock, req, target>> /\ local[g] \in NamespaceRow
    BY <1>0, <1>6, <2>1 DEF Pick, PickInsert, InTx, Control
  <2>3. local'[g].min = local[g].min /\ local'[g].max = local[g].max /\ local'[g].status = local[g].status
    BY <1>0, <2>1, <2>2 DEF PickInsert, TypeOK, NamespaceRow
  <2> QED
    BY <1>h, <2>2, <2>3
<1>7. CASE HandlerStep(g) /\ ~LockNamespace(g) /\ ~QueueForProject(g) /\ ~EnsureProject(g) /\ ~Pick(g)
  <2>1. pc'[g] \notin InTx
    BY <1>0, <1>7
    DEF HandlerStep, Wait, Work, QueueForProject, DeadlockVictim, Submit, FindNamespace, PickExhausted,
        CommitAllocation, RevokeEntry, RevokeAllocation, Revoke, Release, ReadRevoked, UpdateNamespace,
        RecalculateCursor, Respond, Abort, Refuse, Committed, Finish, Goto, TypeOK, InTx
  <2> QED
    BY <2>1
<1> QED
  BY <1>u, <1>1, <1>3, <1>4, <1>5, <1>6, <1>7 DEF Next, HandlerStep

-----------------------------------------------------------------------------
\* Handler g has an allocation of its own under way.
Allocating(g) == req[g] # NoRequest /\ req[g].op = "allocate"

\* Only Submit gives a handler an allocation to do.
LEMMA RequestStep ==
  ASSUME Inv, NEW h \in Handlers, HandlerStep(h), ~Submit(h), NEW g \in Handlers, Allocating(g)'
  PROVE  /\ Allocating(g)
         /\ req'[g].alloc = req[g].alloc
         /\ req'[g].count = req[g].count /\ req'[g].symbol = req[g].symbol
<1>0. TypeOK /\ Control
  BY DEF Inv
<1>1. CASE req'[g] = req[g]
  BY <1>1 DEF Allocating
<1>2. CASE EnsureProject(h) /\ g = h
  <2>1. PICK p \in Projects : req' = [req EXCEPT ![h].project = p]
    BY <1>2 DEF EnsureProject
  <2>2. req[h] \in AllocateRequest
    BY <1>0, <1>2 DEF EnsureProject, Control
  <2>3. req'[h] = [req[h] EXCEPT !.project = p]
    BY <1>0, <2>1 DEF TypeOK
  <2>4. /\ req'[h].alloc = req[h].alloc /\ req'[h].op = req[h].op
        /\ req'[h].count = req[h].count /\ req'[h].symbol = req[h].symbol
    BY <2>2, <2>3 DEF AllocateRequest
  <2>5. req[h] # NoRequest
    BY <2>2, Distinct DEF Requests
  <2> QED
    BY <1>2, <2>4, <2>5 DEF Allocating
<1>3. CASE Respond(h) /\ g = h
  BY <1>0, <1>3 DEF Respond, Allocating, TypeOK
<1>4. CASE g # h
  BY <1>0, <1>1, <1>4, QuietStep DEF Quiet
<1> QED
  BY <1>1, <1>2, <1>3, <1>4
  DEF HandlerStep, Wait, Work, QueueForProject, DeadlockVictim, FindNamespace, LockNamespace,
      PickExhausted, Pick, PickConflict, PickInsert, CommitAllocation, RevokeEntry, RevokeAllocation,
      Revoke, Release, ReadRevoked, UpdateNamespace, RecalculateCursor, Abort, Refuse, Committed, Finish

\* No row is stored under the allocation id of another handler.
LEMMA OthersRows ==
  ASSUME Inv, NEW h \in Handlers, HandlerStep(h), NEW g \in Handlers \ {h}, Allocating(g),
         EntriesOf(req[g].alloc) = {}
  PROVE  EntriesOf(req[g].alloc)' = {} \/ req'[g].alloc # req[g].alloc
<1> SUFFICES ASSUME req'[g].alloc = req[g].alloc, NEW i \in Ids, i[1] = req[g].alloc
             PROVE  entries'[i] = Nil
  BY DEF EntriesOf
<1>1. entries[i] = Nil
  BY DEF EntriesOf
<1>2. ~Revoked(h, i)
  BY <1>1, RevokedRow
<1>3. ~Stored(h, i)
  <2>1. SUFFICES ASSUME Stored(h, i) PROVE FALSE
    OBVIOUS
  <2>2. Allocating(h)
    BY <2>1, RequestKinds, Distinct DEF Stored, Inv, Control, Allocating, Requests
  <2> QED
    BY <2>1, <2>2 DEF Stored, Inv, OwnAllocation, Allocating
<1> QED
  BY <1>1, <1>2, <1>3, RowStep

LEMMA OwnAllocationStep == Inv /\ [Next]_vars => OwnAllocation'
<1> SUFFICES ASSUME Inv, [Next]_vars PROVE OwnAllocation'
  OBVIOUS
<1>0. TypeOK /\ Control /\ OwnAllocation
  BY DEF Inv
<1>u. CASE UNCHANGED vars \/ \E n \in Namespaces : CreateNamespace(n)
  <2>1. UNCHANGED <<entries, pc, req>>
    BY <1>u DEF vars, CreateNamespace
  <2> QED
    BY <1>0, <2>1 DEF OwnAllocation, EntriesOf
<1>1. ASSUME NEW h \in Handlers, Submit(h) PROVE OwnAllocation'
  <2>1. PICK r \in Workload : Acceptable(r) /\ req' = [req EXCEPT ![h] = r]
    BY <1>1 DEF Submit
  <2>2. /\ entries' = entries /\ pc' \in [Handlers -> Active \cup {"idle", "done"}]
        /\ req' \in [Handlers -> Requests \cup {NoRequest}]
        /\ \A g \in Handlers \ {h} : pc'[g] = pc[g]
    BY <1>0, <1>1, TypeStep, QuietStep DEF Submit, TypeOK, Next, HandlerStep, Quiet
  <2>3. req'[h] = r /\ \A g \in Handlers \ {h} : req'[g] = req[g]
    BY <1>0, <2>1 DEF TypeOK
  <2>4. \A a : EntriesOf(a)' = EntriesOf(a)
    BY <2>2 DEF EntriesOf
  <2> QED
    BY <1>0, <2>1, <2>2, <2>3, <2>4 DEF OwnAllocation, Acceptable
<1>2. ASSUME NEW h \in Handlers, HandlerStep(h), ~Submit(h) PROVE OwnAllocation'
  <2> SUFFICES ASSUME NEW g \in Handlers, Allocating(g)'
               PROVE  /\ req'[g].count > 1 => req'[g].symbol = Nil
                      /\ pc'[g] # "done" => EntriesOf(req[g].alloc)' = {} \/ req'[g].alloc # req[g].alloc
                      /\ \A f \in Handlers \ {g} : Allocating(f)' => req'[f].alloc # req'[g].alloc
    BY <1>2, RequestStep DEF OwnAllocation, Allocating, EntriesOf
  <2>1. /\ Allocating(g)
        /\ req'[g].alloc = req[g].alloc
        /\ req'[g].count = req[g].count /\ req'[g].symbol = req[g].symbol
    BY <1>2, RequestStep
  <2>2. \A f \in Handlers \ {g} : Allocating(f)' => req'[f].alloc # req'[g].alloc
    BY <1>0, <1>2, <2>1, RequestStep DEF OwnAllocation, Allocating
  <2>3. CASE g # h
    <3>1. pc'[g] = pc[g]
      BY <1>0, <1>2, <2>3, QuietStep DEF Quiet
    <3> QED
      BY <1>0, <1>2, <2>1, <2>2, <2>3, <3>1, OthersRows DEF OwnAllocation, Allocating
  <2>4. CASE g = h
    <3>1. CASE pc'[h] = "done"
      BY <1>0, <2>1, <2>2, <2>4, <3>1 DEF OwnAllocation, Allocating
    <3>2. CASE pc'[h] # "done"
      <4>1. UNCHANGED entries
        <5>1. req[h] \notin RevokeRequest
          BY <2>1, <2>4, RequestKinds DEF Allocating, Requests
        <5>2. ~RevokeEntry(h) /\ ~RevokeAllocation(h)
          BY <1>0, <5>1 DEF Control, RevokeEntry, RevokeAllocation
        <5> QED
          BY <1>0, <1>2, <3>2, <5>2
          DEF HandlerStep, Wait, Work, QueueForProject, DeadlockVictim, FindNamespace, LockNamespace,
              EnsureProject, PickExhausted, Pick, PickConflict, PickInsert, CommitAllocation, ReadRevoked,
              UpdateNamespace, RecalculateCursor, Respond, Abort, Refuse, Committed, Finish, Goto, TypeOK
      <4>2. pc[h] # "done"
        BY <1>0, <1>2, <2>1, <2>4, Distinct
        DEF Allocating, HandlerStep, Wait, Work, QueueForProject, DeadlockVictim, Deadlocked, FindNamespace,
            LockNamespace, EnsureProject, PickExhausted, Pick, CommitAllocation, RevokeEntry,
            RevokeAllocation, ReadRevoked, UpdateNamespace, RecalculateCursor, Respond, Abort, Active,
            TypeOK
      <4> QED
        BY <1>0, <2>1, <2>2, <2>4, <4>1, <4>2 DEF OwnAllocation, Allocating, EntriesOf
    <3> QED
      BY <3>1, <3>2
  <2> QED
    BY <2>3, <2>4
<1> QED
  BY <1>u, <1>1, <1>2 DEF Next, HandlerStep

-----------------------------------------------------------------------------
\* A batch is stored by one commit: before it, none of its rows is there.
LEMMA BatchStep ==
  ASSUME Inv, NEW h \in Handlers, NEW i \in Ids, Stored(h, i), NEW j \in Ids, j[1] = i[1]
  PROVE  entries[j] = Nil
<1>1. req[h] \in AllocateRequest /\ req[h] \in Requests /\ req[h] # NoRequest
  BY Distinct DEF Stored, Inv, Control
<1>2. EntriesOf(req[h].alloc) = {}
  BY <1>1, RequestKinds DEF Stored, Inv, OwnAllocation
<1> QED
  BY <1>2 DEF Stored, EntriesOf

\* A stored row stays, in its namespace, with its value and symbol.
LEMMA RowKept ==
  ASSUME Inv, NEW h \in Handlers, HandlerStep(h), NEW i \in Ids, entries[i] # Nil
  PROVE  /\ entries'[i] # Nil /\ entries'[i].ns = entries[i].ns
         /\ entries'[i].value = entries[i].value /\ entries'[i].symbol = entries[i].symbol
         /\ entries'[i].status = entries[i].status \/ Revoked(h, i)
<1>1. CASE entries'[i] = entries[i]
  BY <1>1
<1>2. CASE Revoked(h, i)
  BY <1>2, RevokedRow
<1> QED
  BY <1>1, <1>2, RowStep DEF Stored

\* The rows that a revocation has found are the same ones ever after.
LEMMA NamedStep ==
  ASSUME Inv, NEW h \in Handlers, HandlerStep(h), NEW g \in Handlers,
         req[g] \in RevokeRequest, req'[g] = req[g], Named(g) # {}
  PROVE  Named(g)' = Named(g)
<1>0. req[g] \in Requests
  BY DEF Requests
<1>1. ASSUME NEW i \in Ids, entries[i] # Nil PROVE entries'[i] # Nil
  BY <1>1, RowKept
<1>2. CASE req[g].op = "revokeEntry"
  <2>1. req[g].id \in Ids /\ entries[req[g].id] # Nil
    BY <1>0, <1>2, RequestKinds DEF Named
  <2> QED
    BY <1>1, <1>2, <2>1 DEF Named
<1>3. CASE req[g].op # "revokeEntry"
  <2>1. PICK j \in Ids : j[1] = req[g].alloc /\ entries[j] # Nil
    BY <1>3 DEF Named, EntriesOf
  <2>2. ASSUME NEW i \in Ids, i[1] = req[g].alloc, entries'[i] # Nil PROVE entries[i] # Nil
    BY <2>1, <2>2, BatchStep, RowStep, RevokedRow
  <2> QED
    BY <1>1, <1>3, <2>2 DEF Named, EntriesOf
<1> QED
  BY <1>2, <1>3

\* A handler is past FindNamespace and not yet done with a revocation.
Revoking(g) == pc[g] \in {"lock", "revoke", "read"} /\ req[g] \in RevokeRequest

\* It came there by FindNamespace, or it was there with the same rows.
LEMMA RevokingStep ==
  ASSUME Inv, NEW h \in Handlers, HandlerStep(h), NEW g \in Handlers, Revoking(g)'
  PROVE  /\ req'[g] = req[g]
         /\ \/ g = h /\ FindNamespace(h)
            \/ Revoking(g) /\ target'[g] = target[g]
<1>0. TypeOK /\ Control
  BY DEF Inv
<1>1. CASE g # h
  BY <1>0, <1>1, QuietStep DEF Quiet, Revoking
<1>2. CASE g = h /\ Submit(h)
  <2>1. PICK r \in Workload :
          /\ req' = [req EXCEPT ![h] = r]
          /\ IF r \in RevokeRequest
             THEN Goto(h, "find") /\ UNCHANGED target
             ELSE Goto(h, "lock") /\ target' = [target EXCEPT ![h] = r.ns]
    BY <1>2 DEF Submit
  <2> QED
    BY <1>0, <1>2, <2>1 DEF Revoking, Goto, TypeOK
<1>3. CASE g = h /\ LockNamespace(h)
  <2>1. req' = req /\ target' = target
    BY <1>3 DEF LockNamespace, Refuse, Committed, Finish
  <2> QED
    BY <1>3, <2>1 DEF Revoking, LockNamespace
<1>4. CASE g = h /\ FindNamespace(h)
  BY <1>4 DEF FindNamespace, Refuse, Committed, Finish
<1>5. CASE g = h /\ (RevokeEntry(h) \/ RevokeAllocation(h))
  <2>1. req' = req /\ target' = target
    BY <1>5 DEF RevokeEntry, RevokeAllocation, Revoke, Release, Refuse, Committed, Finish
  <2> QED
    BY <1>5, <2>1 DEF Revoking, RevokeEntry, RevokeAllocation
<1>6. CASE QueueForProject(h) \/ EnsureProject(h) \/ DeadlockVictim(h) \/ Pick(h) \/ PickExhausted(h)
           \/ CommitAllocation(h) \/ ReadRevoked(h) \/ UpdateNamespace(h) \/ RecalculateCursor(h) \/ Abort(h) \/ Respond(h)
  <2>1. pc'[h] \notin {"lock", "revoke", "read"}
    BY <1>0, <1>6
    DEF QueueForProject, EnsureProject, DeadlockVictim, Pick, PickExhausted, PickConflict, PickInsert,
        CommitAllocation, ReadRevoked, UpdateNamespace, RecalculateCursor, Abort, Respond, Refuse, Committed, Finish, Goto, TypeOK
  <2> QED
    BY <1>1, <2>1 DEF Revoking
<1> QED
  BY <1>1, <1>2, <1>3, <1>4, <1>5, <1>6 DEF HandlerStep, Wait, Work

LEMMA FoundRowsStep == Inv /\ [Next]_vars => FoundRows'
<1> SUFFICES ASSUME Inv, [Next]_vars PROVE FoundRows'
  OBVIOUS
<1>0. TypeOK /\ Control /\ FoundRows
  BY DEF Inv
<1>u. CASE UNCHANGED vars \/ \E n \in Namespaces : CreateNamespace(n)
  <2>1. UNCHANGED <<entries, pc, req, target>>
    BY <1>u DEF vars, CreateNamespace
  <2>2. \A h \in Handlers : Named(h)' = Named(h)
    BY <2>1 DEF Named, EntriesOf
  <2> QED
    BY <1>0, <2>1, <2>2 DEF FoundRows
<1>1. ASSUME NEW h \in Handlers, HandlerStep(h) PROVE FoundRows'
  <2>1. ASSUME NEW i \in Ids, NEW j \in Ids, entries'[i] # Nil, entries'[j] # Nil, i[1] = j[1]
        PROVE  entries'[i].ns = entries'[j].ns
    <3>1. CASE entries[i] # Nil /\ entries[j] # Nil
      BY <1>0, <1>1, <2>1, <3>1, RowKept DEF FoundRows
    <3>2. CASE entries[i] = Nil
      <4>1. Stored(h, i)
        BY <1>1, <2>1, <3>2, RowStep, RevokedRow
      <4>2. Stored(h, j)
        BY <1>1, <2>1, <4>1, BatchStep, RowStep, RevokedRow
      <4> QED
        BY <4>1, <4>2, StoredRow
    <3>3. CASE entries[j] = Nil
      <4>1. Stored(h, j)
        BY <1>1, <2>1, <3>3, RowStep, RevokedRow
      <4>2. Stored(h, i)
        BY <1>1, <2>1, <4>1, BatchStep, RowStep, RevokedRow
      <4> QED
        BY <4>1, <4>2, StoredRow
    <3> QED
      BY <3>1, <3>2, <3>3
  <2>2. ASSUME NEW g \in Handlers, Revoking(g)'
        PROVE  Named(g)' # {} /\ \A i \in Named(g)' : entries'[i].ns = target'[g]
    <3>1. req'[g] = req[g] /\ req[g] \in RevokeRequest /\ req[g] \in Requests
      BY <1>1, <2>2, RevokingStep DEF Revoking, Requests
    <3>2. Named(g) \subseteq Ids /\ \A i \in Named(g) : entries[i] # Nil
      BY <3>1, RequestKinds DEF Named, EntriesOf
    <3>3. ASSUME Named(g) # {}, \A i \in Named(g) : entries[i].ns = target'[g]
          PROVE  Named(g)' # {} /\ \A i \in Named(g)' : entries'[i].ns = target'[g]
      <4>1. Named(g)' = Named(g)
        BY <1>1, <3>1, <3>3, NamedStep
      <4> QED
        BY <1>1, <3>2, <3>3, <4>1, RowKept
    <3>4. CASE g = h /\ FindNamespace(h)
      <4>1. Named(h) # {}
        BY <1>0, <2>2, <3>4 DEF FindNamespace, Refuse, Committed, Finish, Goto, Revoking, TypeOK
      <4>2. PICK j \in Named(h) : target' = [target EXCEPT ![h] = entries[j].ns]
        BY <3>4, <4>1 DEF FindNamespace
      <4>3. target'[h] = entries[j].ns
        BY <1>0, <4>2 DEF TypeOK
      <4>4. \A i \in Named(h) : i = j \/ i[1] = j[1]
        BY <4>2 DEF Named, EntriesOf
      <4>5. \A i \in Named(h) : entries[i].ns = entries[j].ns
        BY <1>0, <3>2, <3>4, <4>4 DEF FoundRows
      <4> QED
        BY <3>3, <3>4, <4>1, <4>3, <4>5
    <3>5. CASE Revoking(g) /\ target'[g] = target[g]
      BY <1>0, <3>3, <3>5 DEF FoundRows, Revoking
    <3> QED
      BY <1>1, <2>2, <3>4, <3>5, RevokingStep
  <2> QED
    BY <2>1, <2>2 DEF FoundRows, Revoking
<1> QED
  BY <1>u, <1>1 DEF Next, HandlerStep

\* The rows are read again after the commit that revoked them; meanwhile
\* their batch gained none and nothing brought one back.
LEMMA RereadStep == Inv /\ [Next]_vars => RereadIsRevoked'
<1> SUFFICES ASSUME Inv, [Next]_vars, NEW g \in Handlers, pc'[g] = "read"
             PROVE  Named(g)' # {} /\ \A i \in Named(g)' : entries'[i].status = "REVOKED"
  BY DEF RereadIsRevoked
<1>0. TypeOK /\ Control /\ RereadIsRevoked /\ Control' /\ FoundRows'
  BY TypeStep, FoundRowsStep DEF Inv
<1>1. Revoking(g)' /\ Named(g)' # {}
  BY <1>0 DEF Revoking, Control, FoundRows
<1>u. CASE UNCHANGED vars \/ \E n \in Namespaces : CreateNamespace(n)
  <2>1. UNCHANGED <<entries, pc, req>>
    BY <1>u DEF vars, CreateNamespace
  <2> QED
    BY <1>0, <1>1, <2>1 DEF RereadIsRevoked, Named, EntriesOf
<1>2. ASSUME NEW h \in Handlers, HandlerStep(h)
      PROVE  \A i \in Named(g)' : entries'[i].status = "REVOKED"
  <2>1. ~(g = h /\ FindNamespace(h))
    BY <1>0 DEF FindNamespace, Refuse, Committed, Finish, Goto, TypeOK
  <2>2. req'[g] = req[g] /\ Revoking(g) /\ target'[g] = target[g]
    BY <1>1, <1>2, <2>1, RevokingStep
  <2>3. /\ req[g] \in Requests /\ Named(g) # {} /\ Named(g) \subseteq Ids
        /\ \A i \in Named(g) : entries[i] # Nil
    BY <2>2, RequestKinds DEF Revoking, Requests, Inv, FoundRows, Named, EntriesOf
  <2>4. Named(g)' = Named(g)
    BY <1>2, <2>2, <2>3, NamedStep DEF Revoking
  <2>5. CASE pc[g] = "read"
    <3> SUFFICES ASSUME NEW i \in Named(g) PROVE entries'[i].status = "REVOKED"
      BY <2>4
    <3>1. i \in Ids /\ entries[i] # Nil /\ entries[i].status = "REVOKED"
      BY <1>0, <2>3, <2>5 DEF RereadIsRevoked
    <3>2. ~Revoked(h, i)
      BY <3>1 DEF Revoked
    <3> QED
      BY <1>2, <3>1, <3>2, RowKept
  <2>6. CASE pc[g] # "read"
    <3>1. g = h
      BY <1>0, <1>2, <2>6, QuietStep DEF Quiet
    <3>2. RevokeEntry(h) \/ RevokeAllocation(h)
      BY <1>0, <1>2, <2>6, <3>1
      DEF HandlerStep, Wait, Work, QueueForProject, DeadlockVictim, Submit, FindNamespace, LockNamespace,
          AfterLock, EnsureProject, Pick, PickExhausted, PickConflict, PickInsert, CommitAllocation,
          ReadRevoked, UpdateNamespace, RecalculateCursor, Abort, Respond, Refuse, Committed, Finish,
          Goto, TypeOK
    <3>3. Revoke(h, Named(h))
      BY <2>2, <2>3, <3>1, <3>2, RequestKinds DEF Revoking, Named, RevokeEntry, RevokeAllocation
    <3>4. Revocable(Named(h)) /\ Release(h, Named(h))
      BY <1>0, <3>1, <3>3 DEF Revoke, Refuse, Committed, Finish, Goto, TypeOK
    <3>5. ASSUME NEW i \in Named(h) PROVE entries'[i].status = "REVOKED"
      <4>1. i \in Ids /\ entries[i] \in EntryRow
        BY <1>0, <2>3, <3>1 DEF TypeOK
      <4>2. CASE entries[i].status = "ACTIVE"
        <5>1. entries'[i] = [entries[i] EXCEPT !.status = "REVOKED"]
          BY <3>4, <4>1, <4>2 DEF Release, Released
        <5> QED
          BY <4>1, <5>1 DEF EntryRow
      <4>3. CASE entries[i].status = "REVOKED"
        BY <3>4, <4>1, <4>3 DEF Release, Released
      <4> QED
        BY <3>4, <4>2, <4>3 DEF Revocable
    <3> QED
      BY <2>4, <3>1, <3>5
  <2> QED
    BY <2>5, <2>6
<1> QED
  BY <1>u, <1>1, <1>2 DEF Next, HandlerStep

-----------------------------------------------------------------------------
\* Only the handler that has locked a namespace changes what is live there.
LEMMA LiveKept ==
  ASSUME Inv, NEW h \in Handlers, HandlerStep(h), NEW n \in Namespaces, lock[n] # h
  PROVE  LiveValues(n)' = LiveValues(n) /\ LiveSymbols(n)' = LiveSymbols(n)
<1>1. ASSUME NEW i \in Ids, entries'[i] # entries[i]
      PROVE  entries'[i].ns # n /\ (entries[i] = Nil \/ entries[i].ns # n)
  BY <1>1, TablesStep DEF KeepsTables
<1>2. LiveRows(n)' = LiveRows(n) /\ \A i \in LiveRows(n) : entries'[i] = entries[i]
  BY <1>1 DEF LiveRows, RowsOf
<1> QED
  BY <1>2 DEF LiveValues, LiveSymbols

\* The conjuncts of PicksFree for one handler.
Pickable(g) ==
  /\ Inserted(g) \cap LiveValues(target[g]) = {}
  /\ \A j, k \in DOMAIN picks[g] : j # k => picks[g][j] # picks[g][k]
  /\ Len(picks[g]) <= req[g].count
  /\ pc[g] = "pick" => Len(picks[g]) < req[g].count
  /\ picks[g] # <<>> => req[g].symbol \notin LiveSymbols(target[g])

LEMMA PicksFreeStep == Inv /\ [Next]_vars => PicksFree'
<1> SUFFICES ASSUME Inv, [Next]_vars, NEW g \in Handlers, pc'[g] \in Inserting
             PROVE  Pickable(g)'
  BY DEF PicksFree, Pickable
<1>0. TypeOK /\ Control /\ TypeOK' /\ Control'
  BY TypeStep DEF Inv
<1>i. pc[g] \in Inserting => Pickable(g)
  BY DEF Inv, PicksFree, Pickable
<1>u. CASE UNCHANGED vars \/ \E n \in Namespaces : CreateNamespace(n)
  <2>1. UNCHANGED <<entries, pc, req, target, picks>>
    BY <1>u DEF vars, CreateNamespace
  <2>2. /\ LiveValues(target[g])' = LiveValues(target[g])
        /\ LiveSymbols(target[g])' = LiveSymbols(target[g])
    BY <2>1 DEF LiveValues, LiveSymbols, LiveRows, RowsOf
  <2>3. Inserted(g)' = Inserted(g)
    BY <2>1 DEF Inserted
  <2> QED
    BY <1>i, <2>1, <2>2, <2>3 DEF Pickable
<1>1. ASSUME NEW h \in Handlers, HandlerStep(h), g # h PROVE Pickable(g)'
  <2>1. /\ pc'[g] = pc[g] /\ req'[g] = req[g] /\ target'[g] = target[g] /\ picks'[g] = picks[g]
    BY <1>0, <1>1, QuietStep DEF Quiet
  <2>2. PICK n \in Namespaces : n = target[g] /\ n = target'[g] /\ lock[n] # h
    BY <1>0, <1>1, <2>1 DEF Inv, Locked, Control, InTx, Inserting
  <2>3. LiveValues(n)' = LiveValues(n) /\ LiveSymbols(n)' = LiveSymbols(n)
    BY <1>1, <2>2, LiveKept
  <2> QED
    BY <1>i, <2>1, <2>2, <2>3 DEF Pickable, Inserted
<1>2. ASSUME picks'[g] = <<>> PROVE Pickable(g)'
  <2>1. req'[g] \in AllocateRequest
    BY <1>0 DEF Control, Inserting
  <2>2. req'[g].count \in Nat /\ req'[g].count > 0
    BY <2>1, RegistryAssumption DEF AllocateRequest
  <2> QED
    BY <1>2, <2>2 DEF Pickable, Inserted
<1>3. CASE LockNamespace(g) \/ EnsureProject(g)
  <2>1. picks[g] = <<>>
    BY <1>0, <1>3 DEF LockNamespace, EnsureProject, Control, Inserting
  <2>2. picks'[g] = <<>>
    BY <1>0, <1>3, <2>1 DEF LockNamespace, EnsureProject, Refuse, Committed, Finish, EndTx, TypeOK
  <2> QED
    BY <1>2, <2>2
<1>4. CASE Pick(g)
  <2>1. PICK v \in Values, fromReserved \in BOOLEAN : PickInsert(g, v, fromReserved)
    BY <1>0, <1>4 DEF Pick, PickConflict, Refuse, Committed, Finish, Goto, TypeOK, Inserting
  <2>2. pc[g] = "pick" /\ req[g] \in AllocateRequest /\ picks[g] \in Seq(Int) /\ v \in Int
    BY <1>0, <1>4, CandidatesAssumption DEF Pick, Control, TypeOK
  <2>3. Pickable(g)
    BY <1>i, <2>2 DEF Inserting
  <2>4. UNCHANGED <<entries, req, target>> /\ picks'[g] = Append(picks[g], v)
    BY <1>0, <2>1 DEF PickInsert, TypeOK
  <2>5. pc'[g] = IF Len(picks[g]) + 1 < req[g].count THEN "pick" ELSE "commit"
    BY <1>0, <2>1 DEF PickInsert, Goto, TypeOK
  <2>6. v \notin LiveValues(target[g]) /\ v \notin Inserted(g) /\ req[g].symbol \notin LiveSymbols(target[g])
    BY <2>1 DEF PickInsert, DuplicateKey, IndexedValues, IndexedSymbols
  <2>7. /\ Len(picks'[g]) = Len(picks[g]) + 1
        /\ DOMAIN picks'[g] = DOMAIN picks[g] \cup {Len(picks[g]) + 1}
        /\ \A k \in DOMAIN picks[g] : picks'[g][k] = picks[g][k]
        /\ picks'[g][Len(picks[g]) + 1] = v
    BY <2>2, <2>4
  <2>8. LiveValues(target[g])' = LiveValues(target[g]) /\ LiveSymbols(target[g])' = LiveSymbols(target[g])
    BY <2>4 DEF LiveValues, LiveSymbols, LiveRows, RowsOf
  <2>9. Inserted(g)' = Inserted(g) \cup {v}
    BY <2>7 DEF Inserted
  <2>10. \A j, k \in DOMAIN picks'[g] : j # k => picks'[g][j] # picks'[g][k]
    BY <2>3, <2>6, <2>7 DEF Pickable, Inserted
  <2>11. /\ Len(picks'[g]) <= req'[g].count
         /\ pc'[g] = "pick" => Len(picks'[g]) < req'[g].count
    <3>1. Len(picks[g]) \in Nat /\ req[g].count \in Nat /\ Len(picks[g]) < req[g].count
      BY <2>2, <2>3 DEF Pickable, AllocateRequest
    <3> QED
      BY <2>4, <2>5, <2>7, <3>1
  <2> QED
    BY <2>3, <2>4, <2>6, <2>8, <2>9, <2>10, <2>11 DEF Pickable
<1>5. CASE HandlerStep(g) /\ ~LockNamespace(g) /\ ~EnsureProject(g) /\ ~Pick(g)
  <2>1. pc'[g] \notin Inserting
    BY <1>0, <1>5
    DEF HandlerStep, Wait, Work, QueueForProject, DeadlockVictim, Submit, FindNamespace, PickExhausted,
        CommitAllocation, RevokeEntry, RevokeAllocation, Revoke, Release, ReadRevoked, UpdateNamespace,
        RecalculateCursor, Respond, Abort, Refuse, Committed, Finish, Goto, TypeOK, Inserting
  <2> QED
    BY <2>1
<1> QED
  BY <1>u, <1>1, <1>3, <1>4, <1>5 DEF Next, HandlerStep
\* The conjunct of PicksPermitted for one handler.
Allowed(g) ==
  \A v \in Inserted(g) :
    \/ globalRangeContains(OwnRanges(g), v)
    \/ WithinMax(local[g], v) /\ ~globalRangeContains(Ranges[target[g]], v)

LEMMA PicksPermittedStep == Inv /\ [Next]_vars => PicksPermitted'
<1> SUFFICES ASSUME Inv, [Next]_vars, NEW g \in Handlers, pc'[g] \in Inserting
             PROVE  Allowed(g)'
  BY DEF PicksPermitted, Allowed
<1>0. TypeOK /\ Control
  BY DEF Inv
<1>i. pc[g] \in Inserting => Allowed(g)
  BY DEF Inv, PicksPermitted, Allowed
<1>1. ASSUME pc'[g] = pc[g], req'[g] = req[g], target'[g] = target[g],
             local'[g] = local[g], picks'[g] = picks[g]
      PROVE  Allowed(g)'
  BY <1>i, <1>1 DEF Allowed, Inserted, OwnRanges
<1>2. CASE UNCHANGED vars \/ \E n \in Namespaces : CreateNamespace(n)
  BY <1>1, <1>2 DEF vars, CreateNamespace
<1>3. CASE \E h \in Handlers \ {g} : HandlerStep(h)
  BY <1>0, <1>1, <1>3, QuietStep DEF Quiet
<1>4. CASE LockNamespace(g) \/ EnsureProject(g)
  <2>1. picks[g] = <<>>
    BY <1>0, <1>4 DEF LockNamespace, EnsureProject, Control, Inserting
  <2>2. picks'[g] = <<>>
    BY <1>0, <1>4, <2>1 DEF LockNamespace, EnsureProject, Refuse, Committed, Finish, EndTx, TypeOK
  <2> QED
    BY <2>2 DEF Allowed, Inserted
<1>5. CASE Pick(g)
  <2>1. PICK v \in Values, fromReserved \in BOOLEAN :
          /\ chooseCandidate(v, fromReserved, local[g], Ranges[target[g]], OwnRanges(g),
                             LiveSeenBy(g), EverSeenBy(g))
          /\ PickConflict(g, v) \/ PickInsert(g, v, fromReserved)
    BY <1>5 DEF Pick
  <2>2. PickInsert(g, v, fromReserved)
    BY <1>0, <2>1 DEF PickConflict, Refuse, Committed, Finish, Goto, TypeOK, Inserting
  <2>3. Allowed(g) /\ picks[g] \in Seq(Int) /\ v \in Int /\ local[g] \in NamespaceRow
    BY <1>0, <1>5, <1>i, CandidatesAssumption DEF Pick, Control, TypeOK, Inserting, InTx
  <2>4. \/ globalRangeContains(OwnRanges(g), v)
        \/ WithinMax(local[g], v) /\ ~globalRangeContains(Ranges[target[g]], v)
    BY <2>1 DEF chooseCandidate, nextGlobalCandidate, IsLeast, FreeInRanges, Reusable, Fresh
  <2>5. Inserted(g)' = Inserted(g) \cup {v}
    <3>1. picks'[g] = Append(picks[g], v)
      BY <1>0, <2>2 DEF PickInsert, TypeOK
    <3>2. /\ DOMAIN picks'[g] = DOMAIN picks[g] \cup {Len(picks[g]) + 1}
          /\ \A k \in DOMAIN picks[g] : picks'[g][k] = picks[g][k]
          /\ picks'[g][Len(picks[g]) + 1] = v
      BY <2>3, <3>1
    <3> QED
      BY <3>2 DEF Inserted
  <2>6. local'[g].max = local[g].max
    BY <1>0, <2>2, <2>3 DEF PickInsert, TypeOK, NamespaceRow
  <2>7. UNCHANGED <<req, target>>
    BY <2>2 DEF PickInsert
  <2> QED
    BY <2>3, <2>4, <2>5, <2>6, <2>7 DEF Allowed, OwnRanges, WithinMax
<1>6. CASE HandlerStep(g) /\ ~LockNamespace(g) /\ ~EnsureProject(g) /\ ~Pick(g)
  <2>1. pc'[g] \notin Inserting
    BY <1>0, <1>6
    DEF HandlerStep, Wait, Work, QueueForProject, DeadlockVictim, Submit, FindNamespace, PickExhausted,
        CommitAllocation, RevokeEntry, RevokeAllocation, Revoke, Release, ReadRevoked, UpdateNamespace,
        RecalculateCursor, Respond, Abort, Refuse, Committed, Finish, Goto, TypeOK, Inserting
  <2> QED
    BY <2>1
<1> QED
  BY <1>2, <1>3, <1>4, <1>5, <1>6 DEF Next, HandlerStep

-----------------------------------------------------------------------------
\* The indexes of a namespace hold what is live and what its one open
\* transaction has inserted.
LEMMA ChosenIsFree ==
  ASSUME Inv, NEW h \in Handlers, pc[h] = "pick", NEW v \in Values, NEW fromReserved \in BOOLEAN,
         chooseCandidate(v, fromReserved, local[h], Ranges[target[h]], OwnRanges(h),
                         LiveSeenBy(h), EverSeenBy(h))
  PROVE  v \notin IndexedValues(target[h])
<1>1. v \notin LiveSeenBy(h)
  <2>1. LiveSeenBy(h) \subseteq EverSeenBy(h)
    BY DEF LiveSeenBy, EverSeenBy, LiveValues, EverValues, LiveRows
  <2>2. v \in Int
    BY CandidatesAssumption
  <2> QED
    BY <2>1, <2>2
    DEF chooseCandidate, nextGlobalCandidate, IsLeast, FreeInRanges, Reusable, Fresh
<1>2. ASSUME NEW g \in Handlers, target[g] = target[h], v \in Inserted(g) PROVE g = h
  <2>1. pc[g] \in Inserting
    BY <1>2 DEF Inv, Control, Inserted
  <2> QED
    BY <1>2, <2>1 DEF Inv, Locked, InTx, Inserting
<1> QED
  BY <1>1, <1>2 DEF IndexedValues, LiveSeenBy

LEMMA NoValueConflictStep == Inv /\ [Next]_vars => NoValueConflict'
<1> SUFFICES ASSUME Inv, [Next]_vars, NEW g \in Handlers,
                    pc'[g] = "done", req'[g].op = "allocate", answer'[g] = "conflict"
             PROVE  req'[g].symbol # Nil
  BY DEF NoValueConflict
<1>0. TypeOK /\ Control
  BY DEF Inv
<1>u. CASE UNCHANGED vars \/ \E n \in Namespaces : CreateNamespace(n)
  <2>1. UNCHANGED <<pc, req, answer>>
    BY <1>u DEF vars, CreateNamespace
  <2> QED
    BY <2>1 DEF Inv, NoValueConflict
<1>1. CASE \E h \in Handlers \ {g} : HandlerStep(h)
  <2>1. pc'[g] = pc[g] /\ req'[g] = req[g] /\ answer'[g] = answer[g]
    BY <1>0, <1>1, QuietStep DEF Quiet
  <2> QED
    BY <2>1 DEF Inv, NoValueConflict
<1>2. CASE Pick(g)
  <2>1. PICK v \in Values, fromReserved \in BOOLEAN :
          /\ chooseCandidate(v, fromReserved, local[g], Ranges[target[g]], OwnRanges(g),
                             LiveSeenBy(g), EverSeenBy(g))
          /\ PickConflict(g, v) \/ PickInsert(g, v, fromReserved)
    BY <1>2 DEF Pick
  <2>2. PickConflict(g, v)
    BY <1>0, <2>1 DEF PickInsert, Goto, TypeOK
  <2>3. v \notin IndexedValues(target[g])
    BY <1>2, <2>1, ChosenIsFree DEF Pick
  <2>4. req[g].symbol \in IndexedSymbols(target[g]) /\ req' = req
    BY <2>2, <2>3 DEF PickConflict, DuplicateKey, Refuse, Committed, Finish
  <2> QED
    BY <2>4 DEF IndexedSymbols, LiveSymbols
<1>3. CASE RevokeEntry(g) \/ RevokeAllocation(g) \/ UpdateNamespace(g)
  <2>1. req[g] \in RevokeRequest \cup UpdateRequest
    BY <1>0, <1>3 DEF Control, RevokeEntry, RevokeAllocation, UpdateNamespace
  <2>2. req' = req
    BY <1>3 DEF RevokeEntry, RevokeAllocation, Revoke, Release, UpdateNamespace, Refuse, Committed, Finish
  <2> QED
    BY <2>1, <2>2 DEF RevokeRequest, UpdateRequest
<1>4. CASE Submit(g) \/ FindNamespace(g) \/ LockNamespace(g) \/ QueueForProject(g) \/ EnsureProject(g)
           \/ DeadlockVictim(g) \/ PickExhausted(g) \/ CommitAllocation(g) \/ ReadRevoked(g) \/ RecalculateCursor(g) \/ Abort(g) \/ Respond(g)
  <2>1. pc'[g] # "done" \/ answer'[g] # "conflict"
    BY <1>0, <1>4
    DEF Submit, FindNamespace, LockNamespace, AfterLock, QueueForProject, EnsureProject, DeadlockVictim,
        PickExhausted, CommitAllocation, ReadRevoked, RecalculateCursor, Abort, Respond, Refuse, Committed, Finish, Goto, TypeOK
  <2> QED
    BY <2>1
<1> QED
  BY <1>u, <1>1, <1>2, <1>3, <1>4 DEF Next, HandlerStep, Wait, Work

\* A live row was live before, or has just been stored.
LEMMA LiveRowStep ==
  ASSUME Inv, NEW h \in Handlers, HandlerStep(h), NEW n \in Namespaces, NEW i \in LiveRows(n)'
  PROVE  \/ i \in LiveRows(n) /\ entries'[i] = entries[i]
         \/ Stored(h, i) /\ n = target[h]
<1>1. i \in Ids /\ entries'[i] # Nil /\ entries'[i].ns = n /\ entries'[i].status # "REVOKED"
  BY DEF LiveRows, RowsOf
<1>2. ~Revoked(h, i)
  BY <1>1, RevokedRow
<1>3. CASE entries'[i] = entries[i]
  BY <1>1, <1>3 DEF LiveRows, RowsOf
<1>4. CASE Stored(h, i)
  BY <1>1, <1>4, StoredRow
<1> QED
  BY <1>1, <1>2, <1>3, <1>4, RowStep

LEMMA LiveUniqueStep == Inv /\ [Next]_vars => LiveUnique'
<1> SUFFICES ASSUME Inv, [Next]_vars PROVE LiveUnique'
  OBVIOUS
<1>u. CASE UNCHANGED vars \/ \E n \in Namespaces : CreateNamespace(n)
  <2>1. UNCHANGED entries
    BY <1>u DEF vars, CreateNamespace
  <2> QED
    BY <2>1 DEF Inv, LiveUnique, LiveRows, RowsOf
<1>1. ASSUME NEW h \in Handlers, HandlerStep(h) PROVE LiveUnique'
  <2> DEFINE Differ(i, j) ==
               /\ entries'[i].value # entries'[j].value
               /\ entries'[i].symbol # Nil => entries'[i].symbol # entries'[j].symbol
  <2>1. ASSUME NEW n \in Namespaces, NEW i \in LiveRows(n)', NEW j \in LiveRows(n),
               entries'[j] = entries[j], Stored(h, i), n = target[h]
        PROVE  Differ(i, j) /\ Differ(j, i)
    <3>1. i \in Ids /\ pc[h] \in Inserting /\ picks[h] # <<>> /\ picks[h][i[2]] \in Inserted(h)
      BY <2>1 DEF LiveRows, RowsOf, Stored, Inserting, Inserted
    <3>2. Inserted(h) \cap LiveValues(n) = {} /\ req[h].symbol \notin LiveSymbols(n)
      BY <2>1, <3>1 DEF Inv, PicksFree
    <3>3. entries'[i].value = picks[h][i[2]] /\ entries'[i].symbol = req[h].symbol
      BY <2>1, <3>1, StoredRow
    <3>4. entries[j].value \in LiveValues(n) /\ entries[j].symbol \in LiveSymbols(n) \cup {Nil}
      BY <2>1 DEF LiveValues, LiveSymbols
    <3> QED
      BY <2>1, <3>1, <3>2, <3>3, <3>4
  <2>2. ASSUME NEW n \in Namespaces, NEW i \in LiveRows(n)', NEW j \in LiveRows(n)', i # j,
               Stored(h, i), Stored(h, j)
        PROVE  Differ(i, j)
    <3>1. i \in Ids /\ j \in Ids
      BY DEF LiveRows, RowsOf
    <3>2. pc[h] \in Inserting /\ i[2] # j[2] /\ i[2] \in DOMAIN picks[h] /\ j[2] \in DOMAIN picks[h]
      BY <2>2, <3>1 DEF Stored, Inserting, Ids
    <3>3. picks[h][i[2]] # picks[h][j[2]] /\ Len(picks[h]) <= req[h].count
      BY <3>2 DEF Inv, PicksFree
    <3>4. picks[h] \in Seq(Int) /\ req[h] \in AllocateRequest
      BY <2>2 DEF Stored, Inv, TypeOK, Control
    <3>5. req[h].count > 1
      <4>1. Len(picks[h]) \in Nat /\ DOMAIN picks[h] = 1..Len(picks[h]) /\ req[h].count \in Nat
        BY <3>4 DEF AllocateRequest
      <4> QED
        BY <3>2, <3>3, <4>1
    <3>6. req[h].symbol = Nil
      BY <3>4, <3>5, RequestKinds, Distinct DEF Inv, OwnAllocation, Requests
    <3> QED
      BY <2>2, <3>1, <3>3, <3>6, StoredRow
  <2>3. ASSUME NEW n \in Namespaces, NEW i \in LiveRows(n)', NEW j \in LiveRows(n)', i # j
        PROVE  Differ(i, j)
    <3>1. CASE i \in LiveRows(n) /\ entries'[i] = entries[i] /\ j \in LiveRows(n) /\ entries'[j] = entries[j]
      BY <2>3, <3>1 DEF Inv, LiveUnique
    <3> QED
      BY <1>1, <2>1, <2>2, <2>3, <3>1, LiveRowStep
  <2> QED
    BY <2>3 DEF LiveUnique
<1> QED
  BY <1>u, <1>1 DEF Next, HandlerStep
-----------------------------------------------------------------------------
LEMMA InvStep == Inv /\ [Next]_vars => Inv'
  BY TypeStep, LockedStep, OwnAllocationStep, FoundRowsStep, PicksFreeStep, PicksPermittedStep,
     LiveUniqueStep, NoValueConflictStep, RereadStep DEF Inv

\* Every state that the registry reaches satisfies Inv, whatever the number
\* of handlers, namespaces and batches.
THEOREM Invariance == Spec => []Inv
<1>1. Init => Inv
  BY InitInv
<1>2. Inv /\ [Next]_vars => Inv'
  BY InvStep
<1> QED
  BY <1>1, <1>2, PTL DEF Spec

\* The tables, the locks and the requests keep their types.
THEOREM TypeCorrectness == Spec => []TypeOK
<1>1. Inv => TypeOK
  BY DEF Inv
<1> QED
  BY <1>1, Invariance, PTL

\* Allocate, AllocateBatch, RevokeEntry and RevokeAllocation never let two
\* live entries of a namespace share a value or a symbol.
THEOREM LiveUniqueness == Spec => []LiveUnique
<1>1. Inv => LiveUnique
  BY DEF Inv
<1> QED
  BY <1>1, Invariance, PTL

\* With the row lock, AllocateBatch never offers the unique index a value
\* that is taken.
THEOREM LockPreventsConflict == Spec => []NoValueConflict
<1>1. Inv => NoValueConflict
  BY DEF Inv
<1> QED
  BY <1>1, Invariance, PTL

\* GetEntryByID and ListAllocationEntries after a revocation report REVOKED.
THEOREM RereadRevoked == Spec => []RereadIsRevoked
<1>1. Inv => RereadIsRevoked
  BY DEF Inv
<1> QED
  BY <1>1, Invariance, PTL

-----------------------------------------------------------------------------
LEMMA EntriesStep ==
  ASSUME Inv, [Next]_vars, NEW i \in Ids, entries[i] # Nil
  PROVE  /\ entries'[i] # Nil
         /\ entries'[i] # entries[i] =>
              /\ entries[i].status = "ACTIVE"
              /\ \E h \in Handlers : pc[h] = "revoke" /\ i \in Named(h)
<1>u. CASE UNCHANGED vars \/ \E n \in Namespaces : CreateNamespace(n)
  BY <1>u DEF vars, CreateNamespace
<1>1. ASSUME NEW h \in Handlers, HandlerStep(h), entries'[i] # entries[i]
      PROVE  /\ entries'[i] # Nil /\ entries[i].status = "ACTIVE"
             /\ pc[h] = "revoke" /\ i \in Named(h)
  <2>1. Revoked(h, i)
    BY <1>1, RowStep DEF Stored
  <2> QED
    BY <2>1, RevokedRow DEF Revoked
<1> QED
  BY <1>u, <1>1 DEF Next, HandlerStep

\* No step of the registry deletes a row or changes a REVOKED one.
THEOREM HistoryKept == Spec => HistoryIsKept
<1>1. Inv /\ [Next]_vars =>
        [\A i \in Ids :
          entries[i] # Nil =>
            /\ entries'[i] # Nil
            /\ entries[i].status = "REVOKED" => entries'[i] = entries[i]]_vars
  BY EntriesStep
<1> QED
  BY <1>1, Invariance, PTL DEF Spec, HistoryIsKept

\* RevokeEntry and RevokeAllocation change only the rows they are asked for.
THEOREM NamedRevoked == Spec => OnlyNamedRevoked
<1>1. Inv /\ [Next]_vars =>
        [\A i \in Ids :
          entries[i] # Nil /\ entries'[i] # entries[i] =>
            \E h \in Handlers : pc[h] = "revoke" /\ i \in Named(h)]_vars
  BY EntriesStep
<1> QED
  BY <1>1, Invariance, PTL DEF Spec, OnlyNamedRevoked
-----------------------------------------------------------------------------
\* The other half of Locked: a row is locked by a transaction on that row,
\* and by no handler whose transaction has ended.
Owned ==
  \A n \in Namespaces : lock[n] # Free => pc[lock[n]] \in InTx /\ target[lock[n]] = n

LEMMA OwnedStep == Inv /\ Owned /\ [Next]_vars => Owned'
<1> SUFFICES ASSUME Inv, Owned, [Next]_vars, NEW n \in Namespaces, lock'[n] # Free
             PROVE  pc'[lock'[n]] \in InTx /\ target'[lock'[n]] = n
  BY DEF Owned
<1>0. TypeOK /\ lock'[n] \in Handlers
  BY TypeStep DEF Inv, TypeOK
<1>h. lock[n] # Free => lock[n] \in Handlers /\ pc[lock[n]] \in InTx /\ target[lock[n]] = n
  BY <1>0 DEF Owned, TypeOK
<1>u. CASE UNCHANGED vars \/ \E m \in Namespaces : CreateNamespace(m)
  BY <1>h, <1>u DEF vars, CreateNamespace
<1>1. ASSUME NEW h \in Handlers, HandlerStep(h)
      PROVE  pc'[lock'[n]] \in InTx /\ target'[lock'[n]] = n
  <2>q. Quiet(h)
    BY <1>0, <1>1, QuietStep
  <2>1. CASE LockNamespace(h)
    <3>1. CASE EndTx(h)
      <4>1. lock'[n] = lock[n] /\ lock[n] # h
        BY <1>0, <3>1, Distinct DEF EndTx, TypeOK
      <4> QED
        BY <1>h, <2>q, <4>1 DEF Quiet
    <3>2. CASE ~EndTx(h)
      <4>1. /\ lock' = [lock EXCEPT ![target[h]] = h]
            /\ Goto(h, AfterLock(req[h])) /\ target' = target
        BY <2>1, <3>2 DEF LockNamespace, Refuse, Finish
      <4>2. pc'[h] \in InTx
        BY <1>0, <4>1 DEF TypeOK, Goto, AfterLock, InTx
      <4>3. CASE n = target[h]
        BY <1>0, <4>1, <4>2, <4>3 DEF TypeOK
      <4>4. CASE n # target[h]
        <5>1. lock'[n] = lock[n] /\ lock[n] # h
          BY <1>0, <1>h, <2>1, <4>1, <4>4, Distinct DEF TypeOK, LockNamespace, InTx
        <5> QED
          BY <1>h, <2>q, <5>1 DEF Quiet
      <4> QED
        BY <4>3, <4>4
    <3> QED
      BY <3>1, <3>2
  <2>2. CASE EndTx(h)
    <3>1. lock'[n] = lock[n] /\ lock[n] # h
      BY <1>0, <2>2, Distinct DEF EndTx, TypeOK
    <3> QED
      BY <1>h, <2>q, <3>1 DEF Quiet
  <2>3. CASE ~LockNamespace(h) /\ ~EndTx(h)
    <3>1. lock' = lock
      BY <1>1, <2>3
      DEF HandlerStep, Wait, Work, QueueForProject, DeadlockVictim, Submit, FindNamespace, EnsureProject,
          PickExhausted, Pick, PickConflict, PickInsert, CommitAllocation, RevokeEntry, RevokeAllocation,
          Revoke, Release, ReadRevoked, UpdateNamespace, RecalculateCursor, Respond, Abort, Refuse,
          Committed, Finish
    <3>2. pc[h] \in InTx => pc'[h] \in InTx /\ target' = target
      BY <1>0, <1>1, <2>3
      DEF HandlerStep, Wait, Work, QueueForProject, DeadlockVictim, Submit, FindNamespace, EnsureProject,
          PickExhausted, Pick, PickConflict, PickInsert, CommitAllocation, RevokeEntry, RevokeAllocation,
          Revoke, Release, ReadRevoked, UpdateNamespace, RecalculateCursor, Respond, Abort, Refuse,
          Committed, Finish, Goto, TypeOK, InTx
    <3>3. CASE lock[n] = h
      BY <1>h, <3>1, <3>2, <3>3
    <3>4. CASE lock[n] # h
      BY <1>0, <1>h, <2>q, <3>1, <3>4 DEF Quiet
    <3> QED
      BY <3>3, <3>4
  <2> QED
    BY <2>1, <2>2, <2>3
<1> QED
  BY <1>u, <1>1 DEF Next, HandlerStep

\* What keeps a handler from going on, and whose transaction must end first.
Has(g, h) == pc[g] \in Inserting /\ req[g].project \notin projects \cup {Nil} /\ SameName(g, h)
Blocked(h) ==
  \/ pc[h] = "lock" /\ ~Grantable(target[h])
  \/ pc[h] \in {"project", "queue"} /\ (ProjectInFlight(h) \/ (~Registered(h) /\ Rivals(h) # {}))
WaitsFor(h, g) ==
  \/ pc[h] = "lock" /\ g = lock[target[h]]
  \/ /\ pc[h] \in {"project", "queue"}
     /\ \/ g # h /\ Has(g, h)
        \/ ~ProjectInFlight(h) /\ ~Registered(h) /\ g \in Rivals(h)

\* The locks of a transaction in the order it takes them: its row, a shared
\* lock on the name of its project, the name itself.
Depth(h) ==
  CASE pc[h] = "lock" -> 0 [] pc[h] = "project" -> 1 [] pc[h] = "queue" -> 2 [] OTHER -> 3

WaitsEnd ==
  \A h \in Handlers : Blocked(h) =>
    /\ \E g \in Handlers : WaitsFor(h, g)
    /\ \A g \in Handlers : WaitsFor(h, g) =>
         /\ pc[g] \in InTx
         /\ Depth(h) < Depth(g) \/ (Deadlocked(h) /\ Deadlocked(g))

LEMMA WaitsDescend == Inv /\ Owned => WaitsEnd
<1> SUFFICES ASSUME Inv, Owned, NEW h \in Handlers, Blocked(h)
             PROVE  /\ \E g \in Handlers : WaitsFor(h, g)
                    /\ \A g \in Handlers : WaitsFor(h, g) =>
                         /\ pc[g] \in InTx
                         /\ Depth(h) < Depth(g) \/ (Deadlocked(h) /\ Deadlocked(g))
  BY DEF WaitsEnd
<1>1. CASE pc[h] = "lock"
  <2>1. target[h] \in Namespaces /\ lock[target[h]] # Free
    BY <1>1 DEF Inv, Control, Blocked, Grantable
  <2>2. lock[target[h]] \in Handlers /\ pc[lock[target[h]]] \in InTx
    BY <2>1 DEF Inv, TypeOK, Owned
  <2> QED
    BY <1>1, <2>2 DEF WaitsFor, Depth, InTx
<1>2. CASE pc[h] \in {"project", "queue"}
  <2>1. \E g \in Handlers : WaitsFor(h, g)
    BY <1>2 DEF Blocked, WaitsFor, Has, ProjectInFlight, Rivals
  <2>2. ASSUME NEW g \in Handlers, g # h, Has(g, h) PROVE pc[g] \in InTx /\ Depth(h) < Depth(g)
    BY <1>2, <2>2 DEF Has, Depth, Inserting, InTx
  <2>3. ASSUME NEW g \in Rivals(h), ~ProjectInFlight(h), ~Registered(h)
        PROVE  pc[g] \in InTx /\ (Depth(h) < Depth(g) \/ (Deadlocked(h) /\ Deadlocked(g)))
    <3>1. pc[g] = "queue" /\ g \in Handlers \ {h} /\ SameName(g, h)
      BY DEF Rivals
    <3>2. CASE pc[h] = "project"
      BY <3>1, <3>2 DEF Depth, InTx
    <3>3. CASE pc[h] = "queue"
      <4>1. ~Registered(g) /\ h \in Rivals(g)
        BY <2>3, <3>1, <3>3 DEF Registered, Rivals, SameName
      <4>2. ~ProjectInFlight(g)
        BY <2>3, <3>1, <3>3 DEF ProjectInFlight, SameName, Inserting
      <4> QED
        BY <2>3, <3>1, <3>3, <4>1, <4>2 DEF Deadlocked, InTx
    <3> QED
      BY <1>2, <3>2, <3>3
  <2> QED
    BY <1>2, <2>1, <2>2, <2>3 DEF WaitsFor, Rivals
<1> QED
  BY <1>1, <1>2 DEF Blocked

\* Row locks and project names are taken in one order, and a transaction
\* that ends, however it ends, leaves no lock behind: every chain of waiting
\* handlers leads to a transaction that waits for nobody.  The exception is
\* ensureProject after a rollback: those who have queued for the name then
\* wait for each other, and each of them is one that InnoDB may roll back.
THEOREM EveryWaitEnds == Spec => []WaitsEnd
<1>1. Init => Owned
  BY DEF Init, Owned
<1>2. Owned /\ Inv /\ [Next]_vars => Owned'
  BY OwnedStep
<1>3. Inv /\ Owned => WaitsEnd
  BY WaitsDescend
<1> QED
  BY <1>1, <1>2, <1>3, Invariance, PTL DEF Spec
=============================================================================
