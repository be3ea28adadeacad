------------------------- MODULE RegistryRefinement -------------------------
(***************************************************************************)
(* Registry implements TypeRegistry.                                       *)
(***************************************************************************)
EXTENDS RegistryProofs

LEMMA PromiseInit == Init => Promise!Init
  BY DEF Init, Limits, Promise!Init, Promise!Limits

\* Moving a cursor changes no limits.
LEMMA CursorKeepsLimits ==
  ASSUME TypeOK, NEW n \in Namespaces, namespace[n] \in NamespaceRow, NEW c \in Int,
         namespace' = [namespace EXCEPT ![n].next = c]
  PROVE  Limits' = Limits
<1>1. PICK row : row = [namespace[n] EXCEPT !.next = c]
  OBVIOUS
<1>2. row \in NamespaceRow /\ row.max = namespace[n].max /\ row.status = namespace[n].status
  BY <1>1 DEF NamespaceRow
<1>3. namespace' = [namespace EXCEPT ![n] = row]
  BY <1>1
<1>4. row # Nil /\ namespace[n] # Nil
  BY <1>2, Distinct
<1> QED
  BY <1>2, <1>3, <1>4 DEF TypeOK, Limits

\* A batch is granted when it is committed: its values were free to take and
\* permitted when they were inserted, and the lock has kept them so.
LEMMA GrantStep ==
  ASSUME Inv, Inv', NEW h \in Handlers, CommitAllocation(h)
  PROVE  Promise!Grant(target[h])
<1>0. TypeOK /\ Control /\ HandlerStep(h)
  BY DEF Inv, HandlerStep, Work
<1>1. /\ target[h] \in Namespaces /\ local[h] \in NamespaceRow /\ pc[h] = "commit"
      /\ req[h] \in AllocateRequest /\ req[h].op = "allocate"
      /\ namespace[target[h]] \in NamespaceRow /\ namespace[target[h]] # Nil
      /\ namespace[target[h]].max = local[h].max /\ namespace[target[h]].status = "ACTIVE"
  BY RequestKinds, Distinct DEF CommitAllocation, Inv, Control, Locked, InTx, Requests
<1>2. Limits[target[h]] = [max |-> local[h].max, status |-> "ACTIVE"]
  BY <1>1 DEF Limits
<1>3. Limits' = Limits
  <2>1. namespace' = [namespace EXCEPT ![target[h]].next = local[h].next] /\ local[h].next \in Int
    BY <1>1 DEF CommitAllocation, NamespaceRow
  <2> QED
    BY <1>0, <1>1, <2>1, CursorKeepsLimits
<1>4. ASSUME NEW i \in Ids, entries'[i] # entries[i]
      PROVE  /\ Stored(h, i) /\ entries[i] = Nil /\ entries'[i] # Nil
             /\ entries'[i].ns = target[h] /\ entries'[i].status = "ACTIVE"
             /\ entries'[i].value = picks[h][i[2]] /\ entries'[i].project = req[h].project
  <2>1. Stored(h, i)
    BY <1>0, <1>1, <1>4, RowStep DEF Revoked
  <2> QED
    BY <2>1, StoredRow DEF Stored, NewRow
<1>5. ASSUME NEW i \in Ids, entries'[i] # entries[i]
      PROVE  Promise!Permitted(target[h], entries'[i].value, entries'[i].project)
  <2>1. picks[h][i[2]] \in Inserted(h)
    BY <1>4, <1>5 DEF Stored, Inserted
  <2>2. \/ globalRangeContains(OwnRanges(h), entries'[i].value)
        \/ /\ WithinMax(local[h], entries'[i].value)
           /\ ~globalRangeContains(Ranges[target[h]], entries'[i].value)
    BY <1>1, <1>4, <1>5, <2>1 DEF Inv, PicksPermitted, Inserting
  <2> QED
    BY <1>2, <1>4, <1>5, <2>2
    DEF Promise!Permitted, OwnRanges, globalRangeContains, InRange, WithinMax
<1>6. ASSUME NEW i \in Ids, entries'[i] # entries[i], NEW j \in Ids \ {i},
             entries'[j] # Nil, entries'[j].status # "REVOKED", entries'[j].ns = target[h]
      PROVE  /\ entries'[j].value # entries'[i].value
             /\ entries'[j].symbol # Nil => entries'[j].symbol # entries'[i].symbol
             /\ entries[j] = Nil => j[1] = i[1]
  <2>1. PICK n \in Namespaces : i \in LiveRows(n)' /\ j \in LiveRows(n)'
    BY <1>1, <1>4, <1>6 DEF LiveRows, RowsOf
  <2>2. LiveUnique'
    BY DEF Inv
  <2>3. /\ entries'[j].value # entries'[i].value
        /\ entries'[j].symbol # Nil => entries'[j].symbol # entries'[i].symbol
    BY <1>6, <2>1, <2>2 DEF LiveUnique
  <2>4. entries[j] = Nil => Stored(h, j) /\ Stored(h, i)
    BY <1>4, <1>6
  <2> QED
    BY <2>3, <2>4 DEF Stored
<1>7. Limits[target[h]] # Nil /\ Limits[target[h]].status = "ACTIVE"
  BY <1>1, <1>2, Distinct DEF NamespaceRow, NamespaceLimits
<1>8. (\A i \in Ids : entries'[i] # entries[i] => 
        /\ entries[i] = Nil
        /\ entries'[i] # Nil /\ entries'[i].ns = target[h] /\ entries'[i].status = "ACTIVE"
        /\ Promise!Permitted(target[h], entries'[i].value, entries'[i].project)
        /\ \A j \in Ids \ {i} :
            entries'[j] # Nil /\ entries'[j].status # "REVOKED" /\ entries'[j].ns = target[h] =>
              /\ entries'[j].value # entries'[i].value
              /\ entries'[j].symbol # Nil => entries'[j].symbol # entries'[i].symbol
              /\ entries[j] = Nil => j[1] = i[1])
  BY <1>4, <1>5, <1>6
<1> QED
  BY <1>3, <1>7, <1>8 DEF Promise!Grant, Limits

\* A revocation releases rows of one batch.
LEMMA ReleaseStep ==
  ASSUME Inv, NEW h \in Handlers, RevokeEntry(h) \/ RevokeAllocation(h)
  PROVE  \/ UNCHANGED <<entries, Limits>>
         \/ \E a \in {i[1] : i \in Ids} : Promise!ReleaseBatch(a)
<1>0. TypeOK /\ Control
  BY DEF Inv
<1>1. req[h] \in RevokeRequest /\ req[h] \in Requests /\ pc[h] = "revoke"
  BY <1>0 DEF Control, RevokeEntry, RevokeAllocation, Requests
<1>2. Refuse(h, "conflict") \/ Release(h, Named(h))
  BY <1>1, RequestKinds DEF Named, RevokeEntry, RevokeAllocation, Revoke
<1>3. CASE Refuse(h, "conflict")
  BY <1>3 DEF Refuse, Limits
<1>4. CASE Release(h, Named(h))
  <2>1. Named(h) # {} /\ Named(h) \subseteq Ids /\ \A i \in Named(h) : entries[i] \in EntryRow
    BY <1>0, <1>1, RequestKinds DEF Inv, FoundRows, Named, EntriesOf, TypeOK
  <2>2. PICK j \in Named(h) : TRUE
    BY <2>1
  <2>3. Released(Named(h)) \subseteq {i \in Ids : i[1] = j[1] /\ entries[i] # Nil}
    BY <2>1, <2>2 DEF Released, Named, EntriesOf
  <2>4. \A i \in Released(Named(h)) : entries[i].status = "ACTIVE"
    BY DEF Released
  <2>5. entries' = [i \in Ids |-> IF i \in Released(Named(h))
                                  THEN [entries[i] EXCEPT !.status = "REVOKED"] ELSE entries[i]]
    BY <1>4 DEF Release
  <2>6. target[h] \in Namespaces /\ namespace[target[h]] \in NamespaceRow
    BY <1>1 DEF Inv, Control, Locked, InTx
  <2>7. PICK c \in {namespace[target[h]].next} \cup {entries[i].value : i \in Released(Named(h))} :
          namespace' = [namespace EXCEPT ![target[h]].next = c]
    BY <1>4 DEF Release, Cursors
  <2>8. c \in Int
    BY <2>1, <2>6, <2>7 DEF NamespaceRow, EntryRow, Released
  <2>9. Limits' = Limits
    BY <1>0, <2>6, <2>7, <2>8, CursorKeepsLimits
  <2>10. Promise!ReleaseBatch(j[1])
    BY <2>3, <2>4, <2>5, <2>9 DEF Promise!ReleaseBatch
  <2> QED
    BY <2>1, <2>2, <2>10
<1> QED
  BY <1>2, <1>3, <1>4

\* UpdateNamespace checks the live values under the lock.
LEMMA LimitsStep ==
  ASSUME Inv, NEW h \in Handlers, UpdateNamespace(h), ~Refuse(h, "conflict")
  PROVE  Promise!SetLimits(target[h])
<1>0. TypeOK
  BY DEF Inv
<1> DEFINE min == req[h].bounds[1]
           max == req[h].bounds[2]
<1>1. PICK next :
        /\ ~BoundsConflict(target[h], min, max)
        /\ namespace' = [namespace EXCEPT ![target[h]] =
             [next |-> next, min |-> min, max |-> max, status |-> req[h].status]]
        /\ UNCHANGED entries
        /\ next = IF min # Nil /\ local[h].next < min THEN min ELSE local[h].next
  BY DEF UpdateNamespace, RaisedCursor
<1> DEFINE row == [next |-> next, min |-> min, max |-> max, status |-> req[h].status]
<1>2. target[h] \in Namespaces /\ local[h] \in NamespaceRow /\ req[h] \in UpdateRequest
  BY DEF UpdateNamespace, Inv, Control, InTx
<1>3. row \in NamespaceRow
  <2>1. min \in Int \cup {Nil} /\ max \in Int \cup {Nil} /\ req[h].status \in {"ACTIVE", "DEPRECATED"}
    BY <1>2, RegistryAssumption DEF UpdateRequest
  <2> QED
    BY <1>1, <1>2, <2>1 DEF NamespaceRow
<1>4. row # Nil /\ row.max = max /\ row.status = req[h].status
  BY <1>3, Distinct
<1>5. namespace' = [namespace EXCEPT ![target[h]] = row]
  BY <1>1
<1> HIDE DEF row
<1>6. Limits' = [Limits EXCEPT ![target[h]] = [max |-> max, status |-> req[h].status]]
  BY <1>0, <1>2, <1>4, <1>5 DEF Limits, TypeOK
<1>7. Limits'[target[h]] = [max |-> max, status |-> req[h].status]
  BY <1>2, <1>6 DEF Limits
<1>8. Limits'[target[h]] # Nil
  <2>1. [max |-> max, status |-> req[h].status] \in NamespaceLimits
    BY <1>2, RegistryAssumption DEF UpdateRequest, NamespaceLimits
  <2> QED
    BY <1>7, <2>1, Distinct
<1>9. Limits' = [Limits EXCEPT ![target[h]] = Limits'[target[h]]]
  BY <1>6, <1>7
<1>10. ASSUME max # Nil, NEW i \in Ids, entries[i] # Nil, entries[i].status # "REVOKED",
              entries[i].ns = target[h]
       PROVE  entries[i].value <= max
  <2>1. entries[i].value \in LiveValues(target[h])
    BY <1>10 DEF LiveValues, LiveRows, RowsOf
  <2>2. ~(entries[i].value > max)
    BY <1>1, <1>10, <2>1 DEF BoundsConflict
  <2>3. entries[i].value \in Int /\ max \in Int
    BY <1>0, <1>2, <1>10, RegistryAssumption DEF TypeOK, EntryRow, UpdateRequest
  <2> QED
    BY <2>2, <2>3
<1> HIDE DEF max
<1> QED
  BY <1>1, <1>7, <1>8, <1>9, <1>10 DEF Promise!SetLimits, Promise!Live

\* Every step keeps the promise or is not seen by it.
LEMMA PromiseStep == Inv /\ Inv' /\ [Next]_vars => [Promise!Next]_<<entries, Limits>>
<1> SUFFICES ASSUME Inv, Inv', [Next]_vars
             PROVE  Promise!Next \/ UNCHANGED <<entries, Limits>>
  OBVIOUS
<1>0. TypeOK /\ Control
  BY DEF Inv
<1>1. ASSUME UNCHANGED <<entries, namespace>> PROVE UNCHANGED <<entries, Limits>>
  BY <1>1 DEF Limits
<1>2. CASE UNCHANGED vars
  BY <1>1, <1>2 DEF vars
<1>3. ASSUME NEW h \in Handlers, CommitAllocation(h) PROVE Promise!Next
  <2>1. target[h] \in Namespaces
    BY <1>0, <1>3 DEF CommitAllocation, Control, InTx
  <2> QED
    BY <1>3, <2>1, GrantStep DEF Promise!Next
<1>4. ASSUME NEW h \in Handlers, RevokeEntry(h) \/ RevokeAllocation(h)
      PROVE  Promise!Next \/ UNCHANGED <<entries, Limits>>
  BY <1>4, ReleaseStep DEF Promise!Next
<1>5. ASSUME NEW h \in Handlers, UpdateNamespace(h)
      PROVE  Promise!Next \/ UNCHANGED <<entries, Limits>>
  <2>1. CASE Refuse(h, "conflict")
    BY <1>1, <2>1 DEF Refuse
  <2>2. target[h] \in Namespaces
    BY <1>0, <1>5 DEF UpdateNamespace, Control, InTx
  <2> QED
    BY <1>5, <2>1, <2>2, LimitsStep DEF Promise!Next
<1>6. ASSUME NEW h \in Handlers, RecalculateCursor(h) PROVE UNCHANGED <<entries, Limits>>
  <2>1. CASE Refuse(h, "ok")
    BY <1>1, <2>1 DEF Refuse
  <2>2. CASE ~Refuse(h, "ok")
    <3>1. target[h] \in Namespaces /\ local[h] \in NamespaceRow
          /\ namespace[target[h]] \in NamespaceRow
      BY <1>6 DEF RecalculateCursor, Inv, Control, Locked, InTx
    <3>2. PICK c \in Values \cup (IF local[h].max = Nil THEN {} ELSE {local[h].max + 1}) :
            namespace' = [namespace EXCEPT ![target[h]].next = c]
      BY <1>6, <2>2 DEF RecalculateCursor
    <3>3. c \in Int
      BY <3>1, <3>2, CandidatesAssumption DEF NamespaceRow
    <3>4. Limits' = Limits
      BY <1>0, <3>1, <3>2, <3>3, CursorKeepsLimits
    <3> QED
      BY <1>6, <2>2, <3>4 DEF RecalculateCursor
  <2> QED
    BY <2>1, <2>2
<1>7. ASSUME NEW n \in Namespaces, CreateNamespace(n) PROVE Promise!Next
  <2>1. PICK row \in NewRows : namespace' = [namespace EXCEPT ![n] = row]
    BY <1>7 DEF CreateNamespace
  <2>2. row \in NamespaceRow /\ row # Nil
    BY RegistryAssumption
  <2> DEFINE limits == [max |-> row.max, status |-> row.status]
  <2>3. Limits' = [Limits EXCEPT ![n] = limits] /\ Limits'[n] = limits
    BY <1>0, <2>1, <2>2 DEF Limits, TypeOK
  <2>4. limits # Nil
    BY <2>2, Distinct DEF NamespaceRow, NamespaceLimits
  <2>5. Limits[n] = Nil /\ UNCHANGED entries
    BY <1>7 DEF CreateNamespace, Limits
  <2> HIDE DEF limits
  <2>6. Promise!SetLimits(n)
    BY <2>3, <2>4, <2>5 DEF Promise!SetLimits
  <2> QED
    BY <2>6 DEF Promise!Next
<1>8. ASSUME NEW h \in Handlers,
             Submit(h) \/ FindNamespace(h) \/ LockNamespace(h) \/ QueueForProject(h) \/ EnsureProject(h)
               \/ DeadlockVictim(h) \/ PickExhausted(h) \/ Pick(h) \/ ReadRevoked(h) \/ Abort(h) \/ Respond(h)
      PROVE  UNCHANGED <<entries, namespace>>
  BY <1>8 DEF Submit, FindNamespace, LockNamespace, QueueForProject, EnsureProject, DeadlockVictim,
              PickExhausted, Pick, PickConflict, PickInsert, ReadRevoked, Abort, Respond, Refuse
<1> QED
  BY <1>1, <1>2, <1>3, <1>4, <1>5, <1>6, <1>7, <1>8 DEF Next, Wait, Work

\* Every behaviour of the handlers is one of TypeRegistry: batches appear at
\* once, with values that are free, within the maximum and reserved for nobody
\* else, in an ACTIVE namespace; rows are only ever released; new limits fit
\* the live values.
THEOREM Refinement == Spec => KeepsPromise
<1>1. Init => Promise!Init
  BY PromiseInit
<1>2. Inv /\ Inv' /\ [Next]_vars => [Promise!Next]_<<entries, Limits>>
  BY PromiseStep
<1> QED
  BY <1>1, <1>2, Invariance, PTL DEF Spec, KeepsPromise, Promise!Spec, Promise!vars
=============================================================================
