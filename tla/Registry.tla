------------------------------ MODULE Registry ------------------------------
(***************************************************************************)
(* The registry core: request handlers that allocate, revoke and maintain  *)
(* type values in MySQL transactions (internal/store/entry.go,             *)
(* internal/store/namespace.go, called through internal/service).          *)
(*                                                                         *)
(* One handler is one HTTP request being served, by this server or by      *)
(* another instance on the same database.  Every transaction of the code   *)
(* is READ COMMITTED and starts by locking the row of its namespace        *)
(* (SELECT ... FOR UPDATE), so a step of the model is one round trip of a  *)
(* transaction; what it has written and not committed is in the handler's  *)
(* own variables (local, picks) and is lost when it is rolled back.        *)
(***************************************************************************)
EXTENDS Candidates, Sequences

CONSTANTS
  Handlers,       \* concurrent requests
  Namespaces,     \* type_namespaces rows, present or not yet created
  Ranges,         \* Ranges[n]: the reserved ranges stored with namespace n
  Projects,       \* spellings of project names
  Key(_),         \* what the collation and EqualFold compare of a spelling
  Symbols,        \* symbols, up to collation
  Allocs,         \* random allocation ids
  MaxCount,       \* largest batch (100 in the code)
  Workload,       \* the requests that clients make
  NewRows,        \* what POST /namespaces may store
  Bounds,         \* the <<min, max>> an update may ask for
  Free,           \* the lock of a row nobody holds
  NoRequest,      \* a handler that serves nothing
  StoredNamespaces, StoredEntries, StoredProjects  \* the database at start

VARIABLES
  entries,    \* type_entries, by id; committed rows only
  namespace,  \* type_namespaces; committed rows only
  projects,   \* the names in table projects
  lock,       \* lock[n]: the transaction that locked row n
  pc, req,    \* per handler: where it is, and what it was asked
  target,     \* the namespace id or code its transaction locks
  local,      \* the namespace row as its transaction has it (ns in the code)
  picks,      \* the values its transaction has inserted (items)
  answer      \* the result it is about to send

vars == <<entries, namespace, projects, lock, pc, req, target, local, picks, answer>>

-----------------------------------------------------------------------------
\* An entry is known by its batch and its place in it: like AUTO_INCREMENT,
\* that is unique and never used again.
Ids == Allocs \X (1..MaxCount)

NamespaceRow == [next: Int, min: Int \cup {Nil}, max: Int \cup {Nil},
                 status: {"ACTIVE", "DEPRECATED"}]

\* What a client may rely on of a namespace row.
NamespaceLimits == [max: Int \cup {Nil}, status: {"ACTIVE", "DEPRECATED"}]

EntryRow == [ns: Namespaces, value: Int, symbol: Symbols \cup {Nil},
             project: Projects \cup {Nil},
             status: {"ACTIVE", "DEPRECATED", "REVOKED"}]

\* A range without a project blocks its values for everybody.
ReservedRange == [start: Int, end: Int, project: Projects \cup {Nil}]

AllocateRequest ==
  [op: {"allocate"}, ns: Namespaces, project: Projects \cup {Nil},
   symbol: Symbols \cup {Nil}, count: 1..MaxCount, alloc: Allocs]
RevokeRequest == [op: {"revokeEntry"}, id: Ids] \cup [op: {"revokeAllocation"}, alloc: Allocs]
UpdateRequest ==
  [op: {"update"}, ns: Namespaces, bounds: Bounds, status: {"ACTIVE", "DEPRECATED"}]
RecalculateRequest == [op: {"recalculate"}, ns: Namespaces]
Requests == AllocateRequest \cup RevokeRequest \cup UpdateRequest \cup RecalculateRequest

Active    == {"find", "lock", "project", "queue", "pick", "commit",
              "revoke", "update", "recalculate", "read"}
InTx      == {"project", "queue", "pick", "commit", "revoke", "update", "recalculate"}
Inserting == {"pick", "commit"}

Answers == {"ok", "notFound", "conflict", "exhausted", "inactive", "error"}

ASSUME RegistryAssumption ==
  /\ MaxCount \in Nat
  /\ Nil \notin Projects \cup Symbols \cup Namespaces \cup Answers
  /\ Free \notin Handlers
  /\ Workload \subseteq Requests
  /\ NoRequest \notin Requests
  /\ Bounds \subseteq (Int \cup {Nil}) \X (Int \cup {Nil})
  /\ NewRows \subseteq NamespaceRow
  /\ Ranges \in [Namespaces -> SUBSET ReservedRange]
  /\ StoredNamespaces \in [Namespaces -> NamespaceRow \cup {Nil}]
  /\ StoredEntries \in [Ids -> EntryRow \cup {Nil}]
  /\ StoredProjects \subseteq Projects
  /\ Nil \notin EntryRow \cup NamespaceRow \cup NamespaceLimits

\* The unique indexes hold for what is stored at the start, and a batch lies
\* in one namespace.
ASSUME StoredAssumption ==
  \A i, j \in Ids : i # j /\ Nil \notin {StoredEntries[i], StoredEntries[j]} =>
    /\ i[1] = j[1] => StoredEntries[i].ns = StoredEntries[j].ns
    /\ /\ StoredEntries[i].ns = StoredEntries[j].ns
       /\ "REVOKED" \notin {StoredEntries[i].status, StoredEntries[j].status}
       => /\ StoredEntries[i].value # StoredEntries[j].value
          /\ StoredEntries[i].symbol # Nil => StoredEntries[i].symbol # StoredEntries[j].symbol
-----------------------------------------------------------------------------
\* Reading the tables.

RowsOf(n) == {i \in Ids : entries[i] # Nil /\ entries[i].ns = n}
LiveRows(n) == {i \in RowsOf(n) : entries[i].status # "REVOKED"}
LiveValues(n) == {entries[i].value : i \in LiveRows(n)}
EverValues(n) == {entries[i].value : i \in RowsOf(n)}
LiveSymbols(n) == {entries[i].symbol : i \in LiveRows(n)} \ {Nil}
EntriesOf(a) == {i \in Ids : i[1] = a /\ entries[i] # Nil}

\* What handler h inserted and nobody else sees yet.
Inserted(h) == {picks[h][k] : k \in DOMAIN picks[h]}
LiveSeenBy(h) == LiveValues(target[h]) \cup Inserted(h)
EverSeenBy(h) == EverValues(target[h]) \cup Inserted(h)

OwnRanges(h) ==
  {r \in Ranges[target[h]] :
      Nil \notin {r.project, req[h].project} /\ Key(r.project) = Key(req[h].project)}

(***************************************************************************)
(* The unique indexes on (namespace_id, active_value) and (namespace_id,   *)
(* active_symbol) hold the live rows and those inserted by any open        *)
(* transaction.                                                            *)
(***************************************************************************)
IndexedValues(n) ==
  LiveValues(n) \cup UNION {Inserted(g) : g \in {f \in Handlers : target[f] = n}}
IndexedSymbols(n) ==
  LiveSymbols(n) \cup
    ({req[g].symbol : g \in {f \in Handlers : target[f] = n /\ picks[f] # <<>>}} \ {Nil})
\* Faulty variant: no index on active_symbol.
ValueKeyOnly(h, v) == v \in IndexedValues(target[h])
DuplicateKey(h, v) ==
  \/ v \in IndexedValues(target[h])
  \/ req[h].symbol \in IndexedSymbols(target[h])

\* Faulty variant: table projects without a unique name.
NoUniqueProject(h) == FALSE

\* Handlers g and h ask for one project name.
SameName(g, h) == Key(req[g].project) = Key(req[h].project)

\* A project name inserted by another open transaction: INSERT IGNORE waits.
ProjectInFlight(h) ==
  \E g \in Handlers \ {h} :
     pc[g] \in Inserting /\ req[g].project \notin projects \cup {Nil} /\ SameName(g, h)

\* The name is committed, or others wait for it with a shared lock.
Registered(h) == \E q \in projects : Key(q) = Key(req[h].project)
Rivals(h) == {g \in Handlers \ {h} : pc[g] = "queue" /\ SameName(g, h)}
-----------------------------------------------------------------------------
Init ==
  /\ entries = StoredEntries
  /\ namespace = StoredNamespaces
  /\ projects = StoredProjects
  /\ lock = [n \in Namespaces |-> Free]
  /\ pc = [h \in Handlers |-> "idle"]
  /\ req = [h \in Handlers |-> NoRequest]
  /\ target = [h \in Handlers |-> Nil]
  /\ local = [h \in Handlers |-> Nil]
  /\ picks = [h \in Handlers |-> <<>>]
  /\ answer = [h \in Handlers |-> Nil]

Goto(h, label) == pc' = [pc EXCEPT ![h] = label]

\* Faulty variant: a return that forgets the Rollback.
LeakTx(h) ==
  /\ lock' = lock
  /\ local' = [local EXCEPT ![h] = Nil]
  /\ picks' = [picks EXCEPT ![h] = <<>>]

\* The end of h's transaction, committed or rolled back: its row lock goes.
EndTx(h) ==
  /\ lock' = [n \in Namespaces |-> IF lock[n] = h THEN Free ELSE lock[n]]
  /\ local' = [local EXCEPT ![h] = Nil]
  /\ picks' = [picks EXCEPT ![h] = <<>>]

Finish(h, result) ==
  /\ EndTx(h)
  /\ Goto(h, "done")
  /\ answer' = [answer EXCEPT ![h] = result]
  /\ UNCHANGED <<req, target>>

\* After COMMIT.  Its reply may be lost: the caller is told of an error then.
Committed(h) == \E result \in {"ok", "error"} : Finish(h, result)

\* return without a write: the deferred Rollback ends the transaction.
Refuse(h, result) == Finish(h, result) /\ UNCHANGED <<entries, namespace, projects>>

\* The requests that the service layer lets through, with a new allocation id.
Acceptable(r) ==
  r.op = "allocate" =>
    /\ r.count > 1 => r.symbol = Nil
    /\ EntriesOf(r.alloc) = {}
    /\ \A g \in Handlers :
         req[g] # NoRequest /\ req[g].op = "allocate" => req[g].alloc # r.alloc

Submit(h) ==
  /\ pc[h] = "idle"
  /\ \E r \in Workload :
       /\ Acceptable(r)
       /\ req' = [req EXCEPT ![h] = r]
       /\ IF r \in RevokeRequest
          THEN Goto(h, "find") /\ UNCHANGED target
          ELSE Goto(h, "lock") /\ target' = [target EXCEPT ![h] = r.ns]
  /\ UNCHANGED <<entries, namespace, projects, lock, local, picks, answer>>

\* The rows a revocation names.
Named(h) ==
  IF req[h].op = "revokeEntry"
  THEN {i \in {req[h].id} : entries[i] # Nil}
  ELSE EntriesOf(req[h].alloc)

\* The unlocked read of the namespace to lock.
FindNamespace(h) ==
  /\ pc[h] = "find"
  /\ IF Named(h) = {}
     THEN Refuse(h, "notFound")
     ELSE /\ \E i \in Named(h) : target' = [target EXCEPT ![h] = entries[i].ns]
          /\ Goto(h, "lock")
          /\ UNCHANGED <<entries, namespace, projects, lock, req, local, picks, answer>>

\* Where a transaction goes on once it has the row.
AfterLock(r) ==
  CASE r.op = "allocate"    -> IF r.project = Nil THEN "pick" ELSE "project"
    [] r.op = "update"      -> "update"
    [] r.op = "recalculate" -> "recalculate"
    [] OTHER                -> "revoke"

\* Faulty variant: SELECT without FOR UPDATE.
Unlocked(n) == TRUE

\* SELECT ... FOR UPDATE waits while another transaction has the row.
Grantable(n) == lock[n] = Free

LockNamespace(h) ==
  /\ pc[h] = "lock"
  /\ Grantable(target[h])
  /\ \/ /\ namespace[target[h]] = Nil
        /\ Refuse(h, "notFound")
     \/ /\ namespace[target[h]] # Nil
        /\ req[h].op = "allocate" /\ namespace[target[h]].status # "ACTIVE"
        /\ Refuse(h, "inactive")
     \/ /\ namespace[target[h]] # Nil
        /\ req[h].op = "allocate" => namespace[target[h]].status = "ACTIVE"
        /\ lock' = [lock EXCEPT ![target[h]] = h]
        /\ local' = [local EXCEPT ![h] = namespace[target[h]]]
        /\ Goto(h, AfterLock(req[h]))
        /\ UNCHANGED <<entries, namespace, projects, req, target, picks, answer>>

\* Faulty variant: the name is registered outside of the transaction.
RegisterProjectFirst(h) ==
  /\ pc[h] = "project"
  /\ projects' = IF \E q \in projects : Key(q) = Key(req[h].project) THEN projects
                 ELSE projects \cup {req[h].project}
  /\ \E p \in projects' :
       /\ Key(p) = Key(req[h].project)
       /\ req' = [req EXCEPT ![h].project = p]
  /\ Goto(h, "pick")
  /\ UNCHANGED <<entries, namespace, lock, target, local, picks, answer>>

(***************************************************************************)
(* ensureProject: INSERT IGNORE the name, then read back the spelling that *)
(* is registered.  A duplicate INSERT waits with a request for a shared    *)
(* lock on the name, so all who wait get that lock at once.  After a       *)
(* COMMIT they read the name.  After a rollback each of them needs the     *)
(* exclusive lock to insert it, and InnoDB ends the deadlock of two or     *)
(* more by rolling back one at a time.                                     *)
(***************************************************************************)
QueueForProject(h) ==
  /\ pc[h] = "project"
  /\ ProjectInFlight(h)
  /\ Goto(h, "queue")
  /\ UNCHANGED <<entries, namespace, projects, lock, req, target, local, picks, answer>>

Deadlocked(h) ==
  /\ pc[h] = "queue"
  /\ ~ProjectInFlight(h) /\ ~Registered(h) /\ Rivals(h) # {}

DeadlockVictim(h) == Deadlocked(h) /\ Refuse(h, "error")

EnsureProject(h) ==
  /\ pc[h] \in {"project", "queue"}
  /\ ~ProjectInFlight(h)
  /\ Registered(h) \/ Rivals(h) = {}
  /\ \E p \in Projects :
       /\ Key(p) = Key(req[h].project)
       /\ IF Registered(h) THEN p \in projects ELSE p = req[h].project
       /\ req' = [req EXCEPT ![h].project = p]
  /\ Goto(h, "pick")
  /\ UNCHANGED <<entries, namespace, projects, lock, target, local, picks, answer>>

(***************************************************************************)
(* One turn of the loop of AllocateBatch: choose, INSERT, move the cursor. *)
(* A value of the project's own range moves it only from the cursor on.    *)
(***************************************************************************)
PickExhausted(h) ==
  /\ pc[h] = "pick"
  /\ FreeInRanges(OwnRanges(h), LiveSeenBy(h)) = {}
  /\ NamespaceExhausted(local[h], Ranges[target[h]], local[h].next, LiveSeenBy(h), EverSeenBy(h))
  /\ Refuse(h, "exhausted")

PickConflict(h, v) == DuplicateKey(h, v) /\ Refuse(h, "conflict")

PickInsert(h, v, fromReserved) ==
  /\ ~DuplicateKey(h, v)
  /\ picks' = [picks EXCEPT ![h] = Append(@, v)]
  /\ IF fromReserved /\ v < local[h].next
     THEN UNCHANGED local
     ELSE \E c \in Values \cup {v + 1} :
            /\ NextCursor(c, v, local[h], Ranges[target[h]],
                          LiveSeenBy(h) \cup {v}, EverSeenBy(h) \cup {v})
            /\ local' = [local EXCEPT ![h].next = c]
  /\ Goto(h, IF Len(picks[h]) + 1 < req[h].count THEN "pick" ELSE "commit")
  /\ UNCHANGED <<entries, namespace, projects, lock, req, target, answer>>

Pick(h) ==
  /\ pc[h] = "pick"
  /\ \E v \in Values, fromReserved \in BOOLEAN :
       /\ chooseCandidate(v, fromReserved, local[h], Ranges[target[h]], OwnRanges(h),
                          LiveSeenBy(h), EverSeenBy(h))
       /\ PickConflict(h, v) \/ PickInsert(h, v, fromReserved)

\* The rows a transaction leaves behind.
NewRow(h, v) ==
  [ns |-> target[h], value |-> v, symbol |-> req[h].symbol,
   project |-> req[h].project, status |-> "ACTIVE"]
\* Faulty variants: the last of the batch is lost; REPLACE INTO takes the row
\* of the released value.
GrantedButLast(h) ==
  {i \in Ids : i[1] = req[h].alloc /\ i[2] \in 1..(IF Len(picks[h]) > 1 THEN Len(picks[h]) - 1 ELSE 1)}
GrantedOverReleased(h) ==
  {i \in Ids : i[2] \in DOMAIN picks[h] /\
     \/ i[1] = req[h].alloc
     \/ /\ entries[i] # Nil /\ entries[i].ns = target[h]
        /\ entries[i].status = "REVOKED" /\ entries[i].value = picks[h][i[2]]}
Granted(h) == {i \in Ids : i[1] = req[h].alloc /\ i[2] \in DOMAIN picks[h]}

CommitAllocation(h) ==
  /\ pc[h] = "commit"
  /\ entries' = [i \in Ids |-> IF i \in Granted(h) THEN NewRow(h, picks[h][i[2]]) ELSE entries[i]]
  /\ namespace' = [namespace EXCEPT ![target[h]].next = local[h].next]
  /\ projects' = projects \cup ({req[h].project} \ {Nil})
  /\ Committed(h)

(***************************************************************************)
(* The transaction of a revocation once it has the row: refused if some    *)
(* named row is neither ACTIVE nor REVOKED, else the ACTIVE ones become    *)
(* REVOKED and the cursor goes back to the least value released.  No row   *)
(* is ever deleted, so the named rows are still there.                     *)
(***************************************************************************)
\* Faulty variants: UPDATE ... LIMIT 1; the rows are found by their values.
ReleasedFirst(ids) == {i \in ids : entries[i].status = "ACTIVE" /\ i[2] = 1}
ReleasedByValue(ids) ==
  {i \in Ids : entries[i] # Nil /\ entries[i].status = "ACTIVE" /\
     \E j \in ids : entries[j].ns = entries[i].ns /\ entries[j].value = entries[i].value}
Released(ids) == {i \in ids : entries[i].status = "ACTIVE"}
Revocable(ids) == \A i \in ids : entries[i].status \in {"ACTIVE", "REVOKED"}

\* Faulty variant: the cursor stays.
CursorKept(n, ids) == {namespace[n].next}
Cursors(n, ids) == {namespace[n].next} \cup {entries[i].value : i \in Released(ids)}

Release(h, ids) ==
  /\ entries' = [i \in Ids |->
                   IF i \in Released(ids) THEN [entries[i] EXCEPT !.status = "REVOKED"]
                   ELSE entries[i]]
  /\ \E c \in Cursors(target[h], ids) :
       /\ IsLeast(c, Cursors(target[h], ids))
       /\ namespace' = [namespace EXCEPT ![target[h]].next = c]
  /\ EndTx(h)
  /\ Goto(h, "read")
  /\ UNCHANGED <<projects, req, target, answer>>

Revoke(h, ids) ==
  \/ ~Revocable(ids) /\ Refuse(h, "conflict")
  \/ Revocable(ids) /\ Release(h, ids)

RevokeEntry(h) ==
  /\ pc[h] = "revoke" /\ req[h].op = "revokeEntry"
  /\ Revoke(h, {i \in {req[h].id} : entries[i] # Nil})

RevokeAllocation(h) ==
  /\ pc[h] = "revoke" /\ req[h].op = "revokeAllocation"
  /\ Revoke(h, EntriesOf(req[h].alloc))

\* GetEntryByID and ListAllocationEntries, outside the transaction.
ReadRevoked(h) ==
  /\ pc[h] = "read"
  /\ Refuse(h, IF Named(h) = {} THEN "notFound" ELSE "ok")

\* Faulty variant: the live values are not looked at.
RangesConflict(n, min, max) ==
  \E r \in Ranges[n] : (min # Nil /\ r.start < min) \/ (max # Nil /\ r.end > max)

\* UpdateNamespace: bounds must keep the reserved ranges and the live values in.
BoundsConflict(n, min, max) ==
  \/ \E r \in Ranges[n] : (min # Nil /\ r.start < min) \/ (max # Nil /\ r.end > max)
  \/ max # Nil /\ \E v \in LiveValues(n) : v > max

RaisedCursor(next, min) == IF min # Nil /\ next < min THEN min ELSE next

UpdateNamespace(h) ==
  /\ pc[h] = "update"
  /\ LET min == req[h].bounds[1]
         max == req[h].bounds[2]
     IN  \/ BoundsConflict(target[h], min, max) /\ Refuse(h, "conflict")
         \/ /\ ~BoundsConflict(target[h], min, max)
            /\ namespace' = [namespace EXCEPT ![target[h]] =
                 [next |-> RaisedCursor(local[h].next, min),
                  min |-> min, max |-> max, status |-> req[h].status]]
            /\ Committed(h)
            /\ UNCHANGED <<entries, projects>>

(***************************************************************************)
(* RecalculateNamespaceCursor: done for every namespace by a server that   *)
(* starts and by the migrate command, while other instances serve.         *)
(***************************************************************************)
RecalculateCursor(h) ==
  /\ pc[h] = "recalculate"
  /\ LET n     == target[h]
         start == IF local[h].min = Nil THEN 1 ELSE local[h].min
         past  == local[h].max + 1
     IN  \/ RowsOf(n) = {} /\ Refuse(h, "ok")
         \/ /\ RowsOf(n) # {}
            /\ \E c \in Values \cup (IF local[h].max = Nil THEN {} ELSE {past}) :
                 /\ IF NamespaceExhausted(local[h], Ranges[n], start, LiveValues(n), EverValues(n))
                    THEN c = past
                    ELSE nextGlobalCandidate(c, local[h], Ranges[n], start,
                                             LiveValues(n), EverValues(n))
                 /\ namespace' = [namespace EXCEPT ![n].next = c]
            /\ Committed(h)
            /\ UNCHANGED <<entries, projects>>

\* The request's context ends, the database fails, or the server dies: the
\* open transaction is rolled back.  What was committed stays.
Abort(h) == pc[h] \in Active /\ Refuse(h, "error")

\* The answer has been sent, or its client is gone.
Respond(h) ==
  /\ pc[h] = "done"
  /\ Goto(h, "idle")
  /\ req' = [req EXCEPT ![h] = NoRequest]
  /\ target' = [target EXCEPT ![h] = Nil]
  /\ answer' = [answer EXCEPT ![h] = Nil]
  /\ UNCHANGED <<entries, namespace, projects, lock, local, picks>>

\* One INSERT into type_namespaces.
CreateNamespace(n) ==
  /\ namespace[n] = Nil
  /\ \E row \in NewRows : namespace' = [namespace EXCEPT ![n] = row]
  /\ UNCHANGED <<entries, projects, lock, pc, req, target, local, picks, answer>>
-----------------------------------------------------------------------------
\* The steps of a handler that wait for nobody.
Work(h) ==
  \/ FindNamespace(h)
  \/ PickExhausted(h) \/ Pick(h) \/ CommitAllocation(h)
  \/ RevokeEntry(h) \/ RevokeAllocation(h) \/ ReadRevoked(h)
  \/ UpdateNamespace(h) \/ RecalculateCursor(h)
  \/ Respond(h)

\* The steps that wait for a row lock, or for the end of such a wait.
Wait(h) == LockNamespace(h) \/ QueueForProject(h) \/ EnsureProject(h) \/ DeadlockVictim(h)

Next ==
  \/ \E h \in Handlers : Submit(h) \/ Wait(h) \/ Work(h) \/ Abort(h)
  \/ \E n \in Namespaces : CreateNamespace(n)

Spec == Init /\ [][Next]_vars

(***************************************************************************)
(* A goroutine that can run does, and InnoDB grants a row lock to the      *)
(* transactions queued for it in turn and rolls back one that deadlocks.   *)
(***************************************************************************)
FairSpec == Spec /\ \A h \in Handlers : WF_vars(Work(h)) /\ SF_vars(Wait(h))
=============================================================================
