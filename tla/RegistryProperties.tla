------------------------ MODULE RegistryProperties ------------------------
(***************************************************************************)
(* What is asked of Registry.                                              *)
(***************************************************************************)
EXTENDS Registry

\* Every variable has its type (the columns of 001_init.sql, and the Go
\* values of a request being served).
TypeOK ==
  /\ entries \in [Ids -> EntryRow \cup {Nil}]
  /\ namespace \in [Namespaces -> NamespaceRow \cup {Nil}]
  /\ projects \subseteq Projects
  /\ lock \in [Namespaces -> Handlers \cup {Free}]
  /\ pc \in [Handlers -> Active \cup {"idle", "done"}]
  /\ req \in [Handlers -> Requests \cup {NoRequest}]
  /\ target \in [Handlers -> Namespaces \cup {Nil}]
  /\ local \in [Handlers -> NamespaceRow \cup {Nil}]
  /\ picks \in [Handlers -> Seq(Int)]
  /\ answer \in [Handlers -> Answers \cup {Nil}]

-----------------------------------------------------------------------------
\* What a handler is asked matches where it is.
Control ==
  \A h \in Handlers :
    /\ pc[h] # "idle" => req[h] \in Requests
    /\ pc[h] \in {"project", "queue", "pick", "commit"} => req[h] \in AllocateRequest
    /\ pc[h] \in {"find", "revoke", "read"} => req[h] \in RevokeRequest
    /\ pc[h] = "update" => req[h] \in UpdateRequest
    /\ pc[h] \in InTx \cup {"lock"} => target[h] \in Namespaces
    /\ pc[h] \in InTx => local[h] \in NamespaceRow
    /\ picks[h] # <<>> => pc[h] \in Inserting

\* A transaction past LockNamespace holds the lock of its row, so no two are
\* in one namespace, and the copy of the row it works on is the stored row,
\* but for the cursor it has moved.
Locked ==
  \A h \in Handlers : pc[h] \in InTx =>
    /\ lock[target[h]] = h
    /\ namespace[target[h]] \in NamespaceRow
    /\ namespace[target[h]].min = local[h].min
    /\ namespace[target[h]].max = local[h].max
    /\ namespace[target[h]].status = local[h].status
    /\ req[h].op = "allocate" => local[h].status = "ACTIVE"

\* The allocation id of a request is its own until the batch is stored.
OwnAllocation ==
  \A h \in Handlers :
    req[h] # NoRequest /\ req[h].op = "allocate" =>
      /\ req[h].count > 1 => req[h].symbol = Nil
      /\ pc[h] # "done" => EntriesOf(req[h].alloc) = {}
      /\ \A g \in Handlers \ {h} :
           req[g] # NoRequest /\ req[g].op = "allocate" => req[g].alloc # req[h].alloc

\* The rows of a batch share a namespace, and it is the one that a revocation
\* which found them locks.
FoundRows ==
  /\ \A i, j \in Ids :
       Nil \notin {entries[i], entries[j]} /\ i[1] = j[1] => entries[i].ns = entries[j].ns
  /\ \A h \in Handlers :
       pc[h] \in {"lock", "revoke", "read"} /\ req[h] \in RevokeRequest =>
         Named(h) # {} /\ \A i \in Named(h) : entries[i].ns = target[h]

\* What a transaction has inserted and not committed can become live rows.
PicksFree ==
  \A h \in Handlers : pc[h] \in Inserting =>
    /\ Inserted(h) \cap LiveValues(target[h]) = {}
    /\ \A j, k \in DOMAIN picks[h] : j # k => picks[h][j] # picks[h][k]
    /\ Len(picks[h]) <= req[h].count
    /\ pc[h] = "pick" => Len(picks[h]) < req[h].count
    /\ picks[h] # <<>> => req[h].symbol \notin LiveSymbols(target[h])

\* They lie in a range of the project, or within the bounds outside of all.
PicksPermitted ==
  \A h \in Handlers : pc[h] \in Inserting =>
    \A v \in Inserted(h) :
      \/ globalRangeContains(OwnRanges(h), v)
      \/ WithinMax(local[h], v) /\ ~globalRangeContains(Ranges[target[h]], v)

-----------------------------------------------------------------------------
\* No value and no symbol of a namespace belongs to two live entries, over
\* any number of allocations, revocations and reuses of the value.
LiveUnique ==
  \A n \in Namespaces : \A i, j \in LiveRows(n) :
    i # j =>
      /\ entries[i].value # entries[j].value
      /\ entries[i].symbol # Nil => entries[i].symbol # entries[j].symbol

\* The unique indexes are a last resort: the row lock and the choice of the
\* candidate never send them a value twice, so an allocation without a
\* symbol is never answered "value or symbol already registered".
NoValueConflict ==
  \A h \in Handlers :
    pc[h] = "done" /\ req[h].op = "allocate" /\ answer[h] = "conflict" => req[h].symbol # Nil

\* RevokeEntry and RevokeAllocation read the rows again after the commit,
\* without a lock.  Whatever ran in between, they can only report REVOKED.
RereadIsRevoked ==
  \A h \in Handlers :
    pc[h] = "read" =>
      Named(h) # {} /\ \A i \in Named(h) : entries[i].status = "REVOKED"

\* The inductive invariant that RegistryProofs proves.
Inv ==
  /\ TypeOK /\ Control /\ Locked /\ OwnAllocation /\ FoundRows
  /\ PicksFree /\ PicksPermitted
  /\ LiveUnique /\ NoValueConflict /\ RereadIsRevoked

\* The answer of an allocation agrees with the table, whatever else happened
\* since: the whole batch is stored after "ok", none of it after a refusal,
\* and all or none of it after an error.
AnswerMatchesTable ==
  \A h \in Handlers :
    pc[h] = "done" /\ req[h].op = "allocate" =>
      LET stored == EntriesOf(req[h].alloc)
          whole  == {<<req[h].alloc, k>> : k \in 1..req[h].count}
      IN  CASE answer[h] = "ok"    -> stored = whole
            [] answer[h] = "error" -> stored \in {{}, whole}
            [] OTHER               -> stored = {}

\* A released value that a project-less allocation could get within the
\* bounds of its namespace is never below the cursor, from where the search
\* for one starts.
NothingStranded ==
  \A n \in Namespaces :
    namespace[n] # Nil =>
      LET lowest == namespace[n].min
      IN  \A v \in EverValues(n) \ LiveValues(n) :
            /\ lowest = Nil \/ lowest <= v
            /\ WithinMax(namespace[n], v)
            /\ ~globalRangeContains(Ranges[n], v)
            => namespace[n].next <= v

\* The names in table projects are those of the entries (and those stored at
\* the start): a rolled back allocation registers none, a committed one
\* registers its project under the spelling its rows carry.
ProjectsMatchEntries ==
  LET named == {entries[i].project : i \in {j \in Ids : entries[j] # Nil}} \ {Nil}
  IN  projects \ StoredProjects \subseteq named /\ named \subseteq projects

\* Concurrent allocations for a new project in different namespaces do not
\* register two spellings of it.
OneSpelling == \A a, b \in projects : Key(a) = Key(b) => a = b

\* A REVOKED row is history: no later step changes or deletes it, and no
\* step deletes any row.
HistoryIsKept ==
  [][\A i \in Ids :
       entries[i] # Nil =>
         /\ entries'[i] # Nil
         /\ entries[i].status = "REVOKED" => entries'[i] = entries[i]]_vars

\* A row is revoked by a request that names it, also when its value was
\* released before and the request repeats that earlier revocation.
OnlyNamedRevoked ==
  [][\A i \in Ids :
       entries[i] # Nil /\ entries'[i] # entries[i] =>
         \E h \in Handlers : pc[h] = "revoke" /\ i \in Named(h)]_vars

\* Handler h is about to be told that its namespace is exhausted.
ToldExhausted(h) == answer[h] # "exhausted" /\ answer'[h] = "exhausted"

\* An allocation is not refused as exhausted while a released value inside
\* the bounds of the namespace and outside its reserved ranges is free.
ReleasedIsReused ==
  [][\A h \in Handlers :
       ToldExhausted(h) =>
         \A v \in EverSeenBy(h) \ LiveSeenBy(h) :
           \/ local[h].min # Nil /\ v < local[h].min
           \/ ~WithinMax(local[h], v)
           \/ globalRangeContains(Ranges[target[h]], v)]_vars

\* In a namespace that keeps its bounds and reserves nothing, an allocation
\* is refused as exhausted only when every value from the first is taken.
ExhaustedOnlyWhenFull ==
  [][\A h \in Handlers :
       ToldExhausted(h) =>
         \A v \in Values :
           StoredNamespaces[target[h]].next <= v /\ v <= local[h].max => v \in LiveSeenBy(h)]_vars

\* The registry does what TypeRegistry promises; cursors and minima are not
\* part of the promise.
Limits ==
  [n \in Namespaces |->
     IF namespace[n] = Nil THEN Nil
     ELSE [max |-> namespace[n].max, status |-> namespace[n].status]]
Promise == INSTANCE TypeRegistry WITH limits <- Limits
KeepsPromise == Promise!Spec

\* Every request is answered, whatever the others wait for: row locks and new
\* project names are taken in one order, and where two wait for a name whose
\* transaction is rolled back, one of them is answered with an error.
AllAnswered == \A h \in Handlers : pc[h] # "idle" ~> pc[h] = "idle"
=============================================================================
