--------------------------- MODULE RegistryTables ---------------------------
(***************************************************************************)
(* The answers of the registry, the names of projects and the cursors of   *)
(* namespaces agree with the entries, for every value of the constants of  *)
(* Registry.                                                               *)
(***************************************************************************)
EXTENDS RegistryProofs

\* The batch of handler g, once it is stored as a whole.
Whole(g) == {<<req[g].alloc, k>> : k \in 1..req[g].count}

\* The answer of handler g fits what is stored under its allocation id.
Matches(g) ==
  LET stored == EntriesOf(req[g].alloc)
  IN  /\ answer[g] = "ok" => stored = Whole(g)
      /\ answer[g] = "error" => stored \in {{}, Whole(g)}
      /\ answer[g] \notin {"ok", "error"} => stored = {}

\* A batch that is about to be stored is complete, and only a request to
\* recalculate comes to where the cursor is.
Complete ==
  \A g \in Handlers :
    /\ pc[g] = "commit" => Len(picks[g]) = req[g].count
    /\ pc[g] = "recalculate" => req[g].op = "recalculate"

Answered ==
  /\ Complete
  /\ \A g \in Handlers : pc[g] = "done" /\ req[g].op = "allocate" => Matches(g)

LEMMA AnsweredMatches == Answered => AnswerMatchesTable
<1> SUFFICES ASSUME Answered, NEW h \in Handlers, pc[h] = "done", req[h].op = "allocate"
             PROVE  LET stored == EntriesOf(req[h].alloc)
                        whole  == {<<req[h].alloc, k>> : k \in 1..req[h].count}
                    IN  CASE answer[h] = "ok"    -> stored = whole
                          [] answer[h] = "error" -> stored \in {{}, whole}
                          [] OTHER               -> stored = {}
  BY DEF AnswerMatchesTable
<1>1. Matches(h)
  BY DEF Answered
<1> QED
  BY <1>1 DEF Matches, Whole

-----------------------------------------------------------------------------
LEMMA CompleteStep == Inv /\ Complete /\ [Next]_vars => Complete'
<1> SUFFICES ASSUME Inv, Complete, [Next]_vars, NEW g \in Handlers
             PROVE  /\ pc'[g] = "commit" => Len(picks'[g]) = req'[g].count
                    /\ pc'[g] = "recalculate" => req'[g].op = "recalculate"
  BY DEF Complete
<1>0. TypeOK /\ Control
  BY DEF Inv
<1>u. CASE UNCHANGED vars \/ \E n \in Namespaces : CreateNamespace(n)
  BY <1>u DEF vars, CreateNamespace, Complete
<1>1. CASE \E h \in Handlers \ {g} : HandlerStep(h)
  BY <1>0, <1>1, QuietStep DEF Quiet, Complete
<1>2. CASE LockNamespace(g)
  <2>1. CASE pc'[g] = "done"
    BY <2>1
  <2>2. CASE pc'[g] # "done"
    <3>1. pc'[g] = AfterLock(req[g]) /\ req' = req /\ pc[g] = "lock" /\ req[g] \in Requests
      BY <1>0, <1>2, <2>2 DEF LockNamespace, Refuse, Finish, Goto, TypeOK, Control
    <3>2. /\ AfterLock(req[g]) # "commit"
          /\ AfterLock(req[g]) = "recalculate" => req[g].op = "recalculate"
      BY <3>1, RequestKinds DEF AfterLock
    <3> QED
      BY <3>1, <3>2
  <2> QED
    BY <2>1, <2>2
<1>3. CASE Pick(g)
  <2>1. CASE pc'[g] = "done"
    BY <2>1
  <2>2. CASE pc'[g] # "done"
    <3>1. PICK v \in Values, fromReserved \in BOOLEAN : PickInsert(g, v, fromReserved)
      BY <1>0, <1>3, <2>2 DEF Pick, PickConflict, Refuse, Finish, Goto, TypeOK
    <3>2. /\ picks[g] \in Seq(Int) /\ v \in Int /\ req[g].count \in Nat
          /\ Len(picks[g]) < req[g].count
      BY <1>0, <1>3, CandidatesAssumption
      DEF Pick, Control, TypeOK, AllocateRequest, Inv, PicksFree, Inserting
    <3>3. /\ picks'[g] = Append(picks[g], v) /\ req' = req
          /\ pc'[g] = IF Len(picks[g]) + 1 < req[g].count THEN "pick" ELSE "commit"
      BY <1>0, <3>1 DEF PickInsert, Goto, TypeOK
    <3>4. Len(picks'[g]) = Len(picks[g]) + 1 /\ Len(picks[g]) \in Nat
      BY <3>2, <3>3
    <3> QED
      BY <3>2, <3>3, <3>4
  <2> QED
    BY <2>1, <2>2
<1>4. CASE HandlerStep(g) /\ ~LockNamespace(g) /\ ~Pick(g)
  <2>1. pc'[g] \notin {"commit", "recalculate"}
    BY <1>0, <1>4
    DEF HandlerStep, Wait, Work, QueueForProject, DeadlockVictim, Submit, FindNamespace, EnsureProject,
        PickExhausted, CommitAllocation, RevokeEntry, RevokeAllocation, Revoke, Release, ReadRevoked,
        UpdateNamespace, RecalculateCursor, Respond, Abort, Refuse, Committed, Finish, Goto, TypeOK
  <2> QED
    BY <2>1
<1> QED
  BY <1>u, <1>1, <1>2, <1>3, <1>4 DEF Next, HandlerStep

\* The rows under the allocation id of g, seen from the steps of others.
LEMMA OwnRowsKept ==
  ASSUME Inv, NEW g \in Handlers, Allocating(g), NEW h \in Handlers \ {g}, HandlerStep(h)
  PROVE  EntriesOf(req[g].alloc)' = EntriesOf(req[g].alloc) \/ req'[g].alloc # req[g].alloc
<1> SUFFICES ASSUME req'[g].alloc = req[g].alloc, NEW i \in Ids, i[1] = req[g].alloc
             PROVE  entries'[i] = Nil <=> entries[i] = Nil
  BY DEF EntriesOf
<1>1. ~Stored(h, i)
  <2>1. SUFFICES ASSUME Stored(h, i) PROVE FALSE
    OBVIOUS
  <2>2. Allocating(h)
    BY <2>1, RequestKinds, Distinct DEF Stored, Inv, Control, Allocating, Requests
  <2> QED
    BY <2>1, <2>2 DEF Stored, Inv, OwnAllocation, Allocating
<1> QED
  BY <1>1, RowKept, RowStep, RevokedRow

\* The commit stores what was asked for, under its own id.
LEMMA CommitStoresWhole ==
  ASSUME Inv, Complete, NEW g \in Handlers, CommitAllocation(g)
  PROVE  EntriesOf(req[g].alloc)' = Whole(g)' /\ req' = req /\ answer'[g] \in {"ok", "error"}
<1>0. TypeOK /\ Control
  BY DEF Inv
<1>1. req' = req /\ answer'[g] \in {"ok", "error"} /\ pc[g] = "commit"
  BY <1>0 DEF CommitAllocation, Committed, Finish, TypeOK
<1>2. /\ req[g] \in AllocateRequest /\ req[g] \in Requests /\ req[g] # NoRequest
      /\ picks[g] \in Seq(Int) /\ DOMAIN picks[g] = 1..req[g].count
  BY <1>0, <1>1, Distinct DEF Control, TypeOK, Complete, Requests
<1>3. \A k \in 1..req[g].count : <<req[g].alloc, k>> \in Ids
  BY <1>2, RegistryAssumption DEF AllocateRequest, Ids
<1>4. EntriesOf(req[g].alloc) = {}
  BY <1>1, <1>2, RequestKinds DEF AllocateRequest, Inv, OwnAllocation
<1>5. ASSUME NEW i \in Ids, i[1] = req[g].alloc PROVE entries'[i] # Nil <=> i[2] \in 1..req[g].count
  <2>1. entries[i] = Nil
    BY <1>4, <1>5 DEF EntriesOf
  <2>2. entries'[i] = IF i[2] \in 1..req[g].count THEN NewRow(g, picks[g][i[2]]) ELSE Nil
    BY <1>2, <1>5, <2>1 DEF CommitAllocation, Granted
  <2> QED
    BY <1>1, <1>2, <2>2, NewRowType
<1>6. \A i \in Ids : i = <<i[1], i[2]>> /\ i[2] \in 1..MaxCount
  BY DEF Ids
<1> QED
  BY <1>1, <1>3, <1>5, <1>6 DEF EntriesOf, Whole

LEMMA AnsweredStep == Inv /\ Answered /\ [Next]_vars => Answered'
<1> SUFFICES ASSUME Inv, Answered, [Next]_vars,
                    NEW g \in Handlers, pc'[g] = "done", req'[g].op = "allocate"
             PROVE  Matches(g)'
  BY CompleteStep DEF Answered
<1>0. TypeOK /\ Control /\ TypeOK' /\ Control' /\ Complete
  BY TypeStep DEF Inv, Answered
<1>1. req'[g] \in Requests /\ req'[g] \in AllocateRequest /\ Allocating(g)'
  BY <1>0, RequestKinds, Distinct DEF Control, Allocating
<1>u. CASE UNCHANGED vars \/ \E n \in Namespaces : CreateNamespace(n)
  <2>1. UNCHANGED <<entries, pc, req, answer>>
    BY <1>u DEF vars, CreateNamespace
  <2> QED
    BY <2>1 DEF Answered, Matches, Whole, EntriesOf
<1>2. ASSUME NEW h \in Handlers \ {g}, HandlerStep(h) PROVE Matches(g)'
  <2>1. pc'[g] = pc[g] /\ req'[g] = req[g] /\ answer'[g] = answer[g]
    BY <1>0, <1>2, QuietStep DEF Quiet
  <2>2. EntriesOf(req[g].alloc)' = EntriesOf(req[g].alloc) /\ Allocating(g)
    BY <1>1, <1>2, <2>1, OwnRowsKept DEF Allocating
  <2>3. Matches(g)
    BY <2>1 DEF Answered
  <2> QED
    BY <2>1, <2>2, <2>3 DEF Matches, Whole, EntriesOf
<1>3. CASE CommitAllocation(g)
  BY <1>0, <1>3, CommitStoresWhole DEF Matches
<1>4. CASE HandlerStep(g) /\ ~CommitAllocation(g)
  <2>1. Allocating(g) /\ req'[g].alloc = req[g].alloc
    <3>1. ~Submit(g)
      BY <1>0 DEF Submit, Goto, TypeOK
    <3> QED
      BY <1>1, <1>4, <3>1, RequestStep
  <2>2. req[g] \in Requests /\ req[g] \notin RevokeRequest \cup UpdateRequest /\ req[g].op # "recalculate"
    BY <1>0, <2>1, RequestKinds DEF Allocating, TypeOK, RevokeRequest, UpdateRequest
  <2>3. /\ pc[g] # "done" /\ UNCHANGED entries /\ answer'[g] # "ok"
    BY <1>0, <1>4, <2>2
    DEF HandlerStep, Wait, Work, QueueForProject, DeadlockVictim, Deadlocked, Submit, FindNamespace,
        LockNamespace,
        AfterLock, EnsureProject, Pick, PickExhausted, PickConflict, PickInsert, RevokeEntry,
        RevokeAllocation, ReadRevoked, UpdateNamespace, RecalculateCursor, Abort, Respond, Refuse, Finish,
        Goto, TypeOK, Control, Complete, Active
  <2>4. EntriesOf(req[g].alloc) = {}
    BY <2>1, <2>3 DEF Inv, OwnAllocation, Allocating
  <2>5. EntriesOf(req[g].alloc)' = {}
    BY <2>1, <2>3, <2>4 DEF EntriesOf
  <2> QED
    BY <2>3, <2>5 DEF Matches
<1> QED
  BY <1>u, <1>2, <1>3, <1>4 DEF Next, HandlerStep

\* AllocateBatch and its caller: after "ok" the whole batch is stored, after a
\* refusal none of it, and after an error all or none, whatever others did.
THEOREM AnswersMatch == Spec => []AnswerMatchesTable
<1>1. Init => Answered
  BY DEF Init, Answered, Complete
<1>2. Inv /\ Answered /\ [Next]_vars => Answered'
  BY AnsweredStep
<1> QED
  BY <1>1, <1>2, AnsweredMatches, Invariance, PTL DEF Spec

-----------------------------------------------------------------------------
\* The names that entries carry.
NamesIn(es) == {es[i].project : i \in {j \in Ids : es[j] # Nil}} \ {Nil}

LEMMA ProjectsStep == Inv /\ Complete /\ ProjectsMatchEntries /\ [Next]_vars => ProjectsMatchEntries'
<1> SUFFICES ASSUME Inv, Complete, ProjectsMatchEntries, [Next]_vars
             PROVE  /\ projects' \ StoredProjects \subseteq NamesIn(entries')
                    /\ NamesIn(entries') \subseteq projects'
  BY DEF ProjectsMatchEntries, NamesIn
<1>0. /\ TypeOK /\ Control
      /\ projects \ StoredProjects \subseteq NamesIn(entries) /\ NamesIn(entries) \subseteq projects
  BY DEF Inv, ProjectsMatchEntries, NamesIn
<1>u. CASE UNCHANGED vars \/ \E n \in Namespaces : CreateNamespace(n)
  <2>1. UNCHANGED <<entries, projects>>
    BY <1>u DEF vars, CreateNamespace
  <2> QED
    BY <1>0, <2>1
<1>1. ASSUME NEW h \in Handlers, CommitAllocation(h)
      PROVE  /\ projects' \ StoredProjects \subseteq NamesIn(entries')
             /\ NamesIn(entries') \subseteq projects'
  <2>1. pc[h] = "commit" /\ req[h] \in AllocateRequest /\ projects' = projects \cup ({req[h].project} \ {Nil})
    BY <1>0, <1>1 DEF CommitAllocation, Control
  <2>2. EntriesOf(req[h].alloc)' = Whole(h)'
    BY <1>0, <1>1, CommitStoresWhole
  <2>3. ASSUME NEW i \in Ids
        PROVE  \/ entries'[i] = entries[i]
               \/ entries[i] = Nil /\ entries'[i] # Nil /\ entries'[i].project = req[h].project
    <3>1. CASE entries'[i] # entries[i]
      <4>1. Stored(h, i)
        BY <1>1, <2>1, <3>1, RowStep DEF HandlerStep, Work, Revoked
      <4> QED
        BY <4>1, StoredRow DEF Stored, NewRow
    <3> QED
      BY <3>1
  <2>4. PICK i \in Ids : i = <<req[h].alloc, 1>> /\ entries'[i] # Nil
    <3>1. <<req[h].alloc, 1>> \in Whole(h)'
      <4>1. req' = req /\ req[h].count \in Nat /\ 1 \in 1..req[h].count
        BY <1>0, <1>1, <2>1, CommitStoresWhole, RegistryAssumption DEF AllocateRequest
      <4> QED
        BY <4>1 DEF Whole
    <3> QED
      BY <2>2, <3>1 DEF EntriesOf
  <2>5. entries'[i].project = req[h].project
    <3>1. req[h] \in Requests /\ Allocating(h)
      BY <2>1, RequestKinds, Distinct DEF Requests, Allocating, AllocateRequest
    <3>2. EntriesOf(req[h].alloc) = {}
      BY <2>1, <3>1 DEF Inv, OwnAllocation, Allocating
    <3>3. entries[i] = Nil
      BY <2>4, <3>2 DEF EntriesOf
    <3> QED
      BY <2>3, <2>4, <3>3
  <2>6. NamesIn(entries') = NamesIn(entries) \cup ({req[h].project} \ {Nil})
    BY <2>3, <2>4, <2>5 DEF NamesIn
  <2> QED
    BY <1>0, <2>1, <2>6
<1>2. ASSUME NEW h \in Handlers, HandlerStep(h), ~CommitAllocation(h)
      PROVE  projects' = projects /\ NamesIn(entries') = NamesIn(entries)
  <2>1. projects' = projects
    BY <1>2
    DEF HandlerStep, Wait, Work, QueueForProject, DeadlockVictim, Submit, FindNamespace, LockNamespace,
        EnsureProject, Pick, PickExhausted, PickConflict, PickInsert, RevokeEntry, RevokeAllocation,
        Revoke, Release, ReadRevoked, UpdateNamespace, RecalculateCursor, Abort, Respond, Refuse
  <2>2. ASSUME NEW i \in Ids
        PROVE  (entries'[i] = Nil <=> entries[i] = Nil) /\ entries'[i].project = entries[i].project
    <3>1. CASE entries'[i] # entries[i]
      <4>1. ~Stored(h, i)
        BY <1>0, <1>2, <3>1
        DEF Stored, HandlerStep, Wait, Work, QueueForProject, DeadlockVictim, Submit, FindNamespace,
            LockNamespace, EnsureProject, Pick, PickExhausted, PickConflict, PickInsert, RevokeEntry,
            RevokeAllocation, ReadRevoked, UpdateNamespace, RecalculateCursor, Abort, Respond, Refuse
      <4>2. Revoked(h, i)
        BY <1>2, <3>1, <4>1, RowStep
      <4> QED
        BY <4>2, RevokedRow DEF Revoked, EntryRow
    <3> QED
      BY <3>1
  <2> QED
    BY <2>1, <2>2 DEF NamesIn
<1> QED
  BY <1>0, <1>u, <1>1, <1>2 DEF Next, HandlerStep

\* ensureProject in the transaction of the allocation: if the names of the
\* database are those of its entries, they stay so; a rolled back allocation
\* registers none, and a committed one the spelling its rows carry.
THEOREM ProjectsMatch == Spec /\ ProjectsMatchEntries => []ProjectsMatchEntries
<1>1. Init => Complete
  BY DEF Init, Complete
<1>2. Inv /\ Complete /\ [Next]_vars => Complete'
  BY CompleteStep
<1>3. Inv /\ Complete /\ ProjectsMatchEntries /\ [Next]_vars => ProjectsMatchEntries'
  BY ProjectsStep
<1> QED
  BY <1>1, <1>2, <1>3, Invariance, PTL DEF Spec

-----------------------------------------------------------------------------
\* Two spellings are of one name.
Same(a, b) == Key(a) = Key(b)

\* Handler h has a transaction open that inserts rows for a project.
Registering(h) == pc[h] \in Inserting /\ req[h].project # Nil

\* The names registered, and those in open transactions, are spelled alike.
Spelling ==
  /\ OneSpelling
  /\ \A h \in Handlers : Registering(h) =>
       /\ \A q \in projects : Same(q, req[h].project) => q = req[h].project
       /\ \A g \in Handlers : Registering(g) /\ Same(req[g].project, req[h].project) =>
            req[g].project = req[h].project

\* EnsureProject finds the registered spelling, or the name in no other hands.
LEMMA EnsuredSpelling ==
  ASSUME Inv, Spelling, NEW h \in Handlers, EnsureProject(h)
  PROVE  /\ \A q \in projects : Same(q, req'[h].project) => q = req'[h].project
         /\ \A g \in Handlers \ {h} : Registering(g) /\ Same(req[g].project, req'[h].project) =>
              req[g].project = req'[h].project
<1>0. TypeOK /\ Control
  BY DEF Inv
<1>1. PICK p \in Projects :
        /\ Key(p) = Key(req[h].project)
        /\ IF \E q \in projects : Key(q) = Key(p) THEN p \in projects ELSE p = req[h].project
        /\ req' = [req EXCEPT ![h].project = p]
  BY DEF EnsureProject, Registered
<1>2. req'[h].project = p
  <2>1. req[h] \in AllocateRequest /\ req'[h] = [req[h] EXCEPT !.project = p]
    BY <1>0, <1>1 DEF EnsureProject, Control, TypeOK
  <2> QED
    BY <2>1 DEF AllocateRequest
<1>3. \A q \in projects : Same(q, p) => q = p
  BY <1>1 DEF Same, Spelling, OneSpelling
<1>4. ASSUME NEW g \in Handlers \ {h}, Registering(g), Same(req[g].project, p)
      PROVE  req[g].project = p
  <2>1. req[g].project \in projects
    BY <1>1, <1>4 DEF EnsureProject, ProjectInFlight, SameName, Same, Registering
  <2> QED
    BY <1>3, <1>4, <2>1
<1> QED
  BY <1>2, <1>3, <1>4

LEMMA SpellingStep == Inv /\ Spelling /\ [Next]_vars => Spelling'
<1> SUFFICES ASSUME Inv, Spelling, [Next]_vars PROVE Spelling'
  OBVIOUS
<1>0. TypeOK /\ Control
  BY DEF Inv
<1>u. CASE UNCHANGED vars \/ \E n \in Namespaces : CreateNamespace(n)
  <2>1. UNCHANGED <<pc, req, projects>>
    BY <1>u DEF vars, CreateNamespace
  <2> QED
    BY <2>1 DEF Spelling, OneSpelling, Registering
<1>1. ASSUME NEW h \in Handlers, HandlerStep(h) PROVE Spelling'
  <2>q. \A g \in Handlers \ {h} : pc'[g] = pc[g] /\ req'[g] = req[g]
    BY <1>0, <1>1, QuietStep DEF Quiet
  <2>1. CASE EnsureProject(h)
    <3>1. projects' = projects
      BY <2>1 DEF EnsureProject
    <3> QED
      BY <2>q, <2>1, <3>1, EnsuredSpelling DEF Spelling, OneSpelling, Registering, Same
  <2>2. CASE CommitAllocation(h)
    <3>1. /\ projects' = projects \cup ({req[h].project} \ {Nil}) /\ req' = req
          /\ pc[h] = "commit" /\ pc'[h] = "done"
      BY <1>0, <2>2 DEF CommitAllocation, Committed, Finish, Goto, TypeOK
    <3>2. req[h].project # Nil => Registering(h)
      BY <3>1 DEF Registering, Inserting
    <3>3. \A g \in Handlers : Registering(g)' => Registering(g) /\ g # h
      BY <2>q, <3>1 DEF Registering, Inserting
    <3> QED
      BY <3>1, <3>2, <3>3 DEF Spelling, OneSpelling, Same
  <2>3. CASE ~EnsureProject(h) /\ ~CommitAllocation(h)
    <3>1. projects' = projects
      BY <1>1, <2>3
      DEF HandlerStep, Wait, Work, QueueForProject, DeadlockVictim, Submit, FindNamespace, LockNamespace,
          Pick, PickExhausted, PickConflict, PickInsert, RevokeEntry, RevokeAllocation, Revoke, Release,
          ReadRevoked, UpdateNamespace, RecalculateCursor, Abort, Respond, Refuse
    <3>2. CASE LockNamespace(h)
      <4>1. Registering(h)' => FALSE
        <5>1. SUFFICES ASSUME Registering(h)' PROVE FALSE
          OBVIOUS
        <5>2. pc'[h] = AfterLock(req[h]) /\ req' = req /\ req[h] \in Requests
          BY <1>0, <3>2, <5>1
          DEF LockNamespace, Refuse, Finish, Goto, TypeOK, Control, Registering, Inserting
        <5> QED
          BY <5>1, <5>2, RequestKinds DEF AfterLock, Registering, Inserting
      <4> QED
        BY <2>q, <3>1, <4>1 DEF Spelling, OneSpelling, Registering
    <3>3. CASE Pick(h)
      <4>1. pc[h] = "pick" /\ req' = req
        BY <3>3 DEF Pick, PickConflict, PickInsert, Refuse, Finish
      <4> QED
        BY <2>q, <3>1, <4>1 DEF Spelling, OneSpelling, Registering, Inserting
    <3>4. CASE ~LockNamespace(h) /\ ~Pick(h)
      <4>1. pc'[h] \notin Inserting
        BY <1>0, <1>1, <2>3, <3>4
        DEF HandlerStep, Wait, Work, QueueForProject, DeadlockVictim, Submit, FindNamespace,
            PickExhausted, RevokeEntry, RevokeAllocation, Revoke, Release, ReadRevoked, UpdateNamespace,
            RecalculateCursor, Respond, Abort, Refuse, Committed, Finish, Goto, TypeOK, Inserting
      <4> QED
        BY <2>q, <3>1, <4>1 DEF Spelling, OneSpelling, Registering
    <3> QED
      BY <3>2, <3>3, <3>4
  <2> QED
    BY <2>1, <2>2, <2>3
<1> QED
  BY <1>u, <1>1 DEF Next, HandlerStep

\* ensureProject: INSERT IGNORE waits for the same name in another open
\* transaction, so concurrent requests in any namespaces register one spelling.
THEOREM SpelledAlike == Spec /\ OneSpelling => []OneSpelling
<1>1. Init /\ OneSpelling => Spelling
  BY DEF Init, Spelling, Registering, Inserting
<1>2. Inv /\ Spelling /\ [Next]_vars => Spelling'
  BY SpellingStep
<1>3. Spelling => OneSpelling
  BY DEF Spelling
<1> QED
  BY <1>1, <1>2, <1>3, Invariance, PTL DEF Spec

-----------------------------------------------------------------------------
(***************************************************************************)
(* The cursor.  Values below it are not searched, so a released one must   *)
(* not fall behind.  It does where a project allocates from a range of its *)
(* own, where the bounds change, and where a restart starts from 1 over    *)
(* lower values; a registry is plain if it has none of these.              *)
(***************************************************************************)
BoundsStay == \A r \in Workload : r.op # "update"

Plain ==
  /\ \A n \in Namespaces : \A r \in Ranges[n] : r.project = Nil
  /\ BoundsStay
  /\ \A v \in Values : 1 <= v
  /\ \A i \in Ids : StoredEntries[i] # Nil =>
       StoredEntries[i].value \in Values /\ StoredNamespaces[StoredEntries[i].ns] # Nil

\* Value v may be given to anybody, by the bounds of row ns of namespace n.
InReach(n, ns, v) ==
  /\ ns.min = Nil \/ ns.min <= v
  /\ WithinMax(ns, v)
  /\ ~globalRangeContains(Ranges[n], v)

NoUpdates == \A h \in Handlers : req[h] # NoRequest => req[h].op # "update"

\* Entries have values that can be handed out, in namespaces that exist.
ProperRows ==
  /\ \A i \in Ids : entries[i] # Nil => entries[i].value \in Values /\ namespace[entries[i].ns] # Nil
  /\ \A h \in Handlers : Inserted(h) \subseteq Values

\* What a transaction does not hand out again is not behind its copy of the
\* cursor.
Ahead(h) ==
  \A v \in EverSeenBy(h) \ LiveSeenBy(h) : InReach(target[h], local[h], v) => local[h].next <= v

Reachable ==
  /\ NoUpdates /\ ProperRows /\ NothingStranded
  /\ \A h \in Handlers : pc[h] \in InTx => Ahead(h)

LEMMA StrandedIs ==
  NothingStranded <=>
    \A n \in Namespaces : namespace[n] # Nil =>
      \A v \in EverValues(n) \ LiveValues(n) : InReach(n, namespace[n], v) => namespace[n].next <= v
BY DEF NothingStranded, InReach

LEMMA NoUpdatesStep == BoundsStay /\ Inv /\ NoUpdates /\ [Next]_vars => NoUpdates'
<1> SUFFICES ASSUME BoundsStay, Inv, NoUpdates, [Next]_vars, NEW g \in Handlers, req'[g] # NoRequest
             PROVE  req'[g].op # "update"
  BY DEF NoUpdates
<1>0. TypeOK /\ Control
  BY DEF Inv
<1>1. CASE req'[g] = req[g]
  BY <1>1 DEF NoUpdates
<1>2. CASE Submit(g)
  BY <1>0, <1>2 DEF Submit, BoundsStay, TypeOK
<1>3. CASE EnsureProject(g)
  <2>1. PICK p \in Projects : req' = [req EXCEPT ![g].project = p]
    BY <1>3 DEF EnsureProject
  <2>2. req[g] \in AllocateRequest /\ req'[g] = [req[g] EXCEPT !.project = p]
    BY <1>0, <1>3, <2>1 DEF EnsureProject, Control, TypeOK
  <2> QED
    BY <2>2 DEF AllocateRequest
<1>4. CASE Respond(g)
  BY <1>0, <1>4 DEF Respond, TypeOK
<1>5. CASE UNCHANGED vars \/ \E n \in Namespaces : CreateNamespace(n)
  BY <1>1, <1>5 DEF vars, CreateNamespace
<1>6. CASE \E h \in Handlers \ {g} : HandlerStep(h)
  BY <1>0, <1>1, <1>6, QuietStep DEF Quiet
<1>7. CASE HandlerStep(g) /\ ~Submit(g) /\ ~EnsureProject(g) /\ ~Respond(g)
  <2>1. req' = req
    BY <1>7
    DEF HandlerStep, Wait, Work, QueueForProject, DeadlockVictim, FindNamespace, LockNamespace,
        PickExhausted, Pick, PickConflict, PickInsert, CommitAllocation, RevokeEntry, RevokeAllocation,
        Revoke, Release, ReadRevoked, UpdateNamespace, RecalculateCursor, Abort, Refuse, Committed, Finish
  <2> QED
    BY <1>1, <2>1
<1> QED
  BY <1>2, <1>3, <1>4, <1>5, <1>6, <1>7 DEF Next, HandlerStep

\* A namespace, once there, stays.
LEMMA NamespacesStay ==
  ASSUME Inv, NEW h \in Handlers, HandlerStep(h), NEW n \in Namespaces, namespace[n] # Nil
  PROVE  namespace'[n] # Nil
<1>0. TypeOK /\ Control /\ TypeOK'
  BY TypeStep DEF Inv, Next, HandlerStep
<1>1. namespace[n] \in NamespaceRow
  BY <1>0 DEF TypeOK
<1>2. \A c \in Int : [namespace[n] EXCEPT !.next = c] \in NamespaceRow
  BY <1>1 DEF NamespaceRow
<1>3. ASSUME NEW c \in Int, namespace' = [namespace EXCEPT ![target[h]].next = c]
      PROVE  namespace'[n] # Nil
  <2>1. namespace'[n] \in {namespace[n], [namespace[n] EXCEPT !.next = c]}
    BY <1>0, <1>3 DEF TypeOK
  <2> QED
    BY <1>1, <1>2, <2>1, Distinct
<1>4. CASE namespace' = namespace
  BY <1>4
<1>5. CASE CommitAllocation(h)
  <2>1. local[h] \in NamespaceRow
    BY <1>0, <1>5 DEF CommitAllocation, Control, InTx
  <2> QED
    BY <1>3, <1>5, <2>1 DEF CommitAllocation, NamespaceRow
<1>6. ASSUME NEW ids \in SUBSET Ids, Release(h, ids), pc[h] = "revoke", \A i \in ids : entries[i] # Nil
      PROVE  namespace'[n] # Nil
  <2>1. target[h] \in Namespaces /\ namespace[target[h]] \in NamespaceRow
    BY <1>0, <1>6 DEF Control, InTx, Inv, Locked
  <2>2. Cursors(target[h], ids) \subseteq Int
    BY <1>0, <1>6, <2>1 DEF Cursors, Released, TypeOK, NamespaceRow, EntryRow
  <2> QED
    BY <1>3, <1>6, <2>2 DEF Release, IsLeast
<1>7. CASE RevokeEntry(h) \/ RevokeAllocation(h)
  <2>1. req[h] \in RevokeRequest /\ req[h] \in Requests /\ pc[h] = "revoke"
    BY <1>0, <1>7 DEF Control, RevokeEntry, RevokeAllocation, Requests
  <2>2. PICK ids \in SUBSET Ids : Revoke(h, ids) /\ \A i \in ids : entries[i] # Nil
    BY <1>7, <2>1, RequestKinds DEF RevokeEntry, RevokeAllocation, EntriesOf
  <2> QED
    BY <1>4, <1>6, <2>1, <2>2 DEF Revoke, Refuse
<1>8. CASE UpdateNamespace(h)
  <2>1. CASE namespace' = namespace
    BY <2>1
  <2>2. CASE namespace' # namespace
    <3> DEFINE row == [next |-> RaisedCursor(local[h].next, req[h].bounds[1]),
                       min |-> req[h].bounds[1], max |-> req[h].bounds[2], status |-> req[h].status]
    <3>1. namespace' = [namespace EXCEPT ![target[h]] = row]
      BY <1>8, <2>2 DEF UpdateNamespace, Refuse
    <3>2. row \in NamespaceRow
      <4>1. req[h] \in UpdateRequest /\ local[h] \in NamespaceRow
        BY <1>0, <1>8 DEF UpdateNamespace, Control, InTx
      <4>2. req[h].bounds \in (Int \cup {Nil}) \X (Int \cup {Nil}) /\ req[h].status \in {"ACTIVE", "DEPRECATED"}
        BY <4>1, RegistryAssumption DEF UpdateRequest
      <4> QED
        BY <4>1, <4>2 DEF RaisedCursor, NamespaceRow
    <3>3. namespace'[n] \in {namespace[n], row}
      BY <1>0, <3>1 DEF TypeOK
    <3> QED
      BY <3>2, <3>3, Distinct
  <2> QED
    BY <2>1, <2>2
<1>9. CASE RecalculateCursor(h)
  <2>1. CASE namespace' = namespace
    BY <2>1
  <2>2. CASE namespace' # namespace
    <3>1. local[h] \in NamespaceRow
      BY <1>0, <1>9 DEF RecalculateCursor, Control, InTx
    <3>2. PICK c \in Values \cup (IF local[h].max = Nil THEN {} ELSE {local[h].max + 1}) :
            namespace' = [namespace EXCEPT ![target[h]].next = c]
      BY <1>9, <2>2 DEF RecalculateCursor, Refuse
    <3>3. c \in Int
      BY <3>1, <3>2, CandidatesAssumption DEF NamespaceRow
    <3> QED
      BY <1>3, <3>2, <3>3
  <2> QED
    BY <2>1, <2>2
<1> QED
  BY <1>4, <1>5, <1>7, <1>8, <1>9
  DEF HandlerStep, Wait, Work, QueueForProject, DeadlockVictim, Submit, FindNamespace, LockNamespace,
      EnsureProject, PickExhausted, Pick, PickConflict, PickInsert, ReadRevoked, Abort, Respond, Refuse

LEMMA ProperRowsStep == Inv /\ ProperRows /\ [Next]_vars => ProperRows'
<1> SUFFICES ASSUME Inv, ProperRows, [Next]_vars PROVE ProperRows'
  OBVIOUS
<1>0. TypeOK /\ Control
  BY DEF Inv
<1>u. CASE UNCHANGED vars
  BY <1>u DEF vars, ProperRows, Inserted
<1>n. CASE \E n \in Namespaces : CreateNamespace(n)
  <2>1. PICK n \in Namespaces, row \in NewRows : namespace' = [namespace EXCEPT ![n] = row]
    BY <1>n DEF CreateNamespace
  <2>2. row # Nil /\ \A m : namespace[m] # Nil => namespace'[m] # Nil
    BY <1>0, <2>1, Distinct, RegistryAssumption DEF TypeOK
  <2> QED
    BY <1>n, <2>2 DEF CreateNamespace, ProperRows, Inserted
<1>1. ASSUME NEW h \in Handlers, HandlerStep(h) PROVE ProperRows'
  <2>q. \A g \in Handlers \ {h} : picks'[g] = picks[g]
    BY <1>0, <1>1, QuietStep DEF Quiet
  <2>1. Inserted(h)' \subseteq Values
    <3>1. ASSUME NEW v \in Values, NEW fromReserved \in BOOLEAN, PickInsert(h, v, fromReserved)
          PROVE  Inserted(h)' \subseteq Values
      <4>1. picks'[h] = Append(picks[h], v) /\ picks[h] \in Seq(Int)
        BY <1>0, <3>1 DEF PickInsert, TypeOK
      <4> QED
        BY <4>1 DEF ProperRows, Inserted
    <3>2. CASE picks'[h] = picks[h] \/ picks'[h] = <<>>
      BY <3>2 DEF ProperRows, Inserted
    <3>3. CASE \A v \in Values, fromReserved \in BOOLEAN : ~PickInsert(h, v, fromReserved)
      BY <1>0, <1>1, <3>2, <3>3
      DEF HandlerStep, Wait, Work, QueueForProject, DeadlockVictim, Submit, FindNamespace, LockNamespace,
          EnsureProject, PickExhausted, Pick, PickConflict, CommitAllocation, RevokeEntry,
          RevokeAllocation, Revoke, Release, ReadRevoked, UpdateNamespace, RecalculateCursor, Respond,
          Abort, Refuse, Committed, Finish, EndTx, TypeOK
    <3> QED
      BY <3>1, <3>3
  <2>2. ASSUME NEW i \in Ids, entries'[i] # Nil
        PROVE  entries'[i].value \in Values /\ namespace'[entries'[i].ns] # Nil
    <3>1. CASE entries[i] # Nil
      <4>1. /\ entries'[i].ns = entries[i].ns /\ entries'[i].value = entries[i].value
            /\ entries[i].ns \in Namespaces
        BY <1>0, <1>1, <3>1, RowKept DEF TypeOK, EntryRow
      <4> QED
        BY <1>1, <3>1, <4>1, NamespacesStay DEF ProperRows
    <3>2. CASE entries[i] = Nil
      <4>1. Stored(h, i)
        BY <1>1, <2>2, <3>2, RowStep, RevokedRow
      <4>2. entries'[i].ns = target[h] /\ entries'[i].value \in Inserted(h)
        BY <4>1, StoredRow DEF Stored, Inserted
      <4>3. target[h] \in Namespaces /\ namespace[target[h]] # Nil
        BY <1>0, <4>1, Distinct DEF Stored, Control, InTx, Inv, Locked
      <4> QED
        BY <1>1, <4>2, <4>3, NamespacesStay DEF ProperRows
    <3> QED
      BY <3>1, <3>2
  <2> QED
    BY <2>q, <2>1, <2>2 DEF ProperRows, Inserted
<1> QED
  BY <1>u, <1>n, <1>1 DEF Next, HandlerStep

-----------------------------------------------------------------------------
\* A search that starts at or below a released value in reach finds one, and
\* none behind which that value would fall.
LEMMA SearchFinds ==
  ASSUME NEW n, NEW ns, NEW live, NEW ever, NEW start \in Int, NEW v \in (ever \ live) \cap Values,
         InReach(n, ns, v), start <= v, ns.min \in Int \cup {Nil}
  PROVE  /\ ~NamespaceExhausted(ns, Ranges[n], start, live, ever)
         /\ \A c : nextGlobalCandidate(c, ns, Ranges[n], start, live, ever) => c <= v
<1>1. Floor(ns, start) <= v
  BY CandidatesAssumption DEF Floor, InReach
<1>2. v \in Reusable(ns, Ranges[n], Floor(ns, start), live, ever)
  BY <1>1 DEF Reusable, InReach
<1> QED
  BY <1>2 DEF NamespaceExhausted, nextGlobalCandidate, IsLeast

\* Entries outside of the namespace that h works on, or in one it has not
\* locked, stay.
LEMMA EntriesElsewhere ==
  ASSUME Inv, NEW h \in Handlers, HandlerStep(h), NEW n \in Namespaces, n # target[h] \/ lock[n] # h
  PROVE  LiveValues(n)' = LiveValues(n) /\ EverValues(n)' = EverValues(n)
<1>1. ASSUME NEW i \in Ids, entries'[i] # entries[i]
      PROVE  entries'[i].ns # n /\ (entries[i] = Nil \/ entries[i].ns # n)
  BY <1>1, TablesStep DEF KeepsTables
<1>2. RowsOf(n)' = RowsOf(n) /\ \A i \in RowsOf(n) : entries'[i] = entries[i]
  BY <1>1 DEF RowsOf
<1>3. LiveRows(n)' = LiveRows(n) /\ \A i \in LiveRows(n) : entries'[i] = entries[i]
  BY <1>2 DEF LiveRows
<1> QED
  BY <1>2, <1>3 DEF LiveValues, EverValues

LEMMA EntriesUnchanged ==
  ASSUME UNCHANGED entries, NEW n PROVE LiveValues(n)' = LiveValues(n) /\ EverValues(n)' = EverValues(n)
BY DEF LiveValues, EverValues, LiveRows, RowsOf

\* A transaction sees the value it has just inserted.
LEMMA PickSeen ==
  ASSUME Inv, NEW g \in Handlers, NEW v \in Values, NEW fromReserved \in BOOLEAN,
         PickInsert(g, v, fromReserved)
  PROVE  LiveSeenBy(g)' = LiveSeenBy(g) \cup {v} /\ EverSeenBy(g)' = EverSeenBy(g) \cup {v}
<1>1. picks[g] \in Seq(Int) /\ picks'[g] = Append(picks[g], v) /\ UNCHANGED <<entries, target>>
  BY DEF Inv, TypeOK, PickInsert
<1>2. Inserted(g)' = Inserted(g) \cup {v}
  <2>1. /\ DOMAIN Append(picks[g], v) = DOMAIN picks[g] \cup {Len(picks[g]) + 1}
        /\ \A k \in DOMAIN picks[g] : Append(picks[g], v)[k] = picks[g][k]
        /\ Append(picks[g], v)[Len(picks[g]) + 1] = v
    BY <1>1
  <2> DEFINE s == Append(picks[g], v)
  <2>2. {s[k] : k \in DOMAIN picks[g] \cup {Len(picks[g]) + 1}} = {picks[g][k] : k \in DOMAIN picks[g]} \cup {v}
    <3> HIDE DEF s
    <3> QED
      BY <2>1, Zenon DEF s
  <2> QED
    BY <1>1, <2>1, <2>2 DEF Inserted
<1> QED
  BY <1>1, <1>2, EntriesUnchanged DEF LiveSeenBy, EverSeenBy

-----------------------------------------------------------------------------
LEMMA AheadStep == Plain /\ Inv /\ Reachable /\ [Next]_vars => \A g \in Handlers : pc'[g] \in InTx => Ahead(g)'
<1> SUFFICES ASSUME Plain, Inv, Reachable, [Next]_vars, NEW g \in Handlers, pc'[g] \in InTx
             PROVE  Ahead(g)'
  OBVIOUS
<1>0. TypeOK /\ Control /\ ProperRows /\ NothingStranded /\ (pc[g] \in InTx => Ahead(g))
  BY DEF Inv, Reachable
<1>u. CASE UNCHANGED vars \/ \E n \in Namespaces : CreateNamespace(n)
  <2>1. UNCHANGED <<entries, pc, target, local, picks>>
    BY <1>u DEF vars, CreateNamespace
  <2> QED
    BY <1>0, <2>1, EntriesUnchanged DEF Ahead, EverSeenBy, LiveSeenBy, Inserted
<1>1. ASSUME NEW h \in Handlers \ {g}, HandlerStep(h) PROVE Ahead(g)'
  <2>1. pc'[g] = pc[g] /\ target'[g] = target[g] /\ local'[g] = local[g] /\ picks'[g] = picks[g]
    BY <1>0, <1>1, QuietStep DEF Quiet
  <2>2. PICK n \in Namespaces : n = target[g] /\ n = target'[g] /\ lock[n] # h
    BY <1>0, <1>1, <2>1 DEF Inv, Locked, Control
  <2>3. LiveValues(n)' = LiveValues(n) /\ EverValues(n)' = EverValues(n)
    BY <1>1, <2>2, EntriesElsewhere
  <2> QED
    BY <1>0, <2>1, <2>2, <2>3 DEF Ahead, EverSeenBy, LiveSeenBy, Inserted
<1>2. CASE LockNamespace(g)
  <2>1. PICK n \in Namespaces : n = target[g] /\ namespace[n] # Nil
    BY <1>0, <1>2 DEF LockNamespace, Control, Refuse, Finish, Goto, TypeOK, InTx
  <2>2. local'[g] = namespace[n] /\ target'[g] = n /\ UNCHANGED <<entries, picks>>
    BY <1>0, <1>2, <2>1 DEF LockNamespace, Refuse, Finish, Goto, TypeOK, InTx
  <2>3. picks'[g] = <<>>
    BY <1>0, <1>2, <2>2 DEF LockNamespace, Control, Inserting
  <2>4. LiveValues(n)' = LiveValues(n) /\ EverValues(n)' = EverValues(n)
    BY <2>2, EntriesUnchanged
  <2> QED
    BY <1>0, <2>1, <2>2, <2>3, <2>4, StrandedIs DEF Ahead, EverSeenBy, LiveSeenBy, Inserted
<1>3. CASE QueueForProject(g) \/ EnsureProject(g)
  <2>1. UNCHANGED <<entries, target, local, picks>> /\ pc[g] \in InTx
    BY <1>3 DEF QueueForProject, EnsureProject, InTx
  <2> QED
    BY <1>0, <2>1, EntriesUnchanged DEF Ahead, EverSeenBy, LiveSeenBy, Inserted
<1>4. CASE Pick(g)
  <2> DEFINE n == target[g]
  <2>1. pc[g] = "pick" /\ n \in Namespaces /\ local[g] \in NamespaceRow /\ Ahead(g) /\ picks[g] \in Seq(Int)
    BY <1>0, <1>4 DEF Pick, Control, InTx, TypeOK
  <2>2. PICK v \in Values, fromReserved \in BOOLEAN :
          /\ chooseCandidate(v, fromReserved, local[g], Ranges[n], OwnRanges(g), LiveSeenBy(g), EverSeenBy(g))
          /\ PickInsert(g, v, fromReserved)
    BY <1>0, <1>4 DEF Pick, PickConflict, Refuse, Finish, Goto, TypeOK, InTx
  <2>3. OwnRanges(g) = {}
    BY <2>1 DEF Plain, OwnRanges
  <2>4. ~fromReserved /\ nextGlobalCandidate(v, local[g], Ranges[n], local[g].next, LiveSeenBy(g), EverSeenBy(g))
    BY <2>2, <2>3 DEF chooseCandidate, FreeInRanges, globalRangeContains
  <2>5. PICK c \in Values \cup {v + 1} :
          /\ NextCursor(c, v, local[g], Ranges[n], LiveSeenBy(g) \cup {v}, EverSeenBy(g) \cup {v})
          /\ local' = [local EXCEPT ![g].next = c]
    BY <2>2, <2>4 DEF PickInsert
  <2>6. /\ local'[g] = [local[g] EXCEPT !.next = c] /\ picks'[g] = Append(picks[g], v)
        /\ UNCHANGED <<entries, target>>
    BY <1>0, <2>2, <2>5 DEF PickInsert, TypeOK
  <2>7. local'[g].next = c /\ local'[g].min = local[g].min /\ local'[g].max = local[g].max
    BY <2>1, <2>6 DEF NamespaceRow
  <2>8. LiveSeenBy(g)' = LiveSeenBy(g) \cup {v} /\ EverSeenBy(g)' = EverSeenBy(g) \cup {v}
    BY <2>1, <2>2, PickSeen
  <2>9. ASSUME NEW w \in EverSeenBy(g)' \ LiveSeenBy(g)', InReach(n, local'[g], w) PROVE c <= w
    <3>1. w \in EverSeenBy(g) \ LiveSeenBy(g) /\ w # v /\ w \in Values
      <4>1. w \in EverSeenBy(g) \ LiveSeenBy(g) /\ w # v
        BY <2>8, <2>9
      <4> QED
        BY <1>0, <4>1 DEF EverSeenBy, EverValues, RowsOf, ProperRows
    <3>2. InReach(n, local[g], w) /\ local[g].next <= w
      BY <2>1, <2>7, <2>9, <3>1 DEF InReach, WithinMax, Ahead
    <3>3. /\ v \in Int /\ w \in Int /\ v + 1 \in Int /\ local[g].next \in Int
          /\ local[g].min \in Int \cup {Nil}
      BY <2>1, <3>1, CandidatesAssumption DEF NamespaceRow
    <3>4. v <= w
      BY <2>4, <3>1, <3>2, <3>3, SearchFinds
    <3>5. v + 1 <= w
      BY <3>1, <3>3, <3>4
    <3> DEFINE live == LiveSeenBy(g) \cup {v}
               ever == EverSeenBy(g) \cup {v}
    <3>6. w \in (ever \ live) \cap Values
      BY <3>1
    <3>7. /\ ~NamespaceExhausted(local[g], Ranges[n], v + 1, live, ever)
          /\ nextGlobalCandidate(c, local[g], Ranges[n], v + 1, live, ever) => c <= w
      <4> HIDE DEF live, ever, n
      <4> QED
        BY <3>2, <3>3, <3>5, <3>6, SearchFinds
    <3> QED
      BY <2>5, <3>7 DEF NextCursor
  <2> QED
    BY <2>6, <2>7, <2>9 DEF Ahead
<1>5. CASE HandlerStep(g) /\ ~LockNamespace(g) /\ ~QueueForProject(g) /\ ~EnsureProject(g) /\ ~Pick(g)
  BY <1>0, <1>5
  DEF HandlerStep, Wait, Work, QueueForProject, DeadlockVictim, Submit, FindNamespace, PickExhausted,
      CommitAllocation, RevokeEntry, RevokeAllocation, Revoke, Release, ReadRevoked, UpdateNamespace,
      RecalculateCursor, Respond, Abort, Refuse, Committed, Finish, Goto, TypeOK, InTx
<1> QED
  BY <1>u, <1>1, <1>2, <1>3, <1>4, <1>5 DEF Next, HandlerStep

-----------------------------------------------------------------------------
\* The cursor of the namespace that h works on moves to c; nothing that is
\* released afterwards falls behind c.
LEMMA CursorMoves ==
  ASSUME Inv, Reachable, NEW h \in Handlers, HandlerStep(h), pc[h] \in InTx, NEW c \in Int,
         NEW t \in Namespaces, t = target[h], namespace' = [namespace EXCEPT ![t].next = c],
         \A v \in EverValues(t)' \ LiveValues(t)' : InReach(t, local[h], v) => c <= v
  PROVE  NothingStranded'
<1>0. TypeOK /\ NothingStranded /\ namespace[t] \in NamespaceRow
  BY DEF Inv, Reachable, Control, Locked
<1> SUFFICES ASSUME NEW n \in Namespaces, namespace'[n] # Nil,
                    NEW v \in EverValues(n)' \ LiveValues(n)', InReach(n, namespace'[n], v)
             PROVE  namespace'[n].next <= v
  BY DEF NothingStranded, InReach
<1>1. CASE n = t
  <2>1. namespace'[n] = [namespace[n] EXCEPT !.next = c]
    BY <1>0, <1>1 DEF TypeOK
  <2>2. namespace'[n].next = c /\ namespace'[n].min = local[h].min /\ namespace'[n].max = local[h].max
    BY <1>0, <1>1, <2>1 DEF Inv, Locked, NamespaceRow
  <2>3. InReach(n, local[h], v)
    BY <2>2 DEF InReach, WithinMax
  <2> QED
    BY <1>1, <2>2, <2>3
<1>2. CASE n # t
  <2>1. namespace'[n] = namespace[n]
    BY <1>0, <1>2 DEF TypeOK
  <2>2. LiveValues(n)' = LiveValues(n) /\ EverValues(n)' = EverValues(n)
    BY <1>2, EntriesElsewhere
  <2> QED
    BY <1>0, <2>1, <2>2, StrandedIs
<1> QED
  BY <1>1, <1>2

\* After the commit everybody sees of the namespace what the transaction saw.
LEMMA CommitStores ==
  ASSUME Inv, NEW h \in Handlers, CommitAllocation(h), NEW t \in Namespaces, t = target[h]
  PROVE  EverValues(t)' \subseteq EverSeenBy(h) /\ LiveSeenBy(h) \subseteq LiveValues(t)'
<1>0. /\ TypeOK /\ pc[h] = "commit" /\ target[h] \in Namespaces /\ local[h] \in NamespaceRow
      /\ HandlerStep(h)
  BY DEF Inv, Control, InTx, CommitAllocation, HandlerStep, Work
<1>t. t = target[h]
  OBVIOUS
<1>1. EverValues(t)' \subseteq EverSeenBy(h)
  <2>1. ASSUME NEW i \in Ids, entries'[i] # Nil, entries'[i].ns = t PROVE entries'[i].value \in EverSeenBy(h)
    <3>1. CASE entries[i] # Nil
      BY <1>0, <1>t, <2>1, <3>1, RowKept DEF EverSeenBy, EverValues, RowsOf
    <3>2. CASE entries[i] = Nil
      <4>1. Stored(h, i)
        BY <1>0, <2>1, <3>2, RowStep, RevokedRow
      <4> QED
        BY <4>1, StoredRow DEF Stored, EverSeenBy, Inserted
    <3> QED
      BY <3>1, <3>2
  <2> QED
    BY <2>1 DEF EverValues, RowsOf
<1>2. LiveSeenBy(h) \subseteq LiveValues(t)'
  <2>1. LiveValues(t) \subseteq LiveValues(t)'
    <3>1. ASSUME NEW i \in LiveRows(t) PROVE i \in LiveRows(t)' /\ entries'[i] = entries[i]
      <4>1. i \in Ids /\ entries[i] # Nil
        BY DEF LiveRows, RowsOf
      <4>2. entries'[i] = entries[i]
        BY <1>0, <4>1, RowStep DEF Stored, Revoked
      <4> QED
        BY <4>1, <4>2 DEF LiveRows, RowsOf
    <3> QED
      BY <3>1 DEF LiveValues
  <2>2. ASSUME NEW k \in DOMAIN picks[h] PROVE picks[h][k] \in LiveValues(t)'
    <3>1. /\ req[h] \in AllocateRequest /\ req[h] \in Requests /\ req[h] # NoRequest
          /\ picks[h] \in Seq(Int) /\ Len(picks[h]) <= req[h].count
      BY <1>0, Distinct DEF Inv, Control, TypeOK, PicksFree, Inserting, Requests
    <3>2. <<req[h].alloc, k>> \in Ids
      BY <3>1, RegistryAssumption DEF AllocateRequest, Ids
    <3> DEFINE i == <<req[h].alloc, k>>
    <3>3. entries'[i] = NewRow(h, picks[h][k])
      <4>1. entries' = [j \in Ids |-> IF j \in Granted(h) THEN NewRow(h, picks[h][j[2]]) ELSE entries[j]]
        BY DEF CommitAllocation
      <4>2. i \in Granted(h) /\ i[2] = k
        BY <3>2 DEF Granted
      <4> QED
        BY <3>2, <4>1, <4>2
    <3>4. entries'[i] # Nil
      BY <1>0, <3>3, NewRowType
    <3>5. i \in LiveRows(t)'
      BY <1>t, <3>2, <3>3, <3>4 DEF LiveRows, RowsOf, NewRow
    <3> QED
      BY <3>3, <3>5 DEF LiveValues, NewRow
  <2> QED
    BY <1>t, <2>1, <2>2 DEF LiveSeenBy, Inserted
<1> QED
  BY <1>1, <1>2

LEMMA CommitStep ==
  ASSUME Inv, Reachable, NEW h \in Handlers, CommitAllocation(h) PROVE NothingStranded'
<1>0. /\ TypeOK /\ pc[h] = "commit" /\ Ahead(h) /\ target[h] \in Namespaces /\ local[h] \in NamespaceRow
      /\ HandlerStep(h)
  BY DEF Inv, Reachable, Control, InTx, CommitAllocation, HandlerStep, Work
<1>t. PICK t \in Namespaces : t = target[h]
  BY <1>0
<1>1. EverValues(t)' \subseteq EverSeenBy(h) /\ LiveSeenBy(h) \subseteq LiveValues(t)'
  BY <1>t, CommitStores
<1>3. \A v \in EverValues(t)' \ LiveValues(t)' : InReach(t, local[h], v) => local[h].next <= v
  BY <1>0, <1>t, <1>1 DEF Ahead
<1>4. namespace' = [namespace EXCEPT ![t].next = local[h].next] /\ local[h].next \in Int /\ pc[h] \in InTx
  BY <1>0, <1>t DEF CommitAllocation, NamespaceRow, InTx
<1> QED
  BY <1>0, <1>t, <1>3, <1>4, CursorMoves

LEMMA ReleaseStep ==
  ASSUME Inv, Reachable, NEW h \in Handlers, HandlerStep(h), pc[h] = "revoke", NEW ids \in SUBSET Ids,
         Release(h, ids), \A i \in ids : entries[i] # Nil
  PROVE  NothingStranded'
<1>0. /\ TypeOK /\ NothingStranded /\ target[h] \in Namespaces /\ namespace[target[h]] \in NamespaceRow
      /\ pc[h] \in InTx
  BY DEF Inv, Reachable, Control, InTx, Locked
<1>1. PICK t \in Namespaces : t = target[h]
  BY <1>0
<1>2. PICK c \in Cursors(t, ids) : IsLeast(c, Cursors(t, ids)) /\ namespace' = [namespace EXCEPT ![t].next = c]
  BY <1>1 DEF Release
<1>3. c \in Int /\ Cursors(t, ids) \subseteq Int
  BY <1>0, <1>1 DEF Cursors, Released, TypeOK, NamespaceRow, EntryRow
<1>4. ASSUME NEW v \in EverValues(t)' \ LiveValues(t)', InReach(t, local[h], v) PROVE c <= v
  <2>1. PICK i \in Ids : entries'[i] # Nil /\ entries'[i].ns = t /\ entries'[i].value = v
    BY <1>4 DEF EverValues, RowsOf
  <2>2. /\ entries'[i] = IF i \in Released(ids) THEN [entries[i] EXCEPT !.status = "REVOKED"] ELSE entries[i]
        /\ entries[i] \in EntryRow \cup {Nil}
    BY <1>0 DEF Release, TypeOK
  <2>3. i \in Released(ids) => entries[i] # Nil
    BY DEF Released
  <2>4. entries[i] # Nil /\ entries[i].ns = t /\ entries[i].value = v /\ v \in Int
    BY <2>1, <2>2, <2>3 DEF EntryRow
  <2>5. CASE i \in Released(ids)
    <3>1. v \in Cursors(t, ids)
      BY <2>4, <2>5 DEF Cursors
    <3> QED
      BY <1>2, <3>1 DEF IsLeast
  <2>6. CASE i \notin Released(ids) /\ i \notin LiveRows(t) /\ v \notin LiveValues(t)
    <3>1. v \in EverValues(t) \ LiveValues(t)
      BY <2>4, <2>6 DEF EverValues, RowsOf
    <3>2. InReach(t, namespace[t], v) /\ namespace[t] # Nil
      BY <1>0, <1>1, <1>4, Distinct DEF InReach, WithinMax, Inv, Locked
    <3>3. namespace[t].next <= v
      BY <1>0, <3>1, <3>2, StrandedIs
    <3>4. c <= namespace[t].next /\ namespace[t].next \in Int
      BY <1>2, <1>3 DEF IsLeast, Cursors
    <3> QED
      BY <1>3, <2>4, <3>3, <3>4
  <2>7. CASE v \in LiveValues(t)
    <3>1. PICK j \in LiveRows(t) : entries[j].value = v
      BY <2>7 DEF LiveValues
    <3>2. j \in Released(ids)
      <4>1. SUFFICES ASSUME j \notin Released(ids) PROVE FALSE
        OBVIOUS
      <4>2. entries'[j] = entries[j] /\ j \in Ids
        BY <3>1, <4>1 DEF Release, LiveRows, RowsOf
      <4>3. j \in LiveRows(t)'
        BY <3>1, <4>2 DEF LiveRows, RowsOf
      <4> QED
        BY <1>4, <3>1, <4>2, <4>3 DEF LiveValues
    <3>3. v \in Cursors(t, ids)
      BY <3>1, <3>2 DEF Cursors
    <3> QED
      BY <1>2, <3>3 DEF IsLeast
  <2>8. i \in LiveRows(t) => v \in LiveValues(t)
    BY <2>4 DEF LiveValues
  <2> QED
    BY <2>5, <2>6, <2>7, <2>8
<1> QED
  BY <1>0, <1>1, <1>2, <1>3, <1>4, CursorMoves

LEMMA RecalculateStep ==
  ASSUME Plain, Inv, Reachable, NEW h \in Handlers, RecalculateCursor(h) PROVE NothingStranded'
<1>0. /\ TypeOK /\ ProperRows /\ pc[h] = "recalculate" /\ HandlerStep(h) /\ pc[h] \in InTx
      /\ local[h] \in NamespaceRow
  BY DEF Inv, Reachable, Control, InTx, RecalculateCursor, HandlerStep, Work
<1>1. PICK t \in Namespaces : t = target[h]
  BY <1>0 DEF Inv, Control
<1> DEFINE start == IF local[h].min = Nil THEN 1 ELSE local[h].min
           past  == local[h].max + 1
<1>2. CASE UNCHANGED <<entries, namespace>>
  BY <1>2, EntriesUnchanged DEF NothingStranded, Reachable
<1>3. CASE ~UNCHANGED <<entries, namespace>>
  <2>1. PICK c \in Values \cup (IF local[h].max = Nil THEN {} ELSE {past}) :
          /\ IF NamespaceExhausted(local[h], Ranges[t], start, LiveValues(t), EverValues(t))
             THEN c = past
             ELSE nextGlobalCandidate(c, local[h], Ranges[t], start, LiveValues(t), EverValues(t))
          /\ namespace' = [namespace EXCEPT ![t].next = c]
          /\ UNCHANGED entries
    BY <1>1, <1>3 DEF RecalculateCursor, Refuse
  <2>2. c \in Int /\ start \in Int /\ local[h].min \in Int \cup {Nil}
    BY <1>0, <2>1, CandidatesAssumption DEF NamespaceRow
  <2>3. ASSUME NEW v \in EverValues(t)' \ LiveValues(t)', InReach(t, local[h], v) PROVE c <= v
    <3>1. v \in (EverValues(t) \ LiveValues(t)) \cap Values
      BY <1>0, <2>1, <2>3, EntriesUnchanged DEF EverValues, RowsOf, ProperRows
    <3>2. start <= v
      BY <2>3, <3>1 DEF InReach, Plain
    <3> QED
      <4> HIDE DEF start, past
      <4> QED
        BY <2>1, <2>2, <2>3, <3>1, <3>2, SearchFinds
  <2> QED
    BY <1>0, <1>1, <2>1, <2>2, <2>3, CursorMoves
<1> QED
  BY <1>2, <1>3

LEMMA ReachableStep == Plain /\ Inv /\ Reachable /\ [Next]_vars => Reachable'
<1> SUFFICES ASSUME Plain, Inv, Reachable, [Next]_vars PROVE NothingStranded'
  BY NoUpdatesStep, ProperRowsStep, AheadStep DEF Plain, Reachable
<1>0. TypeOK /\ Control /\ NothingStranded /\ ProperRows /\ NoUpdates
  BY DEF Inv, Reachable
<1>u. CASE UNCHANGED <<entries, namespace>>
  BY <1>0, <1>u, EntriesUnchanged DEF NothingStranded
<1>n. CASE \E n \in Namespaces : CreateNamespace(n)
  <2>1. PICK n \in Namespaces : CreateNamespace(n)
    BY <1>n
  <2>2. PICK row \in NewRows : namespace' = [namespace EXCEPT ![n] = row]
    BY <2>1 DEF CreateNamespace
  <2> SUFFICES ASSUME NEW m \in Namespaces, namespace'[m] # Nil,
                      NEW v \in EverValues(m)' \ LiveValues(m)', InReach(m, namespace'[m], v)
               PROVE  namespace'[m].next <= v
    BY DEF NothingStranded, InReach
  <2>3. v \in EverValues(m) \ LiveValues(m)
    BY <2>1, EntriesUnchanged DEF CreateNamespace
  <2>4. m # n
    BY <1>0, <2>1, <2>3 DEF CreateNamespace, EverValues, RowsOf, ProperRows
  <2>5. namespace'[m] = namespace[m]
    BY <1>0, <2>2, <2>4 DEF TypeOK
  <2> QED
    BY <1>0, <2>3, <2>5, StrandedIs
<1>1. ASSUME NEW h \in Handlers, HandlerStep(h) PROVE NothingStranded'
  <2>1. CASE CommitAllocation(h)
    BY <2>1, CommitStep
  <2>2. CASE RecalculateCursor(h)
    BY <2>2, RecalculateStep
  <2>3. CASE RevokeEntry(h) \/ RevokeAllocation(h)
    <3>1. req[h] \in RevokeRequest /\ req[h] \in Requests /\ pc[h] = "revoke"
      BY <1>0, <2>3 DEF Control, RevokeEntry, RevokeAllocation, Requests
    <3>2. PICK ids \in SUBSET Ids : Revoke(h, ids) /\ \A i \in ids : entries[i] # Nil
      BY <2>3, <3>1, RequestKinds DEF RevokeEntry, RevokeAllocation, EntriesOf
    <3> QED
      BY <1>1, <1>u, <3>1, <3>2, ReleaseStep DEF Revoke, Refuse
  <2>4. ~UpdateNamespace(h)
    BY <1>0, Distinct, RequestKinds DEF UpdateNamespace, Control, NoUpdates, UpdateRequest
  <2>5. CASE ~CommitAllocation(h) /\ ~RecalculateCursor(h) /\ ~RevokeEntry(h) /\ ~RevokeAllocation(h)
    <3>1. UNCHANGED <<entries, namespace>>
      BY <1>1, <2>4, <2>5
      DEF HandlerStep, Wait, Work, QueueForProject, DeadlockVictim, Submit, FindNamespace, LockNamespace,
          EnsureProject, PickExhausted, Pick, PickConflict, PickInsert, ReadRevoked, Respond, Abort,
          Refuse
    <3> QED
      BY <1>u, <3>1
  <2> QED
    BY <2>1, <2>2, <2>3, <2>5
<1> QED
  BY <1>u, <1>n, <1>1 DEF Next, HandlerStep, vars

\* Allocate, AllocateBatch, RevokeEntry, RevokeAllocation and
\* RecalculateNamespaceCursor together: in a plain registry no released value
\* that could be handed out again is ever behind the cursor.
THEOREM CursorAhead ==
  ASSUME Plain PROVE Spec /\ NothingStranded => []NothingStranded
<1>1. Init /\ NothingStranded => Reachable
  <2> SUFFICES ASSUME Init, NothingStranded PROVE Reachable
    OBVIOUS
  <2>1. NoUpdates /\ ProperRows
    BY RegistryAssumption DEF Init, NoUpdates, ProperRows, Plain, Inserted
  <2> QED
    BY <2>1 DEF Init, Reachable, InTx
<1>2. Inv /\ Reachable /\ [Next]_vars => Reachable'
  BY ReachableStep
<1>3. Reachable => NothingStranded
  BY DEF Reachable
<1> QED
  BY <1>1, <1>2, <1>3, Invariance, PTL DEF Spec

-----------------------------------------------------------------------------
(***************************************************************************)
(* Full namespaces.  A steady registry reserves nothing, keeps its bounds, *)
(* and starts with the cursors past what is stored.  Then values are given *)
(* out without gaps from the first cursor on, and a search that finds      *)
(* nothing has found them all taken.                                       *)
(***************************************************************************)
First(n) == StoredNamespaces[n].next

Steady ==
  /\ BoundsStay
  /\ \A n \in Namespaces :
       /\ Ranges[n] = {}
       /\ StoredNamespaces[n] # Nil
       /\ 1 <= First(n)
       /\ StoredNamespaces[n].min = Nil \/ StoredNamespaces[n].min <= First(n)
  /\ \A i \in Ids : StoredEntries[i] # Nil => StoredEntries[i].value < First(StoredEntries[i].ns)

\* All values from the first to the cursor are live, and all below one that
\* was ever given out were given out too.
NoGaps(n, next, live, ever) ==
  /\ \A v \in Values : First(n) <= v /\ v < next => v \in live
  /\ \A v \in Values, u \in ever : First(n) <= v /\ v < u => v \in ever

TablesFilled ==
  \A n \in Namespaces :
    /\ namespace[n] \in NamespaceRow /\ namespace[n].min = StoredNamespaces[n].min
    /\ NoGaps(n, namespace[n].next, LiveValues(n), EverValues(n))

Filled ==
  /\ NoUpdates
  /\ TablesFilled
  /\ \A h \in Handlers : pc[h] \in InTx =>
       NoGaps(target[h], local[h].next, LiveSeenBy(h), EverSeenBy(h))

\* A search passes over live values only.
LEMMA SearchFills ==
  ASSUME Steady, NEW n \in Namespaces, NEW ns \in NamespaceRow, ns.min = StoredNamespaces[n].min,
         NEW live, NEW ever, live \subseteq ever, ever \subseteq Int, NEW start \in Int,
         NoGaps(n, start, live, ever)
  PROVE  /\ NamespaceExhausted(ns, Ranges[n], start, live, ever) =>
              \A v \in Values : First(n) <= v /\ v <= ns.max => v \in live
         /\ \A c : nextGlobalCandidate(c, ns, Ranges[n], start, live, ever) =>
              c \in Values /\ \A v \in Values : First(n) <= v /\ v < c => v \in live
<1>0. Values \subseteq Int /\ First(n) \in Int /\ Ranges[n] = {}
  <2>1. StoredNamespaces[n] \in NamespaceRow
    BY RegistryAssumption DEF Steady
  <2> QED
    BY <2>1, CandidatesAssumption DEF Steady, First, NamespaceRow
<1> DEFINE floor == Floor(ns, start)
<1>1. ASSUME NEW v \in Values, First(n) <= v, v \notin live, WithinMax(ns, v)
      PROVE  v \in Reusable(ns, Ranges[n], floor, live, ever) \cup Fresh(ns, Ranges[n], floor, ever)
  <2>1. start <= v
    BY <1>0, <1>1 DEF NoGaps
  <2>2. ns.min # Nil => ns.min \in Int /\ ns.min <= v
    BY <1>0, <1>1 DEF Steady, NamespaceRow
  <2>3. floor <= v
    BY <2>1, <2>2 DEF Floor
  <2>4. ~globalRangeContains(Ranges[n], v)
    BY <1>0 DEF globalRangeContains
  <2>5. CASE v \in ever
    BY <1>1, <2>3, <2>4, <2>5 DEF Reusable
  <2>6. CASE v \notin ever
    <3>1. ASSUME NEW u \in ever PROVE u < v
      <4>1. u \in Int /\ v \in Int /\ u # v
        BY <1>0, <2>6
      <4>2. ~(v < u)
        BY <1>1, <2>6 DEF NoGaps
      <4> QED
        BY <4>1, <4>2
    <3> QED
      BY <1>1, <2>3, <2>4, <3>1 DEF Fresh
  <2> QED
    BY <2>5, <2>6
<1>2. ASSUME NamespaceExhausted(ns, Ranges[n], start, live, ever),
             NEW v \in Values, First(n) <= v, v <= ns.max, v \notin live
      PROVE  FALSE
  <2>1. WithinMax(ns, v)
    BY <1>2 DEF WithinMax
  <2> QED
    BY <1>1, <1>2, <2>1 DEF NamespaceExhausted
<1>3. ASSUME NEW c, nextGlobalCandidate(c, ns, Ranges[n], start, live, ever)
      PROVE  c \in Values /\ \A v \in Values : First(n) <= v /\ v < c => v \in live
  <2>1. /\ c \in Values /\ WithinMax(ns, c)
        /\ \/ c \in ever /\ \A w \in Reusable(ns, Ranges[n], floor, live, ever) : c <= w
           \/ /\ Reusable(ns, Ranges[n], floor, live, ever) = {}
              /\ \A w \in Fresh(ns, Ranges[n], floor, ever) : c <= w
    BY <1>3 DEF nextGlobalCandidate, IsLeast, Reusable, Fresh
  <2> SUFFICES ASSUME NEW v \in Values, First(n) <= v, v < c, v \notin live
               PROVE  FALSE
    BY <2>1
  <2>2. v \in Int /\ c \in Int /\ ~(c <= v)
    BY <1>0, <2>1
  <2>3. WithinMax(ns, v)
    BY <2>1, <2>2 DEF WithinMax, NamespaceRow
  <2>4. v \in Reusable(ns, Ranges[n], floor, live, ever) \cup Fresh(ns, Ranges[n], floor, ever)
    BY <1>1, <2>3
  <2>5. v \in Fresh(ns, Ranges[n], floor, ever) => \A u \in ever : u < v
    BY DEF Fresh
  <2> QED
    <3> HIDE DEF floor
    <3> QED
      BY <2>1, <2>2, <2>4, <2>5
<1> QED
  BY <1>2, <1>3

LEMMA SeenValues ==
  ASSUME Inv
  PROVE  /\ \A n \in Namespaces : LiveValues(n) \subseteq EverValues(n) /\ EverValues(n) \subseteq Int
         /\ \A h \in Handlers : target[h] \in Namespaces =>
              LiveSeenBy(h) \subseteq EverSeenBy(h) /\ EverSeenBy(h) \subseteq Int
<1>1. \A n \in Namespaces : LiveValues(n) \subseteq EverValues(n)
  BY DEF LiveValues, EverValues, LiveRows
<1>2. \A n \in Namespaces : EverValues(n) \subseteq Int
  BY DEF Inv, TypeOK, EverValues, RowsOf, EntryRow
<1>3. \A h \in Handlers : Inserted(h) \subseteq Int
  BY DEF Inv, TypeOK, Inserted
<1> QED
  BY <1>1, <1>2, <1>3 DEF LiveSeenBy, EverSeenBy

\* What AllocateBatch knows of its namespace has no gaps, after each turn of
\* its loop.
LEMMA PickFills ==
  ASSUME Steady, Inv, Filled, NEW g \in Handlers, Pick(g), pc'[g] \in InTx
  PROVE  NoGaps(target[g], local'[g].next, LiveSeenBy(g)', EverSeenBy(g)')
<1>1. TypeOK /\ pc[g] = "pick" /\ target[g] \in Namespaces /\ local[g] \in NamespaceRow
  BY DEF Inv, Control, Pick, InTx
<1>2. PICK n \in Namespaces : n = target[g]
  BY <1>1
<1>3. PICK v \in Values, fromReserved \in BOOLEAN :
        /\ chooseCandidate(v, fromReserved, local[g], Ranges[n], OwnRanges(g), LiveSeenBy(g), EverSeenBy(g))
        /\ PickInsert(g, v, fromReserved)
  BY <1>1, <1>2 DEF Pick, PickConflict, Refuse, Finish, Goto, TypeOK, InTx
<1>4. OwnRanges(g) = {}
  BY <1>2 DEF Steady, OwnRanges
<1>5. ~fromReserved /\ nextGlobalCandidate(v, local[g], Ranges[n], local[g].next, LiveSeenBy(g), EverSeenBy(g))
  BY <1>3, <1>4 DEF chooseCandidate, FreeInRanges, globalRangeContains
<1>6. PICK c \in Values \cup {v + 1} :
        /\ NextCursor(c, v, local[g], Ranges[n], LiveSeenBy(g) \cup {v}, EverSeenBy(g) \cup {v})
        /\ local' = [local EXCEPT ![g].next = c]
  BY <1>2, <1>3, <1>5 DEF PickInsert
<1>7. local'[g].next = c
  BY <1>1, <1>6 DEF TypeOK, NamespaceRow
<1>8. LiveSeenBy(g)' = LiveSeenBy(g) \cup {v} /\ EverSeenBy(g)' = EverSeenBy(g) \cup {v}
  BY <1>3, PickSeen
<1> DEFINE live == LiveSeenBy(g)
           ever == EverSeenBy(g)
<1>9. /\ live \subseteq ever /\ ever \subseteq Int /\ v \in Int /\ v + 1 \in Int
      /\ Values \subseteq Int /\ First(n) \in Int
      /\ local[g].next \in Int /\ local[g].min = StoredNamespaces[n].min
  <2>1. StoredNamespaces[n] \in NamespaceRow
    BY RegistryAssumption DEF Steady
  <2> QED
    BY <1>1, <1>2, <2>1, SeenValues, CandidatesAssumption DEF NamespaceRow, Inv, Locked, InTx, Filled, TablesFilled, First
<1>10. NoGaps(n, local[g].next, live, ever)
  BY <1>1, <1>2 DEF Filled, InTx
<1> HIDE DEF live, ever
<1>11. \A w \in Values : First(n) <= w /\ w < v => w \in live
  BY <1>1, <1>5, <1>9, <1>10, SearchFills DEF live, ever
<1>12. NoGaps(n, v + 1, live \cup {v}, ever \cup {v})
  <2>1. \A w \in Values : w < v + 1 => w < v \/ w = v
    BY <1>9
  <2>2. \A w \in Values : First(n) <= w /\ w < v + 1 => w \in live \cup {v}
    BY <1>11, <2>1
  <2>3. \A w \in Values, u \in ever \cup {v} : First(n) <= w /\ w < u => w \in ever \cup {v}
    BY <1>9, <1>10, <1>11 DEF NoGaps
  <2> QED
    BY <2>2, <2>3 DEF NoGaps
<1>13. \A w \in Values : First(n) <= w /\ w < c => w \in live \cup {v}
  <2>1. CASE c = v + 1
    BY <1>12, <2>1 DEF NoGaps
  <2>2. CASE nextGlobalCandidate(c, local[g], Ranges[n], v + 1, live \cup {v}, ever \cup {v})
    <3> DEFINE live2 == live \cup {v}
               ever2 == ever \cup {v}
    <3>1. live2 \subseteq ever2 /\ ever2 \subseteq Int
      BY <1>9
    <3>2. NoGaps(n, v + 1, live2, ever2) /\ nextGlobalCandidate(c, local[g], Ranges[n], v + 1, live2, ever2)
      BY <1>12, <2>2
    <3>3. local[g] \in NamespaceRow /\ local[g].min = StoredNamespaces[n].min /\ v + 1 \in Int
      BY <1>1, <1>9
    <3> HIDE DEF live2, ever2
    <3>4. \A w \in Values : First(n) <= w /\ w < c => w \in live2
      BY <3>1, <3>2, <3>3, SearchFills
    <3> QED
      BY <3>4 DEF live2
  <2> QED
    BY <1>6, <2>1, <2>2 DEF NextCursor, live, ever
<1>14. NoGaps(n, c, live \cup {v}, ever \cup {v})
  BY <1>12, <1>13 DEF NoGaps
<1> QED
  BY <1>2, <1>7, <1>8, <1>14 DEF live, ever

\* The handlers' part of Filled.
LEMMA FilledInTx ==
  ASSUME Steady, Inv, Filled, [Next]_vars, NEW g \in Handlers, pc'[g] \in InTx
  PROVE  NoGaps(target'[g], local'[g].next, LiveSeenBy(g)', EverSeenBy(g)')
<1>0. TypeOK /\ Control
  BY DEF Inv
<1>i. pc[g] \in InTx => NoGaps(target[g], local[g].next, LiveSeenBy(g), EverSeenBy(g))
  BY DEF Filled
<1>u. CASE UNCHANGED vars \/ \E n \in Namespaces : CreateNamespace(n)
  <2>1. UNCHANGED <<entries, pc, target, local, picks>>
    BY <1>u DEF vars, CreateNamespace
  <2> QED
    BY <1>i, <2>1, EntriesUnchanged DEF EverSeenBy, LiveSeenBy, Inserted
<1>1. ASSUME NEW h \in Handlers \ {g}, HandlerStep(h)
      PROVE  NoGaps(target'[g], local'[g].next, LiveSeenBy(g)', EverSeenBy(g)')
  <2>1. pc'[g] = pc[g] /\ target'[g] = target[g] /\ local'[g] = local[g] /\ picks'[g] = picks[g]
    BY <1>0, <1>1, QuietStep DEF Quiet
  <2>2. PICK n \in Namespaces : n = target[g] /\ n = target'[g] /\ lock[n] # h
    BY <1>0, <1>1, <2>1 DEF Inv, Locked, Control
  <2>3. LiveValues(n)' = LiveValues(n) /\ EverValues(n)' = EverValues(n)
    BY <1>1, <2>2, EntriesElsewhere
  <2> QED
    BY <1>i, <2>1, <2>2, <2>3 DEF EverSeenBy, LiveSeenBy, Inserted
<1>2. CASE LockNamespace(g)
  <2>1. PICK n \in Namespaces : n = target[g] /\ namespace[n] # Nil
    BY <1>0, <1>2 DEF LockNamespace, Control, Refuse, Finish, Goto, TypeOK, InTx
  <2>2. local'[g] = namespace[n] /\ target'[g] = n /\ UNCHANGED <<entries, picks>>
    BY <1>0, <1>2, <2>1 DEF LockNamespace, Refuse, Finish, Goto, TypeOK, InTx
  <2>3. picks'[g] = <<>>
    BY <1>0, <1>2, <2>2 DEF LockNamespace, Control, Inserting
  <2>4. LiveSeenBy(g)' = LiveValues(n) /\ EverSeenBy(g)' = EverValues(n)
    BY <2>2, <2>3, EntriesUnchanged DEF EverSeenBy, LiveSeenBy, Inserted
  <2> QED
    BY <2>2, <2>4 DEF Filled, TablesFilled
<1>3. CASE QueueForProject(g) \/ EnsureProject(g)
  <2>1. UNCHANGED <<entries, target, local, picks>> /\ pc[g] \in InTx
    BY <1>3 DEF QueueForProject, EnsureProject, InTx
  <2> QED
    BY <1>i, <2>1, EntriesUnchanged DEF EverSeenBy, LiveSeenBy, Inserted
<1>4. CASE Pick(g)
  <2>1. target'[g] = target[g]
    BY <1>4 DEF Pick, PickConflict, PickInsert, Refuse, Finish
  <2> QED
    BY <1>4, <2>1, PickFills
<1>5. CASE HandlerStep(g) /\ ~LockNamespace(g) /\ ~QueueForProject(g) /\ ~EnsureProject(g) /\ ~Pick(g)
  BY <1>0, <1>5
  DEF HandlerStep, Wait, Work, QueueForProject, DeadlockVictim, Submit, FindNamespace, PickExhausted,
      CommitAllocation, RevokeEntry, RevokeAllocation, Revoke, Release, ReadRevoked, UpdateNamespace,
      RecalculateCursor, Respond, Abort, Refuse, Committed, Finish, Goto, TypeOK, InTx
<1> QED
  BY <1>u, <1>1, <1>2, <1>3, <1>4, <1>5 DEF Next, HandlerStep

\* The cursor of the namespace that h works on moves to c, over values that
\* are live afterwards.
LEMMA CursorFills ==
  ASSUME Inv, TablesFilled, NEW h \in Handlers, HandlerStep(h), NEW c \in Int,
         NEW t \in Namespaces, t = target[h], namespace' = [namespace EXCEPT ![t].next = c],
         NoGaps(t, c, LiveValues(t)', EverValues(t)')
  PROVE  TablesFilled'
<1>0. TypeOK
  BY DEF Inv
<1> SUFFICES ASSUME NEW n \in Namespaces
             PROVE  /\ namespace'[n] \in NamespaceRow /\ namespace'[n].min = StoredNamespaces[n].min
                    /\ NoGaps(n, namespace'[n].next, LiveValues(n)', EverValues(n)')
  BY DEF TablesFilled
<1>r. /\ namespace[n] \in NamespaceRow /\ namespace[n].min = StoredNamespaces[n].min
      /\ NoGaps(n, namespace[n].next, LiveValues(n), EverValues(n))
  BY DEF TablesFilled
<1>1. CASE n = t
  <2>1. namespace'[n] = [namespace[n] EXCEPT !.next = c]
    BY <1>0, <1>1 DEF TypeOK
  <2>2. namespace'[n] \in NamespaceRow /\ namespace'[n].next = c /\ namespace'[n].min = namespace[n].min
    BY <1>r, <2>1 DEF NamespaceRow
  <2> QED
    BY <1>r, <1>1, <2>2
<1>2. CASE n # t
  <2>1. namespace'[n] = namespace[n]
    BY <1>0, <1>2 DEF TypeOK
  <2>2. LiveValues(n)' = LiveValues(n) /\ EverValues(n)' = EverValues(n)
    BY <1>2, EntriesElsewhere
  <2> QED
    BY <1>r, <2>1, <2>2
<1> QED
  BY <1>1, <1>2

LEMMA CommitFills ==
  ASSUME Inv, Filled, NEW h \in Handlers, CommitAllocation(h) PROVE TablesFilled'
<1>0. /\ TypeOK /\ pc[h] = "commit" /\ target[h] \in Namespaces /\ local[h] \in NamespaceRow
      /\ HandlerStep(h) /\ pc[h] \in InTx
  BY DEF Inv, Control, InTx, CommitAllocation, HandlerStep, Work
<1>1. PICK t \in Namespaces : t = target[h]
  BY <1>0
<1>2. NoGaps(t, local[h].next, LiveSeenBy(h), EverSeenBy(h))
  BY <1>0, <1>1 DEF Filled
<1>3. EverValues(t)' \subseteq EverSeenBy(h) /\ LiveSeenBy(h) \subseteq LiveValues(t)'
  BY <1>1, CommitStores
<1>4. EverSeenBy(h) \subseteq EverValues(t)'
  <2>1. EverValues(t) \subseteq EverValues(t)'
    <3>1. \A i \in RowsOf(t) : i \in Ids /\ entries[i] # Nil /\ entries[i].ns = t
      BY DEF RowsOf
    <3>2. \A i \in RowsOf(t) : i \in RowsOf(t)' /\ entries'[i].value = entries[i].value
      BY <1>0, <3>1, RowKept DEF RowsOf
    <3> QED
      BY <3>2 DEF EverValues
  <2>2. Inserted(h) \subseteq EverValues(t)'
    BY <1>3 DEF LiveSeenBy, LiveValues, EverValues, LiveRows
  <2> QED
    BY <1>1, <2>1, <2>2 DEF EverSeenBy
<1>5. NoGaps(t, local[h].next, LiveValues(t)', EverValues(t)')
  BY <1>2, <1>3, <1>4 DEF NoGaps
<1>6. namespace' = [namespace EXCEPT ![t].next = local[h].next] /\ local[h].next \in Int
  BY <1>0, <1>1 DEF CommitAllocation, NamespaceRow
<1> QED
  BY <1>0, <1>1, <1>5, <1>6, CursorFills DEF Filled

LEMMA ReleaseFills ==
  ASSUME Steady, Inv, Filled, NEW h \in Handlers, HandlerStep(h), pc[h] = "revoke", NEW ids \in SUBSET Ids,
         Release(h, ids), \A i \in ids : entries[i] # Nil
  PROVE  TablesFilled'
<1>0. TypeOK /\ target[h] \in Namespaces /\ namespace[target[h]] \in NamespaceRow
  BY DEF Inv, Control, InTx, Locked
<1>1. PICK t \in Namespaces : t = target[h]
  BY <1>0
<1>2. PICK c \in Cursors(t, ids) : IsLeast(c, Cursors(t, ids)) /\ namespace' = [namespace EXCEPT ![t].next = c]
  BY <1>1 DEF Release
<1>3. c \in Int /\ c <= namespace[t].next /\ namespace[t].next \in Int
  BY <1>0, <1>1, <1>2 DEF Cursors, Released, TypeOK, NamespaceRow, EntryRow, IsLeast
<1>4. /\ RowsOf(t)' = RowsOf(t)
      /\ \A i \in RowsOf(t) : entries'[i].value = entries[i].value
  <2>1. ASSUME NEW i \in Ids
        PROVE  /\ (entries'[i] # Nil /\ entries'[i].ns = t) <=> (entries[i] # Nil /\ entries[i].ns = t)
               /\ entries[i] # Nil => entries'[i].value = entries[i].value
    <3>1. /\ entries'[i] = IF i \in Released(ids) THEN [entries[i] EXCEPT !.status = "REVOKED"] ELSE entries[i]
          /\ entries[i] \in EntryRow \cup {Nil}
          /\ i \in Released(ids) => entries[i] # Nil
      BY <1>0 DEF Release, Released, TypeOK
    <3>2. i \in Released(ids) =>
            [entries[i] EXCEPT !.status = "REVOKED"] \in EntryRow
      BY <3>1 DEF EntryRow
    <3> QED
      BY <3>1, <3>2, Distinct DEF EntryRow
  <2> QED
    BY <2>1 DEF RowsOf
<1>5. EverValues(t)' = EverValues(t)
  BY <1>4 DEF EverValues
<1>6. ASSUME NEW v \in Values, v \in LiveValues(t), v < c PROVE v \in LiveValues(t)'
  <2>1. PICK i \in LiveRows(t) : entries[i].value = v
    BY <1>6 DEF LiveValues
  <2>2. i \notin Released(ids)
    <3>1. v \in Int
      BY CandidatesAssumption
    <3> QED
      BY <1>2, <1>3, <1>6, <2>1, <3>1 DEF Cursors, IsLeast
  <2>3. entries'[i] = entries[i] /\ i \in Ids
    BY <2>1, <2>2 DEF Release, LiveRows, RowsOf
  <2>4. i \in LiveRows(t)'
    BY <2>1, <2>3 DEF LiveRows, RowsOf
  <2> QED
    BY <2>1, <2>3, <2>4 DEF LiveValues
<1>7. NoGaps(t, namespace[t].next, LiveValues(t), EverValues(t))
  BY DEF Filled, TablesFilled
<1>8. NoGaps(t, c, LiveValues(t)', EverValues(t)')
  <2>1. First(t) \in Int /\ Values \subseteq Int
    BY RegistryAssumption, CandidatesAssumption DEF Steady, First, NamespaceRow
  <2>2. \A v \in Values : First(t) <= v /\ v < c => v \in LiveValues(t)'
    <3>1. \A v \in Values : v < c => v < namespace[t].next
      BY <1>3, <2>1
    <3> QED
      BY <1>6, <1>7, <3>1 DEF NoGaps
  <2> QED
    BY <1>5, <1>7, <2>2 DEF NoGaps
<1> QED
  BY <1>1, <1>2, <1>3, <1>8, CursorFills DEF Filled

LEMMA RecalculateFills ==
  ASSUME Steady, Inv, Filled, NEW h \in Handlers, RecalculateCursor(h) PROVE TablesFilled'
<1>0. /\ TypeOK /\ pc[h] = "recalculate" /\ HandlerStep(h) /\ pc[h] \in InTx
      /\ local[h] \in NamespaceRow
  BY DEF Inv, Control, InTx, RecalculateCursor, HandlerStep, Work
<1>1. PICK t \in Namespaces : t = target[h]
  BY <1>0 DEF Inv, Control
<1> DEFINE start == IF local[h].min = Nil THEN 1 ELSE local[h].min
           past  == local[h].max + 1
<1>2. CASE UNCHANGED <<entries, namespace>>
  <2>1. \A n \in Namespaces : LiveValues(n)' = LiveValues(n) /\ EverValues(n)' = EverValues(n)
    BY <1>2, EntriesUnchanged
  <2> QED
    BY <1>2, <2>1 DEF Filled, TablesFilled
<1>3. CASE ~UNCHANGED <<entries, namespace>>
  <2>1. PICK c \in Values \cup (IF local[h].max = Nil THEN {} ELSE {past}) :
          /\ IF NamespaceExhausted(local[h], Ranges[t], start, LiveValues(t), EverValues(t))
             THEN c = past
             ELSE nextGlobalCandidate(c, local[h], Ranges[t], start, LiveValues(t), EverValues(t))
          /\ namespace' = [namespace EXCEPT ![t].next = c]
          /\ UNCHANGED entries
    BY <1>1, <1>3 DEF RecalculateCursor, Refuse
  <2>2. /\ c \in Int /\ start \in Int /\ local[h].max \in Int \cup {Nil}
        /\ local[h].min = StoredNamespaces[t].min
    BY <1>0, <1>1, <2>1, CandidatesAssumption DEF NamespaceRow, Inv, Locked, Filled, TablesFilled
  <2>3. First(t) \in Int /\ start <= First(t) /\ Values \subseteq Int
    <3>1. StoredNamespaces[t] \in NamespaceRow
      BY RegistryAssumption DEF Steady
    <3> QED
      BY <2>2, <3>1, CandidatesAssumption DEF Steady, First, NamespaceRow
  <2>4. NoGaps(t, namespace[t].next, LiveValues(t), EverValues(t))
    BY DEF Filled, TablesFilled
  <2>5. NoGaps(t, start, LiveValues(t), EverValues(t))
    <3>1. \A v \in Values : ~(First(t) <= v /\ v < start)
      BY <2>2, <2>3
    <3> QED
      BY <2>4, <3>1 DEF NoGaps
  <2>6. LiveValues(t) \subseteq EverValues(t) /\ EverValues(t) \subseteq Int
    BY SeenValues
  <2>7. ASSUME NEW v \in Values, First(t) <= v, v < c PROVE v \in LiveValues(t)
    <3> HIDE DEF start
    <3>1. CASE NamespaceExhausted(local[h], Ranges[t], start, LiveValues(t), EverValues(t))
      <4>1. \A w \in Values : First(t) <= w /\ w <= local[h].max => w \in LiveValues(t)
        BY <1>0, <2>2, <2>5, <2>6, <3>1, SearchFills
      <4>2. c = local[h].max + 1 /\ local[h].max \in Int /\ v \in Int
        BY <2>1, <2>2, <2>3, <3>1 DEF NamespaceExhausted
      <4> QED
        BY <2>7, <4>1, <4>2
    <3>2. CASE nextGlobalCandidate(c, local[h], Ranges[t], start, LiveValues(t), EverValues(t))
      <4>1. \A w \in Values : First(t) <= w /\ w < c => w \in LiveValues(t)
        BY <1>0, <2>2, <2>5, <2>6, <3>2, SearchFills
      <4> QED
        BY <2>7, <4>1
    <3> QED
      BY <2>1, <3>1, <3>2
  <2>8. NoGaps(t, c, LiveValues(t)', EverValues(t)')
    <3>1. LiveValues(t)' = LiveValues(t) /\ EverValues(t)' = EverValues(t)
      BY <2>1, EntriesUnchanged
    <3> QED
      BY <2>4, <2>7, <3>1 DEF NoGaps
  <2> QED
    BY <1>0, <1>1, <2>1, <2>2, <2>8, CursorFills DEF Filled
<1> QED
  BY <1>2, <1>3

LEMMA FilledStep == Steady /\ Inv /\ Filled /\ [Next]_vars => Filled'
<1> SUFFICES ASSUME Steady, Inv, Filled, [Next]_vars PROVE TablesFilled'
  BY NoUpdatesStep, FilledInTx DEF Steady, Filled
<1>0. TypeOK /\ Control /\ NoUpdates /\ TablesFilled
  BY DEF Inv, Filled
<1>u. CASE UNCHANGED <<entries, namespace>>
  <2>1. \A n \in Namespaces : LiveValues(n)' = LiveValues(n) /\ EverValues(n)' = EverValues(n)
    BY <1>u, EntriesUnchanged
  <2> QED
    BY <1>0, <1>u, <2>1 DEF TablesFilled
<1>n. ~(\E n \in Namespaces : CreateNamespace(n))
  BY <1>0, Distinct DEF CreateNamespace, TablesFilled
<1>1. ASSUME NEW h \in Handlers, HandlerStep(h) PROVE TablesFilled'
  <2>1. CASE CommitAllocation(h)
    BY <2>1, CommitFills
  <2>2. CASE RecalculateCursor(h)
    BY <2>2, RecalculateFills
  <2>3. CASE RevokeEntry(h) \/ RevokeAllocation(h)
    <3>1. req[h] \in RevokeRequest /\ req[h] \in Requests /\ pc[h] = "revoke"
      BY <1>0, <2>3 DEF Control, RevokeEntry, RevokeAllocation, Requests
    <3>2. PICK ids \in SUBSET Ids : Revoke(h, ids) /\ \A i \in ids : entries[i] # Nil
      BY <2>3, <3>1, RequestKinds DEF RevokeEntry, RevokeAllocation, EntriesOf
    <3> QED
      BY <1>1, <1>u, <3>1, <3>2, ReleaseFills DEF Revoke, Refuse
  <2>4. ~UpdateNamespace(h)
    BY <1>0, Distinct, RequestKinds DEF UpdateNamespace, Control, NoUpdates, UpdateRequest
  <2>5. CASE ~CommitAllocation(h) /\ ~RecalculateCursor(h) /\ ~RevokeEntry(h) /\ ~RevokeAllocation(h)
    <3>1. UNCHANGED <<entries, namespace>>
      BY <1>1, <2>4, <2>5
      DEF HandlerStep, Wait, Work, QueueForProject, DeadlockVictim, Submit, FindNamespace, LockNamespace,
          EnsureProject, PickExhausted, Pick, PickConflict, PickInsert, ReadRevoked, Respond, Abort,
          Refuse
    <3> QED
      BY <1>u, <3>1
  <2> QED
    BY <2>1, <2>2, <2>3, <2>5
<1> QED
  BY <1>u, <1>n, <1>1 DEF Next, HandlerStep, vars

LEMMA FilledAtFirst == Steady /\ Init => Filled
<1> SUFFICES ASSUME Steady, Init PROVE Filled
  OBVIOUS
<1>1. \A n \in Namespaces : StoredNamespaces[n] \in NamespaceRow /\ First(n) \in Int
  BY RegistryAssumption DEF Steady, First, NamespaceRow
<1>2. ASSUME NEW n \in Namespaces PROVE NoGaps(n, First(n), LiveValues(n), EverValues(n))
  <2>1. \A u \in EverValues(n) : u \in Int /\ u < First(n)
    BY RegistryAssumption DEF Init, EverValues, RowsOf, Steady, EntryRow
  <2>2. \A v \in Values : v \in Int
    BY CandidatesAssumption
  <2> QED
    BY <1>1, <2>1, <2>2 DEF NoGaps
<1>3. TablesFilled
  BY <1>1, <1>2 DEF Init, TablesFilled, First
<1>4. NoUpdates /\ \A h \in Handlers : pc[h] \notin InTx
  BY DEF Init, NoUpdates, InTx
<1> QED
  BY <1>3, <1>4 DEF Filled

\* Only AllocateBatch says that a namespace is exhausted.
LEMMA ToldByPick ==
  ASSUME Inv, [Next]_vars, NEW h \in Handlers, ToldExhausted(h)
  PROVE  PickExhausted(h)
<1>0. TypeOK /\ Control
  BY DEF Inv
<1>1. CASE UNCHANGED vars \/ \E n \in Namespaces : CreateNamespace(n)
  BY <1>1 DEF vars, CreateNamespace, ToldExhausted
<1>2. CASE \E g \in Handlers \ {h} : HandlerStep(g)
  BY <1>0, <1>2, QuietStep DEF Quiet, ToldExhausted
<1>3. ASSUME NEW result, result # "exhausted", Finish(h, result) PROVE FALSE
  BY <1>0, <1>3 DEF Finish, TypeOK, ToldExhausted
<1>4. CASE answer' = answer
  BY <1>4 DEF ToldExhausted
<1>5. CASE Submit(h) \/ QueueForProject(h) \/ EnsureProject(h) \/ Respond(h)
  BY <1>0, <1>5, RegistryAssumption
  DEF Submit, QueueForProject, EnsureProject, Respond, TypeOK, ToldExhausted, Answers
<1>6. CASE FindNamespace(h) \/ LockNamespace(h) \/ DeadlockVictim(h) \/ Pick(h) \/ ReadRevoked(h) \/ Abort(h)
  BY <1>3, <1>4, <1>6
  DEF FindNamespace, LockNamespace, DeadlockVictim, Pick, PickConflict, PickInsert, ReadRevoked, Abort,
      Refuse
<1>7. CASE RevokeEntry(h) \/ RevokeAllocation(h)
  BY <1>3, <1>4, <1>7 DEF RevokeEntry, RevokeAllocation, Revoke, Release, Refuse
<1>8. CASE CommitAllocation(h) \/ UpdateNamespace(h) \/ RecalculateCursor(h)
  BY <1>3, <1>8 DEF CommitAllocation, UpdateNamespace, RecalculateCursor, Committed, Refuse
<1> QED
  BY <1>1, <1>2, <1>5, <1>6, <1>7, <1>8 DEF Next, HandlerStep, Wait, Work

\* chooseCandidate gives ErrNamespaceExhausted, in a steady registry, only
\* when every value of the namespace from its first cursor on is live or
\* inserted by the batch that is refused.
THEOREM ExhaustedIsFull ==
  ASSUME Steady PROVE Spec => ExhaustedOnlyWhenFull
<1>1. ASSUME Inv, Filled, [Next]_vars, NEW h \in Handlers, ToldExhausted(h),
             NEW v \in Values, First(target[h]) <= v, v <= local[h].max
      PROVE  v \in LiveSeenBy(h)
  <2>1. PickExhausted(h)
    BY <1>1, ToldByPick
  <2>2. /\ pc[h] \in InTx /\ target[h] \in Namespaces /\ local[h] \in NamespaceRow /\ local[h].next \in Int
        /\ NamespaceExhausted(local[h], Ranges[target[h]], local[h].next, LiveSeenBy(h), EverSeenBy(h))
    BY <1>1, <2>1 DEF PickExhausted, Inv, Control, InTx, NamespaceRow
  <2>3. PICK n \in Namespaces : n = target[h]
    BY <2>2
  <2>4. local[h].min = StoredNamespaces[n].min /\ NoGaps(n, local[h].next, LiveSeenBy(h), EverSeenBy(h))
    BY <1>1, <2>2, <2>3 DEF Inv, Locked, Filled, TablesFilled
  <2>5. LiveSeenBy(h) \subseteq EverSeenBy(h) /\ EverSeenBy(h) \subseteq Int
    BY <1>1, <2>2, SeenValues
  <2>6. \A w \in Values : First(n) <= w /\ w <= local[h].max => w \in LiveSeenBy(h)
    BY <2>2, <2>3, <2>4, <2>5, SearchFills
  <2> QED
    BY <1>1, <2>3, <2>6
<1>2. Inv /\ Filled /\ [Next]_vars =>
        [\A h \in Handlers :
           ToldExhausted(h) =>
             \A v \in Values :
               StoredNamespaces[target[h]].next <= v /\ v <= local[h].max => v \in LiveSeenBy(h)]_vars
  BY <1>1 DEF First
<1>3. Inv /\ Filled /\ [Next]_vars => Filled'
  BY FilledStep
<1>4. Init => Filled
  BY FilledAtFirst
<1> QED
  BY <1>2, <1>3, <1>4, Invariance, PTL DEF Spec, ExhaustedOnlyWhenFull
=============================================================================
