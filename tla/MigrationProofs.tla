--------------------------- MODULE MigrationProofs ---------------------------
(***************************************************************************)
(* What the migration keeps and what it has done once a process serves,    *)
(* for every number of processes, namespaces, entries and crashes.         *)
(***************************************************************************)
EXTENDS MigrationProperties, FiniteSetTheorems, TLAPS

-----------------------------------------------------------------------------
(***************************************************************************)
(* The order of the steps, which the rest of the proof depends on.         *)
(***************************************************************************)
LEMMA StepsAre ==
  /\ DOMAIN Steps = 1..28 /\ Serving = 29
  /\ Steps[1] = <<"create", "type_entries">>
  /\ Steps[2] = <<"read", "namespace_aliases">>
  /\ Steps[3] = <<"write", "namespace_aliases">>
  /\ Steps[4] = <<"read", "reserved_ranges">>
  /\ Steps[5] = <<"write", "reserved_ranges">>
  /\ Steps[6] = <<"link", "type_allocation_entries">>
  /\ Steps[7] = <<"link", "type_entry_revocations">>
  /\ Steps[8] = <<"register", "type_entries">>
  /\ Steps[9] = <<"register", "reserved_ranges">>
  /\ Steps[10] = <<"check", "namespace_aliases">>
  /\ Steps[11] = <<"check", "reserved_ranges">>
  /\ Steps[12] = <<"check", "type_allocation_entries">>
  /\ Steps[13] = <<"check", "type_entry_revocations">>
  /\ Steps[14] = <<"check", "type_allocations">>
  /\ Steps[15] = <<"normalize", "status">>
  /\ Steps[16] = <<"normalize", "revoked_at">>
  /\ Steps[17] = <<"audit", "ALLOCATE">>
  /\ Steps[18] = <<"audit", "REVOKE">>
  /\ Steps[19] = <<"add", "uk_namespace_active_value">>
  /\ Steps[20] = <<"add", "uk_namespace_active_symbol">>
  /\ Steps[21] = <<"remove", "uk_namespace_value">>
  /\ Steps[22] = <<"remove", "uk_namespace_symbol">>
  /\ Steps[23] = <<"drop", "type_allocation_entries">>
  /\ Steps[24] = <<"drop", "type_entry_revocations">>
  /\ Steps[25] = <<"drop", "type_allocations">>
  /\ Steps[26] = <<"drop", "namespace_aliases">>
  /\ Steps[27] = <<"drop", "reserved_ranges">>
  /\ Steps[28] = <<"drop", "audit_logs">>
<1>1. /\ Len(Copying) = 9 /\ Len(Checking) = 5 /\ Len(Normalizing) = 2 /\ Len(Auditing) = 2
      /\ Len(Indexing) = 2 /\ Len(Unindexing) = 2 /\ Len(Dropping) = 6
  BY DEF Copying, Checking, Normalizing, Auditing, Indexing, Unindexing, Dropping
<1> QED
  BY <1>1 DEF Steps, Copying, Checking, Normalizing, Auditing, Indexing, Unindexing, Dropping, Serving

Occurs(step) == \E i \in DOMAIN Steps : Steps[i] = step

LEMMA EveryStep ==
  /\ Occurs(<<"create", "type_entries">>)
  /\ Occurs(<<"normalize", "status">>) /\ Occurs(<<"normalize", "revoked_at">>)
  /\ \A x \in NewIndexes : Occurs(<<"add", x>>)
  /\ \A x \in OldIndexes : Occurs(<<"remove", x>>)
  /\ \A t \in LegacyTables : Occurs(<<"drop", t>>)
<1>1. \A i \in 1..28 : Occurs(Steps[i])
  BY StepsAre DEF Occurs
<1>2. /\ Occurs(Steps[1]) /\ Occurs(Steps[15]) /\ Occurs(Steps[16]) /\ Occurs(Steps[19]) /\ Occurs(Steps[20])
      /\ Occurs(Steps[21]) /\ Occurs(Steps[22]) /\ Occurs(Steps[23]) /\ Occurs(Steps[24])
      /\ Occurs(Steps[25]) /\ Occurs(Steps[26]) /\ Occurs(Steps[27]) /\ Occurs(Steps[28])
  BY <1>1
<1> QED
  BY <1>2, StepsAre DEF NewIndexes, OldIndexes, LegacyTables, ListTables, LinkTables

LEMMA StepNumbers == DOMAIN Steps = 1..28 /\ Serving = 29
BY StepsAre

LEMMA FirstStep ==
  /\ \A i \in DOMAIN Steps : i \in Nat /\ 1 <= i
  /\ Steps[1] = <<"create", "type_entries">>
BY StepsAre

LEMMA StepOrder ==
  ASSUME NEW i \in DOMAIN Steps
  PROVE  /\ Steps[i] = <<"normalize", "status">> =>
              \E j \in DOMAIN Steps : j < i /\ Steps[j] = <<"link", "type_entry_revocations">>
         /\ Steps[i] = <<"remove", "uk_namespace_value">> =>
              \E j \in DOMAIN Steps : j < i /\ Steps[j] = <<"add", "uk_namespace_active_value">>
         /\ Steps[i] = <<"remove", "uk_namespace_symbol">> =>
              \E j \in DOMAIN Steps : j < i /\ Steps[j] = <<"add", "uk_namespace_active_symbol">>
         /\ Steps[i] = <<"drop", "namespace_aliases">> =>
              \E j \in DOMAIN Steps : j < i /\ Steps[j] = <<"write", "namespace_aliases">>
         /\ \A t \in ListTables :
              Steps[i] = <<"write", t>> => i - 1 \in DOMAIN Steps /\ Steps[i - 1] = <<"read", t>>
<1>1. i \in 1..28
  BY StepsAre
<1>2. Steps[i] = <<"normalize", "status">> => i = 15
  BY <1>1, StepsAre
<1>3. Steps[i] = <<"remove", "uk_namespace_value">> => i = 21
  BY <1>1, StepsAre
<1>4. Steps[i] = <<"remove", "uk_namespace_symbol">> => i = 22
  BY <1>1, StepsAre
<1>5. Steps[i] = <<"drop", "namespace_aliases">> => i = 26
  BY <1>1, StepsAre
<1>6. Steps[i] = <<"write", "namespace_aliases">> => i = 3
  BY <1>1, StepsAre
<1>7. Steps[i] = <<"write", "reserved_ranges">> => i = 5
  BY <1>1, StepsAre
<1> QED
  BY <1>2, <1>3, <1>4, <1>5, <1>6, <1>7, StepsAre DEF ListTables

-----------------------------------------------------------------------------
(***************************************************************************)
(* The inductive invariant.  Done says what a step leaves behind, in terms *)
(* that no later step of any process undoes; Progress that it is so for    *)
(* every step that some process is past.  Aliases follows the aliases, in  *)
(* the only column that clients write to while another process migrates:   *)
(* what a process still holds is what the clients know, unless it has been *)
(* overtaken.                                                              *)
(***************************************************************************)
aliasTable == "namespace_aliases"
Column == [Namespaces -> SUBSET (Aliases \cup Ranges)]

Held ==
  /\ DOMAIN held = Instances
  /\ \A m \in Instances :
       /\ DOMAIN held[m] \subseteq Namespaces
       /\ \A n \in DOMAIN held[m] : held[m][n] \in SUBSET (Aliases \cup Ranges)

Recorded ==
  "type_entry_revocations" \in tables => \A e \in legacy.revocations : entries[e].revokedAt = "recorded"

Done(step) ==
  /\ step = <<"create", "type_entries">> => indexes # {} /\ Seeds \cup NamesIn("type_entries") \subseteq projects
  /\ step = <<"write", aliasTable>> => overtaken \/ lists[aliasTable] = told
  /\ step = <<"link", "type_entry_revocations">> => Recorded
  /\ step = <<"normalize", "status">> =>
       Recorded /\ \A e \in Entries : entries[e].status = "ACTIVE" => entries[e].revokedAt = Nil
  /\ step = <<"normalize", "revoked_at">> =>
       \A e \in Entries : entries[e].status = "REVOKED" => entries[e].revokedAt # Nil
  /\ \A x \in NewIndexes : step = <<"add", x>> => x \in indexes
  /\ \A x \in OldIndexes : step = <<"remove", x>> => x \notin indexes
  /\ \A t \in LegacyTables : step = <<"drop", t>> => t \notin tables

Progress ==
  \A m \in Instances : \A i \in DOMAIN Steps : i < pc[m] => Done(Steps[i])

AliasesKept ==
  ~overtaken =>
    /\ IF aliasTable \in tables
       THEN /\ told = legacy.lists[aliasTable]
            /\ \A n \in Namespaces : lists[aliasTable][n] \in {{}, told[n]}
       ELSE lists[aliasTable] = told
    /\ \A m \in Instances : At(m, "write", aliasTable) =>
         \A n \in Namespaces :
           IF n \in DOMAIN held[m] THEN held[m][n] = told[n] ELSE lists[aliasTable][n] = told[n]

Inv == TypeOK /\ Held /\ NeverUnindexed /\ Progress /\ AliasesKept

-----------------------------------------------------------------------------
LEMMA InitInv == Init => Inv
<1> SUFFICES ASSUME Init PROVE Inv
  OBVIOUS
<1> USE MigrationAssumption, DatabaseAssumption
<1>1. legacy \in Databases /\ legacy \in Database
  BY DEF Init
<1>2. \A n \in Namespaces, t \in ListTables : lists[t][n] = {}
  BY DEF Init
<1>3. pc = [m \in Instances |-> 0] /\ held = [m \in Instances |-> <<>>]
  BY DEF Init, Down
<1>4. TypeOK
  <2>1. lists \in [ListTables -> [Namespaces -> SUBSET (Aliases \cup Ranges)]]
    BY DEF Init
  <2>2. pc \in [Instances -> Down..Serving] /\ \A m \in Instances : DOMAIN held[m] \subseteq Namespaces
    BY <1>3, StepsAre DEF Down
  <2>3. told \in [Namespaces -> SUBSET Aliases]
    BY <1>1 DEF Init
  <2>4. /\ tables \subseteq LegacyTables /\ entries \in [Entries -> EntryRow]
        /\ indexes \subseteq OldIndexes \cup NewIndexes
    BY <1>1 DEF Init, Database
  <2>5. /\ projects = {} /\ validated = FALSE /\ refused = {} /\ overtaken = FALSE
        /\ crashes \in 0..MaxCrashes
    BY DEF Init
  <2> QED
    BY <1>1, <2>1, <2>2, <2>3, <2>4, <2>5 DEF TypeOK
<1>5. Held
  BY <1>3 DEF Held
<1>6. NeverUnindexed
  BY <1>1 DEF Init, NeverUnindexed
<1>7. Progress
  <2>1. \A m \in Instances : pc[m] = 0
    BY <1>3
  <2> QED
    BY <2>1, FirstStep DEF Progress
<1>8. AliasesKept
  <2>1. \A m \in Instances : ~At(m, "write", aliasTable)
    BY <1>3, StepsAre DEF At
  <2>2. told = legacy.lists[aliasTable] /\ tables = legacy.tables
    BY DEF Init, aliasTable
  <2>3. aliasTable \in ListTables
    BY DEF aliasTable, ListTables
  <2>4. lists[aliasTable] = [n \in Namespaces |-> {}]
    BY <2>3 DEF Init
  <2>5. CASE aliasTable \in tables
    BY <1>2, <2>1, <2>2, <2>3, <2>5 DEF AliasesKept
  <2>6. CASE aliasTable \notin tables
    <3>1. \A n \in Namespaces : told[n] = {}
      BY <1>1, <2>2, <2>3, <2>6
    <3>2. told = [n \in Namespaces |-> {}]
      BY <1>1, <2>2, <3>1 DEF aliasTable
    <3> QED
      BY <2>1, <2>4, <2>6, <3>2 DEF AliasesKept
  <2> QED
    BY <2>5, <2>6
<1> QED
  BY <1>4, <1>5, <1>6, <1>7, <1>8 DEF Inv

-----------------------------------------------------------------------------
(***************************************************************************)
(* What every step has in common.                                          *)
(***************************************************************************)
LEMMA Advanced ==
  ASSUME TypeOK, NEW m \in Instances, NEW what, NEW table, At(m, what, table), Advance(m)
  PROVE  /\ pc[m] \in DOMAIN Steps /\ Steps[pc[m]] = <<what, table>>
         /\ pc' \in [Instances -> Down..Serving] /\ pc'[m] = pc[m] + 1
         /\ \A q \in Instances \ {m} : pc'[q] = pc[q]
<1>1. pc[m] \in 1..28 /\ Steps[pc[m]] = <<what, table>>
  BY StepsAre DEF At
<1> QED
  BY <1>1, StepsAre DEF Advance, Goto, TypeOK, Down

LEMMA ProgressMade ==
  ASSUME TypeOK, Progress, NEW m \in Instances, NEW what, NEW table, At(m, what, table), Advance(m),
         \A i \in DOMAIN Steps : Done(Steps[i]) => Done(Steps[i])',
         Done(<<what, table>>)'
  PROVE  Progress'
<1> SUFFICES ASSUME NEW q \in Instances, NEW i \in DOMAIN Steps, i < pc'[q] PROVE Done(Steps[i])'
  BY DEF Progress
<1>0. pc[q] \in Down..Serving
  BY DEF TypeOK
<1>1. i \in 1..28 /\ pc[q] \in Nat
  BY <1>0, StepNumbers DEF Down
<1>2. CASE i < pc[q]
  BY <1>2 DEF Progress
<1>3. CASE ~(i < pc[q])
  <2>1. q = m /\ i = pc[m]
    BY <1>1, <1>3, Advanced
  <2>2. Steps[i] = <<what, table>>
    BY <2>1, Advanced
  <2> QED
    BY <2>2
<1> QED
  BY <1>2, <1>3

\* Only a read brings a process to a write.
LEMMA ArrivesFromRead ==
  ASSUME TypeOK, NEW m \in Instances, NEW what, NEW table, At(m, what, table), Advance(m),
         NEW q \in Instances, NEW t \in ListTables, <<what, table>> # <<"read", t>>,
         At(q, "write", t)'
  PROVE  q # m /\ At(q, "write", t)
<1>1. pc'[q] \in DOMAIN Steps /\ Steps[pc'[q]] = <<"write", t>>
  BY DEF At
<1>2. CASE q = m
  <2>1. PICK i : i = pc'[q]
    OBVIOUS
  <2>2. i - 1 \in DOMAIN Steps /\ Steps[i - 1] = <<"read", t>>
    BY <1>1, <2>1, StepOrder
  <2>3. pc[m] \in 1..28 /\ i = pc[m] + 1
    BY <1>2, <2>1, Advanced, StepsAre
  <2>4. Steps[pc[m]] = <<"read", t>>
    BY <2>2, <2>3
  <2> QED
    BY <2>4, Advanced
<1>3. CASE q # m
  BY <1>1, <1>3, Advanced DEF At
<1> QED
  BY <1>2, <1>3

LEMMA AliasesUntouched ==
  ASSUME TypeOK, AliasesKept, NEW m \in Instances, NEW what, NEW table, At(m, what, table), Advance(m),
         <<what, table>> # <<"read", aliasTable>>,
         UNCHANGED <<legacy, lists, told, held, overtaken>>,
         aliasTable \in tables' <=> aliasTable \in tables
  PROVE  AliasesKept'
<1>1. ASSUME NEW q \in Instances, At(q, "write", aliasTable)' PROVE At(q, "write", aliasTable)
  BY <1>1, ArrivesFromRead DEF aliasTable, ListTables
<1> QED
  BY <1>1 DEF AliasesKept

LEMMA StepInv ==
  ASSUME Inv, NEW m \in Instances, NEW what, NEW table, At(m, what, table), Advance(m),
         UNCHANGED <<legacy, lists, told, held, overtaken>>,
         validated' \in BOOLEAN, refused' \subseteq Instances, crashes' = crashes,
         tables' \subseteq LegacyTables, entries' \in [Entries -> EntryRow],
         projects' \subseteq Projects, indexes' \subseteq OldIndexes \cup NewIndexes,
         NeverUnindexed', AliasesKept',
         \A i \in DOMAIN Steps : Done(Steps[i]) => Done(Steps[i])',
         Done(<<what, table>>)'
  PROVE  Inv'
<1>1. Progress'
  BY ProgressMade DEF Inv
<1>2. pc' \in [Instances -> Down..Serving]
  BY Advanced DEF Inv
<1>3. TypeOK'
  BY <1>2 DEF Inv, TypeOK
<1>4. Held'
  BY DEF Inv, Held
<1> QED
  BY <1>1, <1>3, <1>4 DEF Inv

-----------------------------------------------------------------------------
(***************************************************************************)
(* The steps that change neither lists nor what a process holds.           *)
(***************************************************************************)
LEMMA NamesTyped ==
  ASSUME TypeOK, NEW t \in {"type_entries", "reserved_ranges"}
  PROVE  NamesIn(t) \subseteq Projects
<1>1. CASE t = "type_entries"
  BY <1>1 DEF NamesIn, TypeOK, EntryRow
<1>2. CASE t = "reserved_ranges"
  <2>1. \A n \in Namespaces : legacy.lists["reserved_ranges"][n] \subseteq Ranges
    BY DatabaseAssumption DEF TypeOK
  <2>2. \A r \in Ranges : r[2] \in Projects \cup {Nil}
    BY MigrationAssumption
  <2>3. \A r \in UNION {legacy.lists["reserved_ranges"][n] : n \in Namespaces} : r[2] \in Projects \cup {Nil}
    BY <2>1, <2>2
  <2> QED
    BY <1>2, <2>3 DEF NamesIn
<1> QED
  BY <1>1, <1>2

LEMMA CreateStep ==
  ASSUME Inv, NEW m \in Instances, CreateTables(m)
  PROVE  Inv'
<1> USE DEF Inv
<1>1. /\ At(m, "create", "type_entries") /\ Advance(m)
      /\ indexes' = IF indexes = {} THEN NewIndexes ELSE indexes
      /\ projects' = projects \cup Seeds \cup NamesIn("type_entries")
      /\ UNCHANGED <<legacy, told, validated, refused, overtaken, crashes, tables, lists, entries, held>>
  BY DEF CreateTables, Quiet
<1>2. projects' \subseteq Projects
  BY <1>1, NamesTyped, MigrationAssumption DEF TypeOK
<1>3. NeverUnindexed'
  BY <1>1 DEF NeverUnindexed, NewIndexes
<1>4. AliasesKept'
  BY <1>1, AliasesUntouched
<1>5. NamesIn("type_entries")' = NamesIn("type_entries")
  BY <1>1 DEF NamesIn
<1>6. indexes' # {} /\ indexes \subseteq indexes' /\ (indexes # {} => indexes' = indexes)
  BY <1>1 DEF NewIndexes
<1>7. ASSUME NEW i \in DOMAIN Steps, Done(Steps[i]) PROVE Done(Steps[i])'
  <2>1. \A x \in OldIndexes : x \notin indexes => x \notin indexes'
    BY <1>1 DEF OldIndexes, NewIndexes
  <2> QED
    BY <1>1, <1>5, <1>6, <1>7, <2>1 DEF Done, Recorded
<1>8. Done(<<"create", "type_entries">>)'
  BY <1>1, <1>5, <1>6 DEF Done, aliasTable
<1> QED
  BY <1>1, <1>2, <1>3, <1>4, <1>7, <1>8, StepInv DEF TypeOK

\* The steps on the rows of type_entries: none touches the project.
LEMMA RowStep ==
  ASSUME Inv, NEW m \in Instances, NEW what, NEW table, At(m, what, table), Advance(m),
         <<what, table>> # <<"read", aliasTable>>, <<what, table>> # <<"create", "type_entries">>,
         <<what, table>> # <<"write", aliasTable>>,
         what \notin {"add", "remove", "drop"},
         UNCHANGED <<legacy, told, validated, refused, overtaken, crashes, tables, lists, projects, indexes, held>>,
         entries' \in [Entries -> EntryRow],
         \A e \in Entries : entries'[e].project = entries[e].project,
         Recorded => Recorded',
         \A i \in DOMAIN Steps :
           /\ Steps[i] = <<"normalize", "status">> /\ Done(Steps[i]) =>
                \A e \in Entries : entries'[e].status = "ACTIVE" => entries'[e].revokedAt = Nil
           /\ Steps[i] = <<"normalize", "revoked_at">> /\ Done(Steps[i]) =>
                \A e \in Entries : entries'[e].status = "REVOKED" => entries'[e].revokedAt # Nil,
         <<what, table>> = <<"link", "type_entry_revocations">> => Recorded',
         <<what, table>> = <<"normalize", "status">> =>
           Recorded' /\ \A e \in Entries : entries'[e].status = "ACTIVE" => entries'[e].revokedAt = Nil,
         <<what, table>> = <<"normalize", "revoked_at">> =>
           \A e \in Entries : entries'[e].status = "REVOKED" => entries'[e].revokedAt # Nil
  PROVE  Inv'
<1>1. NamesIn("type_entries")' = NamesIn("type_entries")
  BY DEF NamesIn
<1>2. ASSUME NEW i \in DOMAIN Steps, Done(Steps[i]) PROVE Done(Steps[i])'
  BY <1>1, <1>2 DEF Done
<1>3. Done(<<what, table>>)'
  BY DEF Done
<1>4. NeverUnindexed' /\ AliasesKept'
  BY AliasesUntouched DEF Inv, NeverUnindexed
<1> QED
  BY <1>2, <1>3, <1>4, StepInv DEF Inv, TypeOK

\* Rows of which only the allocation or the addresses change.
LEMMA DetailStep ==
  ASSUME Inv, NEW m \in Instances, NEW what \in {"link", "audit"}, NEW table, At(m, what, table), Advance(m),
         <<what, table>> # <<"link", "type_entry_revocations">>,
         Quiet, UNCHANGED <<tables, lists, projects, indexes, held>>,
         entries' \in [Entries -> EntryRow],
         \A e \in Entries : /\ entries'[e].project = entries[e].project
                            /\ entries'[e].status = entries[e].status
                            /\ entries'[e].revokedAt = entries[e].revokedAt
  PROVE  Inv'
<1>1. Recorded => Recorded'
  BY MigrationAssumption DEF Quiet, Recorded, Inv, TypeOK, Database
<1>2. ASSUME NEW i \in DOMAIN Steps
      PROVE  /\ Steps[i] = <<"normalize", "status">> /\ Done(Steps[i]) =>
                  \A e \in Entries : entries'[e].status = "ACTIVE" => entries'[e].revokedAt = Nil
             /\ Steps[i] = <<"normalize", "revoked_at">> /\ Done(Steps[i]) =>
                  \A e \in Entries : entries'[e].status = "REVOKED" => entries'[e].revokedAt # Nil
  BY DEF Done
<1> QED
  BY <1>1, <1>2, RowStep DEF Quiet

LEMMA LinkAllocationsStep ==
  ASSUME Inv, NEW m \in Instances, LinkAllocations(m)
  PROVE  Inv'
<1>1. ASSUME NEW e \in Entries
      PROVE  /\ entries'[e] \in EntryRow
             /\ entries'[e].project = entries[e].project
             /\ entries'[e].status = entries[e].status
             /\ entries'[e].revokedAt = entries[e].revokedAt
  <2>1. entries[e] \in EntryRow
    BY DEF Inv, TypeOK
  <2>2. Linked(e) => LinkOf(e) \in Allocs
    BY DEF Linked, LinkOf
  <2>3. \/ entries'[e] = entries[e]
        \/ Linked(e) /\ entries'[e] = [entries[e] EXCEPT !.alloc = LinkOf(e)]
    BY DEF LinkAllocations
  <2> QED
    BY <2>1, <2>2, <2>3 DEF EntryRow
<1>2. entries' \in [Entries -> EntryRow]
  BY <1>1 DEF LinkAllocations, Inv, TypeOK
<1> QED
  BY <1>1, <1>2, DetailStep DEF LinkAllocations

LEMMA AuditStep ==
  ASSUME Inv, NEW m \in Instances, NEW action \in {"ALLOCATE", "REVOKE"}, MigrateAuditIPs(m, action)
  PROVE  Inv'
<1>1. ASSUME NEW e \in Entries
      PROVE  /\ entries'[e] \in EntryRow
             /\ entries'[e].project = entries[e].project
             /\ entries'[e].status = entries[e].status
             /\ entries'[e].revokedAt = entries[e].revokedAt
  <2>1. entries[e] \in EntryRow /\ legacy.audit[action][e] \in IPs \cup {Nil}
    BY MigrationAssumption DEF Inv, TypeOK, Database
  <2>2. PICK ip \in IPs \cup {Nil} : ip = legacy.audit[action][e]
    BY <2>1
  <2>3. \/ entries'[e] = entries[e]
        \/ entries'[e] = [entries[e] EXCEPT !.request_ip = ip]
        \/ entries'[e] = [entries[e] EXCEPT !.revoke_ip = ip]
    BY <2>2 DEF MigrateAuditIPs, WithAudit
  <2> QED
    BY <2>1, <2>3 DEF EntryRow
<1>2. entries' \in [Entries -> EntryRow]
  BY <1>1 DEF MigrateAuditIPs, Inv, TypeOK
<1> QED
  BY <1>1, <1>2, DetailStep DEF MigrateAuditIPs

LEMMA LinkRevocationsStep ==
  ASSUME Inv, NEW m \in Instances, LinkRevocations(m)
  PROVE  Inv'
<1>1. /\ At(m, "link", "type_entry_revocations") /\ Advance(m) /\ Quiet
      /\ UNCHANGED <<tables, lists, projects, indexes, held>>
  BY DEF LinkRevocations
<1>2. ASSUME NEW e \in Entries
      PROVE  /\ entries'[e] \in EntryRow
             /\ entries'[e].project = entries[e].project
             /\ entries'[e].status = entries[e].status
             /\ IF "type_entry_revocations" \in tables /\ e \in legacy.revocations
                THEN entries'[e].revokedAt = "recorded"
                ELSE entries'[e].revokedAt = entries[e].revokedAt
  <2>1. entries[e] \in EntryRow
    BY DEF Inv, TypeOK
  <2> QED
    BY <2>1 DEF LinkRevocations, EntryRow
<1>3. entries' \in [Entries -> EntryRow]
  BY <1>2 DEF LinkRevocations, Inv, TypeOK
<1>4. Recorded'
  <2>1. legacy.revocations \subseteq Entries
    BY MigrationAssumption DEF Inv, TypeOK, Database
  <2> QED
    BY <1>1, <1>2, <2>1 DEF Recorded, Quiet
<1>5. ASSUME NEW i \in DOMAIN Steps
      PROVE  /\ Steps[i] = <<"normalize", "status">> /\ Done(Steps[i]) =>
                  \A e \in Entries : entries'[e].status = "ACTIVE" => entries'[e].revokedAt = Nil
             /\ Steps[i] = <<"normalize", "revoked_at">> /\ Done(Steps[i]) =>
                  \A e \in Entries : entries'[e].status = "REVOKED" => entries'[e].revokedAt # Nil
  BY <1>2, MigrationAssumption DEF Done, Recorded
<1> QED
  BY <1>1, <1>2, <1>3, <1>4, <1>5, RowStep DEF Quiet

LEMMA NormalizeStep ==
  ASSUME Inv, NEW m \in Instances, NEW what \in {"status", "revoked_at"}, NormalizeLifecycle(m, what)
  PROVE  Inv'
<1>1. /\ At(m, "normalize", what) /\ Advance(m) /\ Quiet
      /\ UNCHANGED <<tables, lists, projects, indexes, held>>
  BY DEF NormalizeLifecycle
<1>2. ASSUME NEW e \in Entries
      PROVE  /\ entries'[e] \in EntryRow
             /\ entries'[e].project = entries[e].project
             /\ IF what = "status" /\ entries[e].status = "ACTIVE" /\ entries[e].revokedAt # Nil
                THEN entries'[e].status = "REVOKED" ELSE entries'[e].status = entries[e].status
             /\ IF what = "revoked_at" /\ entries[e].status = "REVOKED" /\ entries[e].revokedAt = Nil
                THEN entries'[e].revokedAt = "created" ELSE entries'[e].revokedAt = entries[e].revokedAt
  <2>1. entries[e] \in EntryRow /\ entries'[e] = Normalized(entries[e], what)
    BY DEF Inv, TypeOK, NormalizeLifecycle
  <2>2. CASE what = "status"
    BY <2>1, <2>2 DEF Normalized, EntryRow
  <2>3. CASE what = "revoked_at"
    BY <2>1, <2>3 DEF Normalized, EntryRow
  <2> QED
    BY <2>2, <2>3
<1>3. entries' \in [Entries -> EntryRow]
  BY <1>2 DEF NormalizeLifecycle, Inv, TypeOK
<1>4. Recorded => Recorded'
  <2>1. legacy.revocations \subseteq Entries
    BY MigrationAssumption DEF Inv, TypeOK, Database
  <2> QED
    BY <1>1, <1>2, <2>1, MigrationAssumption DEF Recorded, Quiet
<1>5. ASSUME NEW i \in DOMAIN Steps
      PROVE  /\ Steps[i] = <<"normalize", "status">> /\ Done(Steps[i]) =>
                  \A e \in Entries : entries'[e].status = "ACTIVE" => entries'[e].revokedAt = Nil
             /\ Steps[i] = <<"normalize", "revoked_at">> /\ Done(Steps[i]) =>
                  \A e \in Entries : entries'[e].status = "REVOKED" => entries'[e].revokedAt # Nil
  BY <1>2, MigrationAssumption DEF Done
<1>6. what = "status" =>
        Recorded' /\ \A e \in Entries : entries'[e].status = "ACTIVE" => entries'[e].revokedAt = Nil
  <2>1. what = "status" => Recorded
    <3>1. PICK i : i = pc[m]
      OBVIOUS
    <3>2. i \in DOMAIN Steps /\ Steps[i] = <<"normalize", what>>
      BY <1>1, <3>1, Advanced DEF Inv
    <3>3. what = "status" => \E j \in DOMAIN Steps : j < i /\ Steps[j] = <<"link", "type_entry_revocations">>
      BY <3>2, StepOrder
    <3> QED
      BY <3>1, <3>3 DEF Inv, Progress, Done
  <2> QED
    BY <1>2, <1>4, <2>1
<1>7. what = "revoked_at" => \A e \in Entries : entries'[e].status = "REVOKED" => entries'[e].revokedAt # Nil
  BY <1>2, MigrationAssumption
<1> QED
  BY <1>1, <1>2, <1>3, <1>4, <1>5, <1>6, <1>7, RowStep DEF Quiet

LEMMA BackfillStep ==
  ASSUME Inv, NEW m \in Instances, NEW t \in {"type_entries", "reserved_ranges"}, BackfillProjects(m, t)
  PROVE  Inv'
<1>1. /\ At(m, "register", t) /\ Advance(m) /\ Quiet
      /\ UNCHANGED <<tables, lists, entries, indexes, held>>
      /\ projects' = projects \cup NamesIn(t)
  BY DEF BackfillProjects
<1>2. projects' \subseteq Projects
  BY <1>1, NamesTyped DEF Inv, TypeOK
<1>3. NeverUnindexed' /\ AliasesKept'
  BY <1>1, AliasesUntouched DEF Inv, NeverUnindexed, Quiet
<1>4. NamesIn("type_entries")' = NamesIn("type_entries")
  BY <1>1 DEF NamesIn
<1>5. ASSUME NEW i \in DOMAIN Steps, Done(Steps[i]) PROVE Done(Steps[i])'
  BY <1>1, <1>4, <1>5 DEF Done, Recorded, Quiet
<1>6. Done(<<"register", t>>)'
  BY DEF Done
<1> QED
  BY <1>1, <1>2, <1>3, <1>5, <1>6, StepInv DEF Quiet, Inv, TypeOK

LEMMA IndexStep ==
  ASSUME Inv, NEW m \in Instances,
         \/ \E x \in NewIndexes : AddIndex(m, x)
         \/ \E x \in OldIndexes : RemoveIndex(m, x)
  PROVE  Inv'
<1>1. CASE \E x \in NewIndexes : AddIndex(m, x)
  <2>1. PICK x \in NewIndexes : AddIndex(m, x)
    BY <1>1
  <2>2. /\ At(m, "add", x) /\ Advance(m) /\ Quiet /\ indexes' = indexes \cup {x}
        /\ UNCHANGED <<tables, lists, entries, projects, held>>
    BY <2>1 DEF AddIndex
  <2>3. NeverUnindexed'
    <3>1. indexes # {}
      <4>1. PICK i : i = pc[m]
        OBVIOUS
      <4>2. i \in 1..28 /\ Steps[i] = <<"add", x>>
        BY <2>2, <4>1, Advanced, StepsAre DEF Inv
      <4>3. i # 1
        BY <4>2, StepsAre
      <4>4. 1 \in DOMAIN Steps /\ 1 < pc[m] /\ Steps[1] = <<"create", "type_entries">>
        BY <4>1, <4>2, <4>3, StepsAre
      <4> QED
        BY <4>4 DEF Inv, Progress, Done
    <3> QED
      BY <2>2, <3>1 DEF Inv, NeverUnindexed
  <2>4. AliasesKept' /\ NamesIn("type_entries")' = NamesIn("type_entries")
    BY <2>2, AliasesUntouched DEF Inv, Quiet, NamesIn
  <2>5. ASSUME NEW i \in DOMAIN Steps, Done(Steps[i]) PROVE Done(Steps[i])'
    BY <2>2, <2>4, <2>5 DEF Done, Recorded, Quiet, NewIndexes, OldIndexes
  <2>6. Done(<<"add", x>>)'
    BY <2>2 DEF Done
  <2> QED
    BY <2>2, <2>3, <2>4, <2>5, <2>6, StepInv DEF Quiet, Inv, TypeOK
<1>2. CASE \E x \in OldIndexes : RemoveIndex(m, x)
  <2>1. PICK x \in OldIndexes : RemoveIndex(m, x)
    BY <1>2
  <2>2. /\ At(m, "remove", x) /\ Advance(m) /\ Quiet /\ indexes' = indexes \ {x}
        /\ UNCHANGED <<tables, lists, entries, projects, held>>
    BY <2>1 DEF RemoveIndex
  <2>3. /\ x = "uk_namespace_value" => "uk_namespace_active_value" \in indexes
        /\ x = "uk_namespace_symbol" => "uk_namespace_active_symbol" \in indexes
    <3>1. PICK i : i = pc[m]
      OBVIOUS
    <3>2. i \in DOMAIN Steps /\ Steps[i] = <<"remove", x>>
      BY <2>2, <3>1, Advanced DEF Inv
    <3>3. /\ x = "uk_namespace_value" =>
               \E j \in DOMAIN Steps : j < i /\ Steps[j] = <<"add", "uk_namespace_active_value">>
          /\ x = "uk_namespace_symbol" =>
               \E j \in DOMAIN Steps : j < i /\ Steps[j] = <<"add", "uk_namespace_active_symbol">>
      BY <3>2, StepOrder
    <3> QED
      BY <3>1, <3>3 DEF Inv, Progress, Done, NewIndexes
  <2>4. NeverUnindexed' /\ indexes' # {}
    BY <2>2, <2>3 DEF Inv, NeverUnindexed, OldIndexes
  <2>5. AliasesKept' /\ NamesIn("type_entries")' = NamesIn("type_entries")
    BY <2>2, AliasesUntouched DEF Inv, Quiet, NamesIn
  <2>6. ASSUME NEW i \in DOMAIN Steps, Done(Steps[i]) PROVE Done(Steps[i])'
    BY <2>2, <2>4, <2>5, <2>6 DEF Done, Recorded, Quiet, NewIndexes, OldIndexes
  <2>7. Done(<<"remove", x>>)'
    BY <2>2 DEF Done
  <2> QED
    BY <2>2, <2>4, <2>5, <2>6, <2>7, StepInv DEF Quiet, Inv, TypeOK
<1> QED
  BY <1>1, <1>2

LEMMA DropStep ==
  ASSUME Inv, NEW m \in Instances, NEW t \in LegacyTables, DropTable(m, t)
  PROVE  Inv'
<1>1. /\ At(m, "drop", t) /\ Advance(m) /\ Quiet /\ tables' = tables \ {t}
      /\ UNCHANGED <<lists, entries, projects, indexes, held>>
  BY DEF DropTable
<1>2. AliasesKept'
  <2>1. CASE t # aliasTable
    BY <1>1, <2>1, AliasesUntouched DEF Inv, Quiet
  <2>2. CASE t = aliasTable
    <3>1. overtaken \/ lists[aliasTable] = told
      <4>1. PICK i : i = pc[m]
        OBVIOUS
      <4>2. i \in DOMAIN Steps /\ Steps[i] = <<"drop", aliasTable>>
        BY <1>1, <2>2, <4>1, Advanced DEF Inv
      <4>3. PICK j \in DOMAIN Steps : j < i /\ Steps[j] = <<"write", aliasTable>>
        BY <4>2, StepOrder DEF aliasTable
      <4> QED
        BY <4>1, <4>3 DEF Inv, Progress, Done
    <3>2. \A q \in Instances : At(q, "write", aliasTable)' => At(q, "write", aliasTable)
      BY <1>1, ArrivesFromRead DEF Inv, aliasTable, ListTables
    <3> QED
      BY <1>1, <2>2, <3>1, <3>2 DEF Inv, AliasesKept, Quiet
  <2> QED
    BY <2>1, <2>2
<1>3. NeverUnindexed' /\ NamesIn("type_entries")' = NamesIn("type_entries")
  BY <1>1 DEF Inv, NeverUnindexed, NamesIn
<1>4. ASSUME NEW i \in DOMAIN Steps, Done(Steps[i]) PROVE Done(Steps[i])'
  BY <1>1, <1>3, <1>4 DEF Done, Recorded, Quiet
<1>5. Done(<<"drop", t>>)'
  BY <1>1 DEF Done
<1> QED
  BY <1>1, <1>2, <1>3, <1>4, <1>5, StepInv DEF Quiet, Inv, TypeOK

-----------------------------------------------------------------------------
(***************************************************************************)
(* The ends of a migration: start, refusal and crash.                      *)
(***************************************************************************)
LEMMA EndsStep ==
  ASSUME Inv, NEW m \in Instances, NEW step \in {0, 1}, pc' = [pc EXCEPT ![m] = step],
         UNCHANGED <<data, overtaken>>,
         \A q \in Instances \ {m} : held'[q] = held[q],
         DOMAIN held' = Instances,
         held'[m] = held[m] \/ held'[m] = <<>>,
         validated' \in BOOLEAN, refused' \subseteq Instances, crashes' \in 0..MaxCrashes
  PROVE  Inv'
<1> USE DEF Inv, data
<1>0. step \in Down..Serving
  BY StepsAre DEF Down
<1>1. /\ pc' \in [Instances -> Down..Serving] /\ pc'[m] = step
      /\ \A q \in Instances \ {m} : pc'[q] = pc[q]
  BY <1>0 DEF TypeOK
<1>2. Held'
  <2>1. ASSUME NEW q \in Instances
        PROVE  /\ DOMAIN held'[q] \subseteq Namespaces
               /\ \A n \in DOMAIN held'[q] : held'[q][n] \in SUBSET (Aliases \cup Ranges)
    BY DEF Held
  <2> QED
    BY <2>1 DEF Held
<1>3. TypeOK'
  BY <1>1, <1>2 DEF TypeOK, Held
<1>4. NeverUnindexed' /\ NamesIn("type_entries")' = NamesIn("type_entries")
  BY DEF NeverUnindexed, NamesIn
<1>5. ASSUME NEW i \in DOMAIN Steps, Done(Steps[i]) PROVE Done(Steps[i])'
  BY <1>4, <1>5 DEF Done, Recorded
<1>6. Progress'
  <2> SUFFICES ASSUME NEW q \in Instances, NEW i \in DOMAIN Steps, i < pc'[q] PROVE Done(Steps[i])'
    BY DEF Progress
  <2>1. i \in Nat /\ 1 <= i
    BY FirstStep
  <2>2. CASE q = m
    <3>1. i < step
      BY <1>1, <2>2
    <3> QED
      BY <2>1, <3>1
  <2> QED
    BY <1>1, <1>5, <2>2 DEF Progress
<1>7. AliasesKept'
  <2>1. ASSUME NEW q \in Instances, At(q, "write", aliasTable)' PROVE q # m /\ At(q, "write", aliasTable)
    <3>1. step \notin DOMAIN Steps \/ Steps[step] = <<"create", "type_entries">>
      BY FirstStep
    <3>2. q # m
      BY <1>1, <2>1, <3>1 DEF At
    <3> QED
      BY <1>1, <2>1, <3>2 DEF At
  <2> QED
    BY <2>1 DEF AliasesKept
<1> QED
  BY <1>2, <1>3, <1>4, <1>6, <1>7

LEMMA StartOrCrash ==
  ASSUME Inv, NEW m \in Instances, Start(m) \/ Crash(m)
  PROVE  Inv'
<1>1. pc' = [pc EXCEPT ![m] = 1] \/ pc' = [pc EXCEPT ![m] = 0]
  BY DEF Start, Crash, Advance, Goto, Down
<1>2. /\ validated' = validated /\ refused' \subseteq Instances /\ crashes' \in 0..MaxCrashes
      /\ UNCHANGED <<data, overtaken>>
  BY MigrationAssumption DEF Inv, TypeOK, Start, Crash
<1>3. /\ \A q \in Instances \ {m} : held'[q] = held[q]
      /\ DOMAIN held' = Instances /\ (held'[m] = held[m] \/ held'[m] = <<>>)
  BY DEF Inv, Held, Start, Crash
<1> QED
  BY <1>1, <1>2, <1>3, EndsStep DEF Inv, TypeOK

LEMMA CheckStep ==
  ASSUME Inv, NEW m \in Instances, NEW t \in LegacyTables, Check(m, t)
  PROVE  Inv'
<1>1. CASE Advance(m) /\ refused' = refused
  <2>1. /\ At(m, "check", t) /\ UNCHANGED <<data, held, overtaken, crashes>> /\ validated' \in BOOLEAN
    BY <1>1 DEF Check, Inv, TypeOK
  <2>2. AliasesKept' /\ NeverUnindexed' /\ NamesIn("type_entries")' = NamesIn("type_entries")
    BY <1>1, <2>1, AliasesUntouched DEF Inv, data, NeverUnindexed, NamesIn
  <2>3. ASSUME NEW i \in DOMAIN Steps, Done(Steps[i]) PROVE Done(Steps[i])'
    BY <2>1, <2>2, <2>3 DEF Done, Recorded, data
  <2>4. Done(<<"check", t>>)'
    BY DEF Done
  <2> QED
    BY <1>1, <2>1, <2>2, <2>3, <2>4, StepInv DEF Inv, TypeOK, data
<1>2. CASE Goto(m, Down) /\ refused' = refused \cup {m} /\ validated' = validated
  <2>1. pc' = [pc EXCEPT ![m] = 0] /\ UNCHANGED <<data, held, overtaken, crashes>>
    BY <1>2 DEF Goto, Down, Check
  <2> QED
    BY <1>2, <2>1, EndsStep DEF Inv, TypeOK, Held
<1> QED
  BY <1>1, <1>2 DEF Check

-----------------------------------------------------------------------------
(***************************************************************************)
(* The lists: read by a process, written by it row by row, and changed by  *)
(* clients in between.                                                     *)
(***************************************************************************)
LEMMA ReadStep ==
  ASSUME Inv, NEW m \in Instances, NEW t \in ListTables, ReadList(m, t)
  PROVE  Inv'
<1> USE DEF Inv
<1>1. /\ At(m, "read", t) /\ Advance(m) /\ Quiet /\ held' = [held EXCEPT ![m] = Rows(t)]
      /\ UNCHANGED <<tables, lists, entries, projects, indexes>>
  BY DEF ReadList
<1>2. /\ DOMAIN held' = Instances /\ held'[m] = Rows(t)
      /\ \A q \in Instances \ {m} : held'[q] = held[q]
  BY <1>1 DEF Held
<1>3. /\ DOMAIN Rows(t) \subseteq Namespaces
      /\ \A n \in DOMAIN Rows(t) : Rows(t)[n] = legacy.lists[t][n]
      /\ t \in tables => \A n \in Namespaces : n \notin DOMAIN Rows(t) => legacy.lists[t][n] = {}
      /\ t \notin tables => DOMAIN Rows(t) = {}
  BY DEF Rows
<1>4. \A n \in Namespaces : legacy.lists[t][n] \in SUBSET (Aliases \cup Ranges)
  BY MigrationAssumption DEF TypeOK, Database
<1>5. Held'
  BY <1>2, <1>3, <1>4 DEF Held
<1>6. TypeOK'
  <2>1. pc' \in [Instances -> Down..Serving]
    BY <1>1, Advanced
  <2> QED
    BY <1>1, <1>5, <2>1 DEF TypeOK, Held, Quiet
<1>7. NeverUnindexed' /\ NamesIn("type_entries")' = NamesIn("type_entries")
  BY <1>1 DEF NeverUnindexed, NamesIn
<1>8. Progress'
  <2>1. ASSUME NEW i \in DOMAIN Steps, Done(Steps[i]) PROVE Done(Steps[i])'
    BY <1>1, <1>7, <2>1 DEF Done, Recorded, Quiet
  <2>2. Done(<<"read", t>>)'
    BY DEF Done
  <2> QED
    BY <1>1, <2>1, <2>2, ProgressMade
<1>9. AliasesKept'
  <2>1. ASSUME ~overtaken, NEW q \in Instances, At(q, "write", aliasTable)', NEW n \in Namespaces
        PROVE  IF n \in DOMAIN held'[q] THEN held'[q][n] = told[n] ELSE lists[aliasTable][n] = told[n]
    <3>1. CASE q # m
      <4>1. At(q, "write", aliasTable)
        BY <1>1, <2>1, <3>1, Advanced DEF At
      <4> QED
        BY <1>2, <2>1, <3>1, <4>1 DEF AliasesKept
    <3>2. CASE q = m
      <4>1. t = aliasTable
        BY <1>1, <2>1, <3>2, ArrivesFromRead DEF aliasTable, ListTables
      <4>2. held'[q] = Rows(aliasTable)
        BY <1>2, <3>2, <4>1
      <4>3. CASE n \in DOMAIN Rows(aliasTable)
        <5>1. aliasTable \in tables /\ Rows(aliasTable)[n] = legacy.lists[aliasTable][n]
          BY <1>3, <4>1, <4>3
        <5> QED
          BY <2>1, <4>2, <4>3, <5>1 DEF AliasesKept
      <4>4. CASE n \notin DOMAIN Rows(aliasTable)
        <5>1. lists[aliasTable][n] = told[n]
          <6>1. aliasTable \in tables => told[n] = {}
            BY <1>3, <2>1, <4>1, <4>4 DEF AliasesKept
          <6> QED
            BY <2>1, <6>1 DEF AliasesKept
        <5> QED
          BY <4>2, <4>4, <5>1
      <4> QED
        BY <4>3, <4>4
    <3> QED
      BY <3>1, <3>2
  <2> QED
    BY <1>1, <2>1 DEF AliasesKept, Quiet
<1> QED
  BY <1>5, <1>6, <1>7, <1>8, <1>9

LEMMA WriteRow ==
  ASSUME Inv, NEW m \in Instances, NEW t \in ListTables, At(m, "write", t), NEW n \in DOMAIN held[m],
         lists' = [lists EXCEPT ![t][n] = held[m][n]],
         held' = [held EXCEPT ![m] = Restrict(@, DOMAIN @ \ {n})],
         UNCHANGED <<pc, tables, entries, projects, indexes>>, Quiet
  PROVE  Inv'
<1> USE DEF Inv
<1>1. /\ DOMAIN held' = Instances
      /\ \A q \in Instances \ {m} : held'[q] = held[q]
      /\ DOMAIN held'[m] = DOMAIN held[m] \ {n}
      /\ \A k \in DOMAIN held'[m] : held'[m][k] = held[m][k]
  BY DEF Held, Restrict
<1>2. n \in Namespaces /\ held[m][n] \in SUBSET (Aliases \cup Ranges)
  BY DEF Held
<1>3. /\ lists' \in [ListTables -> [Namespaces -> SUBSET (Aliases \cup Ranges)]]
      /\ lists'[t][n] = held[m][n]
      /\ \A k \in Namespaces \ {n} : lists'[t][k] = lists[t][k]
      /\ \A u \in ListTables \ {t} : lists'[u] = lists[u]
  BY <1>2 DEF TypeOK
<1>4. Held'
  BY <1>1 DEF Held
<1>5. TypeOK'
  BY <1>3, <1>4 DEF TypeOK, Held, Quiet
<1>6. NeverUnindexed' /\ NamesIn("type_entries")' = NamesIn("type_entries")
  BY DEF NeverUnindexed, NamesIn
<1>7. /\ aliasTable \in ListTables
      /\ ~overtaken /\ t = aliasTable => lists'[aliasTable][n] = told[n]
      /\ t # aliasTable => lists'[aliasTable] = lists[aliasTable]
      /\ \A k \in Namespaces \ {n} : lists'[aliasTable][k] = lists[aliasTable][k]
  <2>1. aliasTable \in ListTables
    BY DEF aliasTable, ListTables
  <2> QED
    BY <1>2, <1>3, <2>1 DEF AliasesKept
<1>8. ~overtaken /\ lists[aliasTable] = told => lists'[aliasTable] = told
  <2>1. lists'[aliasTable] \in [Namespaces -> SUBSET (Aliases \cup Ranges)] /\ told \in [Namespaces -> SUBSET Aliases]
    BY <1>3, <1>7 DEF TypeOK
  <2>2. ASSUME ~overtaken, lists[aliasTable] = told, NEW k \in Namespaces PROVE lists'[aliasTable][k] = told[k]
    BY <1>7, <2>2
  <2> QED
    BY <2>1, <2>2
<1>9. Progress'
  <2>1. ASSUME NEW i \in DOMAIN Steps, Done(Steps[i]) PROVE Done(Steps[i])'
    BY <1>6, <1>8, <2>1 DEF Done, Recorded, Quiet
  <2> QED
    BY <2>1 DEF Progress
<1>10. AliasesKept'
  <2>1. ASSUME ~overtaken
        PROVE  IF aliasTable \in tables
               THEN told = legacy.lists[aliasTable] /\ \A k \in Namespaces : lists'[aliasTable][k] \in {{}, told[k]}
               ELSE lists'[aliasTable] = told
    BY <1>7, <1>8, <2>1 DEF AliasesKept
  <2>2. ASSUME ~overtaken, NEW q \in Instances, At(q, "write", aliasTable), NEW k \in Namespaces
        PROVE  IF k \in DOMAIN held'[q] THEN held'[q][k] = told[k] ELSE lists'[aliasTable][k] = told[k]
    <3>1. IF k \in DOMAIN held[q] THEN held[q][k] = told[k] ELSE lists[aliasTable][k] = told[k]
      BY <2>2 DEF AliasesKept
    <3>2. q = m => t = aliasTable
      BY <2>2 DEF At
    <3> QED
      BY <1>1, <1>2, <1>7, <2>2, <3>1, <3>2
  <2>3. \A q \in Instances : At(q, "write", aliasTable)' <=> At(q, "write", aliasTable)
    BY DEF At
  <2>4. UNCHANGED <<legacy, told, tables, overtaken>>
    BY DEF Quiet
  <2>5. ASSUME ~overtaken', NEW q \in Instances, At(q, "write", aliasTable)', NEW k \in Namespaces
        PROVE  IF k \in DOMAIN held'[q] THEN held'[q][k] = told'[k] ELSE lists'[aliasTable][k] = told'[k]
    BY <2>2, <2>3, <2>4, <2>5
  <2>6. ~overtaken' =>
          IF aliasTable \in tables'
          THEN told' = legacy'.lists[aliasTable] /\ \A k \in Namespaces : lists'[aliasTable][k] \in {{}, told'[k]}
          ELSE lists'[aliasTable] = told'
    BY <2>1, <2>4
  <2> QED
    BY <2>5, <2>6 DEF AliasesKept
<1> QED
  BY <1>4, <1>5, <1>6, <1>9, <1>10

LEMMA WriteStep ==
  ASSUME Inv, NEW m \in Instances, NEW t \in ListTables, WriteList(m, t)
  PROVE  Inv'
<1>1. /\ At(m, "write", t) /\ Quiet
      /\ UNCHANGED <<tables, entries, projects, indexes>>
  BY DEF WriteList
<1>2. CASE DOMAIN held[m] = {} /\ Advance(m) /\ UNCHANGED <<lists, held>>
  <2>1. NeverUnindexed' /\ AliasesKept' /\ NamesIn("type_entries")' = NamesIn("type_entries")
    BY <1>1, <1>2, AliasesUntouched DEF Inv, Quiet, NeverUnindexed, NamesIn
  <2>2. ASSUME NEW i \in DOMAIN Steps, Done(Steps[i]) PROVE Done(Steps[i])'
    BY <1>1, <1>2, <2>1, <2>2 DEF Done, Recorded, Quiet
  <2>3. t = aliasTable /\ ~overtaken => lists[aliasTable] = told
    <3>1. lists[aliasTable] \in [Namespaces -> SUBSET (Aliases \cup Ranges)] /\ told \in [Namespaces -> SUBSET Aliases]
      BY DEF Inv, TypeOK, aliasTable, ListTables
    <3>2. t = aliasTable /\ ~overtaken => \A n \in Namespaces : lists[aliasTable][n] = told[n]
      BY <1>1, <1>2 DEF Inv, AliasesKept
    <3> QED
      BY <3>1, <3>2
  <2>4. Done(<<"write", t>>)'
    BY <1>1, <1>2, <2>3 DEF Done, Quiet
  <2> QED
    BY <1>1, <1>2, <2>1, <2>2, <2>4, StepInv DEF Inv, TypeOK, Quiet, aliasTable
<1>3. CASE \E n \in DOMAIN held[m] :
             /\ lists' = [lists EXCEPT ![t][n] = held[m][n]]
             /\ held' = [held EXCEPT ![m] = Restrict(@, DOMAIN @ \ {n})]
             /\ UNCHANGED pc
  BY <1>1, <1>3, WriteRow
<1> QED
  BY <1>2, <1>3 DEF WriteList

\* What holds of the database once some process serves.
LEMMA Served ==
  ASSUME Inv, NEW m \in Instances, pc[m] = Serving, NEW step, Occurs(step)
  PROVE  Done(step)
<1>1. \A i \in DOMAIN Steps : i < pc[m]
  BY StepsAre
<1> QED
  BY <1>1 DEF Inv, Progress, Occurs

LEMMA ChangeStep ==
  ASSUME Inv, NEW n \in Namespaces, NEW a \in ClientAliases, ChangeAlias(n, a)
  PROVE  Inv'
<1> USE DEF Inv
<1>1. UNCHANGED <<legacy, tables, entries, projects, indexes, pc, held, validated, refused, crashes>>
  BY DEF ChangeAlias
<1>2. aliasTable \notin tables
  <2>1. PICK m \in Instances : pc[m] = Serving
    BY DEF ChangeAlias
  <2>2. Occurs(<<"drop", aliasTable>>) /\ aliasTable \in LegacyTables
    BY EveryStep DEF aliasTable, LegacyTables, ListTables
  <2> QED
    BY <2>1, <2>2, Served DEF Done
<1>3. a \in Aliases /\ aliasTable \in ListTables
  BY MigrationAssumption DEF aliasTable, ListTables
<1>4. /\ lists' \in [ListTables -> [Namespaces -> SUBSET (Aliases \cup Ranges)]]
      /\ told' \in [Namespaces -> SUBSET Aliases]
      /\ \A k \in Namespaces : lists[aliasTable][k] = told[k] => lists'[aliasTable][k] = told'[k]
  <2>1. PICK new \in {lists[aliasTable][n] \cup {a}, lists[aliasTable][n] \ {a}},
             known \in {told[n] \cup {a}, told[n] \ {a}} :
          /\ lists' = [lists EXCEPT ![aliasTable][n] = new]
          /\ told' = [told EXCEPT ![n] = known]
          /\ lists[aliasTable][n] = told[n] => new = known
    BY DEF ChangeAlias, aliasTable
  <2>2. new \in SUBSET (Aliases \cup Ranges) /\ known \in SUBSET Aliases
    BY <1>3, <2>1 DEF TypeOK
  <2> QED
    BY <1>3, <2>1, <2>2 DEF TypeOK
<1>5. lists[aliasTable] = told => lists'[aliasTable] = told'
  <2>1. lists'[aliasTable] \in [Namespaces -> SUBSET (Aliases \cup Ranges)]
    BY <1>3, <1>4
  <2> QED
    BY <1>4, <2>1
<1>6. overtaken' \in BOOLEAN /\ (overtaken => overtaken')
  BY DEF ChangeAlias, TypeOK
<1>7. TypeOK' /\ Held'
  BY <1>1, <1>4, <1>6 DEF TypeOK, Held
<1>8. NeverUnindexed' /\ NamesIn("type_entries")' = NamesIn("type_entries")
  BY <1>1 DEF NeverUnindexed, NamesIn
<1>9. Progress'
  <2>1. ASSUME NEW i \in DOMAIN Steps, Done(Steps[i]) PROVE Done(Steps[i])'
    BY <1>1, <1>5, <1>6, <1>8, <2>1 DEF Done, Recorded
  <2> QED
    BY <1>1, <2>1 DEF Progress
<1>10. AliasesKept'
  <2>1. ASSUME ~overtaken' PROVE lists'[aliasTable] = told'
    BY <1>2, <1>5, <1>6, <2>1 DEF AliasesKept
  <2>2. ASSUME ~overtaken', NEW q \in Instances, At(q, "write", aliasTable)' PROVE DOMAIN held'[q] = {}
    <3>1. At(q, "write", aliasTable)
      BY <1>1, <2>2 DEF At
    <3>2. held[q] = <<>>
      BY <2>2, <3>1 DEF ChangeAlias, aliasTable
    <3>3. DOMAIN <<>> = {}
      OBVIOUS
    <3> QED
      BY <1>1, <3>2, <3>3
  <2> QED
    BY <1>1, <1>2, <2>1, <2>2 DEF AliasesKept
<1> QED
  BY <1>7, <1>8, <1>9, <1>10

-----------------------------------------------------------------------------
LEMMA NextInv == Inv /\ [Next]_vars => Inv'
<1> SUFFICES ASSUME Inv, [Next]_vars PROVE Inv'
  OBVIOUS
<1>1. CASE UNCHANGED vars
  <2>1. TypeOK' /\ Held' /\ NeverUnindexed'
    BY <1>1 DEF Inv, vars, data, TypeOK, Held, NeverUnindexed
  <2>2. Progress'
    <3>1. NamesIn("type_entries")' = NamesIn("type_entries")
      BY <1>1 DEF vars, data, NamesIn
    <3>2. ASSUME NEW i \in DOMAIN Steps, Done(Steps[i]) PROVE Done(Steps[i])'
      BY <1>1, <3>1, <3>2 DEF vars, data, Done, Recorded
    <3> QED
      BY <1>1, <3>2 DEF Inv, Progress, vars
  <2>3. AliasesKept'
    BY <1>1 DEF Inv, AliasesKept, At, vars, data
  <2> QED
    BY <2>1, <2>2, <2>3 DEF Inv
<1>2. ASSUME NEW m \in Instances, Migrate(m) \/ Crash(m) PROVE Inv'
  BY <1>2, StartOrCrash, CreateStep, ReadStep, WriteStep, LinkAllocationsStep, LinkRevocationsStep,
     BackfillStep, CheckStep, NormalizeStep, AuditStep, IndexStep, DropStep
     DEF Migrate
<1>3. ASSUME NEW n \in Namespaces, NEW a \in ClientAliases, ChangeAlias(n, a) PROVE Inv'
  BY <1>3, ChangeStep
<1> QED
  BY <1>1, <1>2, <1>3 DEF Next

LEMMA Invariance == Spec => []Inv
<1> QED
  BY InitInv, NextInv, PTL DEF Spec

\* The types of what the migration reads and writes (internal/store/db.go).
THEOREM MigrationTypes == Spec => []TypeOK
<1>1. Inv => TypeOK
  BY DEF Inv
<1> QED
  BY <1>1, Invariance, PTL

\* At all times a unique index on values and one on symbols.
THEOREM NeverWithoutIndex == Spec => []NeverUnindexed
<1>1. Inv => NeverUnindexed
  BY DEF Inv
<1> QED
  BY <1>1, Invariance, PTL

\* No process serves before the database is migrated, whatever crashes and
\* other processes there were.
THEOREM CompleteWhenServed == Spec => []ServedIsComplete
<1>1. ASSUME Inv, NEW m \in Instances, pc[m] = Serving
      PROVE  /\ tables = {} /\ indexes = NewIndexes
             /\ \A e \in Entries :
                  /\ entries[e].status = "ACTIVE" => entries[e].revokedAt = Nil
                  /\ entries[e].status = "REVOKED" => entries[e].revokedAt # Nil
             /\ Seeds \cup NamesIn("type_entries") \subseteq projects
  <2>1. \A t \in LegacyTables : t \notin tables
    BY <1>1, EveryStep, Served DEF Done
  <2>2. (\A x \in NewIndexes : x \in indexes) /\ \A x \in OldIndexes : x \notin indexes
    BY <1>1, EveryStep, Served DEF Done
  <2>3. \A e \in Entries :
          /\ entries[e].status = "ACTIVE" => entries[e].revokedAt = Nil
          /\ entries[e].status = "REVOKED" => entries[e].revokedAt # Nil
    BY <1>1, EveryStep, Served DEF Done
  <2>4. Seeds \cup NamesIn("type_entries") \subseteq projects
    BY <1>1, EveryStep, Served DEF Done
  <2> QED
    BY <1>1, <2>1, <2>2, <2>3, <2>4 DEF Inv, TypeOK
<1>2. Inv => ServedIsComplete
  BY <1>1 DEF ServedIsComplete
<1> QED
  BY <1>2, Invariance, PTL

\* Unless a process was overtaken, the aliases are those that clients know.
THEOREM AliasesAreKept == Spec => []AliasesAsTold
<1>1. ASSUME Inv, NEW m \in Instances, pc[m] = Serving, ~overtaken PROVE lists[aliasTable] = told
  <2>1. Occurs(<<"drop", aliasTable>>) /\ aliasTable \in LegacyTables
    BY EveryStep DEF aliasTable, LegacyTables, ListTables
  <2>2. aliasTable \notin tables
    BY <1>1, <2>1, Served DEF Done
  <2> QED
    BY <1>1, <2>2 DEF Inv, AliasesKept
<1>2. Inv => AliasesAsTold
  BY <1>1 DEF AliasesAsTold, aliasTable
<1> QED
  BY <1>2, Invariance, PTL

-----------------------------------------------------------------------------
(***************************************************************************)
(* What becomes of the content of the legacy tables.  Moved says, in terms *)
(* that no later step undoes, what a step has moved or found out as long   *)
(* as the table that the step reads is there.  For the two lists this      *)
(* needs no count: a row of a list is written as a whole.  The links of    *)
(* allocations need theirs, because the UPDATE keeps one of several links  *)
(* of an entry.                                                            *)
(***************************************************************************)
linkTable == "type_allocation_entries"

\* The count of the links shows whether an entry has two: unless an id
\* without a link makes up for one, and the migration is the first to write
\* ids (ensureColumn of allocation_id).
LinkedOnce(d) == \A p, q \in d.links : p[1] = q[1] => p = q
IdsFromLinks(d) ==
  \A e \in Entries : d.entries[e].alloc # Nil => \E a \in Allocs : <<e, a>> \in d.links
Countable(d) == LinkedOnce(d) \/ IdsFromLinks(d)
CountableLinks == \A d \in Databases : Countable(d)

Carried == \A e \in Entries : Linked(e) => entries[e].alloc = LinkOf(e)
Settled == Recorded /\ \A e \in Entries : entries[e].status = "ACTIVE" => entries[e].revokedAt = Nil

Moved(step) ==
  /\ \A t \in ListTables : step = <<"write", t>> /\ t \in tables =>
       \A n \in Namespaces : lists[t][n] = legacy.lists[t][n]
  /\ step = <<"link", linkTable>> /\ linkTable \in tables => Carried
  /\ step = <<"register", "reserved_ranges">> => NamesIn("reserved_ranges") \subseteq projects
  /\ step = <<"check", linkTable>> /\ linkTable \in tables => LinkedOnce(legacy)
  /\ step = <<"check", "type_allocations">> /\ "type_allocations" \in tables =>
       \A a \in legacy.allocations :
         Carried /\ LinkedOnce(legacy) /\ \E e \in Entries : <<e, a>> \in legacy.links
  /\ step = <<"audit", "ALLOCATE">> /\ "audit_logs" \in tables =>
       \A e \in Entries : legacy.audit["ALLOCATE"][e] # Nil => entries[e].request_ip # Nil
  /\ step = <<"audit", "REVOKE">> =>
       /\ Settled
       /\ "audit_logs" \in tables =>
            \A e \in Entries :
              legacy.audit["REVOKE"][e] # Nil /\ entries[e].status = "REVOKED" => entries[e].revoke_ip # Nil

MovedSoFar ==
  \A m \in Instances : \A i \in DOMAIN Steps : i < pc[m] => Moved(Steps[i])

\* A list is written row by row: each row is there as a whole, or not yet.
ListsKept ==
  \A t \in ListTables : t \in tables =>
    /\ \A n \in Namespaces : lists[t][n] \in {{}, legacy.lists[t][n]}
    /\ \A m \in Instances : At(m, "write", t) =>
         \A n \in Namespaces :
           IF n \in DOMAIN held[m] THEN held[m][n] = legacy.lists[t][n]
           ELSE lists[t][n] = legacy.lists[t][n]

OnlyLinked == IdsFromLinks(legacy) => \A e \in Entries : entries[e].alloc # Nil => Linked(e)

TableInv == Countable(legacy) /\ MovedSoFar /\ ListsKept /\ OnlyLinked

LEMMA TableInit == Init /\ Countable(legacy) => TableInv
<1> SUFFICES ASSUME Init, Countable(legacy) PROVE TableInv
  OBVIOUS
<1>1. MovedSoFar
  <2>1. \A m \in Instances : pc[m] = 0
    BY DEF Init, Down
  <2> QED
    BY <2>1, FirstStep DEF MovedSoFar
<1>2. ListsKept
  <2>1. \A m \in Instances : ~At(m, "write", "namespace_aliases") /\ ~At(m, "write", "reserved_ranges")
    BY StepsAre DEF Init, At, Down
  <2>2. \A t \in ListTables, n \in Namespaces : lists[t][n] = {}
    BY DEF Init
  <2> QED
    BY <2>1, <2>2 DEF ListsKept, ListTables
<1>3. OnlyLinked
  BY DEF Init, OnlyLinked, IdsFromLinks, Linked
<1> QED
  BY <1>1, <1>2, <1>3 DEF TableInv

Earlier(i, step) == \E j \in DOMAIN Steps : j < i /\ Steps[j] = step

\* The order of the steps again: what comes before a check and a drop.
LEMMA TableOrder ==
  ASSUME NEW i \in DOMAIN Steps
  PROVE  /\ Steps[i] = <<"check", linkTable>> => Earlier(i, <<"link", linkTable>>)
         /\ Steps[i] = <<"check", "type_allocations">> =>
              Earlier(i, <<"link", linkTable>>) /\ Earlier(i, <<"check", linkTable>>)
         /\ Steps[i] = <<"audit", "REVOKE">> => Earlier(i, <<"normalize", "status">>)
         /\ Steps[i] = <<"drop", linkTable>> =>
              Earlier(i, <<"link", linkTable>>) /\ Earlier(i, <<"check", linkTable>>)
         /\ Steps[i] = <<"drop", "type_entry_revocations">> => Earlier(i, <<"normalize", "status">>)
         /\ Steps[i] = <<"drop", "type_allocations">> => Earlier(i, <<"check", "type_allocations">>)
         /\ Steps[i] = <<"drop", "namespace_aliases">> => Earlier(i, <<"write", "namespace_aliases">>)
         /\ Steps[i] = <<"drop", "reserved_ranges">> =>
              Earlier(i, <<"write", "reserved_ranges">>) /\ Earlier(i, <<"register", "reserved_ranges">>)
         /\ Steps[i] = <<"drop", "audit_logs">> =>
              Earlier(i, <<"audit", "ALLOCATE">>) /\ Earlier(i, <<"audit", "REVOKE">>)
<1>0. i \in 1..28
  BY StepsAre
<1>1. /\ Steps[i] = <<"check", linkTable>> => i = 12
      /\ Steps[i] = <<"check", "type_allocations">> => i = 14
      /\ Steps[i] = <<"audit", "REVOKE">> => i = 18
  BY <1>0, StepsAre DEF linkTable
<1>2. /\ Steps[i] = <<"drop", linkTable>> => i = 23
      /\ Steps[i] = <<"drop", "type_entry_revocations">> => i = 24
      /\ Steps[i] = <<"drop", "type_allocations">> => i = 25
  BY <1>0, StepsAre DEF linkTable
<1>3. /\ Steps[i] = <<"drop", "namespace_aliases">> => i = 26
      /\ Steps[i] = <<"drop", "reserved_ranges">> => i = 27
      /\ Steps[i] = <<"drop", "audit_logs">> => i = 28
  BY <1>0, StepsAre
<1>4. /\ 6 < i => Earlier(i, <<"link", linkTable>>)
      /\ 12 < i => Earlier(i, <<"check", linkTable>>)
      /\ 14 < i => Earlier(i, <<"check", "type_allocations">>)
      /\ 15 < i => Earlier(i, <<"normalize", "status">>)
      /\ 3 < i => Earlier(i, <<"write", "namespace_aliases">>)
  BY <1>0, StepsAre DEF Earlier, linkTable
<1>5. /\ 5 < i => Earlier(i, <<"write", "reserved_ranges">>)
      /\ 9 < i => Earlier(i, <<"register", "reserved_ranges">>)
      /\ 17 < i => Earlier(i, <<"audit", "ALLOCATE">>)
      /\ 18 < i => Earlier(i, <<"audit", "REVOKE">>)
  BY <1>0, StepsAre DEF Earlier
<1> QED
  BY <1>1, <1>2, <1>3, <1>4, <1>5

\* Where a process is, the steps before have been taken.
LEMMA Before ==
  ASSUME Inv, MovedSoFar, NEW m \in Instances, NEW what, NEW table, At(m, what, table),
         NEW step, \A i \in DOMAIN Steps : Steps[i] = <<what, table>> => Earlier(i, step)
  PROVE  Moved(step) /\ Done(step)
<1>1. PICK i : i = pc[m]
  OBVIOUS
<1>2. i \in DOMAIN Steps /\ Steps[i] = <<what, table>>
  BY <1>1 DEF At
<1>3. PICK j \in DOMAIN Steps : j < i /\ Steps[j] = step
  BY <1>2 DEF Earlier
<1> QED
  BY <1>1, <1>3 DEF Inv, Progress, MovedSoFar

\* What a step can do to a row, and to which tables and names there are.
RowMoves(e) ==
  /\ \/ entries'[e].alloc = entries[e].alloc
     \/ linkTable \in tables /\ Linked(e) /\ entries'[e].alloc = LinkOf(e)
  /\ \/ entries'[e].status = entries[e].status
     \/ entries[e].status = "ACTIVE" /\ entries[e].revokedAt # Nil
  /\ \/ entries'[e].revokedAt = entries[e].revokedAt
     \/ "type_entry_revocations" \in tables /\ e \in legacy.revocations /\ entries'[e].revokedAt = "recorded"
     \/ entries[e].status = "REVOKED" /\ entries[e].revokedAt = Nil
  /\ entries[e].request_ip # Nil => entries'[e].request_ip # Nil
  /\ entries[e].revoke_ip # Nil => entries'[e].revoke_ip # Nil

LEMMA RowsMove ==
  ASSUME Inv, [Next]_vars
  PROVE  \A e \in Entries : RowMoves(e)
<1> SUFFICES ASSUME NEW e \in Entries PROVE RowMoves(e)
  OBVIOUS
<1>0. entries[e] \in EntryRow
  BY DEF Inv, TypeOK
<1>1. ASSUME NEW m \in Instances, LinkAllocations(m) PROVE RowMoves(e)
  <2>1. \/ entries'[e] = entries[e]
        \/ linkTable \in tables /\ Linked(e) /\ entries'[e] = [entries[e] EXCEPT !.alloc = LinkOf(e)]
    BY <1>1 DEF LinkAllocations, linkTable
  <2> QED
    BY <1>0, <2>1 DEF EntryRow, RowMoves
<1>2. ASSUME NEW m \in Instances, LinkRevocations(m) PROVE RowMoves(e)
  <2>1. \/ entries'[e] = entries[e]
        \/ /\ "type_entry_revocations" \in tables /\ e \in legacy.revocations
           /\ entries'[e] = [entries[e] EXCEPT !.revokedAt = "recorded"]
    BY <1>2 DEF LinkRevocations
  <2> QED
    BY <1>0, <2>1 DEF EntryRow, RowMoves
<1>3. ASSUME NEW m \in Instances, NEW what \in {"status", "revoked_at"}, NormalizeLifecycle(m, what)
      PROVE  RowMoves(e)
  <2>1. \/ entries'[e] = entries[e]
        \/ /\ entries[e].status = "ACTIVE" /\ entries[e].revokedAt # Nil
           /\ entries'[e] = [entries[e] EXCEPT !.status = "REVOKED"]
        \/ /\ entries[e].status = "REVOKED" /\ entries[e].revokedAt = Nil
           /\ entries'[e] = [entries[e] EXCEPT !.revokedAt = "created"]
    BY <1>3 DEF NormalizeLifecycle, Normalized
  <2> QED
    BY <1>0, <2>1 DEF EntryRow, RowMoves
<1>4. ASSUME NEW m \in Instances, NEW action \in {"ALLOCATE", "REVOKE"}, MigrateAuditIPs(m, action)
      PROVE  RowMoves(e)
  <2>1. PICK ip : ip = legacy.audit[action][e]
    OBVIOUS
  <2>2. \/ entries'[e] = entries[e]
        \/ entries[e].request_ip = Nil /\ entries'[e] = [entries[e] EXCEPT !.request_ip = ip]
        \/ entries[e].revoke_ip = Nil /\ entries'[e] = [entries[e] EXCEPT !.revoke_ip = ip]
    BY <1>4, <2>1 DEF MigrateAuditIPs, WithAudit
  <2> QED
    BY <1>0, <2>2 DEF EntryRow, RowMoves
<1>5. CASE UNCHANGED entries
  BY <1>5 DEF RowMoves
<1> QED
  BY <1>1, <1>2, <1>3, <1>4, <1>5 DEF Next, Migrate, Crash, ChangeAlias, vars, data, Start, CreateTables,
     ReadList, WriteList, BackfillProjects, Check, DropTable, AddIndex, RemoveIndex

LEMMA TablesMove ==
  ASSUME [Next]_vars
  PROVE  legacy' = legacy /\ tables' \subseteq tables /\ projects \subseteq projects'
<1>1. legacy' = legacy
  BY DEF Next, Migrate, Crash, ChangeAlias, vars, data, Start, CreateTables, Quiet, LinkAllocations,
     LinkRevocations, NormalizeLifecycle, MigrateAuditIPs,
     ReadList, WriteList, BackfillProjects, Check, DropTable, AddIndex, RemoveIndex
<1>2. tables' \subseteq tables
  BY DEF Next, Migrate, Crash, ChangeAlias, vars, data, Start, CreateTables, Quiet, LinkAllocations,
     LinkRevocations, NormalizeLifecycle, MigrateAuditIPs,
     ReadList, WriteList, BackfillProjects, Check, DropTable, AddIndex, RemoveIndex
<1>3. projects \subseteq projects'
  BY DEF Next, Migrate, Crash, ChangeAlias, vars, data, Start, CreateTables, Quiet, LinkAllocations,
     LinkRevocations, NormalizeLifecycle, MigrateAuditIPs,
     ReadList, WriteList, BackfillProjects, Check, DropTable, AddIndex, RemoveIndex
<1> QED
  BY <1>1, <1>2, <1>3

-----------------------------------------------------------------------------
(***************************************************************************)
(* The lists, while their tables are there.                                *)
(***************************************************************************)
\* No list is touched while its table is there but by the rows of the table.
RowsKept(t) ==
  \A n \in Namespaces : lists'[t][n] = lists[t][n] \/ lists'[t][n] = legacy.lists[t][n]

LEMMA ListMoves ==
  ASSUME Inv, ListsKept, [Next]_vars, NEW t \in ListTables, t \in tables
  PROVE  RowsKept(t)
<1>1. CASE UNCHANGED lists
  BY <1>1 DEF RowsKept
<1>2. ASSUME NEW m \in Instances, NEW u \in ListTables, WriteList(m, u) PROVE RowsKept(t)
  <2>1. CASE UNCHANGED lists
    BY <2>1 DEF RowsKept
  <2>2. ASSUME NEW n \in DOMAIN held[m], lists' = [lists EXCEPT ![u][n] = held[m][n]] PROVE RowsKept(t)
    <3>1. n \in Namespaces
      BY DEF Inv, Held
    <3>2. u = t => held[m][n] = legacy.lists[t][n]
      BY <1>2, <3>1 DEF WriteList, ListsKept
    <3>3. \A k \in Namespaces : lists'[t][k] = IF u = t /\ k = n THEN held[m][n] ELSE lists[t][k]
      BY <2>2, <3>1 DEF Inv, TypeOK
    <3> QED
      BY <3>2, <3>3 DEF RowsKept
  <2> QED
    BY <1>2, <2>1, <2>2 DEF WriteList
<1>3. ASSUME NEW n \in Namespaces, NEW a \in ClientAliases, ChangeAlias(n, a) PROVE RowsKept(t)
  <2>1. t # "namespace_aliases"
    <3>1. PICK m \in Instances : pc[m] = Serving
      BY <1>3 DEF ChangeAlias
    <3>2. t \in LegacyTables
      BY DEF LegacyTables
    <3> QED
      BY <3>1, <3>2, EveryStep, Served DEF Done
  <2>2. lists'[t] = lists[t]
    BY <1>3, <2>1 DEF ChangeAlias, Inv, TypeOK
  <2> QED
    BY <2>2 DEF RowsKept
<1> QED
  BY <1>1, <1>2, <1>3 DEF Next, Migrate, Crash, vars, data, Quiet, Start, CreateTables, LinkAllocations,
     LinkRevocations, NormalizeLifecycle, MigrateAuditIPs, ReadList,
     BackfillProjects, Check, DropTable, AddIndex, RemoveIndex

\* What the processes that write list t hold of it.
Holding(t) ==
  \A m \in Instances : At(m, "write", t) =>
    \A n \in Namespaces :
      IF n \in DOMAIN held[m] THEN held[m][n] = legacy.lists[t][n] ELSE lists[t][n] = legacy.lists[t][n]

LEMMA ReadHolds ==
  ASSUME Inv, ListsKept, NEW t \in ListTables, t \in tables, NEW m \in Instances, NEW u \in ListTables,
         ReadList(m, u)
  PROVE  Holding(t)'
<1> SUFFICES ASSUME NEW q \in Instances, At(q, "write", t)', NEW n \in Namespaces
             PROVE  IF n \in DOMAIN held'[q] THEN held'[q][n] = legacy'.lists[t][n]
                    ELSE lists'[t][n] = legacy'.lists[t][n]
  BY DEF Holding
<1>1. At(m, "read", u) /\ Advance(m) /\ UNCHANGED <<legacy, lists>> /\ held' = [held EXCEPT ![m] = Rows(u)]
  BY DEF ReadList, Quiet
<1>2. CASE q # m
  <2>1. At(q, "write", t)
    BY <1>1, <1>2, Advanced DEF At, Inv
  <2>2. held'[q] = held[q]
    BY <1>1, <1>2 DEF Inv, Held
  <2> QED
    BY <1>1, <2>1, <2>2 DEF ListsKept
<1>3. CASE q = m
  <2>1. u = t
    BY <1>1, <1>3, ArrivesFromRead DEF Inv
  <2>2. held'[q] = Rows(t)
    BY <1>1, <1>3, <2>1 DEF Inv, Held
  <2>3. /\ DOMAIN Rows(t) = {k \in Namespaces : legacy.lists[t][k] # {}}
        /\ \A k \in DOMAIN Rows(t) : Rows(t)[k] = legacy.lists[t][k]
    BY DEF Rows
  <2>4. legacy.lists[t][n] = {} => lists[t][n] = {}
    BY DEF ListsKept
  <2> QED
    BY <1>1, <2>2, <2>3, <2>4
<1> QED
  BY <1>2, <1>3

LEMMA WriteHolds ==
  ASSUME Inv, ListsKept, NEW t \in ListTables, t \in tables, NEW m \in Instances, NEW u \in ListTables,
         At(m, "write", u), NEW k \in DOMAIN held[m],
         lists' = [lists EXCEPT ![u][k] = held[m][k]],
         held' = [held EXCEPT ![m] = Restrict(@, DOMAIN @ \ {k})],
         UNCHANGED <<legacy, pc>>
  PROVE  Holding(t)'
<1> SUFFICES ASSUME NEW q \in Instances, At(q, "write", t)', NEW n \in Namespaces
             PROVE  IF n \in DOMAIN held'[q] THEN held'[q][n] = legacy'.lists[t][n]
                    ELSE lists'[t][n] = legacy'.lists[t][n]
  BY DEF Holding
<1>1. At(q, "write", t)
  BY DEF At
<1>2. IF n \in DOMAIN held[q] THEN held[q][n] = legacy.lists[t][n] ELSE lists[t][n] = legacy.lists[t][n]
  BY <1>1 DEF ListsKept
<1>3. /\ q # m => held'[q] = held[q]
      /\ DOMAIN held'[m] = DOMAIN held[m] \ {k}
      /\ \A i \in DOMAIN held'[m] : held'[m][i] = held[m][i]
  BY DEF Inv, Held, Restrict
<1>4. k \in Namespaces
  BY DEF Inv, Held
<1>5. lists'[t][n] = IF u = t /\ n = k THEN held[m][k] ELSE lists[t][n]
  BY <1>4 DEF Inv, TypeOK
<1>6. q = m => u = t
  BY <1>1 DEF At
<1>7. u = t => held[m][k] = legacy.lists[t][k]
  BY <1>4 DEF ListsKept
<1> QED
  BY <1>2, <1>3, <1>5, <1>6, <1>7

\* The steps that neither read nor write a list.
LEMMA OthersHold ==
  ASSUME Inv, ListsKept, NEW t \in ListTables, t \in tables, UNCHANGED <<legacy, lists>>,
         \A q \in Instances : At(q, "write", t)' => At(q, "write", t) /\ held'[q] = held[q]
  PROVE  Holding(t)'
BY DEF Holding, ListsKept

\* Where a step that advances comes to.
LEMMA AdvanceHolds ==
  ASSUME Inv, ListsKept, NEW t \in ListTables, t \in tables, UNCHANGED <<legacy, lists, held>>,
         NEW m \in Instances, NEW what, NEW table, At(m, what, table), Advance(m), what # "read"
  PROVE  Holding(t)'
<1>1. ASSUME NEW q \in Instances, At(q, "write", t)' PROVE At(q, "write", t) /\ held'[q] = held[q]
  BY <1>1, ArrivesFromRead DEF Inv
<1> QED
  BY <1>1, OthersHold

\* A process that starts or goes down is not writing.
LEMMA RestartHolds ==
  ASSUME Inv, ListsKept, NEW t \in ListTables, t \in tables, UNCHANGED <<legacy, lists>>,
         NEW m \in Instances, NEW k \in 0..1, pc' = [pc EXCEPT ![m] = k],
         \A q \in Instances \ {m} : held'[q] = held[q]
  PROVE  Holding(t)'
<1>1. ASSUME NEW q \in Instances, At(q, "write", t)' PROVE At(q, "write", t) /\ held'[q] = held[q]
  <2>1. q # m
    BY <1>1, StepsAre DEF At, Inv, TypeOK
  <2> QED
    BY <1>1, <2>1 DEF At, Inv, TypeOK
<1> QED
  BY <1>1, OthersHold

LEMMA ListsStay == Inv /\ ListsKept /\ [Next]_vars => ListsKept'
<1> SUFFICES ASSUME Inv, ListsKept, [Next]_vars, NEW t \in ListTables, t \in tables'
             PROVE  (\A n \in Namespaces : lists'[t][n] \in {{}, legacy'.lists[t][n]}) /\ Holding(t)'
  BY DEF ListsKept, Holding
<1>0. t \in tables /\ legacy' = legacy
  BY TablesMove
<1>1. \A n \in Namespaces : lists'[t][n] \in {{}, legacy'.lists[t][n]}
  BY <1>0, ListMoves DEF RowsKept, ListsKept
<1>2. CASE UNCHANGED vars
  <2>1. UNCHANGED <<lists, held, pc>>
    BY <1>2 DEF vars, data
  <2>2. \A q \in Instances : At(q, "write", t)' => At(q, "write", t)
    BY <2>1 DEF At
  <2> QED
    BY <1>0, <2>1, <2>2 DEF Holding, ListsKept
<1>3. ASSUME NEW m \in Instances, NEW u \in ListTables, ReadList(m, u) PROVE Holding(t)'
  BY <1>0, <1>3, ReadHolds
<1>4. ASSUME NEW m \in Instances, NEW u \in ListTables, WriteList(m, u) PROVE Holding(t)'
  <2>1. CASE Advance(m) /\ UNCHANGED <<lists, held>>
    BY <1>0, <1>4, <2>1, AdvanceHolds DEF WriteList
  <2> QED
    BY <1>0, <1>4, <2>1, WriteHolds DEF WriteList
<1>5. ASSUME NEW m \in Instances, Start(m) \/ Crash(m) PROVE Holding(t)'
  <2>1. PICK k \in 0..1 : pc' = [pc EXCEPT ![m] = k]
    BY <1>5 DEF Start, Crash, Goto, Advance, Down
  <2>2. UNCHANGED lists /\ \A q \in Instances \ {m} : held'[q] = held[q]
    BY <1>5 DEF Start, Crash, data, Inv, Held
  <2> QED
    BY <1>0, <2>1, <2>2, RestartHolds
<1>6. ASSUME NEW n \in Namespaces, NEW a \in ClientAliases, ChangeAlias(n, a) PROVE Holding(t)'
  <2>1. PICK m \in Instances : pc[m] = Serving
    BY <1>6 DEF ChangeAlias
  <2>2. t \in LegacyTables
    BY DEF LegacyTables
  <2> QED
    BY <1>0, <2>1, <2>2, EveryStep, Served DEF Done
<1>7. ASSUME NEW m \in Instances, NEW u \in LegacyTables, Check(m, u) PROVE Holding(t)'
  <2>0. At(m, "check", u) /\ UNCHANGED <<lists, held>>
    BY <1>7 DEF Check, data
  <2>1. CASE Advance(m)
    BY <1>0, <2>0, <2>1, AdvanceHolds
  <2>2. CASE Goto(m, Down)
    <3>1. pc' = [pc EXCEPT ![m] = 0] /\ 0 \in 0..1
      BY <2>2 DEF Goto, Down
    <3> QED
      BY <1>0, <2>0, <3>1, RestartHolds
  <2> QED
    BY <1>7, <2>1, <2>2 DEF Check
<1>8. ASSUME NEW m \in Instances,
             \/ CreateTables(m) \/ LinkAllocations(m) \/ LinkRevocations(m)
             \/ \E u \in {"type_entries", "reserved_ranges"} : BackfillProjects(m, u)
             \/ \E u \in LegacyTables : DropTable(m, u)
             \/ \E what \in {"status", "revoked_at"} : NormalizeLifecycle(m, what)
             \/ \E action \in {"ALLOCATE", "REVOKE"} : MigrateAuditIPs(m, action)
             \/ \E index \in NewIndexes : AddIndex(m, index)
             \/ \E index \in OldIndexes : RemoveIndex(m, index)
      PROVE  Holding(t)'
  <2>1. PICK what, table : At(m, what, table) /\ Advance(m) /\ what # "read" /\ UNCHANGED <<lists, held>>
    BY <1>8 DEF CreateTables, LinkAllocations, LinkRevocations, BackfillProjects, DropTable,
       NormalizeLifecycle, MigrateAuditIPs, AddIndex, RemoveIndex
  <2> QED
    BY <1>0, <2>1, AdvanceHolds
<1> QED
  BY <1>1, <1>2, <1>3, <1>4, <1>5, <1>6, <1>7, <1>8 DEF Next, Migrate

-----------------------------------------------------------------------------
(***************************************************************************)
(* What has been moved stays so.                                           *)
(***************************************************************************)
LEMMA SettledStays ==
  ASSUME Settled, \A e \in Entries : RowMoves(e), legacy' = legacy, tables' \subseteq tables, Inv
  PROVE  Settled'
<1>1. legacy.revocations \subseteq Entries /\ Nil # "recorded"
  BY MigrationAssumption DEF Inv, TypeOK, Database
<1>2. Recorded'
  BY <1>1 DEF Settled, Recorded, RowMoves
<1>3. ASSUME NEW e \in Entries, entries'[e].status = "ACTIVE" PROVE entries'[e].revokedAt = Nil
  <2>1. entries[e].revokedAt = Nil
    BY <1>3 DEF Settled, RowMoves
  <2>2. entries[e].status = "ACTIVE"
    BY <1>3, <2>1 DEF RowMoves
  <2> QED
    BY <1>1, <2>1, <2>2 DEF Settled, Recorded, RowMoves
<1> QED
  BY <1>2, <1>3 DEF Settled

LEMMA CarriedStays ==
  ASSUME Carried, \A e \in Entries : RowMoves(e), legacy' = legacy
  PROVE  Carried'
BY DEF Carried, RowMoves, Linked, LinkOf

LEMMA MovedStays ==
  ASSUME Inv, ListsKept, [Next]_vars, NEW step, Moved(step)
  PROVE  Moved(step)'
<1>1. /\ legacy' = legacy /\ tables' \subseteq tables /\ projects \subseteq projects'
      /\ \A e \in Entries : RowMoves(e)
  BY TablesMove, RowsMove
<1>2. ASSUME NEW t \in ListTables, step = <<"write", t>>, t \in tables', NEW n \in Namespaces
      PROVE  lists'[t][n] = legacy'.lists[t][n]
  <2>1. lists[t][n] = legacy.lists[t][n] /\ RowsKept(t)
    BY <1>1, <1>2, ListMoves DEF Moved
  <2> QED
    BY <1>1, <2>1 DEF RowsKept
<1>3. step = <<"link", linkTable>> /\ linkTable \in tables' => Carried'
  BY <1>1, CarriedStays DEF Moved
<1>4. step = <<"register", "reserved_ranges">> => NamesIn("reserved_ranges")' \subseteq projects'
  <2>1. NamesIn("reserved_ranges")' \subseteq NamesIn("reserved_ranges")
    BY <1>1 DEF NamesIn
  <2> QED
    BY <1>1, <2>1 DEF Moved
<1>5. step = <<"check", linkTable>> /\ linkTable \in tables' => LinkedOnce(legacy')
  BY <1>1 DEF Moved
<1>6. ASSUME step = <<"check", "type_allocations">>, "type_allocations" \in tables', NEW a \in legacy'.allocations
      PROVE  Carried' /\ LinkedOnce(legacy') /\ \E e \in Entries : <<e, a>> \in legacy'.links
  <2>1. Carried /\ LinkedOnce(legacy) /\ \E e \in Entries : <<e, a>> \in legacy.links
    BY <1>1, <1>6 DEF Moved
  <2> QED
    BY <1>1, <2>1, CarriedStays
<1>7. ASSUME step = <<"audit", "ALLOCATE">>, "audit_logs" \in tables', NEW e \in Entries,
             legacy'.audit["ALLOCATE"][e] # Nil
      PROVE  entries'[e].request_ip # Nil
  BY <1>1, <1>7 DEF Moved, RowMoves
<1>8. step = <<"audit", "REVOKE">> => Settled'
  BY <1>1, SettledStays DEF Moved
<1>9. ASSUME step = <<"audit", "REVOKE">>, "audit_logs" \in tables', NEW e \in Entries,
             legacy'.audit["REVOKE"][e] # Nil, entries'[e].status = "REVOKED"
      PROVE  entries'[e].revoke_ip # Nil
  <2>1. /\ Settled /\ RowMoves(e)
        /\ entries[e].status = "REVOKED" => entries[e].revoke_ip # Nil
    BY <1>1, <1>9 DEF Moved
  <2>2. entries[e].status = "REVOKED"
    BY <1>9, <2>1 DEF Settled, RowMoves
  <2> QED
    BY <2>1, <2>2 DEF RowMoves
<1> QED
  BY <1>2, <1>3, <1>4, <1>5, <1>6, <1>7, <1>8, <1>9 DEF Moved

LEMMA MovedMade ==
  ASSUME Inv, ListsKept, MovedSoFar, [Next]_vars, NEW m \in Instances, NEW what, NEW table,
         At(m, what, table), Advance(m), Moved(<<what, table>>)'
  PROVE  MovedSoFar'
<1> SUFFICES ASSUME NEW q \in Instances, NEW i \in DOMAIN Steps, i < pc'[q] PROVE Moved(Steps[i])'
  BY DEF MovedSoFar
<1>1. i \in 1..28 /\ pc[q] \in Nat
  BY StepNumbers DEF Down, Inv, TypeOK
<1>2. CASE i < pc[q]
  BY <1>2, MovedStays DEF MovedSoFar
<1>3. CASE ~(i < pc[q])
  <2>1. q = m /\ i = pc[m]
    BY <1>1, <1>3, Advanced DEF Inv
  <2>2. Steps[i] = <<what, table>>
    BY <2>1, Advanced DEF Inv
  <2> QED
    BY <2>2
<1> QED
  BY <1>2, <1>3

\* A step that takes no process forward.
LEMMA MovedBefore ==
  ASSUME Inv, ListsKept, MovedSoFar, [Next]_vars,
         \A q \in Instances : pc'[q] = pc[q] \/ pc'[q] \in 0..1
  PROVE  MovedSoFar'
<1> SUFFICES ASSUME NEW q \in Instances, NEW i \in DOMAIN Steps, i < pc'[q] PROVE Moved(Steps[i])'
  BY DEF MovedSoFar
<1>1. i \in 1..28
  BY StepNumbers
<1>2. i < pc[q]
  BY <1>1
<1> QED
  BY <1>2, MovedStays DEF MovedSoFar

-----------------------------------------------------------------------------
(***************************************************************************)
(* What each step moves.                                                   *)
(***************************************************************************)
\* As many links as entries with an id: every entry has one link.
LEMMA CountedOnce ==
  ASSUME Inv, TableInv, Carried, linkTable \in tables, Passes(linkTable)
  PROVE  LinkedOnce(legacy)
<1> DEFINE E == {e \in Entries : entries[e].alloc # Nil}
           f == [link \in legacy.links |-> link[1]]
<1>0. /\ legacy \in Databases /\ IsFiniteSet(legacy.links) /\ Nil \notin Allocs
      /\ legacy.links \subseteq Entries \X Allocs
  BY MigrationAssumption DEF Inv, TypeOK, Database
<1>1. CASE LinkedOnce(legacy)
  BY <1>1
<1>2. CASE IdsFromLinks(legacy)
  <2>1. Cardinality(legacy.links) = Cardinality(E)
    BY DEF Passes, OldCount, NewCount, linkTable, ListTables
  <2>2. ASSUME NEW e \in Entries, Linked(e) PROVE e \in E
    <3>1. LinkOf(e) \in Allocs
      BY <2>2 DEF Linked, LinkOf
    <3> QED
      BY <1>0, <2>2, <3>1 DEF Carried
  <2>3. ASSUME NEW link \in legacy.links PROVE link[1] \in E
    <3>1. link[1] \in Entries /\ link[2] \in Allocs /\ link = <<link[1], link[2]>>
      BY <1>0
    <3>2. Linked(link[1])
      BY <3>1 DEF Linked
    <3> QED
      BY <2>2, <3>1, <3>2
  <2>4. ASSUME NEW e \in E PROVE \E link \in legacy.links : link[1] = e
    <3>1. Linked(e)
      BY <1>2 DEF TableInv, OnlyLinked
    <3>2. PICK a \in Allocs : <<e, a>> \in legacy.links
      BY <3>1 DEF Linked
    <3> QED
      BY <3>2
  <2>5. f \in Surjection(legacy.links, E)
    <3>1. f \in [legacy.links -> E]
      BY <2>3
    <3>2. \A e \in E : \E link \in legacy.links : f[link] = e
      BY <2>4
    <3> QED
      BY <3>1, <3>2 DEF Surjection
  <2>6. IsFiniteSet(E)
    BY <1>0, <2>5, FS_Surjection
  <2>7. f \in Injection(legacy.links, E)
    BY <1>0, <2>1, <2>5, <2>6, FS_SurjSameCardinalityImpliesInj
  <2>8. \A p, q \in legacy.links : f[p] = f[q] => p = q
    BY <2>7 DEF Injection, IsInjective
  <2> QED
    BY <2>8 DEF LinkedOnce
<1> QED
  BY <1>1, <1>2 DEF TableInv, Countable

LEMMA CheckMoves ==
  ASSUME Inv, TableInv, [Next]_vars, NEW m \in Instances, NEW t \in LegacyTables, Check(m, t), Advance(m)
  PROVE  Moved(<<"check", t>>)'
<1>0. At(m, "check", t) /\ UNCHANGED <<legacy, tables, entries>>
  BY DEF Check, data
<1>1. pc'[m] = pc[m] + 1 /\ pc[m] \in 1..28
  BY <1>0, Advanced, StepsAre DEF Inv
<1>2. Passes(t)
  <2>1. pc'[m] # Down
    BY <1>1 DEF Down
  <2>2. Goto(m, Down) => pc'[m] = Down
    BY DEF Goto, Inv, TypeOK
  <2> QED
    BY <2>1, <2>2 DEF Check
<1>3. CASE t = linkTable
  <2>1. \A i \in DOMAIN Steps : Steps[i] = <<"check", linkTable>> => Earlier(i, <<"link", linkTable>>)
    BY TableOrder
  <2>2. Moved(<<"link", linkTable>>)
    BY <1>0, <1>3, <2>1, Before DEF TableInv
  <2>3. linkTable \in tables => LinkedOnce(legacy)
    BY <1>2, <1>3, <2>2, CountedOnce DEF Moved
  <2> QED
    BY <1>0, <1>3, <2>3 DEF Moved, linkTable
<1>4. CASE t = "type_allocations"
  <2>1. \A i \in DOMAIN Steps : Steps[i] = <<"check", "type_allocations">> =>
          Earlier(i, <<"link", linkTable>>) /\ Earlier(i, <<"check", linkTable>>)
    BY TableOrder
  <2>2. Moved(<<"link", linkTable>>) /\ Moved(<<"check", linkTable>>)
    BY <1>0, <1>4, <2>1, Before DEF TableInv
  <2>3. linkTable \in tables => Carried /\ LinkedOnce(legacy)
    BY <2>2 DEF Moved
  <2>4. "type_allocations" \in tables => Orphaned = {}
    BY <1>2, <1>4 DEF Passes
  <2>5. ASSUME "type_allocations" \in tables, NEW a \in legacy.allocations
        PROVE  Carried /\ LinkedOnce(legacy) /\ \E e \in Entries : <<e, a>> \in legacy.links
    <3>1. linkTable \in tables
      BY <2>4, <2>5 DEF Orphaned, linkTable
    <3> QED
      BY <2>3, <2>4, <2>5, <3>1 DEF Orphaned, linkTable
  <2>6. Carried' <=> Carried
    BY <1>0 DEF Carried, Linked, LinkOf
  <2> QED
    BY <1>0, <1>4, <2>5, <2>6 DEF Moved, linkTable
<1>5. CASE t \notin {linkTable, "type_allocations"}
  BY <1>5 DEF Moved, linkTable
<1> QED
  BY <1>3, <1>4, <1>5

LEMMA LinkMoves ==
  ASSUME Inv, NEW m \in Instances, LinkAllocations(m)
  PROVE  Moved(<<"link", linkTable>>)'
<1>1. ASSUME linkTable \in tables, NEW e \in Entries, Linked(e) PROVE entries'[e].alloc = LinkOf(e)
  <2>1. entries'[e] = [entries[e] EXCEPT !.alloc = LinkOf(e)]
    BY <1>1 DEF LinkAllocations, linkTable
  <2>2. entries[e] \in EntryRow
    BY DEF Inv, TypeOK
  <2> QED
    BY <2>1, <2>2 DEF EntryRow
<1>2. legacy' = legacy /\ tables' = tables
  BY DEF LinkAllocations, Quiet
<1>3. linkTable \in tables => Carried'
  BY <1>1, <1>2 DEF Carried, Linked, LinkOf
<1> QED
  BY <1>2, <1>3 DEF Moved, linkTable

LEMMA AuditMoves ==
  ASSUME Inv, TableInv, [Next]_vars, NEW m \in Instances, NEW action \in {"ALLOCATE", "REVOKE"},
         MigrateAuditIPs(m, action)
  PROVE  Moved(<<"audit", action>>)'
<1>0. At(m, "audit", action) /\ UNCHANGED <<legacy, tables>> /\ Nil \notin IPs
  BY MigrationAssumption DEF MigrateAuditIPs, Quiet
<1>1. ASSUME "audit_logs" \in tables, NEW e \in Entries, legacy.audit[action][e] # Nil
      PROVE  /\ action = "ALLOCATE" => entries'[e].request_ip # Nil
             /\ action = "REVOKE" /\ entries'[e].status = "REVOKED" => entries'[e].revoke_ip # Nil
  <2>1. entries[e] \in EntryRow /\ legacy.audit[action][e] \in IPs
    BY <1>1, MigrationAssumption DEF Inv, TypeOK, Database
  <2>2. PICK ip \in IPs : ip = legacy.audit[action][e]
    BY <2>1
  <2>3. entries'[e] = WithAudit(entries[e], action, ip)
    BY <1>1, <2>2 DEF MigrateAuditIPs
  <2>4. CASE action = "ALLOCATE"
    BY <1>0, <2>1, <2>3, <2>4 DEF WithAudit, EntryRow
  <2>5. CASE action = "REVOKE"
    BY <1>0, <2>1, <2>3, <2>5 DEF WithAudit, EntryRow
  <2> QED
    BY <2>4, <2>5
<1>2. action = "REVOKE" => Settled'
  <2>1. \A i \in DOMAIN Steps : Steps[i] = <<"audit", "REVOKE">> => Earlier(i, <<"normalize", "status">>)
    BY TableOrder
  <2>2. action = "REVOKE" => Done(<<"normalize", "status">>)
    BY <1>0, <2>1, Before DEF TableInv
  <2>3. action = "REVOKE" => Settled
    BY <2>2 DEF Done, Settled
  <2> QED
    BY <2>3, TablesMove, RowsMove, SettledStays
<1>3. CASE action = "ALLOCATE"
  BY <1>0, <1>1, <1>3 DEF Moved
<1>4. CASE action = "REVOKE"
  BY <1>0, <1>1, <1>2, <1>4 DEF Moved
<1> QED
  BY <1>3, <1>4

LEMMA WriteMoves ==
  ASSUME Inv, ListsKept, NEW m \in Instances, NEW t \in ListTables, WriteList(m, t), Advance(m)
  PROVE  Moved(<<"write", t>>)'
<1>1. At(m, "write", t) /\ UNCHANGED <<legacy, tables>>
  BY DEF WriteList, Quiet
<1>2. DOMAIN held[m] = {} /\ lists' = lists
  <2>1. pc' # pc
    <3>1. pc'[m] = pc[m] + 1 /\ pc[m] \in 1..28
      BY <1>1, Advanced, StepsAre DEF Inv
    <3> QED
      BY <3>1
  <2> QED
    BY <2>1 DEF WriteList
<1>3. t \in tables => \A n \in Namespaces : lists[t][n] = legacy.lists[t][n]
  BY <1>1, <1>2 DEF ListsKept
<1> QED
  BY <1>1, <1>2, <1>3 DEF Moved

LEMMA RegisterMoves ==
  ASSUME NEW m \in Instances, NEW t \in {"type_entries", "reserved_ranges"}, BackfillProjects(m, t)
  PROVE  Moved(<<"register", t>>)'
<1>1. projects' = projects \cup NamesIn(t) /\ UNCHANGED <<legacy, tables>>
  BY DEF BackfillProjects, Quiet
<1>2. t = "reserved_ranges" => NamesIn("reserved_ranges")' \subseteq projects'
  <2>1. NamesIn("reserved_ranges")' = NamesIn("reserved_ranges")
    BY <1>1 DEF NamesIn
  <2> QED
    BY <1>1, <2>1
<1> QED
  BY <1>2 DEF Moved

LEMMA MigrateMoves ==
  ASSUME Inv, TableInv, [Next]_vars, NEW m \in Instances, Migrate(m)
  PROVE  MovedSoFar'
<1> USE DEF TableInv
<1>1. CASE Start(m)
  <2>1. \A q \in Instances : pc'[q] = pc[q] \/ pc'[q] \in 0..1
    BY <1>1 DEF Start, Advance, Goto, Down, Inv, TypeOK
  <2> QED
    BY <2>1, MovedBefore
<1>2. ASSUME NEW t \in ListTables, WriteList(m, t) PROVE MovedSoFar'
  <2>1. CASE Advance(m)
    BY <1>2, <2>1, WriteMoves, MovedMade DEF WriteList
  <2>2. CASE UNCHANGED pc
    BY <2>2, MovedBefore
  <2> QED
    BY <1>2, <2>1, <2>2 DEF WriteList
<1>3. ASSUME NEW t \in LegacyTables, Check(m, t) PROVE MovedSoFar'
  <2>1. CASE Advance(m)
    BY <1>3, <2>1, CheckMoves, MovedMade DEF Check
  <2>2. CASE Goto(m, Down)
    <3>1. \A q \in Instances : pc'[q] = pc[q] \/ pc'[q] \in 0..1
      BY <2>2 DEF Goto, Down, Inv, TypeOK
    <3> QED
      BY <3>1, MovedBefore
  <2> QED
    BY <1>3, <2>1, <2>2 DEF Check
<1>4. CASE LinkAllocations(m)
  <2>1. At(m, "link", linkTable) /\ Advance(m)
    BY <1>4 DEF LinkAllocations, linkTable
  <2> QED
    BY <1>4, <2>1, LinkMoves, MovedMade
<1>5. ASSUME NEW t \in {"type_entries", "reserved_ranges"}, BackfillProjects(m, t) PROVE MovedSoFar'
  BY <1>5, RegisterMoves, MovedMade DEF BackfillProjects
<1>6. ASSUME NEW action \in {"ALLOCATE", "REVOKE"}, MigrateAuditIPs(m, action) PROVE MovedSoFar'
  BY <1>6, AuditMoves, MovedMade DEF MigrateAuditIPs
<1>7. CASE \/ CreateTables(m) \/ LinkRevocations(m)
           \/ \E t \in ListTables : ReadList(m, t)
           \/ \E t \in LegacyTables : DropTable(m, t)
           \/ \E what \in {"status", "revoked_at"} : NormalizeLifecycle(m, what)
           \/ \E index \in NewIndexes : AddIndex(m, index)
           \/ \E index \in OldIndexes : RemoveIndex(m, index)
  <2>1. PICK what, table : /\ At(m, what, table) /\ Advance(m)
                           /\ what \in {"create", "read", "drop", "normalize", "add", "remove"}
                              \/ <<what, table>> = <<"link", "type_entry_revocations">>
    BY <1>7 DEF CreateTables, LinkRevocations, ReadList, DropTable, NormalizeLifecycle, AddIndex, RemoveIndex
  <2>2. Moved(<<what, table>>)'
    BY <2>1 DEF Moved, linkTable
  <2> QED
    BY <2>1, <2>2, MovedMade
<1> QED
  BY <1>1, <1>2, <1>3, <1>4, <1>5, <1>6, <1>7 DEF Migrate

LEMMA TableStep == Inv /\ TableInv /\ [Next]_vars => TableInv'
<1> SUFFICES ASSUME Inv, TableInv, [Next]_vars PROVE TableInv'
  OBVIOUS
<1>1. Countable(legacy)' /\ ListsKept'
  BY ListsStay, TablesMove DEF TableInv, Countable, LinkedOnce, IdsFromLinks
<1>2. OnlyLinked'
  BY TablesMove, RowsMove DEF TableInv, OnlyLinked, IdsFromLinks, RowMoves, Linked
<1>3. MovedSoFar'
  <2>1. CASE \E m \in Instances : Migrate(m)
    BY <2>1, MigrateMoves
  <2>2. CASE ~\E m \in Instances : Migrate(m)
    <3>1. \A q \in Instances : pc'[q] = pc[q] \/ pc'[q] \in 0..1
      BY <2>2 DEF Next, Crash, ChangeAlias, Goto, Down, vars, Inv, TypeOK
    <3> QED
      BY <3>1, MovedBefore DEF TableInv
  <2> QED
    BY <2>1, <2>2
<1> QED
  BY <1>1, <1>2, <1>3 DEF TableInv

\* What the steps before the drop of a table have moved is all of it.
LEMMA DropIsSafe ==
  ASSUME Inv, TableInv, NEW m \in Instances, NEW t \in LegacyTables, At(m, "drop", t), t \in tables
  PROVE  Migrated(t)
<1>0. legacy \in Database /\ Nil \notin Allocs
  BY MigrationAssumption DEF Inv, TypeOK
<1>1. \A step : (\A i \in DOMAIN Steps : Steps[i] = <<"drop", t>> => Earlier(i, step)) =>
                  Moved(step) /\ Done(step)
  BY Before DEF TableInv
<1>2. CASE t = "namespace_aliases"
  <2>1. Moved(<<"write", "namespace_aliases">>)
    BY <1>1, <1>2, TableOrder
  <2> QED
    BY <1>2, <2>1 DEF Moved, Migrated, ListTables
<1>3. CASE t = "reserved_ranges"
  <2>1. Moved(<<"write", "reserved_ranges">>) /\ Moved(<<"register", "reserved_ranges">>)
    BY <1>1, <1>3, TableOrder
  <2> QED
    BY <1>3, <2>1 DEF Moved, Migrated, ListTables
<1>4. ASSUME Carried, LinkedOnce(legacy), NEW link \in legacy.links PROVE entries[link[1]].alloc = link[2]
  <2>1. PICK e \in Entries, a \in Allocs : link = <<e, a>>
    BY <1>0 DEF Database
  <2>2. Linked(e) /\ <<e, LinkOf(e)>> \in legacy.links
    BY <2>1 DEF Linked, LinkOf
  <2>3. LinkOf(e) = a
    BY <1>4, <2>1, <2>2 DEF LinkedOnce
  <2> QED
    BY <1>4, <2>1, <2>2, <2>3 DEF Carried
<1>5. CASE t = linkTable
  <2>1. Moved(<<"link", linkTable>>) /\ Moved(<<"check", linkTable>>)
    BY <1>1, <1>5, TableOrder
  <2>2. Carried /\ LinkedOnce(legacy)
    BY <1>5, <2>1 DEF Moved
  <2> QED
    BY <1>4, <1>5, <2>2 DEF Migrated, linkTable, ListTables
<1>6. CASE t = "type_entry_revocations"
  <2>1. Done(<<"normalize", "status">>)
    BY <1>1, <1>6, TableOrder
  <2>2. ASSUME NEW e \in legacy.revocations PROVE entries[e].revokedAt = "recorded" /\ entries[e].status # "ACTIVE"
    <3>1. e \in Entries /\ Nil # "recorded"
      BY <1>0, MigrationAssumption DEF Database
    <3> QED
      BY <1>6, <2>1, <3>1 DEF Done, Recorded
  <2> QED
    BY <1>6, <2>2 DEF Migrated, ListTables
<1>7. CASE t = "type_allocations"
  <2>1. Moved(<<"check", "type_allocations">>)
    BY <1>1, <1>7, TableOrder
  <2>2. ASSUME NEW a \in legacy.allocations PROVE \E e \in Entries : entries[e].alloc = a
    <3>1. Carried /\ LinkedOnce(legacy) /\ \E e \in Entries : <<e, a>> \in legacy.links
      BY <1>7, <2>1 DEF Moved
    <3>2. PICK e \in Entries : <<e, a>> \in legacy.links
      BY <3>1
    <3> QED
      BY <1>4, <3>1, <3>2
  <2> QED
    BY <1>7, <2>2 DEF Migrated, ListTables
<1>8. CASE t = "audit_logs"
  <2>1. Moved(<<"audit", "ALLOCATE">>) /\ Moved(<<"audit", "REVOKE">>)
    BY <1>1, <1>8, TableOrder
  <2> QED
    BY <1>8, <2>1 DEF Moved, Migrated, ListTables
<1> QED
  BY <1>2, <1>3, <1>5, <1>6, <1>7, <1>8 DEF LegacyTables, ListTables, LinkTables, linkTable

\* DROP TABLE, the one step of the migration that cannot be repeated, only
\* drops what has been moved, whatever crashes and other processes there were.
THEOREM DropsMigrated == Spec /\ CountableLinks => DropsOnlyMigrated
<1>1. ASSUME Inv, TableInv, [Next]_vars, NEW t \in tables \ tables' PROVE Migrated(t)
  <2>1. PICK m \in Instances, u \in LegacyTables : DropTable(m, u)
    BY <1>1 DEF Next, Migrate, Crash, ChangeAlias, vars, data, Start, CreateTables, Quiet, LinkAllocations,
       LinkRevocations, NormalizeLifecycle, MigrateAuditIPs,
       ReadList, WriteList, BackfillProjects, Check, AddIndex, RemoveIndex
  <2>2. u = t /\ At(m, "drop", t)
    BY <1>1, <2>1 DEF DropTable
  <2> QED
    BY <1>1, <2>1, <2>2, DropIsSafe
<1>2. Inv /\ TableInv /\ [Next]_vars => [\A t \in tables \ tables' : Migrated(t)]_vars
  BY <1>1
<1>3. Init /\ CountableLinks => TableInv
  BY TableInit DEF CountableLinks, Init
<1> QED
  BY <1>2, <1>3, TableStep, Invariance, PTL DEF Spec, DropsOnlyMigrated

-----------------------------------------------------------------------------
(***************************************************************************)
(* A database that stays fit for another migration.  In it no step undoes  *)
(* what the checks compare: the times come from the records of the table,  *)
(* and no row is revoked without one.                                      *)
(***************************************************************************)
TimesFromRecords ==
  \A e \in Entries : /\ entries[e].revokedAt # Nil => e \in legacy.revocations
                     /\ entries[e].status = "REVOKED" => entries[e].revokedAt # Nil

RepeatInv == Repeatable /\ tables \subseteq legacy.tables /\ TimesFromRecords

LEMMA RepeatInit == Init /\ Repeatable => RepeatInv /\ Countable(legacy)
BY DEF Init, Repeatable, RepeatInv, TimesFromRecords, Countable, IdsFromLinks

LEMMA RepeatStep == Inv /\ RepeatInv /\ [Next]_vars => RepeatInv'
<1> SUFFICES ASSUME Inv, RepeatInv, [Next]_vars PROVE RepeatInv'
  OBVIOUS
<1>1. /\ legacy' = legacy /\ tables' \subseteq tables
      /\ \A e \in Entries : RowMoves(e)
      /\ Nil # "recorded"
  BY TablesMove, RowsMove, MigrationAssumption
<1>2. Repeatable'
  BY <1>1 DEF RepeatInv, Repeatable
<1>3. TimesFromRecords'
  BY <1>1 DEF RepeatInv, TimesFromRecords, RowMoves
<1> QED
  BY <1>1, <1>2, <1>3 DEF RepeatInv

\* Every list is written, and every record of a revocation read, before the
\* rows are counted.
LEMMA CheckOrder ==
  ASSUME NEW i \in DOMAIN Steps
  PROVE  /\ \A t \in ListTables : Steps[i] = <<"check", t>> => Earlier(i, <<"write", t>>)
         /\ Steps[i] = <<"check", "type_entry_revocations">> =>
              Earlier(i, <<"link", "type_entry_revocations">>)
<1>0. i \in 1..28
  BY StepsAre
<1>1. /\ Steps[i] = <<"check", "namespace_aliases">> => i = 10
      /\ Steps[i] = <<"check", "reserved_ranges">> => i = 11
      /\ Steps[i] = <<"check", "type_entry_revocations">> => i = 13
  BY <1>0, StepsAre
<1>2. /\ 3 < i => Earlier(i, <<"write", "namespace_aliases">>)
      /\ 5 < i => Earlier(i, <<"write", "reserved_ranges">>)
      /\ 7 < i => Earlier(i, <<"link", "type_entry_revocations">>)
  BY <1>0, StepsAre DEF Earlier
<1> QED
  BY <1>1, <1>2 DEF ListTables

LEMMA ListPasses ==
  ASSUME Inv, TableInv, NEW m \in Instances, NEW t \in ListTables, At(m, "check", t), t \in tables
  PROVE  OldCount(t) = NewCount(t)
<1>1. Moved(<<"write", t>>)
  BY CheckOrder, Before DEF TableInv
<1>2. \A n \in Namespaces : lists[t][n] = legacy.lists[t][n]
  BY <1>1 DEF Moved
<1>3. [n \in Namespaces |-> Cardinality(lists[t][n])] = [n \in Namespaces |-> Cardinality(legacy.lists[t][n])]
  BY <1>2
<1>4. Lengths(lists[t]) = Lengths(legacy.lists[t])
  BY <1>3 DEF Lengths
<1> QED
  BY <1>4 DEF OldCount, NewCount

LEMMA LinksPass ==
  ASSUME Inv, TableInv, RepeatInv, NEW m \in Instances, At(m, "check", linkTable), linkTable \in tables
  PROVE  OldCount(linkTable) = NewCount(linkTable)
<1>0. legacy \in Database /\ Nil \notin Allocs
  BY MigrationAssumption DEF Inv, TypeOK
<1>1. Carried
  <2>1. Moved(<<"link", linkTable>>)
    BY TableOrder, Before DEF TableInv
  <2> QED
    BY <2>1 DEF Moved
<1>2. OnlyLinked /\ IdsFromLinks(legacy)
  BY DEF TableInv, RepeatInv, Repeatable, IdsFromLinks
<1>3. {e \in Entries : entries[e].alloc # Nil} = {link[1] : link \in legacy.links}
  <2>1. ASSUME NEW e \in Entries, entries[e].alloc # Nil PROVE \E link \in legacy.links : e = link[1]
    <3>1. PICK a \in Allocs : <<e, a>> \in legacy.links
      BY <1>2, <2>1 DEF OnlyLinked, Linked
    <3> QED
      BY <3>1
  <2>2. ASSUME NEW link \in legacy.links PROVE link[1] \in Entries /\ entries[link[1]].alloc # Nil
    <3>1. link[1] \in Entries /\ link[2] \in Allocs /\ link = <<link[1], link[2]>>
      BY <1>0 DEF Database
    <3>2. Linked(link[1])
      BY <3>1 DEF Linked
    <3>3. LinkOf(link[1]) \in Allocs
      BY <3>2 DEF Linked, LinkOf
    <3> QED
      BY <1>0, <1>1, <3>1, <3>2, <3>3 DEF Carried
  <2> QED
    BY <2>1, <2>2
<1> QED
  BY <1>3 DEF RepeatInv, Repeatable, OldCount, NewCount, linkTable, ListTables

LEMMA RevocationsPass ==
  ASSUME Inv, TableInv, RepeatInv, NEW m \in Instances,
         At(m, "check", "type_entry_revocations"), "type_entry_revocations" \in tables
  PROVE  OldCount("type_entry_revocations") = NewCount("type_entry_revocations")
<1>0. legacy.revocations \subseteq Entries /\ Nil # "recorded"
  BY MigrationAssumption DEF Inv, TypeOK, Database
<1>1. Recorded
  <2>1. Done(<<"link", "type_entry_revocations">>)
    BY CheckOrder, Before DEF TableInv
  <2> QED
    BY <2>1 DEF Done
<1>2. {e \in Entries : entries[e].revokedAt # Nil} = legacy.revocations
  BY <1>0, <1>1 DEF Recorded, RepeatInv, TimesFromRecords
<1> QED
  BY <1>2 DEF OldCount, NewCount, ListTables

LEMMA CheckPasses ==
  ASSUME Inv, TableInv, RepeatInv, NEW m \in Instances, NEW t \in LegacyTables, At(m, "check", t)
  PROVE  Passes(t)
<1> SUFFICES ASSUME t \in tables PROVE Passes(t)
  BY DEF Passes
<1>1. t # "type_allocations"
  BY DEF RepeatInv, Repeatable
<1>2. t \in ListTables => OldCount(t) = NewCount(t)
  BY ListPasses
<1>3. t = linkTable => OldCount(t) = NewCount(t)
  BY LinksPass
<1>4. t = "type_entry_revocations" => OldCount(t) = NewCount(t)
  BY RevocationsPass
<1>5. t # "audit_logs"
  BY StepsAre DEF At
<1> QED
  BY <1>1, <1>2, <1>3, <1>4, <1>5 DEF Passes, LegacyTables, LinkTables, linkTable

LEMMA RepeatInvariance == Spec /\ Repeatable => [](Inv /\ TableInv /\ RepeatInv)
BY RepeatInit, RepeatStep, TableInit, TableStep, Invariance, PTL DEF Spec

NobodyRefused == refused = {}

\* With such a database no check ever refuses a process, wherever others
\* died and whatever they have dropped (src/README.md:450).
THEOREM NeverRefused == Spec /\ Repeatable => []NobodyRefused
<1>1. Init => NobodyRefused
  BY DEF Init, NobodyRefused
<1>2. Inv /\ TableInv /\ RepeatInv /\ NobodyRefused /\ [Next]_vars => NobodyRefused'
  <2> SUFFICES ASSUME Inv, TableInv, RepeatInv, refused = {}, [Next]_vars PROVE refused' = {}
    BY DEF NobodyRefused
  <2>1. ASSUME NEW m \in Instances, NEW t \in LegacyTables, Check(m, t) PROVE refused' = {}
    BY <2>1, CheckPasses DEF Check
  <2> QED
    BY <2>1 DEF Next, Migrate, Crash, ChangeAlias, vars, data, Start, CreateTables, Quiet,
       LinkAllocations, LinkRevocations, NormalizeLifecycle, MigrateAuditIPs,
       ReadList, WriteList, BackfillProjects, DropTable, AddIndex, RemoveIndex
<1> QED
  BY <1>1, <1>2, RepeatInvariance, PTL DEF Spec

GoesOn(m) ==
  \/ pc'[m] = pc[m] + 1
  \/ /\ pc'[m] = pc[m]
     /\ \E n \in DOMAIN held[m] : DOMAIN held'[m] = DOMAIN held[m] \ {n}

\* With such a database a step of the migration takes its process to the next
\* statement or leaves it fewer rows to write: only a crash takes it back.
THEOREM MigrationGoesOn == Spec /\ Repeatable => [][\A m \in Instances : Migrate(m) => GoesOn(m)]_vars
<1>1. ASSUME Inv, TableInv, RepeatInv, NEW m \in Instances, Migrate(m) PROVE GoesOn(m)
  <2>1. Advance(m) => pc'[m] = pc[m] + 1
    BY <1>1 DEF Inv, TypeOK, Advance, Goto
  <2>2. ASSUME NEW t \in LegacyTables, Check(m, t) PROVE Advance(m)
    BY <1>1, <2>2, CheckPasses DEF Check
  <2>3. ASSUME NEW t \in ListTables, WriteList(m, t), UNCHANGED pc PROVE GoesOn(m)
    <3>1. PICK n \in DOMAIN held[m] : held' = [held EXCEPT ![m] = Restrict(@, DOMAIN @ \ {n})]
      <4>1. ~Advance(m)
        BY <1>1, <2>1, <2>3 DEF Inv, TypeOK, Down
      <4> QED
        BY <2>3, <4>1 DEF WriteList
    <3>2. DOMAIN held'[m] = DOMAIN held[m] \ {n}
      BY <1>1, <3>1 DEF Inv, Held, Restrict
    <3> QED
      BY <2>3, <3>2 DEF GoesOn
  <2>4. ASSUME NEW t \in ListTables, WriteList(m, t) PROVE GoesOn(m)
    BY <2>1, <2>3, <2>4 DEF WriteList, GoesOn
  <2> QED
    BY <1>1, <2>1, <2>2, <2>4 DEF Migrate, GoesOn, Start, CreateTables, LinkAllocations, LinkRevocations,
       NormalizeLifecycle, MigrateAuditIPs, ReadList, BackfillProjects, DropTable, AddIndex, RemoveIndex
<1>2. Inv /\ TableInv /\ RepeatInv /\ [Next]_vars => [\A m \in Instances : Migrate(m) => GoesOn(m)]_vars
  BY <1>1
<1> QED
  BY <1>2, RepeatInvariance, PTL DEF Spec
=============================================================================
