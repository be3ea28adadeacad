----------------------------- MODULE Migration -----------------------------
(***************************************************************************)
(* The migration that every server and every "migrate" command runs before *)
(* it serves (internal/store/db.go): it moves the content of six legacy    *)
(* tables into type_namespaces, type_entries and projects, checks it, and  *)
(* drops the tables.                                                       *)
(*                                                                         *)
(* There is no transaction around it: each step is one statement on its    *)
(* own, or one query whose rows the process keeps (held).  The process may *)
(* die between any two of them, and another instance may be migrating or   *)
(* serving the same database.  A statement on a table that has vanished    *)
(* since its existence was checked fails and ends the process, which       *)
(* Crash covers.  Columns and plain indexes that are missing are added     *)
(* first, with empty defaults; the rows below have them from the start.    *)
(* The cursors are recalculated by Registry's RecalculateCursor.           *)
(***************************************************************************)
EXTENDS Integers, Sequences, FiniteSets, Functions

CONSTANTS
  Instances,      \* processes that migrate and then serve
  Namespaces, Entries, Aliases, Allocs, IPs,
  Ranges,         \* reserved ranges, each <<range, project>>
  Projects,       \* project names, up to collation
  Seeds,          \* the names 001_init.sql registers
  Nil,
  Databases,      \* the databases a migration may find
  ClientAliases,  \* aliases that clients register once somebody serves
  MaxCrashes      \* bound on crashes

VARIABLES
  legacy,     \* the content of the legacy tables; nothing writes to it
  tables,     \* the legacy tables that exist
  lists,      \* the JSON columns of type_namespaces: lists[t][n]
  entries,    \* type_entries
  projects,   \* projects
  indexes,    \* the unique indexes of type_entries
  pc,         \* per instance: the step it is at, Down or Serving
  held,       \* per instance: the rows of a list it has read and not written
  told,       \* told[n]: the aliases clients know to be registered
  validated,  \* some migration has passed its checks
  refused,    \* the instances whose last migration was refused
  overtaken,  \* history: a client changed an alias while an instance held rows
  crashes

data == <<legacy, tables, lists, entries, projects, indexes, told>>
vars == <<data, pc, held, validated, refused, overtaken, crashes>>

-----------------------------------------------------------------------------
ListTables == {"namespace_aliases", "reserved_ranges"}
LinkTables == {"type_allocation_entries", "type_entry_revocations"}
LegacyTables == ListTables \cup LinkTables \cup {"type_allocations", "audit_logs"}

OldIndexes == {"uk_namespace_value", "uk_namespace_symbol"}
NewIndexes == {"uk_namespace_active_value", "uk_namespace_active_symbol"}

\* revokedAt: no time, the time of the revocation, or the time of creation.
EntryRow == [status: {"ACTIVE", "DEPRECATED", "REVOKED"},
             alloc: Allocs \cup {Nil},
             revokedAt: {Nil, "recorded", "created"},
             project: Projects \cup {Nil},
             request_ip: IPs \cup {Nil}, revoke_ip: IPs \cup {Nil}]

(***************************************************************************)
(* audit: per entry, the addresses that audit_logs has for its allocation  *)
(* (the first with one) and its revocation (the last with one).            *)
(***************************************************************************)
Database ==
  [tables: SUBSET LegacyTables,
   lists: [ListTables -> [Namespaces -> SUBSET (Aliases \cup Ranges)]],
   links: SUBSET (Entries \X Allocs),
   revocations: SUBSET Entries,
   allocations: SUBSET Allocs,
   audit: [{"ALLOCATE", "REVOKE"} -> [Entries -> IPs \cup {Nil}]],
   entries: [Entries -> EntryRow],
   indexes: SUBSET (OldIndexes \cup NewIndexes)]

ASSUME MigrationAssumption ==
  /\ Databases \subseteq Database
  /\ \A d \in Databases : IsFiniteSet(d.links)
  /\ Nil \notin Projects \cup Allocs \cup IPs \cup {"recorded", "created"}
  /\ \A r \in Ranges : r[2] \in Projects \cup {Nil}
  /\ Seeds \subseteq Projects
  /\ ClientAliases \subseteq Aliases
  /\ MaxCrashes \in Nat

\* A list belongs to a table; values and symbols are unique by some index.
ASSUME DatabaseAssumption ==
  \A d \in Databases :
    /\ d.lists["namespace_aliases"] \in [Namespaces -> SUBSET Aliases]
    /\ d.lists["reserved_ranges"] \in [Namespaces -> SUBSET Ranges]
    /\ \A t \in ListTables \ d.tables, n \in Namespaces : d.lists[t][n] = {}
    /\ d.indexes # {} => \A column \in {{"uk_namespace_value", "uk_namespace_active_value"},
                                      {"uk_namespace_symbol", "uk_namespace_active_symbol"}} :
                           column \cap d.indexes # {}

-----------------------------------------------------------------------------
(***************************************************************************)
(* The order of upgradeLegacySchema, after 001_init.sql.                   *)
(***************************************************************************)
Copying ==
  << <<"create", "type_entries">>,
     <<"read", "namespace_aliases">>, <<"write", "namespace_aliases">>,
     <<"read", "reserved_ranges">>, <<"write", "reserved_ranges">>,
     <<"link", "type_allocation_entries">>, <<"link", "type_entry_revocations">>,
     <<"register", "type_entries">>, <<"register", "reserved_ranges">> >>
Checking ==
  << <<"check", "namespace_aliases">>, <<"check", "reserved_ranges">>,
     <<"check", "type_allocation_entries">>, <<"check", "type_entry_revocations">>,
     <<"check", "type_allocations">> >>
Normalizing == << <<"normalize", "status">>, <<"normalize", "revoked_at">> >>
Auditing == << <<"audit", "ALLOCATE">>, <<"audit", "REVOKE">> >>
Indexing ==
  << <<"add", "uk_namespace_active_value">>, <<"add", "uk_namespace_active_symbol">> >>
Unindexing == << <<"remove", "uk_namespace_value">>, <<"remove", "uk_namespace_symbol">> >>
Dropping ==
  << <<"drop", "type_allocation_entries">>, <<"drop", "type_entry_revocations">>,
     <<"drop", "type_allocations">>, <<"drop", "namespace_aliases">>,
     <<"drop", "reserved_ranges">>, <<"drop", "audit_logs">> >>

\* Faulty variants: addresses before the lifecycle is normalised; the old
\* indexes go first; the lifecycle is normalised by the first UPDATE only.
AuditFirst ==
  Copying \o Checking \o Auditing \o Normalizing \o Indexing \o Unindexing \o Dropping
UnindexFirst ==
  Copying \o Checking \o Normalizing \o Auditing \o Unindexing \o Indexing \o Dropping
StatusOnly ==
  Copying \o Checking \o <<Normalizing[1]>> \o Auditing \o Indexing \o Unindexing \o Dropping
Steps ==
  Copying \o Checking \o Normalizing \o Auditing \o Indexing \o Unindexing \o Dropping

Down == 0
Serving == Len(Steps) + 1

At(m, what, table) == pc[m] \in DOMAIN Steps /\ Steps[pc[m]] = <<what, table>>
Goto(m, step) == pc' = [pc EXCEPT ![m] = step]
Advance(m) == Goto(m, pc[m] + 1)
Quiet == UNCHANGED <<legacy, told, validated, refused, overtaken, crashes>>

-----------------------------------------------------------------------------
Init ==
  /\ legacy \in Databases
  /\ tables = legacy.tables
  /\ lists = [t \in ListTables |-> [n \in Namespaces |-> {}]]
  /\ entries = legacy.entries
  /\ projects = {}
  /\ indexes = legacy.indexes
  /\ pc = [m \in Instances |-> Down]
  /\ held = [m \in Instances |-> <<>>]
  /\ told = legacy.lists["namespace_aliases"]
  /\ validated = FALSE
  /\ refused = {}
  /\ overtaken = FALSE
  /\ crashes = 0

\* The process starts, or systemd restarts it.
Start(m) ==
  /\ pc[m] = Down
  /\ Advance(m)
  /\ refused' = refused \ {m}
  /\ UNCHANGED <<data, held, validated, overtaken, crashes>>

\* The names in column project of table t.
NamesIn(t) ==
  CASE t = "type_entries"    -> {entries[e].project : e \in Entries} \ {Nil}
    [] t = "reserved_ranges" ->
         IF t \notin tables THEN {}
         ELSE {r[2] : r \in UNION {legacy.lists[t][n] : n \in Namespaces}} \ {Nil}

\* 001_init.sql; a new type_entries has the new indexes.
CreateTables(m) ==
  /\ At(m, "create", "type_entries")
  /\ indexes' = IF indexes = {} THEN NewIndexes ELSE indexes
  /\ projects' = projects \cup Seeds \cup NamesIn("type_entries")
  /\ Advance(m)
  /\ Quiet /\ UNCHANGED <<tables, lists, entries, held>>

\* Faulty variant: no check that the table exists; the lists become empty.
RowsOrNothing(t) ==
  [n \in Namespaces |-> IF t \in tables THEN legacy.lists[t][n] ELSE {}]
\* byNamespace: the namespaces with rows, and these.
Rows(t) ==
  IF t \in tables
  THEN [n \in {k \in Namespaces : legacy.lists[t][k] # {}} |-> legacy.lists[t][n]]
  ELSE <<>>

\* migrateLegacyAliases and migrateLegacyReservedRanges: the SELECT.
ReadList(m, t) ==
  /\ At(m, "read", t)
  /\ held' = [held EXCEPT ![m] = Rows(t)]
  /\ Advance(m)
  /\ Quiet /\ UNCHANGED <<tables, lists, entries, projects, indexes>>

\* One UPDATE of a JSON column, in the order Go iterates a map: any.
WriteList(m, t) ==
  /\ At(m, "write", t)
  /\ \/ \E n \in DOMAIN held[m] :
          /\ lists' = [lists EXCEPT ![t][n] = held[m][n]]
          /\ held' = [held EXCEPT ![m] = Restrict(@, DOMAIN @ \ {n})]
          /\ UNCHANGED pc
     \/ /\ DOMAIN held[m] = {}
        /\ Advance(m)
        /\ UNCHANGED <<lists, held>>
  /\ Quiet /\ UNCHANGED <<tables, entries, projects, indexes>>

\* Faulty variant: the id of the entry is written.
LinkOfEntry(e) == e
LinkOf(e) == CHOOSE a \in Allocs : <<e, a>> \in legacy.links
Linked(e) == \E a \in Allocs : <<e, a>> \in legacy.links

\* UPDATE type_entries JOIN type_allocation_entries.
LinkAllocations(m) ==
  /\ At(m, "link", "type_allocation_entries")
  /\ entries' = IF "type_allocation_entries" \notin tables THEN entries
                ELSE [e \in Entries |-> IF Linked(e) THEN [entries[e] EXCEPT !.alloc = LinkOf(e)]
                                        ELSE entries[e]]
  /\ Advance(m)
  /\ Quiet /\ UNCHANGED <<tables, lists, projects, indexes, held>>

\* UPDATE type_entries JOIN type_entry_revocations.
LinkRevocations(m) ==
  /\ At(m, "link", "type_entry_revocations")
  /\ entries' = IF "type_entry_revocations" \notin tables THEN entries
                ELSE [e \in Entries |-> IF e \in legacy.revocations
                                        THEN [entries[e] EXCEPT !.revokedAt = "recorded"]
                                        ELSE entries[e]]
  /\ Advance(m)
  /\ Quiet /\ UNCHANGED <<tables, lists, projects, indexes, held>>

\* backfillProjects: INSERT IGNORE ... SELECT DISTINCT TRIM(project).
BackfillProjects(m, t) ==
  /\ At(m, "register", t)
  /\ projects' = projects \cup NamesIn(t)
  /\ Advance(m)
  /\ Quiet /\ UNCHANGED <<tables, lists, entries, indexes, held>>

-----------------------------------------------------------------------------
\* The two counts that are compared before table t may go.
Lengths(rows) == SumFunction([n \in Namespaces |-> Cardinality(rows[n])])
OldCount(t) ==
  CASE t \in ListTables               -> Lengths(legacy.lists[t])
    [] t = "type_allocation_entries" -> Cardinality(legacy.links)
    [] t = "type_entry_revocations"  -> Cardinality(legacy.revocations)
NewCount(t) ==
  CASE t \in ListTables               -> Lengths(lists[t])
    [] t = "type_allocation_entries" -> Cardinality({e \in Entries : entries[e].alloc # Nil})
    [] t = "type_entry_revocations"  -> Cardinality({e \in Entries : entries[e].revokedAt # Nil})

\* Rows of type_allocations without a link: all of them once the links are gone.
Orphaned ==
  IF "type_allocation_entries" \in tables
  THEN {a \in legacy.allocations : \A e \in Entries : <<e, a>> \notin legacy.links}
  ELSE legacy.allocations

\* Faulty variant: a table that is gone counts as empty.
GoneIsEmpty(t) ==
  IF t = "type_allocations" THEN t \notin tables \/ Orphaned = {}
  ELSE (IF t \in tables THEN OldCount(t) ELSE 0) = NewCount(t)
Passes(t) ==
  t \in tables => IF t = "type_allocations" THEN Orphaned = {} ELSE OldCount(t) = NewCount(t)

\* validateLegacyMigration, one table.  A mismatch ends the process.
Check(m, t) ==
  /\ At(m, "check", t)
  /\ \/ /\ Passes(t)
        /\ Advance(m)
        /\ validated' = (validated \/ t = Checking[Len(Checking)][2])
        /\ UNCHANGED refused
     \/ /\ ~Passes(t)
        /\ Goto(m, Down)
        /\ refused' = refused \cup {m}
        /\ UNCHANGED validated
  /\ UNCHANGED <<data, held, overtaken, crashes>>

-----------------------------------------------------------------------------
\* normalizeEntryLifecycle: first the status, then the missing times.
Normalized(row, what) ==
  IF what = "status"
  THEN IF row.status = "ACTIVE" /\ row.revokedAt # Nil THEN [row EXCEPT !.status = "REVOKED"] ELSE row
  ELSE IF row.status = "REVOKED" /\ row.revokedAt = Nil THEN [row EXCEPT !.revokedAt = "created"] ELSE row

NormalizeLifecycle(m, what) ==
  /\ At(m, "normalize", what)
  /\ entries' = [e \in Entries |-> Normalized(entries[e], what)]
  /\ Advance(m)
  /\ Quiet /\ UNCHANGED <<tables, lists, projects, indexes, held>>

\* migrateAuditLogIPs: an address that is there already stays.
WithAudit(row, action, ip) ==
  IF ip = Nil THEN row
  ELSE IF action = "ALLOCATE" /\ row.request_ip = Nil THEN [row EXCEPT !.request_ip = ip]
  ELSE IF action = "REVOKE" /\ row.revoke_ip = Nil /\ row.status = "REVOKED" THEN [row EXCEPT !.revoke_ip = ip]
  ELSE row

MigrateAuditIPs(m, action) ==
  /\ At(m, "audit", action)
  /\ entries' = IF "audit_logs" \notin tables THEN entries
                ELSE [e \in Entries |-> WithAudit(entries[e], action, legacy.audit[action][e])]
  /\ Advance(m)
  /\ Quiet /\ UNCHANGED <<tables, lists, projects, indexes, held>>

\* finalizeEntrySchema.
AddIndex(m, index) ==
  /\ At(m, "add", index)
  /\ indexes' = indexes \cup {index}
  /\ Advance(m)
  /\ Quiet /\ UNCHANGED <<tables, lists, entries, projects, held>>

RemoveIndex(m, index) ==
  /\ At(m, "remove", index)
  /\ indexes' = indexes \ {index}
  /\ Advance(m)
  /\ Quiet /\ UNCHANGED <<tables, lists, entries, projects, held>>

DropTable(m, t) ==
  /\ At(m, "drop", t)
  /\ tables' = tables \ {t}
  /\ Advance(m)
  /\ Quiet /\ UNCHANGED <<lists, entries, projects, indexes, held>>

-----------------------------------------------------------------------------
\* The process dies, or its context or the database fails it.
Crash(m) ==
  /\ pc[m] # Down
  /\ crashes < MaxCrashes
  /\ crashes' = crashes + 1
  /\ Goto(m, Down)
  /\ held' = [held EXCEPT ![m] = <<>>]
  /\ UNCHANGED <<data, validated, refused, overtaken>>

\* A client of an instance that serves adds or deletes an alias.
ChangeAlias(n, a) ==
  /\ \E m \in Instances : pc[m] = Serving
  /\ \/ /\ \A k \in Namespaces : a \notin lists["namespace_aliases"][k]
        /\ lists' = [lists EXCEPT !["namespace_aliases"][n] = @ \cup {a}]
        /\ told' = [told EXCEPT ![n] = @ \cup {a}]
     \/ /\ a \in lists["namespace_aliases"][n]
        /\ lists' = [lists EXCEPT !["namespace_aliases"][n] = @ \ {a}]
        /\ told' = [told EXCEPT ![n] = @ \ {a}]
  /\ overtaken' = (overtaken \/ \E m \in Instances :
                      At(m, "write", "namespace_aliases") /\ held[m] # <<>>)
  /\ UNCHANGED <<legacy, tables, entries, projects, indexes, pc, held, validated, refused, crashes>>

-----------------------------------------------------------------------------
Migrate(m) ==
  \/ Start(m) \/ CreateTables(m)
  \/ \E t \in ListTables : ReadList(m, t) \/ WriteList(m, t)
  \/ LinkAllocations(m) \/ LinkRevocations(m)
  \/ \E t \in {"type_entries", "reserved_ranges"} : BackfillProjects(m, t)
  \/ \E t \in LegacyTables : Check(m, t) \/ DropTable(m, t)
  \/ \E what \in {"status", "revoked_at"} : NormalizeLifecycle(m, what)
  \/ \E action \in {"ALLOCATE", "REVOKE"} : MigrateAuditIPs(m, action)
  \/ \E index \in NewIndexes : AddIndex(m, index)
  \/ \E index \in OldIndexes : RemoveIndex(m, index)

Next ==
  \/ \E m \in Instances : Migrate(m) \/ Crash(m)
  \/ \E n \in Namespaces, a \in ClientAliases : ChangeAlias(n, a)

Spec == Init /\ [][Next]_vars

\* A process that can take its next step does, and systemd restarts it.
FairSpec == Spec /\ \A m \in Instances : WF_vars(Migrate(m))
=============================================================================
