------------------------ MODULE MigrationProperties ------------------------
(***************************************************************************)
(* What the migration of Migration promises.                               *)
(***************************************************************************)
EXTENDS Migration

\* The types of the variables: the tables, the new places of their content,
\* and where each process is (the schema of internal/store/db.go).
TypeOK ==
  /\ legacy \in Databases
  /\ tables \subseteq LegacyTables
  /\ lists \in [ListTables -> [Namespaces -> SUBSET (Aliases \cup Ranges)]]
  /\ entries \in [Entries -> EntryRow]
  /\ projects \subseteq Projects
  /\ indexes \subseteq OldIndexes \cup NewIndexes
  /\ pc \in [Instances -> Down..Serving]
  /\ \A m \in Instances : DOMAIN held[m] \subseteq Namespaces
  /\ told \in [Namespaces -> SUBSET Aliases]
  /\ validated \in BOOLEAN
  /\ refused \subseteq Instances
  /\ overtaken \in BOOLEAN
  /\ crashes \in 0..MaxCrashes

\* Everything legacy table t says has a place in the three new tables.
Migrated(t) ==
  CASE t \in ListTables ->
         /\ \A n \in Namespaces : legacy.lists[t][n] \subseteq lists[t][n]
         /\ t = "reserved_ranges" => NamesIn(t) \subseteq projects
    [] t = "type_allocation_entries" ->
         \A link \in legacy.links : entries[link[1]].alloc = link[2]
    [] t = "type_entry_revocations" ->
         \A e \in legacy.revocations :
            entries[e].revokedAt = "recorded" /\ entries[e].status # "ACTIVE"
    [] t = "type_allocations" ->
         \A a \in legacy.allocations : \E e \in Entries : entries[e].alloc = a
    [] t = "audit_logs" ->
         \A e \in Entries :
            /\ legacy.audit["ALLOCATE"][e] # Nil => entries[e].request_ip # Nil
            /\ legacy.audit["REVOKE"][e] # Nil /\ entries[e].status = "REVOKED"
                 => entries[e].revoke_ip # Nil

\* A legacy table is dropped only when all of it has been migrated, whatever
\* crashes, restarts and other instances came before: DROP TABLE is the one
\* step of the migration that cannot be repeated (db.go, upgradeLegacySchema).
DropsOnlyMigrated == [][\A t \in tables \ tables' : Migrated(t)]_vars

\* At no moment are values or symbols without a unique index, old or new: the
\* processes that serve in the meantime rely on it (finalizeEntrySchema).
NeverUnindexed ==
  indexes # {} =>
    /\ {"uk_namespace_value", "uk_namespace_active_value"} \cap indexes # {}
    /\ {"uk_namespace_symbol", "uk_namespace_active_symbol"} \cap indexes # {}

\* Whoever serves, serves a migrated database: no legacy table or index is
\* left, every entry is live or has the time of its revocation, and every
\* project name is registered (Migrate returns before ListenAndServe).
ServedIsComplete ==
  (\E m \in Instances : pc[m] = Serving) =>
    /\ tables = {}
    /\ indexes = NewIndexes
    /\ \A e \in Entries :
         /\ entries[e].status = "ACTIVE" => entries[e].revokedAt = Nil
         /\ entries[e].status = "REVOKED" => entries[e].revokedAt # Nil
    /\ Seeds \cup NamesIn("type_entries") \subseteq projects

\* While somebody serves, the aliases are those the clients know of: what the
\* old tables had and what was added and deleted since (src/README.md:173),
\* however often processes restart.  The one exception is a client that was
\* served while another process held rows of the old table, which that process
\* then writes over the client's change (migrateLegacyAliases).
AliasesAsTold ==
  (\E m \in Instances : pc[m] = Serving) /\ ~overtaken =>
    lists["namespace_aliases"] = told

\* A database whose migration passed its checks is never refused afterwards:
\* the migration can be repeated after a crash (src/README.md:450).
RepeatedIsAccepted == validated => refused = {}

\* Databases that no crash makes unfit for another migration: type_allocations
\* and revocations without a record are what RepeatedIsAccepted fails for.
Repeatable ==
  /\ "type_allocations" \notin legacy.tables
  /\ \A e \in Entries :
       legacy.entries[e].revokedAt = Nil /\ legacy.entries[e].alloc = Nil
         /\ legacy.entries[e].status # "REVOKED"
  /\ Cardinality({link[1] : link \in legacy.links}) = Cardinality(legacy.links)

\* With such a database every process that stays up after its last crash
\* serves in the end, whatever the others do and wherever they died (systemd
\* restarts it; Migrate has no step that waits for another process).
ServesInTheEnd == Repeatable => \A m \in Instances : <>[](pc[m] = Serving)
=============================================================================
