---------------------------- MODULE MCMigration ----------------------------
(***************************************************************************)
(* The instances of Migration that TLC checks.                             *)
(***************************************************************************)
EXTENDS MigrationProperties, TLC

CONSTANTS m1, m2, n1, n2, e1, e2, a, b, P, Q, ip

NoLists == [t \in ListTables |-> [n \in Namespaces |-> {}]]
NoAudit == [action \in {"ALLOCATE", "REVOKE"} |-> [e \in Entries |-> Nil]]
Entry(status, alloc, at, project) ==
  [status |-> status, alloc |-> alloc, revokedAt |-> at, project |-> project,
   request_ip |-> Nil, revoke_ip |-> Nil]

\* A database of the first version, all of whose tables have content: e1 was
\* revoked, e2 may have been; P and Q occur in one table each.
MCRanges == {<<1, Q>>, <<2, Nil>>}
OldDatabase ==
  [tables      |-> LegacyTables \ {"type_allocations"},
   lists       |-> [NoLists EXCEPT !["namespace_aliases"][n1] = {a},
                                   !["reserved_ranges"][n1] = MCRanges,
                                   !["reserved_ranges"][n2] = {<<2, Nil>>}],
   links       |-> {<<e1, "A1">>, <<e2, "A1">>},
   revocations |-> {e1},
   allocations |-> {},
   audit       |-> [NoAudit EXCEPT !["ALLOCATE"][e1] = ip, !["REVOKE"][e1] = ip, !["ALLOCATE"][e2] = ip],
   entries     |-> [e \in Entries |-> Entry("ACTIVE", Nil, Nil, IF e = e1 THEN P ELSE Nil)],
   indexes     |-> OldIndexes]

NewDatabase ==
  [OldDatabase EXCEPT !.tables = {}, !.lists = NoLists, !.links = {}, !.revocations = {},
                      !.audit = NoAudit, !.indexes = {}]

\* With the table of allocations, each of them linked.
WithAllocations ==
  [OldDatabase EXCEPT !.tables = LegacyTables, !.allocations = {"A1"}]

\* Entries that were revoked before revocations were recorded.
WithoutTimes == [OldDatabase EXCEPT !.entries[e2].status = "REVOKED"]

\* What the checks are for: an allocation without entries, an entry whose
\* allocation has no link, one with two, and one whose revocation has no record.
Inconsistent ==
  { [WithAllocations EXCEPT !.allocations = {"A1", "A2"}],
    [OldDatabase EXCEPT !.links = {<<e1, "A1">>}, !.entries[e2].alloc = "A2"],
    [OldDatabase EXCEPT !.links = {<<e1, "A1">>, <<e1, "A2">>}],
    [OldDatabase EXCEPT !.entries[e2].revokedAt = "recorded", !.entries[e2].status = "REVOKED"] }

AnyDatabase == {OldDatabase, NewDatabase, WithAllocations, WithoutTimes} \cup Inconsistent
Linked1 == {WithAllocations}
=============================================================================
