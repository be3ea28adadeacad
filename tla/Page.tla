-------------------------------- MODULE Page --------------------------------
(***************************************************************************)
(* The web page (web/app.js) as it talks to the server: the dialog of a    *)
(* namespace with its entries and aliases, the dialog that revokes, and    *)
(* the panel that allocates.                                               *)
(*                                                                         *)
(* Every handler is asynchronous: between a request and its answer the     *)
(* user goes on, and answers arrive in any order.  Handlers read the       *)
(* variable "state" of the script when they run, not when they were        *)
(* started.  The texts, the filters and pages of the table and the dialog  *)
(* that edits a namespace are left out, and so are other users.            *)
(***************************************************************************)
EXTENDS Integers, FiniteSets

CONSTANTS
  Namespaces, Labels,
  Entries,        \* ids of entries, stored or to be stored
  NamespaceOf,    \* NamespaceOf[e]: where entry e is
  FirstEntries,   \* the live entries at first
  FirstAliases,   \* the aliases at first
  Nil, Loading,
  MaxClicks       \* bound on what the user sends

VARIABLES
  aliases, active, \* the server: aliases and live entries
  allocation, \* allocation[e]: the allocation of the page that stored e, or Nil
  namespace,  \* state.entries.namespace
  entryDialog,\* the dialog of the namespace is open
  chips,      \* the aliases that are shown
  table,      \* the live entries that are shown, or Loading
  timer,      \* the timer of the search field runs
  revoke,     \* the target of the open revoke dialog, or Nil
  disabled,   \* its button is disabled
  panel,      \* what the allocation panel says, of which allocation
  requests,   \* the requests whose answers have not arrived
  clicks,     \* how often the user has sent something
  confirmed,  \* history: the targets whose revocation the user has confirmed
  overlapped, \* history: two requests for one place of the page met
  failed      \* history: a request has failed

database == <<aliases, active, allocation>>
shown == <<namespace, entryDialog, chips, table, timer, revoke, disabled, panel>>
vars == <<database, shown, requests, clicks, confirmed, overlapped, failed>>

-----------------------------------------------------------------------------
Alias == [id: Nat \ {0}, label: Labels]

Target == [mode: {"entry"}, id: Entries] \cup [mode: {"allocation"}, id: 1..MaxClicks]
Kinds == {"aliases", "search", "unalias", "alias", "revoke", "allocate", "refresh"}

ASSUME PageAssumption ==
  /\ NamespaceOf \in [Entries -> Namespaces]
  /\ FirstEntries \subseteq Entries
  /\ FirstAliases \in [Namespaces -> SUBSET Alias]
  /\ Nil \notin Namespaces \cup Nat \cup [ok: BOOLEAN, items: SUBSET (Alias \cup Entries)]
  /\ \A items \in SUBSET Entries : Loading # items
  /\ MaxClicks \in Nat

\* type_entries: the entries of an allocation, and what a namespace has.
AllocatedBy(number) == {e \in Entries : allocation[e] = number}
Listed(ns) == {e \in active : NamespaceOf[e] = ns}
Unstored(ns) == {e \in AllocatedBy(Nil) \ FirstEntries : NamespaceOf[e] = ns}

\* The part of the page that the answers to a request change.
Place(kind) ==
  CASE kind \in {"aliases", "alias", "unalias"} -> "chips"
    [] kind = "search" -> "table"
    [] kind \in {"revoke", "refresh", "allocate"} -> "panel"

\* One request, before it is answered; "number" tells equal ones apart.
Message(kind, ns, arg) ==
  [kind |-> kind, ns |-> ns, arg |-> arg, answer |-> Nil,
   number |-> CHOOSE n \in 1..(Cardinality(requests) + 1) : \A r \in requests : r.number # n]

\* Sends messages after the answer to the requests "gone".
SendAfter(gone, messages) ==
  /\ requests' = (requests \ gone) \cup messages
  /\ overlapped' = (overlapped \/ \E m \in messages, r \in requests \ gone : Place(m.kind) = Place(r.kind))

\* The user sends something.
Click(messages) ==
  /\ clicks < MaxClicks
  /\ clicks' = clicks + 1
  /\ SendAfter({}, messages)

-----------------------------------------------------------------------------
Init ==
  /\ aliases = FirstAliases
  /\ active = FirstEntries
  /\ allocation = [e \in Entries |-> Nil]
  /\ namespace = Nil
  /\ entryDialog = FALSE
  /\ chips = {}
  /\ table = {}
  /\ timer = FALSE
  /\ revoke = Nil
  /\ disabled = FALSE
  /\ panel = [says |-> "nothing", number |-> 0]
  /\ requests = {}
  /\ clicks = 0
  /\ confirmed = {}
  /\ overlapped = FALSE
  /\ failed = FALSE

Idle == UNCHANGED <<database, failed>>

\* openEntries: loadAliases and loadEntries at once; the chips stay.
OpenEntries(ns) ==
  /\ ~entryDialog /\ revoke = Nil
  /\ namespace' = ns
  /\ entryDialog' = TRUE
  /\ table' = Loading
  /\ Click({Message("aliases", ns, Nil), Message("search", ns, Nil)})
  /\ Idle /\ UNCHANGED <<chips, timer, revoke, disabled, panel, confirmed>>

CloseEntries ==
  /\ entryDialog /\ revoke = Nil
  /\ entryDialog' = FALSE
  /\ Idle
  /\ UNCHANGED <<namespace, chips, table, timer, revoke, disabled, panel, requests,
                 clicks, confirmed, overlapped>>

\* loadEntries, by the page buttons or the page size.
Reload ==
  /\ entryDialog /\ revoke = Nil
  /\ table' = Loading
  /\ Click({Message("search", namespace, Nil)})
  /\ Idle /\ UNCHANGED <<namespace, entryDialog, chips, timer, revoke, disabled, panel, confirmed>>

\* The search field starts its timer again; when that ends, loadEntries runs,
\* whatever dialog is open or closed by then.
TypeSearch ==
  /\ entryDialog /\ revoke = Nil
  /\ timer' = TRUE
  /\ Click({})
  /\ Idle /\ UNCHANGED <<namespace, entryDialog, chips, table, revoke, disabled, panel, confirmed>>

SearchTimer ==
  /\ timer
  /\ timer' = FALSE
  /\ table' = Loading
  /\ SendAfter({}, {Message("search", namespace, Nil)})
  /\ Idle /\ UNCHANGED <<namespace, entryDialog, chips, revoke, disabled, panel, clicks, confirmed>>

\* The button of a chip: the id is the chip's, the namespace that of state.
DeleteAlias(item) ==
  /\ entryDialog /\ revoke = Nil
  /\ item \in chips
  /\ Click({Message("unalias", namespace, item)})
  /\ Idle /\ UNCHANGED <<shown, confirmed>>

AddAlias(label) ==
  /\ entryDialog /\ revoke = Nil
  /\ Click({Message("alias", namespace, label)})
  /\ Idle /\ UNCHANGED <<shown, confirmed>>

\* openRevokeDialog, from a row of the table or from the panel.
OpenRevoke(target) ==
  /\ revoke = Nil
  /\ \/ entryDialog /\ table # Loading /\ target \in [mode: {"entry"}, id: table]
     \/ ~entryDialog /\ panel.says = "granted" /\ target = [mode |-> "allocation", id |-> panel.number]
  /\ revoke' = target
  /\ disabled' = FALSE
  /\ Idle
  /\ UNCHANGED <<namespace, entryDialog, chips, table, timer, panel, requests, clicks,
                 confirmed, overlapped>>

CloseRevoke ==
  /\ revoke # Nil
  /\ revoke' = Nil
  /\ Idle
  /\ UNCHANGED <<namespace, entryDialog, chips, table, timer, disabled, panel,
                 requests, clicks, confirmed, overlapped>>

ConfirmRevoke ==
  /\ revoke # Nil /\ ~disabled
  /\ disabled' = TRUE
  /\ confirmed' = confirmed \cup {revoke}
  /\ Click({Message("revoke", Nil, revoke)})
  /\ Idle /\ UNCHANGED <<namespace, entryDialog, chips, table, timer, revoke, panel>>

\* The submit button is not disabled while a request is under way.
Allocate(ns) ==
  /\ ~entryDialog /\ revoke = Nil
  /\ panel' = [says |-> "loading", number |-> clicks + 1]
  /\ Click({Message("allocate", ns, clicks + 1)})
  /\ Idle /\ UNCHANGED <<namespace, entryDialog, chips, table, timer, revoke, disabled, confirmed>>

User ==
  \/ \E ns \in Namespaces : OpenEntries(ns) \/ Allocate(ns)
  \/ CloseEntries \/ Reload \/ TypeSearch \/ CloseRevoke \/ ConfirmRevoke
  \/ \E item \in chips : DeleteAlias(item)
  \/ \E label \in Labels : AddAlias(label)
  \/ \E target \in Target : OpenRevoke(target)

-----------------------------------------------------------------------------
\* The server.  Labels (Labels) and entries (Registry) of one page only.
\* Faulty variant: the first id is 0.
FromZero(items) == {Cardinality(items)}
\* The id that AUTO_INCREMENT gives.
NextIds(items) == {id \in {1} \cup {i.id + 1 : i \in items} : \A i \in items : i.id < id}

Answer(r, result) ==
  /\ requests' = (requests \ {r}) \cup {[r EXCEPT !.answer = result]}
  /\ UNCHANGED <<shown, clicks, confirmed, overlapped, failed>>

\* What a revocation names.
Named(target) == IF target.mode = "entry" THEN {target.id} ELSE AllocatedBy(target.id)

Effect(r) ==
  CASE r.kind = "unalias" ->
         /\ aliases' = [aliases EXCEPT ![r.ns] = {i \in @ : i.id # r.arg.id}]
         /\ UNCHANGED <<active, allocation>>
    [] r.kind = "alias" ->
         /\ \E id \in NextIds(aliases[r.ns]) :
              aliases' = [aliases EXCEPT ![r.ns] = @ \cup {[id |-> id, label |-> r.arg]}]
         /\ UNCHANGED <<active, allocation>>
    [] r.kind = "revoke" ->
         /\ active' = active \ Named(r.arg)
         /\ UNCHANGED <<aliases, allocation>>
    [] r.kind = "allocate" ->
         /\ \E new \in (SUBSET Unstored(r.ns)) \ {{}} :
              /\ active' = active \cup new
              /\ allocation' = [e \in Entries |-> IF e \in new THEN r.arg ELSE allocation[e]]
         /\ UNCHANGED aliases
    [] r.kind \in {"aliases", "search", "refresh"} -> UNCHANGED database

\* Requests that the server refuses.
Refused(r) ==
  \/ r.kind = "unalias" /\ \A i \in aliases[r.ns] : i.id # r.arg.id
  \/ r.kind = "alias" /\ \E ns \in Namespaces : \E i \in aliases[ns] : i.label = r.arg
  \/ r.kind = "allocate" /\ Unstored(r.ns) = {}

Content(r) ==
  CASE r.kind = "aliases" -> aliases[r.ns]
    [] r.kind = "search"  -> Listed(r.ns)
    [] OTHER              -> {}

\* The answer is made, or the request fails before or after its effect.
Serve(r) ==
  /\ r.answer = Nil
  /\ \/ ~Refused(r) /\ Effect(r) /\ \E result \in {[ok |-> TRUE, items |-> Content(r)],
                                                  [ok |-> FALSE, items |-> {}]} : Answer(r, result)
     \/ UNCHANGED database /\ Answer(r, [ok |-> FALSE, items |-> {}])

-----------------------------------------------------------------------------
\* Answers that arrive.
Arrived(r, kind, ok) == r.answer # Nil /\ r.kind = kind /\ r.answer.ok = ok

\* The rest of loadAliases and loadEntries.
ShowAliases(r) ==
  /\ Arrived(r, "aliases", TRUE)
  /\ chips' = r.answer.items
  /\ requests' = requests \ {r}
  /\ UNCHANGED <<database, namespace, entryDialog, table, timer, revoke, disabled,
                 panel, clicks, confirmed, overlapped, failed>>

ShowEntries(r) ==
  /\ Arrived(r, "search", TRUE)
  /\ table' = r.answer.items
  /\ requests' = requests \ {r}
  /\ UNCHANGED <<database, namespace, entryDialog, chips, timer, revoke, disabled,
                 panel, clicks, confirmed, overlapped, failed>>

\* Faulty variant: the chips are left as they are.
ForgetAliases(r) ==
  /\ Arrived(r, "alias", TRUE) \/ Arrived(r, "unalias", TRUE)
  /\ requests' = requests \ {r}
  /\ UNCHANGED <<database, shown, clicks, confirmed, overlapped, failed>>
\* The rest of aliasForm and of the button of a chip: loadAliases, of the
\* namespace that is open by now.
AliasChanged(r) ==
  /\ Arrived(r, "alias", TRUE) \/ Arrived(r, "unalias", TRUE)
  /\ SendAfter({r}, {Message("aliases", namespace, Nil)})
  /\ UNCHANGED <<database, shown, clicks, confirmed, failed>>

\* The rest of revokeForm: whatever revoke dialog is open closes, and
\* loadNamespaces is sent.
Revoked(r) ==
  /\ Arrived(r, "revoke", TRUE)
  /\ revoke' = Nil
  /\ panel' = IF r.arg.mode = "allocation" THEN [says |-> "revoked", number |-> r.arg.id] ELSE panel
  /\ SendAfter({r}, {Message("refresh", Nil, "revoke")})
  /\ UNCHANGED <<database, namespace, entryDialog, chips, table, timer, disabled,
                 clicks, confirmed, failed>>

\* loadNamespaces is through; after a revocation the open table is reloaded.
Refreshed(r) ==
  /\ Arrived(r, "refresh", TRUE)
  /\ \/ /\ r.arg = "revoke" /\ entryDialog
        /\ table' = Loading
        /\ SendAfter({r}, {Message("search", namespace, "revoke")})
     \/ /\ r.arg = "allocate" \/ ~entryDialog
        /\ SendAfter({r}, {})
        /\ UNCHANGED table
  /\ UNCHANGED <<database, namespace, entryDialog, chips, timer, revoke, disabled,
                 panel, clicks, confirmed, failed>>

Granted(r) ==
  /\ Arrived(r, "allocate", TRUE)
  /\ panel' = [says |-> "granted", number |-> r.arg]
  /\ SendAfter({r}, {Message("refresh", Nil, "allocate")})
  /\ UNCHANGED <<database, namespace, entryDialog, chips, table, timer, revoke,
                 disabled, clicks, confirmed, failed>>

\* Faulty variant: the handler of an error leaves the button disabled.
StayDisabled(r) == disabled' = disabled
Reenable(r) ==
  disabled' = IF r.kind = "revoke" \/ (r.kind \in {"refresh", "search"} /\ r.arg = "revoke") THEN FALSE
              ELSE disabled

\* The catch clauses.  loadNamespaces is awaited in the same "try" as the
\* request before it, so its failure is reported as that of the request.
Failed(r) ==
  /\ r.answer # Nil /\ ~r.answer.ok
  /\ failed' = TRUE
  /\ requests' = requests \ {r}
  /\ Reenable(r)
  /\ panel' = IF r.kind = "allocate" \/ (r.kind = "refresh" /\ r.arg = "allocate")
              THEN [panel EXCEPT !.says = "failed"] ELSE panel
  /\ UNCHANGED <<database, namespace, entryDialog, chips, table, timer, revoke, clicks,
                 confirmed, overlapped>>

Receive(r) ==
  \/ ShowAliases(r) \/ ShowEntries(r) \/ AliasChanged(r) \/ Revoked(r)
  \/ Refreshed(r) \/ Granted(r) \/ Failed(r)

-----------------------------------------------------------------------------
Next == User \/ SearchTimer \/ \E r \in requests : Serve(r) \/ Receive(r)

Spec == Init /\ [][Next]_vars

\* Every request is answered or fails, and the browser runs its handlers.
FairSpec == Spec /\ WF_vars(\E r \in requests : Serve(r) \/ Receive(r))
=============================================================================
