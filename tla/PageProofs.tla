----------------------------- MODULE PageProofs -----------------------------
(***************************************************************************)
(* Proofs about Page, for every number of namespaces, labels, entries and  *)
(* clicks.                                                                 *)
(*                                                                         *)
(* When nothing is under way the page shows what the database holds.  The  *)
(* invariants say what it shows while something is: of the panel, whatever *)
(* fails; of the open dialog, as long as nothing fails or overlaps, which  *)
(* answer is still to come, and what that answer will say.                 *)
(***************************************************************************)
EXTENDS PageProperties, TLAPS

\* What may be revoked: an entry, or an allocation that was clicked for.
Revocable(t) == t \in Target /\ (t.mode = "allocation" => t.id \in 1..clicks)

Shape(r) ==
  /\ r = [kind |-> r.kind, ns |-> r.ns, arg |-> r.arg, answer |-> r.answer, number |-> r.number]
  /\ r.kind \in Kinds
  /\ r.kind \in {"aliases", "search", "alias", "unalias"} => r.ns \in Namespaces /\ namespace # Nil
  /\ r.kind = "alias" => r.arg \in Labels
  /\ r.kind = "revoke" => Revocable(r.arg)
  /\ r.kind = "allocate" => r.ns \in Namespaces /\ r.arg \in 1..clicks
  /\ r.kind = "refresh" => r.arg \in {"revoke", "allocate"}
  /\ r.answer # Nil =>
       /\ r.answer.ok \in BOOLEAN
       /\ r.kind = "aliases" => r.answer.items \subseteq Alias
       /\ r.kind = "search" => r.answer.items \subseteq Entries

Types ==
  /\ TypeOK
  /\ timer => namespace # Nil
  /\ revoke # Nil => Revocable(revoke)
  /\ \A t \in confirmed : Revocable(t)
  /\ overlapped \in BOOLEAN /\ failed \in BOOLEAN
  /\ \A r \in requests : Shape(r)

-----------------------------------------------------------------------------
(* The panel, whatever fails and in whatever order answers arrive. *)

\* An answer "allocated" is true, and so is one "revoked"; what a revocation
\* names, the user has confirmed.
AnswersTrue ==
  \A r \in requests :
    /\ r.kind = "allocate" /\ r.answer # Nil /\ r.answer.ok => AllocatedBy(r.arg) # {}
    /\ r.kind = "revoke" =>
         /\ r.arg \in confirmed
         /\ r.answer # Nil /\ r.answer.ok /\ r.arg.mode = "allocation" =>
              AllocatedBy(r.arg.id) \cap active = {}

\* No request for the allocation n is under way.
Over(n) == \A r \in requests : r.kind = "allocate" => r.arg # n

\* Nobody revokes an allocation before its answer has arrived.
AllocatedOnce ==
  /\ \A r, q \in requests : r.kind = "allocate" /\ q.kind = "allocate" /\ r.arg = q.arg => r = q
  /\ \A t \in confirmed : t.mode = "allocation" => Over(t.id)
  /\ revoke # Nil /\ revoke.mode = "allocation" => Over(revoke.id)
  /\ panel.says = "granted" => Over(panel.number)

Confirmed(n) == [mode |-> "allocation", id |-> n] \in confirmed

\* What was allocated and is not live, the user has revoked.
GoneConfirmed ==
  \A e \in Entries : allocation[e] # Nil /\ e \notin active =>
    [mode |-> "entry", id |-> e] \in confirmed \/ Confirmed(allocation[e])

\* The request to revoke the allocation n is under way.
RevokeDue(n) == \E r \in requests : r.kind = "revoke" /\ r.arg = [mode |-> "allocation", id |-> n]

PanelTrue ==
  /\ panel.says = "loading" => \E r \in requests : r.kind = "allocate" /\ r.arg = panel.number
  /\ panel.says = "granted" =>
       /\ AllocatedBy(panel.number) # {}
       /\ Confirmed(panel.number) => failed \/ RevokeDue(panel.number)
  /\ panel.says = "revoked" => Confirmed(panel.number) /\ AllocatedBy(panel.number) \cap active = {}

Panel == AnswersTrue /\ AllocatedOnce /\ GoneConfirmed /\ PanelTrue

-----------------------------------------------------------------------------
(* The dialog of a namespace, as long as nothing fails or overlaps. *)

\* No two requests for one place met, none failed, and none is going to.
Calm ==
  /\ ~overlapped /\ ~failed
  /\ \A r \in requests : r.answer # Nil => r.answer.ok

OnePerPlace == \A r, q \in requests : Place(r.kind) = Place(q.kind) => r = q

\* The chips are those of the database, or an answer or a click of the user
\* will make them so.
ChipsRight ==
  /\ \A r \in requests : r.kind = "aliases" =>
       r.ns = namespace /\ (r.answer # Nil => r.answer.items = aliases[namespace])
  /\ namespace # Nil /\ (\A r \in requests : Place(r.kind) # "chips") => chips = aliases[namespace]

\* The table will be read again, after a revocation.
ReloadDue ==
  \E r \in requests :
    \/ r.kind = "revoke" /\ r.answer # Nil
    \/ r.kind = "refresh" /\ r.arg = "revoke"

\* The live entries of the namespace, but for some of the last allocation.
Current(items) ==
  /\ items \subseteq Listed(namespace)
  /\ Listed(namespace) \ items \subseteq AllocatedBy(panel.number)

TableRight ==
  entryDialog =>
    /\ \A r \in requests : r.kind = "search" =>
         r.ns = namespace /\ (r.answer # Nil /\ ~ReloadDue => Current(r.answer.items))
    /\ (\A r \in requests : r.kind # "search") /\ ~ReloadDue => table # Loading /\ Current(table)

\* The allocation that is under way is the one of the panel.
LastAllocation == \A r \in requests : r.kind = "allocate" => r.arg = panel.number

Agreed == OnePerPlace /\ ChipsRight /\ TableRight /\ LastAllocation

Right == Calm => Agreed

-----------------------------------------------------------------------------
LEMMA Places ==
  /\ Place("aliases") = "chips" /\ Place("alias") = "chips" /\ Place("unalias") = "chips"
  /\ Place("search") = "table"
  /\ Place("revoke") = "panel" /\ Place("refresh") = "panel" /\ Place("allocate") = "panel"
BY DEF Place

\* What was clicked stays clicked, so requests keep their shape.
LEMMA RevocableStays ==
  ASSUME Types, clicks' \in Nat, clicks <= clicks'
  PROVE  \A t : Revocable(t) => Revocable(t)'
<1>1. clicks \in Nat
  BY PageAssumption DEF Types, TypeOK
<1>2. \A i : i \in 1..clicks => i \in 1..clicks'
  BY <1>1
<1> QED BY <1>2 DEF Revocable

LEMMA ShapesStay ==
  ASSUME Types, clicks' \in Nat, clicks <= clicks', namespace # Nil => namespace' # Nil
  PROVE  \A r \in requests : Shape(r)'
<1>1. clicks \in Nat
  BY PageAssumption DEF Types, TypeOK
<1>2. \A i : i \in 1..clicks => i \in 1..clicks'
  BY <1>1
<1>3. ASSUME NEW r \in requests
      PROVE  Shape(r)'
  <2>1. Shape(r)
    BY DEF Types
  <2>2. r.kind = "revoke" => Revocable(r.arg)'
    BY <2>1, RevocableStays DEF Shape
  <2>3. r.kind = "allocate" => r.arg \in 1..clicks'
    BY <2>1, <1>2 DEF Shape
  <2> QED BY <2>1, <2>2, <2>3 DEF Shape
<1> QED BY <1>3

\* A request that is sent has its fields, and no answer yet.
Unanswered(k, n, a, number) == [kind |-> k, ns |-> n, arg |-> a, answer |-> Nil, number |-> number]

LEMMA MessageIs ==
  ASSUME NEW k, NEW n, NEW a
  PROVE  \E number : Message(k, n, a) = Unanswered(k, n, a, number)
BY DEF Message, Unanswered

LEMMA SendsOne ==
  ASSUME NEW gone, NEW k, NEW n, NEW a, SendAfter(gone, {Message(k, n, a)}), Types
  PROVE  /\ overlapped' \in BOOLEAN
         /\ \E number : requests' = (requests \ gone) \cup {Unanswered(k, n, a, number)}
         /\ ~overlapped' => ~overlapped /\ \A r \in requests \ gone : Place(r.kind) # Place(k)
<1>1. PICK number : Message(k, n, a) = Unanswered(k, n, a, number)
  BY MessageIs
<1>2. Message(k, n, a).kind = k
  BY <1>1 DEF Unanswered
<1> QED BY <1>1, <1>2 DEF SendAfter, Types

LEMMA SendsMessage ==
  ASSUME NEW gone, NEW k, NEW n, NEW a, SendAfter(gone, {Message(k, n, a)}), Types
  PROVE  \E m : requests' = (requests \ gone) \cup {m} /\ m.kind = k /\ m.ns = n /\ m.arg = a /\ m.answer = Nil
<1>1. PICK number : requests' = (requests \ gone) \cup {Unanswered(k, n, a, number)}
  BY SendsOne
<1> DEFINE m == Unanswered(k, n, a, number)
<1>2. m.kind = k /\ m.ns = n /\ m.arg = a /\ m.answer = Nil
  BY DEF Unanswered
<1> HIDE DEF m
<1>3. requests' = (requests \ gone) \cup {m}
  BY <1>1 DEF m
<1> QED BY <1>2, <1>3

\* A request and its answer.
LEMMA AnswerIs ==
  ASSUME NEW r, Shape(r), NEW x
  PROVE  [r EXCEPT !.answer = x] = [kind |-> r.kind, ns |-> r.ns, arg |-> r.arg, answer |-> x, number |-> r.number]
BY DEF Shape

-----------------------------------------------------------------------------
(* Types. *)

LEMMA TypesInit == Init => Types
<1> SUFFICES ASSUME Init PROVE Types
  OBVIOUS
<1> USE DEF Init
<1>1. clicks \in 0..MaxClicks
  BY PageAssumption
<1>2. panel \in [says: {"nothing", "loading", "granted", "revoked", "failed"}, number: 0..clicks]
  OBVIOUS
<1>3. allocation \in [Entries -> 1..clicks \cup {Nil}] /\ active \subseteq Entries
  BY PageAssumption
<1>4. aliases \in [Namespaces -> SUBSET Alias]
  BY PageAssumption
<1> QED BY <1>1, <1>2, <1>3, <1>4 DEF Types, TypeOK

\* The requests after a step have their shape if those that are new have.
LEMMA RequestsTyped ==
  ASSUME Types, clicks' \in Nat, clicks <= clicks', namespace # Nil => namespace' # Nil,
         \A r \in requests' : r \in requests \/ Shape(r)'
  PROVE  \A r \in requests' : r.kind \in Kinds /\ Shape(r)'
<1>1. \A r \in requests : Shape(r)'
  BY ShapesStay
<1>2. \A r \in requests' : Shape(r)'
  BY <1>1
<1> QED BY <1>2 DEF Shape

\* One click more.
LEMMA Clicked ==
  ASSUME Types, clicks < MaxClicks, clicks' = clicks + 1
  PROVE  /\ clicks \in Nat /\ clicks' \in Nat /\ clicks <= clicks' /\ clicks' \in 0..MaxClicks
         /\ 1..clicks \subseteq 1..clicks' /\ 0..clicks \subseteq 0..clicks'
         /\ allocation \in [Entries -> 1..clicks' \cup {Nil}]
         /\ \A t : Revocable(t) => Revocable(t)'
         /\ panel \in [says: {"nothing", "loading", "granted", "revoked", "failed"}, number: 0..clicks']
<1>1. clicks \in Nat /\ clicks' \in Nat /\ clicks <= clicks' /\ clicks' \in 0..MaxClicks
  BY PageAssumption DEF Types, TypeOK
<1>2. 1..clicks \subseteq 1..clicks' /\ 0..clicks \subseteq 0..clicks'
  BY <1>1
<1> QED BY <1>1, <1>2, RevocableStays DEF Types, TypeOK

LEMMA TypesOpenEntries ==
  ASSUME Types, NEW ns \in Namespaces, OpenEntries(ns)
  PROVE  Types'
<1>1. clicks < MaxClicks /\ clicks' = clicks + 1 /\ namespace' # Nil
  BY PageAssumption DEF OpenEntries, Click
<1>2. PICK n : Message("aliases", ns, Nil) = Unanswered("aliases", ns, Nil, n)
  BY MessageIs
<1>3. PICK m : Message("search", ns, Nil) = Unanswered("search", ns, Nil, m)
  BY MessageIs
<1>4. Shape(Unanswered("aliases", ns, Nil, n))' /\ Shape(Unanswered("search", ns, Nil, m))'
  BY <1>1, PageAssumption DEF Unanswered, Shape, Kinds
<1>5. requests' = requests \cup {Unanswered("aliases", ns, Nil, n), Unanswered("search", ns, Nil, m)} /\ overlapped' \in BOOLEAN
  BY <1>2, <1>3 DEF OpenEntries, Click, SendAfter, Types
<1>6. Shape(Unanswered("aliases", ns, Nil, n))' /\ Shape(Unanswered("search", ns, Nil, m))' => \A r \in requests' : r \in requests \/ Shape(r)'
  BY <1>5
<1>7. \A r \in requests' : r.kind \in Kinds /\ Shape(r)'
  BY <1>1, <1>4, <1>6, Clicked, RequestsTyped
<1> QED BY <1>1, <1>5, <1>7, Clicked DEF Types, TypeOK, OpenEntries, Idle, database

LEMMA TypesReload ==
  ASSUME Types, Reload
  PROVE  Types'
<1>1. clicks < MaxClicks /\ clicks' = clicks + 1 /\ namespace' = namespace /\ namespace \in Namespaces /\ namespace # Nil
  BY DEF Reload, Click, Types, TypeOK
<1>2. SendAfter({}, {Message("search", namespace, Nil)})
  BY DEF Reload, Click
<1>3. PICK n : requests' = (requests \ {}) \cup {Unanswered("search", namespace, Nil, n)}
  BY <1>2, SendsOne
<1>4. \A r \in requests' : r \in requests \/ Shape(r)'
  BY <1>1, <1>3 DEF Unanswered, Shape, Kinds
<1>5. \A r \in requests' : r.kind \in Kinds /\ Shape(r)'
  BY <1>1, <1>4, Clicked, RequestsTyped
<1>6. overlapped' \in BOOLEAN
  BY <1>2, SendsOne
<1> QED BY <1>1, <1>5, <1>6, Clicked DEF Types, TypeOK, Reload, Idle, database

LEMMA TypesDeleteAlias ==
  ASSUME Types, NEW item \in chips, DeleteAlias(item)
  PROVE  Types'
<1>1. clicks < MaxClicks /\ clicks' = clicks + 1 /\ namespace' = namespace /\ namespace \in Namespaces /\ namespace # Nil
  BY DEF DeleteAlias, Click, shown, Types, TypeOK
<1>2. SendAfter({}, {Message("unalias", namespace, item)})
  BY DEF DeleteAlias, Click
<1>3. PICK n : requests' = (requests \ {}) \cup {Unanswered("unalias", namespace, item, n)}
  BY <1>2, SendsOne
<1>4. \A r \in requests' : r \in requests \/ Shape(r)'
  BY <1>1, <1>3 DEF Unanswered, Shape, Kinds
<1>5. \A r \in requests' : r.kind \in Kinds /\ Shape(r)'
  BY <1>1, <1>4, Clicked, RequestsTyped
<1>6. overlapped' \in BOOLEAN
  BY <1>2, SendsOne
<1> QED BY <1>1, <1>5, <1>6, Clicked DEF Types, TypeOK, DeleteAlias, Idle, database, shown

LEMMA TypesAddAlias ==
  ASSUME Types, NEW label \in Labels, AddAlias(label)
  PROVE  Types'
<1>1. clicks < MaxClicks /\ clicks' = clicks + 1 /\ namespace' = namespace /\ namespace \in Namespaces /\ namespace # Nil
  BY DEF AddAlias, Click, shown, Types, TypeOK
<1>2. SendAfter({}, {Message("alias", namespace, label)})
  BY DEF AddAlias, Click
<1>3. PICK n : requests' = (requests \ {}) \cup {Unanswered("alias", namespace, label, n)}
  BY <1>2, SendsOne
<1>4. \A r \in requests' : r \in requests \/ Shape(r)'
  BY <1>1, <1>3 DEF Unanswered, Shape, Kinds
<1>5. \A r \in requests' : r.kind \in Kinds /\ Shape(r)'
  BY <1>1, <1>4, Clicked, RequestsTyped
<1>6. overlapped' \in BOOLEAN
  BY <1>2, SendsOne
<1> QED BY <1>1, <1>5, <1>6, Clicked DEF Types, TypeOK, AddAlias, Idle, database, shown

LEMMA TypesConfirmRevoke ==
  ASSUME Types, ConfirmRevoke
  PROVE  Types'
<1>1. clicks < MaxClicks /\ clicks' = clicks + 1 /\ namespace' = namespace /\ revoke # Nil /\ revoke' = revoke
  BY DEF ConfirmRevoke, Click
<1>2. SendAfter({}, {Message("revoke", Nil, revoke)})
  BY DEF ConfirmRevoke, Click
<1>3. PICK n : requests' = (requests \ {}) \cup {Unanswered("revoke", Nil, revoke, n)}
  BY <1>2, SendsOne
<1>4. Revocable(revoke)'
  <2>1. Revocable(revoke)
    BY <1>1 DEF Types
  <2> QED BY <1>1, <2>1, Clicked
<1>5. \A r \in requests' : r \in requests \/ Shape(r)'
  BY <1>1, <1>3, <1>4 DEF Unanswered, Shape, Kinds
<1>6. \A r \in requests' : r.kind \in Kinds /\ Shape(r)'
  BY <1>1, <1>5, Clicked, RequestsTyped
<1>7. overlapped' \in BOOLEAN
  BY <1>2, SendsOne
<1>8. confirmed' \subseteq Target /\ \A t \in confirmed' : Revocable(t)'
  BY <1>1, <1>4, Clicked DEF ConfirmRevoke, Types, TypeOK, Revocable
<1>9. TypeOK'
  BY <1>1, <1>6, <1>8, Clicked DEF Types, TypeOK, ConfirmRevoke, Idle, database
<1> QED BY <1>1, <1>4, <1>6, <1>7, <1>8, <1>9 DEF Types, ConfirmRevoke, Idle

LEMMA TypesAllocate ==
  ASSUME Types, NEW ns \in Namespaces, Allocate(ns)
  PROVE  Types'
<1>1. clicks < MaxClicks /\ clicks' = clicks + 1 /\ namespace' = namespace /\ revoke' = Nil
  BY DEF Allocate, Click
<1>2. SendAfter({}, {Message("allocate", ns, clicks + 1)})
  BY DEF Allocate, Click
<1>3. PICK n : requests' = (requests \ {}) \cup {Unanswered("allocate", ns, clicks + 1, n)}
  BY <1>2, SendsOne
<1>4. clicks + 1 \in 1..clicks' /\ clicks + 1 \in 0..clicks'
  BY <1>1, Clicked
<1>5. \A r \in requests' : r \in requests \/ Shape(r)'
  BY <1>1, <1>3, <1>4 DEF Unanswered, Shape, Kinds
<1>6. \A r \in requests' : r.kind \in Kinds /\ Shape(r)'
  BY <1>1, <1>5, Clicked, RequestsTyped
<1>7. overlapped' \in BOOLEAN
  BY <1>2, SendsOne
<1>8. panel' \in [says: {"nothing", "loading", "granted", "revoked", "failed"}, number: 0..clicks']
  BY <1>4 DEF Allocate
<1> QED BY <1>1, <1>6, <1>7, <1>8, Clicked DEF Types, TypeOK, Allocate, Idle, database

LEMMA TypesOpenRevoke ==
  ASSUME Types, NEW target \in Target, OpenRevoke(target)
  PROVE  Types'
<1>1. clicks' = clicks /\ clicks \in Nat /\ namespace' = namespace /\ requests' = requests
  BY PageAssumption DEF OpenRevoke, Types, TypeOK
<1>2. Revocable(target)'
  <2>1. CASE entryDialog /\ table # Loading /\ target \in [mode: {"entry"}, id: table]
    BY <2>1 DEF Revocable
  <2>2. CASE panel.says = "granted" /\ target = [mode |-> "allocation", id |-> panel.number]
    <3>1. panel.number \in 0..clicks /\ target.mode = "allocation" /\ target.id = panel.number
      BY <2>2 DEF Types, TypeOK
    <3>2. target.id \in 1..MaxClicks
      BY <3>1 DEF Target
    <3>3. target.id \in 1..clicks
      BY <1>1, <3>1, <3>2, PageAssumption
    <3> QED BY <1>1, <3>1, <3>3 DEF Revocable
  <2> QED BY <2>1, <2>2 DEF OpenRevoke
<1>3. \A r \in requests' : r.kind \in Kinds /\ Shape(r)'
  BY <1>1, RequestsTyped
<1>4. revoke' = target /\ target # Nil => Revocable(revoke)'
  BY <1>2 DEF Revocable
<1>5. \A t \in confirmed : Revocable(t)'
  BY <1>1, RevocableStays DEF Types
<1> QED BY <1>1, <1>3, <1>4, <1>5 DEF Types, TypeOK, OpenRevoke, Idle, database

\* A step of the page that neither clicks nor sends.
LEMMA TypesQuiet ==
  ASSUME Types, CloseEntries \/ CloseRevoke
  PROVE  Types'
<1>1. clicks' = clicks /\ clicks \in Nat /\ namespace' = namespace /\ requests' = requests
  BY PageAssumption DEF CloseEntries, CloseRevoke, Types, TypeOK
<1>2. \A r \in requests' : r.kind \in Kinds /\ Shape(r)'
  BY <1>1, RequestsTyped
<1>3. revoke' = Nil
  BY DEF CloseEntries, CloseRevoke
<1>4. /\ UNCHANGED <<aliases, active, allocation, failed, chips, table, timer, panel, confirmed, overlapped>>
      /\ entryDialog' => entryDialog
  BY DEF CloseEntries, CloseRevoke, Idle, database
<1>5. \A t \in confirmed' : Revocable(t)'
  BY <1>1, <1>4, RevocableStays DEF Types
<1> QED BY <1>1, <1>2, <1>3, <1>4, <1>5 DEF Types, TypeOK

\* The search field starts its timer.
LEMMA TypesTypeSearch ==
  ASSUME Types, TypeSearch
  PROVE  Types'
<1>1. clicks < MaxClicks /\ clicks' = clicks + 1 /\ namespace' = namespace /\ namespace # Nil
  BY DEF TypeSearch, Click, Types, TypeOK
<1>2. requests' = requests /\ overlapped' = overlapped
  BY DEF TypeSearch, Click, SendAfter, Types
<1>3. \A r \in requests' : r.kind \in Kinds /\ Shape(r)'
  BY <1>1, <1>2, Clicked, RequestsTyped
<1> QED BY <1>1, <1>2, <1>3, Clicked DEF Types, TypeOK, TypeSearch, Idle, database

LEMMA TypesSearchTimer ==
  ASSUME Types, SearchTimer
  PROVE  Types'
<1>1. /\ clicks' = clicks /\ clicks \in Nat /\ confirmed' = confirmed
      /\ namespace' = namespace /\ namespace \in Namespaces /\ namespace # Nil
  BY PageAssumption DEF SearchTimer, Types, TypeOK
<1>2. SendAfter({}, {Message("search", namespace, Nil)})
  BY DEF SearchTimer
<1>3. PICK n : requests' = (requests \ {}) \cup {Unanswered("search", namespace, Nil, n)}
  BY <1>2, SendsOne
<1>4. \A r \in requests' : r \in requests \/ Shape(r)'
  BY <1>1, <1>3 DEF Unanswered, Shape, Kinds
<1>5. \A r \in requests' : r.kind \in Kinds /\ Shape(r)'
  BY <1>1, <1>4, RequestsTyped
<1>6. overlapped' \in BOOLEAN
  BY <1>2, SendsOne
<1>7. \A t : Revocable(t) => Revocable(t)'
  BY <1>1, RevocableStays
<1> QED BY <1>1, <1>5, <1>6, <1>7 DEF Types, TypeOK, SearchTimer, Idle, database

LEMMA TypesUser == Types /\ User => Types'
BY TypesOpenEntries, TypesReload, TypesDeleteAlias, TypesAddAlias, TypesConfirmRevoke, TypesAllocate,
   TypesOpenRevoke, TypesTypeSearch, TypesQuiet DEF User

-----------------------------------------------------------------------------
\* What the server does to the database keeps the types.
LEMMA TypesEffect ==
  ASSUME Types, NEW r \in requests, Effect(r)
  PROVE  /\ aliases' \in [Namespaces -> SUBSET Alias]
         /\ allocation' \in [Entries -> 1..clicks \cup {Nil}]
         /\ active' \subseteq {e \in Entries : e \in FirstEntries \/ allocation'[e] # Nil}
<1>1. Shape(r)
  BY DEF Types
<1>2. /\ aliases \in [Namespaces -> SUBSET Alias]
      /\ allocation \in [Entries -> 1..clicks \cup {Nil}]
      /\ active \subseteq {e \in Entries : e \in FirstEntries \/ allocation[e] # Nil}
  BY DEF Types, TypeOK
<1>3. CASE r.kind = "unalias"
  BY <1>1, <1>2, <1>3 DEF Effect, Shape
<1>4. CASE r.kind = "alias"
  <2>1. PICK id \in NextIds(aliases[r.ns]) :
          aliases' = [aliases EXCEPT ![r.ns] = @ \cup {[id |-> id, label |-> r.arg]}]
    BY <1>4 DEF Effect
  <2>2. r.ns \in Namespaces /\ r.arg \in Labels /\ aliases[r.ns] \subseteq Alias
    BY <1>1, <1>2, <1>4 DEF Shape
  <2>3. id \in Nat \ {0}
    BY <2>2 DEF NextIds, Alias
  <2>4. [id |-> id, label |-> r.arg] \in Alias
    BY <2>2, <2>3 DEF Alias
  <2>5. UNCHANGED <<active, allocation>>
    BY <1>4 DEF Effect
  <2> QED BY <1>2, <2>1, <2>2, <2>4, <2>5
<1>5. CASE r.kind = "revoke"
  BY <1>2, <1>5 DEF Effect
<1>6. CASE r.kind = "allocate"
  <2>1. PICK new \in SUBSET Unstored(r.ns) :
          /\ active' = active \cup new
          /\ allocation' = [e \in Entries |-> IF e \in new THEN r.arg ELSE allocation[e]]
    BY <1>6 DEF Effect
  <2>2. aliases' = aliases /\ new \subseteq Entries /\ r.arg \in 1..clicks /\ r.arg # Nil
    BY <1>1, <1>6, PageAssumption DEF Effect, Unstored, AllocatedBy, Shape
  <2> QED BY <1>2, <2>1, <2>2
<1>7. CASE r.kind \in {"aliases", "search", "refresh"}
  BY <1>2, <1>7 DEF Effect, database
<1> QED BY <1>1, <1>3, <1>4, <1>5, <1>6, <1>7 DEF Shape, Kinds

\* Serve(r), with what r becomes: its answer tells what the database held
\* if the effect was made and the answer comes back.
LEMMA Served ==
  ASSUME Types, NEW r \in requests, Serve(r)
  PROVE  \E result \in [ok: BOOLEAN, items: SUBSET (Alias \cup Entries)] :
           /\ Answer(r, result)
           /\ result.ok => Effect(r) /\ result.items = Content(r)
           /\ Effect(r) \/ UNCHANGED database
           /\ r.kind = "aliases" => result.items \subseteq Alias
           /\ r.kind = "search" => result.items \subseteq Entries
<1>1. Shape(r) /\ aliases \in [Namespaces -> SUBSET Alias] /\ active \subseteq Entries
  BY DEF Types, TypeOK
<1>2. Content(r) \subseteq Alias \cup Entries
  BY <1>1 DEF Content, Listed, Shape
<1>3. (r.kind = "aliases" => Content(r) \subseteq Alias) /\ (r.kind = "search" => Content(r) \subseteq Entries)
  BY <1>1 DEF Content, Listed, Shape
<1> DEFINE Told == [ok |-> TRUE, items |-> Content(r)]
           Lost == [ok |-> FALSE, items |-> {}]
           Results == [ok: BOOLEAN, items: SUBSET (Alias \cup Entries)]
<1>4. Told \in Results /\ Told.ok = TRUE /\ Told.items = Content(r)
  BY <1>2
<1>5. Lost \in Results /\ Lost.ok = FALSE /\ Lost.items = {}
  OBVIOUS
<1>6. \/ Effect(r) /\ Answer(r, Told)
      \/ Effect(r) /\ Answer(r, Lost)
      \/ UNCHANGED database /\ Answer(r, Lost)
  BY DEF Serve
<1> HIDE DEF Told, Lost, Results
<1>7. \E result \in Results :
           /\ Answer(r, result)
           /\ result.ok => Effect(r) /\ result.items = Content(r)
           /\ Effect(r) \/ UNCHANGED database
           /\ r.kind = "aliases" => result.items \subseteq Alias
           /\ r.kind = "search" => result.items \subseteq Entries
  <2>1. CASE Effect(r) /\ Answer(r, Told)
    BY <1>3, <1>4, <2>1
  <2>2. CASE Answer(r, Lost) /\ (Effect(r) \/ UNCHANGED database)
    BY <1>5, <2>2
  <2> QED BY <1>6, <2>1, <2>2
<1> QED BY <1>7 DEF Results

LEMMA TypesServe ==
  ASSUME Types, NEW r \in requests, Serve(r)
  PROVE  Types'
<1>1. PICK result \in [ok: BOOLEAN, items: SUBSET (Alias \cup Entries)] :
           /\ Answer(r, result)
           /\ Effect(r) \/ UNCHANGED database
           /\ r.kind = "aliases" => result.items \subseteq Alias
           /\ r.kind = "search" => result.items \subseteq Entries
  BY Served
<1>2. UNCHANGED <<shown, clicks, confirmed, overlapped, failed>> /\ clicks \in Nat
  BY <1>1, PageAssumption DEF Answer, Types, TypeOK
<1>3. Shape([r EXCEPT !.answer = result])'
  <2>1. Shape(r) /\ Shape(r)'
    BY <1>2, ShapesStay DEF Types, shown
  <2>2. [r EXCEPT !.answer = result]
          = [kind |-> r.kind, ns |-> r.ns, arg |-> r.arg, answer |-> result, number |-> r.number]
    BY <2>1, AnswerIs
  <2>3. result.ok \in BOOLEAN
    OBVIOUS
  <2> QED BY <1>1, <2>1, <2>2, <2>3 DEF Shape
<1>4. \A q \in requests' : q \in requests \/ Shape(q)'
  BY <1>1, <1>3 DEF Answer
<1>5. \A q \in requests' : q.kind \in Kinds /\ Shape(q)'
  BY <1>2, <1>4, RequestsTyped DEF shown
<1>6. /\ aliases' \in [Namespaces -> SUBSET Alias]
      /\ allocation' \in [Entries -> 1..clicks \cup {Nil}]
      /\ active' \subseteq {e \in Entries : e \in FirstEntries \/ allocation'[e] # Nil}
  <2>1. CASE Effect(r)
    BY <2>1, TypesEffect
  <2>2. CASE UNCHANGED database
    BY <2>2 DEF database, Types, TypeOK
  <2> QED BY <1>1, <2>1, <2>2
<1>7. (revoke' # Nil => Revocable(revoke)') /\ \A t \in confirmed' : Revocable(t)'
  BY <1>2 DEF Types, Revocable, shown
<1>8. TypeOK'
  BY <1>2, <1>5, <1>6 DEF Types, TypeOK, shown
<1> QED BY <1>2, <1>5, <1>7, <1>8 DEF Types, shown

-----------------------------------------------------------------------------
\* Requests that only end.
LEMMA TypesEnd ==
  ASSUME Types, NEW r \in requests,
         ShowAliases(r) \/ ShowEntries(r) \/ Failed(r)
  PROVE  Types'
<1>1. Shape(r)
  BY DEF Types
<1>2. /\ UNCHANGED <<aliases, active, allocation, namespace, entryDialog, timer, revoke, clicks, confirmed, overlapped>>
      /\ requests' \subseteq requests /\ clicks \in Nat
  <2>1. clicks \in Nat
    BY PageAssumption DEF Types, TypeOK
  <2>2. requests' \subseteq requests
    BY DEF ShowAliases, ShowEntries, Failed
  <2>3. UNCHANGED <<aliases, active, allocation, namespace, entryDialog, timer, revoke, clicks, confirmed, overlapped>>
    BY DEF ShowAliases, ShowEntries, Failed, database
  <2> QED BY <2>1, <2>2, <2>3
<1>3. \A q \in requests' : q.kind \in Kinds /\ Shape(q)'
  BY <1>2, RequestsTyped
<1>4. (revoke' # Nil => Revocable(revoke)') /\ \A t \in confirmed' : Revocable(t)'
  BY <1>2 DEF Types, Revocable
<1>5. chips' \subseteq Alias
  BY <1>1 DEF ShowAliases, ShowEntries, Failed, Arrived, Shape, Types, TypeOK
<1>6. table' = Loading \/ table' \subseteq Entries
  BY <1>1 DEF ShowAliases, ShowEntries, Failed, Arrived, Shape, Types, TypeOK
<1>7. panel' \in [says: {"nothing", "loading", "granted", "revoked", "failed"}, number: 0..clicks'] /\ failed' \in BOOLEAN
  <2>1. panel \in [says: {"nothing", "loading", "granted", "revoked", "failed"}, number: 0..clicks']
    BY <1>2 DEF Types, TypeOK
  <2>2. panel' \in {panel, [panel EXCEPT !.says = "failed"]} /\ failed' \in {TRUE, failed}
    BY DEF ShowAliases, ShowEntries, Failed
  <2> QED BY <2>1, <2>2 DEF Types
<1>8. TypeOK'
  BY <1>2, <1>3, <1>5, <1>6, <1>7 DEF Types, TypeOK
<1> QED BY <1>2, <1>3, <1>4, <1>7, <1>8 DEF Types

LEMMA TypesAliasChanged ==
  ASSUME Types, NEW r \in requests, AliasChanged(r)
  PROVE  Types'
<1>1. Shape(r)
  BY DEF Types
<1>2. /\ UNCHANGED <<database, shown, clicks, confirmed, failed>> /\ clicks \in Nat
      /\ namespace # Nil /\ namespace \in Namespaces
  BY <1>1, PageAssumption DEF AliasChanged, Arrived, Shape, Types, TypeOK
<1>3. SendAfter({r}, {Message("aliases", namespace, Nil)})
  BY DEF AliasChanged
<1>4. PICK n : requests' = (requests \ {r}) \cup {Unanswered("aliases", namespace, Nil, n)}
  BY <1>3, SendsOne
<1>5. \A q \in requests' : q \in requests \/ Shape(q)'
  BY <1>2, <1>4 DEF Unanswered, Shape, Kinds, shown
<1>6. \A q \in requests' : q.kind \in Kinds /\ Shape(q)'
  BY <1>2, <1>5, RequestsTyped DEF shown
<1>7. overlapped' \in BOOLEAN
  BY <1>3, SendsOne
<1>8. (revoke' # Nil => Revocable(revoke)') /\ \A t \in confirmed' : Revocable(t)'
  BY <1>2 DEF Types, Revocable, shown
<1>9. TypeOK'
  BY <1>2, <1>6 DEF Types, TypeOK, shown, database
<1> QED BY <1>2, <1>6, <1>7, <1>8, <1>9 DEF Types, shown

LEMMA TypesRevoked ==
  ASSUME Types, NEW r \in requests, Revoked(r)
  PROVE  Types'
<1>1. Shape(r)
  BY DEF Types
<1>2. /\ UNCHANGED <<database, namespace, entryDialog, chips, table, timer, clicks, confirmed, failed>>
      /\ clicks \in Nat /\ r.kind = "revoke" /\ revoke' = Nil
  BY PageAssumption DEF Revoked, Arrived, Types, TypeOK
<1>3. SendAfter({r}, {Message("refresh", Nil, "revoke")})
  BY DEF Revoked
<1>4. PICK n : requests' = (requests \ {r}) \cup {Unanswered("refresh", Nil, "revoke", n)}
  BY <1>3, SendsOne
<1>5. \A q \in requests' : q \in requests \/ Shape(q)'
  BY <1>2, <1>4 DEF Unanswered, Shape, Kinds
<1>6. \A q \in requests' : q.kind \in Kinds /\ Shape(q)'
  BY <1>2, <1>5, RequestsTyped
<1>7. overlapped' \in BOOLEAN
  BY <1>3, SendsOne
<1>8. panel' \in [says: {"nothing", "loading", "granted", "revoked", "failed"}, number: 0..clicks']
  <2>1. CASE r.arg.mode = "allocation"
    <3>1. r.arg.id \in 0..clicks
      BY <1>1, <1>2, <2>1 DEF Shape, Revocable
    <3> QED BY <1>2, <2>1, <3>1 DEF Revoked
  <2>2. CASE r.arg.mode # "allocation"
    BY <1>2, <2>2 DEF Revoked, Types, TypeOK
  <2> QED BY <2>1, <2>2
<1>9. TypeOK'
  BY <1>2, <1>6, <1>8 DEF Types, TypeOK, database
<1>10. \A t \in confirmed' : Revocable(t)'
  BY <1>2 DEF Types, Revocable
<1> QED BY <1>2, <1>6, <1>7, <1>9, <1>10 DEF Types

LEMMA TypesRefreshed ==
  ASSUME Types, NEW r \in requests, Refreshed(r)
  PROVE  Types'
<1>1. /\ UNCHANGED <<database, namespace, entryDialog, chips, timer, revoke, disabled, panel, clicks, confirmed, failed>>
      /\ clicks \in Nat
  BY PageAssumption DEF Refreshed, Types, TypeOK
<1>2. \A q \in requests' : q \in requests \/ Shape(q)'
  <2>1. CASE entryDialog /\ SendAfter({r}, {Message("search", namespace, "revoke")})
    <3>1. namespace # Nil /\ namespace \in Namespaces
      BY <2>1 DEF Types, TypeOK
    <3>2. PICK n : requests' = (requests \ {r}) \cup {Unanswered("search", namespace, "revoke", n)}
      BY <2>1, SendsOne
    <3> QED BY <1>1, <3>1, <3>2 DEF Unanswered, Shape, Kinds
  <2>2. CASE SendAfter({r}, {})
    BY <2>2 DEF SendAfter
  <2> QED BY <2>1, <2>2 DEF Refreshed
<1>3. \A q \in requests' : q.kind \in Kinds /\ Shape(q)'
  BY <1>1, <1>2, RequestsTyped
<1>4. overlapped' \in BOOLEAN /\ (table' = Loading \/ table' = table)
  BY DEF Refreshed, SendAfter, Types
<1>5. (revoke' # Nil => Revocable(revoke)') /\ \A t \in confirmed' : Revocable(t)'
  BY <1>1 DEF Types, Revocable
<1>6. TypeOK'
  BY <1>1, <1>3, <1>4 DEF Types, TypeOK, database
<1> QED BY <1>1, <1>3, <1>4, <1>5, <1>6 DEF Types

LEMMA TypesGranted ==
  ASSUME Types, NEW r \in requests, Granted(r)
  PROVE  Types'
<1>1. Shape(r)
  BY DEF Types
<1>2. /\ UNCHANGED <<database, namespace, entryDialog, chips, table, timer, revoke, clicks, confirmed, failed>>
      /\ clicks \in Nat /\ r.kind = "allocate"
  BY PageAssumption DEF Granted, Arrived, Types, TypeOK
<1>3. SendAfter({r}, {Message("refresh", Nil, "allocate")})
  BY DEF Granted
<1>4. PICK n : requests' = (requests \ {r}) \cup {Unanswered("refresh", Nil, "allocate", n)}
  BY <1>3, SendsOne
<1>5. \A q \in requests' : q \in requests \/ Shape(q)'
  BY <1>2, <1>4 DEF Unanswered, Shape, Kinds
<1>6. \A q \in requests' : q.kind \in Kinds /\ Shape(q)'
  BY <1>2, <1>5, RequestsTyped
<1>7. overlapped' \in BOOLEAN
  BY <1>3, SendsOne
<1>8. panel' \in [says: {"nothing", "loading", "granted", "revoked", "failed"}, number: 0..clicks']
  <2>1. r.arg \in 0..clicks
    BY <1>1, <1>2 DEF Shape
  <2> QED BY <1>2, <2>1 DEF Granted
<1>9. TypeOK'
  BY <1>2, <1>6, <1>8 DEF Types, TypeOK, database
<1>10. (revoke' # Nil => Revocable(revoke)') /\ \A t \in confirmed' : Revocable(t)'
  BY <1>2 DEF Types, Revocable
<1> QED BY <1>2, <1>6, <1>7, <1>9, <1>10 DEF Types

LEMMA TypesStep == Types /\ [Next]_vars => Types'
<1> SUFFICES ASSUME Types, [Next]_vars PROVE Types'
  OBVIOUS
<1>1. CASE User \/ SearchTimer
  BY <1>1, TypesUser, TypesSearchTimer
<1>2. ASSUME NEW r \in requests, Serve(r)
      PROVE  Types'
  BY <1>2, TypesServe
<1>3. ASSUME NEW r \in requests, Receive(r)
      PROVE  Types'
  BY <1>3, TypesEnd, TypesAliasChanged, TypesRevoked, TypesRefreshed, TypesGranted DEF Receive
<1>4. CASE UNCHANGED vars
  <2>1. \A r \in requests : Shape(r)'
    BY <1>4 DEF Types, Shape, Revocable, vars, shown
  <2>2. (revoke' # Nil => Revocable(revoke)') /\ \A t \in confirmed' : Revocable(t)'
    BY <1>4 DEF Types, Revocable, vars, shown
  <2>3. TypeOK'
    BY <1>4 DEF Types, TypeOK, vars, shown, database
  <2> QED BY <1>4, <2>1, <2>2, <2>3 DEF Types, vars, shown
<1> QED BY <1>1, <1>2, <1>3, <1>4 DEF Next

\* The types of all variables in every reachable state: TypeOK of the run.
THEOREM PageTypes == Spec => []TypeOK
<1>1. Types => TypeOK
  BY DEF Types
<1> QED BY <1>1, TypesInit, TypesStep, PTL DEF Spec

-----------------------------------------------------------------------------
(* The panel. *)

LEMMA TargetIs ==
  ASSUME NEW t \in Target
  PROVE  /\ t.mode = "allocation" => t = [mode |-> "allocation", id |-> t.id] /\ t.id \in 1..MaxClicks
         /\ t.mode # "allocation" => t = [mode |-> "entry", id |-> t.id] /\ t.mode = "entry"
BY DEF Target

\* Numbers of allocations are not Nil.
LEMMA NumbersNotNil ==
  /\ \A n \in Nat : n # Nil
  /\ Types => clicks \in Nat /\ panel.number \in 0..clicks
BY PageAssumption DEF Types, TypeOK

\* Steps that touch neither the entries nor the requests of the panel.
LEMMA PanelKept ==
  ASSUME Panel, UNCHANGED <<active, allocation, confirmed, panel>>, failed => failed',
         revoke' \in {revoke, Nil} \/ (panel.says = "granted" /\ revoke'.id = panel.number)
                                   \/ revoke'.mode = "entry",
         \A r : r.kind \in {"revoke", "allocate"} => (r \in requests' <=> r \in requests)
  PROVE  Panel'
<1>1. AnswersTrue'
  BY DEF Panel, AnswersTrue, AllocatedBy
<1>2. \A n : Over(n) => Over(n)'
  BY DEF Over
<1>3. AllocatedOnce'
  BY <1>2 DEF Panel, AllocatedOnce
<1>4. GoneConfirmed'
  BY DEF Panel, GoneConfirmed, Confirmed
<1>5. \A n : RevokeDue(n) => RevokeDue(n)'
  BY DEF RevokeDue
<1>6. PanelTrue'
  BY <1>5 DEF Panel, PanelTrue, Confirmed, AllocatedBy
<1> QED BY <1>1, <1>3, <1>4, <1>6 DEF Panel

LEMMA SendsOther ==
  ASSUME Types, NEW gone, NEW k \in Kinds \ {"revoke", "allocate"}, NEW n, NEW a,
         \A r \in gone : r.kind \notin {"revoke", "allocate"},
         SendAfter(gone, {Message(k, n, a)})
  PROVE  \A r : r.kind \in {"revoke", "allocate"} => (r \in requests' <=> r \in requests)
<1>1. PICK number : requests' = (requests \ gone) \cup {Unanswered(k, n, a, number)}
  BY SendsOne
<1>2. Unanswered(k, n, a, number).kind = k
  BY DEF Unanswered
<1> QED BY <1>1, <1>2

LEMMA PanelOpenEntries ==
  ASSUME Types, Panel, NEW ns \in Namespaces, OpenEntries(ns)
  PROVE  Panel'
<1>1. PICK a : Message("aliases", ns, Nil) = a /\ a.kind = "aliases"
  BY MessageIs DEF Unanswered
<1>2. PICK b : Message("search", ns, Nil) = b /\ b.kind = "search"
  BY MessageIs DEF Unanswered
<1>3. requests' = requests \cup {a, b}
  BY <1>1, <1>2 DEF OpenEntries, Click, SendAfter
<1>4. UNCHANGED <<active, allocation, confirmed, panel, failed, revoke>>
  BY DEF OpenEntries, Idle, database
<1> QED BY <1>1, <1>2, <1>3, <1>4, PanelKept

LEMMA PanelSearch ==
  ASSUME Types, Panel, Reload \/ SearchTimer
  PROVE  Panel'
<1>1. SendAfter({}, {Message("search", namespace, Nil)})
  BY DEF Reload, SearchTimer, Click
<1>2. \A r : r.kind \in {"revoke", "allocate"} => (r \in requests' <=> r \in requests)
  BY <1>1, SendsOther DEF Kinds
<1>3. UNCHANGED <<active, allocation, confirmed, panel, failed, revoke>>
  BY DEF Reload, SearchTimer, Idle, database
<1> QED BY <1>2, <1>3, PanelKept

LEMMA PanelWriteAlias ==
  ASSUME Types, Panel, NEW item, DeleteAlias(item) \/ AddAlias(item)
  PROVE  Panel'
<1>1. PICK k \in {"alias", "unalias"} : SendAfter({}, {Message(k, namespace, item)})
  BY DEF DeleteAlias, AddAlias, Click
<1>2. \A r : r.kind \in {"revoke", "allocate"} => (r \in requests' <=> r \in requests)
  BY <1>1, SendsOther DEF Kinds
<1>3. UNCHANGED <<active, allocation, confirmed, panel, failed, revoke>>
  BY DEF DeleteAlias, AddAlias, Idle, database, shown
<1> QED BY <1>2, <1>3, PanelKept

LEMMA PanelQuiet ==
  ASSUME Types, Panel,
         CloseEntries \/ TypeSearch \/ CloseRevoke \/ (\E target \in Target : OpenRevoke(target))
  PROVE  Panel'
<1>1. UNCHANGED <<active, allocation, confirmed, panel, failed>> /\ requests' = requests
  BY DEF CloseEntries, TypeSearch, CloseRevoke, OpenRevoke, Click, SendAfter, Idle, database
<1>2. \/ revoke' \in {revoke, Nil}
      \/ panel.says = "granted" /\ revoke'.id = panel.number
      \/ revoke'.mode = "entry"
  BY DEF CloseEntries, TypeSearch, CloseRevoke, OpenRevoke
<1> QED BY <1>1, <1>2, PanelKept

LEMMA PanelConfirmRevoke ==
  ASSUME Types, Panel, ConfirmRevoke
  PROVE  Panel'
<1>1. PICK m : /\ requests' = requests \cup {m}
               /\ m.kind = "revoke" /\ m.arg = revoke /\ m.answer = Nil
  <2>1. SendAfter({}, {Message("revoke", Nil, revoke)})
    BY DEF ConfirmRevoke, Click
  <2> QED BY <2>1, SendsMessage
<1>2. /\ UNCHANGED <<active, allocation, panel, failed, revoke>>
      /\ confirmed' = confirmed \cup {revoke} /\ revoke # Nil
  BY DEF ConfirmRevoke, Idle, database
<1>3. AnswersTrue'
  BY <1>1, <1>2 DEF Panel, AnswersTrue, AllocatedBy
<1>4. \A n : Over(n)' <=> Over(n)
  BY <1>1 DEF Over
<1>5. AllocatedOnce'
  BY <1>1, <1>2, <1>4 DEF Panel, AllocatedOnce
<1>6. GoneConfirmed'
  BY <1>2 DEF Panel, GoneConfirmed, Confirmed
<1>7. ASSUME NEW n, Confirmed(n)'
      PROVE  Confirmed(n) \/ RevokeDue(n)'
  BY <1>1, <1>2, <1>7 DEF Confirmed, RevokeDue
<1>8. \A n : (Confirmed(n) => Confirmed(n)') /\ (RevokeDue(n) => RevokeDue(n)')
  BY <1>1, <1>2 DEF Confirmed, RevokeDue
<1>9. PanelTrue'
  BY <1>1, <1>2, <1>7, <1>8 DEF Panel, PanelTrue, AllocatedBy
<1> QED BY <1>3, <1>5, <1>6, <1>9 DEF Panel

LEMMA PanelAllocate ==
  ASSUME Types, Panel, NEW ns \in Namespaces, Allocate(ns)
  PROVE  Panel'
<1>1. PICK m : /\ requests' = requests \cup {m}
               /\ m.kind = "allocate" /\ m.arg = clicks + 1 /\ m.answer = Nil
  <2>1. SendAfter({}, {Message("allocate", ns, clicks + 1)})
    BY DEF Allocate, Click
  <2> QED BY <2>1, SendsMessage
<1>2. /\ UNCHANGED <<active, allocation, confirmed, failed>> /\ revoke' = Nil
      /\ panel' = [says |-> "loading", number |-> clicks + 1]
  BY DEF Allocate, Idle, database
<1>3. AnswersTrue'
  BY <1>1, <1>2 DEF Panel, AnswersTrue, AllocatedBy
<1>4. clicks \in Nat /\ \A n \in 1..clicks : n # clicks + 1
  BY NumbersNotNil
<1>5. \A r \in requests : r.kind = "allocate" => r.arg # clicks + 1
  BY <1>4 DEF Types, Shape
<1>6. \A t \in confirmed : t.mode = "allocation" => t.id # clicks + 1
  BY <1>4 DEF Types, Revocable
<1>7. AllocatedOnce'
  BY <1>1, <1>2, <1>5, <1>6 DEF Panel, AllocatedOnce, Over
<1>8. GoneConfirmed'
  BY <1>2 DEF Panel, GoneConfirmed, Confirmed
<1>9. PanelTrue'
  BY <1>1, <1>2 DEF PanelTrue
<1> QED BY <1>3, <1>7, <1>8, <1>9 DEF Panel

\* A request that is served keeps its kind and what it asks for.
LEMMA PanelServed ==
  ASSUME Types, Panel, NEW r \in requests, NEW s, requests' = (requests \ {r}) \cup {s},
         s.kind = r.kind, s.arg = r.arg, UNCHANGED <<confirmed, revoke, panel, failed>>
  PROVE  /\ AllocatedOnce'
         /\ panel.says = "loading" => \E q \in requests' : q.kind = "allocate" /\ q.arg = panel.number
         /\ panel.says = "granted" /\ Confirmed(panel.number) => failed \/ RevokeDue(panel.number)'
<1>1. \A n : Over(n) => Over(n)'
  BY DEF Over
<1>2. AllocatedOnce'
  BY <1>1 DEF Panel, AllocatedOnce
<1>3. \A n : RevokeDue(n) => RevokeDue(n)'
  BY DEF RevokeDue
<1> QED BY <1>2, <1>3 DEF Panel, PanelTrue

LEMMA PanelServeRevoke ==
  ASSUME Types, Panel, NEW r \in requests, r.kind = "revoke", Effect(r),
         NEW s, requests' = (requests \ {r}) \cup {s},
         s.kind = r.kind, s.arg = r.arg, UNCHANGED <<confirmed, revoke, panel, failed>>
  PROVE  Panel'
<1>1. active' = active \ Named(r.arg) /\ allocation' = allocation
  BY DEF Effect
<1>2. r.arg \in confirmed /\ r.arg \in Target
  BY DEF Panel, AnswersTrue, Types, Shape, Revocable
<1>3. \A n : AllocatedBy(n)' = AllocatedBy(n)
  BY <1>1 DEF AllocatedBy
<1>4. r.arg.mode = "allocation" => AllocatedBy(r.arg.id) \cap active' = {}
  BY <1>1 DEF Named
<1>5. AnswersTrue'
  BY <1>1, <1>2, <1>3, <1>4 DEF Panel, AnswersTrue
<1>6. ASSUME NEW e \in Entries, allocation[e] # Nil, e \notin active'
      PROVE  [mode |-> "entry", id |-> e] \in confirmed \/ Confirmed(allocation[e])
  <2>1. CASE e \notin active
    BY <1>6, <2>1 DEF Panel, GoneConfirmed
  <2>2. CASE e \in Named(r.arg) /\ r.arg.mode = "allocation"
    BY <1>2, <2>2, TargetIs DEF Named, AllocatedBy, Confirmed
  <2>3. CASE e \in Named(r.arg) /\ r.arg.mode # "allocation"
    BY <1>2, <2>3, TargetIs DEF Named
  <2> QED BY <1>1, <1>6, <2>1, <2>2, <2>3
<1>7. GoneConfirmed'
  BY <1>1, <1>6 DEF GoneConfirmed, Confirmed
<1>8. PanelTrue'
  BY <1>1, <1>3, PanelServed DEF Panel, PanelTrue, Confirmed
<1> QED BY <1>5, <1>7, <1>8, PanelServed DEF Panel

LEMMA PanelServeAllocate ==
  ASSUME Types, Panel, NEW r \in requests, r.kind = "allocate", Effect(r),
         NEW s, requests' = (requests \ {r}) \cup {s},
         s.kind = r.kind, s.arg = r.arg, UNCHANGED <<confirmed, revoke, panel, failed>>
  PROVE  Panel'
<1>1. PICK new \in (SUBSET Unstored(r.ns)) \ {{}} :
         /\ active' = active \cup new
         /\ allocation' = [e \in Entries |-> IF e \in new THEN r.arg ELSE allocation[e]]
  BY DEF Effect
<1>2. new \subseteq Entries /\ new # {} /\ \A e \in new : allocation[e] = Nil
  <2>1. new \subseteq Unstored(r.ns) /\ new # {}
    BY <1>1
  <2> QED BY <2>1 DEF Unstored, AllocatedBy
<1>3. \A n \in Nat : AllocatedBy(n) \subseteq AllocatedBy(n)'
  BY <1>1, <1>2, NumbersNotNil DEF AllocatedBy
<1>4. AllocatedBy(r.arg)' # {}
  BY <1>1, <1>2 DEF AllocatedBy
<1>5. ASSUME NEW n \in Nat, n # r.arg, AllocatedBy(n) \cap active = {}
      PROVE  AllocatedBy(n)' \cap active' = {}
  BY <1>1, <1>2, <1>5, NumbersNotNil DEF AllocatedBy
<1>6. \A q \in requests : q.kind = "allocate" => q.arg \in Nat
  BY NumbersNotNil DEF Types, Shape
<1>7. \A t \in confirmed : t.mode = "allocation" => t.id \in Nat /\ t.id # r.arg
  BY NumbersNotNil DEF Types, Revocable, Panel, AllocatedOnce, Over
<1>8. ASSUME NEW q \in requests'
      PROVE  /\ q.kind = "allocate" /\ q.answer # Nil /\ q.answer.ok => AllocatedBy(q.arg)' # {}
             /\ q.kind = "revoke" =>
                  /\ q.arg \in confirmed'
                  /\ q.answer # Nil /\ q.answer.ok /\ q.arg.mode = "allocation" =>
                       AllocatedBy(q.arg.id)' \cap active' = {}
  <2>1. CASE q = s
    BY <1>4, <2>1
  <2>2. CASE q \in requests
    <3>1. q.kind = "allocate" /\ q.answer # Nil /\ q.answer.ok => AllocatedBy(q.arg)' # {}
      BY <1>3, <1>6, <2>2 DEF Panel, AnswersTrue
    <3> QED BY <1>5, <1>7, <2>2, <3>1 DEF Panel, AnswersTrue
  <2> QED BY <2>1, <2>2
<1>9. AnswersTrue'
  BY <1>8 DEF AnswersTrue
<1>10. GoneConfirmed'
  BY <1>1 DEF Panel, GoneConfirmed, Confirmed
<1>11. panel.number \in Nat
  BY NumbersNotNil
<1>12. Confirmed(panel.number) => panel.number # r.arg
  BY <1>7 DEF Confirmed
<1>13. panel.says = "revoked" => Confirmed(panel.number)' /\ AllocatedBy(panel.number)' \cap active' = {}
  BY <1>5, <1>11, <1>12 DEF Panel, PanelTrue, Confirmed
<1>14. panel.says = "granted" => AllocatedBy(panel.number)' # {}
  BY <1>3, <1>11 DEF Panel, PanelTrue
<1>15. PanelTrue'
  BY <1>13, <1>14, PanelServed DEF PanelTrue, Confirmed, AllocatedBy
<1> QED BY <1>9, <1>10, <1>15, PanelServed DEF Panel

LEMMA PanelServe ==
  ASSUME Types, Panel, NEW r \in requests, Serve(r)
  PROVE  Panel'
<1>1. PICK result \in [ok: BOOLEAN, items: SUBSET (Alias \cup Entries)] :
           /\ Answer(r, result)
           /\ result.ok => Effect(r)
           /\ Effect(r) \/ UNCHANGED database
  BY Served
<1>2. PICK s : /\ [r EXCEPT !.answer = result] = s
               /\ s.kind = r.kind /\ s.arg = r.arg /\ s.answer = result
  <2>1. Shape(r)
    BY DEF Types
  <2>2. [r EXCEPT !.answer = result]
          = [kind |-> r.kind, ns |-> r.ns, arg |-> r.arg, answer |-> result, number |-> r.number]
    BY <2>1, AnswerIs
  <2> QED BY <2>2
<1>3. /\ requests' = (requests \ {r}) \cup {s}
      /\ UNCHANGED <<confirmed, revoke, panel, failed>>
  BY <1>1, <1>2 DEF Answer, shown
<1>4. CASE Effect(r) /\ r.kind = "revoke"
  BY <1>2, <1>3, <1>4, PanelServeRevoke
<1>5. CASE Effect(r) /\ r.kind = "allocate"
  BY <1>2, <1>3, <1>5, PanelServeAllocate
<1>6. CASE Effect(r) /\ r.kind \notin {"revoke", "allocate"}
  <2>1. r.kind \in Kinds
    BY DEF Types, TypeOK
  <2>2. UNCHANGED <<active, allocation>>
    BY <1>6, <2>1 DEF Effect, Kinds, database
  <2> QED BY <1>2, <1>3, <1>6, <2>2, PanelKept
<1>7. CASE UNCHANGED database /\ ~result.ok
  <2>1. UNCHANGED <<active, allocation>>
    BY <1>7 DEF database
  <2>2. AnswersTrue'
    BY <1>2, <1>3, <1>7, <2>1 DEF Panel, AnswersTrue, AllocatedBy
  <2>3. GoneConfirmed'
    BY <1>3, <2>1 DEF Panel, GoneConfirmed, Confirmed
  <2>4. PanelTrue'
    BY <1>2, <1>3, <2>1, PanelServed DEF Panel, PanelTrue, Confirmed, AllocatedBy
  <2> QED BY <1>2, <1>3, <2>2, <2>3, <2>4, PanelServed DEF Panel
<1> QED BY <1>1, <1>4, <1>5, <1>6, <1>7

LEMMA PanelReceiveOther ==
  ASSUME Types, Panel, NEW r \in requests,
         ShowAliases(r) \/ ShowEntries(r) \/ AliasChanged(r) \/ Refreshed(r)
  PROVE  Panel'
<1>1. UNCHANGED <<active, allocation, confirmed, panel, failed, revoke>>
  BY DEF ShowAliases, ShowEntries, AliasChanged, Refreshed, database, shown
<1>2. r.kind \notin {"revoke", "allocate"}
  BY DEF ShowAliases, ShowEntries, AliasChanged, Refreshed, Arrived
<1>3. \/ requests' = requests \ {r}
      \/ SendAfter({r}, {Message("aliases", namespace, Nil)})
      \/ SendAfter({r}, {Message("search", namespace, "revoke")})
  BY DEF ShowAliases, ShowEntries, AliasChanged, Refreshed, SendAfter
<1>4. \A q : q.kind \in {"revoke", "allocate"} => (q \in requests' <=> q \in requests)
  <2>1. CASE requests' = requests \ {r}
    BY <1>2, <2>1
  <2>2. CASE SendAfter({r}, {Message("aliases", namespace, Nil)})
    BY <1>2, <2>2, SendsOther DEF Kinds
  <2>3. CASE SendAfter({r}, {Message("search", namespace, "revoke")})
    BY <1>2, <2>3, SendsOther DEF Kinds
  <2> QED BY <1>3, <2>1, <2>2, <2>3
<1> QED BY <1>1, <1>4, PanelKept

LEMMA PanelRevoked ==
  ASSUME Types, Panel, NEW r \in requests, Revoked(r)
  PROVE  Panel'
<1>1. PICK m : requests' = (requests \ {r}) \cup {m} /\ m.kind = "refresh"
  <2>1. SendAfter({r}, {Message("refresh", Nil, "revoke")})
    BY DEF Revoked
  <2> QED BY <2>1, SendsMessage
<1>2. /\ UNCHANGED <<active, allocation, confirmed, failed>> /\ revoke' = Nil
      /\ r.kind = "revoke" /\ r.answer # Nil /\ r.answer.ok
      /\ panel' = IF r.arg.mode = "allocation" THEN [says |-> "revoked", number |-> r.arg.id] ELSE panel
  BY DEF Revoked, Arrived, database
<1>3. AnswersTrue'
  BY <1>1, <1>2 DEF Panel, AnswersTrue, AllocatedBy
<1>4. \A n : Over(n) => Over(n)'
  BY <1>1 DEF Over
<1>5. AllocatedOnce'
  BY <1>1, <1>2, <1>4 DEF Panel, AllocatedOnce
<1>6. GoneConfirmed'
  BY <1>2 DEF Panel, GoneConfirmed, Confirmed
<1>7. r.arg \in confirmed /\ r.arg \in Target
  BY <1>2 DEF Panel, AnswersTrue, Types, Shape, Revocable
<1>8. CASE r.arg.mode = "allocation"
  <2>1. panel'.says = "revoked" /\ panel'.number = r.arg.id
    BY <1>2, <1>8
  <2>2. Confirmed(r.arg.id)'
    BY <1>2, <1>7, <1>8, TargetIs DEF Confirmed
  <2>3. (AllocatedBy(r.arg.id) \cap active)' = {}
    BY <1>2, <1>8 DEF Panel, AnswersTrue, AllocatedBy
  <2>4. PanelTrue'
    BY <1>2, <2>1, <2>2, <2>3 DEF PanelTrue, AllocatedBy
  <2> QED BY <1>3, <1>5, <1>6, <2>4 DEF Panel
<1>9. CASE r.arg.mode # "allocation"
  <2>1. panel' = panel
    BY <1>2, <1>9
  <2>2. \A n : RevokeDue(n) => RevokeDue(n)'
    BY <1>1, <1>9 DEF RevokeDue
  <2>3. PanelTrue'
    BY <1>1, <1>2, <2>1, <2>2 DEF Panel, PanelTrue, Confirmed, AllocatedBy
  <2> QED BY <1>3, <1>5, <1>6, <2>3 DEF Panel
<1> QED BY <1>8, <1>9

LEMMA PanelGranted ==
  ASSUME Types, Panel, NEW r \in requests, Granted(r)
  PROVE  Panel'
<1>1. PICK m : requests' = (requests \ {r}) \cup {m} /\ m.kind = "refresh"
  <2>1. SendAfter({r}, {Message("refresh", Nil, "allocate")})
    BY DEF Granted
  <2> QED BY <2>1, SendsMessage
<1>2. /\ UNCHANGED <<active, allocation, confirmed, failed, revoke>>
      /\ r.kind = "allocate" /\ r.answer # Nil /\ r.answer.ok
      /\ panel'.says = "granted" /\ panel'.number = r.arg
  BY DEF Granted, Arrived, database
<1>3. AnswersTrue'
  BY <1>1, <1>2 DEF Panel, AnswersTrue, AllocatedBy
<1>4. Over(r.arg)' /\ \A n : Over(n) => Over(n)'
  BY <1>1, <1>2 DEF Panel, AllocatedOnce, Over
<1>5. AllocatedOnce'
  BY <1>1, <1>2, <1>4 DEF Panel, AllocatedOnce
<1>6. GoneConfirmed'
  BY <1>2 DEF Panel, GoneConfirmed, Confirmed
<1>7. ~Confirmed(r.arg)
  <2>1. Confirmed(r.arg) => Over([mode |-> "allocation", id |-> r.arg].id)
    BY DEF Confirmed, Panel, AllocatedOnce
  <2> QED BY <1>2, <2>1 DEF Over
<1>8. PanelTrue'
  BY <1>2, <1>7 DEF Panel, AnswersTrue, PanelTrue, Confirmed, AllocatedBy
<1> QED BY <1>3, <1>5, <1>6, <1>8 DEF Panel

LEMMA PanelFailed ==
  ASSUME Types, Panel, NEW r \in requests, Failed(r)
  PROVE  Panel'
<1>1. /\ UNCHANGED <<active, allocation, confirmed, revoke>> /\ failed' = TRUE
      /\ requests' = requests \ {r}
  BY DEF Failed, database
<1>2. \/ panel'.says = "failed"
      \/ panel' = panel /\ r.kind # "allocate"
  BY DEF Failed, Types, TypeOK
<1>3. AnswersTrue'
  BY <1>1 DEF Panel, AnswersTrue, AllocatedBy
<1>4. \A n : Over(n) => Over(n)'
  BY <1>1 DEF Over
<1>5. AllocatedOnce'
  BY <1>1, <1>2, <1>4 DEF Panel, AllocatedOnce
<1>6. GoneConfirmed'
  BY <1>1 DEF Panel, GoneConfirmed, Confirmed
<1>7. PanelTrue'
  BY <1>1, <1>2 DEF Panel, PanelTrue, Confirmed, AllocatedBy
<1> QED BY <1>3, <1>5, <1>6, <1>7 DEF Panel

LEMMA PanelInit == Init => Panel
<1> SUFFICES ASSUME Init PROVE Panel
  OBVIOUS
<1> USE DEF Init
<1>1. AnswersTrue /\ AllocatedOnce /\ PanelTrue
  BY DEF AnswersTrue, AllocatedOnce, PanelTrue
<1>2. GoneConfirmed
  BY DEF GoneConfirmed
<1> QED BY <1>1, <1>2 DEF Panel

LEMMA PanelStep == Types /\ Panel /\ [Next]_vars => Panel'
<1> SUFFICES ASSUME Types, Panel, [Next]_vars PROVE Panel'
  OBVIOUS
<1>1. CASE User \/ SearchTimer
  BY <1>1, PanelOpenEntries, PanelSearch, PanelWriteAlias, PanelQuiet, PanelConfirmRevoke, PanelAllocate DEF User
<1>2. ASSUME NEW r \in requests, Serve(r) \/ Receive(r)
      PROVE  Panel'
  BY <1>2, PanelServe, PanelReceiveOther, PanelRevoked, PanelGranted, PanelFailed DEF Receive
<1>3. CASE UNCHANGED vars
  BY <1>3, PanelKept DEF vars, database, shown
<1> QED BY <1>1, <1>2, <1>3 DEF Next

-----------------------------------------------------------------------------
(* The dialog of a namespace. *)

LEMMA PlaceOfKind ==
  ASSUME NEW k \in Kinds
  PROVE  /\ Place(k) = "chips" <=> k \in {"aliases", "alias", "unalias"}
         /\ Place(k) = "table" <=> k = "search"
         /\ Place(k) = "panel" <=> k \in {"revoke", "refresh", "allocate"}
BY Places DEF Kinds

\* Calm is never regained.
LEMMA CalmBefore ==
  ASSUME NEW gone, Calm', failed' = failed, ~overlapped' => ~overlapped,
         requests \ gone \subseteq requests', \A r \in gone : r.answer # Nil => r.answer.ok
  PROVE  Calm
BY DEF Calm

\* The message that a step sends is the only request of its place.
LEMMA CalmSend ==
  ASSUME Types, Right, NEW gone, NEW k, NEW n, NEW a, SendAfter(gone, {Message(k, n, a)}),
         failed' = failed, Calm', \A r \in gone : r.answer # Nil => r.answer.ok
  PROVE  /\ Agreed
         /\ OnePerPlace'
         /\ \E m : /\ requests' = (requests \ gone) \cup {m}
                   /\ m.kind = k /\ m.ns = n /\ m.arg = a /\ m.answer = Nil
                   /\ \A r \in requests \ gone : Place(r.kind) # Place(k)
<1>1. PICK number : requests' = (requests \ gone) \cup {Unanswered(k, n, a, number)}
  BY SendsOne
<1>2. ~overlapped' /\ ~overlapped /\ \A r \in requests \ gone : Place(r.kind) # Place(k)
  BY SendsOne DEF Calm
<1>3. Calm
  BY <1>1, <1>2, CalmBefore
<1>4. Agreed
  BY <1>3 DEF Right
<1> DEFINE m == Unanswered(k, n, a, number)
<1>5. m.kind = k /\ m.ns = n /\ m.arg = a /\ m.answer = Nil
  BY DEF Unanswered
<1> HIDE DEF m
<1>6. OnePerPlace'
  BY <1>1, <1>2, <1>4, <1>5 DEF m, Agreed, OnePerPlace
<1> QED BY <1>1, <1>2, <1>4, <1>5, <1>6 DEF m

\* A part stays right when neither it nor what it depends on changes.
LEMMA ChipsStay ==
  ASSUME ChipsRight, UNCHANGED <<aliases, namespace, chips>>,
         \A r : r.kind \in {"aliases", "alias", "unalias"} => (r \in requests' <=> r \in requests),
         Types
  PROVE  ChipsRight'
<1>1. \A r \in requests : r.kind \in Kinds
  BY DEF Types, TypeOK
<1>2. (\A r \in requests' : Place(r.kind) # "chips") => (\A r \in requests : Place(r.kind) # "chips")
  BY <1>1, PlaceOfKind
<1> QED BY <1>2 DEF ChipsRight

LEMMA TableStays ==
  ASSUME TableRight, UNCHANGED <<active, allocation, namespace, entryDialog, table>>,
         panel'.number = panel.number,
         \A r : r.kind = "search" => (r \in requests' <=> r \in requests),
         ReloadDue' <=> ReloadDue
  PROVE  TableRight'
<1>1. \A items : Current(items) => Current(items)'
  BY DEF Current, Listed, AllocatedBy
<1>2. Current(table) => Current(table)'
  BY DEF Current, Listed, AllocatedBy
<1> QED BY <1>1, <1>2 DEF TableRight

LEMMA LastStays ==
  ASSUME LastAllocation, panel'.number = panel.number,
         \A r \in requests' : r.kind = "allocate" => r \in requests
  PROVE  LastAllocation'
BY DEF LastAllocation

\* While a request of its place is under way, the chips may be anything; the
\* aliases that are to come are those of the namespace that is open.
LEMMA ChipsLoading ==
  ASSUME NEW m \in requests', Place(m.kind) = "chips", OnePerPlace',
         m.kind = "aliases" => m.ns = namespace' /\ m.answer = Nil
  PROVE  ChipsRight'
BY Places DEF ChipsRight, OnePerPlace

\* The same of the table.
LEMMA TableLoading ==
  ASSUME NEW m \in requests', m.kind = "search", OnePerPlace', m.ns = namespace', m.answer = Nil
  PROVE  TableRight'
BY DEF TableRight, OnePerPlace

LEMMA RightOpenEntries ==
  ASSUME Types, Right, NEW ns \in Namespaces, OpenEntries(ns), Calm'
  PROVE  Agreed'
<1>1. PICK a : /\ Message("aliases", ns, Nil) = a
               /\ a.kind = "aliases" /\ a.ns = ns /\ a.answer = Nil
  BY MessageIs DEF Unanswered
<1>2. PICK s : /\ Message("search", ns, Nil) = s
               /\ s.kind = "search" /\ s.ns = ns /\ s.answer = Nil
  BY MessageIs DEF Unanswered
<1>3. /\ UNCHANGED <<allocation, panel, failed>> /\ namespace' = ns
      /\ SendAfter({}, {a, s})
  BY <1>1, <1>2 DEF OpenEntries, Click, Idle, database
<1>4. /\ requests' = requests \cup {a, s}
      /\ ~overlapped' => /\ ~overlapped
                         /\ \A r \in requests : Place(r.kind) # "chips" /\ Place(r.kind) # "table"
  BY <1>1, <1>2, <1>3, Places DEF SendAfter, Types
<1>5. ~overlapped'
  BY DEF Calm
<1>6. Calm
  BY <1>3, <1>4, <1>5 DEF Calm
<1>7. Agreed
  BY <1>6 DEF Right
<1>8. OnePerPlace'
  BY <1>1, <1>2, <1>4, <1>5, <1>7, Places DEF Agreed, OnePerPlace
<1>9. ChipsRight'
  <2>1. a \in requests' /\ a.ns = namespace'
    BY <1>1, <1>3, <1>4
  <2> QED BY <1>1, <1>8, <2>1, ChipsLoading, Places
<1>10. TableRight'
  <2>1. s \in requests' /\ s.ns = namespace'
    BY <1>2, <1>3, <1>4
  <2> QED BY <1>2, <1>8, <2>1, TableLoading
<1>11. LastAllocation'
  BY <1>1, <1>2, <1>3, <1>4, <1>7, LastStays DEF Agreed
<1> QED BY <1>8, <1>9, <1>10, <1>11 DEF Agreed

LEMMA RightReload ==
  ASSUME Types, Right, Reload \/ SearchTimer, Calm'
  PROVE  Agreed'
<1>1. /\ UNCHANGED <<aliases, allocation, namespace, chips, panel, failed>>
      /\ SendAfter({}, {Message("search", namespace, Nil)})
  BY DEF Reload, SearchTimer, Click, Idle, database
<1>2. Agreed /\ OnePerPlace'
  BY <1>1, CalmSend
<1>3. PICK m : /\ requests' = (requests \ {}) \cup {m}
               /\ m.kind = "search" /\ m.ns = namespace /\ m.answer = Nil
  BY <1>1, CalmSend
<1>4. ChipsRight'
  BY <1>1, <1>2, <1>3, ChipsStay DEF Agreed
<1>5. TableRight'
  BY <1>1, <1>2, <1>3, TableLoading
<1>6. LastAllocation'
  BY <1>1, <1>2, <1>3, LastStays DEF Agreed
<1> QED BY <1>2, <1>4, <1>5, <1>6 DEF Agreed

\* The requests that write the aliases.
LEMMA RightWriteAlias ==
  ASSUME Types, Right, NEW item, DeleteAlias(item) \/ AddAlias(item), Calm'
  PROVE  Agreed'
<1>1. UNCHANGED <<active, allocation, namespace, entryDialog, table, panel, failed>>
  BY DEF DeleteAlias, AddAlias, Idle, database, shown
<1>2. PICK k \in {"alias", "unalias"} : SendAfter({}, {Message(k, namespace, item)})
  BY DEF DeleteAlias, AddAlias, Click
<1>3. Agreed /\ OnePerPlace'
  BY <1>1, <1>2, CalmSend
<1>4. PICK m : requests' = (requests \ {}) \cup {m} /\ m.kind = k
  BY <1>1, <1>2, CalmSend
<1>5. ChipsRight'
  BY <1>3, <1>4, ChipsLoading, Places
<1>6. ReloadDue' <=> ReloadDue
  BY <1>4 DEF ReloadDue
<1>7. TableRight'
  BY <1>1, <1>3, <1>4, <1>6, TableStays DEF Agreed
<1>8. LastAllocation'
  BY <1>1, <1>3, <1>4, LastStays DEF Agreed
<1> QED BY <1>3, <1>5, <1>7, <1>8 DEF Agreed

LEMMA RightQuiet ==
  ASSUME Types, Right, CloseEntries \/ TypeSearch \/ CloseRevoke \/ (\E target \in Target : OpenRevoke(target)), Calm'
  PROVE  Agreed'
<1>1. /\ UNCHANGED <<database, namespace, chips, table, panel, requests, overlapped, failed>>
      /\ entryDialog' => entryDialog
  BY DEF CloseEntries, TypeSearch, CloseRevoke, OpenRevoke, Click, SendAfter, Idle, Types
<1>2. Calm
  BY <1>1 DEF Calm
<1>3. Agreed
  BY <1>2 DEF Right
<1>4. OnePerPlace'
  BY <1>1, <1>3 DEF Agreed, OnePerPlace
<1>5. ChipsRight'
  BY <1>1, <1>3 DEF Agreed, ChipsRight, database
<1>6. TableRight'
  BY <1>1, <1>3 DEF Agreed, TableRight, Current, Listed, AllocatedBy, ReloadDue, database
<1>7. LastAllocation'
  BY <1>1, <1>3 DEF Agreed, LastAllocation
<1> QED BY <1>4, <1>5, <1>6, <1>7 DEF Agreed

LEMMA RightConfirmRevoke ==
  ASSUME Types, Right, ConfirmRevoke, Calm'
  PROVE  Agreed'
<1>1. /\ UNCHANGED <<aliases, active, allocation, namespace, entryDialog, chips, table, panel, failed>>
      /\ SendAfter({}, {Message("revoke", Nil, revoke)})
  BY DEF ConfirmRevoke, Click, Idle, database
<1>2. Agreed /\ OnePerPlace'
  BY <1>1, CalmSend
<1>3. PICK m : /\ requests' = (requests \ {}) \cup {m}
               /\ m.kind = "revoke" /\ m.answer = Nil
               /\ \A r \in requests \ {} : Place(r.kind) # Place("revoke")
  BY <1>1, CalmSend
<1>4. ChipsRight'
  BY <1>1, <1>2, <1>3, ChipsStay DEF Agreed
<1>5. ReloadDue' <=> ReloadDue
  BY <1>3 DEF ReloadDue
<1>6. TableRight'
  BY <1>1, <1>2, <1>3, <1>5, TableStays DEF Agreed
<1>7. LastAllocation'
  BY <1>1, <1>2, <1>3, LastStays DEF Agreed
<1> QED BY <1>2, <1>4, <1>6, <1>7 DEF Agreed

LEMMA RightAllocate ==
  ASSUME Types, Right, NEW ns \in Namespaces, Allocate(ns), Calm'
  PROVE  Agreed'
<1>1. /\ UNCHANGED <<aliases, namespace, chips, failed>> /\ ~entryDialog'
      /\ panel'.number = clicks + 1
      /\ SendAfter({}, {Message("allocate", ns, clicks + 1)})
  BY DEF Allocate, Click, Idle, database
<1>2. Agreed /\ OnePerPlace'
  BY <1>1, CalmSend
<1>3. PICK m : /\ requests' = (requests \ {}) \cup {m}
               /\ m.kind = "allocate" /\ m.arg = clicks + 1
               /\ \A r \in requests \ {} : Place(r.kind) # Place("allocate")
  BY <1>1, CalmSend
<1>4. ChipsRight'
  BY <1>1, <1>2, <1>3, ChipsStay DEF Agreed
<1>5. TableRight'
  BY <1>1 DEF TableRight
<1>6. LastAllocation'
  BY <1>1, <1>3 DEF LastAllocation
<1> QED BY <1>2, <1>4, <1>5, <1>6 DEF Agreed

-----------------------------------------------------------------------------
\* A request that is served when no answer fails: its effect is made, and its
\* answer, s instead of r, says what the database holds.
LEMMA ServedCalm ==
  ASSUME Types, Right, NEW r \in requests, Serve(r), Calm'
  PROVE  /\ Agreed
         /\ OnePerPlace'
         /\ UNCHANGED shown
         /\ Effect(r)
         /\ \E s : /\ requests' = (requests \ {r}) \cup {s}
                   /\ s.kind = r.kind /\ s.ns = r.ns /\ s.arg = r.arg
                   /\ r.answer = Nil /\ s.answer # Nil /\ s.answer.items = Content(r)
<1>1. PICK result \in [ok: BOOLEAN, items: SUBSET (Alias \cup Entries)] :
           /\ Answer(r, result)
           /\ result.ok => Effect(r) /\ result.items = Content(r)
  BY Served
<1>2. PICK s : /\ [r EXCEPT !.answer = result] = s
               /\ s.kind = r.kind /\ s.ns = r.ns /\ s.arg = r.arg /\ s.answer = result
  <2>1. Shape(r)
    BY DEF Types
  <2>2. [r EXCEPT !.answer = result]
          = [kind |-> r.kind, ns |-> r.ns, arg |-> r.arg, answer |-> result, number |-> r.number]
    BY <2>1, AnswerIs
  <2> QED BY <2>2
<1>3. requests' = (requests \ {r}) \cup {s} /\ UNCHANGED <<shown, overlapped, failed>>
  BY <1>1, <1>2 DEF Answer
<1>4. r.answer = Nil /\ s.answer # Nil
  BY <1>2, PageAssumption DEF Serve
<1>5. result.ok
  BY <1>2, <1>3, <1>4 DEF Calm
<1>6. Calm
  BY <1>3, <1>4 DEF Calm
<1>7. Agreed
  BY <1>6 DEF Right
<1>8. OnePerPlace'
  BY <1>2, <1>3, <1>7 DEF Agreed, OnePerPlace
<1> QED BY <1>1, <1>2, <1>3, <1>4, <1>5, <1>7, <1>8

\* Requests that only read.
LEMMA RightServeRead ==
  ASSUME Types, Right, NEW r \in requests, Serve(r), Calm', r.kind \in {"aliases", "search", "refresh"}
  PROVE  Agreed'
<1>1. Agreed /\ OnePerPlace' /\ UNCHANGED shown /\ Effect(r)
  BY ServedCalm
<1>2. PICK s : /\ requests' = (requests \ {r}) \cup {s}
               /\ s.kind = r.kind /\ s.ns = r.ns /\ s.arg = r.arg
               /\ s.answer # Nil /\ s.answer.items = Content(r)
  BY ServedCalm
<1>3. UNCHANGED <<aliases, active, allocation, namespace, entryDialog, chips, table, panel>>
  BY <1>1 DEF Effect, shown, database
<1>4. ReloadDue' <=> ReloadDue
  BY <1>2 DEF ReloadDue
<1>5. ChipsRight'
  <2>1. CASE r.kind = "aliases"
    <3>1. s.ns = namespace /\ s.answer.items = aliases[namespace]
      BY <1>1, <1>2, <2>1 DEF Agreed, ChipsRight, Content
    <3>2. \A q \in requests' : q.kind = "aliases" => q = s
      BY <1>1, <1>2, <2>1 DEF OnePerPlace
    <3>3. s \in requests' /\ Place(s.kind) = "chips"
      BY <1>2, <2>1, Places
    <3> QED BY <1>3, <3>1, <3>2, <3>3 DEF ChipsRight
  <2>2. CASE r.kind # "aliases"
    BY <1>1, <1>2, <1>3, <2>2, ChipsStay DEF Agreed
  <2> QED BY <2>1, <2>2
<1>6. TableRight'
  <2>1. CASE r.kind = "search"
    <3>1. entryDialog => s.ns = namespace /\ s.answer.items = Listed(namespace)
      BY <1>1, <1>2, <2>1 DEF Agreed, TableRight, Content
    <3>2. \A q \in requests' : q.kind = "search" => q = s
      BY <1>1, <1>2, <2>1 DEF OnePerPlace
    <3>3. s \in requests' /\ s.kind = "search" /\ Listed(namespace)' = Listed(namespace)
      BY <1>2, <1>3, <2>1 DEF Listed
    <3>4. entryDialog => Current(s.answer.items)'
      BY <3>1, <3>3 DEF Current
    <3> QED BY <1>3, <3>1, <3>2, <3>3, <3>4 DEF TableRight
  <2>2. CASE r.kind # "search"
    BY <1>1, <1>2, <1>3, <1>4, <2>2, TableStays DEF Agreed
  <2> QED BY <2>1, <2>2
<1>7. LastAllocation'
  BY <1>1, <1>2, <1>3, LastStays DEF Agreed
<1> QED BY <1>1, <1>5, <1>6, <1>7 DEF Agreed

\* Requests that write aliases: the chips are read again after the answer.
LEMMA RightServeAlias ==
  ASSUME Types, Right, NEW r \in requests, Serve(r), Calm', r.kind \in {"alias", "unalias"}
  PROVE  Agreed'
<1>1. Agreed /\ OnePerPlace' /\ UNCHANGED shown /\ Effect(r)
  BY ServedCalm
<1>2. PICK s : requests' = (requests \ {r}) \cup {s} /\ s.kind = r.kind /\ s.arg = r.arg
  BY ServedCalm
<1>3. UNCHANGED <<active, allocation, namespace, entryDialog, chips, table, panel>>
  BY <1>1 DEF Effect, shown
<1>4. ReloadDue' <=> ReloadDue
  BY <1>2 DEF ReloadDue
<1>5. ChipsRight'
  BY <1>1, <1>2, ChipsLoading, Places
<1>6. TableRight'
  BY <1>1, <1>2, <1>3, <1>4, TableStays DEF Agreed
<1>7. LastAllocation'
  BY <1>1, <1>2, <1>3, LastStays DEF Agreed
<1> QED BY <1>1, <1>5, <1>6, <1>7 DEF Agreed

\* A revocation: the table is read again after the answer, and the panel is told.
LEMMA RightServeRevoke ==
  ASSUME Types, Right, NEW r \in requests, Serve(r), Calm', r.kind = "revoke"
  PROVE  Agreed'
<1>1. Agreed /\ OnePerPlace' /\ UNCHANGED shown /\ Effect(r)
  BY ServedCalm
<1>2. PICK s : /\ requests' = (requests \ {r}) \cup {s}
               /\ s.kind = "revoke" /\ s.arg = r.arg
               /\ r.answer = Nil /\ s.answer # Nil
  BY ServedCalm
<1>3. UNCHANGED <<aliases, namespace, entryDialog, chips, table, panel>>
  BY <1>1 DEF Effect, shown
<1>4. ChipsRight'
  BY <1>1, <1>2, <1>3, ChipsStay DEF Agreed
<1>5. TableRight'
  <2>1. ReloadDue'
    BY <1>2 DEF ReloadDue
  <2> QED BY <1>1, <1>2, <1>3, <2>1 DEF Agreed, TableRight
<1>6. LastAllocation'
  BY <1>1, <1>2, <1>3, LastStays DEF Agreed
<1> QED BY <1>1, <1>4, <1>5, <1>6 DEF Agreed

\* The table may lack what is allocated now: it is not read again for it.
LEMMA RightServeAllocate ==
  ASSUME Types, Right, NEW r \in requests, Serve(r), Calm', r.kind = "allocate"
  PROVE  Agreed'
<1>1. Agreed /\ OnePerPlace' /\ UNCHANGED shown /\ Effect(r)
  BY ServedCalm
<1>2. PICK s : /\ requests' = (requests \ {r}) \cup {s}
               /\ s.kind = "allocate" /\ s.arg = r.arg
  BY ServedCalm
<1>3. UNCHANGED <<aliases, namespace, entryDialog, chips, table, panel>>
  BY <1>1 DEF Effect, shown
<1>4. PICK new \in SUBSET Unstored(r.ns) :
        /\ active' = active \cup new
        /\ allocation' = [e \in Entries |-> IF e \in new THEN r.arg ELSE allocation[e]]
  BY <1>1 DEF Effect
<1>5. r.arg = panel.number /\ panel.number # Nil /\ \A e \in new : e \in Entries /\ allocation[e] = Nil
  BY <1>1, <1>4, NumbersNotNil DEF Agreed, LastAllocation, Unstored, AllocatedBy
<1>6. AllocatedBy(panel.number)' = AllocatedBy(panel.number) \cup new
  BY <1>3, <1>4, <1>5 DEF AllocatedBy
<1>7. Listed(namespace) \subseteq Listed(namespace)' /\ Listed(namespace)' \subseteq Listed(namespace) \cup new
  BY <1>3, <1>4 DEF Listed
<1>8. (\A items : Current(items) => Current(items)') /\ (Current(table) => Current(table)')
  BY <1>3, <1>6, <1>7 DEF Current
<1>9. ReloadDue' <=> ReloadDue
  BY <1>2 DEF ReloadDue
<1>10. ChipsRight'
  BY <1>1, <1>2, <1>3, ChipsStay DEF Agreed
<1>11. \A q : q.kind = "search" => (q \in requests' <=> q \in requests)
  BY <1>2
<1>12. TableRight'
  BY <1>1, <1>3, <1>8, <1>9, <1>11 DEF Agreed, TableRight
<1>13. LastAllocation'
  BY <1>1, <1>2, <1>3 DEF Agreed, LastAllocation
<1> QED BY <1>1, <1>10, <1>12, <1>13 DEF Agreed

-----------------------------------------------------------------------------
\* A request whose answer arrives, and that sends nothing.
LEMMA CalmEnd ==
  ASSUME Types, Right, NEW r \in requests, requests' = requests \ {r}, r.answer.ok,
         UNCHANGED <<overlapped, failed>>, Calm'
  PROVE  Agreed /\ OnePerPlace'
<1>1. Calm
  BY DEF Calm
<1>2. Agreed
  BY <1>1 DEF Right
<1> QED BY <1>2 DEF Agreed, OnePerPlace

LEMMA RightShowAliases ==
  ASSUME Types, Right, NEW r \in requests, ShowAliases(r), Calm'
  PROVE  Agreed'
<1>1. /\ UNCHANGED <<aliases, active, allocation, namespace, entryDialog, table, panel, overlapped, failed>>
      /\ requests' = requests \ {r} /\ chips' = r.answer.items
      /\ r.kind = "aliases" /\ r.answer # Nil /\ r.answer.ok
  BY DEF ShowAliases, Arrived, database
<1>2. Agreed /\ OnePerPlace'
  BY <1>1, CalmEnd
<1>3. chips' = aliases[namespace]
  BY <1>1, <1>2 DEF Agreed, ChipsRight
<1>4. \A q \in requests' : q.kind # "aliases"
  BY <1>1, <1>2 DEF Agreed, OnePerPlace
<1>5. ChipsRight'
  BY <1>1, <1>3, <1>4 DEF ChipsRight
<1>6. ReloadDue' <=> ReloadDue
  BY <1>1 DEF ReloadDue
<1>7. TableRight'
  BY <1>1, <1>2, <1>6, TableStays DEF Agreed
<1>8. LastAllocation'
  BY <1>1, <1>2, LastStays DEF Agreed
<1> QED BY <1>2, <1>5, <1>7, <1>8 DEF Agreed

LEMMA RightShowEntries ==
  ASSUME Types, Right, NEW r \in requests, ShowEntries(r), Calm'
  PROVE  Agreed'
<1>1. /\ UNCHANGED <<aliases, active, allocation, namespace, entryDialog, chips, panel, overlapped, failed>>
      /\ requests' = requests \ {r} /\ table' = r.answer.items
      /\ r.kind = "search" /\ r.answer # Nil /\ r.answer.ok
  BY DEF ShowEntries, Arrived, database
<1>2. Agreed /\ OnePerPlace'
  BY <1>1, CalmEnd
<1>3. ChipsRight'
  BY <1>1, <1>2, ChipsStay DEF Agreed
<1>4. ReloadDue' <=> ReloadDue
  BY <1>1 DEF ReloadDue
<1>5. entryDialog /\ ~ReloadDue => Current(r.answer.items)
  BY <1>1, <1>2 DEF Agreed, TableRight
<1>6. Current(r.answer.items) => table' # Loading /\ Current(table)'
  <2>1. table' \subseteq Entries
    BY <1>1 DEF Types, Shape
  <2> QED BY <1>1, <2>1, PageAssumption DEF Current, Listed, AllocatedBy
<1>7. \A q \in requests' : q.kind # "search"
  BY <1>1, <1>2 DEF Agreed, OnePerPlace
<1>8. TableRight'
  BY <1>1, <1>4, <1>5, <1>6, <1>7 DEF TableRight
<1>9. LastAllocation'
  BY <1>1, <1>2, LastStays DEF Agreed
<1> QED BY <1>2, <1>3, <1>8, <1>9 DEF Agreed

\* The aliases are read again, of the namespace that is open by now.
LEMMA RightAliasChanged ==
  ASSUME Types, Right, NEW r \in requests, AliasChanged(r), Calm'
  PROVE  Agreed'
<1>1. /\ UNCHANGED <<active, allocation, namespace, entryDialog, table, panel, failed>>
      /\ SendAfter({r}, {Message("aliases", namespace, Nil)})
      /\ r.kind \in {"alias", "unalias"} /\ r.answer.ok
  BY DEF AliasChanged, Arrived, database, shown
<1>2. Agreed /\ OnePerPlace'
  BY <1>1, CalmSend
<1>3. PICK m : /\ requests' = (requests \ {r}) \cup {m}
               /\ m.kind = "aliases" /\ m.ns = namespace /\ m.answer = Nil
  BY <1>1, CalmSend
<1>4. ChipsRight'
  BY <1>1, <1>2, <1>3, ChipsLoading, Places
<1>5. ReloadDue' <=> ReloadDue
  BY <1>1, <1>3 DEF ReloadDue
<1>6. TableRight'
  BY <1>1, <1>2, <1>3, <1>5, TableStays DEF Agreed
<1>7. LastAllocation'
  BY <1>1, <1>2, <1>3, LastStays DEF Agreed
<1> QED BY <1>2, <1>4, <1>6, <1>7 DEF Agreed

\* The table is going to be read again.
LEMMA RightRevoked ==
  ASSUME Types, Right, NEW r \in requests, Revoked(r), Calm'
  PROVE  Agreed'
<1>1. /\ UNCHANGED <<aliases, namespace, entryDialog, chips, table, failed>>
      /\ SendAfter({r}, {Message("refresh", Nil, "revoke")})
      /\ r.kind = "revoke" /\ r.answer.ok
  BY DEF Revoked, Arrived, database
<1>2. Agreed /\ OnePerPlace'
  BY <1>1, CalmSend
<1>3. PICK m : /\ requests' = (requests \ {r}) \cup {m}
               /\ m.kind = "refresh" /\ m.arg = "revoke" /\ m.answer = Nil
  BY <1>1, CalmSend
<1>4. ChipsRight'
  BY <1>1, <1>2, <1>3, ChipsStay DEF Agreed
<1>5. TableRight'
  <2>1. ReloadDue'
    BY <1>3 DEF ReloadDue
  <2>2. \A q \in requests' : q.kind = "search" => q \in requests
    BY <1>3
  <2> QED BY <1>1, <1>2, <2>1, <2>2 DEF Agreed, TableRight
<1>6. LastAllocation'
  BY <1>1, <1>2, <1>3, Places DEF Agreed, OnePerPlace, LastAllocation
<1> QED BY <1>2, <1>4, <1>5, <1>6 DEF Agreed

LEMMA RightRefreshed ==
  ASSUME Types, Right, NEW r \in requests, Refreshed(r), Calm'
  PROVE  Agreed'
<1>1. /\ UNCHANGED <<aliases, active, allocation, namespace, entryDialog, chips, panel, failed>>
      /\ r.kind = "refresh" /\ r.answer # Nil /\ r.answer.ok
  BY DEF Refreshed, Arrived, database
<1>2. CASE entryDialog /\ SendAfter({r}, {Message("search", namespace, "revoke")})
  <2>1. Agreed /\ OnePerPlace'
    BY <1>1, <1>2, CalmSend
  <2>2. PICK m : /\ requests' = (requests \ {r}) \cup {m}
                 /\ m.kind = "search" /\ m.ns = namespace /\ m.answer = Nil
    BY <1>1, <1>2, CalmSend
  <2>3. ChipsRight'
    BY <1>1, <2>1, <2>2, ChipsStay DEF Agreed
  <2>4. TableRight'
    BY <1>1, <2>1, <2>2, TableLoading
  <2>5. LastAllocation'
    BY <1>1, <2>1, <2>2, LastStays DEF Agreed
  <2> QED BY <2>1, <2>3, <2>4, <2>5 DEF Agreed
<1>3. CASE /\ r.arg = "allocate" \/ ~entryDialog
           /\ SendAfter({r}, {})
           /\ UNCHANGED table
  <2>1. requests' = requests \ {r} /\ overlapped' = overlapped
    BY <1>3 DEF SendAfter, Types
  <2>2. Agreed /\ OnePerPlace'
    BY <1>1, <1>3, <2>1, CalmEnd
  <2>3. ChipsRight'
    BY <1>1, <2>1, <2>2, ChipsStay DEF Agreed
  <2>4. TableRight'
    <3>1. CASE ~entryDialog
      BY <1>1, <3>1 DEF TableRight
    <3>2. CASE r.arg = "allocate"
      <4>1. ReloadDue' <=> ReloadDue
        BY <1>1, <2>1, <3>2 DEF ReloadDue
      <4> QED BY <1>1, <1>3, <2>1, <2>2, <4>1, TableStays DEF Agreed
    <3> QED BY <1>3, <3>1, <3>2
  <2>5. LastAllocation'
    BY <1>1, <2>1, <2>2, LastStays DEF Agreed
  <2> QED BY <2>2, <2>3, <2>4, <2>5 DEF Agreed
<1> QED BY <1>2, <1>3 DEF Refreshed

LEMMA RightGranted ==
  ASSUME Types, Right, NEW r \in requests, Granted(r), Calm'
  PROVE  Agreed'
<1>1. /\ UNCHANGED <<aliases, active, allocation, namespace, entryDialog, chips, table, failed>>
      /\ SendAfter({r}, {Message("refresh", Nil, "allocate")})
      /\ r.kind = "allocate" /\ r.answer.ok
      /\ panel'.number = r.arg
  BY DEF Granted, Arrived, database
<1>2. Agreed /\ OnePerPlace'
  BY <1>1, CalmSend
<1>3. PICK m : /\ requests' = (requests \ {r}) \cup {m}
               /\ m.kind = "refresh" /\ m.arg = "allocate" /\ m.answer = Nil
  BY <1>1, CalmSend
<1>4. ChipsRight'
  BY <1>1, <1>2, <1>3, ChipsStay DEF Agreed
<1>5. ReloadDue' <=> ReloadDue
  BY <1>1, <1>3 DEF ReloadDue
<1>6. panel'.number = panel.number
  BY <1>1, <1>2 DEF Agreed, LastAllocation
<1>7. TableRight'
  BY <1>1, <1>2, <1>3, <1>5, <1>6, TableStays DEF Agreed
<1>8. LastAllocation'
  BY <1>2, <1>3, <1>6, LastStays DEF Agreed
<1> QED BY <1>2, <1>4, <1>7, <1>8 DEF Agreed

-----------------------------------------------------------------------------
LEMMA RightInit == Init => Right
BY DEF Init, Right, Agreed, OnePerPlace, ChipsRight, TableRight, LastAllocation

LEMMA RightStep == Types /\ Right /\ [Next]_vars => Right'
<1> SUFFICES ASSUME Types, Right, [Next]_vars, Calm' PROVE Agreed'
  BY DEF Right
<1>1. CASE User \/ SearchTimer
  BY <1>1, RightOpenEntries, RightReload, RightWriteAlias, RightQuiet, RightConfirmRevoke, RightAllocate DEF User
<1>2. ASSUME NEW r \in requests, Serve(r)
      PROVE  Agreed'
  <2>1. r.kind \in Kinds
    BY DEF Types, TypeOK
  <2> QED BY <1>2, <2>1, RightServeRead, RightServeAlias, RightServeRevoke, RightServeAllocate DEF Kinds
<1>3. ASSUME NEW r \in requests, Receive(r)
      PROVE  Agreed'
  <2>1. ~Failed(r)
    BY DEF Failed, Calm
  <2> QED BY <1>3, <2>1, RightShowAliases, RightShowEntries, RightAliasChanged, RightRevoked,
             RightRefreshed, RightGranted DEF Receive
<1>4. CASE UNCHANGED vars
  <2>1. Calm
    BY <1>4 DEF Calm, vars
  <2>2. Agreed
    BY <2>1 DEF Right
  <2> QED BY <1>4, <2>2 DEF Agreed, OnePerPlace, ChipsRight, TableRight, Current, Listed, AllocatedBy,
                            ReloadDue, LastAllocation, vars, database, shown
<1> QED BY <1>1, <1>2, <1>3, <1>4 DEF Next

\* When nothing is under way, the panel says what the database holds, whatever
\* failed, but for what the user has revoked in the table; and as long as no
\* request failed and no two of one place met, so does the open dialog, but for
\* what the last allocation has added.
THEOREM RestShowsDatabase == Spec => []AtRestShowsDatabase
<1>1. Types /\ Panel /\ Right => AtRestShowsDatabase
  <2> SUFFICES ASSUME Types, Panel, Right, requests = {}
               PROVE  AtRestShowsDatabase
    BY DEF AtRestShowsDatabase
  <2>1. panel.says # "loading" /\ (panel.says = "revoked" => AllocatedBy(panel.number) \cap active = {})
    BY DEF Panel, PanelTrue
  <2>2. ASSUME panel.says = "granted"
        PROVE  /\ AllocatedBy(panel.number) # {}
               /\ \A e \in AllocatedBy(panel.number) \ active :
                    [mode |-> "entry", id |-> e] \in confirmed \/ (failed /\ Confirmed(panel.number))
    <3>1. Confirmed(panel.number) => failed
      BY <2>2 DEF Panel, PanelTrue, RevokeDue
    <3>2. \A e \in AllocatedBy(panel.number) : e \in Entries /\ allocation[e] = panel.number /\ allocation[e] # Nil
      BY NumbersNotNil DEF AllocatedBy
    <3> QED BY <2>2, <3>1, <3>2 DEF Panel, PanelTrue, GoneConfirmed
  <2>3. ASSUME entryDialog, ~overlapped, ~failed
        PROVE  /\ chips = aliases[namespace]
               /\ table # Loading /\ Current(table)
    <3>1. Calm /\ ~ReloadDue
      BY <2>3 DEF Calm, ReloadDue
    <3> QED BY <2>3, <3>1 DEF Right, Agreed, ChipsRight, TableRight, Types, TypeOK
  <2> QED BY <2>1, <2>2, <2>3 DEF AtRestShowsDatabase, Confirmed, Current
<1> QED BY <1>1, TypesInit, TypesStep, PanelInit, PanelStep, RightInit, RightStep, PTL DEF Spec
-----------------------------------------------------------------------------
(***************************************************************************)
(* Why the button of the revoke dialog is enabled again.                   *)
(***************************************************************************)
RevokeSent == \E r \in requests : r.kind = "revoke"
ButtonWaits == revoke # Nil /\ disabled => RevokeSent

\* A request of another kind that goes does not end the wait.
LEMMA WaitStays ==
  ASSUME ButtonWaits, UNCHANGED <<revoke, disabled>>,
         \A r \in requests : r.kind = "revoke" => \E q \in requests' : q.kind = "revoke"
  PROVE  ButtonWaits'
BY DEF ButtonWaits, RevokeSent

LEMMA ButtonStep == Types /\ ButtonWaits /\ [Next]_vars => ButtonWaits'
<1> SUFFICES ASSUME Types, ButtonWaits, [Next]_vars PROVE ButtonWaits'
  OBVIOUS
<1>1. CASE UNCHANGED vars
  BY <1>1, WaitStays DEF vars, shown
<1>2. CASE \/ \E ns \in Namespaces : OpenEntries(ns)
           \/ \E ns \in Namespaces : Allocate(ns)
           \/ CloseEntries \/ Reload \/ TypeSearch \/ SearchTimer
           \/ \E item \in chips : DeleteAlias(item)
           \/ \E label \in Labels : AddAlias(label)
  BY <1>2, WaitStays DEF OpenEntries, CloseEntries, Reload, TypeSearch, SearchTimer, Allocate,
                         DeleteAlias, AddAlias, Click, SendAfter, shown
<1>3. CASE CloseRevoke \/ \E target \in Target : OpenRevoke(target)
  BY <1>3 DEF CloseRevoke, OpenRevoke, ButtonWaits
<1>4. CASE ConfirmRevoke
  <2>1. PICK number : Message("revoke", Nil, revoke) = Unanswered("revoke", Nil, revoke, number)
    BY MessageIs
  <2>2. Message("revoke", Nil, revoke).kind = "revoke"
    BY <2>1 DEF Unanswered
  <2> QED
    BY <1>4, <2>2 DEF ConfirmRevoke, Click, SendAfter, ButtonWaits, RevokeSent
<1>5. ASSUME NEW r \in requests, Serve(r) PROVE ButtonWaits'
  <2>1. PICK result : Answer(r, result)
    BY <1>5 DEF Serve
  <2>2. [r EXCEPT !.answer = result].kind = r.kind
    BY AnswerIs DEF Types
  <2> QED
    BY <2>1, <2>2, WaitStays DEF Answer, shown
<1>6. ASSUME NEW r \in requests, ShowAliases(r) \/ ShowEntries(r) \/ AliasChanged(r) \/ Refreshed(r) \/ Granted(r)
      PROVE  ButtonWaits'
  BY <1>6, WaitStays DEF ShowAliases, ShowEntries, AliasChanged, Refreshed, Granted, Arrived, SendAfter, shown
<1>7. ASSUME NEW r \in requests, Revoked(r) PROVE ButtonWaits'
  BY <1>7 DEF Revoked, ButtonWaits
<1>8. ASSUME NEW r \in requests, Failed(r) PROVE ButtonWaits'
  <2>1. CASE r.kind = "revoke"
    BY <1>8, <2>1 DEF Failed, Reenable, ButtonWaits
  <2>2. CASE r.kind # "revoke"
    BY <1>8, <2>2 DEF Failed, Reenable, ButtonWaits, RevokeSent
  <2> QED
    BY <2>1, <2>2
<1> QED
  BY <1>1, <1>2, <1>3, <1>4, <1>5, <1>6, <1>7, <1>8 DEF Next, User, Receive

\* While a revoke dialog is open with its button disabled, a revocation is
\* under way whose answer closes the dialog or enables the button, also when
\* the dialog is not the one that sent it.
THEOREM DisabledWaits == Spec => []ButtonWaits
<1>1. Init => ButtonWaits
  BY DEF Init, ButtonWaits
<1> QED
  BY <1>1, TypesInit, TypesStep, ButtonStep, PTL DEF Spec
=============================================================================
