--------------------------- MODULE PageProperties ---------------------------
(***************************************************************************)
(* What Page promises to the user, and what it does not.                   *)
(***************************************************************************)
EXTENDS Page

\* The types of the variables, and who may be in progress: a refresh goes
\* with a revocation or an allocation (web/app.js).
TypeOK ==
  /\ aliases \in [Namespaces -> SUBSET Alias]
  /\ allocation \in [Entries -> 1..clicks \cup {Nil}]
  /\ active \subseteq {e \in Entries : e \in FirstEntries \/ allocation[e] # Nil}
  /\ namespace \in Namespaces \cup {Nil}
  /\ entryDialog => namespace # Nil
  /\ chips \subseteq Alias
  /\ table = Loading \/ table \subseteq Entries
  /\ timer \in BOOLEAN
  /\ revoke = Nil \/ revoke \in Target
  /\ panel \in [says: {"nothing", "loading", "granted", "revoked", "failed"}, number: 0..clicks]
  /\ \A r \in requests : r.kind \in Kinds
  /\ clicks \in 0..MaxClicks
  /\ confirmed \subseteq Target

\* When nothing is under way, the panel is not waiting any more, whatever
\* failed and in whatever order answers arrived.  What it calls revoked is
\* revoked, and what it calls granted is granted, but for what the user has
\* revoked as entries of the table (the panel keeps its button then) and, if a
\* request failed, as the whole.  As long as no request failed and no two of
\* them changed one part of the page at a time, the open dialog shows the
\* aliases and live entries of its namespace, but for those of the allocation
\* in the panel: its answer reloads the namespaces, not the open table.
AtRestShowsDatabase ==
  requests = {} =>
    /\ panel.says # "loading"
    /\ panel.says = "revoked" => AllocatedBy(panel.number) \cap active = {}
    /\ panel.says = "granted" =>
         /\ AllocatedBy(panel.number) # {}
         /\ \A e \in AllocatedBy(panel.number) \ active :
              \/ [mode |-> "entry", id |-> e] \in confirmed
              \/ failed /\ [mode |-> "allocation", id |-> panel.number] \in confirmed
    /\ entryDialog /\ ~overlapped /\ ~failed =>
         /\ chips = aliases[namespace]
         /\ table # Loading /\ table \subseteq Listed(namespace)
         /\ Listed(namespace) \ table \subseteq AllocatedBy(panel.number)

\* The button of a revoke dialog does not stay disabled: an answer to its
\* request, or to the one of a dialog before, enables it or closes the dialog.
ButtonsRevive == (revoke # Nil /\ disabled) ~> (revoke = Nil \/ ~disabled)

\* An alias goes only if the user clicked on its chip; the label of the button
\* says "delete alias" and the alias (src/web/app.js:560).
DeletesTheAliasShown ==
  [][\A ns \in Namespaces : \A item \in aliases[ns] \ aliases'[ns] :
       \E r \in requests : r.kind = "unalias" /\ r.ns = ns /\ r.arg = item]_vars
=============================================================================
