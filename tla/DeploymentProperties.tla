------------------------ MODULE DeploymentProperties ------------------------
(***************************************************************************)
(* What Deployment promises to the users of the skill and to operators.    *)
(***************************************************************************)
EXTENDS Deployment

\* The types of the variables, and who may be connected when: only a process
\* that has migrated has requests in progress (main.go, type_registry.py).
TypeOK ==
  /\ main \in {"down", "migrate", "serve", "shutdown", "join"}
  /\ listener \in {"none", "start", "listening", "failed", "closed", "ended"}
  /\ serverErr \in {"empty", "ok", "error"}
  /\ done \in BOOLEAN
  /\ open \subseteq {p \in Clients : pc[p] \in Waiting}
  /\ running \in Releases /\ binary \in Releases
  /\ package \in Packages \cup {NoPackage}
  /\ disk \in [Files -> Releases]
  /\ pc \in [Clients -> Waiting \cup Ended \cup
               {"idle", "fetch", "judge", "send", "request", "copy"}]
  /\ script \in [Clients -> Releases] /\ header \in [Clients -> Releases]
  /\ left \in [Clients -> SUBSET Files]
  /\ granted \in [Clients -> {0, 1}]
  /\ open # {} => main \in {"serve", "shutdown"}

\* A process that gets past its shutdown has answered every request it had
\* accepted: none is cut off between Shutdown and the exit (runServer).
ShutdownAnswersAll ==
  [][main = "join" /\ main' = "down" => open = {}]_vars

\* A process whose context has ended, by a signal or because it cannot
\* listen, ends: the two goroutines never wait for each other (runServer).
EndsWhenTold == (main # "down" /\ (done \/ listener = "failed")) ~> main = "down"

\* No client writes under a version that the serving release does not support,
\* whatever was upgraded between its check and its request (version.go:230).
WritesRespectMinimum ==
  [][\A p \in Clients : granted'[p] > granted[p] => ~TooOld(header[p], running)]_vars

\* What a command reports is what happened: a refused one has written nothing,
\* a successful one once, and a failed one at most once (type_registry.py:320).
ReportsMatchWrites ==
  \A p \in Clients :
    /\ pc[p] = "refused" => granted[p] = 0
    /\ pc[p] = "ok" => granted[p] = 1
    /\ granted[p] <= 1

\* An update that no other one met leaves one release in the directory, the
\* one the server called the latest, also after an earlier update died half
\* way and whatever was put in place of the package (command_update).
UpdatesAreWhole ==
  [][\A p \in Clients :
       pc[p] = "copy" /\ pc'[p] = "updated" /\ ~disturbed[p] =>
         disk = [f \in Files |-> info[p].latest]]_vars

\* The address in the record is that of the client, whatever it wrote into
\* the header (clientIP, behind the proxies of TYPE_REGISTRY_TRUSTED_PROXIES).
RecordsTheClient ==
  \A p \in Clients : granted[p] > 0 => recorded[p] = Route[p].client

\* A script below the minimum does not write (src/skills/type-registry/
\* SKILL.md:32), if its directory was whole and no update has met the command.
\* Otherwise it may: the manifest, whose version it sends, may be newer.
OldScriptsDoNotWrite ==
  [][\A p \in Clients :
       /\ granted'[p] > granted[p] /\ ~disturbed[p]
       /\ \A f \in Files : disk[f] = disk["manifest.json"]
       => ~TooOld(script[p], running)]_vars
=============================================================================
