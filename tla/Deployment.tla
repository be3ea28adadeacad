----------------------------- MODULE Deployment -----------------------------
(***************************************************************************)
(* The agent skill and the server it talks to, while both are upgraded:    *)
(* the client of the skill (skills/type-registry/scripts/type_registry.py),*)
(* the gate that keeps old clients from writing (internal/httpapi/         *)
(* version.go), the download of the skill package (api.go,                 *)
(* skill_package.go), and the process that serves them (ServerProcess).    *)
(*                                                                         *)
(* Commands run as processes of their own over one skill directory, which  *)
(* "update" overwrites file by file.  A process keeps the script it was    *)
(* started with; the version it sends is that of the manifest on disk at   *)
(* the time.  A release stands for the text of its version; Number is what *)
(* compareSemanticVersion and version_tuple see of it.                     *)
(***************************************************************************)
EXTENDS ServerProcess, Sequences, Functions, ClientAddress

CONSTANTS
  Files,        \* the files of a complete skill but config.json
  Commands,     \* Commands[p]: what the user of p may run
  Number,       \* Number[r]: major, minor, patch of release r, in their order
  MinSupported, \* MinSupported[r]: product.MinSupportedSkillVersion of r
  Legacy,       \* the release without version header, check and update
  Packages,     \* the archives the operator has; config: with config.json
  NoPackage,
  FirstSkills,  \* the releases the skill directory may hold at first
  Route,        \* Route[p]: [client, forged, proxies], the way of p's requests
  MaxCommands, MaxChanges  \* bounds

VARIABLES
  package,    \* the file at SkillPackagePath
  disk,       \* the skill directory: disk[f] is the release of file f
  pc,         \* per client: where its command is
  command,    \* what it was asked for
  script,     \* the release of the script it executes
  header,     \* the version its last request carried
  info,       \* the answer of /api/v1/skill-version
  zip,        \* the archive it has downloaded
  left,       \* the files it has still to copy
  disturbed,  \* history: another command has written a file since it began
  granted,    \* how often the registry has done what it was asked to write
  recorded,   \* the address that was written with it
  commands, changes

skill == <<package, disk, pc, command, script, header, info, zip, left, disturbed, granted, recorded>>
counters == <<commands, changes>>
vars == <<server, skill, counters>>

-----------------------------------------------------------------------------
Info == [latest: Releases, ready: BOOLEAN]
NoInfo == <<>>

ASSUME DeploymentAssumption ==
  /\ {"manifest.json", "type_registry.py"} \subseteq Files
  /\ Commands \in [Clients -> SUBSET {"allocate", "update"}]
  /\ Legacy \in Releases
  /\ Number \in [Releases -> Nat]
  /\ MinSupported \in [Releases -> Nat]
  /\ \A r \in Releases : MinSupported[r] <= Number[r]
  /\ Packages \subseteq [release: Releases, files: SUBSET Files, config: BOOLEAN]
  /\ NoPackage \notin Packages
  /\ FirstSkills \subseteq Releases
  /\ MaxCommands \in Nat /\ MaxChanges \in Nat

\* A client is no proxy, and what lies between it and the server is trusted.
ASSUME RouteAssumption ==
  \A p \in Clients :
    /\ Route[p].client \in Addresses \ TrustedProxies
    /\ Route[p].forged \in Seq(Addresses)
    /\ Route[p].proxies \in Seq(TrustedProxies)

\* requestSkillVersion is empty for the legacy client.  The code also asks
\* for a version below the latest, which the minimum does not exceed.
TooOld(version, release) == version = Legacy \/ Number[version] < MinSupported[release]

\* readSkillPackageVersion needs the manifest only.
Readable == package # NoPackage /\ "manifest.json" \in package.files
PackageReady == Readable /\ Number[package.release] = Number[running]

-----------------------------------------------------------------------------
Init ==
  /\ ServerInit
  /\ package \in {archive \in Packages : archive.release = running}
  /\ \E r \in FirstSkills : disk = [f \in Files |-> r]
  /\ pc = [p \in Clients |-> "idle"]
  /\ command = [p \in Clients |-> "none"]
  /\ script = [p \in Clients |-> Legacy]
  /\ header = [p \in Clients |-> Legacy]
  /\ info = [p \in Clients |-> NoInfo]
  /\ zip = [p \in Clients |-> NoPackage]
  /\ left = [p \in Clients |-> {}]
  /\ disturbed = [p \in Clients |-> FALSE]
  /\ granted = [p \in Clients |-> 0]
  /\ recorded = [p \in Clients |-> "none"]
  /\ commands = 0 /\ changes = 0

Goto(p, label) == pc' = [pc EXCEPT ![p] = label]

\* A step that only moves the command on.
Step(p, label) ==
  /\ Goto(p, label)
  /\ UNCHANGED <<package, disk, command, script, header, info, zip, left, disturbed,
                 granted, recorded, counters>>

\* The user runs a command: Python loads the script.
Begin(p, what) ==
  /\ pc[p] = "idle"
  /\ commands < MaxCommands
  /\ commands' = commands + 1
  /\ command' = [command EXCEPT ![p] = what]
  /\ script' = [script EXCEPT ![p] = disk["type_registry.py"]]
  /\ \/ /\ disk["type_registry.py"] = Legacy /\ what = "allocate"
        /\ Goto(p, "send")
     \/ disk["type_registry.py"] # Legacy /\ Goto(p, "fetch")
  /\ UNCHANGED <<server, package, disk, header, info, zip, left, disturbed, granted, recorded, changes>>

-----------------------------------------------------------------------------
\* urlopen: the process accepts the request.  A write carries the version of
\* this moment (request_headers); the other requests bypass the gate.
Connect(p, from, to) ==
  /\ pc[p] = from
  /\ Accept(p)
  /\ header' = IF to # "gate" THEN header
       ELSE [header EXCEPT ![p] = IF script[p] = Legacy THEN Legacy ELSE disk["manifest.json"]]
  /\ Goto(p, to)
  /\ UNCHANGED <<package, disk, command, script, info, zip, left, disturbed, granted, recorded, counters>>

\* Nobody listens.
CannotConnect(p) ==
  /\ pc[p] \in {"fetch", "send", "request"}
  /\ listener # "listening"
  /\ Step(p, "failed")
  /\ UNCHANGED server

\* The places where the command waits for an answer.
Waiting == {"version", "gate", "write", "reply", "package", "build"}

\* The process has ended without an answer.
Disconnected(p) ==
  /\ pc[p] \in Waiting
  /\ p \notin open
  /\ Step(p, "failed")
  /\ UNCHANGED server

\* fetch_skill_version; skillVersion bypasses the gate.  An update goes on if
\* the answer says that there is something to download (command_update).
SkillVersion(p) ==
  /\ pc[p] = "version" /\ p \in open
  /\ info' = [info EXCEPT ![p] = [latest |-> running, ready |-> PackageReady]]
  /\ Leave(p)
  /\ Goto(p, IF command[p] = "allocate" THEN "judge"
             ELSE IF PackageReady THEN "request" ELSE "failed")
  /\ UNCHANGED <<package, disk, command, script, header, zip, left, disturbed, granted, recorded, counters>>

\* check_skill_version.  The answer carries the minimum of the release too.
CheckSkillVersion(p) ==
  /\ pc[p] = "judge"
  /\ Step(p, IF Number[disk["manifest.json"]] < MinSupported[info[p].latest] THEN "refused" ELSE "send")
  /\ UNCHANGED server

-----------------------------------------------------------------------------
\* Faulty variants: the handler runs before the gate is asked; no gate.
GateLast(p) ==
  /\ pc[p] = "gate" /\ p \in open
  /\ granted' = [granted EXCEPT ![p] = @ + 1]
  /\ IF TooOld(header[p], running) THEN Leave(p) /\ Goto(p, "refused")
     ELSE UNCHANGED server /\ Goto(p, "reply")
  /\ UNCHANGED <<package, disk, command, script, header, info, zip, left, disturbed, recorded, counters>>
NoGate(p) ==
  /\ pc[p] = "gate" /\ p \in open
  /\ Step(p, "write") /\ UNCHANGED server

\* withSkillVersionNotice, for a write.
Gate(p) ==
  /\ pc[p] = "gate" /\ p \in open
  /\ IF TooOld(header[p], running) THEN Step(p, "refused") /\ Leave(p)
     ELSE Step(p, "write") /\ UNCHANGED server

\* The transaction of TypeRegistry, with the address of the client.
Grant(p) ==
  /\ granted' = [granted EXCEPT ![p] = @ + 1]
  /\ recorded' = [recorded EXCEPT ![p] =
       ClientIP(RemoteOf(Route[p]), ForwardedOf(Route[p]))]
  /\ UNCHANGED <<package, disk, command, script, header, info, zip, left, disturbed, counters>>

Allocate(p) ==
  /\ pc[p] = "write" /\ p \in open
  /\ \/ Grant(p) /\ Goto(p, "reply") /\ UNCHANGED server
     \/ Step(p, "failed") /\ Leave(p)

Reply(p) ==
  /\ pc[p] = "reply" /\ p \in open
  /\ Step(p, "ok") /\ Leave(p)

\* urlopen times out; the handler is cancelled, or gets through.
TimeOut(p) ==
  /\ pc[p] \in Waiting /\ p \in open
  /\ Leave(p)
  /\ \/ Step(p, "failed")
     \/ pc[p] = "write" /\ Grant(p) /\ Goto(p, "failed")

-----------------------------------------------------------------------------
\* downloadSkillPackage: the first read of the file ...
EnsureSkillPackageCurrent(p) ==
  /\ pc[p] = "package" /\ p \in open
  /\ IF PackageReady THEN Step(p, "build") /\ UNCHANGED server
     ELSE Step(p, "failed") /\ Leave(p)

\* buildSkillPackage needs the file it rewrites only.
Buildable == package # NoPackage /\ package.config

\* Faulty variant: the version of the package is not compared with the answer.
HasFiles(archive, latest) == archive.files = Files
\* The archive, unpacked aside, has what is required.
Acceptable(archive, latest) == archive.files = Files /\ archive.release = latest

\* ... and the second, which copies it with the public URL in config.json to
\* the client, which judges what it has received.
BuildSkillPackage(p) ==
  /\ pc[p] = "build" /\ p \in open
  /\ Leave(p)
  /\ \/ /\ Buildable
        /\ Acceptable(package, info[p].latest)
        /\ Goto(p, "copy")
        /\ zip' = [zip EXCEPT ![p] = package]
        /\ left' = [left EXCEPT ![p] = Files]
        /\ UNCHANGED <<package, disk, command, script, header, info, disturbed, granted, recorded, counters>>
     \/ /\ ~(Buildable /\ Acceptable(package, info[p].latest))
        /\ Step(p, "failed")

\* shutil.copy2 of one file, in the order of rglob: any.
CopyFile(p) ==
  /\ pc[p] = "copy"
  /\ \E f \in left[p] :
       /\ disk' = [disk EXCEPT ![f] = zip[p].release]
       /\ left' = [left EXCEPT ![p] = @ \ {f}]
  /\ disturbed' = [q \in Clients |-> disturbed[q] \/ (q # p /\ pc[q] # "idle")]
  /\ UNCHANGED <<server, package, pc, command, script, header, info, zip, granted, recorded, counters>>

\* print_json of the versions.
EndUpdate(p) ==
  /\ pc[p] = "copy" /\ left[p] = {}
  /\ Step(p, "updated")
  /\ UNCHANGED server

-----------------------------------------------------------------------------
Ended == {"ok", "refused", "failed", "updated"}

\* The result is printed.
End(p) ==
  /\ pc[p] \in Ended
  /\ Goto(p, "idle")
  /\ command' = [command EXCEPT ![p] = "none"]
  /\ script' = [script EXCEPT ![p] = Legacy]
  /\ header' = [header EXCEPT ![p] = Legacy]
  /\ info' = [info EXCEPT ![p] = NoInfo]
  /\ zip' = [zip EXCEPT ![p] = NoPackage]
  /\ left' = [left EXCEPT ![p] = {}]
  /\ disturbed' = [disturbed EXCEPT ![p] = FALSE]
  /\ granted' = [granted EXCEPT ![p] = 0]
  /\ recorded' = [recorded EXCEPT ![p] = "none"]
  /\ UNCHANGED <<server, package, disk, counters>>

\* The command is killed, or a file cannot be written.
Die(p) ==
  /\ pc[p] = "copy"
  /\ Step(p, "failed")
  /\ UNCHANGED server

\* The operator replaces the binary, or the package; both must be replaced
\* together (src/README.md:137), and are two files.
Change ==
  /\ changes < MaxChanges
  /\ changes' = changes + 1
  /\ \/ (\E r \in Binaries : InstallBinary(r)) /\ UNCHANGED skill
     \/ /\ package' \in (Packages \cup {NoPackage}) \ {package}
        /\ UNCHANGED <<server, disk, pc, command, script, header, info, zip, left, disturbed,
                       granted, recorded>>
  /\ UNCHANGED commands

-----------------------------------------------------------------------------
Process ==
  /\ Start \/ Signal \/ Listening \/ Main \/ Kill
  /\ UNCHANGED <<skill, counters>>

Handle(p) ==
  \/ SkillVersion(p) \/ Gate(p) \/ Allocate(p) \/ Reply(p)
  \/ EnsureSkillPackageCurrent(p) \/ BuildSkillPackage(p)

Run(p) ==
  \/ \E what \in Commands[p] : Begin(p, what)
  \/ Connect(p, "fetch", "version") \/ Connect(p, "send", "gate") \/ Connect(p, "request", "package")
  \/ CannotConnect(p) \/ Disconnected(p) \/ TimeOut(p)
  \/ CheckSkillVersion(p) \/ CopyFile(p) \/ EndUpdate(p)
  \/ End(p) \/ Die(p)

Next == Process \/ Change \/ \E p \in Clients : Handle(p) \/ Run(p)

Spec == Init /\ [][Next]_vars

\* Goroutines that can run do.  Nothing is assumed of operators and users.
FairSpec ==
  /\ Spec
  /\ WF_vars(Listening /\ UNCHANGED <<skill, counters>>)
  /\ WF_vars(Main /\ UNCHANGED <<skill, counters>>)
=============================================================================
