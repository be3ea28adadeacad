-------------------------- MODULE DeploymentProofs --------------------------
(***************************************************************************)
(* The safety properties of Deployment, for every set of clients, releases *)
(* and packages, and for every route through trusted proxies.              *)
(***************************************************************************)
EXTENDS DeploymentProperties, SequenceTheorems, TLAPS

-----------------------------------------------------------------------------
(***************************************************************************)
(* The address.  What the client has forged ends before the client's own   *)
(* address, and after that there are only trusted ones: the walk from the  *)
(* right stops at the client.                                              *)
(***************************************************************************)
LEMMA LastPosition ==
  ASSUME NEW S \in SUBSET Int, NEW i \in S, \A k \in S : k <= i
  PROVE  LastOf(S) = i
<1> DEFINE P(j) == j \in S /\ \A k \in S : k <= j
<1>1. P(i)
  OBVIOUS
<1>2. P(CHOOSE j : P(j))
  <2> HIDE DEF P
  <2> QED
    BY <1>1
<1>3. P(LastOf(S))
  BY <1>2 DEF LastOf
<1>4. LastOf(S) \in Int /\ i \in Int /\ i <= LastOf(S) /\ LastOf(S) <= i
  BY <1>3
<1> QED
  BY <1>4

\* Behind trusted proxies, or without any, clientIP finds the client whatever
\* the header it sent (client_ip.go:30).
THEOREM FindsTheClient ==
  ASSUME NEW client \in Addresses \ TrustedProxies,
         NEW forged \in Seq(Addresses), NEW proxies \in Seq(TrustedProxies),
         NEW route, route.client = client, route.forged = forged, route.proxies = proxies
  PROVE  ClientIP(RemoteOf(route), ForwardedOf(route)) = client
<1> DEFINE hops == <<client>> \o proxies
           n == Len(proxies)
           f == Len(forged)
           via == SubSeq(hops, 1, n)
           header_ == forged \o via
<1> USE AddressAssumption
<1>1. /\ n \in Nat /\ f \in Nat
      /\ proxies \in Seq(Addresses) /\ hops \in Seq(Addresses) /\ Len(hops) = n + 1
      /\ hops[1] = client
      /\ \A i \in 1..n : hops[i + 1] = proxies[i]
      /\ \A i \in 1..n : proxies[i] \in TrustedProxies
  OBVIOUS
<1>2. Hops(route) = hops /\ RemoteOf(route) = hops[n + 1] /\ ForwardedOf(route) = header_
  BY <1>1 DEF Hops, RemoteOf, ForwardedOf
<1>3. CASE n = 0
  BY <1>1, <1>2, <1>3 DEF ClientIP
<1>4. CASE n > 0
  <2>1. /\ via \in Seq(Addresses) /\ Len(via) = n
        /\ \A i \in 1..n : via[i] = hops[i]
    BY <1>1
  <2>2. /\ header_ \in Seq(Addresses) /\ Len(header_) = f + n
        /\ \A i \in 1..n : header_[f + i] = hops[i]
    BY <1>1, <2>1
  <2>3. hops[n + 1] \in TrustedProxies
    BY <1>1, <1>4
  <2>4. f + 1 \in 1..Len(header_) /\ header_[f + 1] = client
    BY <1>1, <1>4, <2>2
  <2>5. f + 1 \in Untrusted(header_)
    BY <2>4 DEF Untrusted
  <2>6. ASSUME NEW k \in Untrusted(header_) PROVE k <= f + 1
    <3>1. k \in 1..(f + n) /\ header_[k] \notin TrustedProxies
      BY <2>2, <2>6 DEF Untrusted
    <3>2. CASE k > f + 1
      <4>1. k - f \in 1..n /\ k - f - 1 \in 1..n /\ k = f + (k - f)
        BY <1>1, <3>1, <3>2
      <4>2. header_[k] = hops[k - f]
        BY <2>2, <4>1
      <4>3. hops[(k - f - 1) + 1] = proxies[k - f - 1]
        BY <1>1, <4>1
      <4> QED
        BY <1>1, <3>1, <4>1, <4>2, <4>3
    <3> QED
      BY <1>1, <3>1, <3>2
  <2>7. Untrusted(header_) \in SUBSET Int
    BY <2>2, <1>1 DEF Untrusted
  <2>8. LastOf(Untrusted(header_)) = f + 1
    BY <2>5, <2>6, <2>7, LastPosition
  <2> QED
    BY <1>2, <2>3, <2>4, <2>5, <2>8 DEF ClientIP
<1> QED
  BY <1>1, <1>3, <1>4

-----------------------------------------------------------------------------
(***************************************************************************)
(* The inductive invariant.  Domains complements TypeOK.  ServerOK says    *)
(* that the release can change only while no request is open, and that a   *)
(* process past its shutdown neither listens nor owes an answer.  Client   *)
(* relates what a command has seen to the directory and to the registry.   *)
(***************************************************************************)
Domains ==
  /\ info \in [Clients -> [latest: Releases, ready: BOOLEAN] \cup {NoInfo}]
  /\ zip \in [Clients -> Packages \cup {NoPackage}]
  /\ disturbed \in [Clients -> BOOLEAN]
  /\ DOMAIN command = Clients /\ DOMAIN recorded = Clients

ServerOK ==
  /\ main \in {"down", "migrate", "join"} => open = {}
  /\ main \in {"down", "migrate"} => listener = "none"
  /\ main \in {"shutdown", "join"} => listener # "listening"

\* Where the script is still the one of the directory.
BeforeWrite == {"fetch", "version", "judge", "send", "gate", "write"}

Writes(p) ==
  /\ granted[p] \in IF pc[p] = "failed" THEN {0, 1}
                    ELSE IF pc[p] \in {"reply", "ok"} THEN {1} ELSE {0}
  /\ granted[p] = 1 => recorded[p] = Route[p].client
  /\ pc[p] = "write" /\ p \in open => ~TooOld(header[p], running)

Versions(p) ==
  /\ ~disturbed[p] /\ pc[p] \in BeforeWrite => script[p] = disk["type_registry.py"]
  /\ ~disturbed[p] /\ pc[p] \in {"gate", "write"} =>
       header[p] = IF script[p] = Legacy THEN Legacy ELSE disk["manifest.json"]

Update(p) ==
  pc[p] = "copy" =>
    /\ zip[p] \in Packages /\ zip[p].release = info[p].latest
    /\ ~disturbed[p] => \A f \in Files \ left[p] : disk[f] = zip[p].release

Client(p) == Writes(p) /\ Versions(p) /\ Update(p)

Inv == TypeOK /\ Domains /\ ServerOK /\ \A p \in Clients : Client(p)

-----------------------------------------------------------------------------
LEMMA InitInv == Init => Inv
<1> SUFFICES ASSUME Init PROVE Inv
  OBVIOUS
<1> USE ServerAssumption, DeploymentAssumption
<1>1. TypeOK
  BY DEF Init, ServerInit, TypeOK
<1>2. Domains
  BY DEF Init, Domains
<1>3. ServerOK
  BY DEF Init, ServerInit, ServerOK
<1>4. ASSUME NEW p \in Clients PROVE Client(p)
  <2>1. pc[p] = "idle" /\ granted[p] = 0
    BY DEF Init
  <2> QED
    BY <2>1 DEF Client, Writes, Versions, Update, BeforeWrite
<1> QED
  BY <1>1, <1>2, <1>3, <1>4 DEF Inv

\* What a step leaves alone of the command of q.
Same(q) ==
  /\ pc'[q] = pc[q] /\ granted'[q] = granted[q] /\ recorded'[q] = recorded[q]
  /\ header'[q] = header[q] /\ script'[q] = script[q] /\ disturbed'[q] = disturbed[q]
  /\ info'[q] = info[q] /\ zip'[q] = zip[q] /\ left'[q] = left[q]
  /\ disk' = disk
  /\ q \in open' => q \in open /\ running' = running

LEMMA SameClient ==
  ASSUME NEW q \in Clients, Client(q), Same(q)
  PROVE  Client(q)'
<1>1. Writes(q)'
  BY DEF Client, Writes, Same, TooOld
<1>2. Versions(q)'
  BY DEF Client, Versions, Same
<1>3. Update(q)'
  BY DEF Client, Update, Same
<1> QED
  BY <1>1, <1>2, <1>3 DEF Client

\* The record is written with the address of the client.
LEMMA GrantRecords ==
  ASSUME NEW p \in Clients
  PROVE  ClientIP(RemoteOf(Route[p]), ForwardedOf(Route[p])) = Route[p].client
BY RouteAssumption, FindsTheClient

-----------------------------------------------------------------------------
\* The steps of the process: no command moves.
LEMMA ProcessStep ==
  ASSUME Inv, Process
  PROVE  Inv'
<1> USE ServerAssumption DEF Inv
<1>1. UNCHANGED skill
  BY DEF Process
<1>2. /\ main' \in {"down", "migrate", "serve", "shutdown", "join"}
      /\ listener' \in {"none", "start", "listening", "failed", "closed", "ended"}
      /\ serverErr' \in {"empty", "ok", "error"}
      /\ done' \in BOOLEAN
      /\ running' \in Releases /\ binary' \in Releases
      /\ open' \subseteq open
      /\ open' # {} => main' \in {"serve", "shutdown"} /\ running' = running
      /\ ServerOK'
  <2>1. CASE Start
    BY <2>1 DEF Start, TypeOK, ServerOK
  <2>2. CASE Signal
    BY <2>2 DEF Signal, TypeOK, ServerOK
  <2>3. CASE Listen
    BY <2>3 DEF Listen, ListenerStep, ShutDown, TypeOK, ServerOK
  <2>4. CASE ListenFails
    BY <2>4 DEF ListenFails, ListenerStep, ShutDown, TypeOK, ServerOK
  <2>5. CASE ReportError
    BY <2>5 DEF ReportError, ListenerStep, TypeOK, ServerOK
  <2>6. CASE ReportClosed
    BY <2>6 DEF ReportClosed, ListenerStep, TypeOK, ServerOK
  <2>7. CASE Exit
    BY <2>7 DEF Exit, TypeOK, ServerOK
  <2>8. CASE Migrate
    BY <2>7, <2>8 DEF Migrate, TypeOK, ServerOK
  <2>9. CASE BeginShutdown
    BY <2>9 DEF BeginShutdown, TypeOK, ServerOK
  <2>10. CASE FinishShutdown
    BY <2>10 DEF FinishShutdown, TypeOK, ServerOK
  <2>11. \/ Start \/ Signal \/ Listen \/ ListenFails \/ ReportError \/ ReportClosed
         \/ Exit \/ Migrate \/ BeginShutdown \/ FinishShutdown
    BY DEF Process, Listening, Main, DeadlineExceeded, Join, Kill
  <2> QED
    BY <2>1, <2>2, <2>3, <2>4, <2>5, <2>6, <2>7, <2>8, <2>9, <2>10, <2>11
<1>3. TypeOK'
  BY <1>1, <1>2 DEF TypeOK, skill
<1>4. Domains'
  BY <1>1 DEF Domains, skill
<1>5. ASSUME NEW q \in Clients PROVE Client(q)'
  <2>1. Same(q)
    BY <1>1, <1>2 DEF Same, skill
  <2> QED
    BY <2>1, SameClient
<1> QED
  BY <1>2, <1>3, <1>4, <1>5

\* The operator replaces a file.
LEMMA ChangeStep ==
  ASSUME Inv, Change
  PROVE  Inv'
<1> USE ServerAssumption DEF Inv
<1>1. /\ UNCHANGED <<main, listener, serverErr, done, open, running>>
      /\ UNCHANGED <<disk, pc, command, script, header, info, zip, left, disturbed, granted, recorded>>
      /\ binary' \in Releases /\ package' \in Packages \cup {NoPackage}
  BY DEF Change, InstallBinary, TypeOK, server, skill
<1>2. TypeOK' /\ Domains' /\ ServerOK'
  BY <1>1 DEF TypeOK, Domains, ServerOK
<1>3. ASSUME NEW q \in Clients PROVE Client(q)'
  <2>1. Same(q)
    BY <1>1 DEF Same
  <2> QED
    BY <2>1, SameClient
<1> QED
  BY <1>2, <1>3

-----------------------------------------------------------------------------
(***************************************************************************)
(* The steps of a command p.  Each lemma says what becomes of the server,  *)
(* of the types, of p and of the other commands.                           *)
(***************************************************************************)
\* The server after a step of p: only the request of p may open or close.
Connection(p) ==
  /\ UNCHANGED <<main, listener, serverErr, done, running, binary>>
  /\ open' \in {open, open \cup {p}, open \ {p}}
  /\ open' # {} => main \in {"serve", "shutdown"}
  /\ main = "join" => open' = {}

\* A step that moves p to a place where its request is open, or closes it.
Places == Waiting \cup Ended \cup {"idle", "fetch", "judge", "send", "request", "copy"}

LEMMA Closed ==
  ASSUME Inv, NEW p \in Clients, Leave(p) \/ UNCHANGED server
  PROVE  Connection(p) /\ open' \subseteq open /\ (Leave(p) => p \notin open')
BY DEF Inv, TypeOK, ServerOK, Leave, server, Connection

LEMMA Opened ==
  ASSUME Inv, NEW p \in Clients, Accept(p)
  PROVE  Connection(p) /\ open' = open \cup {p}
BY DEF Inv, TypeOK, ServerOK, Accept, Connection

\* A step that only moves p on, to a place that asks nothing new of Client.
LEMMA MovedOn ==
  ASSUME Inv, NEW p \in Clients, NEW label \in Places, Step(p, label),
         Connection(p), open' \subseteq open, label \in Waiting \/ p \notin open',
         label # "copy",
         label \in {"reply", "ok"} => pc[p] \in {"reply", "ok"},
         label \notin {"reply", "ok", "failed"} => pc[p] \notin {"reply", "ok", "failed"},
         label \in BeforeWrite => pc[p] \in BeforeWrite,
         label \in {"gate", "write"} => pc[p] \in {"gate", "write"},
         label = "write" => ~TooOld(header[p], running)
  PROVE  Inv'
<1> USE DEF Inv
<1>1. pc' = [pc EXCEPT ![p] = label] /\ pc'[p] = label /\ \A q \in Clients \ {p} : pc'[q] = pc[q]
  BY DEF Step, Goto, TypeOK
<1>2. UNCHANGED <<package, disk, command, script, header, info, zip, left, disturbed, granted, recorded>>
  BY DEF Step
<1>3. TypeOK'
  BY <1>1, <1>2 DEF TypeOK, Connection, Places
<1>4. Domains' /\ ServerOK'
  BY <1>2 DEF Domains, ServerOK, Connection
<1>5. ASSUME NEW q \in Clients \ {p} PROVE Client(q)'
  <2>1. Same(q)
    BY <1>1, <1>2 DEF Same, Connection
  <2> QED
    BY <2>1, SameClient
<1>6. Client(p)'
  <2>1. Writes(p)'
    BY <1>1, <1>2 DEF Client, Writes, Connection, TooOld
  <2>2. Versions(p)'
    BY <1>1, <1>2 DEF Client, Versions
  <2>3. Update(p)'
    BY <1>1, <1>2 DEF Update
  <2> QED
    BY <2>1, <2>2, <2>3 DEF Client
<1> QED
  BY <1>3, <1>4, <1>5, <1>6

\* The steps of the kind of MovedOn.
LEMMA MovingStep ==
  ASSUME Inv, NEW p \in Clients,
         \/ CannotConnect(p) \/ Disconnected(p) \/ CheckSkillVersion(p) \/ Gate(p) \/ Reply(p)
         \/ EnsureSkillPackageCurrent(p) \/ EndUpdate(p) \/ Die(p)
  PROVE  Inv'
<1>1. pc[p] \notin Waiting => p \notin open
  BY DEF Inv, TypeOK
<1>2. CASE CannotConnect(p)
  BY <1>1, <1>2, Closed, MovedOn DEF CannotConnect, Waiting, Places, Ended, BeforeWrite, server
<1>3. CASE Disconnected(p)
  BY <1>3, Closed, MovedOn DEF Disconnected, Waiting, Places, Ended, BeforeWrite, server
<1>4. CASE CheckSkillVersion(p)
  BY <1>1, <1>4, Closed, MovedOn DEF CheckSkillVersion, Waiting, Places, Ended, BeforeWrite, server
<1>5. CASE Gate(p)
  BY <1>5, Closed, MovedOn DEF Gate, Waiting, Places, Ended, BeforeWrite
<1>6. CASE Reply(p)
  BY <1>6, Closed, MovedOn DEF Reply, Waiting, Places, Ended, BeforeWrite
<1>7. CASE EnsureSkillPackageCurrent(p)
  BY <1>7, Closed, MovedOn DEF EnsureSkillPackageCurrent, Waiting, Places, Ended, BeforeWrite
<1>8. CASE EndUpdate(p)
  BY <1>1, <1>8, Closed, MovedOn DEF EndUpdate, Waiting, Places, Ended, BeforeWrite, server
<1>9. CASE Die(p)
  BY <1>1, <1>9, Closed, MovedOn DEF Die, Waiting, Places, Ended, BeforeWrite, server
<1> QED
  BY <1>2, <1>3, <1>4, <1>5, <1>6, <1>7, <1>8, <1>9

LEMMA BeginStep ==
  ASSUME Inv, NEW p \in Clients, NEW what \in Commands[p], Begin(p, what)
  PROVE  Inv'
<1> USE DEF Inv
<1>1. PICK label \in {"send", "fetch"} : Goto(p, label)
  BY DEF Begin
<1>2. /\ pc[p] = "idle" /\ pc'[p] = label /\ p \notin open
      /\ pc' = [pc EXCEPT ![p] = label] /\ \A q \in Clients \ {p} : pc'[q] = pc[q]
  BY <1>1 DEF Begin, Goto, TypeOK, Waiting
<1>3. /\ UNCHANGED <<server, package, disk, header, info, zip, left, disturbed, granted, recorded>>
      /\ command' = [command EXCEPT ![p] = what]
      /\ script' = [script EXCEPT ![p] = disk["type_registry.py"]]
  BY DEF Begin
<1>4. /\ script' \in [Clients -> Releases] /\ script'[p] = disk["type_registry.py"]
      /\ \A q \in Clients \ {p} : script'[q] = script[q]
  BY <1>3, DeploymentAssumption DEF TypeOK
<1>5. TypeOK'
  BY <1>2, <1>3, <1>4 DEF TypeOK, Places, server, Waiting, Ended
<1>6. Domains' /\ ServerOK'
  BY <1>3 DEF Domains, ServerOK, server
<1>7. ASSUME NEW q \in Clients \ {p} PROVE Client(q)'
  <2>1. Same(q)
    BY <1>2, <1>3, <1>4 DEF Same, server
  <2> QED
    BY <2>1, SameClient
<1>8. Client(p)'
  BY <1>2, <1>3, <1>4 DEF Client, Writes, Versions, Update, server
<1> QED
  BY <1>5, <1>6, <1>7, <1>8

LEMMA ConnectStep ==
  ASSUME Inv, NEW p \in Clients, NEW from, NEW to,
         <<from, to>> \in {<<"fetch", "version">>, <<"send", "gate">>, <<"request", "package">>},
         Connect(p, from, to)
  PROVE  Inv'
<1> USE DEF Inv
<1>1. /\ pc[p] = from /\ pc'[p] = to /\ \A q \in Clients \ {p} : pc'[q] = pc[q]
      /\ pc' = [pc EXCEPT ![p] = to]
      /\ to \in {"version", "gate", "package"} /\ from \in {"fetch", "send", "request"}
      /\ to \in BeforeWrite => from \in BeforeWrite
  BY DEF Connect, Goto, TypeOK, BeforeWrite
<1>2. Connection(p) /\ open' = open \cup {p}
  BY Opened DEF Connect
<1>3. UNCHANGED <<package, disk, command, script, info, zip, left, disturbed, granted, recorded>>
  BY DEF Connect
<1>4. /\ header' \in [Clients -> Releases]
      /\ \A q \in Clients \ {p} : header'[q] = header[q]
      /\ to = "gate" => header'[p] = IF script[p] = Legacy THEN Legacy ELSE disk["manifest.json"]
  BY DeploymentAssumption DEF Connect, TypeOK
<1>5. TypeOK'
  <2>1. /\ open' \subseteq {q \in Clients : pc'[q] \in Waiting}
        /\ open' # {} => main' \in {"serve", "shutdown"}
    BY <1>1, <1>2 DEF TypeOK, Waiting, Connection
  <2>2. pc' \in [Clients -> Places]
    BY <1>1 DEF TypeOK, Places, Waiting
  <2> QED
    BY <1>2, <1>3, <1>4, <2>1, <2>2 DEF TypeOK, Connection, Places
<1>6. Domains' /\ ServerOK'
  BY <1>2, <1>3 DEF Domains, ServerOK, Connection
<1>7. ASSUME NEW q \in Clients \ {p} PROVE Client(q)'
  <2>1. Same(q)
    BY <1>1, <1>2, <1>3, <1>4 DEF Same, Connection
  <2> QED
    BY <2>1, SameClient
<1>8. Client(p)'
  BY <1>1, <1>3, <1>4 DEF Client, Writes, Versions, Update
<1> QED
  BY <1>5, <1>6, <1>7, <1>8

LEMMA SkillVersionStep ==
  ASSUME Inv, NEW p \in Clients, SkillVersion(p)
  PROVE  Inv'
<1> USE DEF Inv
<1>1. PICK label \in {"judge", "request", "failed"} : Goto(p, label)
  BY DEF SkillVersion
<1>2. /\ pc[p] = "version" /\ pc'[p] = label /\ \A q \in Clients \ {p} : pc'[q] = pc[q]
      /\ pc' = [pc EXCEPT ![p] = label]
  BY <1>1 DEF SkillVersion, Goto, TypeOK
<1>3. Connection(p) /\ open' = open \ {p}
  BY Closed DEF SkillVersion, Leave
<1>4. UNCHANGED <<package, disk, command, script, header, zip, left, disturbed, granted, recorded>>
  BY DEF SkillVersion
<1>5. \A q \in Clients \ {p} : info'[q] = info[q]
  BY DEF SkillVersion, Domains
<1>6. info' \in [Clients -> [latest: Releases, ready: BOOLEAN] \cup {NoInfo}]
  <2>1. PackageReady \in BOOLEAN
    BY DEF PackageReady, Readable
  <2>2. [latest |-> running, ready |-> PackageReady] \in [latest: Releases, ready: BOOLEAN]
    BY <2>1 DEF TypeOK
  <2> QED
    BY <2>2 DEF SkillVersion, Domains
<1>7. TypeOK'
  <2>1. /\ open' \subseteq {q \in Clients : pc'[q] \in Waiting}
        /\ open' # {} => main' \in {"serve", "shutdown"}
    BY <1>2, <1>3 DEF TypeOK, Connection
  <2>2. pc' \in [Clients -> Places]
    BY <1>2 DEF TypeOK, Places, Ended
  <2> QED
    BY <1>3, <1>4, <2>1, <2>2 DEF TypeOK, Connection, Places
<1>8. Domains' /\ ServerOK'
  BY <1>3, <1>4, <1>6 DEF Domains, ServerOK, Connection
<1>9. ASSUME NEW q \in Clients \ {p} PROVE Client(q)'
  <2>1. Same(q)
    BY <1>2, <1>3, <1>4, <1>5 DEF Same, Connection
  <2> QED
    BY <2>1, SameClient
<1>10. Client(p)'
  BY <1>2, <1>4 DEF Client, Writes, Versions, Update, BeforeWrite
<1> QED
  BY <1>7, <1>8, <1>9, <1>10

\* The two steps with which the registry does what it was asked.
LEMMA GrantStep ==
  ASSUME Inv, NEW p \in Clients, NEW label \in {"reply", "failed"},
         pc[p] = "write", p \in open, Grant(p), Goto(p, label),
         IF label = "reply" THEN UNCHANGED server ELSE Leave(p)
  PROVE  Inv'
<1> USE DEF Inv
<1>1. /\ pc'[p] = label /\ \A q \in Clients \ {p} : pc'[q] = pc[q]
      /\ pc' = [pc EXCEPT ![p] = label]
  BY DEF Goto, TypeOK
<1>2. Connection(p) /\ open' \subseteq open /\ (label = "failed" => p \notin open')
  BY Closed DEF Leave
<1>3. UNCHANGED <<package, disk, command, script, header, info, zip, left, disturbed>>
  BY DEF Grant
<1>4. /\ granted' = [granted EXCEPT ![p] = 1] /\ granted'[p] = 1
      /\ \A q \in Clients \ {p} : granted'[q] = granted[q]
  <2>1. granted[p] = 0
    BY DEF Client, Writes
  <2> QED
    BY <2>1 DEF Grant, TypeOK
<1>5. /\ DOMAIN recorded' = Clients /\ recorded'[p] = Route[p].client
      /\ \A q \in Clients \ {p} : recorded'[q] = recorded[q]
  BY GrantRecords DEF Grant, Domains
<1>6. TypeOK'
  BY <1>1, <1>2, <1>3, <1>4 DEF TypeOK, Waiting, Ended, Connection
<1>7. Domains' /\ ServerOK'
  BY <1>2, <1>3, <1>5 DEF Domains, ServerOK, Connection
<1>8. ASSUME NEW q \in Clients \ {p} PROVE Client(q)'
  <2>1. Same(q)
    BY <1>1, <1>2, <1>3, <1>4, <1>5 DEF Same, Connection
  <2> QED
    BY <2>1, SameClient
<1>9. Client(p)'
  BY <1>1, <1>3, <1>4, <1>5 DEF Client, Writes, Versions, Update, BeforeWrite
<1> QED
  BY <1>6, <1>7, <1>8, <1>9

LEMMA AllocateStep ==
  ASSUME Inv, NEW p \in Clients, Allocate(p) \/ TimeOut(p)
  PROVE  Inv'
<1>1. CASE Grant(p) /\ Goto(p, "reply") /\ UNCHANGED server /\ pc[p] = "write" /\ p \in open
  BY <1>1, GrantStep
<1>2. CASE Grant(p) /\ Goto(p, "failed") /\ Leave(p) /\ pc[p] = "write" /\ p \in open
  BY <1>2, GrantStep
<1>3. CASE Step(p, "failed") /\ Leave(p)
  BY <1>3, Closed, MovedOn DEF Waiting, Places, Ended, BeforeWrite
<1> QED
  BY <1>1, <1>2, <1>3 DEF Allocate, TimeOut

LEMMA BuildStep ==
  ASSUME Inv, NEW p \in Clients, BuildSkillPackage(p)
  PROVE  Inv'
<1>1. CASE Step(p, "failed") /\ Leave(p)
  BY <1>1, Closed, MovedOn DEF Waiting, Places, Ended, BeforeWrite
<1>2. CASE /\ Buildable /\ Acceptable(package, info[p].latest) /\ Goto(p, "copy") /\ Leave(p)
           /\ zip' = [zip EXCEPT ![p] = package]
           /\ left' = [left EXCEPT ![p] = Files]
           /\ UNCHANGED <<package, disk, command, script, header, info, disturbed, granted, recorded, counters>>
  <2> USE DEF Inv
  <2>1. /\ pc[p] = "build" /\ pc'[p] = "copy" /\ \A q \in Clients \ {p} : pc'[q] = pc[q]
        /\ pc' = [pc EXCEPT ![p] = "copy"]
    BY <1>2 DEF BuildSkillPackage, Goto, TypeOK
  <2>2. Connection(p) /\ open' = open \ {p}
    BY <1>2, Closed DEF Leave
  <2>3. /\ zip' \in [Clients -> Packages \cup {NoPackage}]
        /\ zip'[p] \in Packages /\ zip'[p].release = info[p].latest
        /\ \A q \in Clients \ {p} : zip'[q] = zip[q]
    BY <1>2 DEF Buildable, Acceptable, TypeOK, Domains
  <2>4. /\ left' \in [Clients -> SUBSET Files] /\ left'[p] = Files
        /\ \A q \in Clients \ {p} : left'[q] = left[q]
    BY <1>2 DEF TypeOK
  <2>5. TypeOK'
    <3>1. /\ open' \subseteq {q \in Clients : pc'[q] \in Waiting}
          /\ open' # {} => main' \in {"serve", "shutdown"}
      BY <2>1, <2>2 DEF TypeOK, Connection
    <3>2. pc' \in [Clients -> Places]
      BY <2>1 DEF TypeOK, Places
    <3> QED
      BY <1>2, <2>2, <2>4, <3>1, <3>2 DEF TypeOK, Connection, Places
  <2>6. Domains' /\ ServerOK'
    BY <1>2, <2>2, <2>3 DEF Domains, ServerOK, Connection
  <2>7. ASSUME NEW q \in Clients \ {p} PROVE Client(q)'
    <3>1. Same(q)
      BY <1>2, <2>1, <2>2, <2>3, <2>4 DEF Same, Connection
    <3> QED
      BY <3>1, SameClient
  <2>8. Client(p)'
    BY <1>2, <2>1, <2>3, <2>4 DEF Client, Writes, Versions, Update, BeforeWrite
  <2> QED
    BY <2>5, <2>6, <2>7, <2>8
<1> QED
  BY <1>1, <1>2 DEF BuildSkillPackage

LEMMA CopyStep ==
  ASSUME Inv, NEW p \in Clients, CopyFile(p)
  PROVE  Inv'
<1> USE DEF Inv
<1>1. PICK f \in left[p] : /\ disk' = [disk EXCEPT ![f] = zip[p].release]
                           /\ left' = [left EXCEPT ![p] = @ \ {f}]
  BY DEF CopyFile
<1>2. /\ pc[p] = "copy"
      /\ UNCHANGED <<server, package, pc, command, script, header, info, zip, granted, recorded>>
      /\ disturbed' = [q \in Clients |-> disturbed[q] \/ (q # p /\ pc[q] # "idle")]
  BY DEF CopyFile
<1>3. /\ f \in Files /\ zip[p] \in Packages /\ zip[p].release \in Releases
      /\ disk' \in [Files -> Releases] /\ disk'[f] = zip[p].release
      /\ \A g \in Files \ {f} : disk'[g] = disk[g]
      /\ left' \in [Clients -> SUBSET Files] /\ left'[p] = left[p] \ {f}
      /\ \A q \in Clients \ {p} : left'[q] = left[q]
  <2>1. f \in Files /\ zip[p] \in Packages
    BY <1>2 DEF TypeOK, Client, Update
  <2>2. zip[p].release \in Releases
    BY <2>1, DeploymentAssumption
  <2> QED
    BY <1>1, <2>1, <2>2 DEF TypeOK
<1>4. TypeOK'
  BY <1>2, <1>3 DEF TypeOK, server
<1>5. Domains' /\ ServerOK'
  BY <1>2 DEF Domains, ServerOK, server
<1>6. ASSUME NEW q \in Clients PROVE Client(q)'
  <2>1. Writes(q)'
    BY <1>2 DEF Client, Writes, TooOld, server
  <2>2. Versions(q)'
    BY <1>2 DEF Client, Versions, BeforeWrite
  <2>3. Update(q)'
    <3>1. CASE q = p
      <4>1. disturbed[p]' = disturbed[p]
        BY <1>2 DEF Domains
      <4>2. ASSUME ~disturbed[p], NEW g \in Files \ (left[p] \ {f}) PROVE disk'[g] = zip[p].release
        BY <1>2, <1>3, <4>2 DEF Client, Update
      <4> QED
        BY <1>2, <1>3, <3>1, <4>1, <4>2 DEF Client, Update
    <3>2. CASE q # p
      BY <1>2, <3>2 DEF Client, Update
    <3> QED
      BY <3>1, <3>2
  <2> QED
    BY <2>1, <2>2, <2>3 DEF Client
<1> QED
  BY <1>4, <1>5, <1>6

LEMMA EndStep ==
  ASSUME Inv, NEW p \in Clients, End(p)
  PROVE  Inv'
<1> USE DEF Inv
<1>1. /\ pc[p] \in Ended /\ pc'[p] = "idle" /\ \A q \in Clients \ {p} : pc'[q] = pc[q]
      /\ pc' = [pc EXCEPT ![p] = "idle"]
  BY DEF End, Goto, TypeOK
<1>2. UNCHANGED <<server, package, disk>>
  BY DEF End
<1>3. /\ script' \in [Clients -> Releases] /\ header' \in [Clients -> Releases]
      /\ left' \in [Clients -> SUBSET Files] /\ granted' \in [Clients -> {0, 1}]
      /\ granted'[p] = 0
      /\ \A q \in Clients \ {p} : /\ script'[q] = script[q] /\ header'[q] = header[q]
                                  /\ left'[q] = left[q] /\ granted'[q] = granted[q]
  BY DeploymentAssumption DEF End, TypeOK
<1>4. /\ Domains'
      /\ \A q \in Clients \ {p} : /\ info'[q] = info[q] /\ zip'[q] = zip[q]
                                  /\ disturbed'[q] = disturbed[q] /\ recorded'[q] = recorded[q]
  BY DEF End, Domains
<1>5. p \notin open
  BY <1>1 DEF TypeOK, Waiting, Ended
<1>6. TypeOK'
  <2>1. open' \subseteq {q \in Clients : pc'[q] \in Waiting}
    BY <1>1, <1>2, <1>5 DEF TypeOK, server
  <2>2. pc' \in [Clients -> Places]
    BY <1>1 DEF TypeOK, Places
  <2> QED
    BY <1>2, <1>3, <2>1, <2>2 DEF TypeOK, Places, server
<1>7. ServerOK'
  BY <1>2 DEF ServerOK, server
<1>8. ASSUME NEW q \in Clients \ {p} PROVE Client(q)'
  <2>1. Same(q)
    BY <1>1, <1>2, <1>3, <1>4 DEF Same, server
  <2> QED
    BY <2>1, SameClient
<1>9. Client(p)'
  BY <1>1, <1>3 DEF Client, Writes, Versions, Update, BeforeWrite
<1> QED
  BY <1>4, <1>6, <1>7, <1>8, <1>9

-----------------------------------------------------------------------------
LEMMA NextInv == Inv /\ [Next]_vars => Inv'
<1> SUFFICES ASSUME Inv, [Next]_vars PROVE Inv'
  OBVIOUS
<1>1. CASE UNCHANGED vars
  <2>1. \A q \in Clients : Client(q)'
    BY <1>1 DEF vars, server, skill, Inv, Client, Writes, Versions, Update, TooOld
  <2> QED
    BY <1>1, <2>1 DEF vars, server, skill, Inv, TypeOK, Domains, ServerOK
<1>2. CASE Process \/ Change
  BY <1>2, ProcessStep, ChangeStep
<1>3. ASSUME NEW p \in Clients, Handle(p) PROVE Inv'
  BY <1>3, SkillVersionStep, MovingStep, AllocateStep, BuildStep DEF Handle
<1>4. ASSUME NEW p \in Clients, Run(p) PROVE Inv'
  BY <1>4, BeginStep, ConnectStep, MovingStep, AllocateStep, CopyStep, EndStep DEF Run
<1> QED
  BY <1>1, <1>2, <1>3, <1>4 DEF Next

\* Types, shutdown, and what every command has seen and written, together.
THEOREM DeploymentInvariance == Spec => []Inv
<1> QED
  BY InitInv, NextInv, PTL DEF Spec

\* The types, and who may be connected when.
THEOREM DeploymentTypes == Spec => []TypeOK
<1>1. Inv => TypeOK
  BY DEF Inv
<1> QED
  BY <1>1, DeploymentInvariance, PTL

\* A command that reports a refusal has written nothing, a success one value.
THEOREM ReportsAreTrue == Spec => []ReportsMatchWrites
<1>1. Inv => ReportsMatchWrites
  <2>1. ASSUME Inv, NEW p \in Clients
        PROVE  /\ pc[p] = "refused" => granted[p] = 0
               /\ pc[p] = "ok" => granted[p] = 1
               /\ granted[p] \in {0, 1}
    BY <2>1 DEF Inv, TypeOK, Client, Writes
  <2>2. \A n \in {0, 1} : n <= 1
    OBVIOUS
  <2> QED
    BY <2>1, <2>2 DEF ReportsMatchWrites
<1> QED
  BY <1>1, DeploymentInvariance, PTL

\* The address recorded is that of the client, through every chain of trusted
\* proxies and with every forged header.
THEOREM ClientIsRecorded == Spec => []RecordsTheClient
<1>1. Inv => RecordsTheClient
  BY DEF Inv, TypeOK, Client, Writes, RecordsTheClient
<1> QED
  BY <1>1, DeploymentInvariance, PTL

-----------------------------------------------------------------------------
(***************************************************************************)
(* The action properties, from the same invariant.                         *)
(***************************************************************************)
\* A process that gets past its shutdown has answered what it accepted.
THEOREM ShutdownAnswers == Spec => ShutdownAnswersAll
<1>1. Inv /\ [Next]_vars => [main = "join" /\ main' = "down" => open = {}]_vars
  BY DEF Inv, ServerOK
<1> QED
  BY <1>1, DeploymentInvariance, PTL DEF Spec, ShutdownAnswersAll

\* Only the two steps with the transaction add to granted.
LEMMA OnlyGrants ==
  ASSUME Inv, [Next]_vars, NEW p \in Clients, granted'[p] > granted[p]
  PROVE  pc[p] = "write" /\ p \in open
<1> USE DEF Inv
<1>1. granted[p] \in {0, 1} /\ granted' # granted
  BY DEF TypeOK
<1>2. ASSUME NEW q \in Clients, q # p, granted' = [granted EXCEPT ![q] = @ + 1] PROVE FALSE
  BY <1>1, <1>2 DEF TypeOK
<1>3. ASSUME NEW q \in Clients, granted' = [granted EXCEPT ![q] = 0] PROVE FALSE
  BY <1>1, <1>3 DEF TypeOK
<1>4. ~(Process \/ Change \/ UNCHANGED vars)
  BY <1>1 DEF Process, Change, vars, skill
<1>5. ASSUME NEW q \in Clients, Handle(q) PROVE pc[p] = "write" /\ p \in open
  BY <1>1, <1>2, <1>5 DEF Handle, SkillVersion, Gate, Allocate, Reply, EnsureSkillPackageCurrent, BuildSkillPackage, Step, Grant
<1>6. ASSUME NEW q \in Clients, Run(q) PROVE pc[p] = "write" /\ p \in open
  BY <1>1, <1>2, <1>3, <1>6
     DEF Run, Begin, Connect, CannotConnect, Disconnected, TimeOut, CheckSkillVersion, CopyFile, EndUpdate,
         End, Die, Step, Grant
<1> QED
  BY <1>4, <1>5, <1>6 DEF Next

\* No write below the minimum of the release that serves.
THEOREM MinimumIsRespected == Spec => WritesRespectMinimum
<1>1. Inv /\ [Next]_vars =>
        [\A p \in Clients : granted'[p] > granted[p] => ~TooOld(header[p], running)]_vars
  BY OnlyGrants DEF Inv, Client, Writes
<1> QED
  BY <1>1, DeploymentInvariance, PTL DEF Spec, WritesRespectMinimum

\* With a whole directory, and no update in between, no script below it either.
THEOREM OldScriptsRefused == Spec => OldScriptsDoNotWrite
<1>1. ASSUME Inv, [Next]_vars, NEW p \in Clients, granted'[p] > granted[p], ~disturbed[p],
             \A f \in Files : disk[f] = disk["manifest.json"]
      PROVE  ~TooOld(script[p], running)
  <2>1. pc[p] = "write" /\ ~TooOld(header[p], running)
    BY <1>1, OnlyGrants DEF Inv, Client, Writes
  <2>2. script[p] = disk["manifest.json"]
    BY <1>1, <2>1, DeploymentAssumption DEF Inv, Client, Versions, BeforeWrite
  <2>3. header[p] = script[p]
    BY <1>1, <2>1, <2>2 DEF Inv, Client, Versions
  <2> QED
    BY <2>1, <2>3
<1>2. Inv /\ [Next]_vars =>
        [\A p \in Clients :
           /\ granted'[p] > granted[p] /\ ~disturbed[p]
           /\ \A f \in Files : disk[f] = disk["manifest.json"]
           => ~TooOld(script[p], running)]_vars
  BY <1>1
<1> QED
  BY <1>2, DeploymentInvariance, PTL DEF Spec, OldScriptsDoNotWrite

\* An update that ends undisturbed leaves one release in the directory.
THEOREM UpdatedIsWhole == Spec => UpdatesAreWhole
<1>1. ASSUME Inv, [Next]_vars, NEW p \in Clients, pc[p] = "copy", pc'[p] = "updated", ~disturbed[p]
      PROVE  disk = [f \in Files |-> info[p].latest]
  <2>1. left[p] = {}
    <3>1. ASSUME NEW q \in Clients, NEW label, q # p, Goto(q, label) PROVE FALSE
      BY <1>1, <3>1 DEF Goto, Inv, TypeOK
    <3>2. ASSUME NEW label, label # "updated", Goto(p, label) PROVE FALSE
      BY <1>1, <3>2 DEF Goto, Inv, TypeOK
    <3>3. pc' # pc
      BY <1>1
    <3>4. ~(Process \/ Change \/ UNCHANGED vars)
      BY <3>3 DEF Process, Change, vars, skill
    <3>5. ASSUME NEW q \in Clients, Handle(q) PROVE FALSE
      <4>1. q = p
        BY <3>1, <3>5 DEF Handle, SkillVersion, Gate, Allocate, Reply, EnsureSkillPackageCurrent,
                          BuildSkillPackage, Step
      <4> QED
        BY <1>1, <3>5, <4>1 DEF Handle, SkillVersion, Gate, Allocate, Reply,
                                EnsureSkillPackageCurrent, BuildSkillPackage
    <3>6. ASSUME NEW q \in Clients, Run(q) PROVE left[p] = {}
      <4>1. q = p
        BY <3>1, <3>3, <3>6
           DEF Run, Begin, Connect, CannotConnect, Disconnected, TimeOut, CheckSkillVersion, CopyFile,
               EndUpdate, End, Die, Step
      <4> QED
        BY <1>1, <3>2, <3>3, <3>6, <4>1
           DEF Run, Begin, Connect, CannotConnect, Disconnected, TimeOut, CheckSkillVersion, CopyFile,
               EndUpdate, End, Die, Step, Waiting, Ended
    <3> QED
      BY <1>1, <3>4, <3>5, <3>6 DEF Next
  <2>2. \A f \in Files : disk[f] = info[p].latest
    BY <1>1, <2>1 DEF Inv, Client, Update
  <2> QED
    BY <1>1, <2>2 DEF Inv, TypeOK
<1>2. Inv /\ [Next]_vars =>
        [\A p \in Clients :
           pc[p] = "copy" /\ pc'[p] = "updated" /\ ~disturbed[p] =>
             disk = [f \in Files |-> info[p].latest]]_vars
  BY <1>1
<1> QED
  BY <1>2, DeploymentInvariance, PTL DEF Spec, UpdatesAreWhole
-----------------------------------------------------------------------------
(***************************************************************************)
(* Why the process ends when it is told to: what the two goroutines of     *)
(* runServer know of each other.                                           *)
(***************************************************************************)
Channel ==
  /\ listener \in {"none", "start", "listening", "failed", "closed", "ended"}
  /\ main \in {"down", "migrate", "serve", "shutdown", "join"}
  /\ (serverErr = "empty") <=> (listener # "ended")
  /\ (listener = "none") <=> (main \in {"down", "migrate"})
  /\ listener = "listening" => main = "serve"
  /\ main = "serve" => listener # "closed" /\ (listener = "ended" => done)

\* Requests and upgrades do not touch the goroutines.
LEMMA OnlyProcess ==
  ASSUME Next, ~Process
  PROVE  UNCHANGED <<main, listener, serverErr, done>>
<1>1. CASE Change
  BY <1>1 DEF Change, InstallBinary, server
<1>2. ASSUME NEW p \in Clients, Handle(p) PROVE UNCHANGED <<main, listener, serverErr, done>>
  BY <1>2 DEF Handle, SkillVersion, Gate, Allocate, Reply, EnsureSkillPackageCurrent, BuildSkillPackage,
              Leave, server
<1>3. ASSUME NEW p \in Clients, Run(p) PROVE UNCHANGED <<main, listener, serverErr, done>>
  BY <1>3 DEF Run, Begin, Connect, CannotConnect, Disconnected, TimeOut, CheckSkillVersion, CopyFile,
              EndUpdate, End, Die, Accept, Leave, server
<1> QED
  BY <1>1, <1>2, <1>3 DEF Next

LEMMA ChannelStep == Channel /\ [Next]_vars => Channel'
<1> SUFFICES ASSUME Channel, [Next]_vars PROVE Channel'
  OBVIOUS
<1> USE DEF Channel
<1>u. CASE UNCHANGED <<main, listener, serverErr, done>>
  BY <1>u
<1>1. CASE Start \/ Signal
  BY <1>1 DEF Start, Signal
<1>2. CASE Listen
  BY <1>2 DEF Listen, ListenerStep, ShutDown
<1>3. CASE ListenFails
  BY <1>3 DEF ListenFails, ListenerStep, ShutDown
<1>4. CASE ReportError
  BY <1>4 DEF ReportError, ListenerStep
<1>5. CASE ReportClosed
  BY <1>5 DEF ReportClosed, ListenerStep
<1>6. CASE Exit
  BY <1>6 DEF Exit
<1>7. CASE Migrate
  BY <1>6, <1>7 DEF Migrate
<1>8. CASE BeginShutdown
  BY <1>8 DEF BeginShutdown
<1>9. CASE FinishShutdown
  BY <1>9 DEF FinishShutdown
<1>10. Process => \/ Start \/ Signal \/ Listen \/ ListenFails \/ ReportError \/ ReportClosed
                  \/ Exit \/ Migrate \/ BeginShutdown \/ FinishShutdown
  BY DEF Process, Listening, Main, DeadlineExceeded, Join, Kill
<1> QED
  BY <1>u, <1>1, <1>2, <1>3, <1>4, <1>5, <1>6, <1>7, <1>8, <1>9, <1>10, OnlyProcess DEF vars, server

\* The channel has room for what the listening goroutine sends; the main
\* goroutine receives only what is there or is still to be sent by a goroutine
\* that has been told to stop; and it does not wait for a context that only
\* the other, which has ended, could have ended.
NoWaitInVain ==
  /\ listener \in {"failed", "closed"} => serverErr = "empty"
  /\ main = "join" => serverErr # "empty" \/ listener \in {"start", "failed", "closed"}
  /\ main = "serve" => done \/ listener \in {"start", "listening", "failed"}

\* The two goroutines of runServer never wait for each other, whenever the
\* signal comes and the listener fails.
THEOREM GoroutinesMeet == Spec => []NoWaitInVain
<1>1. Init => Channel
  BY DEF Init, ServerInit, Channel
<1>2. Channel => NoWaitInVain
  BY DEF Channel, NoWaitInVain
<1> QED
  BY <1>1, <1>2, ChannelStep, PTL DEF Spec
=============================================================================
