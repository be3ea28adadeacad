--------------------------- MODULE ServerProcess ---------------------------
(***************************************************************************)
(* The life of a server process (cmd/x-type-center/main.go, runServer).    *)
(*                                                                         *)
(* The main goroutine migrates the database, starts a second goroutine     *)
(* that listens, and waits until the context ends: by a signal, or because *)
(* the second goroutine calls stop.  Then it shuts the HTTP server down,   *)
(* which waits for the requests in progress up to a deadline, and receives *)
(* what the second goroutine has left in the channel serverErr.            *)
(***************************************************************************)
EXTENDS Naturals

CONSTANTS
  Clients,    \* who sends requests, one at a time
  Releases,   \* releases of the program
  Binaries,   \* the releases that the operator may install
  FirstReleases, \* the one that is installed at first
  MaxStarts   \* bound on starts

VARIABLES
  main,       \* where the main goroutine is; "down" without a process
  listener,   \* where the goroutine that listens is
  serverErr,  \* the channel, of capacity 1
  done,       \* the context has ended
  open,       \* the clients whose request this process has accepted
  running,    \* the release of the process
  binary,     \* the release of the file that the next process executes
  starts

server == <<main, listener, serverErr, done, open, running, binary, starts>>

ASSUME ServerAssumption == MaxStarts \in Nat /\ FirstReleases \subseteq Releases /\ Binaries \subseteq Releases

-----------------------------------------------------------------------------
ServerInit ==
  /\ main = "down"
  /\ listener = "none"
  /\ serverErr = "empty"
  /\ done = FALSE
  /\ open = {}
  /\ running \in FirstReleases
  /\ binary = running
  /\ starts = 0

\* systemd starts the service, or restarts it after a failure.
Start ==
  /\ main = "down"
  /\ starts < MaxStarts
  /\ starts' = starts + 1
  /\ main' = "migrate"
  /\ running' = binary
  /\ UNCHANGED <<listener, serverErr, done, open, binary>>

\* The process ends, with everything in it.
Exit ==
  /\ main' = "down"
  /\ listener' = "none"
  /\ serverErr' = "empty"
  /\ done' = FALSE
  /\ open' = {}
  /\ UNCHANGED <<running, binary, starts>>

\* Open and Migrate (Migration), under the context: they may fail, and do
\* if it ends before they are through.  Then the listening goroutine starts.
Migrate ==
  /\ main = "migrate"
  /\ \/ /\ main' = "serve"
        /\ listener' = "start"
        /\ UNCHANGED <<serverErr, done, open, running, binary, starts>>
     \/ Exit

Signal ==
  /\ main # "down"
  /\ done' = TRUE
  /\ UNCHANGED <<main, listener, serverErr, open, running, binary, starts>>

-----------------------------------------------------------------------------
\* The listening goroutine.
ListenerStep(label) ==
  /\ listener' = label
  /\ UNCHANGED <<main, open, running, binary, starts>>

\* Faulty variant: a Shutdown that came first is not noticed.
NeverShutDown == FALSE
\* Shutdown has been called.
ShutDown == main \in {"shutdown", "join"}

\* ListenAndServe begins; after Shutdown it returns ErrServerClosed at once.
Listen ==
  /\ listener = "start"
  /\ ListenerStep(IF ShutDown THEN "closed" ELSE "listening")
  /\ UNCHANGED <<serverErr, done>>

\* The address is taken, or accepting fails.
ListenFails ==
  /\ listener \in {"start", "listening"}
  /\ ~ShutDown
  /\ ListenerStep("failed")
  /\ UNCHANGED <<serverErr, done>>

\* Faulty variant: the goroutine returns without stop().
ReportOnly ==
  /\ listener = "failed"
  /\ serverErr' = "error"
  /\ ListenerStep("ended")
  /\ UNCHANGED done
\* serverErr <- err, and stop(), which ends the context.
ReportError ==
  /\ listener = "failed"
  /\ serverErr' = "error"
  /\ done' = TRUE
  /\ ListenerStep("ended")

\* Faulty variant: nothing is sent when the server was closed.
ReportNothing ==
  /\ listener = "closed"
  /\ ListenerStep("ended")
  /\ UNCHANGED <<serverErr, done>>
ReportClosed ==
  /\ listener = "closed"
  /\ serverErr' = "ok"
  /\ ListenerStep("ended")
  /\ UNCHANGED done

-----------------------------------------------------------------------------
\* Requests come in while the goroutine listens.
Accept(p) ==
  /\ listener = "listening"
  /\ open' = open \cup {p}
  /\ UNCHANGED <<main, listener, serverErr, done, running, binary, starts>>

Leave(p) ==
  /\ open' = open \ {p}
  /\ UNCHANGED <<main, listener, serverErr, done, running, binary, starts>>

-----------------------------------------------------------------------------
\* The main goroutine, once the context has ended.
BeginShutdown ==
  /\ main = "serve"
  /\ done
  /\ main' = "shutdown"
  /\ listener' = IF listener = "listening" THEN "closed" ELSE listener
  /\ UNCHANGED <<serverErr, done, open, running, binary, starts>>

\* Faulty variant: Close instead of Shutdown.
DoNotWait ==
  /\ main = "shutdown"
  /\ main' = "join"
  /\ UNCHANGED <<listener, serverErr, done, open, running, binary, starts>>
FinishShutdown ==
  /\ main = "shutdown"
  /\ open = {}
  /\ main' = "join"
  /\ UNCHANGED <<listener, serverErr, done, open, running, binary, starts>>

DeadlineExceeded == main = "shutdown" /\ open # {} /\ Exit

\* <-serverErr.
Join == main = "join" /\ serverErr # "empty" /\ Exit

\* The process is killed, or the machine fails.
Kill == main # "down" /\ Exit

\* The operator installs a binary; the process that runs keeps its own.
InstallBinary(r) ==
  /\ binary # r
  /\ binary' = r
  /\ UNCHANGED <<main, listener, serverErr, done, open, running, starts>>

-----------------------------------------------------------------------------
Listening == Listen \/ ListenFails \/ ReportError \/ ReportClosed
Main == Migrate \/ BeginShutdown \/ FinishShutdown \/ DeadlineExceeded \/ Join
=============================================================================
