---------------------------- MODULE DaemonServe ----------------------------
(***************************************************************************)
(* Daemon processes over one socket path: main's start-up and shutdown,    *)
(* listenSocket and socketAlive (core/cmd/crossos/main.go), the advisory   *)
(* lock (lock_unix.go) and the JSON-RPC server (core/pkg/ipc/ipc.go).      *)
(*                                                                         *)
(* A process reads the settings document, takes the lock, writes its pid,  *)
(* probes the socket, removes it, binds it, serves, and on a signal closes *)
(* and exits.  The kernel drops its lock and its connections when it ends, *)
(* however it ends; the socket file it leaves behind.                      *)
(***************************************************************************)
EXTENDS Naturals, FiniteSets

CONSTANTS
  Procs,     \* daemon processes; one may be started again after it ended
  Clients,   \* connections: the app's, the Finder extension's
  Edits,     \* bound: what clients write to the document
  Digits,    \* the length of each process's pid, in digits
  None

ASSUME ServeAssumption ==
  /\ None \notin Procs /\ None \notin Clients
  /\ Digits \in [Procs -> Nat]

VARIABLES
  pc,          \* where each process is
  mem,         \* the settings each process holds
  heard,       \* server goroutine has set s.listener
  taken,       \* the connection it accepted and has not counted yet
  wg,          \* the connections it has counted
  lock,        \* who holds the lock file
  pidfile,     \* the lock file's text: the pid written last, its length
  path,        \* whose socket the path leads to
  doc,         \* the settings document
  conn,        \* each connection
  told,        \* what a refused process printed
  wiped        \* the lock file was removed by hand

procVars == <<pc, mem, heard, taken, wg>>
fileVars == <<lock, pidfile, path, doc, wiped>>
vars == <<procVars, fileVars, conn, told>>

NoConn == [to |-> None, at |-> "none"]
Starting == {"load", "lock", "pid", "probe", "unlink", "bind"}
\* The listener is open; Close may find none to close, and leaves it so.
Listening == {"serve", "close", "left"}
Silence == [as |-> "nothing", names |-> None, holder |-> None, serving |-> FALSE]

-----------------------------------------------------------------------------
(* Start-up. *)

Spawn(p) ==
  /\ pc[p] = "off"
  /\ pc' = [pc EXCEPT ![p] = "load"]
  /\ told' = Silence
  /\ UNCHANGED <<mem, heard, taken, wg, fileVars, conn>>

\* NewCoreWithSettings and the two loaders, before the socket is owned.
Load(p) ==
  /\ pc[p] = "load"
  /\ mem' = [mem EXCEPT ![p] = doc]
  /\ pc' = [pc EXCEPT ![p] = "lock"]
  /\ UNCHANGED <<heard, taken, wg, fileVars, conn, told>>

\* The process ends: its lock, its listener and its connections go with it.
Gone(p) ==
  /\ pc' = [pc EXCEPT ![p] = "off"]
  /\ mem' = [mem EXCEPT ![p] = {}]
  /\ heard' = [heard EXCEPT ![p] = FALSE]
  /\ taken' = [taken EXCEPT ![p] = None]
  /\ wg' = [wg EXCEPT ![p] = 0]
  /\ lock' = IF lock = p THEN None ELSE lock
  /\ conn' = [c \in Clients |-> IF conn[c].to = p THEN NoConn ELSE conn[c]]

\* A refused process names the process the file names: the text is longer
\* than the pid when a longer one was there before, for nothing truncates it.
Named == IF pidfile.pid = None \/ pidfile.size # Digits[pidfile.pid] THEN None ELSE pidfile.pid

\* Mutant: the lock is taken for granted.
LockAnyway(p) ==
  /\ pc[p] = "lock"
  /\ lock' = p /\ pc' = [pc EXCEPT ![p] = "pid"]
  /\ UNCHANGED <<mem, heard, taken, wg, pidfile, path, doc, wiped, conn, told>>

Lock(p) ==
  /\ pc[p] = "lock"
  /\ \/ /\ lock = None
        /\ lock' = p /\ pc' = [pc EXCEPT ![p] = "pid"]
        /\ UNCHANGED <<mem, heard, taken, wg, conn, told>>
     \/ /\ lock # None
        /\ Gone(p)
        /\ told' = [as |-> "leftover", names |-> Named, holder |-> lock, serving |-> pc[lock] = "serve"]
  /\ UNCHANGED <<pidfile, path, doc, wiped>>

RecordPid(p) ==
  /\ pc[p] = "pid"
  /\ pidfile' = [pid |-> p, size |-> IF pidfile.size > Digits[p] THEN pidfile.size ELSE Digits[p]]
  /\ pc' = [pc EXCEPT ![p] = "probe"]
  /\ UNCHANGED <<mem, heard, taken, wg, lock, path, doc, wiped, conn, told>>

\* socketAlive: a daemon that serves the path answers, in time or not.
Probe(p) ==
  /\ pc[p] = "probe"
  /\ \/ /\ pc' = [pc EXCEPT ![p] = "unlink"]
        /\ UNCHANGED <<mem, heard, taken, wg, lock, conn, told>>
     \/ /\ path # None /\ pc[path] = "serve" /\ heard[path]
        /\ Gone(p)
        /\ told' = [as |-> "serving", names |-> None, holder |-> path, serving |-> TRUE]
  /\ UNCHANGED <<pidfile, path, doc, wiped>>

Unlink(p) ==
  /\ pc[p] = "unlink"
  /\ path' = None
  /\ pc' = [pc EXCEPT ![p] = "bind"]
  /\ UNCHANGED <<mem, heard, taken, wg, lock, pidfile, doc, wiped, conn, told>>

\* net.Listen fails on a path that is there again.
Bind(p) ==
  /\ pc[p] = "bind"
  /\ \/ /\ path = None /\ path' = p
        /\ pc' = [pc EXCEPT ![p] = "serve"]
        /\ UNCHANGED <<mem, heard, taken, wg, lock, conn>>
     \/ /\ path # None /\ Gone(p) /\ UNCHANGED path
  /\ UNCHANGED <<pidfile, doc, wiped, told>>

-----------------------------------------------------------------------------
(* The server: Serve's accept loop and one goroutine per connection. *)

\* The server goroutine stores the listener for Close, which may have gone by.
Serve(p) ==
  /\ pc[p] \in Listening /\ ~heard[p]
  /\ heard' = [heard EXCEPT ![p] = TRUE]
  /\ UNCHANGED <<pc, mem, taken, wg, fileVars, conn, told>>

Accept(p) ==
  /\ pc[p] \in Listening /\ heard[p] /\ taken[p] = None
  /\ \E c \in Clients :
       /\ conn[c] = [to |-> p, at |-> "waiting"]
       /\ taken' = [taken EXCEPT ![p] = c]
       /\ conn' = [conn EXCEPT ![c].at = "accepted"]
  /\ UNCHANGED <<pc, mem, heard, wg, fileVars, told>>

\* wg.Add and go serveConn, after Accept returned: Close may be anywhere.
Count(p) ==
  /\ taken[p] # None
  /\ wg' = [wg EXCEPT ![p] = @ + 1]
  /\ conn' = [conn EXCEPT ![taken[p]].at = "open"]
  /\ taken' = [taken EXCEPT ![p] = None]
  /\ UNCHANGED <<pc, mem, heard, fileVars, told>>

Answer(c) ==
  /\ conn[c].at = "call"
  /\ conn' = [conn EXCEPT ![c].at = "open"]
  /\ \/ UNCHANGED <<mem, doc>>
     \/ \E e \in Edits \ mem[conn[c].to] :
          /\ mem' = [mem EXCEPT ![conn[c].to] = @ \cup {e}]
          /\ doc' = mem[conn[c].to] \cup {e}
  /\ UNCHANGED <<pc, heard, taken, wg, lock, pidfile, path, wiped, told>>

\* Mutant: the goroutine returns and does not say so.
HangUpUncounted(c) ==
  /\ conn[c].at = "open"
  /\ conn' = [conn EXCEPT ![c] = NoConn]
  /\ UNCHANGED <<procVars, fileVars, told>>

\* The client closes; Scan ends and serveConn returns.
HangUp(c) ==
  /\ conn[c].at = "open"
  /\ conn' = [conn EXCEPT ![c] = NoConn]
  /\ wg' = [wg EXCEPT ![conn[c].to] = @ - 1]
  /\ UNCHANGED <<pc, mem, heard, taken, fileVars, told>>

Connect(c) ==
  /\ conn[c] = NoConn
  /\ path # None /\ pc[path] \in Listening
  /\ conn' = [conn EXCEPT ![c] = [to |-> path, at |-> "waiting"]]
  /\ UNCHANGED <<procVars, fileVars, told>>

Request(c) ==
  /\ conn[c].at = "open"
  /\ conn' = [conn EXCEPT ![c].at = "call"]
  /\ UNCHANGED <<procVars, fileVars, told>>

-----------------------------------------------------------------------------
(* Shutdown: the deferred stopTap, then Close. *)

\* Mutant: the lock is given up first.
SignalAndUnlock(p) ==
  /\ pc[p] = "serve"
  /\ pc' = [pc EXCEPT ![p] = "close"]
  /\ lock' = IF lock = p THEN None ELSE lock
  /\ UNCHANGED <<mem, heard, taken, wg, pidfile, path, doc, wiped, conn, told>>

Signal(p) ==
  /\ pc[p] = "serve"
  /\ pc' = [pc EXCEPT ![p] = "close"]
  /\ UNCHANGED <<mem, heard, taken, wg, fileVars, conn, told>>

\* Closing the listener, when the server goroutine has stored it, unlinks the
\* path by its name and drops what was not accepted.
Close(p) ==
  /\ pc[p] = "close"
  /\ pc' = [pc EXCEPT ![p] = IF heard[p] THEN "wait" ELSE "left"]
  /\ IF heard[p]
       THEN /\ path' = None
            /\ conn' = [c \in Clients |->
                          IF conn[c] = [to |-> p, at |-> "waiting"] THEN NoConn ELSE conn[c]]
       ELSE UNCHANGED <<path, conn>>
  /\ UNCHANGED <<mem, heard, taken, wg, lock, pidfile, doc, wiped, told>>

Exit(p) ==
  /\ pc[p] \in {"wait", "left"} /\ wg[p] = 0
  /\ Gone(p)
  /\ UNCHANGED <<pidfile, path, doc, wiped, told>>

Crash(p) ==
  /\ pc[p] # "off"
  /\ Gone(p)
  /\ UNCHANGED <<pidfile, path, doc, wiped, told>>

\* External: somebody clears the state directory of the lock file; the next
\* to open it makes another.
Wipe ==
  /\ ~wiped /\ wiped' = TRUE
  /\ lock' = None /\ pidfile' = [pid |-> None, size |-> 0]
  /\ UNCHANGED <<procVars, path, doc, conn, told>>

-----------------------------------------------------------------------------

Init ==
  /\ pc = [p \in Procs |-> "off"] /\ mem = [p \in Procs |-> {}]
  /\ heard = [p \in Procs |-> FALSE] /\ taken = [p \in Procs |-> None]
  /\ wg = [p \in Procs |-> 0]
  /\ lock = None /\ pidfile = [pid |-> None, size |-> 0] /\ path = None
  /\ doc = {} /\ wiped = FALSE
  /\ conn = [c \in Clients |-> NoConn]
  /\ told = Silence

Start(p) ==
  \/ Spawn(p) \/ Load(p) \/ Lock(p) \/ RecordPid(p) \/ Probe(p) \/ Unlink(p) \/ Bind(p)
Work(p) == Serve(p) \/ Accept(p) \/ Count(p)
End(p) == Close(p) \/ Exit(p)
Client(c) == Connect(c) \/ Request(c) \/ HangUp(c)

Next ==
  \/ \E p \in Procs : Start(p) \/ Work(p) \/ Signal(p) \/ End(p) \/ Crash(p)
  \/ \E c \in Clients : Answer(c) \/ Client(c)
  \/ Wipe

\* Goroutines run and handlers return; nobody has to connect, to hang up, to
\* send a signal or to start a daemon.  The last connection to end releases a
\* Close that waits, though another may come in right after: hence the SF.
Fairness ==
  /\ \A p \in Procs : WF_vars(Work(p)) /\ WF_vars(Close(p)) /\ SF_vars(Exit(p))
  /\ \A c \in Clients : WF_vars(Answer(c))

Spec == Init /\ [][Next]_vars /\ Fairness

-----------------------------------------------------------------------------
(* Properties. *)

ConnType == [to : Procs \cup {None},
             at : {"none", "waiting", "accepted", "open", "call"}]
TypeOK ==
  /\ pc \in [Procs -> Starting \cup {"off", "serve", "close", "wait", "left"}]
  /\ heard \in [Procs -> BOOLEAN] /\ taken \in [Procs -> Clients \cup {None}]
  /\ wiped \in BOOLEAN
  /\ lock \in Procs \cup {None} /\ path \in Procs \cup {None}
  /\ conn \in [Clients -> ConnType]

\* A daemon that serves is reached by the path: no start, crash or shutdown of
\* another leaves it running and deaf (main.go:1967), for as long as nobody
\* takes the lock file away.
NoDeafDaemon ==
  ~wiped => \A p \in Procs : pc[p] = "serve" => path = p

\* One process at a time handles calls, and so writes the document ("the
\* daemon's single-writer guarantee", lock_unix.go:3).
SingleWriter ==
  ~wiped => \A c, d \in Clients :
              conn[c].at = "call" /\ conn[d].at = "call" => conn[c].to = conn[d].to

\* A signalled daemon ends, unless a client keeps a connection to it for ever:
\* Close waits for connections, idle ones too.
HeldOpen(p) == \E c \in Clients : conn[c].to = p /\ conn[c].at \in {"open", "call"}
ShutdownEnds ==
  \A p \in Procs : <>[]HeldOpen(p) \/ (pc[p] = "close" ~> pc[p] = "off")

\* Claimed of Close: "in-flight calls run to completion (waited)"
\* (ipc.go:102).  A connection accepted and not yet counted is not waited for.
CallsAreWaited ==
  [][\A p \in Procs : Exit(p) => taken[p] = None]_vars

\* Claimed of the holder of the lock: "it is not serving, so it is a leftover"
\* (main.go:1204); said of a daemon that serves.
RefusalIsTrue == told.as = "leftover" => ~told.serving

\* Claimed of the pid: "so a later starter can name the process to stop"
\* (main.go:1207); it may be another's, or garbled.
HolderIsNamed == told.as = "leftover" => told.names = told.holder

\* Claimed: single writer, so what a client wrote stays written.  A process
\* that read the document before it had the lock writes over it.
EditsStay == [][doc \subseteq doc']_vars
=============================================================================
