----------------------------- MODULE Processes ------------------------------
(***************************************************************************)
(* The processes of an installation and how they start, find and end each  *)
(* other: launchers (launcher/src/main.cpp), GUI servers (the start and    *)
(* end of gui/server.js) and capture cores (core/src/main.cpp).            *)
(*                                                                         *)
(* A launcher starts one core and one server; every server that gets the   *)
(* port starts a core of its own.  A server that finds the port taken      *)
(* kills its owner, and every core on the machine by name, and tries       *)
(* again.  A server's own core ends with it (Node puts children that are   *)
(* not detached in a job that dies with it); a launcher's core does not.   *)
(* A core is named by the process that started it.                         *)
(***************************************************************************)
EXTENDS Integers, FiniteSets

CONSTANTS
  Launchers,  \* starts of USBPcapGUI.exe
  Servers,    \* starts of the GUI server, by a launcher or by a user
  Foreign,    \* another program that may hold the port
  Free, None

ASSUME ProcessNames ==
  /\ Launchers \cap Servers = {}
  /\ {Foreign, Free, None} \cap (Launchers \cup Servers) = {}
  /\ Cardinality({Foreign, Free, None}) = 3

Parents == Launchers \cup Servers

VARIABLES
  launcher,   \* each launcher's position
  guiProcess, \* the server each launcher started (g_serverProcess), or None
  mutex,      \* the launcher that owns USBPcapGUILauncherMutex
  server,     \* each server's position
  holder,     \* the process PowerShell found listening on the port
  port,       \* who listens on the port
  core,       \* the core each process started: "none", "up" or "down"
  interfered  \* history: a server was ended by other means than a takeover

vars == <<launcher, guiProcess, mutex, server, holder, port, core, interfered>>
launcherVars == <<launcher, guiProcess, mutex>>

Init ==
  /\ launcher = [l \in Launchers |-> "off"]
  /\ guiProcess = [l \in Launchers |-> None]
  /\ mutex = None
  /\ server = [s \in Servers |-> "off"]
  /\ holder = [s \in Servers |-> None]
  /\ port \in {Free, Foreign}
  /\ core = [p \in Parents |-> "none"]
  /\ interfered = FALSE

-----------------------------------------------------------------------------
(* The end of processes.                                                   *)

Ended(S) == [s \in Servers |-> IF s \in S THEN "ended" ELSE server[s]]

\* What the servers in S and the cores of the processes in P held.
Release(S, P) ==
  LET gone == {p \in P : core[p] = "up"}
  IN  /\ port' = IF port \in S THEN Free ELSE port
      /\ core' = [p \in Parents |-> IF p \in gone THEN "down" ELSE core[p]]

\* Cleanup: the server, and with it its core, then the launcher's own core.
Cleanup(l) == LET S == {guiProcess[l]} \ {None}
              IN  server' = Ended(S) /\ Release(S, S \cup {l})

-----------------------------------------------------------------------------
(* The launcher.                                                           *)

\* A second launcher only opens the browser and returns.
AlreadyRunning(l) ==
  /\ launcher[l] = "off" /\ mutex # None
  /\ launcher' = [launcher EXCEPT ![l] = "quit"]
  /\ UNCHANGED <<guiProcess, mutex, server, holder, port, core, interfered>>

\* The core is missing or does not start: nothing to clean up.
CoreMissing(l) ==
  /\ launcher[l] = "off" /\ mutex = None
  /\ launcher' = [launcher EXCEPT ![l] = "quit"]
  /\ UNCHANGED <<guiProcess, mutex, server, holder, port, core, interfered>>

LaunchCore(l) ==
  /\ launcher[l] = "off" /\ mutex = None
  /\ mutex' = l
  /\ launcher' = [launcher EXCEPT ![l] = "coreStarted"]
  /\ core' = [core EXCEPT ![l] = "up"]
  /\ UNCHANGED <<guiProcess, server, holder, port, interfered>>

\* gui-server.exe, started after CORE_WAIT_MS.
LaunchServer(l) ==
  /\ launcher[l] = "coreStarted"
  /\ \E s \in Servers :
       /\ server[s] = "off"
       /\ server' = [server EXCEPT ![s] = "starting"]
       /\ guiProcess' = [guiProcess EXCEPT ![l] = s]
  /\ launcher' = [launcher EXCEPT ![l] = "tray"]
  /\ UNCHANGED <<mutex, holder, port, core, interfered>>

Leave(l) == /\ launcher' = [launcher EXCEPT ![l] = "quit"]
            /\ mutex' = None
            /\ UNCHANGED <<guiProcess, holder>>

\* (mutant of ServerMissing: the error path forgets the core)
ServerMissingNoCleanup(l) ==
  /\ launcher[l] = "coreStarted"
  /\ Leave(l)
  /\ UNCHANGED <<server, port, core, interfered>>

ServerMissing(l) ==
  /\ launcher[l] = "coreStarted"
  /\ Cleanup(l) /\ Leave(l)
  /\ UNCHANGED interfered

\* The tray menu's Quit, or the end of the window.
Quit(l) ==
  /\ launcher[l] = "tray"
  /\ Cleanup(l) /\ Leave(l)
  /\ interfered' = TRUE

\* The launcher is killed: what it started goes on.
LauncherCrash(l) ==
  /\ launcher[l] \in {"coreStarted", "tray"}
  /\ launcher' = [launcher EXCEPT ![l] = "crashed"]
  /\ mutex' = None
  /\ UNCHANGED <<guiProcess, server, holder, port, core, interfered>>

-----------------------------------------------------------------------------
(* The GUI server.                                                         *)

To(s, position) == server' = [server EXCEPT ![s] = position]

UserStarts(s) ==
  /\ server[s] = "off"
  /\ To(s, "starting")
  /\ UNCHANGED <<launcherVars, holder, port, core, interfered>>

\* onListening: spawnCoreProcess, when an executable is found.
Serve(s) ==
  /\ port = Free /\ port' = s
  /\ To(s, "serving")
  /\ core' \in {core, [core EXCEPT ![s] = "up"]}
  /\ UNCHANGED <<launcherVars, holder, interfered>>

Listen(s) == server[s] = "starting" /\ Serve(s)

PortInUse(s) ==
  /\ server[s] = "starting" /\ port # Free
  /\ To(s, "asking")
  /\ UNCHANGED <<launcherVars, holder, port, core, interfered>>

\* handlePortInUse runs one PowerShell command: find the owner of the port,
\* kill it, kill the cores.  It is cut off after five seconds at any point.
AskOwner(s) ==
  /\ server[s] = "asking"
  /\ holder' = [holder EXCEPT ![s] = IF port = Free THEN None ELSE port]
  /\ To(s, "killing")
  /\ UNCHANGED <<launcherVars, port, core, interfered>>

\* (mutant of KillOwner: the owner is only killed after the cores)
KillOwnerLast(s) ==
  /\ server[s] = "killing"
  /\ To(s, "raiding")
  /\ UNCHANGED <<launcherVars, holder, port, core, interfered>>

KillOwner(s) ==
  /\ server[s] = "killing"
  /\ LET S == {holder[s]} \cap Servers
     IN  /\ server' = [Ended(S) EXCEPT ![s] = "raiding"]
         /\ \/ Release(S, S)
            \/ /\ holder[s] = Foreign /\ port = Foreign /\ port' = Free
               /\ UNCHANGED core
  /\ UNCHANGED <<launcherVars, holder, interfered>>

\* Stop-Process -Name bhplus-core: every core, whoever started it.
KillCores(s) ==
  /\ server[s] = "raiding"
  /\ To(s, "polling")
  /\ Release({}, Parents)
  /\ UNCHANGED <<launcherVars, holder, interfered>>

PowerShellTimeout(s) ==
  /\ server[s] \in {"asking", "killing", "raiding"}
  /\ To(s, "polling")
  /\ UNCHANGED <<launcherVars, holder, port, core, interfered>>

\* Each poll binds the port to see whether it is free, closes it again and
\* only then listens.
Poll(s) ==
  /\ server[s] = "polling" /\ port = Free
  /\ port' = s
  /\ To(s, "testing")
  /\ UNCHANGED <<launcherVars, holder, core, interfered>>

\* (mutant of CloseTest: the test server is left open)
LeakTest(s) ==
  /\ server[s] = "testing"
  /\ To(s, "retrying")
  /\ UNCHANGED <<launcherVars, holder, port, core, interfered>>

CloseTest(s) ==
  /\ server[s] = "testing"
  /\ port' = Free
  /\ To(s, "retrying")
  /\ UNCHANGED <<launcherVars, holder, core, interfered>>

Retry(s) == server[s] = "retrying" /\ Serve(s)

\* A second EADDRINUSE is ignored, and with no handle left Node exits.
RetryLost(s) ==
  /\ server[s] = "retrying" /\ port # Free
  /\ To(s, "ended")
  /\ UNCHANGED <<launcherVars, holder, port, core, interfered>>

\* The port is still taken after five seconds of polls: process.exit(1).
GiveUp(s) ==
  /\ server[s] = "polling" /\ port # Free
  /\ To(s, "ended")
  /\ interfered' = (interfered \/ port = Foreign)
  /\ UNCHANGED <<launcherVars, holder, port, core>>

\* SIGINT or SIGTERM (shutdown), a crash, or the user ends the process.
Shutdown(s) ==
  /\ server[s] \notin {"off", "ended"}
  /\ server' = Ended({s}) /\ Release({s}, {s})
  /\ interfered' = TRUE
  /\ UNCHANGED <<launcherVars, holder>>

-----------------------------------------------------------------------------
(* Cores.                                                                  *)

CoreExits(p) ==
  /\ core[p] = "up"
  /\ Release({}, {p})
  /\ UNCHANGED <<launcherVars, server, holder, interfered>>

LauncherStep(l) == \/ AlreadyRunning(l) \/ CoreMissing(l) \/ LaunchCore(l)
                   \/ LaunchServer(l) \/ ServerMissing(l) \/ Quit(l)
                   \/ LauncherCrash(l)

Starting(s) == \/ Listen(s) \/ PortInUse(s) \/ AskOwner(s) \/ KillOwner(s)
               \/ KillCores(s) \/ Poll(s) \/ CloseTest(s) \/ Retry(s)
               \/ RetryLost(s) \/ GiveUp(s)

Next == \/ \E l \in Launchers : LauncherStep(l)
        \/ \E s \in Servers : \/ UserStarts(s) \/ Starting(s)
                              \/ PowerShellTimeout(s)
                              \/ Shutdown(s)
        \/ \E p \in Parents : CoreExits(p)

\* A server that is starting goes on: its event loop runs, PowerShell ends or
\* is cut off, the polls are counted.  Nothing makes anyone start or quit.
Spec == Init /\ [][Next]_vars /\ \A s \in Servers : WF_vars(Starting(s))

-----------------------------------------------------------------------------
(* Properties.                                                             *)

\* main.cpp:10: "All child processes are terminated when the launcher exits",
\* on every path but a crash: its core, its server and that server's core.
QuitLeavesNothing ==
  \A l \in Launchers : launcher[l] = "quit" =>
    /\ core[l] # "up"
    /\ guiProcess[l] = None \/ /\ server[guiProcess[l]] = "ended"
                               /\ core[guiProcess[l]] # "up"

\* Servers that start at the same time may kill each other, take the port
\* from each other between test and listen, and give up: but one of them ends
\* up serving, unless one was ended by hand or a foreign program keeps the port.
TakeoverEndsServing ==
  (\E s \in Servers : server[s] = "starting") ~>
    (interfered \/ \E s \in Servers : server[s] = "serving")

\* A server that goes on serving loses its core to another server's takeover
\* only when that one had looked up the owner of the port too early.
RaidSparesOwner ==
  [][\A s \in Servers :
       server[s] = "serving" /\ server'[s] = "serving" /\ core[s] = "up" /\ core'[s] = "down"
         => \/ CoreExits(s)
            \/ \E t \in Servers : server[t] = "raiding" /\ holder[t] # s]_vars
=============================================================================
