-------------------------- MODULE ProcessesProofs --------------------------
(***************************************************************************)
(* That a launcher which quits leaves nothing behind, and that a takeover  *)
(* ends no other server's core but by a stale look at the port, for every  *)
(* number of launchers and servers, whatever else is killed or crashes.    *)
(***************************************************************************)
EXTENDS Processes, TLAPS

LauncherStates == {"off", "coreStarted", "tray", "quit", "crashed"}
CoreStates == {"none", "up", "down"}
ServerStates == {"off", "starting", "asking", "killing", "raiding", "polling", "testing",
                 "retrying", "serving", "ended"}

ProcessTypeOK ==
  /\ launcher \in [Launchers -> LauncherStates]
  /\ guiProcess \in [Launchers -> Servers \cup {None}]
  /\ server \in [Servers -> ServerStates]
  /\ core \in [Parents -> CoreStates]

(* QuitLeavesNothing is not inductive: a launcher must have nothing yet    *)
(* when its core is missing, and a server's core must not outlive it.      *)
StartedInv ==
  \A l \in Launchers : /\ launcher[l] = "off" => core[l] = "none"
                       /\ launcher[l] \in {"off", "coreStarted"} => guiProcess[l] = None

OwnCoreInv == \A s \in Servers : core[s] = "up" => server[s] = "serving"

QuitInv == ProcessTypeOK /\ StartedInv /\ OwnCoreInv /\ QuitLeavesNothing

LEMMA QuitInit == Init => QuitInv
  BY ProcessNames DEF Init, QuitInv, ProcessTypeOK, StartedInv, OwnCoreInv,
     QuitLeavesNothing, LauncherStates, CoreStates, ServerStates, Parents

(* What ends, ends for good: Release never starts a core.                  *)
LEMMA Releases ==
  ASSUME ProcessTypeOK, NEW S, NEW P, Release(S, P)
  PROVE  /\ core' \in [Parents -> CoreStates]
         /\ \A p \in Parents : core'[p] = "up" => core[p] = "up" /\ p \notin P
         /\ \A p \in Parents : core[p] = "none" => core'[p] = "none"
  BY DEF ProcessTypeOK, Release, CoreStates

LEMMA EndsServers ==
  ASSUME ProcessTypeOK, NEW S
  PROVE  /\ Ended(S) \in [Servers -> ServerStates]
         /\ \A s \in Servers : Ended(S)[s] = IF s \in S THEN "ended" ELSE server[s]
  BY DEF ProcessTypeOK, Ended, ServerStates

(* A step that moves servers other than ended ones, and starts no core.    *)
Harmless ==
  /\ UNCHANGED <<launcher, guiProcess>>
  /\ server' \in [Servers -> ServerStates]
  /\ core' \in [Parents -> CoreStates]
  /\ \A s \in Servers : server[s] = "ended" => server'[s] = "ended"
  /\ \A p \in Parents : core'[p] = "up" => core[p] = "up"
  /\ \A p \in Parents : core[p] = "none" => core'[p] = "none"
  /\ \A s \in Servers : core'[s] = "up" => server'[s] = server[s]

LEMMA HarmlessStep == QuitInv /\ Harmless => QuitInv'
  BY ProcessNames DEF QuitInv, Harmless, ProcessTypeOK, StartedInv, OwnCoreInv,
     QuitLeavesNothing, Parents

LEMMA MovesHarmless ==
  ASSUME QuitInv, NEW s \in Servers, NEW position \in ServerStates, To(s, position),
         server[s] \notin {"ended", "serving"}, UNCHANGED <<launcherVars, core>>
  PROVE  Harmless
  BY DEF QuitInv, ProcessTypeOK, OwnCoreInv, To, launcherVars, Harmless, Parents

LEMMA LauncherStepQuits ==
  ASSUME QuitInv, NEW l \in Launchers, LauncherStep(l)
  PROVE  QuitInv'
  <1> USE DEF QuitInv, ProcessTypeOK, StartedInv, OwnCoreInv, LauncherStates
  <1>1. CASE AlreadyRunning(l) \/ CoreMissing(l)
    BY <1>1, ProcessNames DEF AlreadyRunning, CoreMissing, QuitLeavesNothing, Parents
  <1>2. CASE LaunchCore(l)
    BY <1>2, ProcessNames DEF LaunchCore, QuitLeavesNothing, Parents, CoreStates
  <1>3. CASE LaunchServer(l)
    BY <1>3, ProcessNames DEF LaunchServer, QuitLeavesNothing, ServerStates, Parents
  <1>4. CASE LauncherCrash(l)
    BY <1>4, ProcessNames DEF LauncherCrash, QuitLeavesNothing, Parents
  <1>5. ASSUME Cleanup(l), Leave(l), launcher[l] \in {"coreStarted", "tray"}
        PROVE  QuitInv'
    <2> DEFINE S == {guiProcess[l]} \ {None}
    <2>1. Release(S, S \cup {l}) /\ server' = Ended(S)
      BY <1>5 DEF Cleanup
    <2>2. /\ core' \in [Parents -> CoreStates]
          /\ \A p \in Parents : core'[p] = "up" => core[p] = "up" /\ p \notin S \cup {l}
          /\ \A p \in Parents : core[p] = "none" => core'[p] = "none"
      BY <2>1, Releases
    <2>3. /\ server' \in [Servers -> ServerStates]
          /\ \A s \in Servers : server'[s] = IF s \in S THEN "ended" ELSE server[s]
      BY <2>1, EndsServers
    <2>4. launcher' = [launcher EXCEPT ![l] = "quit"] /\ UNCHANGED guiProcess
      BY <1>5 DEF Leave
    <2>5. ProcessTypeOK' /\ StartedInv' /\ OwnCoreInv'
      BY <2>2, <2>3, <2>4, <1>5 DEF Parents
    <2>6. QuitLeavesNothing'
      BY <2>2, <2>3, <2>4, ProcessNames DEF QuitLeavesNothing, Parents
    <2>7. QED BY <2>5, <2>6
  <1>6. QED
    BY <1>1, <1>2, <1>3, <1>4, <1>5 DEF LauncherStep, ServerMissing, Quit

LEMMA ServeQuits ==
  ASSUME QuitInv, NEW s \in Servers, Serve(s), server[s] \notin {"ended", "serving"}
  PROVE  QuitInv'
  BY ProcessNames DEF QuitInv, ProcessTypeOK, StartedInv, OwnCoreInv, QuitLeavesNothing,
     Serve, To, launcherVars, Parents, CoreStates, ServerStates

LEMMA ServerStepQuits ==
  ASSUME QuitInv, NEW s \in Servers,
         UserStarts(s) \/ Starting(s) \/ PowerShellTimeout(s) \/ Shutdown(s)
  PROVE  QuitInv'
  <1>1. CASE Listen(s) \/ Retry(s)
    BY <1>1, ServeQuits DEF Listen, Retry
  <1>2. CASE \/ UserStarts(s) \/ PortInUse(s) \/ AskOwner(s) \/ PowerShellTimeout(s)
             \/ Poll(s) \/ CloseTest(s) \/ RetryLost(s) \/ GiveUp(s)
    <2>1. \E position \in ServerStates : To(s, position)
      BY <1>2 DEF UserStarts, PortInUse, AskOwner, PowerShellTimeout, Poll, CloseTest,
                  RetryLost, GiveUp, ServerStates
    <2>2. server[s] \notin {"ended", "serving"} /\ UNCHANGED <<launcherVars, core>>
      BY <1>2 DEF UserStarts, PortInUse, AskOwner, PowerShellTimeout, Poll, CloseTest,
                  RetryLost, GiveUp
    <2>3. QED BY <2>1, <2>2, MovesHarmless, HarmlessStep
  <1>3. CASE KillOwner(s)
    <2> DEFINE S == {holder[s]} \cap Servers
    <2>1. /\ server[s] = "killing" /\ UNCHANGED launcherVars
          /\ server' = [Ended(S) EXCEPT ![s] = "raiding"]
          /\ Release(S, S) \/ (holder[s] = Foreign /\ UNCHANGED core)
      BY <1>3 DEF KillOwner
    <2>2. ProcessTypeOK
      BY DEF QuitInv
    <2>3. /\ core' \in [Parents -> CoreStates]
          /\ \A p \in Parents : core'[p] = "up" => core[p] = "up" /\ p \notin S
          /\ \A p \in Parents : core[p] = "none" => core'[p] = "none"
      <3>1. CASE Release(S, S)
        BY <3>1, <2>2, Releases
      <3>2. CASE holder[s] = Foreign /\ UNCHANGED core
        BY <3>2, <2>2, ProcessNames DEF ProcessTypeOK
      <3>3. QED BY <2>1, <3>1, <3>2
    <2>4. /\ Ended(S) \in [Servers -> ServerStates]
          /\ \A t \in Servers : Ended(S)[t] = IF t \in S THEN "ended" ELSE server[t]
      BY <2>2, EndsServers
    <2>5. /\ server' \in [Servers -> ServerStates]
          /\ \A t \in Servers : server'[t] = IF t = s THEN "raiding"
                                             ELSE IF t \in S THEN "ended" ELSE server[t]
      BY <2>1, <2>4 DEF ServerStates
    <2>6. Harmless
      BY <2>1, <2>3, <2>5 DEF Harmless, QuitInv, OwnCoreInv, launcherVars, Parents
    <2>7. QED BY <2>6, HarmlessStep
  <1>4. CASE KillCores(s)
    <2>1. /\ server[s] = "raiding" /\ To(s, "polling") /\ UNCHANGED launcherVars
          /\ Release({}, Parents)
      BY <1>4 DEF KillCores
    <2>2. /\ core' \in [Parents -> CoreStates]
          /\ \A p \in Parents : core'[p] # "up"
          /\ \A p \in Parents : core[p] = "none" => core'[p] = "none"
      BY <2>1, Releases DEF QuitInv
    <2>3. Harmless
      BY <2>1, <2>2 DEF Harmless, QuitInv, ProcessTypeOK, To, launcherVars, Parents, ServerStates
    <2>4. QED BY <2>3, HarmlessStep
  <1>5. CASE Shutdown(s)
    <2>1. server' = Ended({s}) /\ Release({s}, {s}) /\ UNCHANGED launcherVars
      BY <1>5 DEF Shutdown
    <2>2. /\ core' \in [Parents -> CoreStates]
          /\ \A p \in Parents : core'[p] = "up" => core[p] = "up" /\ p # s
          /\ \A p \in Parents : core[p] = "none" => core'[p] = "none"
      BY <2>1, Releases DEF QuitInv
    <2>3. /\ server' \in [Servers -> ServerStates]
          /\ \A t \in Servers : server'[t] = IF t = s THEN "ended" ELSE server[t]
      BY <2>1, EndsServers DEF QuitInv
    <2>4. Harmless
      BY <2>1, <2>2, <2>3 DEF Harmless, launcherVars, Parents
    <2>5. QED BY <2>4, HarmlessStep
  <1>6. QED BY <1>1, <1>2, <1>3, <1>4, <1>5 DEF Starting

LEMMA QuitStep == QuitInv /\ [Next]_vars => QuitInv'
  <1> SUFFICES ASSUME QuitInv, [Next]_vars PROVE QuitInv'
    OBVIOUS
  <1>1. ASSUME NEW p \in Parents, CoreExits(p) PROVE QuitInv'
    <2>1. UNCHANGED <<launcherVars, server>> /\ Release({}, {p})
      BY <1>1 DEF CoreExits
    <2>2. /\ core' \in [Parents -> CoreStates]
          /\ \A q \in Parents : core'[q] = "up" => core[q] = "up"
          /\ \A q \in Parents : core[q] = "none" => core'[q] = "none"
      BY <2>1, Releases DEF QuitInv
    <2>3. Harmless
      BY <2>1, <2>2 DEF Harmless, QuitInv, ProcessTypeOK, launcherVars
    <2>4. QED BY <2>3, HarmlessStep
  <1>2. CASE UNCHANGED vars
    BY <1>2 DEF vars, QuitInv, ProcessTypeOK, StartedInv, OwnCoreInv, QuitLeavesNothing
  <1>3. QED BY <1>1, <1>2, LauncherStepQuits, ServerStepQuits DEF Next

(* A launcher that quits leaves no core and no server behind               *)
(* (launcher/src/main.cpp:153, Cleanup, and the paths that do without it). *)
THEOREM QuitLeavesNothingCorrect == Spec => []QuitLeavesNothing
  <1>1. QuitInv => QuitLeavesNothing
    BY DEF QuitInv
  <1>2. QED BY QuitInit, QuitStep, <1>1, PTL DEF Spec

-----------------------------------------------------------------------------
(* Raids.                                                                  *)

(* A server that raids the cores has ended the owner it had looked up, and *)
(* nobody comes back from that.                                            *)
RaidInv ==
  /\ DOMAIN holder = Servers
  /\ \A t \in Servers : server[t] = "raiding" /\ holder[t] \in Servers =>
       holder[t] = t \/ server[holder[t]] = "ended"

(* What one step does to the servers: the ended ones stay ended, one only  *)
(* becomes a raider by killing the owner it had found, and no other step   *)
(* changes what a raider has found.                                        *)
Ends == \A s \in Servers : server[s] = "ended" => server'[s] = "ended"
NoRaider ==
  /\ DOMAIN holder' = DOMAIN holder
  /\ \A t \in Servers : server'[t] = "raiding" =>
       server[t] = "raiding" /\ holder'[t] = holder[t]

LEMMA RaidKept == RaidInv /\ Ends /\ NoRaider => RaidInv'
  BY DEF RaidInv, Ends, NoRaider

(* Nothing takes the core of a server that goes on serving.                *)
CoresKept == \A s \in Servers : server'[s] = "serving" /\ core[s] = "up" => core'[s] = "up"

LEMMA MovesRaidNobody ==
  ASSUME ProcessTypeOK, NEW s \in Servers, NEW position \in ServerStates \ {"raiding"},
         To(s, position), server[s] # "ended", DOMAIN holder' = DOMAIN holder,
         \A t \in Servers \ {s} : holder'[t] = holder[t]
  PROVE  Ends /\ NoRaider
  BY DEF ProcessTypeOK, To, Ends, NoRaider

LEMMA ReleaseKeeps ==
  ASSUME ProcessTypeOK, NEW S, NEW P, Release(S, P)
  PROVE  \A p \in Parents \ P : core[p] = "up" => core'[p] = "up"
  BY DEF ProcessTypeOK, Release

LEMMA LauncherRaids ==
  ASSUME ProcessTypeOK, NEW l \in Launchers, LauncherStep(l)
  PROVE  Ends /\ NoRaider /\ CoresKept
  <1>1. CASE AlreadyRunning(l) \/ CoreMissing(l) \/ LauncherCrash(l)
    BY <1>1 DEF AlreadyRunning, CoreMissing, LauncherCrash, Ends, NoRaider, CoresKept
  <1>2. CASE LaunchCore(l)
    BY <1>2, ProcessNames DEF LaunchCore, Ends, NoRaider, CoresKept, ProcessTypeOK, Parents
  <1>3. CASE LaunchServer(l)
    BY <1>3 DEF LaunchServer, Ends, NoRaider, CoresKept, ProcessTypeOK
  <1>4. CASE ServerMissing(l) \/ Quit(l)
    <2> DEFINE S == {guiProcess[l]} \ {None}
    <2>1. server' = Ended(S) /\ Release(S, S \cup {l}) /\ UNCHANGED holder
      BY <1>4 DEF ServerMissing, Quit, Cleanup, Leave
    <2>2. \A s \in Servers : server'[s] = IF s \in S THEN "ended" ELSE server[s]
      BY <2>1, EndsServers
    <2>3. \A p \in Parents \ (S \cup {l}) : core[p] = "up" => core'[p] = "up"
      BY <2>1, ReleaseKeeps
    <2>4. \A s \in Servers : s # l /\ s \in Parents
      BY ProcessNames DEF Parents
    <2> HIDE DEF S
    <2>5. QED BY <2>1, <2>2, <2>3, <2>4 DEF Ends, NoRaider, CoresKept
  <1>5. QED BY <1>1, <1>2, <1>3, <1>4 DEF LauncherStep

LEMMA ServerRaids ==
  ASSUME ProcessTypeOK, RaidInv, NEW s \in Servers,
         UserStarts(s) \/ Starting(s) \/ PowerShellTimeout(s) \/ Shutdown(s)
  PROVE  /\ RaidInv'
         /\ CoresKept \/ KillCores(s)
  <1>1. CASE \/ UserStarts(s) \/ PortInUse(s) \/ AskOwner(s) \/ PowerShellTimeout(s)
             \/ Poll(s) \/ CloseTest(s) \/ RetryLost(s) \/ GiveUp(s)
    <2>1. \E position \in ServerStates \ {"raiding"} : To(s, position)
      BY <1>1 DEF UserStarts, PortInUse, AskOwner, PowerShellTimeout, Poll, CloseTest,
                  RetryLost, GiveUp, ServerStates
    <2>2. /\ server[s] # "ended" /\ UNCHANGED core
          /\ UNCHANGED holder \/ AskOwner(s)
      BY <1>1 DEF UserStarts, PortInUse, AskOwner, PowerShellTimeout, Poll, CloseTest,
                  RetryLost, GiveUp
    <2>3. /\ DOMAIN holder' = DOMAIN holder
          /\ \A t \in Servers \ {s} : holder'[t] = holder[t]
      BY <2>2 DEF AskOwner, RaidInv
    <2>4. CoresKept
      BY <2>2 DEF CoresKept
    <2>5. QED BY <2>1, <2>2, <2>3, <2>4, MovesRaidNobody, RaidKept
  <1>2. CASE Listen(s) \/ Retry(s)
    <2>1. /\ Serve(s) /\ server[s] # "ended"
          /\ To(s, "serving") /\ UNCHANGED holder /\ core' \in {core, [core EXCEPT ![s] = "up"]}
      BY <1>2 DEF Listen, Retry, Serve
    <2>2. CoresKept
      BY <2>1 DEF CoresKept, ProcessTypeOK, Parents
    <2>3. "serving" \in ServerStates \ {"raiding"}
      BY DEF ServerStates
    <2>4. QED BY <2>1, <2>2, <2>3, MovesRaidNobody, RaidKept
  <1>3. CASE KillOwner(s)
    <2> DEFINE S == {holder[s]} \cap Servers
    <2>1. /\ server[s] = "killing" /\ UNCHANGED holder
          /\ server' = [Ended(S) EXCEPT ![s] = "raiding"]
          /\ Release(S, S) \/ UNCHANGED core
      BY <1>3 DEF KillOwner
    <2>2. /\ Ended(S) \in [Servers -> ServerStates]
          /\ \A t \in Servers : Ended(S)[t] = IF t \in S THEN "ended" ELSE server[t]
      BY EndsServers
    <2>3. \A t \in Servers : server'[t] = IF t = s THEN "raiding"
                                          ELSE IF t \in S THEN "ended" ELSE server[t]
      BY <2>1, <2>2
    <2>4. RaidInv'
      BY <2>1, <2>3 DEF RaidInv
    <2>5. \A t \in Servers \ S : core[t] = "up" => core'[t] = "up"
      <3>1. CASE Release(S, S)
        <4>1. \A p \in Parents \ S : core[p] = "up" => core'[p] = "up"
          BY <3>1, ReleaseKeeps
        <4>2. QED BY <4>1 DEF Parents
      <3>2. CASE UNCHANGED core
        BY <3>2
      <3>3. QED BY <2>1, <3>1, <3>2
    <2>6. CoresKept
      BY <2>3, <2>5 DEF CoresKept
    <2>7. QED BY <2>4, <2>6
  <1>4. CASE KillCores(s)
    <2>1. server[s] = "raiding" /\ To(s, "polling") /\ UNCHANGED holder
      BY <1>4 DEF KillCores
    <2>2. "polling" \in ServerStates \ {"raiding"}
      BY DEF ServerStates
    <2>3. QED BY <1>4, <2>1, <2>2, MovesRaidNobody, RaidKept
  <1>5. CASE Shutdown(s)
    <2>1. server' = Ended({s}) /\ Release({s}, {s}) /\ UNCHANGED holder
      BY <1>5 DEF Shutdown, launcherVars
    <2>2. \A t \in Servers : server'[t] = IF t \in {s} THEN "ended" ELSE server[t]
      BY <2>1, EndsServers
    <2>3. \A p \in Parents \ {s} : core[p] = "up" => core'[p] = "up"
      BY <2>1, ReleaseKeeps
    <2>4. Ends /\ NoRaider /\ CoresKept
      BY <2>1, <2>2, <2>3 DEF Ends, NoRaider, CoresKept, Parents
    <2>5. QED BY <2>4, RaidKept
  <1>6. QED BY <1>1, <1>2, <1>3, <1>4, <1>5 DEF Starting

LEMMA RaidInit == Init => RaidInv
  BY DEF Init, RaidInv

LEMMA RaidStep == QuitInv /\ RaidInv /\ [Next]_vars => RaidInv'
  <1> SUFFICES ASSUME QuitInv, RaidInv, [Next]_vars PROVE RaidInv'
    OBVIOUS
  <1>1. ProcessTypeOK
    BY DEF QuitInv
  <1>2. ASSUME NEW p \in Parents, CoreExits(p) PROVE RaidInv'
    BY <1>2 DEF CoreExits, RaidInv
  <1>3. CASE UNCHANGED vars
    BY <1>3 DEF vars, RaidInv
  <1>4. ASSUME NEW l \in Launchers, LauncherStep(l) PROVE RaidInv'
    BY <1>1, <1>4, LauncherRaids, RaidKept
  <1>5. QED BY <1>1, <1>2, <1>3, <1>4, ServerRaids DEF Next

LEMMA RaidSpares ==
  ASSUME QuitInv, RaidInv, [Next]_vars, NEW s \in Servers,
         server[s] = "serving", server'[s] = "serving", core[s] = "up", core'[s] = "down"
  PROVE  \/ CoreExits(s)
         \/ \E t \in Servers : server[t] = "raiding" /\ holder[t] # s
  <1>1. ProcessTypeOK /\ s \in Parents
    BY DEF QuitInv, Parents
  <1>2. ~CoresKept
    BY DEF CoresKept
  <1>3. ASSUME NEW p \in Parents, CoreExits(p) PROVE CoreExits(s)
    <2>1. Release({}, {p})
      BY <1>3 DEF CoreExits
    <2>2. s = p
      BY <1>1, <2>1, ReleaseKeeps
    <2>3. QED BY <1>3, <2>2
  <1>4. ASSUME NEW t \in Servers, KillCores(t)
        PROVE  server[t] = "raiding" /\ holder[t] # s
    <2>1. server[t] = "raiding"
      BY <1>4 DEF KillCores
    <2>2. QED BY <2>1 DEF RaidInv
  <1>5. CASE UNCHANGED vars
    BY <1>5 DEF vars
  <1>6. QED BY <1>1, <1>2, <1>3, <1>4, <1>5, LauncherRaids, ServerRaids DEF Next

(* A server that goes on serving loses its core to the takeover of another *)
(* only when that one had looked up the owner of the port before the first *)
(* was serving (server.js, handlePortInUse): for every number of servers.  *)
THEOREM RaidSparesOwnerCorrect == Spec => RaidSparesOwner
  <1>1. QuitInv /\ RaidInv /\ [Next]_vars =>
          [\A s \in Servers :
             server[s] = "serving" /\ server'[s] = "serving" /\ core[s] = "up" /\ core'[s] = "down"
               => \/ CoreExits(s)
                  \/ \E t \in Servers : server[t] = "raiding" /\ holder[t] # s]_vars
    BY RaidSpares
  <1>2. QED BY QuitInit, QuitStep, RaidInit, RaidStep, <1>1, PTL DEF Spec, RaidSparesOwner
=============================================================================
