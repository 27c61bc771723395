----------------------------- MODULE UsbActions -----------------------------
(***************************************************************************)
(* ResetUsbDevice and SendUsbControlTransfer (usb_actions.cpp), as the     *)
(* command line and the core call them: find the device that has an        *)
(* address by asking the root hub port by port, map its driver key to an   *)
(* instance and its interface, then restart it or send it one transfer.    *)
(* Every query is a step of its own, and devices are plugged, unplugged    *)
(* and given each other's addresses in between.                            *)
(*                                                                         *)
(* The driver key, the instance and the interface of a device are the      *)
(* device itself: Windows keeps them while it is known to the system.      *)
(***************************************************************************)
EXTENDS Integers, FiniteSets, Sequences

CONSTANTS
  Devices,
  Ports,      \* the ports of the root hub are 1..Ports
  Addresses,  \* the addresses the hub gives out; 0 is none
  MaxMoves,   \* bound on plugging and unplugging
  NoDevice

ASSUME UsbAssumption == /\ Ports \in Nat /\ MaxMoves \in Nat
                        /\ Addresses \subseteq Nat \ {0}
                        /\ NoDevice \notin Devices

VARIABLES
  plugged,    \* the device at each port, or NoDevice
  address,    \* the address of each device, 0 when it has none
  moves,      \* plugs and unplugs so far
  action,     \* the call's method: "reset" or "control"
  target,     \* the address asked for
  step,       \* the call's position
  atPort,     \* the port the loop has reached
  found,      \* the device whose driver key was read
  path,       \* the device whose interface path was found, or NoDevice
  handles,    \* the handles the call holds
  ok,         \* result.ok
  matched,    \* history: the device and port of the query that matched
  swapped     \* history: that port changed before its driver key was read

treeVars == <<plugged, address, moves>>
lookupVars == <<atPort, found, path>>
usbVars == <<treeVars, action, target, step, lookupVars, handles, ok, matched, swapped>>

\* What is plugged in before the call is plugged in before its first step.
UsbInit ==
  /\ plugged = [p \in 1..Ports |-> NoDevice]
  /\ address = [d \in Devices |-> 0]
  /\ moves = 0
  /\ action = "none" /\ target = 0 /\ step = "idle"
  /\ atPort = 0 /\ found = NoDevice /\ path = NoDevice
  /\ handles = {} /\ ok = FALSE
  /\ matched = NoDevice /\ swapped = FALSE

Present(d) == \E p \in 1..Ports : plugged[p] = d

-----------------------------------------------------------------------------
(* The bus.                                                                *)

Moved(p) ==
  /\ moves < MaxMoves /\ moves' = moves + 1
  /\ swapped' = (swapped \/ (step = "key" /\ p = atPort))
  /\ UNCHANGED <<action, target, step, lookupVars, handles, ok, matched>>

Unplug(p) ==
  /\ plugged[p] # NoDevice
  /\ plugged' = [plugged EXCEPT ![p] = NoDevice]
  /\ address' = [address EXCEPT ![plugged[p]] = 0]
  /\ Moved(p)

Plug(p, d, a) ==
  /\ plugged[p] = NoDevice /\ ~Present(d)
  /\ \A e \in Devices : address[e] # a
  /\ plugged' = [plugged EXCEPT ![p] = d]
  /\ address' = [address EXCEPT ![d] = a]
  /\ Moved(p)

-----------------------------------------------------------------------------
(* The call.                                                               *)

\* What a step of the call leaves alone: the bus and the request.
Go(next) ==
  /\ step' = next
  /\ UNCHANGED <<treeVars, action, target>>

\* Return after closing what this return closes.
Return(closed, good) ==
  /\ Go("returned")
  /\ handles' = handles \ closed
  /\ ok' = good
  /\ UNCHANGED <<lookupVars, matched, swapped>>

\* Go on with one more handle.
Hold(next, handle) ==
  /\ Go(next)
  /\ handles' = handles \cup {handle}
  /\ UNCHANGED <<lookupVars, ok, matched, swapped>>

\* A bus or an address of zero is refused.
Call(method, a) ==
  /\ step = "idle"
  /\ action' = method /\ target' = a
  /\ step' = IF a = 0 THEN "returned" ELSE "hub"
  /\ UNCHANGED <<treeVars, lookupVars, handles, ok, matched, swapped>>

OpenHub ==
  /\ step = "hub"
  /\ Return({}, FALSE) \/ Hold("node", "hub")

NodeInformation ==
  /\ step = "node"
  /\ \/ Return({"hub"}, FALSE)
     \/ /\ Go("ports")
        /\ atPort' = 1
        /\ UNCHANGED <<found, path, handles, ok, matched, swapped>>

\* (mutant of Addressed: the connection status is not looked at)
AnyConnection(p) == plugged[p] # NoDevice

Addressed(p) == plugged[p] # NoDevice /\ address[plugged[p]] = target

\* Ask for the connection at a port; a query that fails skips the port.
QueryPort ==
  /\ step = "ports" /\ atPort <= Ports
  /\ \/ /\ atPort' = atPort + 1 /\ Go("ports")
        /\ UNCHANGED <<matched, swapped>>
     \/ /\ Addressed(atPort)
        /\ matched' = plugged[atPort] /\ swapped' = FALSE
        /\ Go("key") /\ UNCHANGED atPort
  /\ UNCHANGED <<found, path, handles, ok>>

NoSuchDevice == step = "ports" /\ atPort > Ports /\ Return({"hub"}, FALSE)

\* (mutant of QueryKey: the hub stays open on the error path)
QueryKeyLeaks ==
  /\ step = "key"
  /\ \/ Return({}, FALSE)
     \/ /\ plugged[atPort] # NoDevice
        /\ found' = plugged[atPort] /\ handles' = handles \ {"hub"}
        /\ Go("instances")
        /\ UNCHANGED <<atPort, path, ok, matched, swapped>>

\* The driver key of the device that is at the port by now.
QueryKey ==
  /\ step = "key"
  /\ \/ Return({"hub"}, FALSE)
     \/ /\ plugged[atPort] # NoDevice
        /\ found' = plugged[atPort] /\ handles' = handles \ {"hub"}
        /\ Go("instances")
        /\ UNCHANGED <<atPort, path, ok, matched, swapped>>

\* FindInstanceIdByDriverKey opens a list of devices ...
ListInstances ==
  /\ step = "instances"
  /\ Return({}, FALSE) \/ Hold("instance", "list")

\* ... and looks for the key among the present ones.
FindInstance ==
  /\ step = "instance"
  /\ \/ Return({"list"}, FALSE)
     \/ /\ Present(found) /\ Go("paths")
        /\ handles' = handles \ {"list"}
        /\ UNCHANGED <<lookupVars, ok, matched, swapped>>

Resolved == Go(IF action = "reset" THEN "restart" ELSE "open")

\* FindUsbInterfacePath, whose result ResolveUsbDevice does not look at.
ListInterfaces ==
  /\ step = "paths"
  /\ \/ Resolved /\ UNCHANGED <<lookupVars, handles, ok, matched, swapped>>
     \/ Hold("path", "list")

FindPath ==
  /\ step = "path"
  /\ path' \in {NoDevice} \cup {d \in {found} : Present(d)}
  /\ Resolved /\ handles' = handles \ {"list"}
  /\ UNCHANGED <<atPort, found, ok, matched, swapped>>

\* RestartByInstanceId opens a list as well, and restarts what is in it.
ListToRestart ==
  /\ step = "restart"
  /\ Return({}, FALSE) \/ Hold("restarting", "list")

Restart ==
  /\ step = "restarting"
  /\ \E good \in BOOLEAN : (good => Present(found)) /\ Return({"list"}, good)

NoPath == step = "open" /\ path = NoDevice /\ Return({}, FALSE)

OpenDevice ==
  /\ step = "open" /\ path # NoDevice
  /\ \/ Return({}, FALSE)
     \/ Present(path) /\ Hold("winusb", "device")

InitializeWinUsb ==
  /\ step = "winusb"
  /\ Return({"device"}, FALSE) \/ Hold("transfer", "winusb")

\* The transfer, then WinUsb_Free and CloseHandle on both paths.
Transfer ==
  /\ step = "transfer"
  /\ \E good \in BOOLEAN : (good => Present(path)) /\ Return({"winusb", "device"}, good)

UsbStep == \/ OpenHub \/ NodeInformation \/ QueryPort \/ NoSuchDevice \/ QueryKey
           \/ ListInstances \/ FindInstance \/ ListInterfaces \/ FindPath
           \/ ListToRestart \/ Restart
           \/ NoPath \/ OpenDevice \/ InitializeWinUsb \/ Transfer

Bus == \E p \in 1..Ports : \/ Unplug(p)
                           \/ \E d \in Devices, a \in Addresses : Plug(p, d, a)

-----------------------------------------------------------------------------
(* Properties.                                                             *)

\* A call that has returned holds no handle: each of its returns closes what
\* was opened on the way to it, the hub, a device list, or device and WinUSB.
HandlesReturned == step = "returned" => handles = {}

\* The device that was restarted or sent a transfer is the one that had the
\* address asked for when its port was queried, whatever was unplugged and
\* given the address since - unless its port changed in the one window the
\* code leaves, between that query and the query of the driver key.
ActsOnAddressed ==
  /\ ok => swapped \/ matched = IF action = "reset" THEN found ELSE path
  /\ step = "key" /\ ~swapped => address[matched] = target
=============================================================================
