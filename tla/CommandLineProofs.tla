------------------------- MODULE CommandLineProofs -------------------------
(***************************************************************************)
(* For every bus, every set of hubs and every limit: a device action that  *)
(* succeeds acted on the device whose address matched, unless that port    *)
(* changed before the next query, and has closed its handles; the locals   *)
(* of main are used after their end only when a start was refused; and the *)
(* events asked for are exported unless two callbacks overlap.             *)
(***************************************************************************)
EXTENDS CommandLine, SequenceTheorems, TLAPS

-----------------------------------------------------------------------------
(* Device actions.                                                         *)

Steps == {"idle", "hub", "node", "ports", "key", "instances", "instance", "paths", "path",
          "restart", "restarting", "open", "winusb", "transfer", "returned"}

UsbTypeOK ==
  /\ plugged \in [1..Ports -> Devices \cup {NoDevice}]
  /\ address \in [Devices -> Addresses \cup {0}]
  /\ step \in Steps /\ ok \in BOOLEAN
  /\ step = "ports" => atPort \in Nat \ {0}
  /\ step = "key" => atPort \in 1..Ports

(* A device is plugged in once, so that what happens at other ports leaves *)
(* the address of the one that matched alone.                              *)
OnePort == \A p, q \in 1..Ports : plugged[p] = plugged[q] /\ plugged[p] # NoDevice => p = q

(* What the steps of a call know: the device that matched is still at its  *)
(* port, its driver key led to it, and its path, where needed, is its own. *)
LookupInv ==
  /\ step = "key" /\ ~swapped => /\ matched \in Devices /\ plugged[atPort] = matched
                                 /\ address[matched] = target
  /\ step \in {"instances", "instance", "paths", "path", "restart", "restarting",
               "open", "winusb", "transfer"} => swapped \/ found = matched
  /\ step \notin {"open", "winusb", "transfer", "restart", "restarting", "returned"} =>
       path = NoDevice
  /\ step = "open" => path \in {NoDevice, found}
  /\ step \in {"winusb", "transfer"} => path = found
  /\ step \in {"restart", "restarting"} => action = "reset"
  /\ step \in {"open", "winusb", "transfer"} => action # "reset"
  /\ ok => step = "returned" /\ (swapped \/ matched = IF action = "reset" THEN found ELSE path)

(* What the call holds at each of its steps.                               *)
HandlesInv ==
  /\ step \in {"node", "ports", "key"} => handles = {"hub"}
  /\ step \in {"instance", "path", "restarting"} => handles = {"list"}
  /\ step = "winusb" => handles = {"device"}
  /\ step = "transfer" => handles = {"device", "winusb"}
  /\ step \in {"idle", "hub", "instances", "paths", "restart", "open", "returned"} => handles = {}

UsbInv == UsbTypeOK /\ OnePort /\ LookupInv /\ HandlesInv

UsbNext == \/ \E method \in {"reset", "control"}, a \in Addresses \cup {0} : Call(method, a)
           \/ UsbStep \/ Bus \/ UNCHANGED usbVars

LEMMA UsbInitInv == UsbInit => UsbInv
  BY UsbAssumption DEF UsbInit, UsbInv, UsbTypeOK, OnePort, LookupInv, HandlesInv, Steps

(* The bus changes under a call.                                           *)
LEMMA BusKeeps == UsbInv /\ Bus => UsbInv'
  <1> SUFFICES ASSUME UsbInv, Bus PROVE UsbInv'
    OBVIOUS
  <1> USE DEF UsbInv, UsbTypeOK, OnePort, Moved, lookupVars
  <1>1. PICK p \in 1..Ports : Unplug(p) \/ \E d \in Devices, a \in Addresses : Plug(p, d, a)
    BY DEF Bus
  <1>2. Moved(p)
    BY <1>1 DEF Unplug, Plug
  <1>3. HandlesInv'
    BY <1>2 DEF HandlesInv
  <1>4. CASE Unplug(p)
    <2>1. UsbTypeOK' /\ OnePort'
      BY <1>4, UsbAssumption DEF Unplug
    <2>2. step = "key" /\ ~swapped' => plugged'[atPort] = matched /\ address'[matched] = target
      <3>1. SUFFICES ASSUME step = "key", ~swapped'
                     PROVE  plugged'[atPort] = matched /\ address'[matched] = target
        OBVIOUS
      <3>2. p # atPort /\ ~swapped /\ atPort \in 1..Ports
        BY <3>1, <1>2
      <3>3. plugged[atPort] = matched /\ address[matched] = target /\ matched \in Devices
        BY <3>1, <3>2 DEF LookupInv
      <3>4. plugged[p] # matched
        BY <3>2, <3>3, UsbAssumption
      <3>5. QED BY <3>2, <3>3, <3>4, <1>4 DEF Unplug
    <2>3. LookupInv'
      BY <2>2, <1>2 DEF LookupInv
    <2>4. QED BY <2>1, <2>3, <1>3
  <1>5. ASSUME NEW d \in Devices, NEW a \in Addresses, Plug(p, d, a) PROVE UsbInv'
    <2>1. UsbTypeOK' /\ OnePort'
      BY <1>5, UsbAssumption DEF Plug, Present
    <2>2. step = "key" /\ ~swapped' => plugged'[atPort] = matched /\ address'[matched] = target
      <3>1. SUFFICES ASSUME step = "key", ~swapped'
                     PROVE  plugged'[atPort] = matched /\ address'[matched] = target
        OBVIOUS
      <3>2. p # atPort /\ ~swapped /\ atPort \in 1..Ports
        BY <3>1, <1>2
      <3>3. plugged[atPort] = matched /\ address[matched] = target /\ matched \in Devices
        BY <3>1, <3>2 DEF LookupInv
      <3>4. d # matched
        BY <3>2, <3>3, <1>5 DEF Plug, Present
      <3>5. QED BY <3>2, <3>3, <3>4, <1>5 DEF Plug
    <2>3. LookupInv'
      BY <2>2, <1>2 DEF LookupInv
    <2>4. QED BY <2>1, <2>3, <1>3
  <1>6. QED BY <1>1, <1>4, <1>5

LEMMA CallKeeps ==
  ASSUME UsbInv, NEW method \in {"reset", "control"}, NEW a \in Addresses \cup {0},
         Call(method, a)
  PROVE  UsbInv'
  BY DEF UsbInv, UsbTypeOK, OnePort, LookupInv, HandlesInv, Call, treeVars, lookupVars, Steps

(* A return that closes what is held.                                      *)
LEMMA ReturnKeeps ==
  ASSUME UsbInv, NEW closed, NEW good \in BOOLEAN, Return(closed, good),
         handles \subseteq closed,
         good => swapped \/ matched = IF action = "reset" THEN found ELSE path
  PROVE  UsbInv'
  <1>1. handles' = {}
    BY DEF Return
  <1>2. QED
    BY <1>1 DEF UsbInv, UsbTypeOK, OnePort, LookupInv, HandlesInv, Return, Go, treeVars,
                lookupVars, Steps

(* A step that fails closes exactly what it holds.                         *)
LEMMA FailKeeps ==
  ASSUME UsbInv, NEW closed, Return(closed, FALSE), handles \subseteq closed
  PROVE  UsbInv'
  BY ReturnKeeps

LEMMA StepKeeps == UsbInv /\ UsbStep => UsbInv'
  <1> SUFFICES ASSUME UsbInv, UsbStep PROVE UsbInv'
    OBVIOUS
  <1>i. UsbTypeOK /\ OnePort /\ LookupInv /\ HandlesInv
    BY DEF UsbInv
  <1>1. CASE OpenHub \/ ListInstances \/ ListToRestart
    <2>1. CASE Return({}, FALSE)
      BY <1>1, <1>i, <2>1, FailKeeps DEF OpenHub, ListInstances, ListToRestart, HandlesInv
    <2>2. CASE \/ step = "hub" /\ Hold("node", "hub")
               \/ step = "instances" /\ Hold("instance", "list")
               \/ step = "restart" /\ Hold("restarting", "list")
      <3>1. UsbTypeOK' /\ OnePort'
        BY <1>i, <2>2 DEF Hold, Go, treeVars, lookupVars, UsbTypeOK, OnePort, Steps
      <3>2. LookupInv'
        BY <1>i, <2>2 DEF Hold, Go, treeVars, lookupVars, LookupInv
      <3>3. HandlesInv'
        BY <1>i, <2>2 DEF Hold, Go, HandlesInv
      <3>4. QED BY <3>1, <3>2, <3>3 DEF UsbInv
    <2>3. QED BY <1>1, <2>1, <2>2 DEF OpenHub, ListInstances, ListToRestart
  <1>2. CASE NodeInformation \/ NoSuchDevice
    <2>1. CASE Return({"hub"}, FALSE)
      BY <1>2, <1>i, <2>1, FailKeeps DEF NodeInformation, NoSuchDevice, HandlesInv
    <2>2. CASE NodeInformation /\ Go("ports") /\ atPort' = 1
               /\ UNCHANGED <<found, path, handles, ok, matched, swapped>>
      BY <1>i, <2>2 DEF NodeInformation, Go, treeVars, UsbInv, UsbTypeOK, OnePort, LookupInv,
         HandlesInv, Steps
    <2>3. QED BY <1>2, <2>1, <2>2 DEF NodeInformation, NoSuchDevice
  <1>3. CASE QueryPort
    BY <1>3, UsbAssumption DEF QueryPort, Addressed, UsbInv, UsbTypeOK, OnePort, LookupInv,
       HandlesInv, Go, treeVars, lookupVars, Steps
  <1>4. CASE QueryKey
    <2>1. CASE Return({"hub"}, FALSE)
      BY <1>4, <1>i, <2>1, FailKeeps DEF QueryKey, HandlesInv
    <2>2. CASE /\ found' = plugged[atPort] /\ handles' = handles \ {"hub"}
               /\ Go("instances") /\ UNCHANGED <<atPort, path, ok, matched, swapped>>
      <3>1. UsbTypeOK' /\ OnePort'
        BY <1>i, <2>2 DEF Go, treeVars, UsbTypeOK, OnePort, Steps
      <3>2. LookupInv'
        BY <1>4, <1>i, <2>2 DEF QueryKey, Go, treeVars, LookupInv
      <3>3. HandlesInv'
        BY <1>4, <1>i, <2>2 DEF QueryKey, Go, HandlesInv
      <3>4. QED BY <3>1, <3>2, <3>3 DEF UsbInv
    <2>3. QED BY <1>4, <2>1, <2>2 DEF QueryKey
  <1>5. CASE FindInstance
    <2>1. CASE Return({"list"}, FALSE)
      BY <1>5, <1>i, <2>1, FailKeeps DEF FindInstance, HandlesInv
    <2>2. CASE /\ Go("paths") /\ handles' = handles \ {"list"}
               /\ UNCHANGED <<lookupVars, ok, matched, swapped>>
      BY <1>5, <1>i, <2>2 DEF FindInstance, Go, treeVars, lookupVars, UsbInv, UsbTypeOK,
         OnePort, LookupInv, HandlesInv, Steps
    <2>3. QED BY <1>5, <2>1, <2>2 DEF FindInstance
  <1>6. CASE ListInterfaces
    <2>1. UsbTypeOK' /\ OnePort'
      BY <1>6, <1>i DEF ListInterfaces, Resolved, Hold, Go, treeVars, lookupVars, UsbTypeOK,
         OnePort, Steps
    <2>2. LookupInv'
      BY <1>6, <1>i DEF ListInterfaces, Resolved, Hold, Go, treeVars, lookupVars, LookupInv
    <2>3. HandlesInv'
      BY <1>6, <1>i DEF ListInterfaces, Resolved, Hold, Go, HandlesInv
    <2>4. QED BY <2>1, <2>2, <2>3 DEF UsbInv
  <1>7. CASE FindPath
    <2>1. UsbTypeOK' /\ OnePort'
      BY <1>7, <1>i DEF FindPath, Resolved, Go, treeVars, UsbTypeOK, OnePort, Steps
    <2>2. LookupInv'
      BY <1>7, <1>i DEF FindPath, Resolved, Go, treeVars, LookupInv
    <2>3. HandlesInv'
      BY <1>7, <1>i DEF FindPath, Resolved, Go, HandlesInv
    <2>4. QED BY <2>1, <2>2, <2>3 DEF UsbInv
  <1>8. CASE Restart \/ Transfer
    <2>1. PICK good \in BOOLEAN : \/ step = "restarting" /\ Return({"list"}, good)
                                  \/ step = "transfer" /\ Return({"winusb", "device"}, good)
      BY <1>8 DEF Restart, Transfer
    <2>2. swapped \/ matched = IF action = "reset" THEN found ELSE path
      BY <1>i, <2>1 DEF LookupInv
    <2>3. CASE step = "restarting" /\ Return({"list"}, good)
      BY <1>i, <2>2, <2>3, ReturnKeeps DEF HandlesInv
    <2>4. CASE step = "transfer" /\ Return({"winusb", "device"}, good)
      BY <1>i, <2>2, <2>4, ReturnKeeps DEF HandlesInv
    <2>5. QED BY <2>1, <2>3, <2>4
  <1>9. CASE NoPath \/ OpenDevice
    <2>1. CASE Return({}, FALSE)
      BY <1>9, <1>i, <2>1, FailKeeps DEF NoPath, OpenDevice, HandlesInv
    <2>2. CASE OpenDevice /\ Hold("winusb", "device")
      BY <1>i, <2>2 DEF OpenDevice, Hold, Go, treeVars, lookupVars, UsbInv, UsbTypeOK, OnePort,
         LookupInv, HandlesInv, Steps
    <2>3. QED BY <1>9, <2>1, <2>2 DEF NoPath, OpenDevice
  <1>10. CASE InitializeWinUsb
    <2>1. CASE Return({"device"}, FALSE)
      BY <1>10, <1>i, <2>1, FailKeeps DEF InitializeWinUsb, HandlesInv
    <2>2. CASE Hold("transfer", "winusb")
      BY <1>10, <1>i, <2>2 DEF InitializeWinUsb, Hold, Go, treeVars, lookupVars, UsbInv,
         UsbTypeOK, OnePort, LookupInv, HandlesInv, Steps
    <2>3. QED BY <1>10, <2>1, <2>2 DEF InitializeWinUsb
  <1>11. QED BY <1>1, <1>2, <1>3, <1>4, <1>5, <1>6, <1>7, <1>8, <1>9, <1>10 DEF UsbStep

LEMMA UsbKeeps == UsbInv /\ UsbNext => UsbInv'
  <1>1. UsbInv /\ UNCHANGED usbVars => UsbInv'
    BY DEF UsbInv, UsbTypeOK, OnePort, LookupInv, HandlesInv, usbVars, treeVars, lookupVars
  <1>2. QED BY <1>1, BusKeeps, CallKeeps, StepKeeps DEF UsbNext

(* The command line uses device actions as UsbNext allows.                 *)
LEMMA UsesUsb == [Next]_vars => UsbNext
  <1> SUFFICES ASSUME [Next]_vars PROVE UsbNext
    OBVIOUS
  <1> USE DEF UsbNext
  <1>1. CASE Query \/ ActionDone
    BY <1>1 DEF Query, ActionDone, Exit
  <1>2. CASE RunAction \/ ActionStep
    BY <1>2 DEF RunAction, ActionStep
  <1>3. CASE StartCapture \/ ReserveFails \/ Started \/ Refused \/ EngineDestroyed
    BY <1>3 DEF StartCapture, ReserveFails, Started, Refused, EngineDestroyed
  <1>4. CASE Poll \/ StopReturns \/ Export \/ CtrlC
    BY <1>4 DEF Poll, StopReturns, Export, CtrlC
  <1>5. ASSUME NEW h \in Hubs, Enter(h) \/ Inside(h) PROVE UsbNext
    BY <1>5 DEF Enter, Inside, PrintLine, Push, Reallocate, Grow, LoadCount, StoreCount
  <1>6. CASE UNCHANGED vars
    BY <1>6 DEF vars
  <1>7. QED BY <1>1, <1>2, <1>3, <1>4, <1>5, <1>6 DEF Next, MainStep

(* ResetUsbDevice and SendUsbControlTransfer close every handle on every   *)
(* return (usb_actions.cpp:142-414).                                       *)
THEOREM HandlesReturnedCorrect == Spec => []HandlesReturned
  <1>1. Init => UsbInv
    BY UsbInitInv DEF Init
  <1>2. UsbInv /\ [Next]_vars => UsbInv'
    BY UsesUsb, UsbKeeps
  <1>3. UsbInv => HandlesReturned
    BY DEF UsbInv, HandlesInv, HandlesReturned
  <1>4. QED BY <1>1, <1>2, <1>3, PTL DEF Spec

(* A call that succeeds acted on the device whose address matched, or its  *)
(* port changed after the query that returned the address and before the   *)
(* query of the driver key (usb_actions.cpp:170-221): in that window the   *)
(* code takes whatever device is there by then.                            *)
THEOREM ActsOnAddressedCorrect == Spec => []ActsOnAddressed
  <1>1. Init => UsbInv
    BY UsbInitInv DEF Init
  <1>2. UsbInv /\ [Next]_vars => UsbInv'
    BY UsesUsb, UsbKeeps
  <1>3. UsbInv => ActsOnAddressed
    BY DEF UsbInv, LookupInv, ActsOnAddressed
  <1>4. QED BY <1>1, <1>2, <1>3, PTL DEF Spec

-----------------------------------------------------------------------------
(* The capture's callbacks and the locals of main.                         *)

Positions == {"out", "print", "push", "grow", "count", "store"}

(* Two threads in the callback have overlapped.                            *)
OverlapInv ==
  \A g, h \in Hubs : g # h /\ at[g] # "out" /\ at[h] # "out" => overlapped

LocalsInv == at \in [Hubs -> Positions] /\ OverlapInv /\ LocalsOutliveCallbacks

LEMMA LocalsInit == Init => LocalsInv
  BY DEF Init, Engine!Init, LocalsInv, OverlapInv, LocalsOutliveCallbacks, Quiet, Positions

LEMMA MainKeeps == LocalsInv /\ (MainStep \/ CtrlC) => LocalsInv'
  <1> SUFFICES ASSUME LocalsInv, MainStep \/ CtrlC PROVE LocalsInv'
    OBVIOUS
  <1> USE DEF LocalsInv, OverlapInv, LocalsOutliveCallbacks, Quiet, MainOnly, threadVars,
          captureVars
  <1>1. CASE Query \/ ActionDone
    BY <1>1 DEF Query, ActionDone, Exit
  <1>2. CASE RunAction
    BY <1>2 DEF RunAction
  <1>3. CASE ActionStep
    BY <1>3 DEF ActionStep, cliVars, mainVars
  <1>4. CASE StartCapture \/ ReserveFails
    BY <1>4 DEF StartCapture, ReserveFails, Engine!Begin
  <1>5. CASE Started \/ Refused \/ Poll
    BY <1>5 DEF Started, Refused, Poll
  <1>6. CASE EngineDestroyed \/ StopReturns
    BY <1>6 DEF EngineDestroyed, StopReturns, Engine!End
  <1>7. CASE Export \/ CtrlC
    BY <1>7 DEF Export, CtrlC
  <1>8. QED BY <1>1, <1>2, <1>3, <1>4, <1>5, <1>6, <1>7 DEF MainStep

(* A thread inside the callback shows that main's locals exist, or that a  *)
(* start was refused.                                                      *)
LEMMA InsideKeeps ==
  ASSUME LocalsInv, NEW h \in Hubs, Inside(h)
  PROVE  LocalsInv'
  <1> USE DEF LocalsInv, OverlapInv, LocalsOutliveCallbacks, Quiet
  <1>1. at[h] # "out"
    BY DEF Inside, PrintLine, Push, Reallocate, Grow, LoadCount, StoreCount
  <1>2. ~locals => refused
    BY <1>1
  <1>3. UNCHANGED <<main, locals, refused, overlapped, active>>
    BY DEF Inside, PrintLine, Push, Reallocate, Grow, LoadCount, StoreCount, mainVars, captureVars
  <1>4. PICK position \in Positions : To(h, position)
    BY DEF Inside, PrintLine, Push, Reallocate, Grow, LoadCount, StoreCount, Positions
  <1>5. crashed' => refused \/ overlapped
    <2>1. CASE PrintLine(h)
      BY <2>1 DEF PrintLine
    <2>2. CASE Push(h) \/ Grow(h) \/ LoadCount(h) \/ StoreCount(h)
      BY <2>2, <1>2 DEF Push, Grow, LoadCount, StoreCount, Touch
    <2>3. CASE Reallocate(h)
      BY <2>3, <1>2 DEF Reallocate
    <2>4. QED BY <2>1, <2>2, <2>3 DEF Inside
  <1>6. QED BY <1>1, <1>2, <1>3, <1>4, <1>5 DEF To

LEMMA EnterKeeps ==
  ASSUME LocalsInv, NEW h \in Hubs, Enter(h)
  PROVE  LocalsInv'
  <1> USE DEF LocalsInv, OverlapInv, LocalsOutliveCallbacks, Quiet
  <1>1. active /\ active' = active
    BY DEF Enter, Engine!Deliver
  <1>2. UNCHANGED <<main, locals, refused, crashed>>
    BY DEF Enter, mainVars
  <1>3. CASE UNCHANGED threadVars
    BY <1>1, <1>2, <1>3 DEF threadVars
  <1>4. ASSUME NEW position \in Positions, To(h, position),
               overlapped' = (overlapped \/ ~Quiet)
        PROVE  LocalsInv'
    <2>1. (main = "exporting" \/ ~locals => refused) /\ (crashed => refused \/ overlapped)
      BY <1>1
    <2>2. (main' = "exporting" \/ ~locals' => refused') /\ (crashed' => refused' \/ overlapped')
      BY <2>1, <1>2, <1>4
    <2>3. at' \in [Hubs -> Positions]
      BY <1>4 DEF To
    <2>4. OverlapInv'
      BY <1>4 DEF To
    <2>5. QED BY <2>2, <2>3, <2>4
  <1>5. UNCHANGED threadVars \/ \E position \in Positions :
          To(h, position) /\ overlapped' = (overlapped \/ ~Quiet)
    BY DEF Enter, Positions
  <1>6. QED BY <1>3, <1>4, <1>5

(* Callbacks outlive captured and matchedCount only after a refused start  *)
(* (cli/src/main.cpp:261-328).                                             *)
THEOREM LocalsOutliveCallbacksCorrect == Spec => []LocalsOutliveCallbacks
  <1>1. LocalsInv /\ [Next]_vars => LocalsInv'
    <2> SUFFICES ASSUME LocalsInv, [Next]_vars PROVE LocalsInv'
      OBVIOUS
    <2>1. CASE UNCHANGED cliVars
      BY <2>1 DEF LocalsInv, OverlapInv, LocalsOutliveCallbacks, Quiet, cliVars, mainVars,
                  threadVars, captureVars
    <2>2. CASE UNCHANGED vars
      BY <2>1, <2>2 DEF vars
    <2>3. QED BY <2>1, <2>2, MainKeeps, InsideKeeps, EnterKeeps DEF Next
  <1>2. LocalsInv => LocalsOutliveCallbacks
    BY DEF LocalsInv
  <1>3. QED BY LocalsInit, <1>1, <1>2, PTL DEF Spec

-----------------------------------------------------------------------------
(* What a capture whose callbacks never overlap keeps.                     *)

Recs == [hub : Hubs, seq : Nat]
Held == Recs \cup {NoEvent}

CliTypeOK ==
  /\ at \in [Hubs -> Positions]
  /\ slots \in [1..MaxEvents -> Held] /\ item \in [Hubs -> Held] /\ held \in [Hubs -> Nat]
  /\ size \in Nat /\ count \in Nat
  /\ log \in Seq(Recs) /\ matches \in Seq(Recs)
  /\ Len(matches) <= Len(log) /\ Len(log) <= MaxEvents
  /\ stream \in BOOLEAN /\ (stream => written \in Seq(Held))
  /\ \A h \in Hubs : (at[h] = "print" => stream) /\ (at[h] \in {"push", "grow"} => ~stream)

(* Where main is tells whether there can be callbacks, and what there was. *)
MainInv ==
  /\ main \in {"options", "action"} =>
       /\ ~active /\ Quiet /\ log = <<>> /\ matches = <<>> /\ written = <<>>
       /\ size = 0 /\ count = 0
  /\ main \in {"exporting", "done"} => Quiet /\ ~active
  /\ main = "unwinding" => exitCode = 1

(* The first n events that matched are printed, or in the vector.          *)
Kept(n) ==
  IF stream THEN Len(written) = n /\ \A i \in 1..n : written[i] = matches[i]
            ELSE size = n /\ \A i \in 1..n : slots[i] = matches[i]

(* How far the last event that matched has come, when thread h brings it.  *)
ThreadInv(h) ==
  LET n == Len(matches) IN
  /\ at[h] # "out" => n > 0 /\ count = n - 1
  /\ at[h] \in {"print", "push"} => Kept(n - 1) /\ item[h] = matches[n]
  /\ at[h] = "grow" => held[h] = n - 1 /\ size = n - 1 /\ \A i \in 1..n : slots[i] = matches[i]
  /\ at[h] \in {"count", "store"} => Kept(n)
  /\ at[h] = "store" => held[h] = n - 1

AloneInv ==
  ~overlapped => /\ Quiet => count = Len(matches) /\ Kept(Len(matches))
                 /\ \A h \in Hubs : ThreadInv(h)

(* What makes up AskedForExported: nothing that matched is missing at the  *)
(* end, whatever the limit.                                                *)
AllExported ==
  main = "done" /\ exitCode = 0 /\ Len(log) > 0 /\ ~overlapped =>
    written = matches /\ count = Len(matches)

KeptInv == CliTypeOK /\ MainInv /\ OverlapInv /\ AloneInv /\ AllExported

LEMMA KeptInit == Init => KeptInv
<1> SUFFICES ASSUME Init PROVE KeptInv
    OBVIOUS
<1> USE CliBounds DEF Init, Engine!Init
<1>1. CliTypeOK
  <2>1. /\ at \in [Hubs -> Positions]
        /\ slots \in [1..MaxEvents -> Held] /\ item \in [Hubs -> Held] /\ held \in [Hubs -> Nat]
        /\ size \in Nat /\ count \in Nat
    BY DEF Positions, Held
  <2>2. /\ log \in Seq(Recs) /\ matches \in Seq(Recs)
        /\ Len(matches) <= Len(log) /\ Len(log) <= MaxEvents
    <3>1. log = <<>> /\ matches = <<>>
      OBVIOUS
    <3>2. Len(log) = 0 /\ Len(matches) = 0
      BY <3>1
    <3> QED
      BY <3>1, <3>2
  <2>3. stream = FALSE /\ \A h \in Hubs : at[h] = "out"
    OBVIOUS
  <2> QED
    BY <2>1, <2>2, <2>3 DEF CliTypeOK
<1>2. MainInv /\ OverlapInv /\ AllExported
  BY DEF MainInv, OverlapInv, AllExported, Quiet
<1>3. AloneInv
  <2>1. Len(matches) = 0 /\ size = 0 /\ count = 0 /\ ~stream /\ \A h \in Hubs : at[h] = "out"
    OBVIOUS
  <2> QED
    BY <2>1 DEF AloneInv, ThreadInv, Kept
<1> QED
  BY <1>1, <1>2, <1>3 DEF KeptInv

(* A step of main leaves the callbacks alone; it decides between printing  *)
(* and the vector while nothing has been captured, and writes to the       *)
(* exported file only when nothing is printed.                             *)
LEMMA AloneMain ==
  ASSUME CliTypeOK, AloneInv, UNCHANGED <<slots, size, count, threadVars>>,
         \/ UNCHANGED <<stream, written>>
         \/ ~stream /\ ~stream'
         \/ matches = <<>> /\ written' = <<>> /\ size = 0 /\ count = 0 /\ Quiet
  PROVE  AloneInv'
<1> SUFFICES ASSUME ~overlapped PROVE AloneInv'
    BY DEF AloneInv, threadVars
<1>0. UNCHANGED <<at, item, held, matches, overlapped, slots, size, count>>
  BY DEF threadVars
<1>1. CASE UNCHANGED <<stream, written>>
  BY <1>0, <1>1 DEF AloneInv, ThreadInv, Kept, Quiet
<1>2. CASE ~stream /\ ~stream'
  BY <1>0, <1>2 DEF AloneInv, ThreadInv, Kept, Quiet
<1>3. CASE matches = <<>> /\ written' = <<>> /\ size = 0 /\ count = 0 /\ Quiet
  <2>1. Len(matches) = 0 /\ Len(written') = 0
    BY <1>3
  <2>2. Kept(0)'
    BY <1>0, <1>3, <2>1 DEF Kept
  <2>3. \A h \in Hubs : at[h] = "out"
    BY <1>3 DEF Quiet
  <2> QED
    BY <1>0, <1>3, <2>1, <2>2, <2>3 DEF AloneInv, ThreadInv, Kept
<1> QED
  BY <1>1, <1>2, <1>3

LEMMA KeptMain == KeptInv /\ (MainStep \/ CtrlC) => KeptInv'
<1> SUFFICES ASSUME KeptInv, MainStep \/ CtrlC PROVE KeptInv'
    OBVIOUS
<1>0. CliTypeOK /\ MainInv /\ OverlapInv /\ AloneInv
  BY DEF KeptInv
<1>t. ASSUME UNCHANGED <<slots, size, count, threadVars, log>>, stream' \in BOOLEAN,
             stream' => written' \in Seq(Held), stream' = stream \/ Quiet
      PROVE  CliTypeOK' /\ OverlapInv'
  <2>1. UNCHANGED <<at, item, held, matches, overlapped, slots, size, count, log>>
    BY <1>t DEF threadVars
  <2>2. CliTypeOK'
    BY <1>0, <1>t, <2>1 DEF CliTypeOK, Quiet
  <2>3. OverlapInv'
    BY <1>0, <2>1 DEF OverlapInv
  <2> QED
    BY <2>2, <2>3
<1> USE DEF KeptInv
<1>1. CASE Query \/ ActionDone
  <2>1. main \in {"options", "action"} /\ main' = "done"
        /\ UNCHANGED <<slots, size, count, threadVars, log, stream, written, active>>
    BY <1>1 DEF Query, ActionDone, Exit, MainOnly, vectorVars, captureVars
  <2>2. CliTypeOK' /\ OverlapInv' /\ AloneInv'
    BY <1>0, <1>t, <2>1, AloneMain DEF CliTypeOK
  <2>3. MainInv' /\ AllExported'
    BY <1>0, <2>1 DEF MainInv, AllExported, Quiet, threadVars
  <2> QED
    BY <2>2, <2>3
<1>2. CASE RunAction \/ ActionStep
  <2>1. main \in {"options", "action"} /\ main' = "action"
        /\ UNCHANGED <<slots, size, count, threadVars, log, stream, written, active>>
    BY <1>2 DEF RunAction, ActionStep, MainOnly, cliVars, mainVars, vectorVars, captureVars
  <2>2. CliTypeOK' /\ OverlapInv' /\ AloneInv'
    BY <1>0, <1>t, <2>1, AloneMain DEF CliTypeOK
  <2>3. MainInv' /\ AllExported'
    BY <1>0, <2>1 DEF MainInv, AllExported, Quiet, threadVars
  <2> QED
    BY <2>2, <2>3
<1>3. CASE StartCapture \/ ReserveFails
  <2>1. /\ main = "options" /\ main' \in {"starting", "killed"} /\ stream' \in BOOLEAN
        /\ UNCHANGED <<slots, size, count, threadVars, log, written>>
    BY <1>3 DEF StartCapture, ReserveFails, Engine!Begin, vectorVars, captureVars
  <2>2. /\ Quiet /\ log = <<>> /\ matches = <<>> /\ written = <<>> /\ size = 0 /\ count = 0
    BY <1>0, <2>1 DEF MainInv
  <2>3. CliTypeOK' /\ OverlapInv' /\ AloneInv'
    BY <1>0, <1>t, <2>1, <2>2, AloneMain
  <2>4. MainInv' /\ AllExported'
    BY <2>1 DEF MainInv, AllExported
  <2> QED
    BY <2>3, <2>4
<1>4. CASE Started \/ Refused \/ Poll
  <2>1. /\ main' \in {"polling", "unwinding", "stopping"} /\ (main' = "unwinding" => exitCode' = 1)
        /\ UNCHANGED <<slots, size, count, threadVars, log, stream, written>>
    BY <1>4 DEF Started, Refused, Poll, MainOnly, vectorVars, captureVars
  <2>2. CliTypeOK' /\ OverlapInv' /\ AloneInv'
    BY <1>0, <1>t, <2>1, AloneMain DEF CliTypeOK
  <2>3. MainInv' /\ AllExported'
    BY <2>1 DEF MainInv, AllExported
  <2> QED
    BY <2>2, <2>3
<1>5. CASE EngineDestroyed \/ StopReturns
  <2>1. /\ Quiet /\ ~active' /\ UNCHANGED <<slots, size, count, threadVars, log, stream, written, exitCode>>
        /\ \/ main = "unwinding" /\ main' = "done"
           \/ main' = "exporting"
    BY <1>5 DEF EngineDestroyed, StopReturns, MainOnly, vectorVars, Engine!End
  <2>2. CliTypeOK' /\ OverlapInv' /\ AloneInv'
    BY <1>0, <1>t, <2>1, AloneMain DEF CliTypeOK
  <2>3. MainInv'
    BY <2>1 DEF MainInv, Quiet, threadVars
  <2>4. AllExported'
    BY <1>0, <2>1 DEF MainInv, AllExported
  <2> QED
    BY <2>2, <2>3, <2>4
<1>6. CASE Export
  <2>1. /\ main = "exporting" /\ main' = "done"
        /\ UNCHANGED <<slots, size, count, threadVars, log, stream, active>>
        /\ \/ written' = written /\ (exitCode' = 1 \/ stream)
           \/ ~stream /\ written' = SubSeq(slots, 1, size)
    BY <1>6 DEF Export, MainOnly, vectorVars, captureVars
  <2>2. CliTypeOK' /\ OverlapInv'
    BY <1>0, <1>t, <2>1 DEF CliTypeOK
  <2>3. AloneInv'
    BY <1>0, <2>1, AloneMain
  <2>4. Quiet /\ MainInv'
    BY <1>0, <2>1 DEF MainInv, Quiet, threadVars
  <2>5. ASSUME ~overlapped, exitCode' = 0 PROVE written' = matches /\ count = Len(matches)
    <3>1. count = Len(matches) /\ Kept(Len(matches)) /\ matches \in Seq(Recs) /\ Len(matches) <= MaxEvents
      <4>1. count = Len(matches) /\ Kept(Len(matches))
        BY <1>0, <2>4, <2>5, Zenon DEF AloneInv
      <4> QED
        BY <1>0, <4>1, CliBounds DEF CliTypeOK
    <3>2. CASE stream
      <4>1. written' = written /\ written \in Seq(Held) /\ matches \in Seq(Held)
        BY <1>0, <2>1, <3>1, <3>2 DEF CliTypeOK, Held
      <4>2. Len(written) = Len(matches) /\ \A i \in 1..Len(matches) : written[i] = matches[i]
        BY <3>1, <3>2 DEF Kept
      <4>3. written = matches
        BY <4>1, <4>2, SeqEqual
      <4> QED
        BY <3>1, <4>1, <4>3
    <3>3. CASE ~stream
      <4>1. written' = SubSeq(slots, 1, size)
        BY <2>1, <2>5, <3>3
      <4>2. size = Len(matches) /\ \A i \in 1..Len(matches) : slots[i] = matches[i]
        BY <3>1, <3>3 DEF Kept
      <4>3. slots \in Seq(Held) /\ Len(slots) = MaxEvents /\ matches \in Seq(Held)
        <5>1. slots \in [1..MaxEvents -> Held] /\ MaxEvents \in Nat
          BY <1>0, CliBounds DEF CliTypeOK
        <5>2. slots \in Seq(Held)
          BY <5>1
        <5>3. Len(slots) = MaxEvents
          <6>1. DOMAIN slots = 1..Len(slots) /\ Len(slots) \in Nat
            BY <5>2, LenProperties
          <6>2. 1..Len(slots) = 1..MaxEvents
            BY <5>1, <6>1
          <6> QED
            BY <5>1, <6>1, <6>2
        <5> QED
          BY <3>1, <5>2, <5>3 DEF Held
      <4>4. /\ SubSeq(slots, 1, size) \in Seq(Held) /\ Len(SubSeq(slots, 1, size)) = size
            /\ \A i \in 1..size : SubSeq(slots, 1, size)[i] = slots[i]
        BY <3>1, <4>2, <4>3
      <4>5. SubSeq(slots, 1, size) = matches
        BY <4>2, <4>3, <4>4, SeqEqual
      <4> QED
        BY <3>1, <4>1, <4>5
    <3> QED
      BY <3>2, <3>3
  <2>6. AllExported'
    BY <2>1, <2>5 DEF AllExported, threadVars
  <2> QED
    BY <2>2, <2>3, <2>4, <2>6
<1>7. CASE CtrlC
  <2>1. /\ main # "done" /\ main' \in {main, "killed"}
        /\ UNCHANGED <<slots, size, count, threadVars, log, stream, written, active, exitCode>>
    BY <1>7 DEF CtrlC, vectorVars, captureVars
  <2>2. CliTypeOK' /\ OverlapInv' /\ AloneInv'
    BY <1>0, <1>t, <2>1, AloneMain DEF CliTypeOK
  <2>3. MainInv' /\ AllExported'
    BY <1>0, <2>1 DEF MainInv, AllExported, Quiet, threadVars
  <2> QED
    BY <2>2, <2>3
<1> QED
  BY <1>1, <1>2, <1>3, <1>4, <1>5, <1>6, <1>7 DEF MainStep

(* The engine delivers an event, and thread h may take it up.              *)
LEMMA KeptEnter == ASSUME KeptInv, NEW h \in Hubs, Enter(h) PROVE KeptInv'
<1> DEFINE e == [hub |-> h, seq |-> Len(log)]
           n == Len(matches)
<1>0. CliTypeOK /\ MainInv /\ OverlapInv /\ AloneInv /\ AllExported
  BY DEF KeptInv
<1>1. /\ active /\ active' = active /\ at[h] = "out" /\ Len(log) < MaxEvents
      /\ log' = Append(log, e) /\ UNCHANGED <<mainVars, vectorVars, count>>
  BY DEF Enter, Engine!Deliver
<1>2. log \in Seq(Recs) /\ Len(log) \in Nat /\ e \in Recs
  BY <1>0 DEF CliTypeOK, Recs
<1>3. log' \in Seq(Recs) /\ Len(log') = Len(log) + 1 /\ Len(log') <= MaxEvents
  BY <1>1, <1>2, CliBounds
<1>4. /\ main \notin {"options", "action", "exporting", "done"} /\ main' = main
      /\ MainInv' /\ AllExported'
  BY <1>0, <1>1 DEF MainInv, AllExported, mainVars
<1>5. CASE UNCHANGED threadVars
  <2>1. CliTypeOK' /\ OverlapInv'
    BY <1>0, <1>1, <1>3, <1>5 DEF CliTypeOK, OverlapInv, threadVars, mainVars, vectorVars
  <2>2. AloneInv'
    BY <1>0, <1>1, <1>5, AloneMain, Zenon DEF mainVars, vectorVars
  <2> QED
    BY <1>4, <2>1, <2>2 DEF KeptInv
<1>6. ASSUME /\ To(h, IF stream THEN "print" ELSE "push") /\ item' = [item EXCEPT ![h] = e]
             /\ matches' = Append(matches, e) /\ overlapped' = (overlapped \/ ~Quiet)
             /\ held' = held
      PROVE  KeptInv'
  <2>0. UNCHANGED <<stream, written, slots, size, count>>
    BY <1>1 DEF mainVars, vectorVars
  <2>1. /\ matches' \in Seq(Recs) /\ Len(matches') = n + 1 /\ n \in Nat
        /\ matches'[n + 1] = e /\ \A i \in 1..n : matches'[i] = matches[i]
    BY <1>0, <1>2, <1>6 DEF CliTypeOK
  <2>2. CliTypeOK'
    <3>1. /\ at' \in [Hubs -> Positions] /\ item' \in [Hubs -> Held]
          /\ \A g \in Hubs : (at'[g] = "print" => stream') /\ (at'[g] \in {"push", "grow"} => ~stream')
      BY <1>0, <1>2, <1>6, <2>0 DEF CliTypeOK, To, Positions, Held
    <3>2. Len(matches') <= Len(log')
      BY <1>0, <1>2, <1>3, <2>1 DEF CliTypeOK
    <3> QED
      BY <1>0, <1>3, <1>6, <2>0, <2>1, <3>1, <3>2 DEF CliTypeOK
  <2>3. OverlapInv'
    BY <1>0, <1>6 DEF CliTypeOK, OverlapInv, To, Quiet
  <2>4. ASSUME ~overlapped' PROVE AloneInv'
    <3>1. ~overlapped /\ Quiet
      BY <1>6, <2>4
    <3>2. count = n /\ Kept(n)
      BY <1>0, <3>1, Zenon DEF AloneInv
    <3>3. /\ \A g \in Hubs \ {h} : at'[g] = "out"
          /\ at'[h] = (IF stream THEN "print" ELSE "push")
      BY <1>0, <1>6, <3>1 DEF CliTypeOK, To, Quiet
    <3>4. item'[h] = e
      BY <1>0, <1>6 DEF CliTypeOK
    <3>5. Len(matches') - 1 = n
      BY <2>1
    <3>6. IF stream' THEN Len(written') = n /\ \A i \in 1..n : written'[i] = matches'[i]
                     ELSE size' = n /\ \A i \in 1..n : slots'[i] = matches'[i]
      BY <2>0, <2>1, <3>2 DEF Kept
    <3>7. ~Quiet'
      BY <3>3 DEF Quiet
    <3>8. ThreadInv(h)'
      BY <2>0, <2>1, <3>2, <3>3, <3>4, <3>5, <3>6 DEF ThreadInv, Kept
    <3>9. \A g \in Hubs \ {h} : ThreadInv(g)'
      BY <3>3 DEF ThreadInv
    <3> QED
      BY <3>7, <3>8, <3>9, Zenon DEF AloneInv
  <2> QED
    BY <1>4, <2>2, <2>3, <2>4 DEF KeptInv, AloneInv
<1> QED
  BY <1>5, <1>6, Zenon DEF Enter

(* The callback of thread h goes on.                                       *)
LEMMA KeptInside == ASSUME KeptInv, NEW h \in Hubs, Inside(h) PROVE KeptInv'
<1> DEFINE n == Len(matches)
<1>0. CliTypeOK /\ MainInv /\ OverlapInv /\ AloneInv /\ AllExported
  BY DEF KeptInv
<1>1. /\ at[h] # "out"
      /\ UNCHANGED <<active, log, main, stream, exitCode, matches, overlapped, item>>
      /\ \E position \in Positions :
            To(h, position) /\ (position = "grow" => at[h] = "push") /\ position \notin {"print", "push"}
  BY DEF Inside, PrintLine, Push, Reallocate, Grow, LoadCount, StoreCount, mainVars, captureVars, Positions
<1>2. main \notin {"options", "action", "exporting", "done"}
  BY <1>0, <1>1 DEF MainInv, Quiet
<1>3. MainInv' /\ AllExported'
  BY <1>0, <1>1, <1>2 DEF MainInv, AllExported
<1>4. OverlapInv'
  BY <1>0, <1>1 DEF CliTypeOK, OverlapInv, To
<1>5. CliTypeOK'
  <2>1. /\ at' \in [Hubs -> Positions]
        /\ \A g \in Hubs : (at'[g] = "print" => stream') /\ (at'[g] \in {"push", "grow"} => ~stream')
    BY <1>0, <1>1 DEF CliTypeOK, To
  <2>2. slots' \in [1..MaxEvents -> Held]
    <3>1. item[h] \in Held /\ NoEvent \in Held
      BY <1>0 DEF CliTypeOK, Held
    <3>2. slots \in [1..MaxEvents -> Held] /\ DOMAIN slots = 1..MaxEvents
      BY <1>0 DEF CliTypeOK
    <3>3. \/ slots' = slots
          \/ slots' = [slots EXCEPT ![size + 1] = item[h]]
          \/ slots' = [i \in DOMAIN slots |-> IF i <= size THEN slots[i] ELSE
                                              IF i = size + 1 THEN item[h] ELSE NoEvent]
      BY DEF Inside, PrintLine, Push, Reallocate, Grow, LoadCount, StoreCount, vectorVars
    <3> QED
      BY <3>1, <3>2, <3>3
  <2>3. held' \in [Hubs -> Nat] /\ size' \in Nat /\ count' \in Nat
    <3>1. held \in [Hubs -> Nat] /\ size \in Nat /\ count \in Nat /\ held[h] \in Nat
      BY <1>0 DEF CliTypeOK
    <3>2. /\ \/ held' = held
             \/ held' = [held EXCEPT ![h] = size]
             \/ held' = [held EXCEPT ![h] = count]
          /\ size' \in {size, held[h] + 1, size + 1} /\ count' \in {count, held[h] + 1}
      BY DEF Inside, PrintLine, Push, Reallocate, Grow, LoadCount, StoreCount, vectorVars, mainVars
    <3> QED
      BY <3>1, <3>2
  <2>4. stream' => written' \in Seq(Held)
    <3>1. item[h] \in Held
      BY <1>0 DEF CliTypeOK
    <3>2. written' = written \/ written' = Append(written, item[h])
      BY DEF Inside, PrintLine, Push, Reallocate, Grow, LoadCount, StoreCount, mainVars
    <3>3. stream' = stream /\ (stream => written \in Seq(Held))
      BY <1>0, <1>1 DEF CliTypeOK
    <3>4. written \in Seq(Held) => written' \in Seq(Held)
      BY <3>1, <3>2
    <3> QED
      BY <3>3, <3>4, Zenon
  <2> QED
    BY <1>0, <1>1, <2>1, <2>2, <2>3, <2>4 DEF CliTypeOK
<1>6. ASSUME ~overlapped PROVE AloneInv'
  <2>0. /\ ThreadInv(h) /\ n > 0 /\ n \in Nat /\ count = n - 1 /\ n <= MaxEvents
    <3>1. ThreadInv(h)
      BY <1>0, <1>6, Zenon DEF AloneInv
    <3> QED
      BY <1>0, <1>1, <3>1, CliBounds DEF ThreadInv, CliTypeOK
  <2>1. \A g \in Hubs \ {h} : at[g] = "out"
    BY <1>0, <1>1, <1>6 DEF OverlapInv
  <2>2. \A g \in Hubs \ {h} : ThreadInv(g)'
    <3>1. \A g \in Hubs \ {h} : at'[g] = "out"
      BY <1>0, <1>1, <2>1 DEF CliTypeOK, To
    <3> QED
      BY <3>1 DEF ThreadInv
  <2>3. ASSUME ThreadInv(h)', at'[h] # "out" PROVE AloneInv'
    <3>1. ~Quiet'
      BY <2>3 DEF Quiet
    <3> QED
      BY <2>2, <2>3, <3>1, Zenon DEF AloneInv
  <2>i. \A i \in 1..n : i \in 1..(n - 1) \/ i = n
    BY <2>0
  <2>s. n \in 1..MaxEvents /\ (n - 1) + 1 = n /\ matches' = matches /\ stream' = stream
    BY <1>1, <2>0, CliBounds
  <2>4. CASE PrintLine(h)
    <3>1. at[h] = "print" /\ stream /\ written' = Append(written, item[h]) /\ at'[h] = "count" /\ count' = count
      BY <1>0, <2>4 DEF PrintLine, To, CliTypeOK
    <3>2. Kept(n - 1) /\ item[h] = matches[n] /\ written \in Seq(Held)
      BY <1>0, <2>0, <3>1 DEF ThreadInv, CliTypeOK
    <3>3. Len(written) = n - 1 /\ \A i \in 1..(n - 1) : written[i] = matches[i]
      BY <3>1, <3>2 DEF Kept
    <3>4. Len(written') = n /\ \A i \in 1..n : written'[i] = matches[i]
      BY <2>0, <2>i, <3>1, <3>2, <3>3
    <3>5. ThreadInv(h)'
      BY <2>0, <2>s, <3>1, <3>4 DEF ThreadInv, Kept
    <3> QED
      BY <2>3, <3>1, <3>5
  <2>5. CASE Push(h) \/ Reallocate(h)
    <3>1. /\ at[h] = "push" /\ ~stream /\ at'[h] = "grow" /\ held'[h] = size /\ size' = size /\ count' = count
          /\ \/ slots' = [slots EXCEPT ![size + 1] = item[h]]
             \/ slots' = [i \in DOMAIN slots |-> IF i <= size THEN slots[i] ELSE
                                                 IF i = size + 1 THEN item[h] ELSE NoEvent]
      BY <1>0, <2>5 DEF Push, Reallocate, To, CliTypeOK
    <3>2. Kept(n - 1) /\ item[h] = matches[n] /\ DOMAIN slots = 1..MaxEvents
      BY <1>0, <2>0, <3>1 DEF ThreadInv, CliTypeOK
    <3>3. size = n - 1 /\ \A i \in 1..(n - 1) : slots[i] = matches[i]
      BY <3>1, <3>2 DEF Kept
    <3>4. size + 1 = n /\ \A i \in 1..(n - 1) : i <= size /\ i # n /\ i \in 1..MaxEvents
      BY <2>0, <3>3, CliBounds
    <3>5. \A i \in 1..n : slots'[i] = matches[i]
      <4>1. size + 1 = n /\ n \in DOMAIN slots /\ ~(n <= size)
        BY <2>0, <2>s, <3>2, <3>3
      <4>2. slots'[n] = item[h]
        BY <3>1, <4>1
      <4>3. ASSUME NEW i \in 1..(n - 1) PROVE slots'[i] = slots[i]
        <5>1. i <= size /\ i # n /\ i \in DOMAIN slots
          BY <3>2, <3>4
        <5> QED
          BY <3>1, <4>1, <5>1
      <4> QED
        BY <2>i, <3>2, <3>3, <4>2, <4>3
    <3>6. ThreadInv(h)'
      BY <2>0, <2>s, <3>1, <3>3, <3>5 DEF ThreadInv, Kept
    <3> QED
      BY <2>3, <3>1, <3>6
  <2>6. CASE Grow(h)
    <3>1. /\ at[h] = "grow" /\ ~stream /\ at'[h] = "count" /\ size' \in {held[h] + 1, size + 1}
          /\ UNCHANGED <<slots, count>>
      BY <1>0, <2>6 DEF Grow, To, CliTypeOK
    <3>2. held[h] = n - 1 /\ size = n - 1 /\ \A i \in 1..n : slots[i] = matches[i]
      BY <2>0, <3>1 DEF ThreadInv
    <3>3. size' = n
      BY <2>0, <3>1, <3>2
    <3>4. ThreadInv(h)'
      BY <2>0, <2>s, <3>1, <3>2, <3>3 DEF ThreadInv, Kept
    <3> QED
      BY <2>3, <3>1, <3>4
  <2>7. CASE LoadCount(h)
    <3>1. /\ at[h] = "count" /\ at'[h] = "store" /\ held'[h] = count
          /\ UNCHANGED <<slots, size, count, written>>
      BY <1>0, <2>7 DEF LoadCount, To, CliTypeOK, vectorVars, mainVars
    <3>2. Kept(n)
      BY <2>0, <3>1 DEF ThreadInv
    <3>3. ThreadInv(h)'
      BY <2>0, <2>s, <3>1, <3>2 DEF ThreadInv, Kept
    <3> QED
      BY <2>3, <3>1, <3>3
  <2>8. CASE StoreCount(h)
    <3>1. /\ at[h] = "store" /\ at'[h] = "out" /\ count' = held[h] + 1
          /\ UNCHANGED <<slots, size, written>>
      BY <1>0, <2>8 DEF StoreCount, To, CliTypeOK, vectorVars
    <3>2. Kept(n) /\ held[h] = n - 1
      BY <2>0, <3>1 DEF ThreadInv
    <3>3. count' = n
      BY <2>0, <3>1, <3>2
    <3>4. Kept(n)' /\ ThreadInv(h)'
      BY <2>s, <3>1, <3>2 DEF ThreadInv, Kept
    <3>5. Len(matches') = n
      BY <2>s
    <3> QED
      BY <2>2, <2>s, <3>3, <3>4, <3>5 DEF AloneInv
  <2> QED
    BY <2>4, <2>5, <2>6, <2>7, <2>8 DEF Inside
<1>7. AloneInv'
  BY <1>1, <1>6 DEF AloneInv
<1> QED
  BY <1>3, <1>4, <1>5, <1>7 DEF KeptInv

(* The limit is set with the other options and stays.                      *)
LimitOK == limit \in Nat

LEMMA LimitKeeps == LimitOK /\ [Next]_vars => LimitOK'
<1> SUFFICES ASSUME limit \in Nat, [Next]_vars PROVE limit' \in Nat
    BY DEF LimitOK
<1>1. limit' = limit \/ limit' \in Limits
  <2>1. CASE Query \/ RunAction \/ ActionDone \/ Started \/ Refused \/ EngineDestroyed \/ Poll
             \/ StopReturns \/ Export
    BY <2>1 DEF Query, RunAction, ActionDone, Started, Refused, EngineDestroyed, Poll,
       StopReturns, Export, Exit, MainOnly
  <2>2. CASE ActionStep \/ UNCHANGED cliVars
    BY <2>2 DEF ActionStep, cliVars, mainVars
  <2>3. CASE StartCapture \/ ReserveFails \/ CtrlC
    BY <2>3 DEF StartCapture, ReserveFails, CtrlC
  <2>4. ASSUME NEW h \in Hubs, Enter(h) \/ Inside(h) PROVE limit' = limit
    BY <2>4 DEF Enter, Inside, PrintLine, Push, Reallocate, Grow, LoadCount, StoreCount, mainVars
  <2>5. CASE UNCHANGED vars
    BY <2>5, <2>2 DEF vars
  <2> QED
    BY <2>1, <2>2, <2>3, <2>4, <2>5 DEF Next, MainStep
<1> QED
  BY <1>1, CliBounds

(* A capture whose callbacks never overlap, as with one hub, exports the   *)
(* matching events from the first on, once and in order, at least as many  *)
(* as were asked for, and reports how many (cli/src/main.cpp:261-356),     *)
(* whatever the limit and the vector's growth.                             *)
THEOREM AskedForExportedCorrect == Spec => []AskedForExported
<1>1. KeptInv /\ [Next]_vars => KeptInv'
  <2> SUFFICES ASSUME KeptInv, [Next]_vars PROVE KeptInv'
    OBVIOUS
  <2>1. CASE UNCHANGED cliVars
    <3>1. UNCHANGED <<active, main, stream, written, exitCode, slots, size, count, log, threadVars>>
      BY <2>1 DEF cliVars, mainVars, vectorVars, captureVars
    <3>2. AloneInv'
      BY <3>1, AloneMain DEF KeptInv
    <3>3. CliTypeOK' /\ OverlapInv'
      BY <3>1 DEF KeptInv, CliTypeOK, OverlapInv, threadVars
    <3>4. MainInv' /\ AllExported'
      BY <3>1 DEF KeptInv, MainInv, AllExported, Quiet, threadVars
    <3> QED
      BY <3>2, <3>3, <3>4 DEF KeptInv
  <2>2. CASE UNCHANGED vars
    BY <2>1, <2>2 DEF vars
  <2> QED
    BY <2>1, <2>2, KeptMain, KeptInside, KeptEnter DEF Next
<1>2. KeptInv /\ LimitOK => AskedForExported
  <2> SUFFICES ASSUME KeptInv, LimitOK, main = "done", exitCode = 0, Len(log) > 0, ~overlapped
               PROVE  /\ written = SubSeq(matches, 1, Len(written))
                      /\ Asked <= Len(written) /\ count = Len(written)
    BY DEF AskedForExported
  <2>1. written = matches /\ count = Len(matches)
    BY DEF KeptInv, AllExported
  <2>2. matches \in Seq(Recs) /\ Len(matches) \in Nat
    BY DEF KeptInv, CliTypeOK
  <2>3. Asked <= Len(matches)
    <3>1. CASE limit = 0 \/ limit > Len(matches)
      BY <2>2, <3>1 DEF Asked
    <3>2. CASE ~(limit = 0 \/ limit > Len(matches))
      BY <2>2, <3>2 DEF Asked, LimitOK
    <3> QED
      BY <3>1, <3>2
  <2>4. SubSeq(matches, 1, Len(matches)) = matches
    BY <2>2
  <2> QED
    BY <2>1, <2>3, <2>4
<1>3. Init => LimitOK
  BY DEF Init, LimitOK
<1> QED
  BY KeptInit, LimitKeeps, <1>1, <1>2, <1>3, PTL DEF Spec
=============================================================================
