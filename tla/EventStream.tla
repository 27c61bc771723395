---------------------------- MODULE EventStream -----------------------------
(***************************************************************************)
(* What the capture engine promises to the code that registered a          *)
(* callback: the events of one capture, and only while a capture is        *)
(* active.  Sequence numbers are unique in a capture and those of one hub  *)
(* arrive in increasing order.  Nothing is promised about the order of     *)
(* events of different hubs.                                               *)
(***************************************************************************)
EXTENDS Integers, Sequences

CONSTANT Hubs

VARIABLES
  active,  (* a capture has been started and not yet reported stopped       *)
  log      (* the events delivered in this capture                          *)

streamSpecVars == <<active, log>>

Init == active = FALSE /\ log = <<>>

(* The log of the last capture is discarded, between captures.             *)
Clear == ~active /\ log' = <<>> /\ UNCHANGED active

Begin == ~active /\ active' = TRUE /\ UNCHANGED log

(* A number that no event of this capture has, and that is larger than     *)
(* every number this hub has used.                                         *)
Fresh(h, n) ==
  \A i \in DOMAIN log : log[i].seq # n /\ (log[i].hub = h => log[i].seq < n)

Deliver(h, n) ==
  /\ active
  /\ Fresh(h, n)
  /\ log' = Append(log, [hub |-> h, seq |-> n])
  /\ UNCHANGED active

End == active /\ active' = FALSE /\ UNCHANGED log

(* The number of an event is the one it carries: no number is invented.    *)
DeliverSome ==
  /\ Len(log') > 0
  /\ LET e == log'[Len(log')] IN e.hub \in Hubs /\ e.seq \in Nat /\ Deliver(e.hub, e.seq)

Next == Clear \/ Begin \/ DeliverSome \/ End

Spec == Init /\ [][Next]_streamSpecVars
=============================================================================
