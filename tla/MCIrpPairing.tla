---------------------------- MODULE MCIrpPairing ----------------------------
(* Instances of IrpPairing for TLC: one tick is one second.                *)
EXTENDS IrpPairing, TLC

MCTimes == 0..6
MCU64 == 100

MCSymmetry == Permutations(Irps)
=============================================================================
