-------------------------- MODULE MCMegolmOutbound --------------------------
(* Small instances of MegolmOutbound.  Devices and calls are               *)
(* interchangeable; the runs of safety properties use that.                *)
EXTENDS MegolmOutbound, TLC

Symmetry == Permutations(Device) \cup Permutations(Call)
=============================================================================
