---------------------------- MODULE MC_HostGate ----------------------------
(* Small instances of HostGate. *)
EXTENDS HostGate

Gate(threshold, open, probe, max) ==
  [failureThreshold |-> threshold, openMs |-> open,
   halfOpenProbes |-> probe, maxConcurrent |-> max]

OneSetting == {Gate(2, 2, 1, 2)}
TwoSettings == {Gate(2, 2, 1, 2), Gate(2, 1, 2, 3)}
=============================================================================
