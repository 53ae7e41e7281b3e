---------------------------- MODULE MCTelemetry -----------------------------
(* Small instances of Telemetry for TLC: see the .cfg files. *)
EXTENDS Telemetry, TLC

DeliverySymmetry == Permutations(Deliveries)
=============================================================================
