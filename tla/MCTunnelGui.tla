---------------------------- MODULE MCTunnelGui ----------------------------
(* TunnelGui on small sets of workers.                                     *)
EXTENDS TunnelGui, TLC

\* Sound for the safety runs: Workers are only compared for equality.
WorkerSymmetry == Permutations(Workers)

=============================================================================
