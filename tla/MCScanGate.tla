---------------------------- MODULE MCScanGate ----------------------------
(* Small instances of ScanGate for TLC.                                    *)
EXTENDS ScanGate, TLC

WorkerSymmetry == Permutations(Scanners)
===========================================================================
