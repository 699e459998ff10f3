--------------------------- MODULE MCScanSupervisor ---------------------------
(* Small instances of ScanSupervisor for TLC. *)
EXTENDS ScanSupervisor, TLC

CONSTANTS s1, s2, l1, l2, c1

OneScan == {s1}
TwoScans == {s1, s2}
OneLaunch == {l1}
TwoLaunches == {l1, l2}
OneCommand == {c1}
LaunchSymmetry == Permutations(TwoLaunches)
\* The commands are first at the gate
CommandsFirst == \A c \in Commands, s \in Scans : req[c] = "idle" => status[s] = "none"
=============================================================================
