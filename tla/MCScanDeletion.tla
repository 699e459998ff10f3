---------------------------- MODULE MCScanDeletion ----------------------------
(* Small instances of ScanDeletion for TLC. *)
EXTENDS ScanDeletion

CONSTANTS s1, dast, dyn, q1, q2

OneScan == {s1}
TwoChildren == {dast, dyn}
OneDynamic == {dyn}
OfOneScan == [c \in {dast, dyn} |-> s1]
TwoRequests == {q1, q2}
ScanThenAny == [q \in {q1, q2} |-> IF q = q1 THEN {s1} ELSE {s1, Project}]
=============================================================================
