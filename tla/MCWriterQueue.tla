---------------------------- MODULE MCWriterQueue ----------------------------
(* A small instance of WriterQueue for TLC: a statement and a migration that *)
(* is sent twice.  A batch takes the steps of a migration of its size.       *)
EXTENDS WriterQueue

CONSTANTS e1, m1, m2, f1, v1

StatementAndMigrations == {e1, m1, m2}

KindOf == [r \in Requests |-> IF r = e1 THEN "execute" ELSE "admin_migrate"]
SizeOf == [r \in Requests |-> IF r = e1 THEN 1 ELSE 2]
FileOf == [r \in Requests |-> IF r = e1 THEN NoFile ELSE f1]
SameSum == [r \in Requests |-> v1]
=============================================================================
