--------------------------- MODULE MCWriterElection ---------------------------
(* Small instances of WriterElection for TLC. *)
EXTENDS WriterElection

CONSTANTS c1, c2, w1, w2, w3, w4, w5

OneClient == {c1}
TwoClients == {c1, c2}
Nobody == {}
ThreeWriters == {w1, w2, w3}
FourWriters == {w1, w2, w3, w4}
FiveWriters == {w1, w2, w3, w4, w5}
=============================================================================
