------------------------------ MODULE SerialStore ------------------------------
(***************************************************************************)
(* What the SQLite Writer promises to the processes that send it           *)
(* mutations.  A request takes effect at one instant, as a whole, at most  *)
(* once.  The answer "ok" is given only after that instant, "failed" only  *)
(* when it will never come.  The answers "unknown" (WRITER_RESULT_UNKNOWN) *)
(* and "unavailable" (WRITER_UNAVAILABLE) promise nothing: the request may *)
(* have taken effect, or take effect later.                                *)
(***************************************************************************)
EXTENDS Naturals

CONSTANTS
  Requests,  \* the mutations that are sent
  Size,      \* how many statements a request has
  File,      \* the migration file a request applies, or NoFile
  NoFile

VARIABLES
  db,        \* the effects that are in the database: <<request, statement>>
  fate,      \* whether a request has been decided
  verdict    \* the answer its sender has

storeVars == <<db, fate, verdict>>

Rows(r) == {<<r, i>> : i \in 1 .. Size[r]}
Twin(r, s) == File[r] = File[s] /\ File[r] # NoFile

Init ==
  /\ db = {}
  /\ fate = [r \in Requests |-> "open"]
  /\ verdict = [r \in Requests |-> "unsent"]

Send(r) ==
  /\ verdict[r] = "unsent"
  /\ verdict' = [verdict EXCEPT ![r] = "waiting"]
  /\ UNCHANGED <<db, fate>>

\* A migration that is already recorded is not applied again.
Apply(r) ==
  /\ verdict[r] # "unsent" /\ fate[r] = "open"
  /\ db' = IF \E s \in Requests : Twin(r, s) /\ <<s, Size[s]>> \in db
           THEN db
           ELSE db \cup Rows(r)
  /\ fate' = [fate EXCEPT ![r] = "applied"]
  /\ UNCHANGED verdict

Refuse(r) ==
  /\ verdict[r] # "unsent" /\ fate[r] = "open"
  /\ fate' = [fate EXCEPT ![r] = "refused"]
  /\ UNCHANGED <<db, verdict>>

Answer(r) ==
  /\ verdict[r] = "waiting"
  /\ \E v \in {"ok", "failed", "unknown", "unavailable"} :
       /\ v = "ok" => fate[r] = "applied"
       /\ v = "failed" => fate[r] = "refused"
       /\ verdict' = [verdict EXCEPT ![r] = v]
  /\ UNCHANGED <<db, fate>>

\* The Writer cannot be reached: the request never leaves its sender.
Bounce(r) ==
  /\ verdict[r] = "unsent"
  /\ verdict' = [verdict EXCEPT ![r] = "unavailable"]
  /\ fate' = [fate EXCEPT ![r] = "refused"]
  /\ UNCHANGED db

Next == \E r \in Requests : Send(r) \/ Apply(r) \/ Refuse(r) \/ Answer(r)
                            \/ Bounce(r)

Spec == Init /\ [][Next]_storeVars
=============================================================================
