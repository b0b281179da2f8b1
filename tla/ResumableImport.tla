--------------------------- MODULE ResumableImport ---------------------------
(***************************************************************************)
(* What `jibs import` promises about its progress: tables are completed    *)
(* one at a time, progress survives a run that stops, a run succeeds only  *)
(* once every table is complete, and only --clean throws progress away.    *)
(***************************************************************************)
CONSTANT Tables

VARIABLES
  done,   \* tables recorded as complete
  status  \* "idle", "running", "wrapped" (all recorded work done), "succeeded"

vars == <<done, status>>

Init == done = {} /\ status = "idle"

Start == status = "idle" /\ status' = "running" /\ UNCHANGED done

CompleteTable(t) ==
  /\ status = "running" /\ t \notin done
  /\ done' = done \cup {t}
  /\ UNCHANGED status

Stop == status = "running" /\ status' = "idle" /\ UNCHANGED done

Discard == status = "idle" /\ done' = {} /\ UNCHANGED status

\* Every table is complete: the record is not needed any more.
WrapUp == status = "running" /\ done = Tables /\ status' = "wrapped" /\ done' = {}

\* The last message to the server goes out, or fails to.
Finish == status = "wrapped" /\ status' \in {"succeeded", "idle"} /\ UNCHANGED done

Next ==
  \/ Start \/ Stop \/ Discard \/ WrapUp \/ Finish
  \/ \E t \in Tables : CompleteTable(t)

Spec == Init /\ [][Next]_vars
=============================================================================
