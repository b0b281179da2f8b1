---------------------------- MODULE TableStream ----------------------------
(***************************************************************************)
(* What the reader of a server's stream may rely on, be it an import or an *)
(* export: each table arrives in order and once, interleaved with others   *)
(* at will, and the stream is called complete only when all has arrived.   *)
(***************************************************************************)
EXTENDS Naturals, Sequences

CONSTANTS
  Tables,
  Content  \* the messages of each table

VARIABLES
  got,     \* what has arrived of each table
  status   \* "open", "complete", or "left" by its reader

vars == <<got, status>>

Init == got = [t \in Tables |-> << >>] /\ status = "open"

Deliver(t) ==
  /\ status = "open" /\ Len(got[t]) < Len(Content[t])
  /\ got' = [got EXCEPT ![t] = Append(@, Content[t][Len(@) + 1])]
  /\ UNCHANGED status

Complete ==
  /\ status = "open" /\ got = [t \in Tables |-> Content[t]]
  /\ status' = "complete"
  /\ UNCHANGED got

\* The reader goes away, or the stream ends without being complete.
Leave == status \in {"open", "complete"} /\ status' = "left" /\ UNCHANGED got

Next == Complete \/ Leave \/ \E t \in Tables : Deliver(t)

Spec == Init /\ [][Next]_vars
=============================================================================
