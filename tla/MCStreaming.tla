---------------------------- MODULE MCStreaming ----------------------------
(* One excluded table, two for the workers, three for the traversal thread: *)
(* an aggregate table, one without rows, one reserved in vain.              *)
EXTENDS Streaming

CONSTANTS te, tf, tg, ta, ts, tv, w1, w2

MCChunks == [t \in Tables |-> IF t \in {ta, tf} THEN 1 ELSE 0]
MCFull == <<tf, tg>>
MCTurn == [w \in Workers |-> IF w = w1 THEN 1 ELSE 2]
MCSpare == <<tv>>

ASSUME InstanceAssumption == EachOnce
=============================================================================
