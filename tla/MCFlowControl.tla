---------------------------- MODULE MCFlowControl ----------------------------
(* Small instances of FlowControl: two connections, one of them pipelining. *)
EXTENDS FlowControl

MCSizesShort == [c \in Conns |-> IF c = "a" THEN <<2, 1, 1>> ELSE <<2>>]
=============================================================================
