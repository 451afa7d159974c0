---------------------------- MODULE MCAuditChain ----------------------------
(* Three writers of the audit log, one of them SERIALIZABLE like the control *)
(* loop, the others READ COMMITTED like the services.                        *)
EXTENDS AuditChain

CONSTANTS w1, w2, w3

Writers == {w1, w2, w3}
ControlLoopAndService ==
    [w \in Writers |-> IF w = w1 THEN "serializable" ELSE "read_committed"]

MCSpec == Init /\ isolation = ControlLoopAndService /\ [][Next]_vars
=============================================================================
