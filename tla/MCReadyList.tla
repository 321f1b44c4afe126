----------------------------- MODULE MCReadyList -----------------------------
(* Six threads of three priorities, and five threads with one priority.     *)
EXTENDS ReadyList

CONSTANTS t1, t2, t3, t4, t5, t6

MCThreads5 == {t1, t2, t3, t4, t5}
MCThreads6 == {t1, t2, t3, t4, t5, t6}

\* Every process gets priority 1 (thread.cc:371).
MCEqual == [t \in Runnable |-> 1]
MCMixed == [t \in Runnable |-> IF t = t1 THEN 0 ELSE IF t = t6 THEN 2 ELSE 1]
=============================================================================
