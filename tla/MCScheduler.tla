----------------------------- MODULE MCScheduler -----------------------------
(* The dispatcher on its own, with threads that sleep and are woken at will. *)
EXTENDS Scheduler, TLC

CONSTANTS t1, t2, t3, t4

MCThreads3 == {t1, t2, t3}
MCThreads4 == {t1, t2, t3, t4}

\* Every thread but main is interchangeable.
MCSymmetry == Permutations(Thread \ {Main})
=============================================================================
