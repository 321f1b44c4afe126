------------------------------- MODULE MCSynch -------------------------------
(* One semaphore, one lock and its condition, used by threads at will. *)
EXTENDS Synch, TLC

CONSTANTS t1, t2, t3, t4, sem, lock, cond

MCThreads4 == {t1, t2, t3, t4}
MCSemaphores == {sem}
MCLocks == {lock}
MCConditions == {cond}
MCInitialValue == [s \in Semaphore |-> 0]
MCConditionLock == [c \in Condition |-> lock]

MCSymmetry == Permutations(Thread \ {Main})
=============================================================================
