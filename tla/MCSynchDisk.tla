----------------------------- MODULE MCSynchDisk -----------------------------
(* Threads that read and write the sectors of one disk.                    *)
EXTENDS SynchDisk

CONSTANTS t1, t2, t3, sem, lock, cond

MCThreads2 == {t1, t2}
MCInitialValue == [s \in Semaphore |-> 0]
MCConditionLock == [c \in Condition |-> lock]
=============================================================================
