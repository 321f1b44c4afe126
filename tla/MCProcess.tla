------------------------------ MODULE MCProcess ------------------------------
(* User programs that start, end and join other programs.                  *)
EXTENDS Process

CONSTANTS t1, t2, t3, t4

MCThreads2 == {t1, t2}
MCThreads3 == {t1, t2, t3}
MCSemaphores == 0..(MaxSpaces - 1)
MCInitialValue == [s \in Semaphore |-> 0]
MCConditionLock == [c \in Condition |-> NULL]
=============================================================================
