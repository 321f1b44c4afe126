----------------------------- MODULE MCInterrupt -----------------------------
(* Two threads, one device, and one or both of the sources of time slices.  *)
EXTENDS Interrupt

CONSTANTS t1, t2

MCThreads == {t1, t2}
MCRoundRobin == {"RoundRobin"}
MCBoth == {"RoundRobin", "Timer"}

\* RoundRobin reschedules itself 20 ticks ahead; the timer, at random, 1 to 200
\* ticks ahead; the device takes less or more time than a time slice.
MCDelay == [src \in Source |-> IF src = "RoundRobin" THEN {20}
                               ELSE IF src = "Timer" THEN {1, 25}
                               ELSE {10, 33}]

\* One delay for each source.
MCFixedDelay == [src \in Source |-> IF src = "RoundRobin" THEN {20}
                                    ELSE IF src = "Timer" THEN {30}
                                    ELSE {10}]
=============================================================================
