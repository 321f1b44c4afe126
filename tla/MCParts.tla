------------------------------ MODULE MCParts ------------------------------
(***************************************************************************)
(* The parts that are correct or not on their own: lists, ready list and   *)
(* context switch, the simulated processor and devices.  They share        *)
(* nothing but the threads that call them, and one of them is in use in    *)
(* each behaviour.                                                         *)
(***************************************************************************)
EXTENDS SynchList, SynchConsole, Network, DiskLatency, Switch, MCReadyList, MCMips

VARIABLE used

vars == <<used, callerVars, listVars, consoleVars, networkVars, latencyVars,
          switchVars, readyVars, mipsVars>>

MCLock == {ListLock, ConsoleLock}
MCCondition == {listEmpty}
MCConditionLock == listEmpty :> ListLock

\* A program is picked where it is run.
Init ==
  /\ used \in {"synchlist", "ordered", "console", "network", "disk", "switch", "ready", "mips"}
  /\ CallersInit /\ SynchListInit /\ ConsoleInit /\ NetworkInit /\ LatencyInit
  /\ SwitchInit /\ ReadyInit
  /\ IF used = "mips" THEN MipsInit(Texts, RegisterValues)
     ELSE MipsInit({CHOOSE t \in Texts : TRUE}, {CHOOSE g \in RegisterValues : TRUE})

Next ==
  /\ UNCHANGED used
  /\ \/ /\ used = "synchlist" /\ SynchListNext
        /\ UNCHANGED <<consoleVars, networkVars, latencyVars, switchVars, readyVars, mipsVars>>
     \/ /\ used = "ordered" /\ OrderedNext
        /\ UNCHANGED <<consoleVars, networkVars, latencyVars, switchVars, readyVars, mipsVars>>
     \/ /\ used = "console" /\ ConsoleNext
        /\ UNCHANGED <<listVars, networkVars, latencyVars, switchVars, readyVars, mipsVars>>
     \/ /\ used = "network" /\ NetworkNext
        /\ UNCHANGED <<callerVars, listVars, consoleVars, latencyVars, switchVars, readyVars,
                       mipsVars>>
     \/ /\ used = "disk" /\ LatencyNext
        /\ UNCHANGED <<callerVars, listVars, consoleVars, networkVars, switchVars, readyVars,
                       mipsVars>>
     \/ /\ used = "switch" /\ SwitchNext
        /\ UNCHANGED <<callerVars, listVars, consoleVars, networkVars, latencyVars, readyVars,
                       mipsVars>>
     \/ /\ used = "ready" /\ ReadyNext
        /\ UNCHANGED <<callerVars, listVars, consoleVars, networkVars, latencyVars, switchVars,
                       mipsVars>>
     \/ /\ used = "mips" /\ MipsNext
        /\ UNCHANGED <<callerVars, listVars, consoleVars, networkVars, latencyVars, switchVars,
                       readyVars>>

\* A ready thread runs again, and pending interrupts and time slices come.  Nobody
\* has to type.
Fairness ==
  /\ \A t \in Thread :
       /\ WF_<<callerVars, listVars>>(used = "synchlist" /\ SynchListStep(t))
       /\ WF_<<callerVars, consoleVars>>(used = "console" /\ ConsoleStep(t))
  /\ WF_consoleVars(used = "console" /\ CheckCharAvail)
  /\ WF_consoleVars(used = "console" /\ WriteDone)
  /\ WF_readyVars(used = "ready" /\ Yield)

Spec == Init /\ [][Next]_vars /\ Fairness
=============================================================================
