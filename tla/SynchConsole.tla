---------------------------- MODULE SynchConsole ----------------------------
(***************************************************************************)
(* The console device (machine/console.cc) and the console that threads    *)
(* share (userprog/synchconsole.cc): one lock for reading and writing, and *)
(* a semaphore that each interrupt handler signals.                        *)
(***************************************************************************)
EXTENDS Callers, Integers, FiniteSets

CONSTANTS ConsoleLock,
          Chars,             \* what is typed; EOF is a byte like others
          EOF,
          MaxTyped

ASSUME ConsoleAssumption == ConsoleLock \in Lock /\ IsFiniteSet(Thread)

VARIABLES
  keyboard,        \* typed, and not polled yet
  incoming,        \* the character read, or EOF
  putBusy,         \* a PutChar is under way: its interrupt is to come
  SynchReadAvail, SynchWriteDone,   \* the values of the two semaphores
  typed, got,      \* histories: all that was typed, all that GetChar returned
  failed           \* an assertion of the device has failed

consoleVars == <<keyboard, incoming, putBusy, SynchReadAvail, SynchWriteDone,
                 typed, got, failed>>

ConsoleInit ==
  /\ keyboard = <<>> /\ typed = <<>> /\ got = <<>>
  /\ incoming = EOF
  /\ putBusy = FALSE
  /\ SynchReadAvail = 0 /\ SynchWriteDone = 0
  /\ failed = FALSE

-----------------------------------------------------------------------------
(* The device.                                                             *)

Types(c) ==
  /\ Len(typed) < MaxTyped
  /\ keyboard' = Append(keyboard, c)
  /\ typed' = Append(typed, c)
  /\ UNCHANGED <<callerVars, incoming, putBusy, SynchReadAvail, SynchWriteDone,
                 got, failed>>

\* The callbacks of SynchConsole, ReadAvail and WriteDone.
ReadAvail == SynchReadAvail' = SynchReadAvail + 1

\* Mutant of SignalWritten: the semaphore is not signalled.
SignalWritten_NoV == UNCHANGED SynchWriteDone

SignalWritten == SynchWriteDone' = SynchWriteDone + 1

\* Mutant of CheckCharAvail: a character that nobody has fetched is overwritten.
CheckCharAvail_Overwrites ==
  /\ keyboard # <<>>
  /\ incoming' = Head(keyboard)
  /\ keyboard' = Tail(keyboard)
  /\ ReadAvail
  /\ UNCHANGED <<callerVars, putBusy, SynchWriteDone, typed, got, failed>>

\* The poll, which comes again and again; it only buffers one character.
CheckCharAvail ==
  /\ incoming = EOF /\ keyboard # <<>>
  /\ incoming' = Head(keyboard)
  /\ keyboard' = Tail(keyboard)
  /\ ReadAvail
  /\ UNCHANGED <<callerVars, putBusy, SynchWriteDone, typed, got, failed>>

WriteDone ==
  /\ putBusy
  /\ putBusy' = FALSE
  /\ SignalWritten
  /\ UNCHANGED <<callerVars, keyboard, incoming, SynchReadAvail, typed, got, failed>>

-----------------------------------------------------------------------------
(* SynchConsole::GetChar.                                                  *)

GetCharCalls(t) == Calls(t, "get lock") /\ UNCHANGED consoleVars

GetCharLocks(t) == Acquires(t, ConsoleLock, "get lock", "get P") /\ UNCHANGED consoleVars

GetCharP(t) ==
  /\ Goto(t, "get P", "get")
  /\ SynchReadAvail > 0
  /\ SynchReadAvail' = SynchReadAvail - 1
  /\ UNCHANGED <<monitorVars, keyboard, incoming, putBusy, SynchWriteDone,
                 typed, got, failed>>

GetChar(t) ==
  /\ Goto(t, "get", "unlock")
  /\ got' = Append(got, incoming)
  /\ incoming' = EOF
  /\ UNCHANGED <<monitorVars, keyboard, putBusy, SynchReadAvail, SynchWriteDone,
                 typed, failed>>

-----------------------------------------------------------------------------
(* SynchConsole::PutChar.                                                  *)

PutCharCalls(t) == Calls(t, "put lock") /\ UNCHANGED consoleVars

PutCharLocks(t) == Acquires(t, ConsoleLock, "put lock", "put") /\ UNCHANGED consoleVars

\* The character is written to the terminal, and the interrupt is to follow.
PutChar(t) ==
  /\ Goto(t, "put", "put P")
  /\ failed' = putBusy
  /\ putBusy' = TRUE
  /\ UNCHANGED <<monitorVars, keyboard, incoming, SynchReadAvail, SynchWriteDone, typed, got>>

\* Mutant of PutCharP: the writer does not wait for the device.
PutCharP_NoWait(t) == Goto(t, "put P", "unlock") /\ UNCHANGED <<monitorVars, consoleVars>>

PutCharP(t) ==
  /\ Goto(t, "put P", "unlock")
  /\ SynchWriteDone > 0
  /\ SynchWriteDone' = SynchWriteDone - 1
  /\ UNCHANGED <<monitorVars, keyboard, incoming, putBusy, SynchReadAvail,
                 typed, got, failed>>

Unlocks(t) == Releases(t, ConsoleLock, "unlock") /\ UNCHANGED consoleVars

-----------------------------------------------------------------------------
ConsoleStep(t) ==
  \/ GetCharLocks(t) \/ GetCharP(t) \/ GetChar(t)
  \/ PutCharLocks(t) \/ PutChar(t) \/ PutCharP(t)
  \/ Unlocks(t)

ConsoleNext ==
  \/ \E t \in Thread : GetCharCalls(t) \/ PutCharCalls(t) \/ ConsoleStep(t)
  \/ \E c \in Chars : Types(c)
  \/ CheckCharAvail \/ WriteDone

-----------------------------------------------------------------------------
(* Properties.                                                             *)

Typical(s) == {i \in DOMAIN s : s[i] # EOF}

\* Without the EOFs, the two sequences are the same.
SameTypical(s, u) ==
  \E f \in [Typical(s) -> Typical(u)] :
    /\ \A j \in Typical(u) : \E i \in Typical(s) : f[i] = j
    /\ \A i, j \in Typical(s) : i < j => f[i] < f[j]
    /\ \A i \in Typical(s) : u[f[i]] = s[i]

\* What is typed reaches the callers of GetChar in order and exactly once, and
\* each poll that buffers a character wakes one caller (CheckCharAvail 86-104,
\* SynchConsole::GetChar 25-36); the byte EOF, which the device cannot tell from
\* an empty buffer, is left out of the comparison.
CharsDelivered ==
  /\ SameTypical(got \o <<incoming>> \o keyboard, typed)
  /\ Len(typed) = Len(keyboard) + Len(got) + SynchReadAvail
                  + Cardinality({t \in Thread : pc[t] = "get"})

\* The device is never given a character while it is busy (the assertion of
\* Console::PutChar), and a PutChar ends only when its write is done.
PutsInTurn ==
  /\ ~failed
  /\ (\E t \in Thread : pc[t] = "unlock") => ~putBusy /\ SynchWriteDone = 0

\* A caller of GetChar holds the lock and nothing that was typed is left for it.
KeyboardAwaited ==
  /\ \E t \in Thread : pc[t] = "get P"
  /\ keyboard = <<>> /\ SynchReadAvail = 0

\* Every PutChar returns, although it queues with the callers of GetChar for the one
\* lock; the only thing that can keep it is a GetChar that waits for a keyboard at
\* which nobody types, and then it is kept for ever (synchconsole.cc 25-44).
PutCharReturns ==
  \A t \in Thread :
    pc[t] \in {"put lock", "put", "put P"} ~> (pc[t] = "idle" \/ []KeyboardAwaited)
=============================================================================
