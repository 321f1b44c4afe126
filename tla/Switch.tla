------------------------------- MODULE Switch -------------------------------
(***************************************************************************)
(* The context switch of the i386 build: SWITCH and ThreadRoot             *)
(* (threads/switch.s), and the stack and registers that StackAllocate      *)
(* prepares for a thread that has never run (threads/thread.cc).  Stacks   *)
(* are memory, and what is called through a register is whatever the       *)
(* register holds.                                                         *)
(***************************************************************************)
EXTENDS Naturals, Sequences

CONSTANTS Threads, Main,
          Values,          \* what a computation leaves in the registers
          Junk,            \* memory that nobody has written
          StackSize        \* words of a stack; Thread::StackSize

ASSUME SwitchAssumption ==
  /\ Main \in Threads
  /\ StackSize \in Nat /\ StackSize >= 15
  /\ Junk \notin {"code", "ThreadRoot", "started", "returned", "finished"}

Registers == {"eax", "ebx", "ecx", "edx", "ebp", "esi", "edi", "esp"}
CalleeSaved == <<"ebx", "esi", "edi", "ebp">>      \* by the C calling convention
Scratch == {"eax", "ecx", "edx"}

VARIABLES
  current,        \* the thread whose registers the processor holds
  regs, eip,      \* the processor
  stack,          \* the stack of each thread: words 0..StackSize-1
  machineState,   \* the saved registers of each thread, the word "pc" included
  forked,         \* the threads that StackAllocate has prepared
  called,         \* history: what ThreadRoot has called for each thread
  own             \* history: the registers each thread would have on a processor of its own

switchVars == <<current, regs, eip, stack, machineState, forked, called, own>>

\* Words pushed on the stack mem with stack pointer sp, the last one lowest.
Pushed(mem, sp, words) ==
  [a \in DOMAIN mem |-> IF a < sp /\ a >= sp - Len(words) THEN words[sp - a] ELSE mem[a]]

-----------------------------------------------------------------------------
(* Thread::StackAllocate.                                                  *)

\* Four words are left free, and ThreadRoot is where SWITCH returns to.
StackTop(t) ==
  [at |-> StackSize - 5,
   mem |-> [a \in 0..(StackSize - 1) |->
              CASE a = 0 -> "STACK_FENCEPOST" [] a = StackSize - 5 -> "ThreadRoot" [] OTHER -> Junk]]

StackAllocate(t) ==
  /\ eip = "code" /\ t \notin forked
  /\ forked' = forked \cup {t}
  /\ stack' = [stack EXCEPT ![t] = StackTop(t).mem]
  /\ machineState' = [machineState EXCEPT ![t] =
       [r \in Registers \cup {"pc"} |->
          CASE r = "pc"  -> "ThreadRoot"
            [] r = "ecx" -> "InterruptEnable"      \* StartupPC
            [] r = "esi" -> <<"func", t>>          \* InitialPC
            [] r = "edx" -> <<"arg", t>>           \* InitialArg
            [] r = "edi" -> "ThreadFinish"         \* WhenDonePC
            [] r = "esp" -> StackTop(t).at
            [] OTHER -> Junk]]
  /\ UNCHANGED <<current, regs, eip, called>>

-----------------------------------------------------------------------------
(* SWITCH(from, t2), called by Scheduler::Run: sp points at the return     *)
(* address, above it are from and t2.  The return address, which is in     *)
(* Run, stands for the place that Run goes back to.                        *)

\* Mutant of Saved: edi is not saved.
Saved_WithoutEdi(r, mem, sp) ==
  [x \in Registers \cup {"pc"} |->
     CASE x = "pc" -> mem[sp] [] x = "esp" -> sp [] x = "edi" -> Junk [] OTHER -> r[x]]

Saved(r, mem, sp) ==
  [x \in Registers \cup {"pc"} |->
     CASE x = "pc" -> mem[sp] [] x = "esp" -> sp [] OTHER -> r[x]]

\* The saved pc is written over the first argument; the address that ret takes
\* is the one that was on the stack already.
Loaded(state, mem) == [mem EXCEPT ![state.esp + 1] = state.pc]

SWITCH(t2) ==
  LET from == current
      sp == regs.esp - 3
      out == Pushed(stack[from], regs.esp, <<t2, from, eip>>)
      in == Loaded(machineState[t2], stack[t2])
      at == machineState[t2].esp
  IN  /\ machineState' = [machineState EXCEPT ![from] = Saved(regs, out, sp)]
      /\ stack' = [stack EXCEPT ![from] = out, ![t2] = in]
      /\ current' = t2
      \* ret; Run, when it is Run that is returned to, drops the two arguments
      /\ eip' = in[at]
      /\ regs' = [r \in Registers |->
                   IF r # "esp" THEN machineState[t2][r]
                   ELSE IF in[at] = "ThreadRoot" THEN at + 1 ELSE at + 3]

Finished(t) == Len(called[t]) = 3

\* A thread may lose the processor in its function, in Finish, and already in the
\* InterruptEnable that ThreadRoot calls, where SetLevel ticks and may yield.
Switches(t2) ==
  /\ eip \in {"code", "started", "finished"}
  /\ t2 # current /\ t2 \in forked /\ ~Finished(t2)
  /\ SWITCH(t2)
  /\ UNCHANGED <<forked, called>>

-----------------------------------------------------------------------------
(* ThreadRoot.                                                             *)

Clobbered(r) == [x \in Registers |-> IF x \in Scratch THEN Junk ELSE r[x]]

\* The frame is set up, the argument pushed, and the startup function called; what
\* it computes is not modelled, only that it may use the scratch registers.
RootStarts ==
  /\ eip = "ThreadRoot"
  /\ stack' = [stack EXCEPT ![current] = Pushed(@, regs.esp, <<regs.ebp, regs.edx>>)]
  /\ called' = [called EXCEPT ![current] = Append(@, regs.ecx)]
  /\ regs' = Clobbered([regs EXCEPT !.ebp = regs.esp - 1, !.esp = @ - 2])
  /\ eip' = "started"
  /\ UNCHANGED <<current, machineState, forked>>

\* The thread's function, which saves the registers it must preserve (external).
RootCallsFunc ==
  /\ eip = "started"
  /\ called' = [called EXCEPT ![current] = Append(@, <<regs.esi, stack[current][regs.esp]>>)]
  /\ stack' = [stack EXCEPT ![current] =
                 Pushed(@, regs.esp, <<"ret">> \o [i \in 1..4 |-> regs[CalleeSaved[i]]])]
  /\ regs' = [regs EXCEPT !.esp = @ - 5]
  /\ eip' = "code"
  /\ UNCHANGED <<current, machineState, forked>>

Computes(v) ==
  /\ eip = "code"
  /\ regs' = [r \in Registers |-> IF r = "esp" THEN regs.esp ELSE v]
  /\ UNCHANGED <<current, eip, stack, machineState, forked, called>>

FuncReturns ==
  /\ eip = "code" /\ current # Main
  /\ LET saved == [i \in 1..4 |-> stack[current][regs.esp + 4 - i]]
     IN  regs' = [Clobbered(regs) EXCEPT !.ebx = saved[1], !.esi = saved[2], !.edi = saved[3],
                                         !.ebp = saved[4], !.esp = @ + 5]
  /\ eip' = "returned"
  /\ UNCHANGED <<current, stack, machineState, forked, called>>

RootFinishes ==
  /\ eip = "returned"
  /\ called' = [called EXCEPT ![current] = Append(@, regs.edi)]
  /\ eip' = "finished"
  /\ UNCHANGED <<current, regs, stack, machineState, forked>>

-----------------------------------------------------------------------------
Blank == [r \in Registers |-> IF r = "esp" THEN StackSize - 4 ELSE Junk]

SwitchInit ==
  /\ current = Main /\ forked = {Main}
  /\ regs = Blank /\ eip = "code"
  /\ stack = [t \in Threads |-> [a \in 0..(StackSize - 1) |-> Junk]]
  /\ machineState = [t \in Threads |-> [r \in Registers \cup {"pc"} |-> Junk]]
  /\ called = [t \in Threads |-> <<>>]
  /\ own = [t \in Threads |-> Blank]

SwitchStep ==
  \/ \E t \in Threads : StackAllocate(t) \/ Switches(t)
  \/ RootStarts \/ RootCallsFunc \/ FuncReturns \/ RootFinishes
  \/ \E v \in Values : Computes(v)

SwitchNext ==
  /\ SwitchStep
  /\ own' = IF current' = current THEN [own EXCEPT ![current] = regs'] ELSE own

-----------------------------------------------------------------------------
\* SWITCH leaves threads undisturbed, however often others run in between.  One that
\* comes back from it finds every register as it was (switch.s 314-344).  The first
\* SWITCH to a thread lands in ThreadRoot, which enables interrupts, calls the
\* function it was forked with on its argument, and Finish at the end, although the
\* registers that hold these are used, and switched away, many times before
\* (StackAllocate 295-327, ThreadRoot 285-296).
ThreadsUndisturbed ==
  /\ eip \in {"code", "started"} => regs = own[current]
  /\ eip # Junk
  /\ \A t \in Threads :
       called[t] = SubSeq(<<"InterruptEnable", <<<<"func", t>>, <<"arg", t>>>>, "ThreadFinish">>,
                          1, Len(called[t]))
=============================================================================
