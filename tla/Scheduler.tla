------------------------------ MODULE Scheduler ------------------------------
(***************************************************************************)
(* The scheduler of the Kiwi kernel (kernel/proc/scheduler.cpp) together   *)
(* with its callers: the timer interrupt (drivers/pit.cpp) and the system  *)
(* calls fork, wait and exit.  There is one CPU.  System calls enter       *)
(* through a trap gate and run with interrupts enabled, so the timer may   *)
(* preempt kernel code; its handler itself runs with interrupts off.       *)
(*                                                                         *)
(* A "thread" is a kernel stack's flow of control; thread p is the one     *)
(* created with process p.  The kernel believes that `current_process'     *)
(* runs; the model also has `cpu', the thread that really does, and        *)
(* kernel_stack[p], the thread whose suspended context the field           *)
(* kernel_stack.pointer of p designates.  What the kernel believes and     *)
(* what is the case may differ: that is what the properties are about.     *)
(*                                                                         *)
(* Processes are their pids, handed out in order from 1 (pid.cpp).         *)
(* File descriptors, page tables and the memory of a process are left out, *)
(* except which page tables are loaded (cr3) and which Process objects     *)
(* have been deleted (freed).                                              *)
(***************************************************************************)
EXTENDS Integers, Sequences

CONSTANTS
    MaxPid,     \* bound: no more than MaxPid processes are ever created
    Quantum,    \* TIME_PER_PROCESS, in timer ticks
    MaxNest,    \* bound: timer handlers suspended on one kernel stack
    Preempt     \* points of kernel code where a timer interrupt lands

\* Everywhere the code allows the timer to interrupt the kernel: at the scan
\* of wait(), at the entry of yield(), before and after its assignment to
\* current_process, after its context switch, and in a resumed timer handler.
KernelPoints == {"wait", "yield", "elect", "switch", "resume", "irq"}

ASSUME ConstantsAssumption ==
    /\ MaxPid \in Nat \ {0}
    /\ Quantum \in Nat \ {0}
    /\ MaxNest \in Nat \ {0}
    /\ Preempt \subseteq KernelPoints

Procs  == 1 .. MaxPid
NoProc == 0                \* a null Process *
Stale  == 0                \* a kernel_stack.pointer no suspended thread owns
Lost   == 0                \* the CPU has loaded a stale context

VARIABLES
    processes,              \* ctx.processes
    current_process,        \* ctx.current_process
    current_process_index,  \* ctx.current_process_index (counts from 0)
    pending_zombie,         \* ctx.pending_zombie
    current_pid,            \* the next pid
    status,                 \* Process::status
    time,                   \* Process::time
    children,               \* Process::children, in pid order
    kernel_stack,           \* Process::kernel_stack.pointer
    freed,                  \* Process objects that have been deleted
    cpu,                    \* the thread that executes
    intr,                   \* RFLAGS.IF
    cr3,                    \* the process whose page tables are loaded
    pc,                     \* where each thread is, below its timer handlers
    ret,                    \* the caller of yield() in each thread
    old_proc, new_proc,     \* the locals of yield()
    waiter,                 \* the local `proc' of wait()
    irqs                    \* timer handlers suspended on each kernel stack

ctx     == <<processes, current_process, current_process_index, pending_zombie>>
objects == <<current_pid, status, time, children, freed>>
machine == <<kernel_stack, cpu, intr, cr3>>
threads == <<pc, ret, old_proc, new_proc, waiter, irqs>>
vars    == <<ctx, objects, machine, threads>>

Born == 1 .. (current_pid - 1)

-----------------------------------------------------------------------------
\* spawn() of the first process: enter_userspace leaves no saved context.
Init ==
    /\ processes = <<1>>
    /\ current_process = 1
    /\ current_process_index = 0
    /\ pending_zombie = NoProc
    /\ current_pid = 2
    /\ status = [p \in Procs |-> "Alive"]
    /\ time = [p \in Procs |-> 0]
    /\ children = [p \in Procs |-> {}]
    /\ kernel_stack = [p \in Procs |-> Stale]
    /\ freed = {}
    /\ cpu = 1
    /\ intr = TRUE
    /\ cr3 = 1
    /\ pc = [p \in Procs |-> "user"]
    /\ ret = [p \in Procs |-> "wait"]
    /\ old_proc = [p \in Procs |-> NoProc]
    /\ new_proc = [p \in Procs |-> NoProc]
    /\ waiter = [p \in Procs |-> NoProc]
    /\ irqs = [p \in Procs |-> 0]

-----------------------------------------------------------------------------
(* findNextRunnableProcess: the scan starts after current_process_index.   *)

\* The probes of one scan; none if the table is empty.
OffsetsButLast == 0 .. (Len(processes) - 2)  \* mutant: one probe too few

Offsets == 0 .. (Len(processes) - 1)

SlotFromSelf(i) == (current_process_index + i) % Len(processes)  \* mutant

Slot(i) == (current_process_index + 1 + i) % Len(processes)

Candidate(i) == processes[Slot(i) + 1]

RunnableIfDead(not_this, i) == Candidate(i) # not_this  \* mutant

Runnable(not_this, i) ==
    /\ status[Candidate(i)] # "Dead"
    /\ Candidate(i) # not_this

\* The scan stops at its i-th probe.
FirstRunnable(not_this, i) ==
    /\ i \in Offsets
    /\ Runnable(not_this, i)
    /\ \A j \in 0 .. (i - 1) : ~Runnable(not_this, j)

NoneRunnable(not_this) ==
    \A i \in Offsets : ~Runnable(not_this, i)

\* Vector::erase: the slots after k move down by one.
Erase(s, k) ==
    [i \in 1 .. (Len(s) - 1) |-> IF i < k THEN s[i] ELSE s[i + 1]]

\* removeProcess erases the first slot that holds p.
RemoveProcess(p) ==
    processes' =
        IF \E k \in DOMAIN processes : processes[k] = p
        THEN LET k == CHOOSE k \in DOMAIN processes :
                          /\ processes[k] = p
                          /\ \A j \in 1 .. (k - 1) : processes[j] # p
             IN  Erase(processes, k)
        ELSE processes

\* Mutant of Bury: the slot stays in the table.
BuryKeepingSlot(p) ==
    /\ freed' = freed \cup {p}
    /\ UNCHANGED processes

\* undertaker(p), and reapPendingZombie for its zombie.
Bury(p) ==
    /\ RemoveProcess(p)
    /\ freed' = freed \cup {p}

\* Mutant of ProcSwitch: the context is saved in the successor's pointer.
ProcSwitchSwapped(saved, next, flag) ==
    LET thread == kernel_stack[next]
    IN  /\ cpu' = thread
        /\ kernel_stack' = [kernel_stack EXCEPT ![next] = cpu]
        /\ intr' = (flag \/ ( /\ thread # Lost
                              /\ irqs[thread] = 0
                              /\ pc[thread] = "user" ))

\* Mutant of ProcSwitch: a new child starts with the flags it happens to find.
ProcSwitchKeepingFlag(saved, next, flag) ==
    /\ cpu' = kernel_stack[next]
    /\ kernel_stack' = [p \in Procs |-> IF p = next THEN Stale
                                        ELSE IF p = saved THEN cpu
                                        ELSE kernel_stack[p]]
    /\ intr' = flag

\* __proc_switch on the executing thread: its context is saved in the kernel
\* stack pointer of `saved' (nowhere for NoProc) and the one that of `next'
\* designates is resumed.  A child that has never run starts in user mode
\* through __proc_trampoline, with interrupts enabled; every other thread
\* resumes in the kernel, with the interrupt flag as it stands.
ProcSwitch(saved, next, flag) ==
    LET thread == kernel_stack[next]
    IN  /\ cpu' = thread
        /\ kernel_stack' = [p \in Procs |-> IF p = next THEN Stale
                                            ELSE IF p = saved THEN cpu
                                            ELSE kernel_stack[p]]
        /\ intr' = (flag \/ ( /\ thread # Lost
                              /\ irqs[thread] = 0
                              /\ pc[thread] = "user" ))

-----------------------------------------------------------------------------
(* The timer interrupt: handleIrq of drivers/pit.cpp calls tick(), which   *)
(* runs with interrupts disabled, hence as one step.                       *)

\* Where the executing thread is when an interrupt arrives.
Point(t) == IF irqs[t] > 0 THEN "irq" ELSE pc[t]

\* The timer interrupts thread t.  MaxNest bounds the handlers on a stack.
Interrupts(t) ==
    /\ cpu = t /\ t # Lost
    /\ intr
    /\ irqs[t] < MaxNest
    /\ Point(t) \in Preempt \cup {"user", "halted"}

\* The current process has used its time slice, or is dead.
Expired ==
    \/ status[current_process] = "Dead"
    \/ time[current_process] + 1 >= Quantum

\* Mutant of ConsumeTime: resetTime is forgotten.
ConsumeTimeOnly ==
    time' = IF status[current_process] = "Dead" THEN time
            ELSE [time EXCEPT ![current_process] = @ + 1]

\* consumeTime and resetTime; the clock of a dead process stands still.
ConsumeTime ==
    time' = IF status[current_process] = "Dead" THEN time
            ELSE [time EXCEPT ![current_process] = IF Expired THEN 0 ELSE @ + 1]

\* tick() returns to the thread it interrupted.
TickStays(t) ==
    /\ Interrupts(t)
    /\ \/ /\ current_process = NoProc \/ processes = <<>>
          /\ UNCHANGED time
       \/ /\ current_process # NoProc /\ processes # <<>>
          /\ \/ ~Expired
             \/ \E i \in Offsets :
                    /\ FirstRunnable(NoProc, i)
                    /\ Candidate(i) = current_process
          /\ ConsumeTime
    /\ UNCHANGED <<ctx, current_pid, status, children, freed, machine, threads>>

\* tick() finds no process to run: the kernel forgets the current process
\* and buries it, on the stack of the thread that executes.
TickLast(t) ==
    /\ Interrupts(t)
    /\ current_process # NoProc /\ processes # <<>>
    /\ Expired
    /\ NoneRunnable(NoProc)
    /\ ConsumeTime
    /\ current_process' = NoProc
    /\ IF status[current_process] = "Dead"
       THEN Bury(current_process)
       ELSE UNCHANGED <<processes, freed>>
    /\ UNCHANGED <<current_process_index, pending_zombie, current_pid, status,
                   children, machine, threads>>

\* tick() elects another process.  The context of a dead process is
\* discarded and its burial left to the next timer handler that resumes.
TickSwitches(t) ==
    /\ Interrupts(t)
    /\ current_process # NoProc /\ processes # <<>>
    /\ Expired
    /\ ConsumeTime
    /\ \E i \in Offsets :
         /\ FirstRunnable(NoProc, i)
         /\ Candidate(i) # current_process
         /\ current_process' = Candidate(i)
         /\ current_process_index' = Slot(i)
         /\ cr3' = Candidate(i)
         /\ IF status[current_process] = "Dead"
            THEN /\ pending_zombie' = current_process
                 /\ ProcSwitch(NoProc, Candidate(i), FALSE)
                 /\ UNCHANGED irqs
            ELSE /\ irqs' = [irqs EXCEPT ![t] = @ + 1]
                 /\ ProcSwitch(current_process, Candidate(i), FALSE)
                 /\ UNCHANGED pending_zombie
    /\ UNCHANGED <<processes, current_pid, status, children, freed,
                   pc, ret, old_proc, new_proc, waiter>>

\* Mutant of TickResumes: pending_zombie is not cleared.
TickResumesKeepingZombie(t) ==
    /\ cpu = t /\ t # Lost
    /\ irqs[t] > 0
    /\ IF pending_zombie = NoProc
       THEN UNCHANGED <<processes, freed>>
       ELSE Bury(pending_zombie)
    /\ irqs' = [irqs EXCEPT ![t] = @ - 1]
    /\ intr' = TRUE
    /\ UNCHANGED <<current_process, current_process_index, pending_zombie,
                   current_pid, status, time, children, kernel_stack, cpu, cr3,
                   pc, ret, old_proc, new_proc, waiter>>

\* A resumed timer handler reaps the pending zombie and returns (iretq).
TickResumes(t) ==
    /\ cpu = t /\ t # Lost
    /\ irqs[t] > 0
    /\ pending_zombie' = NoProc
    /\ IF pending_zombie = NoProc
       THEN UNCHANGED <<processes, freed>>
       ELSE Bury(pending_zombie)
    /\ irqs' = [irqs EXCEPT ![t] = @ - 1]
    /\ intr' = TRUE
    /\ UNCHANGED <<current_process, current_process_index, current_pid, status,
                   time, children, kernel_stack, cpu, cr3,
                   pc, ret, old_proc, new_proc, waiter>>

-----------------------------------------------------------------------------
(* yield() *)

\* Thread t executes and stands at `point', in no timer handler.
At(t, point) ==
    /\ cpu = t /\ t # Lost
    /\ irqs[t] = 0
    /\ pc[t] = point

\* What follows yield(): the scan of wait(), or the return from sysExit to
\* user mode (iretq), where the C library loops for ever (crt0.asm).
AfterYield(t) ==
    /\ pc' = [pc EXCEPT ![t] = IF ret[t] = "wait" THEN "wait" ELSE "halted"]
    /\ intr' = (intr \/ ret[t] = "exit")

\* There is no current process, or nobody else to run: yield() returns.
YieldStays(t) ==
    /\ At(t, "yield")
    /\ current_process = NoProc \/ NoneRunnable(current_process)
    /\ AfterYield(t)
    /\ UNCHANGED <<ctx, objects, kernel_stack, cpu, cr3,
                   ret, old_proc, new_proc, waiter, irqs>>

\* Mutant of YieldSelects: the successor's page tables are not loaded.
YieldSelectsOnly(t) ==
    /\ At(t, "yield")
    /\ current_process # NoProc
    /\ \E i \in Offsets :
         /\ FirstRunnable(current_process, i)
         /\ new_proc' = [new_proc EXCEPT ![t] = Candidate(i)]
    /\ old_proc' = [old_proc EXCEPT ![t] = current_process]
    /\ pc' = [pc EXCEPT ![t] = "elect"]
    /\ UNCHANGED <<ctx, objects, machine, ret, waiter, irqs>>

\* yield() chooses a successor and loads its page tables.
YieldSelects(t) ==
    /\ At(t, "yield")
    /\ current_process # NoProc
    /\ \E i \in Offsets :
         /\ FirstRunnable(current_process, i)
         /\ new_proc' = [new_proc EXCEPT ![t] = Candidate(i)]
         /\ cr3' = Candidate(i)
    /\ old_proc' = [old_proc EXCEPT ![t] = current_process]
    /\ pc' = [pc EXCEPT ![t] = "elect"]
    /\ UNCHANGED <<ctx, objects, kernel_stack, cpu, intr, ret, waiter, irqs>>

\* Mutant of YieldElects: current_process is not updated.
YieldElectsNobody(t) ==
    /\ At(t, "elect")
    /\ pc' = [pc EXCEPT ![t] = "switch"]
    /\ UNCHANGED <<ctx, objects, machine, ret, old_proc, new_proc, waiter, irqs>>

\* ctx.current_process = new_proc; current_process_index stays as it is.
YieldElects(t) ==
    /\ At(t, "elect")
    /\ current_process' = new_proc[t]
    /\ pc' = [pc EXCEPT ![t] = "switch"]
    /\ UNCHANGED <<processes, current_process_index, pending_zombie, objects,
                   machine, ret, old_proc, new_proc, waiter, irqs>>

YieldSwitches(t) ==
    /\ At(t, "switch")
    /\ ProcSwitch(old_proc[t], new_proc[t], intr)
    /\ pc' = [pc EXCEPT ![t] = "resume"]
    /\ UNCHANGED <<ctx, objects, cr3, ret, old_proc, new_proc, waiter, irqs>>

\* The thread has been given the CPU again.
YieldReturns(t) ==
    /\ At(t, "resume")
    /\ AfterYield(t)
    /\ UNCHANGED <<ctx, objects, kernel_stack, cpu, cr3,
                   ret, old_proc, new_proc, waiter, irqs>>

-----------------------------------------------------------------------------
(* The system calls.  User code may make any of them at any time. *)

\* fork() runs with interrupts disabled.  The child's kernel stack holds a
\* context that starts it in user mode.  MaxPid bounds the pids.
Fork(t) ==
    /\ At(t, "user")
    /\ current_process # NoProc
    /\ current_pid <= MaxPid
    /\ current_pid' = current_pid + 1
    /\ children' = [children EXCEPT ![current_process] = @ \cup {current_pid}]
    /\ processes' = Append(processes, current_pid)
    /\ kernel_stack' = [kernel_stack EXCEPT ![current_pid] = current_pid]
    /\ UNCHANGED <<current_process, current_process_index, pending_zombie,
                   status, time, freed, cpu, intr, cr3, threads>>

\* sysExit: die(), then yield().
Exit(t) ==
    /\ At(t, "user")
    /\ current_process # NoProc
    /\ status' = [status EXCEPT ![current_process] = "Dead"]
    /\ pc' = [pc EXCEPT ![t] = "yield"]
    /\ ret' = [ret EXCEPT ![t] = "exit"]
    /\ UNCHANGED <<ctx, current_pid, time, children, freed, machine,
                   old_proc, new_proc, waiter, irqs>>

\* wait() with a child; without one it returns -2 and changes nothing.
WaitEnters(t) ==
    /\ At(t, "user")
    /\ current_process # NoProc
    /\ children[current_process] # {}
    /\ waiter' = [waiter EXCEPT ![t] = current_process]
    /\ pc' = [pc EXCEPT ![t] = "wait"]
    /\ UNCHANGED <<ctx, objects, machine, ret, old_proc, new_proc, irqs>>

\* Mutant of DeadChildren: the test of the status is inverted.
LiveChildren(p, overwritten) ==
    {c \in children[p] : status[c] # "Dead" /\ c \notin overwritten}

\* The children whose status field reads Dead, when the memory of those in
\* `overwritten', deleted while their parent still lists them, is in new use.
DeadChildren(p, overwritten) ==
    {c \in children[p] : status[c] = "Dead" /\ c \notin overwritten}

\* One scan of the children by wait().  A deleted child is still read: its
\* memory is as it was left or overwritten, whichever the allocator has done.
WaitScans(t) ==
    /\ At(t, "wait")
    /\ \E overwritten \in SUBSET (children[waiter[t]] \cap freed) :
         LET dead == DeadChildren(waiter[t], overwritten)
         IN  \/ /\ dead = {}
                /\ pc' = [pc EXCEPT ![t] = "yield"]
                /\ ret' = [ret EXCEPT ![t] = "wait"]
                /\ UNCHANGED <<children, intr>>
             \/ /\ \E c \in dead :
                     /\ \A d \in dead : c <= d
                     /\ children' = [children EXCEPT ![waiter[t]] = @ \ {c}]
                /\ pc' = [pc EXCEPT ![t] = "user"]
                /\ intr' = TRUE
                /\ UNCHANGED ret
    /\ UNCHANGED <<ctx, current_pid, status, time, freed, kernel_stack, cpu,
                   cr3, old_proc, new_proc, waiter, irqs>>

-----------------------------------------------------------------------------
Timer(t) == TickStays(t) \/ TickLast(t) \/ TickSwitches(t)

\* Kernel code that the executing thread must go on with.
SystemCall(t) ==
    \/ YieldStays(t) \/ YieldSelects(t) \/ YieldElects(t)
    \/ YieldSwitches(t) \/ YieldReturns(t)
    \/ WaitScans(t)

Kernel(t) == TickResumes(t) \/ SystemCall(t)

User(t) == Fork(t) \/ Exit(t) \/ WaitEnters(t)

Next == \E t \in Procs : Timer(t) \/ Kernel(t) \/ User(t)

Spec == Init /\ [][Next]_vars

\* The timer never stops (a 1 kHz PIT), and a time slice of 35 ticks is long
\* enough for a thread that gets the CPU again and again to go on with the
\* timer handler and with the system call it is in.  What user code does is up
\* to it.
Fairness ==
    /\ WF_vars(\E t \in Procs : Timer(t))
    /\ \A t \in Procs : SF_vars(TickResumes(t)) /\ SF_vars(SystemCall(t))

FairSpec == Spec /\ Fairness

-----------------------------------------------------------------------------
(* Properties of every behaviour, wherever the timer lands. *)

\* The range of every variable.
TypeOK ==
    /\ processes \in Seq(Procs)
    /\ current_process \in Procs \cup {NoProc}
    /\ current_process_index \in Nat
    /\ pending_zombie \in Procs \cup {NoProc}
    /\ current_pid \in 2 .. (MaxPid + 1)
    /\ status \in [Procs -> {"Alive", "Dead"}]
    /\ time \in [Procs -> 0 .. (Quantum - 1)]
    /\ children \in [Procs -> SUBSET Procs]
    /\ kernel_stack \in [Procs -> Procs \cup {Stale}]
    /\ freed \in SUBSET Procs
    /\ cpu \in Procs \cup {Lost}
    /\ intr \in BOOLEAN
    /\ cr3 \in Procs
    /\ pc \in [Procs -> {"user", "halted", "wait", "yield", "elect", "switch",
                         "resume"}]
    /\ ret \in [Procs -> {"wait", "exit"}]
    /\ old_proc \in [Procs -> Procs \cup {NoProc}]
    /\ new_proc \in [Procs -> Procs \cup {NoProc}]
    /\ waiter \in [Procs -> Procs \cup {NoProc}]
    /\ irqs \in [Procs -> 0 .. MaxNest]

\* No two slots of s hold the same process.
Distinct(s) == \A i, j \in DOMAIN s : s[i] = s[j] => i = j

\* Process p has a slot in s.
Listed(s, p) == \E i \in DOMAIN s : s[i] = p

\* The process table lists exactly the processes that exist: each process
\* created by fork or spawn and not deleted has one slot of ctx.processes,
\* and a deleted one has none (the scan of tick() never meets freed memory).
TableExact ==
    /\ Distinct(processes)
    /\ \A p \in Procs : Listed(processes, p) <=> (p \in Born /\ p \notin freed)

\* User code runs with interrupts enabled, whichever path of the kernel led
\* back to it: the flag is not saved by __proc_switch, so a thread may resume
\* with that of another one, but nobody takes it into user mode.  Otherwise
\* the timer could never preempt that process.
UserInterruptible ==
    cpu # Lost /\ Point(cpu) \in {"user", "halted"} => intr

-----------------------------------------------------------------------------
(* Properties that need yield() to run undisturbed: no timer interrupt     *)
(* between its choice of a successor and its context switch.               *)

QuietYield == Preempt \cap {"elect", "switch"} = {}

\* ctx.current_process is the thread that executes, except for the last steps
\* of yield() before its context switch.  Everything the kernel does on behalf
\* of "the current process" rests on it.
CurrentIsRunning ==
    (/\ cpu # Lost /\ current_process # NoProc
     /\ irqs[cpu] > 0 \/ pc[cpu] # "switch") => current_process = cpu

\* No context is ever lost or mixed up: the kernel stack pointer of every
\* process that is alive and does not execute designates the context of its
\* own thread, suspended where a resumption is expected.
ContextsIntact ==
    /\ cpu # Lost
    /\ \A p \in Born :
           status[p] = "Alive" /\ p # cpu =>
               /\ kernel_stack[p] = p
               /\ irqs[p] > 0 \/ pc[p] \in {"resume", "user"}

\* User code runs under the page tables of its own process.
OwnAddressSpace ==
    cpu # Lost /\ Point(cpu) \in {"user", "halted"} => cr3 = cpu

\* The zombie that a resumed timer handler will delete is a process that has
\* exited, that has not been deleted yet and that nobody executes.
ZombieIsSafeToReap ==
    pending_zombie # NoProc =>
        /\ status[pending_zombie] = "Dead"
        /\ pending_zombie \notin freed
        /\ pending_zombie \notin {cpu, current_process}

\* The scheduler implements Dispatcher.
Abstract == INSTANCE Dispatcher WITH
    alive   <- {p \in Born : status[p] = "Alive"},
    dead    <- {p \in Born : status[p] = "Dead"},
    running <- cpu

ImplementsDispatcher == Abstract!Spec

-----------------------------------------------------------------------------
(* Liveness. *)

\* ctx.current_process_index is the slot of ctx.current_process: false from a
\* switch in yield() to the next one in tick().
IndexIsCurrent ==
    current_process # NoProc =>
        /\ current_process_index < Len(processes)
        /\ processes[current_process_index + 1] = current_process

\* The round robin of tick(): unless yield() leaves current_process_index
\* behind, every process that is alive gets the CPU again and again.
RotationServesAll ==
    <>[]IndexIsCurrent =>
        \A p \in Procs : []<>(cpu = p \/ status[p] = "Dead" \/ p \notin Born)

\* wait(): a process that waits while one of its children is dead, and that
\* gets the CPU again and again, returns to user mode, unless a timer handler
\* has deleted a child that its parent still lists, whose memory wait() reads.
WaitEnds ==
    \A p \in Procs :
        []<>(cpu = p) =>
            (/\ pc[p] \in {"wait", "yield", "elect", "switch", "resume"}
             /\ status[p] = "Alive"
             /\ \E c \in children[p] : status[c] = "Dead")
                ~> (pc[p] = "user" \/ children[p] \cap freed # {})

\* sysExit: a process that has exited loses the CPU if there is another one
\* to run.
ExitFreesCpu ==
    \A p \in Procs :
        (/\ cpu = p /\ status[p] = "Dead"
         /\ \E q \in Born : status[q] = "Alive") ~> (cpu # p)

-----------------------------------------------------------------------------
(* What the code's documentation says and the code does not do. *)

\* README.md: "Preemptive multitasking"; process.hpp: "Alive: the process can
\* still use the CPU".  Every process that is alive gets the CPU again and
\* again.
EveryProcessRuns ==
    \A p \in Procs : []<>(cpu = p \/ status[p] = "Dead" \/ p \notin Born)

\* scheduler.cpp: "The undertaker assumes that the process is NOT using the
\* CPU."  A process that executes has not been buried.
UndertakerAssumption == cpu # Lost => cpu \notin freed

=============================================================================
