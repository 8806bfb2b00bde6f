--------------------------- MODULE Scheduler_proofs ---------------------------
(***************************************************************************)
(* Theorems about Scheduler, for every number of processes, time slice and *)
(* set of points where the timer lands.                                    *)
(***************************************************************************)
EXTENDS Scheduler, SequenceTheorems, TLAPS

-----------------------------------------------------------------------------
(* Lemmas about the process table. *)

\* Erasing a slot leaves a shorter table.
LEMMA EraseIsSeq ==
    ASSUME NEW S, NEW s \in Seq(S), NEW k \in 1 .. Len(s)
    PROVE  /\ Erase(s, k) \in Seq(S)
           /\ Len(Erase(s, k)) = Len(s) - 1
           /\ DOMAIN Erase(s, k) = 1 .. (Len(s) - 1)
<1>1. Len(s) \in Nat /\ \A i \in 1 .. Len(s) : s[i] \in S
  OBVIOUS
<1>2. Erase(s, k) \in [1 .. (Len(s) - 1) -> S]
  BY <1>1 DEF Erase
<1>3. Len(s) - 1 \in Nat
  BY <1>1
<1> QED
  BY <1>2, <1>3, SeqDef

\* removeProcess takes p, and nobody else, out of the table.
LEMMA RemoveProcessRemoves ==
    ASSUME processes \in Seq(Procs), Distinct(processes),
           NEW p \in Procs, RemoveProcess(p)
    PROVE  /\ processes' \in Seq(Procs)
           /\ Distinct(processes')
           /\ \A q \in Procs : Listed(processes', q)
                                   <=> (Listed(processes, q) /\ q # p)
<1>1. CASE ~Listed(processes, p)
  <2>1. processes' = processes
    BY <1>1 DEF RemoveProcess, Listed
  <2> QED
    BY <1>1, <2>1 DEF Listed
<1>2. CASE Listed(processes, p)
  <2>1. PICK n \in DOMAIN processes : processes[n] = p
    BY <1>2 DEF Listed
  <2> DEFINE First(k) == /\ k \in DOMAIN processes
                         /\ processes[k] = p
                         /\ \A j \in 1 .. (k - 1) : processes[j] # p
  <2> DEFINE k == CHOOSE k \in DOMAIN processes :
                      /\ processes[k] = p
                      /\ \A j \in 1 .. (k - 1) : processes[j] # p
  <2>2. First(n)
    <3>1. ASSUME NEW j \in 1 .. (n - 1) PROVE processes[j] # p
      BY <2>1 DEF Distinct
    <3> QED
      BY <2>1, <3>1
  <2>3. First(k)
    BY <2>2
  <2>4. processes' = Erase(processes, k)
    BY <1>2 DEF RemoveProcess, Listed
  <2> HIDE DEF k
  <2>5. k \in 1 .. Len(processes) /\ Len(processes) \in Nat
    BY <2>3
  <2>6. /\ processes' \in Seq(Procs)
        /\ DOMAIN processes' = 1 .. (Len(processes) - 1)
        /\ \A i \in 1 .. (Len(processes) - 1) :
               processes'[i] = IF i < k THEN processes[i] ELSE processes[i + 1]
    BY <2>4, <2>5, EraseIsSeq DEF Erase
  <2>7. Distinct(processes')
    BY <2>5, <2>6 DEF Distinct
  <2>8. ASSUME NEW q \in Procs, Listed(processes', q)
        PROVE  Listed(processes, q) /\ q # p
    <3>1. PICK i \in DOMAIN processes' : processes'[i] = q
      BY <2>8 DEF Listed
    <3> DEFINE m == IF i < k THEN i ELSE i + 1
    <3>2. m \in DOMAIN processes /\ m # k /\ processes[m] = q
      BY <2>5, <2>6, <3>1
    <3> QED
      BY <2>3, <3>2 DEF Listed, Distinct
  <2>9. ASSUME NEW q \in Procs, Listed(processes, q), q # p
        PROVE  Listed(processes', q)
    <3>1. PICK i \in DOMAIN processes : processes[i] = q
      BY <2>9 DEF Listed
    <3>2. i # k
      BY <2>3, <2>9, <3>1
    <3> DEFINE m == IF i < k THEN i ELSE i - 1
    <3>3. m \in DOMAIN processes' /\ processes'[m] = q
      BY <2>5, <2>6, <3>1, <3>2
    <3> QED
      BY <3>3 DEF Listed
  <2> QED
    BY <2>6, <2>7, <2>8, <2>9
<1> QED
  BY <1>1, <1>2

\* Every probe of the scan reads a slot of the table.
LEMMA CandidateListed ==
    ASSUME TypeOK, NEW i \in Offsets
    PROVE  /\ Slot(i) \in 0 .. (Len(processes) - 1)
           /\ Candidate(i) \in Procs
           /\ Listed(processes, Candidate(i))
<1>1. /\ Len(processes) \in Nat /\ Len(processes) > 0
      /\ current_process_index \in Nat
      /\ i \in Nat
  BY DEF TypeOK, Offsets
<1>2. Slot(i) \in 0 .. (Len(processes) - 1)
  BY <1>1 DEF Slot
<1>3. Slot(i) + 1 \in DOMAIN processes
  BY <1>2 DEF TypeOK
<1> QED
  BY <1>2, <1>3 DEF Candidate, Listed, TypeOK

-----------------------------------------------------------------------------
(* Type correctness. *)

\* At boot the first process is the only one.
LEMMA InitTypeOK == Init => TypeOK
  BY ConstantsAssumption DEF Init, TypeOK, Procs, NoProc, Stale, Lost

\* The context switch keeps the types of what it assigns.
LEMMA ProcSwitchType ==
    ASSUME TypeOK, NEW saved \in Procs \cup {NoProc}, NEW next \in Procs,
           NEW flag \in BOOLEAN, cpu \in Procs, ProcSwitch(saved, next, flag)
    PROVE  /\ cpu' \in Procs \cup {Lost}
           /\ kernel_stack' \in [Procs -> Procs \cup {Stale}]
           /\ intr' \in BOOLEAN
<1>1. cpu' \in Procs \cup {Lost}
  BY DEF TypeOK, ProcSwitch, Stale, Lost
<1>2. kernel_stack' \in [Procs -> Procs \cup {Stale}]
  BY DEF TypeOK, ProcSwitch
<1>3. intr' \in BOOLEAN
  BY DEF ProcSwitch
<1> QED
  BY <1>1, <1>2, <1>3

\* Appending a process to the table.
LEMMA AppendProcess ==
    ASSUME processes \in Seq(Procs), NEW p \in Procs,
           processes' = Append(processes, p)
    PROVE  /\ processes' \in Seq(Procs)
           /\ \A q : Listed(processes', q) <=> (Listed(processes, q) \/ q = p)
           /\ (Distinct(processes) /\ ~Listed(processes, p)) => Distinct(processes')
  BY DEF Listed, Distinct

\* A burial keeps the types of the table and of the set of deleted processes.
LEMMA BuryType ==
    ASSUME TypeOK, TableExact, NEW p \in Procs, Bury(p)
    PROVE  /\ processes' \in Seq(Procs)
           /\ freed' \in SUBSET Procs
  BY RemoveProcessRemoves DEF Bury, TypeOK, TableExact

-----------------------------------------------------------------------------
(* Type correctness and the process table, wherever the timer lands.       *)

\* Whatever the kernel may yet put into the table or bury has been created.
RefersToBorn ==
    /\ freed \subseteq Born
    /\ current_process \in Born \cup {NoProc}
    /\ pending_zombie \in Born \cup {NoProc}
    /\ \A t \in Procs : pc[t] \in {"elect", "switch"} => new_proc[t] \in Born

TableInv == TypeOK /\ TableExact /\ RefersToBorn

\* The processes created so far are among those the bound allows.
LEMMA BornArePids ==
    ASSUME TypeOK
    PROVE  Born \subseteq Procs
  BY ConstantsAssumption DEF TypeOK, Born, Procs

\* The table and the set of deleted processes after a burial.
LEMMA BuryTable ==
    ASSUME TableInv, NEW p \in Born, Bury(p), UNCHANGED current_pid
    PROVE  /\ processes' \in Seq(Procs)
           /\ freed' \subseteq Born
           /\ TableExact'
<1>1. p \in Procs
  BY BornArePids DEF TableInv
<1>2. /\ processes' \in Seq(Procs)
      /\ Distinct(processes')
      /\ \A q \in Procs : Listed(processes', q) <=> (Listed(processes, q) /\ q # p)
  BY <1>1, RemoveProcessRemoves DEF TableInv, TypeOK, TableExact, Bury
<1>3. freed' = freed \cup {p}
  BY DEF Bury
<1>4. freed' \subseteq Born
  BY <1>3 DEF TableInv, RefersToBorn
<1>5. TableExact'
  BY <1>2, <1>3 DEF TableInv, TableExact, Born
<1> QED
  BY <1>2, <1>4, <1>5

\* The table is as exact as it was if nobody is created or buried.
LEMMA SameTable ==
    ASSUME TableExact, UNCHANGED <<processes, freed, current_pid>>
    PROVE  TableExact'
  BY DEF TableExact, Distinct, Listed, Born

\* Whoever the scan finds has been created.
LEMMA CandidateBorn ==
    ASSUME TableInv, NEW i \in Offsets
    PROVE  /\ Candidate(i) \in Born /\ Candidate(i) \in Procs
           /\ Candidate(i) \notin freed
           /\ Slot(i) \in Nat
  BY CandidateListed DEF TableInv, TableExact

\* At boot the table lists the first process.
LEMMA TableInit == Init => TableInv
<1> SUFFICES ASSUME Init PROVE TableInv
  OBVIOUS
<1>1. TypeOK
  BY InitTypeOK
<1>2. TableExact
  BY ConstantsAssumption DEF Init, TableExact, Distinct, Listed, Born, Procs
<1>3. RefersToBorn
  BY DEF Init, RefersToBorn, Born, NoProc
<1> QED
  BY <1>1, <1>2, <1>3 DEF TableInv

\* tick(), with its three outcomes.
LEMMA TableTimer ==
    ASSUME TableInv, NEW t \in Procs, Timer(t)
    PROVE  TableInv'
<1> USE DEF NoProc, Stale, Lost
<1>0. TypeOK /\ TableExact /\ RefersToBorn
  BY DEF TableInv
<1>1. time' \in [Procs -> 0 .. (Quantum - 1)]
  <2>1. time \in [Procs -> 0 .. (Quantum - 1)] /\ Quantum \in Nat \ {0}
    BY <1>0, ConstantsAssumption DEF TypeOK
  <2>2. CASE UNCHANGED time
    BY <2>1, <2>2
  <2>3. CASE /\ current_process \in Procs
             /\ time' = [time EXCEPT ![current_process] = IF Expired THEN 0 ELSE @ + 1]
    <3>1. (IF Expired THEN 0 ELSE time[current_process] + 1) \in 0 .. (Quantum - 1)
      BY <2>1, <2>3 DEF Expired
    <3> QED
      BY <2>1, <2>3, <3>1
  <2>4. current_process # NoProc => current_process \in Procs
    BY <1>0 DEF TypeOK
  <2> QED
    BY <2>2, <2>3, <2>4
    DEF Timer, TickStays, TickLast, TickSwitches, ConsumeTime
<1>2. CASE TickStays(t)
  <2>1. UNCHANGED <<ctx, current_pid, status, children, freed, machine, threads>>
    BY <1>2 DEF TickStays
  <2>2. TypeOK'
    BY <1>0, <1>1, <2>1 DEF TypeOK, ctx, machine, threads
  <2>3. TableExact'
    BY <1>0, <2>1, SameTable DEF ctx
  <2>4. RefersToBorn'
    BY <1>0, <2>1 DEF RefersToBorn, Born, ctx, threads
  <2> QED
    BY <2>2, <2>3, <2>4 DEF TableInv
<1>3. CASE TickLast(t)
  <2>1. current_process \in Born /\ current_process' = NoProc
    BY <1>0, <1>3 DEF TickLast, RefersToBorn
  <2>2. UNCHANGED <<current_process_index, pending_zombie, current_pid, status,
                    children, machine, threads>>
    BY <1>3 DEF TickLast
  <2>3. /\ processes' \in Seq(Procs)
        /\ freed' \subseteq Born
        /\ TableExact'
    <3>1. CASE Bury(current_process)
      BY <2>1, <2>2, <3>1, BuryTable
    <3>2. CASE UNCHANGED <<processes, freed>>
      BY <1>0, <2>2, <3>2, SameTable DEF TypeOK, RefersToBorn
    <3> QED
      BY <1>3, <3>1, <3>2 DEF TickLast
  <2>4. TypeOK'
    <3>1. freed' \in SUBSET Procs
      BY <1>0, <2>3, BornArePids
    <3> QED
      BY <1>0, <1>1, <2>1, <2>2, <2>3, <3>1 DEF TypeOK, machine, threads
  <2>5. RefersToBorn'
    BY <1>0, <2>1, <2>2, <2>3 DEF RefersToBorn, Born, threads
  <2> QED
    BY <2>3, <2>4, <2>5 DEF TableInv
<1>4. CASE TickSwitches(t)
  <2>1. PICK i \in Offsets :
           /\ current_process' = Candidate(i)
           /\ current_process_index' = Slot(i)
           /\ cr3' = Candidate(i)
           /\ IF status[current_process] = "Dead"
              THEN /\ pending_zombie' = current_process
                   /\ ProcSwitch(NoProc, Candidate(i), FALSE)
                   /\ UNCHANGED irqs
              ELSE /\ irqs' = [irqs EXCEPT ![t] = @ + 1]
                   /\ ProcSwitch(current_process, Candidate(i), FALSE)
                   /\ UNCHANGED pending_zombie
    BY <1>4 DEF TickSwitches
  <2>2. /\ UNCHANGED <<processes, current_pid, status, children, freed,
                       pc, ret, old_proc, new_proc, waiter>>
        /\ Interrupts(t)
        /\ current_process # NoProc
    BY <1>4 DEF TickSwitches
  <2>3. /\ Candidate(i) \in Born /\ Candidate(i) \in Procs
        /\ Slot(i) \in Nat
    BY CandidateBorn
  <2>4. /\ cpu' \in Procs \cup {Lost}
        /\ kernel_stack' \in [Procs -> Procs \cup {Stale}]
        /\ intr' \in BOOLEAN
    <3>1. current_process \in Procs /\ cpu \in Procs
      BY <1>0, <2>2 DEF TypeOK, Interrupts
    <3> QED
      BY <1>0, <2>1, <2>3, <3>1, ProcSwitchType
  <2>5. pending_zombie' \in Born \cup {NoProc} /\ irqs' \in [Procs -> 0 .. MaxNest]
    <3>1. pending_zombie' \in Born \cup {NoProc}
      BY <1>0, <2>1, <2>2 DEF RefersToBorn
    <3>2. irqs[t] + 1 \in 0 .. MaxNest
      BY <1>0, <2>2, ConstantsAssumption DEF TypeOK, Interrupts
    <3>3. irqs' \in [Procs -> 0 .. MaxNest]
      BY <1>0, <2>1, <3>2 DEF TypeOK
    <3> QED
      BY <3>1, <3>3
  <2>6. TypeOK'
    <3>1. pending_zombie' \in Procs \cup {NoProc}
      BY <1>0, <2>5, BornArePids
    <3> QED
      BY <1>0, <1>1, <2>1, <2>2, <2>3, <2>4, <2>5, <3>1 DEF TypeOK
  <2>7. TableExact'
    BY <1>0, <2>2, SameTable
  <2>8. RefersToBorn'
    BY <1>0, <2>1, <2>2, <2>3, <2>5 DEF RefersToBorn, Born
  <2> QED
    BY <2>6, <2>7, <2>8 DEF TableInv
<1> QED
  BY <1>2, <1>3, <1>4 DEF Timer

\* A step that leaves the table, the pids and the deleted processes alone.
LEMMA TableUntouched ==
    ASSUME TableInv, UNCHANGED <<processes, freed, current_pid, pending_zombie>>,
           TypeOK',
           current_process' \in Born \cup {NoProc},
           \A u \in Procs : pc'[u] \in {"elect", "switch"} => new_proc'[u] \in Born
    PROVE  TableInv'
<1>1. TableExact'
  BY SameTable DEF TableInv
<1>2. RefersToBorn'
  BY DEF TableInv, RefersToBorn, Born
<1> QED
  BY <1>1, <1>2 DEF TableInv

\* The handler that resumes, yield() step by step, and the scan of wait().
LEMMA TableKernel ==
    ASSUME TableInv, NEW t \in Procs, Kernel(t)
    PROVE  TableInv'
<1> USE DEF NoProc, Stale, Lost
<1>0. TypeOK /\ TableExact /\ RefersToBorn
  BY DEF TableInv
<1>1. CASE TickResumes(t)
  <2>1. /\ UNCHANGED <<current_process, current_process_index, current_pid,
                       status, time, children, kernel_stack, cpu, cr3,
                       pc, ret, old_proc, new_proc, waiter>>
        /\ pending_zombie' = NoProc
        /\ intr' = TRUE
        /\ irqs[t] > 0
        /\ irqs' = [irqs EXCEPT ![t] = @ - 1]
    BY <1>1 DEF TickResumes
  <2>2. irqs' \in [Procs -> 0 .. MaxNest]
    <3>1. irqs[t] - 1 \in 0 .. MaxNest
      BY <1>0, <2>1, ConstantsAssumption DEF TypeOK
    <3> QED
      BY <1>0, <2>1, <3>1 DEF TypeOK
  <2>3. /\ processes' \in Seq(Procs)
        /\ freed' \subseteq Born
        /\ TableExact'
    <3>1. CASE UNCHANGED <<processes, freed>>
      BY <1>0, <2>1, <3>1, SameTable DEF TypeOK, RefersToBorn
    <3>2. CASE pending_zombie # NoProc /\ Bury(pending_zombie)
      <4>1. pending_zombie \in Born
        BY <1>0, <3>2 DEF RefersToBorn
      <4> QED
        BY <2>1, <3>2, <4>1, BuryTable
    <3> QED
      BY <1>1, <3>1, <3>2 DEF TickResumes
  <2>4. TypeOK'
    <3>1. freed' \in SUBSET Procs
      BY <1>0, <2>3, BornArePids
    <3> QED
      BY <1>0, <2>1, <2>2, <2>3, <3>1 DEF TypeOK
  <2>5. RefersToBorn'
    BY <1>0, <2>1, <2>3 DEF RefersToBorn, Born
  <2> QED
    BY <2>3, <2>4, <2>5 DEF TableInv
<1>2. CASE YieldStays(t) \/ YieldReturns(t)
  <2>1. /\ UNCHANGED <<ctx, objects, kernel_stack, cpu, cr3,
                       ret, old_proc, new_proc, waiter, irqs>>
        /\ AfterYield(t)
    BY <1>2 DEF YieldStays, YieldReturns
  <2>2. TypeOK'
    BY <1>0, <2>1 DEF TypeOK, AfterYield, ctx, objects
  <2>3. \A u \in Procs : pc'[u] \in {"elect", "switch"} => new_proc'[u] \in Born
    BY <1>0, <2>1 DEF TypeOK, RefersToBorn, AfterYield
  <2> QED
    BY <1>0, <2>1, <2>2, <2>3, TableUntouched DEF RefersToBorn, ctx, objects
<1>3. CASE YieldSelects(t)
  <2>1. PICK i \in Offsets :
           /\ new_proc' = [new_proc EXCEPT ![t] = Candidate(i)]
           /\ cr3' = Candidate(i)
    BY <1>3 DEF YieldSelects
  <2>2. Candidate(i) \in Born /\ Candidate(i) \in Procs
    BY CandidateBorn
  <2>3. /\ UNCHANGED <<ctx, objects, kernel_stack, cpu, intr, ret, waiter, irqs>>
        /\ old_proc' = [old_proc EXCEPT ![t] = current_process]
        /\ pc' = [pc EXCEPT ![t] = "elect"]
    BY <1>3 DEF YieldSelects
  <2>4. TypeOK'
    BY <1>0, <2>1, <2>2, <2>3 DEF TypeOK, ctx, objects
  <2>5. \A u \in Procs : pc'[u] \in {"elect", "switch"} => new_proc'[u] \in Born
    BY <1>0, <2>1, <2>2, <2>3 DEF TypeOK, RefersToBorn
  <2> QED
    BY <1>0, <2>3, <2>4, <2>5, TableUntouched DEF RefersToBorn, ctx, objects
<1>4. CASE YieldElects(t)
  <2>1. /\ UNCHANGED <<processes, current_process_index, pending_zombie, objects,
                       machine, ret, old_proc, new_proc, waiter, irqs>>
        /\ current_process' = new_proc[t]
        /\ pc[t] = "elect"
        /\ pc' = [pc EXCEPT ![t] = "switch"]
    BY <1>4 DEF YieldElects, At
  <2>2. new_proc[t] \in Born
    BY <1>0, <2>1 DEF RefersToBorn
  <2>3. TypeOK'
    BY <1>0, <2>1, <2>2 DEF TypeOK, objects, machine
  <2>4. \A u \in Procs : pc'[u] \in {"elect", "switch"} => new_proc'[u] \in Born
    BY <1>0, <2>1, <2>2 DEF TypeOK, RefersToBorn
  <2> QED
    BY <2>1, <2>2, <2>3, <2>4, TableUntouched DEF objects
<1>5. CASE YieldSwitches(t)
  <2>1. /\ UNCHANGED <<ctx, objects, cr3, ret, old_proc, new_proc, waiter, irqs>>
        /\ cpu = t
        /\ pc[t] = "switch"
        /\ ProcSwitch(old_proc[t], new_proc[t], intr)
        /\ pc' = [pc EXCEPT ![t] = "resume"]
    BY <1>5 DEF YieldSwitches, At
  <2>2. new_proc[t] \in Procs /\ old_proc[t] \in Procs \cup {NoProc}
    BY <1>0, <2>1, BornArePids DEF TypeOK, RefersToBorn
  <2>3. /\ cpu' \in Procs \cup {Lost}
        /\ kernel_stack' \in [Procs -> Procs \cup {Stale}]
        /\ intr' \in BOOLEAN
    <3>1. intr \in BOOLEAN
      BY <1>0 DEF TypeOK
    <3> QED
      BY <1>0, <2>1, <2>2, <3>1, ProcSwitchType
  <2>4. TypeOK'
    BY <1>0, <2>1, <2>3 DEF TypeOK, ctx, objects
  <2>5. \A u \in Procs : pc'[u] \in {"elect", "switch"} => new_proc'[u] \in Born
    BY <1>0, <2>1 DEF TypeOK, RefersToBorn
  <2> QED
    BY <1>0, <2>1, <2>4, <2>5, TableUntouched DEF RefersToBorn, ctx, objects
<1>6. CASE WaitScans(t)
  <2>1. UNCHANGED <<ctx, current_pid, status, time, freed, kernel_stack, cpu,
                    cr3, old_proc, new_proc, waiter, irqs>>
    BY <1>6 DEF WaitScans
  <2>2. \/ /\ pc' = [pc EXCEPT ![t] = "yield"]
           /\ ret' = [ret EXCEPT ![t] = "wait"]
           /\ UNCHANGED <<children, intr>>
        \/ /\ pc' = [pc EXCEPT ![t] = "user"]
           /\ intr' = TRUE
           /\ UNCHANGED ret
           /\ \E c : children' = [children EXCEPT ![waiter[t]] = @ \ {c}]
    BY <1>6 DEF WaitScans
  <2>3. TypeOK'
    <3>1. children' \in [Procs -> SUBSET Procs]
      BY <1>0, <2>2 DEF TypeOK
    <3>2. intr' \in BOOLEAN
      BY <1>0, <2>2, Zenon DEF TypeOK
    <3>3. ret' \in [Procs -> {"wait", "exit"}]
      BY <1>0, <2>2 DEF TypeOK
    <3>4. pc' \in [Procs -> {"user", "halted", "wait", "yield", "elect",
                             "switch", "resume"}]
      BY <1>0, <2>2 DEF TypeOK
    <3> QED
      BY <1>0, <2>1, <3>1, <3>2, <3>3, <3>4 DEF TypeOK, ctx
  <2>4. \A u \in Procs : pc'[u] \in {"elect", "switch"} => new_proc'[u] \in Born
    BY <1>0, <2>1, <2>2 DEF TypeOK, RefersToBorn
  <2> QED
    BY <1>0, <2>1, <2>3, <2>4, TableUntouched DEF RefersToBorn, ctx
<1> QED
  BY <1>1, <1>2, <1>3, <1>4, <1>5, <1>6 DEF Kernel, SystemCall

\* The pid that fork takes is new.
LEMMA ForkPid ==
    ASSUME TypeOK, current_pid <= MaxPid, current_pid' = current_pid + 1
    PROVE  /\ current_pid \in Procs /\ current_pid \notin Born
           /\ Born' = Born \cup {current_pid}
           /\ current_pid' \in 2 .. (MaxPid + 1)
  BY ConstantsAssumption DEF TypeOK, Born, Procs

\* fork(), exit() and the entry of wait().
LEMMA TableUser ==
    ASSUME TableInv, NEW t \in Procs, User(t)
    PROVE  TableInv'
<1> USE DEF NoProc, Stale, Lost
<1>0. TypeOK /\ TableExact /\ RefersToBorn
  BY DEF TableInv
<1>1. CASE Fork(t)
  <2>1. /\ current_pid <= MaxPid
        /\ current_pid' = current_pid + 1
        /\ children' = [children EXCEPT ![current_process] = @ \cup {current_pid}]
        /\ processes' = Append(processes, current_pid)
        /\ kernel_stack' = [kernel_stack EXCEPT ![current_pid] = current_pid]
        /\ UNCHANGED <<current_process, current_process_index, pending_zombie,
                       status, time, freed, cpu, intr, cr3, threads>>
    BY <1>1 DEF Fork
  <2>2. /\ current_pid \in Procs /\ current_pid \notin Born
        /\ Born' = Born \cup {current_pid}
        /\ current_pid' \in 2 .. (MaxPid + 1)
    BY <1>0, <2>1, ForkPid
  <2>3. /\ processes' \in Seq(Procs)
        /\ \A q : Listed(processes', q) <=> (Listed(processes, q) \/ q = current_pid)
        /\ (Distinct(processes) /\ ~Listed(processes, current_pid))
               => Distinct(processes')
    BY <1>0, <2>1, <2>2, AppendProcess DEF TypeOK
  <2>4. TypeOK'
    BY <1>0, <2>1, <2>2, <2>3 DEF TypeOK, threads
  <2>5. TableExact'
    <3>1. current_pid \notin freed
      BY <1>0, <2>2 DEF RefersToBorn
    <3> QED
      BY <1>0, <2>1, <2>2, <2>3, <3>1 DEF TableExact
  <2>6. RefersToBorn'
    BY <1>0, <2>1, <2>2 DEF RefersToBorn, threads
  <2> QED
    BY <2>4, <2>5, <2>6 DEF TableInv
<1>2. CASE Exit(t)
  <2>1. /\ status' = [status EXCEPT ![current_process] = "Dead"]
        /\ pc' = [pc EXCEPT ![t] = "yield"]
        /\ ret' = [ret EXCEPT ![t] = "exit"]
        /\ UNCHANGED <<ctx, current_pid, time, children, freed, machine,
                       old_proc, new_proc, waiter, irqs>>
    BY <1>2 DEF Exit
  <2>2. TypeOK'
    BY <1>0, <2>1 DEF TypeOK, ctx, machine
  <2>3. \A u \in Procs : pc'[u] \in {"elect", "switch"} => new_proc'[u] \in Born
    BY <1>0, <2>1 DEF TypeOK, RefersToBorn
  <2> QED
    BY <1>0, <2>1, <2>2, <2>3, TableUntouched DEF RefersToBorn, ctx
<1>3. CASE WaitEnters(t)
  <2>1. /\ waiter' = [waiter EXCEPT ![t] = current_process]
        /\ pc' = [pc EXCEPT ![t] = "wait"]
        /\ UNCHANGED <<ctx, objects, machine, ret, old_proc, new_proc, irqs>>
    BY <1>3 DEF WaitEnters
  <2>2. TypeOK'
    BY <1>0, <2>1 DEF TypeOK, ctx, objects, machine
  <2>3. \A u \in Procs : pc'[u] \in {"elect", "switch"} => new_proc'[u] \in Born
    BY <1>0, <2>1 DEF TypeOK, RefersToBorn
  <2> QED
    BY <1>0, <2>1, <2>2, <2>3, TableUntouched DEF RefersToBorn, ctx, objects
<1> QED
  BY <1>1, <1>2, <1>3 DEF User

\* TableInv is inductive, wherever the timer lands.
LEMMA TableNext == TableInv /\ [Next]_vars => TableInv'
<1> SUFFICES ASSUME TableInv, [Next]_vars PROVE TableInv'
  OBVIOUS
<1>1. CASE UNCHANGED vars
  <2>1. TypeOK'
    BY <1>1 DEF TableInv, TypeOK, vars, ctx, objects, machine, threads
  <2> QED
    BY <1>1, <2>1, TableUntouched
    DEF TableInv, RefersToBorn, vars, ctx, objects, machine, threads
<1>2. CASE Next
  BY <1>2, TableTimer, TableKernel, TableUser DEF Next
<1> QED
  BY <1>1, <1>2

\* Every variable stays in its range.
THEOREM TypeCorrect == Spec => []TypeOK
<1>1. TableInv => TypeOK
  BY DEF TableInv
<1> QED
  BY <1>1, TableInit, TableNext, PTL DEF Spec

\* ctx.processes lists each existing process once and no deleted one, wherever
\* the timer interrupts the kernel.
THEOREM TableIsExact == Spec => []TableExact
<1>1. TableInv => TableExact
  BY DEF TableInv
<1> QED
  BY <1>1, TableInit, TableNext, PTL DEF Spec

-----------------------------------------------------------------------------
(* The inductive invariant for a yield() that no timer interrupt disturbs. *)

Dying(t) == \/ pc[t] = "halted"
            \/ pc[t] \in {"yield", "elect", "switch", "resume"} /\ ret[t] = "exit"

\* A thread is on its way out of sysExit exactly if its process is dead.
StatusMatchesCode == \A t \in Procs : status[t] = "Dead" <=> Dying(t)

\* What the kernel believes and what the CPU does agree.
CpuMatches ==
    /\ cpu \in Born
    /\ IF pc[cpu] \in {"elect", "switch"}
       THEN /\ irqs[cpu] = 0
            /\ old_proc[cpu] = cpu
            /\ new_proc[cpu] \in Born \ {cpu}
            /\ status[new_proc[cpu]] = "Alive"
            /\ cr3 = new_proc[cpu]
            /\ current_process = IF pc[cpu] = "switch" THEN new_proc[cpu] ELSE cpu
       ELSE /\ cr3 = cpu
            /\ current_process \in {cpu, NoProc}

\* Every live process that does not execute has its context saved.
SavedContexts ==
    \A p \in Born : status[p] = "Alive" /\ p # cpu =>
        /\ kernel_stack[p] = p
        /\ pc[p] \notin {"elect", "switch"}
        /\ irqs[p] > 0 \/ pc[p] \in {"resume", "user"}

\* Only dead processes are deleted, and never the current one.
FreedAreDead ==
    /\ \A p \in freed : status[p] = "Dead"
    /\ current_process \notin freed

Zombie ==
    pending_zombie # NoProc =>
        /\ pending_zombie \in Born \ freed
        /\ status[pending_zombie] = "Dead"
        /\ pending_zombie # cpu

\* The pids that fork has not used yet.
Unborn ==
    \A p \in Procs \ Born :
        status[p] = "Alive" /\ pc[p] = "user" /\ irqs[p] = 0

QuietInv ==
    /\ TableInv
    /\ StatusMatchesCode
    /\ CpuMatches
    /\ SavedContexts
    /\ FreedAreDead
    /\ Zombie
    /\ Unborn

\* At boot the first process runs and nothing is suspended.
LEMMA QuietInit == Init => QuietInv
<1> SUFFICES ASSUME Init PROVE QuietInv
  OBVIOUS
<1>1. 1 \in Procs /\ Born = {1}
  BY ConstantsAssumption DEF Init, Born, Procs
<1>2. StatusMatchesCode
  BY DEF Init, StatusMatchesCode, Dying
<1>3. CpuMatches
  BY <1>1 DEF Init, CpuMatches
<1>4. SavedContexts /\ FreedAreDead /\ Zombie /\ Unborn
  BY <1>1 DEF Init, SavedContexts, FreedAreDead, Zombie, Unborn
<1> QED
  BY <1>2, <1>3, <1>4, TableInit DEF QuietInv

\* The timer finds the executing thread outside yield()'s last steps, so the
\* kernel's current process, if any, is the one that executes.
LEMMA QuietInterrupt ==
    ASSUME QuietYield, QuietInv, NEW t \in Procs, Interrupts(t)
    PROVE  /\ cpu = t /\ t \in Born
           /\ pc[t] \notin {"elect", "switch"}
           /\ current_process \in {t, NoProc}
           /\ cr3 = t
  BY DEF QuietYield, QuietInv, CpuMatches, Interrupts, Point

\* What the context switch does when the successor's context is its own.
LEMMA QuietSwitch ==
    ASSUME QuietInv, NEW c \in Born, status[c] = "Alive", c # cpu,
           NEW saved, NEW flag, ProcSwitch(saved, c, flag)
    PROVE  /\ cpu' = c
           /\ \A p \in Procs \ {c} :
                  kernel_stack'[p] = IF p = saved THEN cpu ELSE kernel_stack[p]
           /\ pc[c] \notin {"elect", "switch"}
           /\ irqs[c] > 0 \/ pc[c] \in {"resume", "user"}
<1>1. kernel_stack[c] = c
  BY DEF QuietInv, SavedContexts
<1> QED
  BY <1>1 DEF ProcSwitch, QuietInv, SavedContexts

\* tick(), with its three outcomes.
LEMMA QuietTimer ==
    ASSUME QuietYield, QuietInv, NEW t \in Procs, Timer(t)
    PROVE  QuietInv'
<1>0. /\ TableInv /\ TypeOK /\ StatusMatchesCode /\ CpuMatches /\ SavedContexts
      /\ FreedAreDead /\ Zombie /\ Unborn
  BY DEF QuietInv, TableInv
<1>1. TableInv'
  BY <1>0, TableTimer
<1>2. Interrupts(t)
  BY DEF Timer, TickStays, TickLast, TickSwitches
<1>3. /\ cpu = t /\ t \in Born
      /\ pc[t] \notin {"elect", "switch"}
      /\ current_process \in {t, NoProc}
      /\ cr3 = t
  BY <1>2, QuietInterrupt
<1>4. Born' = Born /\ UNCHANGED <<current_pid, status, pc, ret, old_proc, new_proc>>
  BY DEF Timer, TickStays, TickLast, TickSwitches, Born, threads
<1>5. StatusMatchesCode'
  BY <1>0, <1>4 DEF StatusMatchesCode, Dying
<1>6. CASE TickStays(t)
  <2>1. UNCHANGED <<ctx, current_pid, status, children, freed, machine, threads>>
    BY <1>6 DEF TickStays
  <2>2. CpuMatches' /\ SavedContexts' /\ FreedAreDead' /\ Zombie' /\ Unborn'
    BY <1>0, <1>4, <2>1
    DEF CpuMatches, SavedContexts, FreedAreDead, Zombie, Unborn, ctx, machine,
        threads
  <2> QED
    BY <1>1, <1>5, <2>2 DEF QuietInv
<1>7. CASE TickLast(t)
  <2>1. /\ current_process = t /\ current_process' = NoProc
        /\ UNCHANGED <<pending_zombie, machine, threads>>
        /\ IF status[t] = "Dead" THEN Bury(t) ELSE UNCHANGED <<processes, freed>>
    BY <1>3, <1>7 DEF TickLast
  <2>2. CpuMatches'
    BY <1>0, <1>3, <1>4, <2>1 DEF CpuMatches, machine, threads
  <2>3. SavedContexts' /\ Unborn'
    BY <1>0, <1>4, <2>1 DEF SavedContexts, Unborn, machine, threads
  <2>4. FreedAreDead'
    <3>1. NoProc \notin freed'
      BY <1>1 DEF TableInv, RefersToBorn, Born, NoProc
    <3> QED
      BY <1>0, <1>4, <2>1, <3>1 DEF FreedAreDead, Bury
  <2>5. Zombie'
    BY <1>0, <1>3, <1>4, <2>1 DEF Zombie, Bury, machine
  <2> QED
    BY <1>1, <1>5, <2>2, <2>3, <2>4, <2>5 DEF QuietInv
<1>8. CASE TickSwitches(t)
  <2>1. current_process = t
    BY <1>3, <1>8 DEF TickSwitches
  <2>2. PICK i \in Offsets :
           /\ FirstRunnable(NoProc, i)
           /\ Candidate(i) # t
           /\ current_process' = Candidate(i)
           /\ cr3' = Candidate(i)
           /\ IF status[t] = "Dead"
              THEN /\ pending_zombie' = t
                   /\ ProcSwitch(NoProc, Candidate(i), FALSE)
                   /\ UNCHANGED irqs
              ELSE /\ irqs' = [irqs EXCEPT ![t] = @ + 1]
                   /\ ProcSwitch(t, Candidate(i), FALSE)
                   /\ UNCHANGED pending_zombie
    BY <1>8, <2>1 DEF TickSwitches
  <2> DEFINE c == Candidate(i)
  <2>3. c \in Born /\ c \in Procs /\ c # t /\ status[c] = "Alive" /\ c \notin freed
    <3>1. c \in Born /\ c \in Procs /\ c \notin freed
      BY <1>0, CandidateBorn
    <3> QED
      BY <1>0, <2>2, <3>1 DEF FirstRunnable, Runnable, TypeOK
  <2>4. UNCHANGED freed
    BY <1>8 DEF TickSwitches
  <2> HIDE DEF c
  <2>5. /\ cpu' = c
        /\ \A p \in Procs \ {c} : kernel_stack'[p] =
               IF status[t] # "Dead" /\ p = t THEN t ELSE kernel_stack[p]
        /\ pc[c] \notin {"elect", "switch"}
    <3>1. CASE status[t] = "Dead"
      <4>1. ProcSwitch(NoProc, c, FALSE)
        BY <2>2, <3>1 DEF c
      <4>2. \A p \in Procs : p # NoProc
        BY DEF Procs, NoProc
      <4> QED
        BY <1>3, <2>3, <3>1, <4>1, <4>2, QuietSwitch
    <3>2. CASE status[t] # "Dead"
      <4>1. ProcSwitch(t, c, FALSE)
        BY <2>2, <3>2 DEF c
      <4> QED
        BY <1>3, <2>3, <3>2, <4>1, QuietSwitch
    <3> QED
      BY <3>1, <3>2
  <2>6. /\ \A p \in Procs \ {t} : irqs'[p] = irqs[p]
        /\ status[t] # "Dead" => irqs'[t] > 0
    <3>1. irqs \in [Procs -> Nat]
      BY <1>0, ConstantsAssumption DEF TypeOK
    <3>2. CASE status[t] = "Dead"
      BY <2>2, <3>2
    <3>3. CASE status[t] # "Dead"
      <4>1. irqs' = [irqs EXCEPT ![t] = @ + 1]
        BY <2>2, <3>3
      <4>2. irqs[t] + 1 > 0
        BY <3>1
      <4> QED
        BY <3>1, <4>1, <4>2
    <3> QED
      BY <3>2, <3>3
  <2>7. CpuMatches'
    BY <1>4, <2>2, <2>3, <2>5 DEF CpuMatches, c
  <2>8. SavedContexts'
    <3> SUFFICES ASSUME NEW p \in Born, status[p] = "Alive", p # c
                 PROVE  /\ kernel_stack'[p] = p
                        /\ pc[p] \notin {"elect", "switch"}
                        /\ irqs'[p] > 0 \/ pc[p] \in {"resume", "user"}
      BY <1>4, <2>5 DEF SavedContexts
    <3>1. p \in Procs
      BY <1>0, BornArePids
    <3>2. CASE p = t
      BY <1>3, <2>5, <2>6, <3>1, <3>2
    <3>3. CASE p # t
      BY <1>0, <1>3, <2>5, <2>6, <3>1, <3>3 DEF SavedContexts
    <3> QED
      BY <3>2, <3>3
  <2>9. FreedAreDead'
    BY <1>0, <1>4, <2>2, <2>3, <2>4 DEF FreedAreDead, c
  <2>10. Zombie'
    BY <1>0, <1>3, <1>4, <2>1, <2>2, <2>3, <2>4, <2>5 DEF Zombie, FreedAreDead
  <2>11. Unborn'
    BY <1>0, <1>3, <1>4, <2>6 DEF Unborn
  <2> QED
    BY <1>1, <1>5, <2>7, <2>8, <2>9, <2>10, <2>11 DEF QuietInv
<1> QED
  BY <1>6, <1>7, <1>8 DEF Timer

\* The handler that resumes, yield() step by step, and the scan of wait().
LEMMA QuietKernel ==
    ASSUME QuietInv, NEW t \in Procs, Kernel(t)
    PROVE  QuietInv'
<1>0. /\ TableInv /\ TypeOK /\ StatusMatchesCode /\ CpuMatches /\ SavedContexts
      /\ FreedAreDead /\ Zombie /\ Unborn
  BY DEF QuietInv, TableInv
<1>1. TableInv'
  BY <1>0, TableKernel
<1>2. cpu = t /\ t \in Born
  BY <1>0 DEF Kernel, SystemCall, TickResumes, YieldStays, YieldSelects, YieldElects,
              YieldSwitches, YieldReturns, WaitScans, At, CpuMatches
<1>3. Born' = Born /\ UNCHANGED <<current_pid, status>>
  BY DEF Kernel, SystemCall, TickResumes, YieldStays, YieldSelects, YieldElects,
         YieldSwitches, YieldReturns, WaitScans, Born, objects
<1>4. CASE TickResumes(t)
  <2>1. /\ UNCHANGED <<current_process, kernel_stack, cpu, cr3,
                       pc, ret, old_proc, new_proc>>
        /\ pending_zombie' = NoProc
        /\ irqs[t] > 0
        /\ irqs' = [irqs EXCEPT ![t] = @ - 1]
        /\ IF pending_zombie = NoProc THEN UNCHANGED freed
           ELSE freed' = freed \cup {pending_zombie}
    BY <1>4 DEF TickResumes, Bury
  <2>2. pc[t] \notin {"elect", "switch"} /\ current_process \in {t, NoProc}
    BY <1>0, <1>2, <2>1 DEF CpuMatches
  <2>3. \A p \in Procs \ {t} : irqs'[p] = irqs[p]
    BY <1>0, <2>1 DEF TypeOK
  <2>4. StatusMatchesCode'
    BY <1>0, <1>3, <2>1 DEF StatusMatchesCode, Dying
  <2>5. CpuMatches'
    BY <1>0, <1>2, <1>3, <2>1, <2>2 DEF CpuMatches
  <2>6. SavedContexts'
    BY <1>0, <1>2, <1>3, <2>1, <2>3, BornArePids DEF SavedContexts
  <2>7. FreedAreDead' /\ Zombie'
    BY <1>0, <1>2, <1>3, <2>1, <2>2 DEF FreedAreDead, Zombie, NoProc
  <2>8. Unborn'
    BY <1>0, <1>2, <1>3, <2>1, <2>3 DEF Unborn
  <2> QED
    BY <1>1, <2>4, <2>5, <2>6, <2>7, <2>8 DEF QuietInv
<1>5. CASE YieldStays(t) \/ YieldReturns(t)
  <2>1. /\ UNCHANGED <<ctx, objects, kernel_stack, cpu, cr3,
                       ret, old_proc, new_proc, waiter, irqs>>
        /\ pc[t] \in {"yield", "resume"}
        /\ pc' = [pc EXCEPT ![t] = IF ret[t] = "wait" THEN "wait" ELSE "halted"]
    BY <1>5 DEF YieldStays, YieldReturns, AfterYield, At
  <2>2. /\ \A p \in Procs \ {t} : pc'[p] = pc[p]
        /\ pc'[t] = IF ret[t] = "wait" THEN "wait" ELSE "halted"
        /\ ret[t] \in {"wait", "exit"}
    BY <1>0, <2>1 DEF TypeOK
  <2>3. StatusMatchesCode'
    BY <1>0, <1>3, <2>1, <2>2 DEF StatusMatchesCode, Dying
  <2>4. CpuMatches'
    BY <1>0, <1>2, <1>3, <2>1, <2>2 DEF CpuMatches, ctx
  <2>5. SavedContexts'
    BY <1>0, <1>2, <1>3, <2>1, <2>2, BornArePids DEF SavedContexts
  <2>6. FreedAreDead' /\ Zombie' /\ Unborn'
    BY <1>0, <1>2, <1>3, <2>1, <2>2
    DEF FreedAreDead, Zombie, Unborn, ctx, objects
  <2> QED
    BY <1>1, <2>3, <2>4, <2>5, <2>6 DEF QuietInv
<1>6. CASE YieldSelects(t)
  <2>1. PICK i \in Offsets :
           /\ FirstRunnable(current_process, i)
           /\ new_proc' = [new_proc EXCEPT ![t] = Candidate(i)]
           /\ cr3' = Candidate(i)
    BY <1>6 DEF YieldSelects
  <2>2. /\ UNCHANGED <<ctx, objects, kernel_stack, cpu, intr, ret, waiter, irqs>>
        /\ pc[t] = "yield" /\ irqs[t] = 0 /\ current_process # NoProc
        /\ old_proc' = [old_proc EXCEPT ![t] = current_process]
        /\ pc' = [pc EXCEPT ![t] = "elect"]
    BY <1>6 DEF YieldSelects, At
  <2>3. current_process = t
    BY <1>0, <1>2, <2>2 DEF CpuMatches
  <2> DEFINE c == Candidate(i)
  <2>4. c \in Born /\ c # t /\ status[c] = "Alive"
    <3>1. c \in Born /\ c \in Procs
      BY <1>0, CandidateBorn
    <3> QED
      BY <1>0, <2>1, <2>3, <3>1 DEF FirstRunnable, Runnable, TypeOK
  <2>5. /\ \A p \in Procs \ {t} : pc'[p] = pc[p]
        /\ pc'[t] = "elect" /\ old_proc'[t] = t /\ new_proc'[t] = c
    BY <1>0, <2>1, <2>2, <2>3 DEF TypeOK
  <2> HIDE DEF c
  <2>6. StatusMatchesCode'
    BY <1>0, <1>3, <2>2, <2>5 DEF StatusMatchesCode, Dying
  <2>7. CpuMatches'
    BY <1>2, <1>3, <2>1, <2>2, <2>3, <2>4, <2>5 DEF CpuMatches, ctx, c
  <2>8. SavedContexts'
    BY <1>0, <1>2, <1>3, <2>2, <2>5, BornArePids DEF SavedContexts
  <2>9. FreedAreDead' /\ Zombie' /\ Unborn'
    BY <1>0, <1>2, <1>3, <2>2, <2>5
    DEF FreedAreDead, Zombie, Unborn, ctx, objects
  <2> QED
    BY <1>1, <2>6, <2>7, <2>8, <2>9 DEF QuietInv
<1>7. CASE YieldElects(t)
  <2>1. /\ UNCHANGED <<processes, current_process_index, pending_zombie, objects,
                       machine, ret, old_proc, new_proc, waiter, irqs>>
        /\ current_process' = new_proc[t]
        /\ pc[t] = "elect"
        /\ pc' = [pc EXCEPT ![t] = "switch"]
    BY <1>7 DEF YieldElects, At
  <2>2. \A p \in Procs \ {t} : pc'[p] = pc[p]
    BY <1>0, <2>1 DEF TypeOK
  <2>3. pc'[t] = "switch"
    BY <1>0, <2>1 DEF TypeOK
  <2>4. StatusMatchesCode'
    BY <1>0, <1>3, <2>1, <2>2, <2>3 DEF StatusMatchesCode, Dying
  <2>5. CpuMatches'
    BY <1>0, <1>2, <1>3, <2>1, <2>3 DEF CpuMatches, machine
  <2>6. SavedContexts'
    BY <1>0, <1>2, <1>3, <2>1, <2>2, BornArePids DEF SavedContexts, machine
  <2>7. FreedAreDead'
    BY <1>0, <1>2, <1>3, <2>1 DEF FreedAreDead, CpuMatches, objects
  <2>8. Zombie' /\ Unborn'
    BY <1>0, <1>2, <1>3, <2>1, <2>2 DEF Zombie, Unborn, objects, machine
  <2> QED
    BY <1>1, <2>4, <2>5, <2>6, <2>7, <2>8 DEF QuietInv
<1>8. CASE YieldSwitches(t)
  <2> DEFINE c == new_proc[t]
  <2>1. /\ UNCHANGED <<ctx, objects, cr3, ret, old_proc, new_proc, waiter, irqs>>
        /\ pc[t] = "switch"
        /\ ProcSwitch(old_proc[t], c, intr)
        /\ pc' = [pc EXCEPT ![t] = "resume"]
    BY <1>8 DEF YieldSwitches, At
  <2>2. /\ old_proc[t] = t /\ c \in Born /\ c # t /\ status[c] = "Alive"
        /\ cr3 = c /\ current_process = c
    BY <1>0, <1>2, <2>1 DEF CpuMatches
  <2> HIDE DEF c
  <2>3. /\ cpu' = c
        /\ \A p \in Procs \ {c} :
               kernel_stack'[p] = IF p = t THEN t ELSE kernel_stack[p]
        /\ pc[c] \notin {"elect", "switch"}
    BY <1>2, <2>1, <2>2, QuietSwitch
  <2>4. (\A p \in Procs \ {t} : pc'[p] = pc[p]) /\ pc'[t] = "resume"
    BY <1>0, <2>1 DEF TypeOK
  <2>5. StatusMatchesCode'
    BY <1>0, <1>3, <2>1, <2>4 DEF StatusMatchesCode, Dying
  <2>6. CpuMatches'
    BY <1>0, <1>3, <2>1, <2>2, <2>3, <2>4, BornArePids DEF CpuMatches, ctx
  <2>7. SavedContexts'
    BY <1>0, <1>2, <1>3, <2>1, <2>3, <2>4, BornArePids DEF SavedContexts
  <2>8. FreedAreDead'
    BY <1>0, <1>3, <2>1 DEF FreedAreDead, ctx, objects
  <2>9. Zombie'
    BY <1>0, <1>3, <2>1, <2>2, <2>3 DEF Zombie, ctx, objects
  <2>10. Unborn'
    BY <1>0, <1>2, <1>3, <2>1, <2>4 DEF Unborn
  <2> QED
    BY <1>1, <2>5, <2>6, <2>7, <2>8, <2>9, <2>10 DEF QuietInv
<1>9. CASE WaitScans(t)
  <2>1. /\ UNCHANGED <<ctx, current_pid, status, time, freed, kernel_stack, cpu,
                       cr3, old_proc, new_proc, waiter, irqs>>
        /\ pc[t] = "wait"
    BY <1>9 DEF WaitScans, At
  <2>2. \/ /\ pc' = [pc EXCEPT ![t] = "yield"]
           /\ ret' = [ret EXCEPT ![t] = "wait"]
        \/ /\ pc' = [pc EXCEPT ![t] = "user"]
           /\ UNCHANGED ret
    BY <1>9 DEF WaitScans
  <2>3. /\ \A p \in Procs \ {t} : pc'[p] = pc[p] /\ ret'[p] = ret[p]
        /\ pc'[t] = "user" \/ (pc'[t] = "yield" /\ ret'[t] = "wait")
    <3>1. CASE /\ pc' = [pc EXCEPT ![t] = "yield"]
               /\ ret' = [ret EXCEPT ![t] = "wait"]
      BY <1>0, <3>1 DEF TypeOK
    <3>2. CASE /\ pc' = [pc EXCEPT ![t] = "user"]
               /\ UNCHANGED ret
      BY <1>0, <3>2 DEF TypeOK
    <3> QED
      BY <2>2, <3>1, <3>2
  <2>4. StatusMatchesCode'
    BY <1>0, <1>3, <2>1, <2>3 DEF StatusMatchesCode, Dying
  <2>5. CpuMatches'
    BY <1>0, <1>2, <1>3, <2>1, <2>3 DEF CpuMatches, ctx
  <2>6. SavedContexts'
    BY <1>0, <1>2, <1>3, <2>1, <2>3, BornArePids DEF SavedContexts
  <2>7. FreedAreDead' /\ Zombie' /\ Unborn'
    BY <1>0, <1>2, <1>3, <2>1, <2>3 DEF FreedAreDead, Zombie, Unborn, ctx
  <2> QED
    BY <1>1, <2>4, <2>5, <2>6, <2>7 DEF QuietInv
<1> QED
  BY <1>4, <1>5, <1>6, <1>7, <1>8, <1>9 DEF Kernel, SystemCall

\* fork(), exit() and the entry of wait().
LEMMA QuietUser ==
    ASSUME QuietInv, NEW t \in Procs, User(t)
    PROVE  QuietInv'
<1>0. /\ TableInv /\ TypeOK /\ StatusMatchesCode /\ CpuMatches /\ SavedContexts
      /\ FreedAreDead /\ Zombie /\ Unborn
  BY DEF QuietInv, TableInv
<1>1. TableInv'
  BY <1>0, TableUser
<1>2. /\ cpu = t /\ t \in Born /\ irqs[t] = 0 /\ pc[t] = "user"
      /\ current_process = t /\ cr3 = t
  BY <1>0 DEF User, Fork, Exit, WaitEnters, At, CpuMatches
<1>3. CASE Fork(t)
  <2>1. /\ current_pid <= MaxPid
        /\ current_pid' = current_pid + 1
        /\ kernel_stack' = [kernel_stack EXCEPT ![current_pid] = current_pid]
        /\ UNCHANGED <<current_process, current_process_index, pending_zombie,
                       status, time, freed, cpu, intr, cr3, threads>>
    BY <1>3 DEF Fork
  <2>2. /\ current_pid \in Procs \ Born
        /\ Born' = Born \cup {current_pid}
    BY <1>0, <2>1, ForkPid
  <2>3. /\ \A p \in Procs \ {current_pid} : kernel_stack'[p] = kernel_stack[p]
        /\ kernel_stack'[current_pid] = current_pid
    BY <1>0, <2>1, <2>2 DEF TypeOK
  <2>4. StatusMatchesCode'
    BY <1>0, <2>1 DEF StatusMatchesCode, Dying, threads
  <2>5. CpuMatches'
    BY <1>0, <1>2, <2>1, <2>2 DEF CpuMatches, threads
  <2>6. SavedContexts'
    <3> SUFFICES ASSUME NEW p \in Born', status[p] = "Alive", p # cpu
                 PROVE  /\ kernel_stack'[p] = p
                        /\ pc[p] \notin {"elect", "switch"}
                        /\ irqs[p] > 0 \/ pc[p] \in {"resume", "user"}
      BY <2>1 DEF SavedContexts, threads
    <3>1. CASE p \in Born
      BY <1>0, <2>2, <2>3, <3>1, BornArePids DEF SavedContexts
    <3>2. CASE p = current_pid
      BY <1>0, <2>2, <2>3, <3>2 DEF Unborn
    <3> QED
      BY <2>2, <3>1, <3>2
  <2>7. FreedAreDead' /\ Zombie' /\ Unborn'
    BY <1>0, <2>1, <2>2 DEF FreedAreDead, Zombie, Unborn, threads
  <2> QED
    BY <1>1, <2>4, <2>5, <2>6, <2>7 DEF QuietInv
<1>4. CASE Exit(t)
  <2>1. /\ status' = [status EXCEPT ![t] = "Dead"]
        /\ pc' = [pc EXCEPT ![t] = "yield"]
        /\ ret' = [ret EXCEPT ![t] = "exit"]
        /\ UNCHANGED <<ctx, current_pid, time, children, freed, machine,
                       old_proc, new_proc, waiter, irqs>>
    BY <1>2, <1>4 DEF Exit
  <2>2. /\ \A p \in Procs \ {t} : /\ pc'[p] = pc[p]
                                  /\ ret'[p] = ret[p]
                                  /\ status'[p] = status[p]
        /\ pc'[t] = "yield" /\ ret'[t] = "exit" /\ status'[t] = "Dead"
        /\ Born' = Born
    BY <1>0, <2>1 DEF TypeOK, Born
  <2>3. StatusMatchesCode'
    BY <1>0, <2>2 DEF StatusMatchesCode, Dying
  <2>4. CpuMatches'
    BY <1>0, <1>2, <2>1, <2>2 DEF CpuMatches, ctx, machine
  <2>5. SavedContexts'
    BY <1>0, <1>2, <2>1, <2>2, BornArePids DEF SavedContexts, machine
  <2>6. FreedAreDead'
    BY <1>0, <2>1, <2>2 DEF FreedAreDead, ctx, TypeOK
  <2>7. Zombie'
    BY <1>0, <2>1, <2>2, BornArePids DEF Zombie, ctx, machine
  <2>8. Unborn'
    BY <1>0, <1>2, <2>1, <2>2 DEF Unborn
  <2> QED
    BY <1>1, <2>3, <2>4, <2>5, <2>6, <2>7, <2>8 DEF QuietInv
<1>5. CASE WaitEnters(t)
  <2>1. /\ pc' = [pc EXCEPT ![t] = "wait"]
        /\ UNCHANGED <<ctx, objects, machine, ret, old_proc, new_proc, irqs>>
    BY <1>5 DEF WaitEnters
  <2>2. /\ \A p \in Procs \ {t} : pc'[p] = pc[p]
        /\ pc'[t] = "wait"
        /\ Born' = Born
    BY <1>0, <2>1 DEF TypeOK, Born, objects
  <2>3. StatusMatchesCode'
    BY <1>0, <1>2, <2>1, <2>2 DEF StatusMatchesCode, Dying, objects
  <2>4. CpuMatches'
    BY <1>0, <1>2, <2>1, <2>2 DEF CpuMatches, ctx, machine
  <2>5. SavedContexts'
    BY <1>0, <1>2, <2>1, <2>2, BornArePids DEF SavedContexts, machine, objects
  <2>6. FreedAreDead' /\ Zombie' /\ Unborn'
    BY <1>0, <1>2, <2>1, <2>2
    DEF FreedAreDead, Zombie, Unborn, ctx, machine, objects
  <2> QED
    BY <1>1, <2>3, <2>4, <2>5, <2>6 DEF QuietInv
<1> QED
  BY <1>3, <1>4, <1>5 DEF User

\* QuietInv is inductive when no tick falls into the window of yield().
LEMMA QuietNext == QuietYield /\ QuietInv /\ [Next]_vars => QuietInv'
<1> SUFFICES ASSUME QuietYield, QuietInv, [Next]_vars PROVE QuietInv'
  OBVIOUS
<1>1. CASE UNCHANGED vars
  <2>1. TableInv'
    BY <1>1, TableNext DEF QuietInv
  <2>2. StatusMatchesCode' /\ CpuMatches' /\ SavedContexts'
    BY <1>1 DEF QuietInv, StatusMatchesCode, Dying, CpuMatches, SavedContexts,
                Born, vars, ctx, objects, machine, threads
  <2>3. FreedAreDead' /\ Zombie' /\ Unborn'
    BY <1>1 DEF QuietInv, FreedAreDead, Zombie, Unborn,
                Born, vars, ctx, objects, machine, threads
  <2> QED
    BY <2>1, <2>2, <2>3 DEF QuietInv
<1>2. CASE Next
  BY <1>2, QuietTimer, QuietKernel, QuietUser DEF Next
<1> QED
  BY <1>1, <1>2

-----------------------------------------------------------------------------
(* What holds when yield() is not disturbed. *)

\* QuietInv holds in every state under QuietYield.
LEMMA QuietInvariant == QuietYield /\ Spec => []QuietInv
<1>1. SUFFICES ASSUME QuietYield PROVE Spec => []QuietInv
  OBVIOUS
<1>2. QuietInv /\ [Next]_vars => QuietInv'
  BY <1>1, QuietNext
<1> QED
  BY <1>2, QuietInit, PTL DEF Spec

\* Every live process that does not execute can be resumed from its own saved
\* context, and the CPU never loads a stale one.
THEOREM ContextsStayIntact == QuietYield /\ Spec => []ContextsIntact
<1>1. QuietInv => ContextsIntact
  <2> SUFFICES ASSUME QuietInv PROVE ContextsIntact
    OBVIOUS
  <2>1. cpu # Lost
    BY DEF QuietInv, CpuMatches, Born, Lost
  <2> QED
    BY <2>1 DEF QuietInv, SavedContexts, ContextsIntact
<1> QED
  BY <1>1, QuietInvariant, PTL

\* ctx.current_process is the process that executes.
THEOREM CurrentStaysRunning == QuietYield /\ Spec => []CurrentIsRunning
<1>1. QuietInv => CurrentIsRunning
  BY DEF QuietInv, CpuMatches, CurrentIsRunning
<1> QED
  BY <1>1, QuietInvariant, PTL

\* User code never runs under another process's page tables.
THEOREM AddressSpaceIsOwn == QuietYield /\ Spec => []OwnAddressSpace
<1>1. QuietInv => OwnAddressSpace
  BY DEF QuietInv, CpuMatches, OwnAddressSpace, Point
<1> QED
  BY <1>1, QuietInvariant, PTL

\* reapPendingZombie deletes only a process that has exited, exists and is
\* not executed by anyone.
THEOREM ReapingIsSafe == QuietYield /\ Spec => []ZombieIsSafeToReap
<1>1. QuietInv => ZombieIsSafeToReap
  <2> SUFFICES ASSUME QuietInv, pending_zombie # NoProc
               PROVE  ZombieIsSafeToReap
    BY DEF ZombieIsSafeToReap
  <2>1. /\ pending_zombie \in Born \ freed
        /\ status[pending_zombie] = "Dead"
        /\ pending_zombie # cpu
    BY DEF QuietInv, Zombie
  <2>2. current_process = cpu \/ current_process = NoProc
            \/ status[current_process] = "Alive"
    BY DEF QuietInv, CpuMatches
  <2> QED
    BY <2>1, <2>2 DEF ZombieIsSafeToReap
<1> QED
  BY <1>1, QuietInvariant, PTL

\* At boot the dispatcher has the first process running.
LEMMA AbstractInit == Init => Abstract!Init
<1> SUFFICES ASSUME Init PROVE Abstract!Init
  OBVIOUS
<1>1. Born = {1} /\ 1 \in Procs
  BY ConstantsAssumption DEF Init, Born, Procs
<1> QED
  BY <1>1 DEF Init, Abstract!Init

AliveProcs == {p \in Born : status[p] = "Alive"}
DeadProcs  == {p \in Born : status[p] = "Dead"}
AbstractVars == <<AliveProcs, DeadProcs, cpu>>

\* Every step is one of the dispatcher's, or changes nothing it sees.
LEMMA AbstractStep ==
    QuietYield /\ QuietInv /\ [Next]_vars => [Abstract!Next]_AbstractVars
<1> SUFFICES ASSUME QuietYield, QuietInv, Next
             PROVE  Abstract!Next \/ UNCHANGED AbstractVars
  BY DEF vars, objects, machine, AbstractVars, AliveProcs, DeadProcs, Born
<1>0. /\ TableInv /\ TypeOK /\ CpuMatches /\ SavedContexts /\ Unborn
  BY DEF QuietInv, TableInv
<1>1. PICK t \in Procs : Timer(t) \/ Kernel(t) \/ User(t)
  BY DEF Next
\* A change of the running thread that leaves the processes as they are.
<1>2. ASSUME NEW c \in Born, status[c] = "Alive", c # cpu, cpu' = c,
             UNCHANGED <<current_pid, status>>
      PROVE  Abstract!Next
  <2>1. Abstract!Dispatch(c)
    BY <1>2 DEF Abstract!Dispatch, Born
  <2>2. c \in Abstract!Pids
    BY <1>0, BornArePids DEF Abstract!Pids, Procs
  <2> QED
    BY <2>1, <2>2 DEF Abstract!Next
<1>3. CASE Timer(t)
  <2>1. UNCHANGED <<current_pid, status>>
    BY <1>3 DEF Timer, TickStays, TickLast, TickSwitches
  <2>2. CASE TickStays(t) \/ TickLast(t)
    BY <2>1, <2>2 DEF TickStays, TickLast, machine, AbstractVars, AliveProcs,
                      DeadProcs, Born
  <2>3. CASE TickSwitches(t)
    <3>1. cpu = t /\ current_process = t
      <4>1. Interrupts(t) /\ current_process # NoProc
        BY <2>3 DEF TickSwitches
      <4> QED
        BY <4>1, QuietInterrupt
    <3>2. PICK i \in Offsets, s \in {t, NoProc} :
             /\ FirstRunnable(NoProc, i)
             /\ Candidate(i) # t
             /\ ProcSwitch(s, Candidate(i), FALSE)
      BY <2>3, <3>1 DEF TickSwitches
    <3>3. Candidate(i) \in Born /\ status[Candidate(i)] = "Alive"
      BY <1>0, <3>2, CandidateBorn DEF FirstRunnable, Runnable, TypeOK
    <3>4. cpu' = Candidate(i)
      BY <3>1, <3>2, <3>3, QuietSwitch
    <3> QED
      BY <1>2, <2>1, <3>1, <3>2, <3>3, <3>4
  <2> QED
    BY <1>3, <2>2, <2>3 DEF Timer
<1>4. CASE Kernel(t)
  <2>1. UNCHANGED <<current_pid, status>>
    BY <1>4 DEF Kernel, SystemCall, TickResumes, YieldStays, YieldSelects, YieldElects,
                YieldSwitches, YieldReturns, WaitScans, objects
  <2>2. CASE YieldSwitches(t)
    <3>1. /\ cpu = t /\ pc[t] = "switch"
          /\ ProcSwitch(old_proc[t], new_proc[t], intr)
      BY <2>2 DEF YieldSwitches, At
    <3>2. new_proc[t] \in Born \ {t} /\ status[new_proc[t]] = "Alive"
      BY <1>0, <3>1 DEF CpuMatches
    <3>3. cpu' = new_proc[t]
      BY <3>1, <3>2, QuietSwitch
    <3> QED
      BY <1>2, <2>1, <3>1, <3>2, <3>3
  <2>3. CASE ~YieldSwitches(t)
    <3>1. UNCHANGED cpu
      BY <1>4, <2>3 DEF Kernel, SystemCall, TickResumes, YieldStays, YieldSelects,
                        YieldElects, YieldReturns, WaitScans, machine
    <3> QED
      BY <2>1, <3>1 DEF AbstractVars, AliveProcs, DeadProcs, Born
  <2> QED
    BY <2>2, <2>3
<1>5. CASE User(t)
  <2>1. /\ cpu = t /\ t \in Born /\ status[t] = "Alive"
        /\ current_process = t \/ current_process = NoProc
    <3>1. cpu = t /\ pc[t] = "user"
      BY <1>5 DEF User, Fork, Exit, WaitEnters, At
    <3>2. status[t] # "Dead"
      BY <1>1, <3>1 DEF QuietInv, StatusMatchesCode, Dying
    <3> QED
      BY <1>0, <1>1, <3>1, <3>2 DEF CpuMatches, TypeOK
  <2>2. CASE Fork(t)
    <3>1. /\ current_pid <= MaxPid /\ current_pid' = current_pid + 1
          /\ UNCHANGED <<status, cpu>>
      BY <2>2 DEF Fork
    <3>2. /\ current_pid \in Procs /\ current_pid \notin Born
          /\ Born' = Born \cup {current_pid}
      BY <1>0, <3>1, ForkPid
    <3>3. status[current_pid] = "Alive"
      BY <1>0, <3>2 DEF Unborn
    <3>4. PICK n \in Procs : n = current_pid
      BY <3>2
    <3>5. Abstract!Create(n)
      BY <2>1, <3>1, <3>2, <3>3, <3>4 DEF Abstract!Create
    <3> QED
      BY <3>5 DEF Abstract!Next, Abstract!Pids, Procs
  <2>3. CASE Exit(t)
    <3>1. /\ current_process = t
          /\ status' = [status EXCEPT ![t] = "Dead"]
          /\ UNCHANGED <<current_pid, cpu>>
      BY <2>1, <2>3 DEF Exit, machine
    <3>2. /\ Born' = Born /\ status'[t] = "Dead"
          /\ \A p \in Born \ {t} : status'[p] = status[p]
      BY <1>0, <1>1, <3>1, BornArePids DEF TypeOK, Born
    <3>3. Abstract!Finish
      BY <2>1, <3>1, <3>2 DEF Abstract!Finish
    <3> QED
      BY <3>3 DEF Abstract!Next
  <2>4. CASE WaitEnters(t)
    BY <2>4 DEF WaitEnters, objects, machine, AbstractVars, AliveProcs,
                DeadProcs, Born
  <2> QED
    BY <1>5, <2>2, <2>3, <2>4 DEF User
<1> QED
  BY <1>1, <1>3, <1>4, <1>5

\* The scheduler implements Dispatcher: a dead process never gets the CPU
\* again, and the CPU goes from a process only to a live one.
THEOREM SchedulerImplementsDispatcher ==
    QuietYield /\ Spec => ImplementsDispatcher
<1>1. SUFFICES ASSUME QuietYield PROVE Spec => ImplementsDispatcher
  OBVIOUS
<1>2. QuietInv /\ [Next]_vars => [Abstract!Next]_AbstractVars
  BY <1>1, AbstractStep
<1>3. Spec => []QuietInv
  BY <1>1, QuietInvariant
<1> QED
  BY <1>2, <1>3, AbstractInit, PTL
  DEF Spec, ImplementsDispatcher, Abstract!Spec, AbstractVars, AliveProcs, DeadProcs

-----------------------------------------------------------------------------
(* The interrupt flag in user mode, wherever the timer lands.              *)

\* A suspended context is one of a thread that exists and does not execute,
\* and no two kernel stack pointers designate the same one.
SavedOnce ==
    /\ cpu \in Born \cup {Lost}
    /\ \A p \in Procs :
           kernel_stack[p] # Stale => kernel_stack[p] \in Born \ {cpu}
    /\ \A p, q \in Procs :
           kernel_stack[p] # Stale /\ kernel_stack[p] = kernel_stack[q] => p = q

\* Whichever process a context is found in, it resumes in a timer handler,
\* after the context switch of yield(), or as a child that has never run.
SavedResumable ==
    \A p \in Procs : kernel_stack[p] # Stale =>
        \/ irqs[kernel_stack[p]] > 0
        \/ pc[kernel_stack[p]] \in {"resume", "user"}

\* The inductive invariant.
FlagInv ==
    /\ TableInv
    /\ SavedOnce
    /\ SavedResumable
    /\ Unborn
    /\ UserInterruptible

\* At boot nothing is suspended.
LEMMA FlagInit == Init => FlagInv
<1> SUFFICES ASSUME Init PROVE FlagInv
  OBVIOUS
<1>1. 1 \in Procs /\ Born = {1}
  BY ConstantsAssumption DEF Init, Born, Procs
<1>2. SavedOnce /\ SavedResumable
  BY <1>1 DEF Init, SavedOnce, SavedResumable
<1>3. Unborn /\ UserInterruptible
  BY <1>1 DEF Init, Unborn, UserInterruptible
<1> QED
  BY <1>2, <1>3, TableInit DEF FlagInv

\* Steps that neither create a process nor switch contexts keep the invariant
\* if they change nobody but the executing thread, and leave interrupts on in
\* user mode.
LEMMA FlagUnswitched ==
    ASSUME FlagInv, NEW t \in Procs, cpu = t,
           UNCHANGED <<current_pid, kernel_stack, cpu>>,
           \A p \in Procs \ {t} : pc'[p] = pc[p] /\ irqs'[p] = irqs[p],
           \A p \in Procs \ Born : status'[p] = status[p],
           Point(t)' \in {"user", "halted"} => intr'
    PROVE  SavedOnce' /\ SavedResumable' /\ Unborn' /\ UserInterruptible'
<1>1. Born' = Born /\ t \in Born
  BY DEF FlagInv, SavedOnce, Born, Procs, Lost
<1>2. SavedOnce'
  BY <1>1 DEF FlagInv, SavedOnce
<1>3. SavedResumable'
  <2> SUFFICES ASSUME NEW p \in Procs, kernel_stack[p] # Stale
               PROVE  \/ irqs'[kernel_stack[p]] > 0
                      \/ pc'[kernel_stack[p]] \in {"resume", "user"}
    BY DEF SavedResumable
  <2>1. kernel_stack[p] \in Procs \ {t}
    BY BornArePids DEF FlagInv, TableInv, SavedOnce
  <2> QED
    BY <2>1 DEF FlagInv, SavedResumable
<1>4. Unborn'
  BY <1>1 DEF FlagInv, Unborn
<1>5. UserInterruptible'
  BY DEF UserInterruptible
<1> QED
  BY <1>2, <1>3, <1>4, <1>5

\* The context switch, by a thread that will resume in a timer handler or in
\* yield(), or never.
LEMMA FlagSwitched ==
    ASSUME FlagInv, NEW t \in Procs, cpu = t, UNCHANGED current_pid,
           NEW saved \in Procs \cup {NoProc}, NEW next \in Procs,
           NEW flag \in BOOLEAN, ProcSwitch(saved, next, flag),
           \A p \in Procs \ {t} : pc'[p] = pc[p] /\ irqs'[p] = irqs[p],
           saved = NoProc \/ irqs'[t] > 0 \/ pc'[t] = "resume",
           \A p \in Procs \ Born : status'[p] = status[p]
    PROVE  SavedOnce' /\ SavedResumable' /\ Unborn' /\ UserInterruptible'
<1> DEFINE thread == kernel_stack[next]
<1> USE DEF Stale, Lost, NoProc
<1>1. /\ Born' = Born /\ t \in Born /\ t # 0
      /\ Born \subseteq Procs
  BY BornArePids DEF FlagInv, TableInv, SavedOnce, Born, Procs
<1>2. /\ cpu' = thread
      /\ \A p \in Procs : kernel_stack'[p] =
             IF p = next THEN 0 ELSE IF p = saved THEN t ELSE kernel_stack[p]
      /\ intr' = (flag \/ (thread # 0 /\ irqs[thread] = 0 /\ pc[thread] = "user"))
  BY DEF ProcSwitch
<1>3. \A p \in Procs : kernel_stack[p] # 0 =>
          /\ kernel_stack[p] \in Born /\ kernel_stack[p] \in Procs
          /\ kernel_stack[p] # t
          /\ irqs[kernel_stack[p]] > 0 \/ pc[kernel_stack[p]] \in {"resume", "user"}
  BY <1>1 DEF FlagInv, SavedOnce, SavedResumable
<1>4. \A p, q \in Procs :
          kernel_stack[p] # 0 /\ kernel_stack[p] = kernel_stack[q] => p = q
  BY DEF FlagInv, SavedOnce
<1>5. SavedOnce'
  <2>1. cpu' \in Born \cup {0}
    BY <1>2, <1>3
  <2>2. ASSUME NEW p \in Procs, kernel_stack'[p] # 0
        PROVE  kernel_stack'[p] \in Born \ {cpu'}
    BY <1>1, <1>2, <1>3, <1>4, <2>2
  <2>3. ASSUME NEW p \in Procs, NEW q \in Procs,
               kernel_stack'[p] # 0, kernel_stack'[p] = kernel_stack'[q]
        PROVE  p = q
    BY <1>1, <1>2, <1>3, <1>4, <2>3
  <2> QED
    BY <1>1, <2>1, <2>2, <2>3 DEF SavedOnce
<1>6. SavedResumable'
  <2> SUFFICES ASSUME NEW p \in Procs, kernel_stack'[p] # 0
               PROVE  \/ irqs'[kernel_stack'[p]] > 0
                      \/ pc'[kernel_stack'[p]] \in {"resume", "user"}
    BY DEF SavedResumable
  <2>1. CASE p = saved
    BY <1>2, <2>1 DEF Procs
  <2>2. CASE p # saved
    BY <1>2, <1>3, <2>2
  <2> QED
    BY <2>1, <2>2
<1>7. Unborn'
  BY <1>1 DEF FlagInv, Unborn
<1>8. UserInterruptible'
  <2> SUFFICES ASSUME cpu' # 0, Point(cpu)' \in {"user", "halted"} PROVE intr'
    BY DEF UserInterruptible
  <2>1. /\ thread \in Procs /\ thread # t /\ cpu' = thread
        /\ irqs'[thread] = irqs[thread] /\ pc'[thread] = pc[thread]
        /\ irqs[thread] > 0 \/ pc[thread] \in {"resume", "user"}
    BY <1>2, <1>3
  <2>2. irqs[thread] \in Nat
    BY <2>1 DEF FlagInv, TableInv, TypeOK
  <2>3. irqs[thread] = 0 /\ pc[thread] = "user"
    BY <2>1, <2>2 DEF Point
  <2> QED
    BY <1>2, <2>1, <2>3
<1> QED
  BY <1>5, <1>6, <1>7, <1>8

\* The timer interrupt keeps it, whichever thread it finds and wherever.
LEMMA FlagTimer ==
    ASSUME FlagInv, NEW t \in Procs, Timer(t)
    PROVE  FlagInv'
<1>0. TableInv /\ TypeOK /\ RefersToBorn
  BY DEF FlagInv, TableInv
<1>1. TableInv'
  BY <1>0, TableTimer
<1>2. cpu = t /\ intr
  BY DEF Timer, TickStays, TickLast, TickSwitches, Interrupts
<1>3. CASE TickStays(t) \/ TickLast(t)
  <2>1. UNCHANGED <<current_pid, status, machine, threads>>
    BY <1>3 DEF TickStays, TickLast
  <2> QED
    BY <1>1, <1>2, <2>1, FlagUnswitched DEF FlagInv, machine, threads
<1>4. CASE TickSwitches(t)
  <2>1. PICK i \in Offsets :
          IF status[current_process] = "Dead"
          THEN ProcSwitch(NoProc, Candidate(i), FALSE) /\ UNCHANGED irqs
          ELSE /\ irqs' = [irqs EXCEPT ![t] = @ + 1]
               /\ ProcSwitch(current_process, Candidate(i), FALSE)
    BY <1>4 DEF TickSwitches
  <2>2. UNCHANGED <<current_pid, status, pc>>
    BY <1>4 DEF TickSwitches
  <2>3. Candidate(i) \in Procs
    BY <1>0, CandidateBorn
  <2>4. /\ current_process \in Procs \cup {NoProc}
        /\ irqs \in [Procs -> 0 .. MaxNest]
    BY <1>0 DEF TypeOK
  <2>5. CASE status[current_process] = "Dead"
    <3>1. ProcSwitch(NoProc, Candidate(i), FALSE) /\ UNCHANGED irqs
      BY <2>1, <2>5
    <3> QED
      BY <1>1, <1>2, <2>2, <2>3, <3>1, FlagSwitched DEF FlagInv
  <2>6. CASE status[current_process] # "Dead"
    <3>1. /\ irqs' = [irqs EXCEPT ![t] = @ + 1]
          /\ ProcSwitch(current_process, Candidate(i), FALSE)
      BY <2>1, <2>6
    <3>2. irqs'[t] > 0 /\ \A p \in Procs \ {t} : irqs'[p] = irqs[p]
      BY <2>4, <3>1, ConstantsAssumption
    <3> QED
      BY <1>1, <1>2, <2>2, <2>3, <2>4, <3>1, <3>2, FlagSwitched DEF FlagInv
  <2> QED
    BY <2>5, <2>6
<1> QED
  BY <1>3, <1>4 DEF Timer

\* What yield() returns to: a scan of wait(), or user mode with interrupts on.
LEMMA FlagAfterYield ==
    ASSUME FlagInv, NEW t \in Procs, cpu = t, irqs[t] = 0, AfterYield(t),
           UNCHANGED <<current_pid, status, kernel_stack, cpu, irqs>>
    PROVE  SavedOnce' /\ SavedResumable' /\ Unborn' /\ UserInterruptible'
<1>1. /\ ret \in [Procs -> {"wait", "exit"}]
      /\ pc \in [Procs -> {"user", "halted", "wait", "yield", "elect",
                           "switch", "resume"}]
  BY DEF FlagInv, TableInv, TypeOK
<1>2. /\ pc' = [pc EXCEPT ![t] = IF ret[t] = "wait" THEN "wait" ELSE "halted"]
      /\ intr' = (intr \/ ret[t] = "exit")
  BY DEF AfterYield
<1>3. Point(t)' \in {"user", "halted"} => intr'
  BY <1>1, <1>2 DEF Point
<1>4. \A p \in Procs \ {t} : pc'[p] = pc[p] /\ irqs'[p] = irqs[p]
  BY <1>1, <1>2
<1> QED
  BY <1>3, <1>4, FlagUnswitched

\* The kernel code of a thread keeps it.
LEMMA FlagKernel ==
    ASSUME FlagInv, NEW t \in Procs, Kernel(t)
    PROVE  FlagInv'
<1>0. TableInv /\ TypeOK /\ RefersToBorn
  BY DEF FlagInv, TableInv
<1>1. TableInv'
  BY <1>0, TableKernel
<1>2. /\ pc \in [Procs -> {"user", "halted", "wait", "yield", "elect",
                           "switch", "resume"}]
      /\ irqs \in [Procs -> 0 .. MaxNest]
      /\ intr \in BOOLEAN
  BY <1>0 DEF TypeOK
<1>3. CASE TickResumes(t)
  <2>1. /\ cpu = t /\ intr' = TRUE
        /\ irqs' = [irqs EXCEPT ![t] = @ - 1]
        /\ UNCHANGED <<current_pid, status, kernel_stack, cpu, pc>>
    BY <1>3 DEF TickResumes
  <2>2. \A p \in Procs \ {t} : irqs'[p] = irqs[p]
    BY <1>2, <2>1
  <2> QED
    BY <1>1, <2>1, <2>2, FlagUnswitched DEF FlagInv
<1>4. CASE YieldStays(t) \/ YieldReturns(t)
  <2>1. /\ cpu = t /\ irqs[t] = 0 /\ AfterYield(t)
        /\ UNCHANGED <<current_pid, status, kernel_stack, cpu, irqs>>
    BY <1>4 DEF YieldStays, YieldReturns, At, objects
  <2> QED
    BY <1>1, <2>1, FlagAfterYield DEF FlagInv
<1>5. CASE YieldSelects(t) \/ YieldElects(t)
  <2>1. /\ cpu = t /\ irqs[t] = 0
        /\ \/ pc' = [pc EXCEPT ![t] = "elect"]
           \/ pc' = [pc EXCEPT ![t] = "switch"]
        /\ UNCHANGED <<current_pid, status, kernel_stack, cpu, irqs>>
    BY <1>5 DEF YieldSelects, YieldElects, At, objects, machine
  <2>2. /\ Point(t)' \notin {"user", "halted"}
        /\ \A p \in Procs \ {t} : pc'[p] = pc[p]
    BY <1>2, <2>1 DEF Point
  <2> QED
    BY <1>1, <2>1, <2>2, FlagUnswitched DEF FlagInv
<1>6. CASE YieldSwitches(t)
  <2>1. /\ cpu = t /\ pc[t] = "switch"
        /\ ProcSwitch(old_proc[t], new_proc[t], intr)
        /\ pc' = [pc EXCEPT ![t] = "resume"]
        /\ UNCHANGED <<current_pid, status, irqs>>
    BY <1>6 DEF YieldSwitches, At, objects
  <2>2. /\ pc'[t] = "resume"
        /\ \A p \in Procs \ {t} : pc'[p] = pc[p]
    BY <1>2, <2>1
  <2>3. old_proc[t] \in Procs \cup {NoProc} /\ new_proc[t] \in Procs
    BY <1>0, <2>1, BornArePids DEF TypeOK, RefersToBorn
  <2> QED
    BY <1>1, <1>2, <2>1, <2>2, <2>3, FlagSwitched DEF FlagInv
<1>7. CASE WaitScans(t)
  <2>1. /\ cpu = t /\ irqs[t] = 0
        /\ \/ pc' = [pc EXCEPT ![t] = "yield"]
           \/ pc' = [pc EXCEPT ![t] = "user"] /\ intr' = TRUE
        /\ UNCHANGED <<current_pid, status, kernel_stack, cpu, irqs>>
    BY <1>7 DEF WaitScans, At
  <2>2. /\ Point(t)' \in {"user", "halted"} => intr'
        /\ \A p \in Procs \ {t} : pc'[p] = pc[p]
    BY <1>2, <2>1 DEF Point
  <2> QED
    BY <1>1, <2>1, <2>2, FlagUnswitched DEF FlagInv
<1> QED
  BY <1>3, <1>4, <1>5, <1>6, <1>7 DEF Kernel, SystemCall

\* The system calls start with interrupts on; fork adds a first context.
LEMMA FlagUser ==
    ASSUME FlagInv, NEW t \in Procs, User(t)
    PROVE  FlagInv'
<1>0. TableInv /\ TypeOK /\ RefersToBorn
  BY DEF FlagInv, TableInv
<1>1. TableInv'
  BY <1>0, TableUser
<1>2. /\ cpu = t /\ irqs[t] = 0 /\ pc[t] = "user"
      /\ intr
  BY DEF FlagInv, User, Fork, Exit, WaitEnters, At, UserInterruptible, Point
<1>3. CASE Fork(t)
  <2> USE DEF Stale, Lost
  <2>1. /\ current_pid <= MaxPid /\ current_pid' = current_pid + 1
        /\ kernel_stack' = [kernel_stack EXCEPT ![current_pid] = current_pid]
        /\ UNCHANGED <<status, cpu, intr, threads>>
    BY <1>3 DEF Fork
  <2>2. /\ current_pid \in Procs /\ current_pid \notin Born
        /\ Born' = Born \cup {current_pid}
    BY <1>0, <2>1, ForkPid
  <2>3. /\ \A p \in Procs : kernel_stack'[p] =
               IF p = current_pid THEN current_pid ELSE kernel_stack[p]
        /\ UNCHANGED <<pc, irqs>>
    BY <1>0, <2>1 DEF TypeOK, threads
  <2>4. SavedOnce'
    BY <1>2, <2>1, <2>2, <2>3 DEF FlagInv, SavedOnce
  <2>5. SavedResumable'
    BY <2>2, <2>3 DEF FlagInv, SavedResumable, Unborn
  <2>6. Unborn' /\ UserInterruptible'
    BY <2>1, <2>2, <2>3 DEF FlagInv, Unborn, UserInterruptible, Point
  <2> QED
    BY <1>1, <2>4, <2>5, <2>6 DEF FlagInv
<1>4. CASE Exit(t) \/ WaitEnters(t)
  <2>1. /\ \E c \in {"yield", "wait"} : pc' = [pc EXCEPT ![t] = c]
        /\ UNCHANGED <<current_pid, kernel_stack, cpu, irqs>>
    BY <1>4 DEF Exit, WaitEnters, objects, machine
  <2>2. /\ Point(t)' \notin {"user", "halted"}
        /\ \A p \in Procs \ {t} : pc'[p] = pc[p]
    BY <1>0, <1>2, <2>1 DEF Point, TypeOK
  <2>3. \A p \in Procs \ Born : status'[p] = status[p]
    BY <1>0, <1>4 DEF Exit, WaitEnters, objects, RefersToBorn, TypeOK
  <2> QED
    BY <1>1, <1>2, <2>1, <2>2, <2>3, FlagUnswitched DEF FlagInv
<1> QED
  BY <1>3, <1>4 DEF User

\* Every step of the scheduler and its callers keeps the invariant.
LEMMA FlagNext == FlagInv /\ [Next]_vars => FlagInv'
<1>1. ASSUME FlagInv, UNCHANGED vars
      PROVE  FlagInv'
  <2>1. TableInv'
    BY <1>1, TableNext DEF FlagInv
  <2>2. UNCHANGED <<current_pid, status, kernel_stack, cpu, intr, pc, irqs>>
    BY <1>1 DEF vars, objects, machine, threads
  <2>3. SavedOnce' /\ SavedResumable' /\ Unborn' /\ UserInterruptible'
    BY <1>1, <2>2 DEF FlagInv, SavedOnce, SavedResumable, Unborn,
                      UserInterruptible, Point, Born
  <2> QED
    BY <2>1, <2>3 DEF FlagInv
<1> QED
  BY <1>1, FlagTimer, FlagKernel, FlagUser DEF Next

\* __proc_switch never resumes a context twice, nor one that the CPU is
\* executing, wherever the timer lands: what may go wrong is that it takes the
\* context of another process, or none.
THEOREM ContextsSavedOnce == Spec => [](SavedOnce /\ SavedResumable)
<1>1. FlagInv => SavedOnce /\ SavedResumable
  BY DEF FlagInv
<1> QED
  BY <1>1, FlagInit, FlagNext, PTL DEF Spec

\* A thread is in user mode only with interrupts enabled, wherever the timer
\* has interrupted tick(), yield() and wait() before, although __proc_switch
\* does not save the flag: a context that starts in user mode is that of a
\* child's first run, and all others leave the kernel through iretq.
THEOREM UserModeIsInterruptible == Spec => []UserInterruptible
<1>1. FlagInv => UserInterruptible
  BY DEF FlagInv
<1> QED
  BY <1>1, FlagInit, FlagNext, PTL DEF Spec

=============================================================================
