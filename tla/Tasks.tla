-------------------------------- MODULE Tasks --------------------------------
(***************************************************************************)
(* kernel/task.c and arch/amd64/task_switch.s: the list of tasks, forking  *)
(* and switching.  Kernel memory is shared by all directories; the stack   *)
(* is not, and lies at the same addresses in each.  A stack is a function  *)
(* from word numbers, counted from its base, and rsp is the number of      *)
(* words in use.  Tasks give up the CPU only by calling task_legacy_switch. *)
(* Interrupts come between any two steps; instructions between which one   *)
(* would only scribble beyond rsp, on words nobody needs, are one step.    *)
(***************************************************************************)
EXTENDS Integers, Sequences

CONSTANTS
  MaxTasks,  \* tasks (bound)
  MaxDepth   \* words a task has on its stack when it calls (bound)

ASSUME TasksAssumption == MaxTasks \in Nat \ {0} /\ MaxDepth \in Nat \ {0}

Tasks == 1..MaxTasks
StackWords == 1..MaxDepth + 4

\* Words on a stack and in registers: what the code of task t computed is t.
Junk == 0           \* what an interrupt leaves behind
AfterCall == -1     \* weird_switch, after the call of weird_switch2
WeirdReturn == -2   \* weird_return
AfterSwitch == -3   \* task_switch, after the call of switch_to_task
Pointer(t) == -3 - t   \* the address of struct task t

Regs == {"rbx", "rbp", "r12"}   \* r12 stands for r12 to r15
Values == (-3 - MaxTasks)..MaxTasks

VARIABLES
  list,          \* the tasks from task_head along next
  task_current,
  tcb,           \* each task's rsp and cr3
  directory,     \* each task's directory; a directory's name is its cr3
  stack,         \* the stack in each directory
  regs, rsp, cr3, enabled,   \* the CPU
  pc,            \* "run", "back" (in a task switched to), "lost", or the place in a call
  new, r8,       \* weird_switch2's task and the parent's cr3
  had,           \* what a task had when it called: words, registers, return
  struck         \* an interrupt came while rsp and cr3 were two tasks'

cpu == <<regs, rsp, cr3, enabled>>
vars == <<list, task_current, tcb, directory, stack, cpu, pc, new, r8, had, struck>>

\* The registers that switch_to_task and weird_switch2 push.
Pushed(s, sp, r) == [s EXCEPT ![sp + 1] = r["rbx"], ![sp + 2] = r["r12"]]

\* Where a ret leads: weird_return and the code after a call go on.
Return(word) ==
  IF word = AfterCall THEN "run"
  ELSE IF word \in {WeirdReturn, AfterSwitch} THEN "back" ELSE "lost"

Live(d, sp) == [a \in 1..sp |-> stack[d][a]]

\* task_init: the boot thread becomes the only task, in the active directory.
task_init ==
  /\ list = <<1>> /\ task_current = 1
  /\ tcb = [t \in Tasks |-> [rsp |-> 0, cr3 |-> 0]]
  /\ directory = [t \in Tasks |-> IF t = 1 THEN 1 ELSE 0]
  /\ stack = [d \in Tasks |-> [a \in StackWords |-> Junk]]
  /\ regs = [r \in Regs |-> 1] /\ rsp = 0 /\ cr3 = 1 /\ enabled = TRUE
  /\ pc = "run" /\ new = 1 /\ r8 = 1
  /\ had = [t \in Tasks |-> [words |-> <<>>, regs |-> [r \in Regs |-> 1], ret |-> Junk]]
  /\ struck = FALSE

Running == pc \in {"run", "back"}

-----------------------------------------------------------------------------
(* What a task does between its calls: external, any kernel code.          *)

Compute ==
  /\ Running /\ regs # [r \in Regs |-> task_current]
  /\ regs' = [r \in Regs |-> task_current]
  /\ pc' = "run"
  /\ UNCHANGED <<list, task_current, tcb, directory, stack, rsp, cr3, enabled, new, r8, had, struck>>

PushLocal ==
  /\ Running /\ rsp < MaxDepth
  /\ stack' = [stack EXCEPT ![cr3][rsp + 1] = task_current]
  /\ rsp' = rsp + 1 /\ pc' = "run"
  /\ UNCHANGED <<list, task_current, tcb, directory, regs, cr3, enabled, new, r8, had, struck>>

PopLocal ==
  /\ Running /\ rsp > 0
  /\ rsp' = rsp - 1 /\ pc' = "run"
  /\ UNCHANGED <<list, task_current, tcb, directory, stack, regs, cr3, enabled, new, r8, had, struck>>

SetInterrupts ==
  /\ Running
  /\ enabled' = ~enabled /\ pc' = "run"
  /\ UNCHANGED <<list, task_current, tcb, directory, stack, regs, rsp, cr3, new, r8, had, struck>>

\* The stub isr<n> saves and restores every register, on the stack that rsp
\* and cr3 name.  In the middle of a switch these are the new task's depth on
\* the old one's stack, at the end of a fork the parent's on the child's.
Interrupt ==
  /\ enabled
  /\ stack' = [stack EXCEPT ![cr3] = [a \in StackWords |-> IF a <= rsp THEN @[a] ELSE Junk]]
  /\ struck' = (struck \/ pc \in {"leave", "cr3"})
  /\ UNCHANGED <<list, task_current, tcb, directory, cpu, pc, new, r8, had>>

-----------------------------------------------------------------------------
(* task_fork.  When kmalloc fails nothing has changed.                     *)

\* The new task is listed first and weird_switch2 called, which keeps its
\* argument in rbx.
task_create(t) ==
  /\ Running /\ t = Len(list) + 1
  /\ list' = <<t>> \o list
  /\ new' = t
  /\ regs' = [regs EXCEPT !["rbx"] = Pointer(t)]
  /\ had' = [had EXCEPT ![t] = [words |-> Live(cr3, rsp), regs |-> regs', ret |-> WeirdReturn]]
  /\ stack' = [stack EXCEPT ![cr3][rsp + 1] = AfterCall]
  /\ rsp' = rsp + 1
  /\ pc' = "clone"
  /\ UNCHANGED <<task_current, tcb, directory, cr3, enabled, r8, struck>>

\* Everything but the stack is shared with the parent's directory.
mmu_clone_directory(parent) == [name |-> new, stack |-> stack[parent]]

task_create_directory == mmu_clone_directory(directory[task_current])

\* Mutated: rsp is saved before the registers are pushed.
SavedRspEarly == rsp

SavedRsp == rsp + 2

\* With cr3 on the child's directory the frame is built on its stack, where
\* weird_switch2 returns to weird_return.  Then rsp is put back: the child's
\* frame lies beyond it.
weird_switch2 ==
  LET made == task_create_directory
      child == made.name
      copy == made.stack
  IN /\ pc = "clone"
     /\ directory' = [directory EXCEPT ![new] = child]
     /\ stack' = [stack EXCEPT ![child] = Pushed([copy EXCEPT ![rsp] = WeirdReturn], rsp, regs)]
     /\ tcb' = [tcb EXCEPT ![new] = [rsp |-> SavedRsp, cr3 |-> child]]
     /\ r8' = cr3
     /\ cr3' = child
     /\ pc' = "leave"
     /\ UNCHANGED <<list, task_current, regs, rsp, enabled, new, had, struck>>

\* The parent returns from weird_switch2 and with 0 from weird_switch.
LeaveChild ==
  /\ pc = "leave"
  /\ cr3' = r8
  /\ rsp' = rsp - 1
  /\ pc' = Return(stack[r8][rsp])
  /\ UNCHANGED <<list, task_current, tcb, directory, stack, regs, enabled, new, r8, had, struck>>

-----------------------------------------------------------------------------
(* task_legacy_switch.                                                     *)

Position(t) == CHOOSE i \in DOMAIN list : list[i] = t

\* Mutated: the last task is followed by itself.
task_next_last(t) ==
  LET i == Position(t) IN IF i = Len(list) THEN t ELSE list[i + 1]

task_next(t) ==
  LET i == Position(t) IN IF i = Len(list) THEN list[1] ELSE list[i + 1]

\* task_switch, and switch_to_task up to the loading of rsp: it is the new
\* task's, and the stack still the old one's.
task_switch ==
  LET t == task_next(task_current)
      saved == [tcb EXCEPT ![task_current] = [rsp |-> rsp + 3, cr3 |-> cr3]]
  IN /\ Running
     /\ task_current' = t
     /\ had' = [had EXCEPT ![task_current] =
                  [words |-> Live(cr3, rsp), regs |-> regs, ret |-> AfterSwitch]]
     /\ stack' = [stack EXCEPT ![cr3] = Pushed([@ EXCEPT ![rsp + 1] = AfterSwitch], rsp + 1, regs)]
     /\ tcb' = saved
     /\ rsp' = saved[t].rsp
     /\ pc' = "cr3"
     /\ UNCHANGED <<list, directory, regs, cr3, enabled, new, r8, struck>>

\* Mutated: registers are popped in the order in which they were pushed.
PoppedInOrder(s) == [regs EXCEPT !["rbx"] = s[rsp], !["r12"] = s[rsp - 1]]

Popped(s) == [regs EXCEPT !["r12"] = s[rsp], !["rbx"] = s[rsp - 1]]

\* cr3 follows, the registers are popped, interrupts go on whatever they were,
\* and the task returns from switch_to_task or, the first time, with 1 from
\* weird_switch.
LoadCr3 ==
  LET d == tcb[task_current].cr3
  IN /\ pc = "cr3"
     /\ cr3' = d
     /\ regs' = Popped(stack[d])
     /\ rsp' = rsp - 3
     /\ enabled' = TRUE
     /\ pc' = Return(stack[d][rsp - 2])
     /\ UNCHANGED <<list, task_current, tcb, directory, stack, new, r8, had, struck>>

Goes == weird_switch2 \/ LeaveChild \/ LoadCr3

Next ==
  \/ Compute \/ PushLocal \/ PopLocal \/ SetInterrupts \/ Interrupt
  \/ \E t \in Tasks : task_create(t)
  \/ task_switch \/ Goes

\* The CPU goes on; tasks switch again and again.
Fairness == WF_vars(Goes) /\ SF_vars(task_switch)

Spec == task_init /\ [][Next]_vars /\ Fairness

-----------------------------------------------------------------------------
(* Properties.                                                             *)

Listed == {list[i] : i \in DOMAIN list}

\* The type of every variable.
TypeOK ==
  /\ list \in Seq(Tasks) /\ task_current \in Listed
  /\ tcb \in [Tasks -> [rsp : 0..MaxDepth + 4, cr3 : 0..MaxTasks]]
  /\ directory \in [Tasks -> 0..MaxTasks]
  /\ stack \in [Tasks -> [StackWords -> Values]]
  /\ regs \in [Regs -> Values] /\ rsp \in 0..MaxDepth + 4
  /\ cr3 \in Tasks /\ enabled \in BOOLEAN
  /\ pc \in {"run", "back", "clone", "leave", "cr3", "lost"}
  /\ new \in Tasks /\ r8 \in Tasks
  /\ \A t \in Tasks : had[t].regs \in [Regs -> Values]
  /\ struck \in BOOLEAN

\* Tasks that wait to be switched to: all but the one that runs, and but a new
\* one until its frame is built.
Waiting ==
  Listed \ ((IF pc = "cr3" THEN {} ELSE {task_current})
            \cup (IF pc = "clone" THEN {new} ELSE {}))

Frame(t) == Pushed(had[t].words \o <<had[t].ret, Junk, Junk>>, Len(had[t].words) + 1, had[t].regs)

\* A task that waits has in its own directory the stack it left, with the
\* place to return to and the pushed registers on top, however many tasks with
\* stacks at the same addresses were made and run since, and wherever
\* interrupts came but in the two places where rsp and cr3 differ in task.
Intact ==
  ~struck =>
    \A t \in Waiting : tcb[t].cr3 \in Tasks /\ Live(tcb[t].cr3, tcb[t].rsp) = Frame(t)

\* A task comes back from a switch, or out of the fork that made it, with the
\* stack and the pushed registers it left, and runs in its own directory, the
\* one that a fork of it copies.
ContextKept ==
  ~struck =>
    /\ pc # "lost"
    /\ Running => cr3 = directory[task_current]
    /\ pc = "back" =>
         /\ Live(cr3, rsp) = had[task_current].words
         /\ \A r \in {"rbx", "r12"} : regs[r] = had[task_current].regs[r]

\* Every task gets its turn again, although new tasks are put before it.
RunsAgain == \A t \in Tasks : (t \in Listed) ~> ((Running /\ task_current = t) \/ struck)

\* switch_to_task preserves rbx, rsp, rbp and r12 to r15, as its comment says.
\* It does not: rbp is not among the registers it pushes.
Preserved ==
  pc = "back" => rsp = Len(had[task_current].words) /\ regs = had[task_current].regs
=============================================================================
