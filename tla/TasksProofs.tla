----------------------------- MODULE TasksProofs -----------------------------
(***************************************************************************)
(* Forking and switching for every number of tasks, every depth of stack   *)
(* and every interleaving of interrupts.                                   *)
(***************************************************************************)
EXTENDS Tasks, SequenceTheorems, TLAPS

-----------------------------------------------------------------------------
(* The inductive invariant.                                                *)

Hads == [words : Seq(Values), regs : [Regs -> Values], ret : Values]

\* The stack s of depth sp is what a task that had h left: its words, where it
\* returns to, and the registers pushed.
On(s, sp, h) ==
  /\ Len(h.words) = sp - 3
  /\ \A a \in 1..sp - 3 : s[a] = h.words[a]
  /\ s[sp - 2] = h.ret /\ s[sp - 1] = h.regs["rbx"] /\ s[sp] = h.regs["r12"]
  /\ h.ret \in {WeirdReturn, AfterSwitch}

\* The first sp words of s are w.
Begins(s, sp, w) == Len(w) = sp /\ \A a \in 1..sp : s[a] = w[a]

\* Tasks are numbered as they are made.
Numbered == Len(list) \in 1..MaxTasks /\ Listed = 1..Len(list)

\* Every task has the directory of its own number, a new one once it is cloned.
Directories == \A t \in Listed : directory[t] = t \/ (pc = "clone" /\ t = new)

\* A task that waits has its own cr3 and a frame of three words.
Saved == \A t \in Waiting : tcb[t].cr3 = t /\ tcb[t].rsp \in 3..MaxDepth + 3

\* Whose stack rsp and cr3 name.
Place ==
  /\ Running => cr3 = task_current /\ rsp \in 0..MaxDepth
  /\ pc = "clone" => /\ new = Len(list) /\ new # task_current
                     /\ cr3 = task_current /\ rsp \in 1..MaxDepth + 1
  /\ pc = "leave" => /\ new \in Listed /\ new # task_current /\ cr3 = new
                     /\ r8 = task_current /\ rsp \in 1..MaxDepth + 1
  /\ pc = "cr3" => rsp = tcb[task_current].rsp

\* What the stacks hold, until an interrupt comes in one of the two windows.
Kept ==
  ~struck =>
    /\ pc # "lost"
    /\ \A t \in Waiting : On(stack[t], tcb[t].rsp, had[t])
    /\ pc = "clone" => /\ Begins(stack[cr3], rsp - 1, had[new].words)
                       /\ stack[cr3][rsp] = AfterCall
                       /\ had[new].regs = regs /\ had[new].ret = WeirdReturn
    /\ pc = "leave" => stack[r8][rsp] = AfterCall
    /\ pc = "back" => /\ Begins(stack[cr3], rsp, had[task_current].words)
                      /\ regs["rbx"] = had[task_current].regs["rbx"]
                      /\ regs["r12"] = had[task_current].regs["r12"]

IInv ==
  /\ TypeOK /\ had \in [Tasks -> Hads]
  /\ Numbered /\ Directories /\ Saved /\ Place /\ Kept

-----------------------------------------------------------------------------
(* Lemmas.                                                                 *)

\* A function on 1..n is a sequence of length n.
LEMMA FunctionIsSeq ==
  ASSUME NEW n \in Nat, NEW S, NEW f \in [1..n -> S]
  PROVE  f \in Seq(S) /\ Len(f) = n
  <1>1. f \in Seq(S)
    OBVIOUS
  <1> QED BY <1>1, LenProperties

\* What task_create and task_switch note as a task's words.
LEMMA LiveWords ==
  ASSUME TypeOK, NEW d \in Tasks, NEW sp \in 0..MaxDepth + 4
  PROVE  Live(d, sp) \in Seq(Values) /\ Begins(stack[d], sp, Live(d, sp))
  <1>1. stack[d] \in [StackWords -> Values]
    BY DEF TypeOK
  <1>2. 1..sp \subseteq StackWords
    BY TasksAssumption DEF StackWords
  <1>3. Live(d, sp) \in [1..sp -> Values] /\ \A a \in 1..sp : Live(d, sp)[a] = stack[d][a]
    BY <1>1, <1>2 DEF Live
  <1>4. Live(d, sp) \in Seq(Values) /\ Len(Live(d, sp)) = sp
    BY <1>3, FunctionIsSeq
  <1> QED BY <1>3, <1>4 DEF Begins

\* The words a stack may hold.
LEMMA ValuesHold ==
  /\ Tasks \subseteq Values /\ {Junk, AfterCall, WeirdReturn, AfterSwitch} \subseteq Values
  /\ \A t \in Tasks : Pointer(t) \in Values
  BY TasksAssumption DEF Tasks, Values, Junk, AfterCall, WeirdReturn, AfterSwitch, Pointer

\* The list holds tasks that were created.
LEMMA ListedAreTasks ==
  ASSUME IInv
  PROVE  Listed \subseteq Tasks /\ task_current \in Tasks /\ Waiting \subseteq Listed
  <1>1. Len(list) \in Nat /\ Len(list) <= MaxTasks /\ Listed = 1..Len(list) /\ task_current \in Listed
    BY TasksAssumption DEF IInv, Numbered, TypeOK
  <1> QED BY <1>1, TasksAssumption DEF Tasks, Waiting

\* Pushing the registers.
LEMMA PushedIs ==
  ASSUME NEW s \in [StackWords -> Values], NEW sp \in Nat, sp + 2 \in StackWords,
         NEW r \in [Regs -> Values]
  PROVE  /\ Pushed(s, sp, r) \in [StackWords -> Values]
         /\ Pushed(s, sp, r)[sp + 1] = r["rbx"] /\ Pushed(s, sp, r)[sp + 2] = r["r12"]
         /\ \A a \in StackWords : a # sp + 1 /\ a # sp + 2 => Pushed(s, sp, r)[a] = s[a]
  <1>1. sp + 1 \in StackWords /\ sp + 1 # sp + 2
    BY TasksAssumption DEF StackWords
  <1>2. r["rbx"] \in Values /\ r["r12"] \in Values
    BY DEF Regs
  <1> QED BY <1>1, <1>2 DEF Pushed

-----------------------------------------------------------------------------
(* Each step keeps the invariant.                                          *)

\* The first task, at task_init.
LEMMA InitIInv == task_init => IInv
  <1> SUFFICES ASSUME task_init PROVE IInv
    OBVIOUS
  <1> USE TasksAssumption DEF task_init
  <1>1. list \in Seq(Tasks) /\ Len(list) = 1 /\ DOMAIN list = {1} /\ list[1] = 1 /\ 1 \in Tasks
    BY DEF Tasks
  <1>2. Listed = {1} /\ 1..1 = {1}
    BY <1>1 DEF Listed
  <1>3. had \in [Tasks -> Hads]
    <2>1. <<>> \in Seq(Values) /\ [r \in Regs |-> 1] \in [Regs -> Values] /\ Junk \in Values
      BY <1>1, ValuesHold
    <2> QED BY <2>1 DEF Hads
  <1>4. TypeOK
    <2>1. stack \in [Tasks -> [StackWords -> Values]] /\ regs \in [Regs -> Values]
      BY <1>1, ValuesHold
    <2>2. tcb \in [Tasks -> [rsp : 0..MaxDepth + 4, cr3 : 0..MaxTasks]]
      OBVIOUS
    <2>3. directory \in [Tasks -> 0..MaxTasks] /\ rsp \in 0..MaxDepth + 4
      OBVIOUS
    <2> QED BY <1>1, <1>2, <1>3, <2>1, <2>2, <2>3 DEF TypeOK, Hads
  <1>5. Waiting = {}
    BY <1>2 DEF Waiting
  <1>6. Numbered /\ Directories /\ Saved /\ Place /\ Kept
    BY <1>1, <1>2, <1>5 DEF Numbered, Directories, Saved, Place, Kept, Running, Tasks
  <1> QED BY <1>3, <1>4, <1>6 DEF IInv

\* A task that goes on changes at most registers and its own stack.
LEMMA RunsOn ==
  ASSUME IInv, Running, pc' = "run",
         UNCHANGED <<list, task_current, tcb, directory, cr3, new, r8, had, struck>>,
         regs' \in [Regs -> Values], rsp' \in 0..MaxDepth, enabled' \in BOOLEAN,
         stack' \in [Tasks -> [StackWords -> Values]],
         \A d \in Tasks : d # cr3 => stack'[d] = stack[d]
  PROVE  IInv'
  <1>1. pc \in {"run", "back"} /\ cr3 = task_current
    BY DEF IInv, Place, Running
  <1>2. Listed' = Listed /\ Waiting' = Waiting /\ Waiting = Listed \ {task_current}
    BY <1>1 DEF Listed, Waiting
  <1>3. TypeOK'
    BY <1>2, TasksAssumption DEF IInv, TypeOK
  <1>4. Numbered' /\ Directories' /\ Saved' /\ Place'
    BY <1>1, <1>2 DEF IInv, Numbered, Directories, Saved, Place, Running
  <1>5. Kept'
    <2> SUFFICES ASSUME ~struck' PROVE \A t \in Waiting' : On(stack'[t], tcb'[t].rsp, had'[t])
      BY DEF Kept
    <2>1. \A t \in Waiting : t \in Tasks /\ t # cr3
      BY <1>1, <1>2, ListedAreTasks
    <2> QED BY <1>2, <2>1 DEF IInv, Kept
  <1> QED BY <1>3, <1>4, <1>5 DEF IInv

\* A task changes registers, drops a local or sets the interrupt flag.
LEMMA ComputeIInv == IInv /\ (Compute \/ PopLocal \/ SetInterrupts) => IInv'
  <1> SUFFICES ASSUME IInv, Compute \/ PopLocal \/ SetInterrupts PROVE IInv'
    OBVIOUS
  <1>1. Running /\ pc' = "run"
        /\ UNCHANGED <<list, task_current, tcb, directory, stack, cr3, new, r8, had, struck>>
    BY DEF Compute, PopLocal, SetInterrupts
  <1>2. /\ stack \in [Tasks -> [StackWords -> Values]] /\ regs \in [Regs -> Values]
        /\ enabled \in BOOLEAN /\ task_current \in Tasks
    BY ListedAreTasks DEF IInv, TypeOK
  <1>3. rsp \in 0..MaxDepth
    BY <1>1 DEF IInv, Place
  <1>4. regs' \in [Regs -> Values] /\ enabled' \in BOOLEAN
    BY <1>2, ValuesHold DEF Compute, PopLocal, SetInterrupts
  <1>5. rsp' \in 0..MaxDepth
    BY <1>3, TasksAssumption DEF Compute, PopLocal, SetInterrupts
  <1> QED BY <1>1, <1>2, <1>4, <1>5, RunsOn

\* A task pushes onto its own stack.
LEMMA PushLocalIInv == IInv /\ PushLocal => IInv'
  <1> SUFFICES ASSUME IInv, PushLocal PROVE IInv'
    OBVIOUS
  <1>1. /\ Running /\ pc' = "run" /\ rsp < MaxDepth /\ rsp' = rsp + 1
        /\ UNCHANGED <<list, task_current, tcb, directory, regs, cr3, enabled, new, r8, had, struck>>
        /\ stack' = [stack EXCEPT ![cr3][rsp + 1] = task_current]
    BY DEF PushLocal
  <1>2. /\ stack \in [Tasks -> [StackWords -> Values]] /\ regs \in [Regs -> Values]
        /\ enabled \in BOOLEAN /\ task_current \in Values /\ cr3 \in Tasks
    BY ValuesHold, ListedAreTasks DEF IInv, TypeOK
  <1>3. rsp \in 0..MaxDepth
    BY <1>1 DEF IInv, Place
  <1>4. rsp' \in 0..MaxDepth /\ rsp + 1 \in StackWords
    BY <1>1, <1>3, TasksAssumption DEF StackWords
  <1>5. stack' \in [Tasks -> [StackWords -> Values]]
        /\ \A d \in Tasks : d # cr3 => stack'[d] = stack[d]
    BY <1>1, <1>2, <1>4
  <1> QED BY <1>1, <1>2, <1>4, <1>5, RunsOn

\* An interrupt leaves all words in use, where rsp and cr3 are one task's.
LEMMA InterruptIInv == IInv /\ Interrupt => IInv'
  <1> SUFFICES ASSUME IInv, Interrupt PROVE IInv'
    OBVIOUS
  <1>1. /\ UNCHANGED <<list, task_current, tcb, directory, regs, rsp, cr3, enabled, pc, new, r8, had>>
        /\ stack' = [stack EXCEPT ![cr3] = [a \in StackWords |-> IF a <= rsp THEN @[a] ELSE Junk]]
        /\ struck' = (struck \/ pc \in {"leave", "cr3"})
    BY DEF Interrupt, cpu
  <1>2. stack \in [Tasks -> [StackWords -> Values]] /\ cr3 \in Tasks /\ Junk \in Values
    BY ValuesHold DEF IInv, TypeOK
  <1>3. /\ stack' \in [Tasks -> [StackWords -> Values]]
        /\ \A d \in Tasks : d # cr3 => stack'[d] = stack[d]
        /\ \A a \in StackWords : a <= rsp => stack'[cr3][a] = stack[cr3][a]
    BY <1>1, <1>2
  <1>4. Listed' = Listed /\ Waiting' = Waiting
    BY <1>1 DEF Listed, Waiting
  <1>5. TypeOK'
    BY <1>1, <1>3, <1>4 DEF IInv, TypeOK
  <1>6. Numbered' /\ Directories' /\ Saved' /\ Place'
    BY <1>1, <1>4 DEF IInv, Numbered, Directories, Saved, Place, Running
  <1>7. Kept'
    <2> SUFFICES ASSUME ~struck' PROVE Kept'
      BY DEF Kept
    <2>1. ~struck /\ pc \notin {"leave", "cr3"}
      BY <1>1
    <2>2. pc \in {"run", "back", "clone"}
      BY <2>1 DEF IInv, TypeOK, Kept
    <2>3. cr3 = task_current /\ Waiting \subseteq Listed \ {task_current} /\ rsp \in 0..MaxDepth + 1
      BY <2>2, TasksAssumption DEF IInv, Place, Running, Waiting
    <2>4. \A t \in Waiting : stack'[t] = stack[t]
      BY <1>3, <2>3, ListedAreTasks
    <2>5. \A a \in 1..rsp : stack'[cr3][a] = stack[cr3][a]
      BY <1>3, <2>3, TasksAssumption DEF StackWords
    <2>6. \A t \in Waiting' : On(stack'[t], tcb'[t].rsp, had'[t])
      BY <1>1, <1>4, <2>1, <2>4 DEF IInv, Kept
    <2>7. CASE pc = "clone"
      <3>1. rsp \in 1..MaxDepth + 1
        BY <2>7 DEF IInv, Place
      <3>2. Begins(stack[cr3], rsp - 1, had[new].words) /\ stack[cr3][rsp] = AfterCall
        BY <2>1, <2>7 DEF IInv, Kept
      <3>3. Begins(stack'[cr3], rsp - 1, had[new].words) /\ stack'[cr3][rsp] = AfterCall
        BY <2>5, <3>1, <3>2, TasksAssumption DEF Begins
      <3> QED BY <1>1, <2>1, <2>6, <2>7, <3>3 DEF IInv, Kept
    <2>8. CASE pc = "back"
      <3>1. Begins(stack[cr3], rsp, had[task_current].words)
        BY <2>1, <2>8 DEF IInv, Kept
      <3>2. Begins(stack'[cr3], rsp, had[task_current].words)
        BY <2>5, <3>1 DEF Begins
      <3> QED BY <1>1, <2>1, <2>6, <2>8, <3>2 DEF IInv, Kept
    <2>9. CASE pc = "run"
      BY <1>1, <2>6, <2>9 DEF Kept
    <2> QED BY <2>2, <2>7, <2>8, <2>9
  <1> QED BY <1>1, <1>5, <1>6, <1>7 DEF IInv

-----------------------------------------------------------------------------
(* The fork.                                                               *)

\* A new task is the next number.
LEMMA ListGrows ==
  ASSUME IInv, NEW t \in Tasks, t = Len(list) + 1, list' = <<t>> \o list
  PROVE  /\ list' \in Seq(Tasks) /\ Len(list') = t /\ Listed' = Listed \cup {t}
         /\ Listed' = 1..t /\ t \notin Listed /\ t \in Nat
  <1>1. /\ list \in Seq(Tasks) /\ <<t>> \in Seq(Tasks) /\ Len(<<t>>) = 1 /\ <<t>>[1] = t
        /\ Len(list) \in Nat /\ DOMAIN list = 1..Len(list) /\ Listed = 1..Len(list)
    BY TasksAssumption DEF IInv, TypeOK, Numbered
  <1>2. /\ list' \in Seq(Tasks) /\ Len(list') = 1 + Len(list)
        /\ \A i \in 1..1 + Len(list) : list'[i] = IF i <= 1 THEN <<t>>[i] ELSE list[i - 1]
    BY <1>1, ConcatProperties
  <1>3. DOMAIN list' = 1..1 + Len(list) /\ list'[1] = t
        /\ \A i \in DOMAIN list : i + 1 \in DOMAIN list' /\ list'[i + 1] = list[i]
    BY <1>1, <1>2
  <1>4. \A i \in DOMAIN list' : i = 1 \/ (i - 1 \in DOMAIN list /\ list'[i] = list[i - 1])
    BY <1>1, <1>2, <1>3
  <1>5. Listed' = {list'[i] : i \in DOMAIN list'} /\ Listed = {list[i] : i \in DOMAIN list}
    BY DEF Listed
  <1>6. Listed' = Listed \cup {t}
    <2>1. Listed' \subseteq Listed \cup {t}
      BY <1>3, <1>4, <1>5
    <2>2. t \in Listed' /\ Listed \subseteq Listed'
      <3>1. 1 \in DOMAIN list'
        BY <1>1, <1>3
      <3> QED BY <1>3, <1>5, <3>1
    <2> QED BY <2>1, <2>2
  <1> QED BY <1>1, <1>2, <1>6

\* task_create lists the new task; its caller's words are noted as its own.
LEMMA task_createIInv ==
  ASSUME IInv, NEW t \in Tasks, task_create(t)
  PROVE  IInv'
  <1> DEFINE h == [words |-> Live(cr3, rsp), regs |-> regs', ret |-> WeirdReturn]
  <1>1. /\ Running /\ t = Len(list) + 1 /\ list' = <<t>> \o list /\ new' = t
        /\ regs' = [regs EXCEPT !["rbx"] = Pointer(t)]
        /\ had' = [had EXCEPT ![t] = h]
        /\ stack' = [stack EXCEPT ![cr3][rsp + 1] = AfterCall]
        /\ rsp' = rsp + 1 /\ pc' = "clone"
        /\ UNCHANGED <<task_current, tcb, directory, cr3, enabled, r8, struck>>
    BY DEF task_create
  <1>2. /\ list' \in Seq(Tasks) /\ Len(list') = t /\ Listed' = Listed \cup {t}
        /\ Listed' = 1..t /\ t \notin Listed /\ t \in Nat
    BY <1>1, ListGrows
  <1>3. /\ cr3 = task_current /\ rsp \in 0..MaxDepth /\ cr3 \in Tasks
        /\ task_current \in Listed /\ Listed \subseteq Tasks /\ Waiting = Listed \ {task_current}
    BY <1>1, ListedAreTasks DEF IInv, Place, TypeOK, Waiting, Running
  <1>4. rsp + 1 \in StackWords /\ rsp + 1 \in 1..MaxDepth + 1 /\ rsp \in 0..MaxDepth + 4
    BY <1>3, TasksAssumption DEF StackWords
  <1>5. regs' \in [Regs -> Values]
    BY <1>1, ValuesHold DEF IInv, TypeOK
  <1>6. Live(cr3, rsp) \in Seq(Values) /\ Begins(stack[cr3], rsp, Live(cr3, rsp))
    BY <1>3, <1>4, LiveWords DEF IInv
  <1>7. h \in Hads /\ h.words = Live(cr3, rsp) /\ h.regs = regs' /\ h.ret = WeirdReturn
    BY <1>5, <1>6, ValuesHold DEF Hads
  <1> HIDE DEF h
  <1>8. had' \in [Tasks -> Hads] /\ had'[t] = h /\ \A w \in Tasks : w # t => had'[w] = had[w]
    BY <1>1, <1>7 DEF IInv
  <1>9. /\ stack' \in [Tasks -> [StackWords -> Values]]
        /\ \A d \in Tasks : d # cr3 => stack'[d] = stack[d]
        /\ \A a \in StackWords : a # rsp + 1 => stack'[cr3][a] = stack[cr3][a]
        /\ stack'[cr3][rsp + 1] = AfterCall
    BY <1>1, <1>3, <1>4, ValuesHold DEF IInv, TypeOK
  <1>10. Waiting' = Waiting
    BY <1>1, <1>2, <1>3 DEF Waiting
  <1>11. TypeOK'
    <2>1. rsp' \in 0..MaxDepth + 4
      BY <1>1, <1>4, TasksAssumption
    <2>2. task_current \in Listed'
      BY <1>2, <1>3
    <2>3. \A w \in Tasks : had'[w].regs \in [Regs -> Values]
      BY <1>8 DEF Hads
    <2> QED BY <1>1, <1>2, <1>5, <1>9, <2>1, <2>2, <2>3 DEF IInv, TypeOK
  <1>12. Numbered' /\ Directories' /\ Saved'
    <2>1. t \in 1..MaxTasks
      BY DEF Tasks
    <2>2. pc # "clone"
      BY <1>1 DEF Running
    <2> QED BY <1>1, <1>2, <1>10, <2>1, <2>2 DEF IInv, Numbered, Directories, Saved
  <1>13. Place'
    BY <1>1, <1>2, <1>3, <1>4 DEF Place, Running
  <1>14. Kept'
    <2> SUFFICES ASSUME ~struck PROVE Kept'
      BY <1>1 DEF Kept
    <2>1. \A w \in Waiting' : On(stack'[w], tcb'[w].rsp, had'[w])
      <3>1. \A w \in Waiting : stack'[w] = stack[w] /\ had'[w] = had[w]
        BY <1>2, <1>3, <1>8, <1>9
      <3> QED BY <1>1, <1>10, <3>1 DEF IInv, Kept
    <2>2. Begins(stack'[cr3], rsp, h.words)
      <3>1. \A a \in 1..rsp : stack'[cr3][a] = stack[cr3][a]
        BY <1>3, <1>9, TasksAssumption DEF StackWords
      <3> QED BY <1>6, <1>7, <3>1 DEF Begins
    <2>3. rsp' - 1 = rsp
      BY <1>1, <1>3
    <2> QED BY <1>1, <1>7, <1>8, <1>9, <2>1, <2>2, <2>3 DEF Kept
  <1> QED BY <1>8, <1>11, <1>12, <1>13, <1>14 DEF IInv

\* The child's frame is on its own stack, a copy of its parent's.
LEMMA weird_switch2IInv == IInv /\ weird_switch2 => IInv'
  <1> SUFFICES ASSUME IInv, weird_switch2 PROVE IInv'
    OBVIOUS
  <1>1. /\ pc = "clone" /\ pc' = "leave" /\ r8' = cr3
        /\ UNCHANGED <<list, task_current, regs, rsp, enabled, new, had, struck>>
    BY DEF weird_switch2
  <1>2. /\ new = Len(list) /\ new # task_current /\ cr3 = task_current
        /\ rsp \in 1..MaxDepth + 1 /\ new \in Tasks /\ new \in Listed /\ task_current \in Listed
        /\ task_current \in Tasks /\ Listed \subseteq Tasks
        /\ directory[task_current] = task_current
    <2>1. /\ new = Len(list) /\ new # task_current /\ cr3 = task_current
          /\ rsp \in 1..MaxDepth + 1
      BY <1>1 DEF IInv, Place
    <2>2. Len(list) \in Nat /\ Len(list) >= 1 /\ Listed = 1..Len(list)
      BY TasksAssumption DEF IInv, Numbered
    <2>3. new \in Listed
      BY <2>1, <2>2
    <2>4. task_current \in Listed /\ task_current \in Tasks /\ Listed \subseteq Tasks
      BY ListedAreTasks DEF IInv, TypeOK
    <2>5. directory[task_current] = task_current
      BY <2>1, <2>4 DEF IInv, Directories
    <2> QED BY <2>1, <2>3, <2>4, <2>5
  <1> DEFINE copy == [stack[task_current] EXCEPT ![rsp] = WeirdReturn]
             frame == Pushed(copy, rsp, regs)
  <1>3. /\ directory' = [directory EXCEPT ![new] = new] /\ cr3' = new
        /\ stack' = [stack EXCEPT ![new] = frame]
        /\ tcb' = [tcb EXCEPT ![new] = [rsp |-> rsp + 2, cr3 |-> new]]
    BY <1>2 DEF weird_switch2, task_create_directory, mmu_clone_directory, SavedRsp
  <1>4. rsp \in StackWords /\ rsp \in Nat /\ rsp + 2 \in StackWords /\ rsp + 2 \in 3..MaxDepth + 3
    BY <1>2, TasksAssumption DEF StackWords
  <1>5. copy \in [StackWords -> Values] /\ copy[rsp] = WeirdReturn
        /\ \A a \in StackWords : a # rsp => copy[a] = stack[task_current][a]
    BY <1>2, <1>4, ValuesHold DEF IInv, TypeOK
  <1> HIDE DEF copy
  <1>6. /\ frame \in [StackWords -> Values]
        /\ frame[rsp + 1] = regs["rbx"] /\ frame[rsp + 2] = regs["r12"]
        /\ \A a \in StackWords : a # rsp + 1 /\ a # rsp + 2 => frame[a] = copy[a]
    <2>1. regs \in [Regs -> Values]
      BY DEF IInv, TypeOK
    <2> QED BY <1>4, <1>5, <2>1, PushedIs
  <1> HIDE DEF frame
  <1>7. /\ stack' \in [Tasks -> [StackWords -> Values]] /\ stack'[new] = frame
        /\ \A d \in Tasks : d # new => stack'[d] = stack[d]
    BY <1>2, <1>3, <1>6 DEF IInv, TypeOK
  <1>8. /\ tcb' \in [Tasks -> [rsp : 0..MaxDepth + 4, cr3 : 0..MaxTasks]]
        /\ tcb'[new].rsp = rsp + 2 /\ tcb'[new].cr3 = new
        /\ \A d \in Tasks : d # new => tcb'[d] = tcb[d]
    <2>1. [rsp |-> rsp + 2, cr3 |-> new] \in [rsp : 0..MaxDepth + 4, cr3 : 0..MaxTasks]
      BY <1>2, <1>4, TasksAssumption DEF Tasks
    <2> QED BY <1>2, <1>3, <2>1 DEF IInv, TypeOK
  <1>9. directory' \in [Tasks -> 0..MaxTasks] /\ directory'[new] = new
        /\ \A d \in Tasks : d # new => directory'[d] = directory[d]
    <2>1. new \in 0..MaxTasks
      BY <1>2, TasksAssumption DEF Tasks
    <2>2. directory \in [Tasks -> 0..MaxTasks]
      BY DEF IInv, TypeOK
    <2> QED BY <1>2, <1>3, <2>1, <2>2
  <1>10. /\ Listed' = Listed /\ Waiting' = Listed \ {task_current}
         /\ Waiting = Listed \ {task_current, new}
    BY <1>1 DEF Listed, Waiting
  <1>11. TypeOK'
    BY <1>1, <1>2, <1>3, <1>7, <1>8, <1>9, <1>10 DEF IInv, TypeOK
  <1>12. Numbered' /\ Directories' /\ Saved' /\ Place'
    <2>1. Numbered'
      BY <1>1, <1>10 DEF IInv, Numbered
    <2>2. Directories'
      BY <1>1, <1>2, <1>9, <1>10 DEF IInv, Directories
    <2>3. Saved'
      BY <1>1, <1>2, <1>4, <1>8, <1>10 DEF IInv, Saved
    <2>4. Place'
      BY <1>1, <1>2, <1>3, <1>10 DEF Place, Running
    <2> QED BY <2>1, <2>2, <2>3, <2>4
  <1>13. Kept'
    <2> SUFFICES ASSUME ~struck PROVE Kept'
      BY <1>1 DEF Kept
    <2>1. /\ Begins(stack[task_current], rsp - 1, had[new].words)
          /\ stack[task_current][rsp] = AfterCall
          /\ had[new].regs = regs /\ had[new].ret = WeirdReturn
      BY <1>1, <1>2 DEF IInv, Kept
    <2>2. On(frame, rsp + 2, had[new])
      <3>1. \A a \in 1..rsp - 1 : frame[a] = had[new].words[a]
        <4>1. \A a \in 1..rsp - 1 : a \in StackWords /\ a # rsp /\ a # rsp + 1 /\ a # rsp + 2
          BY <1>2, TasksAssumption DEF StackWords
        <4> QED BY <1>5, <1>6, <2>1, <4>1 DEF Begins
      <3>2. frame[rsp] = WeirdReturn
        BY <1>4, <1>5, <1>6
      <3> DEFINE sp == rsp + 2
      <3>3. sp - 3 = rsp - 1 /\ sp - 2 = rsp /\ sp - 1 = rsp + 1 /\ sp = rsp + 2
        BY <1>4
      <3> HIDE DEF sp
      <3>4. Len(had[new].words) = rsp - 1
        BY <2>1 DEF Begins
      <3>5. \A a \in 1..sp - 3 : frame[a] = had[new].words[a]
        BY <3>1, <3>3
      <3>6. /\ frame[sp - 2] = had[new].ret /\ frame[sp - 1] = had[new].regs["rbx"]
            /\ frame[sp] = had[new].regs["r12"] /\ Len(had[new].words) = sp - 3
        BY <1>6, <2>1, <3>2, <3>3, <3>4
      <3>7. On(frame, sp, had[new])
        BY <2>1, <3>5, <3>6 DEF On
      <3> QED BY <3>7 DEF sp
    <2>3. \A w \in Waiting' : On(stack'[w], tcb'[w].rsp, had'[w])
      <3>1. \A w \in Waiting : On(stack[w], tcb[w].rsp, had[w])
        BY DEF IInv, Kept
      <3>2. \A w \in Waiting' : w = new \/ w \in Waiting
        BY <1>10
      <3>3. \A w \in Waiting : w \in Tasks /\ w # new
        BY <1>2, <1>10
      <3> QED BY <1>1, <1>7, <1>8, <2>2, <3>1, <3>2, <3>3
    <2>4. stack'[task_current][rsp] = AfterCall
      BY <1>2, <1>7, <2>1
    <2> QED BY <1>1, <1>2, <2>3, <2>4 DEF Kept
  <1> QED BY <1>1, <1>11, <1>12, <1>13 DEF IInv

\* The parent is back in its own directory and returns from weird_switch2.
LEMMA LeaveChildIInv == IInv /\ LeaveChild => IInv'
  <1> SUFFICES ASSUME IInv, LeaveChild PROVE IInv'
    OBVIOUS
  <1>1. /\ pc = "leave" /\ cr3' = r8 /\ rsp' = rsp - 1 /\ pc' = Return(stack[r8][rsp])
        /\ UNCHANGED <<list, task_current, tcb, directory, stack, regs, enabled, new, r8, had, struck>>
    BY DEF LeaveChild
  <1>2. r8 = task_current /\ rsp \in 1..MaxDepth + 1 /\ task_current \in Tasks
    BY <1>1, ListedAreTasks DEF IInv, Place
  <1>3. rsp' \in 0..MaxDepth /\ rsp' \in 0..MaxDepth + 4
    BY <1>1, <1>2, TasksAssumption
  <1>4. pc' \in {"run", "back", "lost"}
    BY <1>1 DEF Return
  <1>5. Listed' = Listed /\ Waiting' = Waiting
    BY <1>1, <1>4 DEF Listed, Waiting
  <1>6. TypeOK'
    BY <1>1, <1>2, <1>3, <1>4, <1>5 DEF IInv, TypeOK
  <1>7. Numbered' /\ Directories' /\ Saved' /\ Place'
    BY <1>1, <1>2, <1>3, <1>4, <1>5 DEF IInv, Numbered, Directories, Saved, Place, Running
  <1>8. Kept'
    <2> SUFFICES ASSUME ~struck PROVE Kept'
      BY <1>1 DEF Kept
    <2>1. pc' = "run"
      BY <1>1 DEF IInv, Kept, Return
    <2> QED BY <1>1, <1>5, <2>1 DEF IInv, Kept
  <1> QED BY <1>1, <1>6, <1>7, <1>8 DEF IInv

-----------------------------------------------------------------------------
(* The switch.                                                             *)

\* The task a switch chooses is on the list.
LEMMA NextIsListed ==
  ASSUME IInv
  PROVE  task_next(task_current) \in Listed
  <1>1. /\ list \in Seq(Tasks) /\ Len(list) \in Nat /\ Len(list) >= 1
        /\ DOMAIN list = 1..Len(list)
    BY TasksAssumption DEF IInv, TypeOK, Numbered
  <1>2. PICK k \in DOMAIN list : list[k] = task_current
    BY DEF IInv, TypeOK, Listed
  <1> DEFINE i == Position(task_current)
  <1>3. i \in DOMAIN list
    BY <1>2 DEF Position
  <1>4. 1 \in DOMAIN list /\ (i # Len(list) => i + 1 \in DOMAIN list)
    BY <1>1, <1>3
  <1> HIDE DEF i
  <1>5. task_next(task_current) = IF i = Len(list) THEN list[1] ELSE list[i + 1]
    BY DEF task_next, i
  <1> QED BY <1>4, <1>5 DEF Listed

\* The task that gives up the CPU leaves its frame; rsp is another task's.
LEMMA task_switchIInv == IInv /\ task_switch => IInv'
  <1> SUFFICES ASSUME IInv, task_switch PROVE IInv'
    OBVIOUS
  <1> DEFINE t == task_next(task_current)
             h == [words |-> Live(cr3, rsp), regs |-> regs, ret |-> AfterSwitch]
             called == [stack[cr3] EXCEPT ![rsp + 1] = AfterSwitch]
             frame == Pushed(called, rsp + 1, regs)
  <1>1. /\ Running /\ task_current' = t /\ pc' = "cr3"
        /\ had' = [had EXCEPT ![task_current] = h]
        /\ stack' = [stack EXCEPT ![cr3] = Pushed([@ EXCEPT ![rsp + 1] = AfterSwitch], rsp + 1, regs)]
        /\ tcb' = [tcb EXCEPT ![task_current] = [rsp |-> rsp + 3, cr3 |-> cr3]]
        /\ rsp' = tcb'[t].rsp
        /\ UNCHANGED <<list, directory, regs, cr3, enabled, new, r8, struck>>
    BY DEF task_switch
  <1>2. /\ cr3 = task_current /\ rsp \in 0..MaxDepth /\ cr3 \in Tasks
        /\ task_current \in Listed /\ Listed \subseteq Tasks /\ Waiting = Listed \ {task_current}
    BY <1>1, ListedAreTasks DEF IInv, Place, TypeOK, Waiting, Running
  <1>3. /\ rsp + 1 \in StackWords /\ rsp + 1 \in Nat /\ rsp + 1 + 2 \in StackWords
        /\ rsp + 3 \in 3..MaxDepth + 3 /\ rsp \in 0..MaxDepth + 4 /\ rsp + 3 \in 0..MaxDepth + 4
    BY <1>2, TasksAssumption DEF StackWords
  <1>4. t \in Listed /\ t \in Tasks
    BY <1>2, NextIsListed
  <1> HIDE DEF t
  <1>5. regs \in [Regs -> Values] /\ stack \in [Tasks -> [StackWords -> Values]]
    BY DEF IInv, TypeOK
  <1>6. Live(cr3, rsp) \in Seq(Values) /\ Begins(stack[cr3], rsp, Live(cr3, rsp))
    BY <1>2, <1>3, LiveWords DEF IInv
  <1>7. h \in Hads /\ h.words = Live(cr3, rsp) /\ h.regs = regs /\ h.ret = AfterSwitch
    BY <1>5, <1>6, ValuesHold DEF Hads
  <1> HIDE DEF h
  <1>8. /\ had' \in [Tasks -> Hads] /\ had'[task_current] = h
        /\ \A w \in Tasks : w # task_current => had'[w] = had[w]
    BY <1>1, <1>2, <1>7 DEF IInv
  <1>9. called \in [StackWords -> Values] /\ called[rsp + 1] = AfterSwitch
        /\ \A a \in StackWords : a # rsp + 1 => called[a] = stack[cr3][a]
    BY <1>2, <1>3, <1>5, ValuesHold
  <1>10. stack' = [stack EXCEPT ![cr3] = frame]
    BY <1>1, <1>2, <1>5
  <1> HIDE DEF called
  <1>11. /\ frame \in [StackWords -> Values]
         /\ frame[rsp + 1 + 1] = regs["rbx"] /\ frame[rsp + 1 + 2] = regs["r12"]
         /\ \A a \in StackWords : a # rsp + 1 + 1 /\ a # rsp + 1 + 2 => frame[a] = called[a]
    BY <1>3, <1>5, <1>9, PushedIs
  <1> HIDE DEF frame
  <1>12. /\ stack' \in [Tasks -> [StackWords -> Values]] /\ stack'[cr3] = frame
         /\ \A d \in Tasks : d # cr3 => stack'[d] = stack[d]
    BY <1>2, <1>5, <1>10, <1>11
  <1>13. /\ tcb' \in [Tasks -> [rsp : 0..MaxDepth + 4, cr3 : 0..MaxTasks]]
         /\ tcb'[task_current].rsp = rsp + 3 /\ tcb'[task_current].cr3 = cr3
         /\ \A d \in Tasks : d # task_current => tcb'[d] = tcb[d]
    <2>1. [rsp |-> rsp + 3, cr3 |-> cr3] \in [rsp : 0..MaxDepth + 4, cr3 : 0..MaxTasks]
      BY <1>2, <1>3, TasksAssumption DEF Tasks
    <2> QED BY <1>1, <1>2, <2>1 DEF IInv, TypeOK
  <1>14. Listed' = Listed /\ Waiting' = Listed
    BY <1>1 DEF Listed, Waiting
  <1>15. TypeOK'
    <2>1. rsp' \in 0..MaxDepth + 4
      BY <1>1, <1>4, <1>13
    <2>2. \A w \in Tasks : had'[w].regs \in [Regs -> Values]
      BY <1>8 DEF Hads
    <2> QED BY <1>1, <1>4, <1>12, <1>13, <1>14, <2>1, <2>2 DEF IInv, TypeOK
  <1>16. Numbered' /\ Directories' /\ Saved' /\ Place'
    <2>1. Numbered'
      BY <1>1, <1>14 DEF IInv, Numbered
    <2>2. Directories'
      BY <1>1, <1>14 DEF IInv, Directories, Running
    <2>3. Saved'
      BY <1>2, <1>3, <1>13, <1>14 DEF IInv, Saved
    <2>4. Place'
      BY <1>1 DEF Place, Running
    <2> QED BY <2>1, <2>2, <2>3, <2>4
  <1>17. Kept'
    <2> SUFFICES ASSUME ~struck PROVE Kept'
      BY <1>1 DEF Kept
    <2>1. On(frame, rsp + 3, h)
      <3> DEFINE sp == rsp + 3
      <3>1. /\ sp - 3 = rsp /\ sp - 2 = rsp + 1 /\ sp - 1 = rsp + 1 + 1 /\ sp = rsp + 1 + 2
        BY <1>2
      <3> HIDE DEF sp
      <3>2. \A a \in 1..rsp : frame[a] = h.words[a]
        <4>1. \A a \in 1..rsp : a \in StackWords /\ a # rsp + 1 /\ a # rsp + 1 + 1 /\ a # rsp + 1 + 2
          BY <1>2, TasksAssumption DEF StackWords
        <4> QED BY <1>6, <1>7, <1>9, <1>11, <4>1 DEF Begins
      <3>3. frame[rsp + 1] = AfterSwitch
        <4>1. rsp + 1 # rsp + 1 + 1 /\ rsp + 1 # rsp + 1 + 2
          BY <1>3
        <4> QED BY <1>3, <1>9, <1>11, <4>1
      <3>4. Len(h.words) = rsp
        BY <1>6, <1>7 DEF Begins
      <3>5. \A a \in 1..sp - 3 : frame[a] = h.words[a]
        BY <3>1, <3>2
      <3>6. /\ frame[sp - 2] = h.ret /\ frame[sp - 1] = h.regs["rbx"]
            /\ frame[sp] = h.regs["r12"] /\ Len(h.words) = sp - 3
        BY <1>7, <1>11, <3>1, <3>3, <3>4
      <3>7. On(frame, sp, h)
        BY <1>7, <3>5, <3>6 DEF On
      <3> QED BY <3>7 DEF sp
    <2>2. \A w \in Waiting' : On(stack'[w], tcb'[w].rsp, had'[w])
      <3>1. \A w \in Waiting : On(stack[w], tcb[w].rsp, had[w])
        BY DEF IInv, Kept
      <3>2. \A w \in Waiting' : w \in Tasks /\ (w = task_current \/ (w \in Waiting /\ w # task_current))
        BY <1>2, <1>14
      <3> QED BY <1>2, <1>8, <1>12, <1>13, <2>1, <3>1, <3>2
    <2> QED BY <1>1, <2>2 DEF Kept
  <1> QED BY <1>8, <1>15, <1>16, <1>17 DEF IInv

\* The task switched to finds its frame and goes on where it left.
LEMMA LoadCr3IInv == IInv /\ LoadCr3 => IInv'
  <1> SUFFICES ASSUME IInv, LoadCr3 PROVE IInv'
    OBVIOUS
  <1> DEFINE t == task_current
             s == stack[t]
  <1>1. pc = "cr3" /\ t \in Tasks /\ t \in Listed /\ Waiting = Listed
        /\ UNCHANGED <<list, task_current, tcb, directory, stack, new, r8, had, struck>>
    BY ListedAreTasks DEF LoadCr3, IInv, TypeOK, Waiting
  <1>2. tcb[t].cr3 = t /\ rsp = tcb[t].rsp /\ rsp \in 3..MaxDepth + 3
    BY <1>1 DEF IInv, Saved, Place
  <1>3. /\ cr3' = t /\ rsp' = rsp - 3 /\ enabled' = TRUE /\ pc' = Return(s[rsp - 2])
        /\ regs' = [regs EXCEPT !["r12"] = s[rsp], !["rbx"] = s[rsp - 1]]
    BY <1>2 DEF LoadCr3, Popped
  <1>4. rsp \in StackWords /\ rsp - 1 \in StackWords /\ rsp' \in 0..MaxDepth
        /\ rsp' \in 0..MaxDepth + 4
    BY <1>2, <1>3, TasksAssumption DEF StackWords
  <1>5. s[rsp] \in Values /\ s[rsp - 1] \in Values /\ regs \in [Regs -> Values]
    BY <1>1, <1>4 DEF IInv, TypeOK
  <1>6. regs' \in [Regs -> Values] /\ regs'["r12"] = s[rsp] /\ regs'["rbx"] = s[rsp - 1]
    BY <1>3, <1>5 DEF Regs
  <1>7. pc' \in {"run", "back", "lost"}
    BY <1>3 DEF Return
  <1>8. Listed' = Listed /\ Waiting' = Listed \ {t}
    BY <1>1, <1>7 DEF Listed, Waiting
  <1>9. TypeOK'
    BY <1>1, <1>3, <1>4, <1>6, <1>7, <1>8 DEF IInv, TypeOK
  <1>10. Numbered' /\ Directories' /\ Saved' /\ Place'
    BY <1>1, <1>3, <1>4, <1>7, <1>8 DEF IInv, Numbered, Directories, Saved, Place, Running
  <1>11. Kept'
    <2> SUFFICES ASSUME ~struck PROVE Kept'
      BY <1>1 DEF Kept
    <2>1. \A w \in Waiting' : On(stack'[w], tcb'[w].rsp, had'[w])
      BY <1>1, <1>8 DEF IInv, Kept
    <2>2. On(s, rsp, had[t])
      BY <1>1, <1>2 DEF IInv, Kept
    <2>3. pc' = "back"
      BY <1>3, <2>2 DEF On, Return, AfterCall, WeirdReturn, AfterSwitch
    <2>4. Begins(s, rsp - 3, had[t].words)
      BY <2>2 DEF On, Begins
    <2>5. regs'["rbx"] = had[t].regs["rbx"] /\ regs'["r12"] = had[t].regs["r12"]
      BY <1>6, <2>2 DEF On
    <2> QED BY <1>1, <1>3, <2>1, <2>3, <2>4, <2>5 DEF Kept
  <1> QED BY <1>1, <1>9, <1>10, <1>11 DEF IInv

-----------------------------------------------------------------------------
(* The theorems.                                                           *)

\* A step that changes nothing.
LEMMA StutterIInv == IInv /\ UNCHANGED vars => IInv'
  <1> SUFFICES ASSUME IInv, UNCHANGED vars PROVE IInv'
    OBVIOUS
  <1>1. UNCHANGED <<list, task_current, tcb, directory, stack, regs, rsp, cr3, enabled,
                    pc, new, r8, had, struck>>
    BY DEF vars, cpu
  <1>2. Listed' = Listed /\ Waiting' = Waiting
    BY <1>1 DEF Listed, Waiting
  <1>3. TypeOK'
    BY <1>1, <1>2 DEF IInv, TypeOK
  <1>4. Numbered' /\ Directories' /\ Saved' /\ Place' /\ Kept'
    BY <1>1, <1>2 DEF IInv, Numbered, Directories, Saved, Place, Running, Kept
  <1> QED BY <1>1, <1>3, <1>4 DEF IInv

\* The inductive invariant holds of every run of tasks and interrupts.
THEOREM Invariance == Spec => []IInv
  <1>1. task_init => IInv
    BY InitIInv
  <1>2. IInv /\ [Next]_vars => IInv'
    <2> SUFFICES ASSUME IInv, [Next]_vars PROVE IInv'
      OBVIOUS
    <2>1. CASE Compute \/ PopLocal \/ SetInterrupts
      BY <2>1, ComputeIInv
    <2>2. CASE PushLocal
      BY <2>2, PushLocalIInv
    <2>3. CASE Interrupt
      BY <2>3, InterruptIInv
    <2>4. CASE \E t \in Tasks : task_create(t)
      BY <2>4, task_createIInv
    <2>5. CASE task_switch \/ Goes
      BY <2>5, task_switchIInv, weird_switch2IInv, LeaveChildIInv, LoadCr3IInv DEF Goes
    <2>6. CASE UNCHANGED vars
      BY <2>6, StutterIInv
    <2> QED BY <2>1, <2>2, <2>3, <2>4, <2>5, <2>6 DEF Next
  <1> QED BY <1>1, <1>2, PTL DEF Spec

\* The tasks, the stacks and the CPU keep their types; rsp never leaves the
\* stack, also after an interrupt in a window.
THEOREM TypeCorrect == Spec => []TypeOK
  <1>1. IInv => TypeOK
    BY DEF IInv
  <1> QED BY <1>1, Invariance, PTL

\* The frame of a task as one sequence.
LEMMA FrameWords ==
  ASSUME NEW t \in Tasks, had[t] \in Hads
  PROVE  LET n == Len(had[t].words)
         IN /\ n \in Nat
            /\ Frame(t) = [a \in 1..n + 3 |->
                             IF a = n + 2 THEN had[t].regs["rbx"]
                             ELSE IF a = n + 3 THEN had[t].regs["r12"]
                             ELSE IF a = n + 1 THEN had[t].ret ELSE had[t].words[a]]
  <1> DEFINE w == had[t].words
             n == Len(w)
             c == <<had[t].ret, Junk, Junk>>
             s == w \o c
  <1>1. w \in Seq(Values) /\ had[t].ret \in Values /\ Junk \in Values
    BY ValuesHold DEF Hads
  <1>2. c \in Seq(Values) /\ Len(c) = 3 /\ c[1] = had[t].ret /\ n \in Nat
    BY <1>1
  <1> HIDE DEF c, w
  <1>3. /\ s \in Seq(Values) /\ Len(s) = n + 3
        /\ \A i \in 1..n + 3 : s[i] = IF i <= n THEN w[i] ELSE c[i - n]
    <2>1. /\ s \in Seq(Values) /\ Len(s) = Len(w) + Len(c)
          /\ \A i \in 1..Len(w) + Len(c) : s[i] = IF i <= Len(w) THEN w[i] ELSE c[i - Len(w)]
      BY <1>1, <1>2, ConcatProperties
    <2> HIDE DEF s
    <2> QED BY <1>2, <2>1
  <1>4. DOMAIN s = 1..n + 3 /\ s[n + 1] = had[t].ret /\ \A a \in 1..n : s[a] = w[a]
    BY <1>2, <1>3
  <1>5. Frame(t) = [s EXCEPT ![n + 1 + 1] = had[t].regs["rbx"], ![n + 1 + 2] = had[t].regs["r12"]]
    BY DEF Frame, Pushed, w, c
  <1>6. n + 1 + 1 = n + 2 /\ n + 1 + 2 = n + 3
    BY <1>2
  <1> HIDE DEF s
  <1>7. Frame(t) = [a \in 1..n + 3 |->
                      IF a = n + 3 THEN had[t].regs["r12"]
                      ELSE IF a = n + 2 THEN had[t].regs["rbx"] ELSE s[a]]
    BY <1>2, <1>4, <1>5, <1>6
  <1>8. \A a \in 1..n + 3 :
          (IF a = n + 3 THEN had[t].regs["r12"] ELSE IF a = n + 2 THEN had[t].regs["rbx"] ELSE s[a])
          = (IF a = n + 2 THEN had[t].regs["rbx"] ELSE IF a = n + 3 THEN had[t].regs["r12"]
             ELSE IF a = n + 1 THEN had[t].ret ELSE w[a])
    BY <1>2, <1>4
  <1> QED BY <1>2, <1>7, <1>8 DEF w

\* A task that waits finds the stack it left in its own directory, whatever
\* tasks are made and run and wherever interrupts come, but in the windows.
THEOREM FramesIntact == Spec => []Intact
  <1>1. IInv => Intact
    <2> SUFFICES ASSUME IInv, ~struck, NEW t \in Waiting
                 PROVE  tcb[t].cr3 \in Tasks /\ Live(tcb[t].cr3, tcb[t].rsp) = Frame(t)
      BY DEF Intact
    <2> DEFINE n == Len(had[t].words)
               sp == tcb[t].rsp
               s == stack[t]
    <2>1. t \in Tasks /\ tcb[t].cr3 = t /\ sp \in 3..MaxDepth + 3 /\ had[t] \in Hads
      BY ListedAreTasks DEF IInv, Saved
    <2>2. On(s, sp, had[t])
      BY DEF IInv, Kept
    <2>3. n = sp - 3 /\ sp - 2 = n + 1 /\ sp - 1 = n + 2 /\ sp = n + 3 /\ n \in Nat
      BY <2>1, <2>2, TasksAssumption DEF On
    <2>4. /\ \A a \in 1..n : s[a] = had[t].words[a]
          /\ s[n + 1] = had[t].ret /\ s[n + 2] = had[t].regs["rbx"] /\ s[n + 3] = had[t].regs["r12"]
      BY <2>2, <2>3 DEF On
    <2>5. Frame(t) = [a \in 1..n + 3 |->
                        IF a = n + 2 THEN had[t].regs["rbx"]
                        ELSE IF a = n + 3 THEN had[t].regs["r12"]
                        ELSE IF a = n + 1 THEN had[t].ret ELSE had[t].words[a]]
      BY <2>1, FrameWords
    <2>6. Live(t, sp) = [a \in 1..n + 3 |-> s[a]]
      BY <2>3 DEF Live
    <2> HIDE DEF n, s
    <2>7. \A a \in 1..n + 3 :
            s[a] = IF a = n + 2 THEN had[t].regs["rbx"]
                   ELSE IF a = n + 3 THEN had[t].regs["r12"]
                   ELSE IF a = n + 1 THEN had[t].ret ELSE had[t].words[a]
      BY <2>3, <2>4
    <2>8. Live(t, sp) = Frame(t)
      BY <2>5, <2>6, <2>7
    <2> QED BY <2>1, <2>8
  <1> QED BY <1>1, Invariance, PTL

\* A task comes back with the stack and the pushed registers it had, in its own
\* directory.
THEOREM ContextIsKept == Spec => []ContextKept
  <1>1. IInv => ContextKept
    <2> SUFFICES ASSUME IInv, ~struck PROVE ContextKept
      BY DEF ContextKept
    <2>1. pc # "lost" /\ (Running => cr3 = directory[task_current])
      BY DEF IInv, Kept, Place, Running, Directories, TypeOK
    <2>2. ASSUME pc = "back"
          PROVE  /\ Live(cr3, rsp) = had[task_current].words
                 /\ \A r \in {"rbx", "r12"} : regs[r] = had[task_current].regs[r]
      <3> DEFINE w == had[task_current].words
      <3>1. Begins(stack[cr3], rsp, w)
        BY <2>2 DEF IInv, Kept
      <3>2. w \in Seq(Values)
        BY ListedAreTasks DEF IInv, Hads
      <3>3. w = [a \in 1..Len(w) |-> w[a]]
        BY <3>2
      <3> HIDE DEF w
      <3>4. Live(cr3, rsp) = w
        BY <3>1, <3>3 DEF Live, Begins
      <3> QED BY <2>2, <3>4 DEF IInv, Kept, w
    <2> QED BY <2>1, <2>2 DEF ContextKept
  <1> QED BY <1>1, Invariance, PTL
=============================================================================
