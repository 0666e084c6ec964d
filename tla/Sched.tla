------------------------------- MODULE Sched -------------------------------
(***************************************************************************)
(* Processes and their scheduler (Lcore-Stage7-01/task/task.c and          *)
(* Lcore-Stage7-03/arch/sched.c): process numbers, fork with the places    *)
(* where it fails, the ready queue and the round robin of the clock.       *)
(*                                                                         *)
(* A system call and an interrupt run with interrupts off, so each is one  *)
(* step.  timer_sched is taken to be on the clock's list, where init_sched *)
(* puts it if no clock handler has been registered before.  No code in the *)
(* repository ends a process or blocks one.                                *)
(***************************************************************************)
EXTENDS Integers, Sequences

CONSTANTS
  Slots,          \* the task_union objects kmalloc may hand out, and init's
  init,
  IDMAP_MAX,
  _DEFAULT_TICKS

ASSUME SchedAssumption ==
  /\ init \in Slots
  /\ IDMAP_MAX \in Nat \ {0}
  /\ _DEFAULT_TICKS \in Nat /\ _DEFAULT_TICKS >= 2

VARIABLES
  idmap,      \* the bytes of idmap whose first bit is set
  task,       \* task[t]: the fields of the task_struct in t
  tasks,      \* the objects on the list of all tasks
  ready,      \* ready_tasks, first to last
  current,
  v0,         \* v0[t]: what fork last returned to t
  strayed     \* history: the tasks whose v0 is due to a fork that ran off copy_mem

vars == <<idmap, task, tasks, ready, current, v0, strayed>>

Pids  == 0 .. IDMAP_MAX - 1
Error   == -1       \* what fork returns when copy_mem returns NULL
Garbage == -2       \* any number that is no process number
None    == -3       \* no fork yet

Unused == [pid |-> Garbage, parent |-> Garbage, state |-> "UNINIT", counter |-> 0]

-----------------------------------------------------------------------------
(* get_emptypid.  The inner loop looks at sizeof(unsigned char) bits, which *)
(* is one, so a byte of idmap stands for one number.                       *)

FreePids == Pids \ idmap

\* Mutant of get_emptypid: the bit is not set.
get_emptypidUnset(p) == p \in FreePids /\ (\A q \in FreePids : p <= q) /\ UNCHANGED idmap

get_emptypid(p) == /\ p \in FreePids
                   /\ \A q \in FreePids : p <= q
                   /\ idmap' = idmap \cup {p}

-----------------------------------------------------------------------------
(* do_fork and copy_mem.                                                   *)

\* All 16 numbers are in use: copy_mem returns NULL.
ForkNoPid ==
  /\ FreePids = {}
  /\ v0' = [v0 EXCEPT ![current] = Error]
  /\ strayed' = strayed \ {current}
  /\ UNCHANGED <<idmap, task, tasks, ready, current>>

\* The other two failures run off the end of copy_mem, which returns nothing in
\* particular.  do_fork takes it for NULL, or for a task: then it returns the
\* number it finds there, a task's or not, and stores a 0 where it supposes the
\* child's v0, which may be that of any task, or no place that is modelled.
Botched ==
  \/ /\ v0' = [v0 EXCEPT ![current] = Error]
     /\ strayed' = strayed \ {current}
  \/ \E r \in Pids \cup {Garbage} :
       \/ /\ v0' = [v0 EXCEPT ![current] = r]
          /\ strayed' = strayed \cup {current}
       \/ \E s \in tasks :
            /\ v0' = [v0 EXCEPT ![current] = r, ![s] = 0]
            /\ strayed' = strayed \cup {current, s}

\* kmalloc has no memory for the task_union: the number is given back.
ForkNoTask ==
  /\ FreePids # {}
  /\ Botched
  /\ UNCHANGED <<idmap, task, tasks, ready, current>>

\* copy_pagetables fails: the number is not given back.
ForkNoPgd ==
  /\ \E p \in FreePids : get_emptypid(p)
  /\ Botched
  /\ UNCHANGED <<task, tasks, ready, current>>

\* Mutant of Child: the parent is copied over the new number.
ChildCopied(p) == [task[current] EXCEPT !.state = "READY", !.parent = task[current].pid,
                                        !.counter = _DEFAULT_TICKS]

Child(p) == [task[current] EXCEPT !.state = "READY", !.parent = task[current].pid,
                                  !.pid = p, !.counter = _DEFAULT_TICKS]

\* Mutant of Fork: the new task is not on the list of ready tasks.
ForkUnqueued(t, p) ==
  /\ t \in Slots \ tasks
  /\ get_emptypid(p)
  /\ task' = [task EXCEPT ![t] = Child(p)]
  /\ tasks' = tasks \cup {t}
  /\ v0' = [v0 EXCEPT ![current] = p, ![t] = 0]
  /\ strayed' = strayed \ {current}
  /\ UNCHANGED <<current, ready>>

\* The new task is ready, and the first in the queue.
Fork(t, p) ==
  /\ t \in Slots \ tasks
  /\ get_emptypid(p)
  /\ task' = [task EXCEPT ![t] = Child(p)]
  /\ tasks' = tasks \cup {t}
  /\ ready' = <<t>> \o ready
  /\ v0' = [v0 EXCEPT ![current] = p, ![t] = 0]
  /\ strayed' = strayed \ {current}
  /\ UNCHANGED current

-----------------------------------------------------------------------------
(* timer_sched and sched.                                                  *)

\* The time slice is not used up.
TickRuns ==
  /\ task[current].counter # 1
  /\ task' = [task EXCEPT ![current].counter = @ - 1]
  /\ UNCHANGED <<idmap, tasks, ready, current, v0, strayed>>

\* Switch with a slice of n ticks, choosing from this queue.
Switch(n, queue) ==
  /\ task[current].counter = 1
  /\ task' = [task EXCEPT ![current].counter = n, ![current].state = "READY"]
  /\ current' = Head(queue)
  /\ ready' = Tail(queue)
  /\ UNCHANGED <<idmap, tasks, v0, strayed>>

\* Mutants of TickSwitches: the task is put first instead of last; its slice
\* is not renewed.
TickSwitchesFirst == Switch(_DEFAULT_TICKS \div 2, <<current>> \o ready)
TickSwitchesSpent == Switch(0, Append(ready, current))

\* The task goes to the end of the queue and the first one in it runs, the
\* same one if it is alone.
TickSwitches == Switch(_DEFAULT_TICKS \div 2, Append(ready, current))

Tick == TickRuns \/ TickSwitches

-----------------------------------------------------------------------------
\* init_task and init_sched.
Init ==
  /\ idmap = {0}
  /\ task = [t \in Slots |->
               IF t = init THEN [pid |-> 0, parent |-> 0, state |-> "RUNNING", counter |-> _DEFAULT_TICKS]
               ELSE Unused]
  /\ tasks = {init}
  /\ ready = <<>>
  /\ current = init
  /\ v0 = [t \in Slots |-> None]
  /\ strayed = {}

DoFork == \/ ForkNoPid \/ ForkNoTask \/ ForkNoPgd
          \/ \E t \in Slots, p \in Pids : Fork(t, p)

Next == Tick \/ DoFork

\* The clock goes on interrupting.
Spec == Init /\ [][Next]_vars /\ WF_vars(Tick)

-----------------------------------------------------------------------------
\* The types of the variables.
SchedTypeOK ==
  /\ idmap \subseteq Pids
  /\ task \in [Slots -> [pid : Pids \cup {Garbage}, parent : Pids \cup {Garbage},
                        state : {"UNINIT", "RUNNING", "READY"}, counter : Nat]]
  /\ tasks \subseteq Slots
  /\ ready \in Seq(Slots)
  /\ current \in Slots
  /\ v0 \in [Slots -> Pids \cup {Error, Garbage, None}]
  /\ strayed \subseteq tasks

\* Every task but the running one is in the ready queue, once: none is lost by
\* a fork or a switch, and none can run twice in a round.
QueueExact ==
  /\ current \in tasks
  /\ {ready[k] : k \in 1 .. Len(ready)} = tasks \ {current}
  /\ \A j, k \in 1 .. Len(ready) : ready[j] = ready[k] => j = k

\* No two tasks have the same number, and the number of a task is marked as
\* taken, whatever forks have failed half-way.
PidsDistinct ==
  /\ \A t \in tasks : task[t].pid \in idmap
  /\ \A t, u \in tasks : task[t].pid = task[u].pid => t = u

\* The counter of a task is never 0 when the clock takes one off it: it is
\* unsigned, and the task would keep the processor for 2^32 ticks.
SliceNeverZero == \A t \in tasks : task[t].counter \in 1 .. _DEFAULT_TICKS

\* A number that fork returned names a task whose parent is the caller, for as
\* long as the caller has it, whatever forks fail later.  Only a fork that ran off
\* the end of copy_mem may answer with the number of any task.
ForkNamesChild ==
  \A t \in tasks \ strayed : v0[t] \in Pids \ {0} =>
    \E c \in tasks : task[c].pid = v0[t] /\ task[c].parent = task[t].pid

\* Every task runs again and again, although each fork puts its child in front
\* of all that wait.
RunsAgain == \A t \in Slots : []<>(t \in tasks => current = t)
=============================================================================
