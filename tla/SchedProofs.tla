---------------------------- MODULE SchedProofs ----------------------------
(***************************************************************************)
(* Theorems about Sched and about Interrupts, which runs it, for any       *)
(* number of task objects, process numbers and ticks.                      *)
(*                                                                         *)
(* SchedInv is inductive: a queue that holds every task but the running    *)
(* one is what keeps current among the tasks, and the counters are what    *)
(* keeps the clock from taking one off 0.                                  *)
(***************************************************************************)
EXTENDS Interrupts, TLAPS, SequenceTheorems

QueueOf(q) == {q[k] : k \in 1 .. Len(q)}

NoDup(q) == \A j, k \in 1 .. Len(q) : q[j] = q[k] => j = k

SchedInv == SchedTypeOK /\ QueueExact /\ PidsDistinct /\ SliceNeverZero

\* A new first element.
LEMMA PushFront ==
  ASSUME NEW S, NEW q \in Seq(S), NEW x \in S, x \notin QueueOf(q), NoDup(q)
  PROVE  /\ <<x>> \o q \in Seq(S)
         /\ QueueOf(<<x>> \o q) = QueueOf(q) \cup {x}
         /\ NoDup(<<x>> \o q)
<1> DEFINE r == <<x>> \o q
<1>1. /\ r \in Seq(S) /\ Len(q) \in Nat /\ Len(r) = Len(q) + 1
      /\ r[1] = x /\ \A k \in 1 .. Len(q) : r[k + 1] = q[k]
  OBVIOUS
<1> HIDE DEF r
<1>2. \A k \in 1 .. Len(r) : k = 1 \/ (k - 1 \in 1 .. Len(q) /\ r[k] = q[k - 1])
  <2> SUFFICES ASSUME NEW k \in 1 .. Len(r), k # 1
               PROVE  k - 1 \in 1 .. Len(q) /\ r[k] = q[k - 1]
    OBVIOUS
  <2>1. k - 1 \in 1 .. Len(q) /\ (k - 1) + 1 = k
    BY <1>1
  <2> QED BY <1>1, <2>1
<1>3. QueueOf(r) = QueueOf(q) \cup {x}
  <2>1. \A y \in QueueOf(r) : y \in QueueOf(q) \cup {x}
    <3> SUFFICES ASSUME NEW k \in 1 .. Len(r) PROVE r[k] \in QueueOf(q) \cup {x}
      BY DEF QueueOf
    <3>1. CASE k = 1
      BY <1>1, <3>1
    <3>2. CASE k # 1
      BY <1>2, <3>2 DEF QueueOf
    <3> QED BY <3>1, <3>2
  <2>2. \A y \in QueueOf(q) : y \in QueueOf(r)
    <3> SUFFICES ASSUME NEW k \in 1 .. Len(q) PROVE q[k] \in QueueOf(r)
      BY DEF QueueOf
    <3>1. k + 1 \in 1 .. Len(r) /\ r[k + 1] = q[k]
      BY <1>1
    <3> QED BY <3>1 DEF QueueOf
  <2>3. x \in QueueOf(r)
    <3>1. 1 \in 1 .. Len(r)
      BY <1>1
    <3> QED BY <1>1, <3>1 DEF QueueOf
  <2> QED BY <2>1, <2>2, <2>3
<1>4. NoDup(r)
  <2> SUFFICES ASSUME NEW j \in 1 .. Len(r), NEW k \in 1 .. Len(r), r[j] = r[k]
               PROVE  j = k
    BY DEF NoDup
  <2>1. \A i \in 1 .. Len(q) : q[i] # x
    BY DEF QueueOf
  <2>2. CASE j = 1 \/ k = 1
    BY <1>1, <1>2, <2>1, <2>2
  <2>3. CASE j # 1 /\ k # 1
    <3>1. j - 1 \in 1 .. Len(q) /\ k - 1 \in 1 .. Len(q) /\ q[j - 1] = q[k - 1]
      BY <1>2, <2>3
    <3>2. j - 1 = k - 1
      BY <3>1 DEF NoDup
    <3> QED BY <1>1, <3>2
  <2> QED BY <2>2, <2>3
<1> QED BY <1>1, <1>3, <1>4 DEF r

\* One element goes to the end and the first one is taken off.
LEMMA Rotate ==
  ASSUME NEW S, NEW q \in Seq(S), NEW x \in S, x \notin QueueOf(q), NoDup(q)
  PROVE  LET h == Head(Append(q, x))
             r == Tail(Append(q, x))
         IN  /\ h \in S /\ r \in Seq(S)
             /\ h \in QueueOf(q) \cup {x}
             /\ QueueOf(r) = (QueueOf(q) \cup {x}) \ {h}
             /\ NoDup(r)
<1> DEFINE a == Append(q, x)
           h == Head(a)
           r == Tail(a)
           n == Len(q)
<1>1. /\ a \in Seq(S) /\ n \in Nat /\ Len(a) = n + 1 /\ a[n + 1] = x
      /\ \A k \in 1 .. n : a[k] = q[k]
  OBVIOUS
<1> HIDE DEF a
<1>2. /\ h = a[1] /\ h \in S /\ r \in Seq(S) /\ Len(r) = n
      /\ \A k \in 1 .. n : r[k] = a[k + 1]
  BY <1>1
<1> HIDE DEF h, r
<1>3. \A j, k \in 1 .. n + 1 : a[j] = a[k] => j = k
  <2> SUFFICES ASSUME NEW j \in 1 .. n + 1, NEW k \in 1 .. n + 1, a[j] = a[k]
               PROVE  j = k
    OBVIOUS
  <2>1. \A i \in 1 .. n : q[i] # x
    BY DEF QueueOf
  <2>2. CASE j \in 1 .. n /\ k \in 1 .. n
    BY <1>1, <2>2 DEF NoDup
  <2>3. CASE j = n + 1 \/ k = n + 1
    BY <1>1, <2>1, <2>3
  <2> QED BY <1>1, <2>2, <2>3
<1>4. NoDup(r)
  <2> SUFFICES ASSUME NEW j \in 1 .. n, NEW k \in 1 .. n, r[j] = r[k]
               PROVE  j = k
    BY <1>2 DEF NoDup
  <2>1. j + 1 \in 1 .. n + 1 /\ k + 1 \in 1 .. n + 1 /\ a[j + 1] = a[k + 1]
    BY <1>1, <1>2
  <2>2. j + 1 = k + 1
    BY <1>3, <2>1
  <2> QED BY <1>1, <2>2
<1>5. \A y : y \in QueueOf(q) \cup {x} <=> \E k \in 1 .. n + 1 : y = a[k]
  <2>1. ASSUME NEW k \in 1 .. n PROVE k \in 1 .. n + 1 /\ a[k] = q[k]
    BY <1>1
  <2>2. n + 1 \in 1 .. n + 1
    BY <1>1
  <2>3. \A k \in 1 .. n + 1 : k \in 1 .. n \/ k = n + 1
    BY <1>1
  <2> QED BY <1>1, <2>1, <2>2, <2>3 DEF QueueOf
<1>6. \A y : y \in QueueOf(r) <=> \E k \in 1 .. n + 1 : k # 1 /\ y = a[k]
  <2>1. ASSUME NEW k \in 1 .. n PROVE k + 1 \in 1 .. n + 1 /\ k + 1 # 1 /\ r[k] = a[k + 1]
    BY <1>1, <1>2
  <2>2. ASSUME NEW k \in 1 .. n + 1, k # 1 PROVE k - 1 \in 1 .. n /\ r[k - 1] = a[k]
    <3>1. k - 1 \in 1 .. n /\ (k - 1) + 1 = k
      BY <1>1, <2>2
    <3> QED BY <1>2, <3>1
  <2> QED BY <1>2, <2>1, <2>2 DEF QueueOf
<1>7. 1 \in 1 .. n + 1
  BY <1>1
<1>8. h \in QueueOf(q) \cup {x}
  BY <1>2, <1>5, <1>7
<1>9. QueueOf(r) = (QueueOf(q) \cup {x}) \ {h}
  BY <1>2, <1>3, <1>5, <1>6, <1>7
<1> QED BY <1>2, <1>4, <1>8, <1>9 DEF h, r, a

LEMMA InitInv == Init => SchedInv
<1> SUFFICES ASSUME Init PROVE SchedInv
  OBVIOUS
<1> USE SchedAssumption
<1>1. 0 \in Pids
  BY DEF Pids
<1>2. SchedTypeOK
  <2>1. task \in [Slots -> [pid : Pids \cup {Garbage}, parent : Pids \cup {Garbage},
                            state : {"UNINIT", "RUNNING", "READY"}, counter : Nat]]
    BY <1>1 DEF Init, Unused, Garbage
  <2> QED BY <1>1, <2>1 DEF Init, SchedTypeOK, None
<1>3. QueueExact
  BY DEF Init, QueueExact
<1>4. PidsDistinct /\ SliceNeverZero
  BY DEF Init, PidsDistinct, SliceNeverZero
<1> QED BY <1>2, <1>3, <1>4 DEF SchedInv

\* What a fork that runs off the end of copy_mem does to the answers of forks: it
\* changes those of the running task and of one other, and no answer it changes
\* to a number is trusted.
LEMMA BotchedFacts ==
  ASSUME SchedTypeOK, current \in tasks, Botched
  PROVE  /\ v0' \in [Slots -> Pids \cup {Error, Garbage, None}]
         /\ strayed' \subseteq tasks
         /\ \A t \in tasks \ strayed' : (v0'[t] = v0[t] /\ t \notin strayed) \/ v0'[t] = Error
<1> USE SchedAssumption
<1>1. /\ v0 \in [Slots -> Pids \cup {Error, Garbage, None}] /\ 0 \in Pids
      /\ tasks \subseteq Slots /\ strayed \subseteq tasks
  BY DEF SchedTypeOK, Pids
<1>2. CASE v0' = [v0 EXCEPT ![current] = Error] /\ strayed' = strayed \ {current}
  BY <1>1, <1>2
<1>3. ASSUME NEW r \in Pids \cup {Garbage},
             v0' = [v0 EXCEPT ![current] = r] /\ strayed' = strayed \cup {current}
      PROVE  /\ v0' \in [Slots -> Pids \cup {Error, Garbage, None}]
             /\ strayed' \subseteq tasks
             /\ \A t \in tasks \ strayed' : v0'[t] = v0[t] /\ t \notin strayed
  BY <1>1, <1>3
<1>4. ASSUME NEW r \in Pids \cup {Garbage}, NEW s \in tasks,
             v0' = [v0 EXCEPT ![current] = r, ![s] = 0] /\ strayed' = strayed \cup {current, s}
      PROVE  /\ v0' \in [Slots -> Pids \cup {Error, Garbage, None}]
             /\ strayed' \subseteq tasks
             /\ \A t \in tasks \ strayed' : v0'[t] = v0[t] /\ t \notin strayed
  BY <1>1, <1>4
<1> QED BY <1>2, <1>3, <1>4 DEF Botched

\* A fork that fails leaves the tasks and the queue alone.
LEMMA FailedForkStep ==
  ASSUME SchedInv, ForkNoPid \/ ForkNoTask \/ ForkNoPgd
  PROVE  SchedInv'
<1>1. /\ idmap \subseteq idmap' /\ idmap' \subseteq Pids
      /\ UNCHANGED <<task, tasks, ready, current>>
  BY DEF SchedInv, SchedTypeOK, ForkNoPid, ForkNoTask, ForkNoPgd, get_emptypid, FreePids
<1>2. v0' \in [Slots -> Pids \cup {Error, Garbage, None}]
  BY BotchedFacts DEF SchedInv, SchedTypeOK, QueueExact, ForkNoPid, ForkNoTask, ForkNoPgd
<1>2a. strayed' \subseteq tasks
  BY BotchedFacts DEF SchedInv, SchedTypeOK, QueueExact, ForkNoPid, ForkNoTask, ForkNoPgd
<1>3. SchedTypeOK'
  BY <1>1, <1>2, <1>2a DEF SchedInv, SchedTypeOK
<1>4. QueueExact'
  BY <1>1 DEF SchedInv, QueueExact
<1>5. PidsDistinct' /\ SliceNeverZero'
  BY <1>1 DEF SchedInv, PidsDistinct, SliceNeverZero
<1> QED BY <1>3, <1>4, <1>5 DEF SchedInv

LEMMA ForkStep ==
  ASSUME SchedInv, NEW t \in Slots, NEW p \in Pids, Fork(t, p)
  PROVE  SchedInv'
<1> USE SchedAssumption
<1>1. /\ t \notin tasks /\ p \notin idmap /\ idmap' = idmap \cup {p}
      /\ tasks' = tasks \cup {t} /\ ready' = <<t>> \o ready /\ current' = current
      /\ task' = [task EXCEPT ![t] = Child(p)]
  BY DEF Fork, get_emptypid, FreePids
<1>2. /\ task \in [Slots -> [pid : Pids \cup {Garbage}, parent : Pids \cup {Garbage},
                             state : {"UNINIT", "RUNNING", "READY"}, counter : Nat]]
      /\ tasks \subseteq Slots /\ ready \in Seq(Slots) /\ current \in tasks
      /\ idmap \subseteq Pids
  BY DEF SchedInv, SchedTypeOK, QueueExact
<1>3. /\ Child(p) \in [pid : Pids \cup {Garbage}, parent : Pids \cup {Garbage},
                       state : {"UNINIT", "RUNNING", "READY"}, counter : Nat]
      /\ Child(p).pid = p /\ Child(p).counter = _DEFAULT_TICKS
  BY <1>2 DEF Child
<1>4. /\ task'[t].pid = p /\ task'[t].counter = _DEFAULT_TICKS
      /\ \A u \in tasks : task'[u] = task[u]
  BY <1>1, <1>2, <1>3
<1>5. QueueOf(ready) = tasks \ {current} /\ NoDup(ready)
  BY DEF SchedInv, QueueExact, QueueOf, NoDup
<1>6. /\ ready' \in Seq(Slots) /\ QueueOf(ready') = QueueOf(ready) \cup {t} /\ NoDup(ready')
  <2>1. t \notin QueueOf(ready)
    BY <1>1, <1>5
  <2> QED BY <1>1, <1>2, <1>5, <2>1, PushFront
<1>7. QueueExact'
  <2>1. QueueOf(ready') = tasks' \ {current'} /\ current' \in tasks'
    BY <1>1, <1>2, <1>5, <1>6
  <2> QED BY <1>6, <2>1 DEF QueueExact, QueueOf, NoDup
<1>8. SchedTypeOK'
  <2>1. v0' \in [Slots -> Pids \cup {Error, Garbage, None}]
    <3>1. 0 \in Pids
      BY DEF Pids
    <3> QED BY <3>1 DEF SchedInv, SchedTypeOK, Fork
  <2>3. strayed' \subseteq tasks'
    BY <1>1 DEF SchedInv, SchedTypeOK, Fork
  <2>2. task' \in [Slots -> [pid : Pids \cup {Garbage}, parent : Pids \cup {Garbage},
                             state : {"UNINIT", "RUNNING", "READY"}, counter : Nat]]
    BY <1>1, <1>2, <1>3
  <2> QED BY <1>1, <1>2, <1>6, <2>1, <2>2, <2>3 DEF SchedTypeOK
<1>9. PidsDistinct'
  BY <1>1, <1>4 DEF SchedInv, PidsDistinct
<1>10. SliceNeverZero'
  BY <1>1, <1>4 DEF SchedInv, SliceNeverZero
<1> QED BY <1>7, <1>8, <1>9, <1>10 DEF SchedInv

LEMMA TickStep ==
  ASSUME SchedInv, Tick
  PROVE  SchedInv'
<1> USE SchedAssumption
<1>1. /\ task \in [Slots -> [pid : Pids \cup {Garbage}, parent : Pids \cup {Garbage},
                             state : {"UNINIT", "RUNNING", "READY"}, counter : Nat]]
      /\ tasks \subseteq Slots /\ ready \in Seq(Slots)
      /\ current \in tasks /\ current \in Slots
      /\ task[current].counter \in 1 .. _DEFAULT_TICKS
      /\ QueueOf(ready) = tasks \ {current} /\ NoDup(ready)
  BY DEF SchedInv, SchedTypeOK, QueueExact, SliceNeverZero, QueueOf, NoDup
<1>2. CASE TickRuns
  <2>1. task' = [task EXCEPT ![current].counter = @ - 1] /\ UNCHANGED <<idmap, tasks, ready, current, v0, strayed>>
    BY <1>2 DEF TickRuns
  <2>2. task[current].counter - 1 \in 1 .. _DEFAULT_TICKS
    BY <1>1, <1>2 DEF TickRuns
  <2>3. /\ task' \in [Slots -> [pid : Pids \cup {Garbage}, parent : Pids \cup {Garbage},
                             state : {"UNINIT", "RUNNING", "READY"}, counter : Nat]]
        /\ \A u \in tasks : task'[u].pid = task[u].pid /\ task'[u].counter \in 1 .. _DEFAULT_TICKS
    <3>1. task[current].counter - 1 \in Nat /\ current \in Slots
      BY <1>1, <2>2
    <3>2. task' \in [Slots -> [pid : Pids \cup {Garbage}, parent : Pids \cup {Garbage},
                             state : {"UNINIT", "RUNNING", "READY"}, counter : Nat]]
      BY <1>1, <2>1, <3>1
    <3>3. task'[current].pid = task[current].pid /\ task'[current].counter = task[current].counter - 1
      BY <1>1, <2>1
    <3>4. \A u \in tasks \ {current} : task'[u] = task[u]
      BY <1>1, <2>1
    <3>5. \A u \in tasks : task[u].counter \in 1 .. _DEFAULT_TICKS
      BY DEF SchedInv, SliceNeverZero
    <3> QED BY <2>2, <3>2, <3>3, <3>4, <3>5
  <2>4. SchedTypeOK'
    BY <2>1, <2>3 DEF SchedInv, SchedTypeOK
  <2>5. QueueExact'
    BY <2>1 DEF SchedInv, QueueExact
  <2>6. PidsDistinct' /\ SliceNeverZero'
    <3>1. tasks' = tasks /\ idmap' = idmap
      BY <2>1
    <3>2. PidsDistinct'
      BY <2>3, <3>1 DEF SchedInv, PidsDistinct
    <3>3. SliceNeverZero'
      BY <2>3, <3>1 DEF SliceNeverZero
    <3> QED BY <3>2, <3>3
  <2> QED BY <2>4, <2>5, <2>6 DEF SchedInv
<1>3. CASE TickSwitches
  <2> DEFINE n == _DEFAULT_TICKS \div 2
  <2>1. /\ task' = [task EXCEPT ![current].counter = n, ![current].state = "READY"]
        /\ current' = Head(Append(ready, current)) /\ ready' = Tail(Append(ready, current))
        /\ UNCHANGED <<idmap, tasks, v0, strayed>>
    BY <1>3 DEF TickSwitches, Switch
  <2>2. n \in 1 .. _DEFAULT_TICKS
    OBVIOUS
  <2> HIDE DEF n
  <2>3. /\ task' \in [Slots -> [pid : Pids \cup {Garbage}, parent : Pids \cup {Garbage},
                             state : {"UNINIT", "RUNNING", "READY"}, counter : Nat]]
        /\ \A u \in tasks : task'[u].pid = task[u].pid /\ task'[u].counter \in 1 .. _DEFAULT_TICKS
    <3>1. n \in Nat /\ current \in Slots
      BY <1>1, <2>2
    <3>2. task' \in [Slots -> [pid : Pids \cup {Garbage}, parent : Pids \cup {Garbage},
                             state : {"UNINIT", "RUNNING", "READY"}, counter : Nat]]
      BY <1>1, <2>1, <3>1
    <3>3. task'[current].pid = task[current].pid /\ task'[current].counter = n
      BY <1>1, <2>1
    <3>4. \A u \in tasks \ {current} : task'[u] = task[u]
      BY <1>1, <2>1
    <3>5. \A u \in tasks : task[u].counter \in 1 .. _DEFAULT_TICKS
      BY DEF SchedInv, SliceNeverZero
    <3> QED BY <2>2, <3>2, <3>3, <3>4, <3>5
  <2>4. /\ current' \in Slots /\ ready' \in Seq(Slots)
        /\ current' \in QueueOf(ready) \cup {current}
        /\ QueueOf(ready') = (QueueOf(ready) \cup {current}) \ {current'}
        /\ NoDup(ready')
    <3>1. current \notin QueueOf(ready)
      BY <1>1
    <3> QED BY <1>1, <2>1, <3>1, Rotate
  <2>5. SchedTypeOK'
    BY <2>1, <2>3, <2>4 DEF SchedInv, SchedTypeOK
  <2>6. QueueExact'
    <3>1. current' \in tasks' /\ QueueOf(ready') = tasks' \ {current'}
      BY <1>1, <2>1, <2>4
    <3> QED BY <2>4, <3>1 DEF QueueExact, QueueOf, NoDup
  <2>7. PidsDistinct' /\ SliceNeverZero'
    <3>1. tasks' = tasks /\ idmap' = idmap
      BY <2>1
    <3>2. PidsDistinct'
      BY <2>3, <3>1 DEF SchedInv, PidsDistinct
    <3>3. SliceNeverZero'
      BY <2>3, <3>1 DEF SliceNeverZero
    <3> QED BY <3>2, <3>3
  <2> QED BY <2>5, <2>6, <2>7 DEF SchedInv
<1> QED BY <1>2, <1>3 DEF Tick

LEMMA StepInv == SchedInv /\ [Next]_vars => SchedInv'
<1> SUFFICES ASSUME SchedInv, [Next]_vars PROVE SchedInv'
  OBVIOUS
<1>1. CASE Tick
  BY <1>1, TickStep
<1>2. CASE ForkNoPid \/ ForkNoTask \/ ForkNoPgd
  BY <1>2, FailedForkStep
<1>3. CASE \E t \in Slots, p \in Pids : Fork(t, p)
  BY <1>3, ForkStep
<1>4. CASE UNCHANGED vars
  BY <1>4 DEF SchedInv, SchedTypeOK, QueueExact, PidsDistinct, SliceNeverZero, vars
<1> QED BY <1>1, <1>2, <1>3, <1>4 DEF Next, DoFork

\* The inductive invariant of processes and scheduler holds in every state.
THEOREM Invariant == Spec => []SchedInv
<1> QED BY InitInv, StepInv, PTL DEF Spec

\* No task is lost from the ready queue or in it twice, for any number of tasks
\* and however forks fail (copy_mem, sched).
THEOREM QueueCorrect == Spec => []QueueExact
<1>1. SchedInv => QueueExact
  BY DEF SchedInv
<1> QED BY Invariant, <1>1, PTL

\* No two tasks ever have the same number (get_emptypid, copy_mem).
THEOREM PidsCorrect == Spec => []PidsDistinct
<1>1. SchedInv => PidsDistinct
  BY DEF SchedInv
<1> QED BY Invariant, <1>1, PTL

\* The clock never takes one off a counter of 0 (timer_sched), given a default
\* slice of at least two ticks.
THEOREM SliceCorrect == Spec => []SliceNeverZero
<1>1. SchedInv => SliceNeverZero
  BY DEF SchedInv
<1> QED BY Invariant, <1>1, PTL

\* What fork returned stays true of the caller's child: no step changes a number
\* or a parent, and a fork that runs off the end of copy_mem strays with all that
\* it changes to a number.
LEMMA ForkedStep ==
  ASSUME SchedInv, ForkNamesChild, [Next]_vars
  PROVE  ForkNamesChild'
<1>1. /\ current \in tasks /\ tasks \subseteq Slots
      /\ task \in [Slots -> [pid : Pids \cup {Garbage}, parent : Pids \cup {Garbage},
                             state : {"UNINIT", "RUNNING", "READY"}, counter : Nat]]
      /\ v0 \in [Slots -> Pids \cup {Error, Garbage, None}]
  BY DEF SchedInv, SchedTypeOK, QueueExact
<1>2. CASE Tick \/ UNCHANGED vars
  <2>1. UNCHANGED <<tasks, v0, strayed>>
    BY <1>2 DEF Tick, TickRuns, TickSwitches, Switch, vars
  <2>2. \A t \in tasks : task'[t].pid = task[t].pid /\ task'[t].parent = task[t].parent
    <3>1. CASE UNCHANGED task
      BY <3>1
    <3>2. CASE TickRuns
      BY <1>1, <3>2 DEF TickRuns
    <3>3. CASE TickSwitches
      BY <1>1, <3>3 DEF TickSwitches, Switch
    <3> QED BY <1>2, <3>1, <3>2, <3>3 DEF Tick, vars
  <2> SUFFICES ASSUME NEW t \in tasks \ strayed, v0[t] \in Pids \ {0}
               PROVE  \E c \in tasks : task'[c].pid = v0[t] /\ task'[c].parent = task'[t].pid
    BY <2>1 DEF ForkNamesChild
  <2>3. PICK c \in tasks : task[c].pid = v0[t] /\ task[c].parent = task[t].pid
    BY DEF ForkNamesChild
  <2> QED BY <2>2, <2>3
<1>3. CASE ForkNoPid \/ ForkNoTask \/ ForkNoPgd
  <2>1. UNCHANGED <<task, tasks>>
    BY <1>3 DEF ForkNoPid, ForkNoTask, ForkNoPgd
  <2>2. \A t \in tasks \ strayed' : (v0'[t] = v0[t] /\ t \notin strayed) \/ v0'[t] = Error
    <3>1. CASE ForkNoPid
      BY <1>1, <3>1 DEF ForkNoPid
    <3>2. CASE ForkNoTask \/ ForkNoPgd
      BY <1>1, <3>2, BotchedFacts DEF SchedInv, ForkNoTask, ForkNoPgd
    <3> QED BY <1>3, <3>1, <3>2
  <2>3. Error \notin Pids
    BY SchedAssumption DEF Pids, Error
  <2> QED BY <2>1, <2>2, <2>3 DEF ForkNamesChild
<1>4. ASSUME NEW t \in Slots, NEW p \in Pids, Fork(t, p) PROVE ForkNamesChild'
  <2>1. /\ t \notin tasks /\ tasks' = tasks \cup {t} /\ t # current
        /\ task' = [task EXCEPT ![t] = Child(p)]
        /\ v0' = [v0 EXCEPT ![current] = p, ![t] = 0]
        /\ strayed' = strayed \ {current}
    BY <1>1, <1>4 DEF Fork
  <2>2. /\ Child(p).pid = p /\ Child(p).parent = task[current].pid
    BY <1>1 DEF Child
  <2>3. /\ task'[t].pid = p /\ task'[t].parent = task[current].pid
        /\ \A u \in tasks : task'[u] = task[u]
    BY <1>1, <2>1, <2>2
  <2>4. /\ v0'[current] = p /\ v0'[t] = 0
        /\ \A u \in tasks \ {current} : v0'[u] = v0[u]
    BY <1>1, <2>1
  <2> SUFFICES ASSUME NEW u \in tasks' \ strayed', v0'[u] \in Pids \ {0}
               PROVE  \E c \in tasks' : task'[c].pid = v0'[u] /\ task'[c].parent = task'[u].pid
    BY DEF ForkNamesChild
  <2>5. CASE u = current
    BY <1>1, <2>1, <2>3, <2>4, <2>5
  <2>6. CASE u # current
    <3>1. u \in tasks \ strayed /\ v0'[u] = v0[u]
      BY <2>1, <2>4, <2>6
    <3>2. PICK c \in tasks : task[c].pid = v0[u] /\ task[c].parent = task[u].pid
      BY <3>1 DEF ForkNamesChild
    <3> QED BY <2>1, <2>3, <3>1, <3>2
  <2> QED BY <2>5, <2>6
<1> QED BY <1>2, <1>3, <1>4 DEF Next, DoFork

\* The number fork returned to a task is that of a child of this task, for as
\* long as the task has it, whatever forks fail between, unless it is copy_mem's
\* missing return that answered (do_fork, copy_mem).
THEOREM ForkCorrect == Spec => []ForkNamesChild
<1>1. Init => ForkNamesChild
  <2>1. Init => tasks = {init} /\ v0[init] = None
    BY SchedAssumption DEF Init
  <2>2. None \notin Pids
    BY SchedAssumption DEF None, Pids
  <2> QED BY <2>1, <2>2 DEF ForkNamesChild
<1>2. SchedInv /\ ForkNamesChild /\ [Next]_vars => ForkNamesChild'
  BY ForkedStep
<1> QED BY Invariant, <1>1, <1>2, PTL DEF Spec

-----------------------------------------------------------------------------
(* Interrupts: the dispatch of interrupts keeps what Sched establishes,    *)
(* and clears nothing that was not served.                                 *)
(*                                                                         *)
(* IntrInv says where tasks can be.  A task that is not running has never  *)
(* run and is in user mode, or is behind the call of timer_handler.  The   *)
(* clock stays pending while the running task is between reading ICR and   *)
(* clearing it, and so does a key, unless the task has been away.          *)

Ats == {"user", "call_clock", "clean_clock", "call_keyb", "clean_keyb"}

IntrTypeOK ==
  /\ icr \subseteq Sources /\ seen \subseteq Sources
  /\ frame \in [Slots -> [at : Ats, icr : SUBSET Sources]]

\* Interrupts are enabled when the clock and the keyboard have their handlers.
Registry ==
  /\ boot \in {"keyboard", "time", "enable", "on"}
  /\ entry_fn = CASE boot = "keyboard" -> {}
                  [] boot = "time" -> {KEYB}
                  [] OTHER -> {CLOCK, KEYB}
  /\ ier = IF boot = "on" THEN Sources ELSE {}

\* The tasks that do not run.
Stopped ==
  /\ \A t \in Slots \ tasks : frame[t] = User
  /\ \A t \in tasks \ {current} :
       \/ frame[t] = User /\ task[t].counter = _DEFAULT_TICKS
       \/ frame[t].at = "clean_clock" /\ CLOCK \in frame[t].icr

\* The task that runs.
Running ==
  /\ At("user") => frame[current] = User
  /\ At("call_clock") => CLOCK \in icr /\ CLOCK \in frame[current].icr
  /\ At("clean_clock") => CLOCK \in icr \cap seen /\ CLOCK \in frame[current].icr
  /\ At("call_keyb") /\ CLOCK \notin frame[current].icr => KEYB \in icr
  /\ At("clean_keyb") /\ CLOCK \notin frame[current].icr => KEYB \in icr \cap seen
  /\ CLOCK \in icr \cap seen =>
       \/ At("clean_clock")
       \/ (At("user") \/ At("call_clock")) /\ task[current].counter = _DEFAULT_TICKS

IntrInv == SchedInv /\ IntrTypeOK /\ Registry /\ Stopped /\ Running

-----------------------------------------------------------------------------
\* What a tick does to the tasks: none comes or goes, and only the running one
\* is changed.
LEMMA TickFacts ==
  ASSUME SchedInv, Tick
  PROVE  /\ tasks' = tasks /\ current' \in tasks
         /\ \A t \in tasks \ {current} : task'[t] = task[t]
<1>1. current' \in tasks
  BY TickStep DEF SchedInv, QueueExact, Tick, TickRuns, TickSwitches, Switch
<1> QED
  BY <1>1 DEF SchedInv, SchedTypeOK, Tick, TickRuns, TickSwitches, Switch

\* What a fork does to them: at most one comes, with a full slice.
LEMMA ForkFacts ==
  ASSUME SchedInv, DoFork
  PROVE  /\ tasks \subseteq tasks' /\ tasks' \subseteq Slots /\ current' = current
         /\ \A t \in tasks : task'[t] = task[t]
         /\ \A t \in tasks' \ tasks : task'[t].counter = _DEFAULT_TICKS
<1>1. CASE ForkNoPid \/ ForkNoTask \/ ForkNoPgd
  BY <1>1 DEF SchedInv, SchedTypeOK, ForkNoPid, ForkNoTask, ForkNoPgd
<1>2. ASSUME NEW u \in Slots, NEW p \in Pids, Fork(u, p)
      PROVE  /\ tasks \subseteq tasks' /\ tasks' \subseteq Slots /\ current' = current
             /\ \A t \in tasks : task'[t] = task[t]
             /\ \A t \in tasks' \ tasks : task'[t].counter = _DEFAULT_TICKS
  <2>1. task[current] \in [pid : Pids \cup {Garbage}, parent : Pids \cup {Garbage},
                           state : {"UNINIT", "RUNNING", "READY"}, counter : Nat]
    BY DEF SchedInv, SchedTypeOK
  <2>2. Child(p).counter = _DEFAULT_TICKS
    BY <2>1 DEF Child
  <2>3. /\ u \notin tasks /\ tasks' = tasks \cup {u} /\ current' = current
        /\ task' = [task EXCEPT ![u] = Child(p)]
    BY <1>2 DEF Fork
  <2> QED
    BY <2>2, <2>3 DEF SchedInv, SchedTypeOK
<1> QED
  BY <1>1, <1>2 DEF DoFork

\* Seen from Sched, the dispatch of interrupts ticks, forks or does nothing.
LEMMA SchedSteps == [IntrNext]_allVars => [Next]_vars
<1> SUFFICES ASSUME [IntrNext]_allVars PROVE [Next]_vars
  OBVIOUS
<1>1. CASE Boot
  BY <1>1 DEF Boot, InitKeyboard, InitTime, InitDevice, init_sched, enable_intr
<1>2. CASE do_interrupt
  BY <1>2 DEF do_interrupt, Enter, CallClock, CleanClock, CallKeyb, CleanKeyb, Next
<1>3. CASE Syscall
  BY <1>3 DEF Syscall, Next
<1>4. CASE \E s \in Sources : Raise(s)
  BY <1>4 DEF Raise
<1>5. CASE UNCHANGED allVars
  BY <1>5 DEF allVars
<1> QED
  BY <1>1, <1>2, <1>3, <1>4, <1>5 DEF IntrNext

-----------------------------------------------------------------------------
LEMMA IntrInitInv == IntrInit => IntrInv
<1> SUFFICES ASSUME IntrInit PROVE IntrInv
  OBVIOUS
<1> USE SchedAssumption DEF IntrInit
<1>1. SchedInv
  BY InitInv
<1>2. IntrTypeOK
  BY DEF IntrTypeOK, User, Ats
<1>3. Registry
  BY DEF Registry
<1>4. Stopped
  BY DEF Stopped, Init
<1>5. Running
  BY DEF Running, At, User, Init
<1> QED
  BY <1>1, <1>2, <1>3, <1>4, <1>5 DEF IntrInv

\* A step of booting leaves every task where it is.
LEMMA BootStep ==
  ASSUME IntrInv, Boot
  PROVE  IntrTypeOK' /\ Registry' /\ Stopped' /\ Running'
<1>1. UNCHANGED <<vars, icr, seen, frame>>
  BY DEF Boot, InitKeyboard, InitTime, InitDevice, init_sched, enable_intr
<1>2. IntrTypeOK' /\ Stopped' /\ Running'
  BY <1>1 DEF IntrInv, IntrTypeOK, Stopped, Running, At, vars
<1>3. Registry'
  BY DEF IntrInv, Registry, Boot, InitKeyboard, InitTime, InitDevice, init_sched, enable_intr,
         register_handler, KEYB, CLOCK
<1> QED
  BY <1>2, <1>3

\* A source that is raised was not pending: nobody is serving it, except a
\* task that has been away.
LEMMA RaiseStep ==
  ASSUME IntrInv, NEW s \in Sources, Raise(s)
  PROVE  IntrTypeOK' /\ Registry' /\ Stopped' /\ Running'
<1>1. /\ UNCHANGED <<vars, boot, entry_fn, ier, frame>>
      /\ s \notin icr /\ icr' = icr \cup {s} /\ seen' = seen \ {s}
  BY DEF Raise, intrVars
<1>2. IntrTypeOK' /\ Registry' /\ Stopped'
  BY <1>1 DEF IntrInv, IntrTypeOK, Registry, Stopped, vars
<1>3. Running'
  BY <1>1 DEF IntrInv, Running, At, vars
<1> QED
  BY <1>2, <1>3

\* The running task reads ICR; a new task does so with the clock still pending.
LEMMA EnterStep ==
  ASSUME IntrInv, Enter
  PROVE  IntrTypeOK' /\ Registry' /\ Stopped' /\ Running'
<1> DEFINE f == [at |-> IF CLOCK \in Pending THEN "call_clock" ELSE "call_keyb",
                 icr |-> Pending \cap entry_fn]
<1>1. /\ UNCHANGED <<vars, boot, entry_fn, icr, ier, seen>>
      /\ frame' = [frame EXCEPT ![current] = f]
      /\ At("user") /\ Pending \cap entry_fn # {}
  BY DEF Enter, Taken, intrVars
<1>2. current \in tasks /\ current \in Slots
  BY DEF IntrInv, SchedInv, SchedTypeOK, QueueExact
<1>3. Pending = icr /\ entry_fn = {CLOCK, KEYB}
  BY <1>1 DEF IntrInv, IntrTypeOK, Registry, Pending
<1>4. f.icr \subseteq Sources /\ f \in [at : Ats, icr : SUBSET Sources]
  BY <1>3 DEF IntrInv, IntrTypeOK, Ats
<1>5. IntrTypeOK' /\ Registry' /\ Stopped'
  BY <1>1, <1>2, <1>4 DEF IntrInv, IntrTypeOK, Registry, Stopped, vars
<1>6. frame'[current'] = f
  BY <1>1, <1>2 DEF IntrInv, IntrTypeOK, vars
<1>7. CASE CLOCK \in icr
  BY <1>1, <1>3, <1>5, <1>6, <1>7 DEF IntrInv, Running, At, vars
<1>8. CASE CLOCK \notin icr
  BY <1>1, <1>3, <1>5, <1>6, <1>8 DEF IntrInv, Running, At, vars
<1> QED
  BY <1>7, <1>8

\* The works of the clock are called: the task behind them may be another one,
\* which never ran or is behind the same call.
LEMMA CallClockStep ==
  ASSUME IntrInv, CallClock
  PROVE  IntrTypeOK' /\ Registry' /\ Stopped' /\ Running'
<1>1. /\ UNCHANGED <<boot, entry_fn, icr, ier>>
      /\ frame' = [frame EXCEPT ![current].at = "clean_clock"]
      /\ At("call_clock") /\ seen' = seen \cup {CLOCK}
      /\ Tick \/ UNCHANGED vars
  BY DEF CallClock, Goto, intrVars
<1>2. /\ tasks' = tasks /\ current' \in tasks /\ current \in tasks /\ tasks \subseteq Slots
      /\ \A t \in tasks \ {current} : task'[t] = task[t]
  BY <1>1, TickFacts DEF IntrInv, SchedInv, SchedTypeOK, QueueExact, vars
<1>3. /\ frame' \in [Slots -> [at : Ats, icr : SUBSET Sources]]
      /\ frame'[current].at = "clean_clock" /\ frame'[current].icr = frame[current].icr
      /\ \A t \in Slots \ {current} : frame'[t] = frame[t]
  BY <1>1, <1>2 DEF IntrInv, IntrTypeOK, Ats
<1>4. IntrTypeOK' /\ Registry'
  BY <1>1, <1>3 DEF IntrInv, IntrTypeOK, Registry, Sources
<1>5. CLOCK \in icr /\ CLOCK \in frame[current].icr
  BY <1>1 DEF IntrInv, Running
<1>6. Stopped'
  BY <1>2, <1>3, <1>5 DEF IntrInv, Stopped
<1>7. CASE current' = current
  BY <1>1, <1>3, <1>4, <1>5, <1>6, <1>7 DEF Running, At
<1>8. CASE current' # current
  <2>1. /\ frame'[current'] = frame[current'] /\ task'[current'] = task[current']
        /\ \/ frame[current'] = User /\ task[current'].counter = _DEFAULT_TICKS
           \/ frame[current'].at = "clean_clock" /\ CLOCK \in frame[current'].icr
    BY <1>2, <1>3, <1>8 DEF IntrInv, Stopped
  <2>2. User.at = "user"
    BY DEF User
  <2> QED
    BY <1>1, <1>4, <1>5, <1>6, <2>1, <2>2 DEF Running, At
<1> QED
  BY <1>7, <1>8

\* The rest of do_interrupt, which stays with the running task.
LEMMA ServeStep ==
  ASSUME IntrInv, CleanClock \/ CallKeyb \/ CleanKeyb
  PROVE  IntrTypeOK' /\ Registry' /\ Stopped' /\ Running'
<1>1. /\ current \in tasks /\ current \in Slots
      /\ frame \in [Slots -> [at : Ats, icr : SUBSET Sources]]
  BY DEF IntrInv, SchedInv, SchedTypeOK, QueueExact, IntrTypeOK
<1>2. UNCHANGED <<vars, boot, entry_fn, ier>>
  BY DEF CleanClock, CallKeyb, CleanKeyb, intrVars
<1>3. \E f \in [at : Ats, icr : SUBSET Sources] : frame' = [frame EXCEPT ![current] = f]
  BY <1>1 DEF CleanClock, CallKeyb, CleanKeyb, Goto, Leave, User, Ats
<1>4. icr' \subseteq Sources /\ seen' \subseteq Sources
  BY DEF IntrInv, IntrTypeOK, CleanClock, CallKeyb, CleanKeyb, Sources
<1>5. IntrTypeOK' /\ Registry' /\ Stopped'
  BY <1>1, <1>2, <1>3, <1>4 DEF IntrInv, IntrTypeOK, Registry, Stopped, vars
<1>6. CASE CleanClock
  <2>1. /\ icr' = icr \ {CLOCK} /\ seen' = seen /\ CLOCK \in frame[current].icr
        /\ \/ frame'[current] = User
           \/ frame'[current].at = "call_keyb" /\ frame'[current].icr = frame[current].icr
    BY <1>1, <1>6 DEF CleanClock, Goto, Leave, IntrInv, Running
  <2>2. User.at = "user"
    BY DEF User
  <2> QED
    BY <1>2, <1>5, <2>1, <2>2 DEF Running, At, vars
<1>7. CASE CallKeyb
  <2>1. /\ At("call_keyb") /\ icr' = icr /\ seen' = seen \cup {KEYB}
        /\ frame'[current].at = "clean_keyb" /\ frame'[current].icr = frame[current].icr
    BY <1>1, <1>7 DEF CallKeyb, Goto
  <2>2. CLOCK \notin icr \cap seen /\ CLOCK # KEYB
    BY <2>1 DEF IntrInv, Running, At, CLOCK, KEYB
  <2>3. CLOCK \notin frame[current].icr => KEYB \in icr
    BY <2>1 DEF IntrInv, Running
  <2> QED
    BY <1>2, <1>5, <2>1, <2>2, <2>3 DEF Running, At, vars
<1>8. CASE CleanKeyb
  <2>1. /\ At("clean_keyb") /\ icr' = icr \ {KEYB} /\ seen' = seen /\ frame'[current] = User
    BY <1>1, <1>8 DEF CleanKeyb, Leave
  <2>2. CLOCK \notin icr \cap seen /\ User.at = "user"
    BY <2>1 DEF IntrInv, Running, At, User
  <2> QED
    BY <1>2, <1>5, <2>1, <2>2 DEF Running, At, vars
<1> QED
  BY <1>6, <1>7, <1>8

\* A fork: the child starts in user mode, with a full slice.
LEMMA SyscallStep ==
  ASSUME IntrInv, Syscall
  PROVE  IntrTypeOK' /\ Registry' /\ Stopped' /\ Running'
<1>1. UNCHANGED <<boot, entry_fn, icr, ier, frame, seen>> /\ DoFork
  BY DEF Syscall, intrVars
<1>2. /\ tasks \subseteq tasks' /\ tasks' \subseteq Slots /\ current' = current
      /\ \A t \in tasks : task'[t] = task[t]
      /\ \A t \in tasks' \ tasks : task'[t].counter = _DEFAULT_TICKS
      /\ current \in tasks
  BY <1>1, ForkFacts DEF IntrInv, SchedInv, QueueExact
<1>3. IntrTypeOK' /\ Registry'
  BY <1>1 DEF IntrInv, IntrTypeOK, Registry
<1>4. Stopped'
  BY <1>1, <1>2 DEF IntrInv, Stopped
<1>5. Running'
  BY <1>1, <1>2 DEF IntrInv, Running, At
<1> QED
  BY <1>3, <1>4, <1>5

LEMMA IntrStepInv == IntrInv /\ [IntrNext]_allVars => IntrInv'
<1> SUFFICES ASSUME IntrInv, [IntrNext]_allVars PROVE IntrInv'
  OBVIOUS
<1>1. SchedInv'
  BY SchedSteps, StepInv DEF IntrInv
<1>2. IntrTypeOK' /\ Registry' /\ Stopped' /\ Running'
  <2>1. CASE Boot
    BY <2>1, BootStep
  <2>2. CASE do_interrupt
    BY <2>2, EnterStep, CallClockStep, ServeStep DEF do_interrupt
  <2>3. CASE Syscall
    BY <2>3, SyscallStep
  <2>4. CASE \E s \in Sources : Raise(s)
    BY <2>4, RaiseStep
  <2>5. CASE UNCHANGED allVars
    BY <2>5 DEF allVars, intrVars, vars, IntrInv, IntrTypeOK, Registry, Stopped, Running, At
  <2> QED
    BY <2>1, <2>2, <2>3, <2>4, <2>5 DEF IntrNext
<1> QED
  BY <1>1, <1>2 DEF IntrInv

\* Where tasks can be while interrupts are dispatched (do_interrupt, timer_sched).
THEOREM IntrInvariant == IntrSpec => []IntrInv
<1> QED BY IntrInitInv, IntrStepInv, PTL DEF IntrSpec

\* No task is lost from the ready queue or in it twice, also when it is do_interrupt
\* that lets the clock tick and forks come between interrupts (sched, copy_mem).
THEOREM QueueUnderInterrupts == IntrSpec => []QueueExact
<1>1. IntrInv => QueueExact
  BY DEF IntrInv, SchedInv
<1> QED BY IntrInvariant, <1>1, PTL

\* No source is cleared before its handler was called for it, but for the key
\* that a task finds on its return; and no task pays for a tick twice, but for
\* the one that brought a new task in (do_interrupt, timer_handler, timer_sched).
THEOREM ClearedWhenServed == IntrSpec => TicksCounted
<1> DEFINE Cleared == \/ icr \ icr' \subseteq seen
                      \/ icr \ icr' = {KEYB} /\ At("clean_keyb") /\ CLOCK \in frame[current].icr
           Paid == CLOCK \in seen /\ At("call_clock") /\ task' # task
                     => task[current].counter = _DEFAULT_TICKS
<1>1. ASSUME IntrInv, IntrNext PROVE Cleared /\ Paid
  <2>1. CASE Boot
    BY <2>1 DEF Boot, InitKeyboard, InitTime, InitDevice, init_sched, enable_intr, vars
  <2>2. CASE Enter
    BY <2>2 DEF Enter, vars
  <2>3. CASE CallClock
    BY <1>1, <2>3 DEF CallClock, IntrInv, Running, At
  <2>4. CASE CleanClock
    BY <1>1, <2>4 DEF CleanClock, IntrInv, Running, At, vars
  <2>5. CASE CallKeyb
    BY <2>5 DEF CallKeyb, vars
  <2>6. CASE CleanKeyb
    BY <1>1, <2>6 DEF CleanKeyb, IntrInv, Running, At, vars
  <2>7. CASE Syscall
    BY <2>7 DEF Syscall, At
  <2>8. CASE \E s \in Sources : Raise(s)
    BY <2>8 DEF Raise, vars
  <2> QED
    BY <1>1, <2>1, <2>2, <2>3, <2>4, <2>5, <2>6, <2>7, <2>8 DEF IntrNext, do_interrupt
<1>2. IntrInv /\ [IntrNext]_allVars => [Cleared /\ Paid]_allVars
  BY <1>1
<1> QED
  BY IntrInvariant, <1>2, PTL DEF IntrSpec, TicksCounted
=============================================================================
