----------------------------- MODULE Interrupts -----------------------------
(***************************************************************************)
(* Interrupt dispatch and the clock (Lcore-Stage4-01/arch/intr.c and       *)
(* kern/time/time.c, with init_keyboard of Lcore-Stage5-02) under the      *)
(* scheduler of Sched: how the tick that Sched takes for granted comes     *)
(* about.                                                                  *)
(*                                                                         *)
(* timer_sched switches tasks in the middle of do_interrupt.  The task it  *)
(* leaves keeps its place in do_interrupt, and the sources it has read     *)
(* from ICR, until some other task's tick switches back to it; a new task  *)
(* starts in user mode, with nothing to finish.  Interrupts are off inside *)
(* do_interrupt and are taken before the next user instruction.            *)
(***************************************************************************)
EXTENDS Sched

VARIABLES
  boot,       \* the next call of init_kernel, "on" when it has returned
  inits,      \* whether init_sched has been called
  entry_fn,   \* the sources that have a handler
  works,      \* works[s]: the work list of source s
  icr, ier,   \* pending and enabled sources
  frame,      \* frame[t]: where task t is in do_interrupt, and what it read from ICR
  seen        \* history: pending sources whose handler has been called since

intrVars == <<boot, inits, entry_fn, works>>
allVars == <<vars, intrVars, icr, ier, frame, seen>>

CLOCK == "clock"
KEYB  == "keyb"
SPI   == "spi"
Sources == {CLOCK, KEYB, SPI}

User == [at |-> "user", icr |-> {}]

-----------------------------------------------------------------------------
(* Registration, and the part of init_kernel that registers.               *)

\* Refused when the source has a handler already.
register_handler(s) == entry_fn' = entry_fn \cup {s}

\* Refused when the source has a handler, among these.
register_work(w, s, handlers) ==
  works' = IF s \in handlers THEN works ELSE [works EXCEPT ![s] = Append(@, w)]

\* init_keyboard and init_time register a handler, and then a work in vain.
InitDevice(s, w, this, next) ==
  /\ boot = this
  /\ register_handler(s)
  /\ register_work(w, s, entry_fn')
  /\ boot' = next
  /\ UNCHANGED <<vars, inits, icr, ier, frame, seen>>

InitKeyboard == InitDevice(KEYB, "get_scancode", "keyboard", "time")
InitTime     == InitDevice(CLOCK, "flush_systime", "time", "enable")

\* No file calls init_sched; it may come anywhere before interrupts are on.
init_sched ==
  /\ boot # "on" /\ ~inits
  /\ inits' = TRUE
  /\ register_work("timer_sched", CLOCK, entry_fn)
  /\ UNCHANGED <<vars, boot, entry_fn, icr, ier, frame, seen>>

enable_intr ==
  /\ boot = "enable" /\ inits
  /\ boot' = "on"
  /\ ier' = Sources
  /\ UNCHANGED <<vars, inits, entry_fn, works, icr, frame, seen>>

Boot == InitKeyboard \/ InitTime \/ init_sched \/ enable_intr

-----------------------------------------------------------------------------
(* The hardware.                                                           *)

\* A source that is pending already is not pending twice.
Raise(s) ==
  /\ s \notin icr
  /\ icr' = icr \cup {s}
  /\ seen' = seen \ {s}
  /\ UNCHANGED <<vars, intrVars, ier, frame>>

-----------------------------------------------------------------------------
(* do_interrupt, for the current task.  A source without a handler, as SPI *)
(* always is, is passed over and stays pending.                            *)

At(where)   == frame[current].at = where
Goto(where) == frame' = [frame EXCEPT ![current].at = where]
Leave       == frame' = [frame EXCEPT ![current] = User]

Pending == icr \cap ier

\* Mutant of Taken: a source without a handler ends do_interrupt.
TakenAll == Pending # {} /\ Pending \subseteq entry_fn

Taken == Pending \cap entry_fn # {}

\* The processor leaves user mode and ICR is read.
Enter ==
  /\ At("user") /\ Taken
  /\ frame' = [frame EXCEPT ![current] =
                 [at |-> IF CLOCK \in Pending THEN "call_clock" ELSE "call_keyb",
                  icr |-> Pending \cap entry_fn]]
  /\ UNCHANGED <<vars, intrVars, icr, ier, seen>>

\* timer_handler calls the works of the clock; after timer_sched another task
\* may be the current one.
CallClock ==
  /\ At("call_clock")
  /\ Goto("clean_clock")
  /\ seen' = seen \cup {CLOCK}
  /\ IF \E k \in 1 .. Len(works[CLOCK]) : works[CLOCK][k] = "timer_sched"
     THEN Tick ELSE UNCHANGED vars
  /\ UNCHANGED <<intrVars, icr, ier>>

\* Mutant of CleanClock: everything read from ICR is cleared, as do_interrupt
\* has it at hand.
CleanClockAll ==
  /\ At("clean_clock")
  /\ icr' = icr \ frame[current].icr
  /\ IF KEYB \in frame[current].icr THEN Goto("call_keyb") ELSE Leave
  /\ UNCHANGED <<vars, intrVars, ier, seen>>

\* Mutant of CleanClock: the tests of the sources are an else-if chain.
CleanClockElse ==
  /\ At("clean_clock")
  /\ icr' = icr \ {CLOCK}
  /\ Leave
  /\ UNCHANGED <<vars, intrVars, ier, seen>>

CleanClock ==
  /\ At("clean_clock")
  /\ icr' = icr \ {CLOCK}
  /\ IF KEYB \in frame[current].icr THEN Goto("call_keyb") ELSE Leave
  /\ UNCHANGED <<vars, intrVars, ier, seen>>

\* keyb_handler; init_keyboard's work is not on its list.
CallKeyb ==
  /\ At("call_keyb")
  /\ Goto("clean_keyb")
  /\ seen' = seen \cup {KEYB}
  /\ UNCHANGED <<vars, intrVars, icr, ier>>

CleanKeyb ==
  /\ At("clean_keyb")
  /\ icr' = icr \ {KEYB}
  /\ Leave
  /\ UNCHANGED <<vars, intrVars, ier, seen>>

do_interrupt == Enter \/ CallClock \/ CleanClock \/ CallKeyb \/ CleanKeyb

-----------------------------------------------------------------------------
\* A system call, made by a user instruction: no enabled source is pending.  The
\* copied kernel stack of a new task is that of its parent's system call.
Syscall ==
  /\ boot = "on" /\ At("user") /\ Pending = {}
  /\ DoFork
  /\ UNCHANGED <<intrVars, icr, ier, frame, seen>>

IntrInit ==
  /\ Init
  /\ boot = "keyboard" /\ inits = FALSE
  /\ entry_fn = {}
  /\ works = [s \in Sources |-> <<>>]
  /\ icr = {} /\ ier = {} /\ seen = {}
  /\ frame = [t \in Slots |-> User]

IntrNext == Boot \/ do_interrupt \/ Syscall \/ \E s \in Sources : Raise(s)

\* The kernel boots, the processor runs, and the clock, which is free-running
\* hardware, goes on interrupting.
IntrSpec == /\ IntrInit /\ [][IntrNext]_allVars
            /\ WF_allVars(Boot) /\ WF_allVars(do_interrupt) /\ WF_allVars(Raise(CLOCK))

-----------------------------------------------------------------------------
\* A source leaves ICR only after its handler has been called for it, also
\* when tasks are switched between the two, with one exception: a task that was
\* left in its tick calls keyb_handler on its return for a key that others have
\* served meanwhile, and then clears one that has come after that call.  And a
\* tick is taken off twice only if the switch went to a task that had never run:
\* it does not clear the tick that brought it in, and is interrupted at once.
TicksCounted ==
  [][/\ \/ icr \ icr' \subseteq seen
        \/ icr \ icr' = {KEYB} /\ At("clean_keyb") /\ CLOCK \in frame[current].icr
     /\ CLOCK \in seen /\ At("call_clock") /\ task' # task
          => task[current].counter = _DEFAULT_TICKS]_allVars

\* A key does not stay pending, although the clock may be pending each time ICR is
\* read, and the task that has read it may be left before it calls the handler.
KeyTaken == KEYB \in icr ~> KEYB \notin icr

\* If init_sched comes before init_time, the scheduler does get its ticks: every
\* task runs again and again, although each tick is cleared by another task
\* than the one that took it, and whatever other sources do.
Registered == works[CLOCK] = <<"timer_sched">>
RunsWhenRegistered == <>Registered => \A t \in Slots : []<>(t \in tasks => current = t)
=============================================================================
