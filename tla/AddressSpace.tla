---------------------------- MODULE AddressSpace ----------------------------
(***************************************************************************)
(* What the lists of vma objects of a process stand for: for each list,    *)
(* the set of pages the process may touch.  A list can be relied on as     *)
(* long as it is sound; of the others only this is said, that they do not  *)
(* concern a sound one.  Module Vma implements this specification.         *)
(***************************************************************************)
EXTENDS Integers

CONSTANTS Lists, Pages

VARIABLES
  mapped,   \* mapped[l]: the pages of list l
  sound,    \* the lists that can be relied on
  call      \* the range of pages asked to be added to a list or deleted from it

vars == <<mapped, sound, call>>

Idle == [op |-> "none"]

Init == mapped = [l \in Lists |-> {}] /\ sound = Lists /\ call = Idle

Ask(op, l, a, b) == /\ call = Idle
                    /\ call' = [op |-> op, list |-> l, from |-> a, to |-> b]
                    /\ UNCHANGED <<mapped, sound>>

\* The call on list l ends, and leaves the other lists alone.
Ends(op, l) == /\ call.op = op /\ call.list = l /\ call' = Idle
               /\ \A m \in Lists \ {l} : mapped'[m] = mapped[m] /\ (m \in sound' <=> m \in sound)

Stays(l) == l \in sound /\ l \in sound'

Asked == call.from .. call.to

\* Both neighbours of the range are mapped.
Hole(l) == {call.from - 1, call.to + 1} \subseteq mapped[l]

Added(l) == Ends("add", l) /\ Stays(l) /\ mapped'[l] = mapped[l] \cup Asked

\* There is no memory for the object that was to describe the range: what was
\* mapped contiguously before the range may be lost, and nothing else.
AddFails(l) ==
  /\ Ends("add", l) /\ Stays(l)
  /\ \E c \in Pages : /\ c <= call.from
                      /\ c .. call.to \subseteq mapped[l] \cup Asked
                      /\ mapped'[l] = mapped[l] \ (c .. call.to)

\* A delete that leaves a hole may leave a list that cannot be relied on.
Deleted(l) ==
  /\ Ends("delete", l) /\ l \in sound
  /\ Asked \subseteq mapped[l] /\ mapped'[l] = mapped[l] \ Asked
  /\ Stays(l) \/ Hole(l)

\* Nothing goes when some page of the range is not mapped, or when the range has
\* mapped pages on both sides and there is no memory to describe these.
DeleteFails(l) ==
  /\ Ends("delete", l) /\ l \in sound /\ mapped'[l] = mapped[l]
  /\ \/ Stays(l) /\ ~(Asked \subseteq mapped[l])
     \/ Hole(l) /\ Asked \subseteq mapped[l]

Unsound(l) == \E op \in {"add", "delete"} : Ends(op, l) /\ l \notin sound

Next == \/ \E op \in {"add", "delete"}, l \in Lists, a, b \in Pages : a <= b /\ Ask(op, l, a, b)
        \/ \E l \in Lists : Added(l) \/ AddFails(l) \/ Deleted(l) \/ DeleteFails(l) \/ Unsound(l)

Spec == Init /\ [][Next]_vars
=============================================================================
