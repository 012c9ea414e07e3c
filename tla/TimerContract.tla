------------------------------ MODULE TimerContract ------------------------------
(***************************************************************************)
(* What setTimeout, setInterval and the clear calls of strake-vibey-script *)
(* promise a page (timers.rs; the cases pinned by tests/event_loop.rs): a  *)
(* set of pending timers, of which the soonest is called next, first set   *)
(* first called among equals, and a cleared one never.  No batch is taken  *)
(* and nothing is marked: how run_due_timers does it is no one's business. *)
(***************************************************************************)
EXTENDS Integers

CONSTANT None    \* Option::None

VARIABLES
    clock,
    given,     \* ids given out: 1..given
    pending    \* timers set, neither called nor cleared

vars == <<clock, given, pending>>

Init == clock = 0 /\ given = 0 /\ pending = {}

(* The order of calls: by deadline, then as they were set.                 *)
Before(t, u) == t.deadline < u.deadline \/ (t.deadline = u.deadline /\ t.id < u.id)

Set ==
    /\ given' = given + 1
    /\ \E t \in pending' :
          /\ pending' = pending \cup {t}
          /\ t.id = given' /\ t.deadline >= clock
    /\ UNCHANGED clock

Clear ==
    /\ \E id \in 1..given : pending' = {t \in pending : t.id # id}
    /\ UNCHANGED <<clock, given>>

(* Intervals that are due are set again, for a time still to come.         *)
Again(t, u) ==
    /\ u.id = t.id /\ t.interval # None /\ u.interval = t.interval
    /\ t.deadline <= clock /\ u.deadline > clock

Repeat ==
    /\ pending \subseteq pending'
    /\ \A u \in pending' \ pending : \E t \in pending : Again(t, u)
    /\ UNCHANGED <<clock, given>>

(* The timer called next is before every other pending one.                *)
Call ==
    /\ \E t \in pending :
          /\ t.deadline <= clock
          /\ \A u \in pending \ {t} : Before(t, u)
          /\ pending' = pending \ {t}
    /\ UNCHANGED <<clock, given>>

Advance == clock' > clock /\ UNCHANGED <<given, pending>>

Next == Set \/ Clear \/ Repeat \/ Call \/ Advance

Spec == Init /\ [][Next]_vars
=============================================================================
