------------------------------ MODULE ActiveChart ------------------------------
(***************************************************************************)
(* The chart of the monitor page that draws new numbers every two seconds:   *)
(* a timer that sets its successor, and a ref that the cleanup reads.        *)
(***************************************************************************)
EXTENDS Naturals

CONSTANTS
  Timers,   \* numbers of timers, used again when they are free
  None      \* timerRef.current before the first

VARIABLES
  mounted,
  timerRef,
  waiting    \* timers that are set and have not fired

vars == <<mounted, timerRef, waiting>>

TypeOK ==
  /\ mounted \in BOOLEAN /\ timerRef \in Timers \cup {None} /\ waiting \subseteq Timers

Init == mounted = FALSE /\ timerRef = None /\ waiting = {}

\* window.setTimeout, while the timers in w wait.
SetTimeout(w) ==
  \E t \in Timers \ w : timerRef' = t /\ waiting' = w \cup {t}

\* The component is new: so is its ref.
Mount ==
  /\ ~mounted /\ mounted' = TRUE
  /\ SetTimeout(waiting)

\* Variant: the new timer is not kept in the ref.
LoopData_Forgets(t) ==
  /\ t \in waiting
  /\ \E n \in Timers \ (waiting \ {t}) : waiting' = (waiting \ {t}) \cup {n}
  /\ UNCHANGED <<mounted, timerRef>>

\* A timer fires: other data, and the next timer, whether or not anybody looks.
LoopData(t) ==
  /\ t \in waiting
  /\ SetTimeout(waiting \ {t})
  /\ UNCHANGED mounted

\* The cleanup of the effect.
Unmount ==
  /\ mounted /\ mounted' = FALSE
  /\ waiting' = waiting \ {timerRef} /\ timerRef' = None

Next == Mount \/ Unmount \/ \E t \in Timers : LoopData(t)

Spec == Init /\ [][Next]_vars

\* One timer runs while the chart is there, and none when it is gone, after any
\* number of rounds: a chart that was left does not go on drawing.
OneTimer == waiting = IF mounted THEN {timerRef} ELSE {}
=============================================================================
