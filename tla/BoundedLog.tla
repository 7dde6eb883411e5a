----------------------------- MODULE BoundedLog -----------------------------
(***************************************************************************)
(* What the IMU data stack of bmi270_ctrl.c promises, seen from outside: a *)
(* log of at most Capacity readings.  The sensor side accepts a reading    *)
(* only when there is room, and an accepted reading is stored exactly      *)
(* once, whole, and after those accepted before it.  A client takes        *)
(* everything that is stored, in order, and leaves the log empty.  A       *)
(* reading that finds the log full is never accepted, and leaves no trace. *)
(***************************************************************************)
EXTENDS Naturals, Sequences

CONSTANTS Capacity,   \* most readings the log can hold
          Readings    \* what one reading can be

VARIABLES reading,    \* the reading being stored, meaningful while accepted
          accepted,   \* TRUE from acceptance until the reading is stored
          stored,     \* the log, oldest reading first
          delivered   \* what the most recent client took

logVars == <<reading, accepted, stored, delivered>>

Init == /\ reading \in Readings
        /\ accepted = FALSE
        /\ stored = <<>>
        /\ delivered = <<>>

Accept == /\ ~accepted
          /\ Len(stored) < Capacity
          /\ reading' \in Readings
          /\ accepted' = TRUE
          /\ UNCHANGED <<stored, delivered>>

Store == /\ accepted
         /\ Len(stored) < Capacity
         /\ stored' = Append(stored, reading)
         /\ accepted' = FALSE
         /\ UNCHANGED <<reading, delivered>>

Take == /\ delivered' = stored
        /\ stored' = <<>>
        /\ UNCHANGED <<reading, accepted>>

Next == Accept \/ Store \/ Take

Spec == Init /\ [][Next]_logVars
=============================================================================
