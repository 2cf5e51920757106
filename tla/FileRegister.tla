----------------------------- MODULE FileRegister -----------------------------
(* What a file that is replaced as a whole promises, as long as `sound`: a    *)
(* register. A version is put in place in one step, and who opens the file    *)
(* gets the version that is there at that moment, whatever is written while   *)
(* he reads.                                                                  *)
CONSTANTS
    Procs,
    Versions,
    Absent          \* the file does not exist, or nobody reads

VARIABLES
    sound,          \* nobody broke the discipline
    value,          \* the version in the file
    view            \* of every process: the version it has open

Init == sound = TRUE /\ value = Absent /\ view = [p \in Procs |-> Absent]

Replace(v) == sound /\ sound' = TRUE /\ value' = v /\ UNCHANGED view

Open(p) == sound /\ sound' = TRUE /\ view' = [view EXCEPT ![p] = value] /\ UNCHANGED value

Close(p) == sound /\ sound' = TRUE /\ view' = [view EXCEPT ![p] = Absent] /\ UNCHANGED value

(* Nothing is promised any more. *)
Spoil == sound' = FALSE

Next ==
    \/ \E v \in Versions : Replace(v)
    \/ \E p \in Procs : Open(p) \/ Close(p)
    \/ Spoil

Spec == Init /\ [][Next]_<<sound, value, view>>
=============================================================================
