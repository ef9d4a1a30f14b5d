--------------------------- MODULE BuildProgress ---------------------------
(***************************************************************************)
(* The promise of --workdir and --resume, without processes, flags or      *)
(* files: the states of a build complete in the order of the list, and the *)
(* checkpoint a later process starts from covers completed states only.    *)
(***************************************************************************)
EXTENDS Integers, Sequences

CONSTANT States   \* names of the state functions, in order

VARIABLES
    done,    \* names of the states completed in the work directory
    saved    \* states the checkpoint counts, -1 without a usable checkpoint

Completed(n) == \A k \in 1..n : States[k] \in done

Init == done = {} /\ saved = -1

\* A state completes (again), all those before it having completed.
Complete(k) ==
    /\ Completed(k - 1)
    /\ done' = done \cup {States[k]}
    /\ UNCHANGED saved

\* The checkpoint is replaced.
Save(n) == Completed(n) /\ saved' = n /\ UNCHANGED done

\* The checkpoint becomes unreadable.
Lose == saved' = -1 /\ UNCHANGED done

Next == \/ \E k \in DOMAIN States : Complete(k)
        \/ \E n \in 0..Len(States) : Save(n)
        \/ Lose

Spec == Init /\ [][Next]_<<done, saved>>
=============================================================================
