------------------------------ MODULE ForkJoin ------------------------------
(***************************************************************************)
(* What scatter() promises a script: every function is called at most      *)
(* once, and when scatter() returns, either no function was called or all  *)
(* are over, but for those whose thread could not be set up.  None runs    *)
(* afterwards.                                                             *)
(***************************************************************************)
CONSTANT Functions

VARIABLES
    run,        \* "no", "running", "over" or "skipped" for every function
    returned

fvars == <<run, returned>>

FInit ==
    /\ run = [f \in Functions |-> "no"]
    /\ returned = FALSE

Call(f) ==
    /\ ~returned
    /\ run[f] = "no"
    /\ run' = [run EXCEPT ![f] = "running"]
    /\ UNCHANGED returned

Finish(f) ==
    /\ ~returned
    /\ run[f] = "running"
    /\ run' = [run EXCEPT ![f] = "over"]
    /\ UNCHANGED returned

Skip(f) ==
    /\ ~returned
    /\ run[f] = "no"
    /\ run' = [run EXCEPT ![f] = "skipped"]
    /\ UNCHANGED returned

Return ==
    /\ ~returned
    /\ \/ \A f \in Functions : run[f] \in {"no", "skipped"}
       \/ \A f \in Functions : run[f] \in {"over", "skipped"}
    /\ returned' = TRUE
    /\ UNCHANGED run

FNext ==
    \/ \E f \in Functions : Call(f) \/ Finish(f) \/ Skip(f)
    \/ Return

FSpec == FInit /\ [][FNext]_fvars
=============================================================================
