----------------------------- MODULE RunReport -----------------------------
(***************************************************************************)
(* What the execution log promises about the runs of one chain: a step     *)
(* that took effect is reported before the next one takes effect, the      *)
(* closing report (CHAIN_COMPLETED or CHAIN_ABORTED) comes once and when   *)
(* every effect is reported, and nothing takes effect between it and the   *)
(* next run.  A run may break off at any point: then the closing report is *)
(* missing, and the report of at most one effect.                          *)
(***************************************************************************)
EXTENDS Naturals

VARIABLES
    running,    \* a run is going on
    unreported, \* effects of this run that are not in the log
    closed      \* closing reports of this run

vars == <<running, unreported, closed>>

Init == running = FALSE /\ unreported = 0 /\ closed = 0

Begin ==
    /\ ~running
    /\ running' = TRUE
    /\ UNCHANGED <<unreported, closed>>

TakeEffect ==
    /\ running /\ unreported = 0 /\ closed = 0
    /\ unreported' = 1
    /\ UNCHANGED <<running, closed>>

Report ==
    /\ running /\ unreported = 1
    /\ unreported' = 0
    /\ UNCHANGED <<running, closed>>

Close ==
    /\ running /\ unreported = 0 /\ closed = 0
    /\ closed' = 1
    /\ UNCHANGED <<running, unreported>>

End ==
    /\ running
    /\ running' = FALSE
    /\ unreported' = 0
    /\ closed' = 0

Next == Begin \/ TakeEffect \/ Report \/ Close \/ End

Spec == Init /\ [][Next]_vars
=============================================================================
