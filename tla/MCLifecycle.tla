----------------------------- MODULE MCLifecycle -----------------------------
(* Two tasks for two workers: one that has begun when the signal comes, and one *)
(* that has not.                                                           *)
EXTENDS Lifecycle, TLC

CONSTANTS t1, t2

TwoTasks == {t1, t2}
===============================================================================
