--------------------------- MODULE MCTimerManager ---------------------------
(* Instances of TimerManager.                                                *)
EXTENDS TimerManager

CONSTANTS t1, t2, u1, u2, lp

MCTimers == {t1, t2}
MCOneTimer == {t1}
MCUsers == {u1}
MCTwoUsers == {u1, u2}
MCManagers == {u1, lp}
=============================================================================
