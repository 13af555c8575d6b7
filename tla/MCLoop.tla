------------------------------- MODULE MCLoop -------------------------------
(* Instances of Loop: two user threads, u1 the owner.                       *)
EXTENDS Loop

CONSTANTS u1, u2, t1, t2

MCUsers == {u1, u2}
MCWaiters == {u1}
MCOneThread == {t1}
MCTwoThreads == {t1, t2}
=============================================================================
