------------------------------ MODULE MCEventFd ------------------------------
(* Instances of EventFd.                                                      *)
EXTENDS EventFd

CONSTANTS s1, s2, s3, s4, r1, r2, r3

MCSignals == {s1, s2, s3, s4}
MCServers == {r1, r2, r3}
=============================================================================
