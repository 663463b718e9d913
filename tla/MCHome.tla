------------------------------- MODULE MCHome --------------------------------
(* Values for the runs of HomeServer.                                       *)
EXTENDS HomeServer

CONSTANTS mainT, checkerT, serverT, upOk, upBad, sysStatus, dlOk, null, free, stale

MCThreads == {mainT, checkerT, serverT}
MCMessages == {upOk, upBad, sysStatus, dlOk}
MCLocks == {free}
=============================================================================
