------------------------------- MODULE MCDaemon -------------------------------
(* The values of Daemon's constants that are no numbers. *)
EXTENDS Daemon

TwoMd5s == {<<"a", "b">>, <<"c">>}
================================================================================
