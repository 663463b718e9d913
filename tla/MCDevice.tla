------------------------------- MODULE MCDevice -------------------------------
(* The values of Device's constants that are no numbers. *)
EXTENDS Device

CONSTANTS m1, m2

TwoMessages == {m1, m2}
ThreeChars == {"/", "s", "x"}
AtSlashS == <<"/", "s">>
AtSlashXS == <<"/", "x", "s">>
FiveChars == {" ", "/", "\n", "k", "="}
KeyIs == <<"k", "=">>
================================================================================
