------------------------------- MODULE MCThr --------------------------------
(* An instance of Thr for TLC. *)
EXTENDS Thr

Threads == 1..2
Settings == {<<"PRINT", FALSE>>, <<"LOG", TRUE>>, <<"LOG", FALSE>>, <<"MAX", TRUE>>}
Names == {"thr", "app"}
=============================================================================
