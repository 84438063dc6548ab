----------------------------- MODULE MCConductRun -----------------------------
(* Settings for ConductRun: a process that answers by policy with one unit at a time, or one that *)
(* parks its decisions with two, and a resume that parks them.                                   *)
EXTENDS ConductRun

MCSettings == <<{<<"auto", 1>>, <<"park-timeout", 2>>}, {<<"park-timeout", 2>>}>>
=============================================================================
