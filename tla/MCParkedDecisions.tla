-------------------------- MODULE MCParkedDecisions --------------------------
(* Processes for ParkedDecisions: a child of the bridge, or one at a terminal whose waits end by *)
(* themselves only after the resume.                                                             *)
EXTENDS ParkedDecisions

MCStarts == <<{<<"bridge", "park">>, <<"terminal", "park">>}, {<<"bridge", "park">>, <<"terminal", "park-timeout">>}>>
=============================================================================
