------------------------------- MODULE MCInbox -------------------------------
(* An inbox of one file with two findings, and reflections that recognise one of them and tag the other in vain. *)
EXTENDS Inbox

MCStart == 2 :> <<[id |-> <<"old", 1>>, title |-> "x", n |-> 1], [id |-> <<"old", 2>>, title |-> "y", n |-> 2]>>
Section(title, tag) == [title |-> title, tag |-> tag]
MCReports == {<<Section("v", "y"), Section("z", "w")>>}
MCSymmetry == Permutations(Runs)
=============================================================================
