------------------------------- MODULE MCRoleRun -------------------------------
(* A small instance of RoleRun: a chain for each way to fall back. *)
EXTENDS RoleRun

MCChains == {<<"codex", "claude">>, <<"claude", "claude", "codex">>}
=============================================================================
