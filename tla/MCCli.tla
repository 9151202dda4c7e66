------------------------------- MODULE MCCli -------------------------------
(* Small instances of the command line client for TLC. *)
EXTENDS Cli, TLC

TwoPins == {<<"app", "dev">>, <<"web", "prod">>}

\* Runs differ in nothing but their names.
Symmetric == Permutations(Runs)
=============================================================================
