---------------------------- MODULE MCAgentFiles ----------------------------
(***************************************************************************)
(* One workflow of each kind, a name core and kit share, and user files    *)
(* with and without the prefix.                                            *)
(***************************************************************************)
EXTENDS AgentFiles

MCCore == {"generate"}
MCKit == {"generate", "review", "cypilot"}
MCOwn == {<<Prefix, "notes">>, <<"", "review">>}
=============================================================================
