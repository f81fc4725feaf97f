-------------------------- MODULE MCRequestLifecycle --------------------------
(* An instance of RequestLifecycle for TLC: the values of its constants.    *)
EXTENDS RequestLifecycle

CONSTANTS c1, c2, c3

MCCred       == {c1, c2, c3}
MCEnterprise == {c1}
MCUnknown    == {c3}

\* Two intact frames, and damage of every kind before an intact one.
MCBodies == {<<"none", "none">>, <<"message", "none">>, <<"content", "none">>,
             <<"stray", "none">>, <<"absurd", "none">>, <<"header", "none">>,
             <<"long", "none">>, <<"shifted", "none">>}

DamagedData == {<<"message", "none">>}
=============================================================================
