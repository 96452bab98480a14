------------------------------ MODULE MCShell ------------------------------
EXTENDS Shell

MCPrompt == <<"$">>
MCOutputs == {<<"A", "LF">>, <<"LF", "A", "LF">>}
=============================================================================
