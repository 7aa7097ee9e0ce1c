-------------------------------- MODULE MCOs --------------------------------
EXTENDS OsSyscall

\* An existing file under two names, one through the parent of the root, and one
\* that does not exist.
MCPaths == {<<"a">>, <<"..", "b", "..", "a">>, <<"b">>}
MCHostFiles == {<<"a">>}
MCIovs == {<<>>, <<1, 2>>, <<2, 1>>}
=============================================================================
