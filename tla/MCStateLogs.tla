---------------------------- MODULE MCStateLogs ----------------------------
EXTENDS StateLogs

\* a and b have deps, and either may list h, or h twice and b; c has none.
MCDepLists == {<<"h">>, <<"h", "b", "h">>}
=============================================================================
