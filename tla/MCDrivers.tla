----------------------------- MODULE MCDrivers -----------------------------
EXTENDS Drivers

\* Right and down with a button, and left by one; 42 is also a shift scancode.
MCPackets == {<<9, 42, 255>>, <<8, 255, 1>>}

MCStrings == {<<"a">>, <<"a", "b", "c">>}
=============================================================================
