----------------------------- MODULE ServiceMC ------------------------------
EXTENDS Service, TLC

CONSTANTS gui, tool

\* Two networks; the first argument has a host bit.
MCCidrs == {<<3, 1>>, <<0, 2>>}
=============================================================================
