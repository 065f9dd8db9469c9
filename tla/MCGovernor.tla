----------------------------- MODULE MCGovernor ------------------------------
EXTENDS Governor

\* Rates that can gain a little, gain enough, and lose.
Rates == {0, 10, 11, 20}
==============================================================================
