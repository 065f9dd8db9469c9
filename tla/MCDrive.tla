------------------------------ MODULE MCDrive --------------------------------
EXTENDS Drive
==============================================================================
