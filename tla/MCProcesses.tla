------------------------------ MODULE MCProcesses ------------------------------
EXTENDS ProcessAgent
=============================================================================
