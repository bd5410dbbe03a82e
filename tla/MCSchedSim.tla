----------------------------- MODULE MCSchedSim -----------------------------
EXTENDS SchedSim

\* main's ten processes; the simulator uses their numbers as process IDs.
MCProcesses == 0 .. 9
=============================================================================
