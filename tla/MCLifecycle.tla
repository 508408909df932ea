---------------------------- MODULE MCLifecycle ----------------------------
\* The lifecycle of one client with a small budget of calls and failures.
EXTENDS Lifecycle, TLC
CONSTANTS s1, s2
MCSupervisors == {s1, s2}
SupervisorSymmetry == Permutations(MCSupervisors)
=============================================================================
