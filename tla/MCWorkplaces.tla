---------------------------- MODULE MCWorkplaces ----------------------------
EXTENDS Workplaces, TLC
MCSymmetry == Permutations(Creates) \cup Permutations(Requests)
=============================================================================
