------------------------------ MODULE MCPostSave ------------------------------
EXTENDS PostSave, TLC
Symmetry == Permutations(Windows) \cup Permutations(Ids)
OneStep == {[st |-> 1, pr |-> 1, vis |-> 0], [st |-> 0, pr |-> 1, vis |-> 0]}
===============================================================================
