------------------------------ MODULE MCFleet ------------------------------
(* Fleet as the run instantiates it; without symmetry, since it checks        *)
(* liveness.  All tokens within one second, or one of them over two.         *)
EXTENDS Fleet

Fresh == CHOOSE t \in Tokens : TRUE
MCStarts == {[at |-> 2, spent |-> {}], [at |-> 1, spent |-> Tokens \ {Fresh}]}
=============================================================================
