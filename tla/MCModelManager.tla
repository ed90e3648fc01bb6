--------------------------- MODULE MCModelManager ---------------------------
(* Instantiates ModelManager for TLC: model values for threads, variants   *)
(* and a caller-supplied replica name r1 of variant m1; submitters of      *)
(* offline jobs are model values of the cfg.                              *)
EXTENDS ModelManager

CONSTANTS m1, m2, m3, r1

MCModelOf == [n \in Names |-> IF n = r1 THEN m1 ELSE n]

(* Every offline job finds local_input_dir/<m>_<s> made beforehand.        *)
MCAllParents == Models \X Submitters

(* Threads are interchangeable: no step depends on which thread runs it.   *)
(* Used by the safety runs only.                                           *)
MCSymmetry == Permutations(Threads)

=============================================================================
