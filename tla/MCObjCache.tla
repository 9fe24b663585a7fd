---------------------------- MODULE MCObjCache ----------------------------
EXTENDS ObjCache, TLC

MCSymmetry == Permutations(Sessions) \cup Permutations(OCs)
                  \cup Permutations(Variants)
===========================================================================
