------------------------------- MODULE MCBan -------------------------------
EXTENDS Ban, TLC

MCSymmetry == Permutations(OCs) \cup Permutations(Kinds)
                  \cup Permutations(Bans)

BothOff    == [ban_dups |-> FALSE, lurker |-> FALSE]
BothOn     == [ban_dups |-> TRUE, lurker |-> TRUE]
OffOrOn    == {BothOff, BothOn}
LurkerOnly == {[BothOff EXCEPT !.lurker = TRUE]}
============================================================================
