----------------------------- MODULE MCNrHarqDl -----------------------------
(* Instances of NrHarqDl: all UEs in one beam, or each in its own.         *)
EXTENDS NrHarqDl, TLC

OneBeam == [ue \in UEs |-> 1]
OwnBeams == [ue \in UEs |-> ue]

DlSymmetry == Permutations(UEs) \union Permutations(Ids)
=============================================================================
