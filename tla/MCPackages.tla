---------------------------- MODULE MCPackages ----------------------------
EXTENDS Packages, TLC
CONSTANTS a, b
SamePacks == Permutations(Packs)
=============================================================================
