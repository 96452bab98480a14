------------------------------- MODULE MCVmm -------------------------------
EXTENDS Vmm, TLC

FrameSymmetry == Permutations(Frames) \union Permutations(Dirs)
=============================================================================
