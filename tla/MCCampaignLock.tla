--------------------------- MODULE MCCampaignLock ---------------------------
(* TLC instance of CampaignLock: three processes and one inode more.       *)
EXTENDS CampaignLock, TLC

\* Processes and inode numbers are interchangeable: no action names one.
Symmetry == Permutations(Procs) \union Permutations(Inodes)
=============================================================================
