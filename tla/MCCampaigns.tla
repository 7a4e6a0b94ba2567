---------------------------- MODULE MCCampaigns -----------------------------
(* One definition that two creators and two win-backs may want, campaigns for  *)
(* one customer or for nobody, and every deletion and receipt beside them.     *)
EXTENDS Campaigns, TLC

CONSTANTS w1, w2, t, h, k

Symmetry == Permutations(Workers)
=============================================================================
