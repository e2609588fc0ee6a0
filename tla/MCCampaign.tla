----------------------------- MODULE MCCampaign -----------------------------
(***************************************************************************)
(* Two recipients, two workers and a campaign that is sent twice.  Both    *)
(* consent at first; one of them is on its list of addresses.              *)
(***************************************************************************)
EXTENDS Campaign

CONSTANTS ali, mona, s1, s2, w1, w2

MCNamed == <<mona>>
=============================================================================
