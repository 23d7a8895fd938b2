--------------------------- MODULE MCCampaignQueue ---------------------------
(***************************************************************************)
(* TLC instance of CampaignQueue: three operations of one campaign on two  *)
(* channels, and one of another campaign.                                  *)
(***************************************************************************)
EXTENDS CampaignQueue

CONSTANTS o1, o2, o3, o4, c1, c2, c3, k1, k2

MCOps == {o1, o2, o3, o4}
MCChannels == {c1, c2, c3}
MCCampaigns == {k1, k2}
MCChannelOf == [o \in MCOps |-> CASE o = o3 -> c2 [] o = o4 -> c3 [] OTHER -> c1]
MCCampaignOf == [c \in MCChannels |-> IF c = c3 THEN k2 ELSE k1]

=============================================================================
