--------------------------- MODULE MCAccountSync ---------------------------
(* AccountSync on a small instance: pages of one droplet.                  *)
EXTENDS AccountSync

CONSTANTS l1, l2, d1, d2, d3, ann, bob, old, new, foreign

TwoLoops == {l1, l2}
ThreeDroplets == {d1, d2, d3}
TwoDroplets == <<d1, d2>>
TwoUsers == {ann, bob}
ThreeTokens == {old, new, foreign}
OurTokens == {old, new}
=============================================================================
