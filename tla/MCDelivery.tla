----------------------------- MODULE MCDelivery -----------------------------
(* Instances of Delivery for TLC: recipients that are reached directly and *)
(* through a channel.                                                      *)
EXTENDS Delivery, TLC

CONSTANTS r1, r2, r3, direct, channel

MCMediums == <<direct, channel>>

TwoMediums      == {<<r1, direct>>, <<r1, channel>>}
\* The direct message at height 1 creates the first recipient.
SecondBlockOpens == {<<<<r1, direct>>, 1>>}

ThreeRecipients == {<<r1, direct>>, <<r2, direct>>, <<r3, direct>>}
=============================================================================
