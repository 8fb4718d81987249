----------------------------- MODULE MCSession -----------------------------
(***************************************************************************)
(* Instances of Session for TLC.                                           *)
(***************************************************************************)
EXTENDS Session, TLC

CONSTANTS k1, k2

OneKii == {k1}
TwoKiis == {k1, k2}

\* The kii_t instances are alike.
KiiSymmetry == Permutations(Kiis)

\* Renewing by onboarding takes more of the buffer than through the endpoint.
AllBodies ==
    [streamed : BOOLEAN, room : {{}, {"token_endpoint"}, {"token_endpoint", "onboarding"}}]

\* A body that leaves all the room a renewal takes, and one that leaves none.
TwoBodies ==
    [streamed : {FALSE}, room : {{}, {"token_endpoint", "onboarding"}}]

LargeBody == [streamed : {FALSE}, room : {{}}]

AllCalls == {"auth_thing", "onboard", "onboard_again", "set_author", "set_password"}
SharedCalls == {"onboard_again", "set_password"}
Unattended == {"onboard_again"}

=============================================================================
