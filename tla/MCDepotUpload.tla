--------------------------- MODULE MCDepotUpload ---------------------------
(***************************************************************************)
(* Instances of DepotUpload for TLC.  A tick is half the delay before      *)
(* cleanup where slow PUTs and the clock skew share it, 5 minutes where    *)
(* only the deadline matters.  One depot is enough: no step, row, key or   *)
(* job is shared by two of them.                                           *)
(***************************************************************************)
EXTENDS DepotUpload

CONSTANTS d1, u1, u2, good1, good2, bad

OneDepot == {d1}
BothUsers == {u1, u2}
OneUser == {u1}
ThreeContents == {good1, good2, bad}
TwoContents == {good1, bad}
GoodContents == {good1, good2}
GoodContent == {good1}

\* README.md, "Depots directs vers S3": confirmation stays possible for an hour
\* after the URL has expired.  With ticks of 5 minutes an hour is 12 ticks.
Hour == 12

\* No confirmation is answered "gone" before that hour has passed.
ConfirmableForAnHour ==
    [][\A d \in Depots : reply[d] # "gone" /\ reply'[d] = "gone"
          => time >= row[d].uploadExpiresAt + Hour]_vars

============================================================================
