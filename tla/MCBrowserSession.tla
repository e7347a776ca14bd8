-------------------------- MODULE MCBrowserSession --------------------------
(***************************************************************************)
(* Instances of BrowserSession for TLC: two tabs of one user with tokens   *)
(* that outlive the refresh window, and one tab of two users with tokens   *)
(* that do not.                                                            *)
(***************************************************************************)
EXTENDS BrowserSession, TLC

CONSTANTS t1, t2, u1, u2

TwoTabs == {t1, t2}
OneTab == {t1}
TwoUsers == {u1, u2}
OneUser == {u1}
Long == {2}
Short == {1}
TabSymmetry == Permutations(TwoTabs)

=============================================================================
