---------------------------- MODULE MCTpmRefresh ----------------------------
(***************************************************************************)
(* Five cabinets for TpmRefresh: k1 of day 1, its reissue k1b with one     *)
(* more intermediate and the same date, k2 of day 2 with a new root, kx,   *)
(* whose signature is not accepted, and k0, which states no date.  a2 is   *)
(* not valid yet on day 1, and a1 is no longer on day 3.                   *)
(***************************************************************************)
EXTENDS TpmRefresh

CONSTANTS k0, k1, k1b, k2, kx, r1, r2, a1, a2

MCCabs == {k0, k1, k1b, k2, kx}
MCCerts == {r1, r2, a1, a2}
MCReleases == <<k1, k1b, kx, k0, k2>>
MCShortReleases == <<k1, k1b, k2>>
MCVouched == {k0, k1, k1b, k2}
MCPublished == [c \in MCCabs |->
  CASE c = k1 -> 1 [] c = k1b -> 1 [] c = k2 -> 2 [] c = kx -> 3
    [] c = k0 -> NoDate]
MCRootsOf == [c \in MCCabs |-> IF c = k2 THEN {r1, r2} ELSE {r1}]
MCCasOf == [c \in MCCabs |-> IF c = k1 THEN {a1} ELSE {a1, a2}]
MCValidOn == [c \in MCCerts |-> IF c = a1 THEN {1, 2} ELSE {2, 3}]
MCCarried == [c \in MCCabs |->
  [d \in 1..3 |-> {x \in MCCasOf[c] : d \in MCValidOn[x]}]]

(* The scheduled workflow and a maintainer, each in a checkout; and runs   *)
(* repeated in one tree, wherever the one before died.                     *)
Checkouts == [checkout |-> TRUE, regenerate |-> TRUE, mirrors |-> TRUE]
OneTree == [checkout |-> FALSE, regenerate |-> FALSE, mirrors |-> FALSE]
MCSettings == {Checkouts, OneTree}
MCDatedSettings == {[Checkouts EXCEPT !.mirrors = FALSE]}
=============================================================================
