--------------------------- MODULE MCFpkiRefresh ---------------------------
(***************************************************************************)
(* A small mesh for FpkiRefresh: the anchor a names u1, c1 names u2, c2    *)
(* names u3 and c4 names u4, which path_for refuses.  u1 may come to serve *)
(* c2 itself and c4 with it; u2 may be withdrawn; c2 expires first, which  *)
(* strands c3.                                                             *)
(***************************************************************************)
EXTENDS FpkiRefresh

CONSTANTS u1, u2, u3, u4, a, c1, c2, c3, c4, bA, bC, b2, b3,
           p1, p2, p3

MCUris == {u1, u2, u3, u4}
MCPaths == {p1, p2, p3}
MCCerts == {a, c1, c2, c3, c4}
MCAnchors == {a}
MCBundles == {bA, bC, b2, b3}

MCEntries == [b \in MCBundles |->
  CASE b = bA -> {a, c1}
    [] b = bC -> {c1, c2, c4}
    [] b = b2 -> {c2}
    [] b = b3 -> {c3}]

MCRepositories == [c \in MCCerts |->
  CASE c = a -> {u1}
    [] c = c1 -> {u1, u2}
    [] c = c2 -> {u3}
    [] c = c3 -> {}
    [] c = c4 -> {u4}]

MCPublishes == [u \in MCUris |->
  CASE u = u1 -> {bA, bC} [] u = u2 -> {b2, NoBody}
    [] u = u3 -> {b3} [] u = u4 -> {b3}]

MCIssuers == [c \in MCCerts |->
  CASE c = a -> {a} [] c = c1 -> {a} [] c = c2 -> {c1} [] c = c3 -> {c2}
    [] c = c4 -> {a}]

MCNotAfter == [c \in MCCerts |-> IF c = c2 THEN 1 ELSE 2]

(* Every URI has a file of its own, or none.                               *)
MCPathOf == [u \in MCUris |->
  CASE u = u1 -> p1 [] u = u2 -> p2 [] u = u3 -> p3 [] u = u4 -> NoPath]

(* u2 and u3 differ in scheme only, or in characters path_for maps to `_`. *)
MCSharedPathOf == [u \in MCUris |->
  CASE u = u1 -> p1 [] u = u2 -> p2 [] u = u3 -> p2 [] u = u4 -> NoPath]
=============================================================================
