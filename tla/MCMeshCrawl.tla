---------------------------- MODULE MCMeshCrawl ----------------------------
(***************************************************************************)
(* A small mesh for MeshCrawl, with limits that some of its walks reach    *)
(* and others do not.  The anchor a names u1.  u1 has a stale server       *)
(* (bOld, no link to u3) beside a current one; u2 may serve a page instead *)
(* of a bundle, and what it holds leads back to u1 and on to u4; u3 is     *)
(* reached from c2 only and serves copies with no date.  A walk that reads *)
(* bOld is complete after three fetches; one that reads bNew reaches the   *)
(* limit of certificates if u2 answers with its bundle and that of fetches *)
(* if it answers with a page.                                              *)
(***************************************************************************)
EXTENDS MeshCrawl

CONSTANTS u1, u2, u3, u4, a, c1, c2, c3, j, bOld, bNew, b2, b3, b4, page

MCUris == {u1, u2, u3, u4}
MCCerts == {a, c1, c2, c3}
MCJunk == {j}
MCAnchors == {a}
MCBundles == {bOld, bNew, b2, b3, b4}
MCBodies == MCBundles \cup {page}

MCEntries == [b \in MCBundles |->
  CASE b = bOld -> {a, c1, j}
    [] b = bNew -> {c1, c2}
    [] b = b2 -> {a, c3}
    [] b = b3 -> {c2, j}
    [] b = b4 -> {c1, c3}]

MCRepositories == [c \in MCCerts |->
  CASE c = a -> {u1}
    [] c = c1 -> {u2}
    [] c = c2 -> {u3, u4}
    [] c = c3 -> {u1, u4}]

MCServes == [u \in MCUris |->
  CASE u = u1 -> {[body |-> bOld, date |-> 1], [body |-> bNew, date |-> 2]}
    [] u = u2 -> {[body |-> b2, date |-> 1], [body |-> page, date |-> 1]}
    [] u = u3 -> {[body |-> b3, date |-> 0]}
    [] u = u4 -> {[body |-> b4, date |-> 1]}]

MCEarlierCopies == [u \in MCUris |->
  CASE u = u1 -> {bOld, bNew} [] u = u2 -> {b2} [] u = u3 -> {b3}
    [] u = u4 -> {b4}]
=============================================================================
