-------------------------------- MODULE Mesh --------------------------------
(***************************************************************************)
(* The cross-certified mesh the Federal PKI store is walked from, as       *)
(* crawl.rs and fpki_refresh.rs see it: certificates that name             *)
(* repositories, and repositories that serve bundles of certificates.      *)
(*                                                                         *)
(* A body (the bytes of one fetch) is a model value.  What it holds is     *)
(* given by Entries; a body outside Bundles is one certs_from_bytes cannot *)
(* read.  The order of the entries in a bundle, and of the URIs in a       *)
(* certificate, is abstracted away.                                        *)
(***************************************************************************)
EXTENDS Naturals, FiniteSets

CONSTANTS
  Uris,          \* the repository URIs certificates may name
  Certs,         \* the certificates
  Junk,          \* bundle entries that are not certificates
  Anchors,       \* the committed trust anchors
  Bodies,        \* everything a server may send
  Bundles,       \* the bodies that read as a bundle
  NoBody,        \* no copy
  Entries,       \* Entries[b]: what the bundle b holds
  Repositories   \* Repositories[c]: the URIs the certificate c names

ASSUME MeshAssumption ==
  /\ IsFiniteSet(Uris)
  /\ IsFiniteSet(Certs)
  /\ Certs \cap Junk = {}
  /\ Anchors \subseteq Certs
  /\ Bundles \subseteq Bodies
  /\ NoBody \notin Bodies
  /\ Entries \in [Bundles -> SUBSET (Certs \cup Junk)]
  /\ Repositories \in [Certs -> SUBSET Uris]

(* One bundle per repository, or none: inputs/crawl/ on disk, and the      *)
(* `bundles` a walk returns.                                               *)
Folder == [Uris -> Bundles \cup {NoBody}]

Held(folder) == {u \in Uris : folder[u] # NoBody}

(* The certificates of a bundle: Certificate::from_der fails on the rest.  *)
CertsIn(bundle) == Entries[bundle] \cap Certs

(* Every certificate the bundles of a folder hold, the anchors excluded,   *)
(* as inputs_from collects them before the self-signed ones are dropped.   *)
CertsOf(folder) == (UNION {CertsIn(folder[u]) : u \in Held(folder)}) \ Anchors

LinksOf(certs) == UNION {Repositories[c] : c \in certs}

(* A set of repositories closed under the links a folder's bundles carry.  *)
ClosedUnder(folder, S) ==
  /\ LinksOf(Anchors) \subseteq S
  /\ \A u \in S \cap Held(folder) : LinksOf(CertsIn(folder[u])) \subseteq S

(* What a breadth-first walk reaches when each repository serves what the  *)
(* folder holds for it: the least closed set.                              *)
Reachable(folder) == {u \in Uris : \A S \in SUBSET Uris :
                                      ClosedUnder(folder, S) => u \in S}

(* A folder some complete walk could have written: every repository in it  *)
(* is reached from the anchors through the others.                         *)
IsWalk(folder) == Held(folder) \subseteq Reachable(folder)
=============================================================================
