----------------------------- MODULE CertPaths -----------------------------
(***************************************************************************)
(* Certification paths over a set of anchors and a set of CA certificates, *)
(* and the stores that core.rs of certval-store-gen makes of them.         *)
(*                                                                         *)
(* A certificate is a value with the fields that paths depend on.  certval *)
(* finds an issuer by key identifier and compares the name; a partial path *)
(* runs from a CA that an anchor issued to a leaf CA, repeats no key and   *)
(* has at most MaxDepth certificates.  Paths are sequences, the anchor's   *)
(* end first and the anchor itself left out.                               *)
(***************************************************************************)
EXTENDS Integers, Sequences, FiniteSets

CONSTANTS
  Certs,           \* certificates and other trust anchors
  Decodes,         \* those that decode as a certificate
  Anchoring,       \* those that decode as a TrustAnchorChoice
  Subject,         \* [Certs -> names]
  Issuer,          \* [Certs -> names]
  KeyId,           \* [Certs -> key identifiers], NoKeyId where none can be computed
  AuthorityKeyId,  \* [Certs -> key identifiers]
  Key,             \* [Certs -> public keys]
  SignedBy,        \* [Certs -> public keys], the key that verifies the signature
  Validity,        \* [Certs -> sets of days]
  NoKeyId,
  MaxDepth         \* certval's limit on a partial path

(* A time of interest that is disabled.                                    *)
NoTime == 0

ASSUME CertAssumption ==
  /\ Decodes \subseteq Certs /\ Anchoring \subseteq Certs
  /\ DOMAIN Subject = Certs /\ DOMAIN Issuer = Certs
  /\ DOMAIN KeyId = Certs /\ DOMAIN AuthorityKeyId = Certs
  /\ DOMAIN Key = Certs /\ DOMAIN SignedBy = Certs /\ DOMAIN Validity = Certs
  /\ \A c \in Certs : NoTime \notin Validity[c]
  /\ MaxDepth \in Nat \ {0}

(* certval does not anchor on a key identifier it cannot compute, nor on   *)
(* one that stands for two different keys among the anchors it was given.  *)
Usable(A) ==
  {a \in A \cap Anchoring :
     /\ KeyId[a] # NoKeyId
     /\ \A b \in A \cap Anchoring : KeyId[b] = KeyId[a] => Key[b] = Key[a]}

IssuedBy(i, c) == Subject[i] = Issuer[c] /\ KeyId[i] = AuthorityKeyId[c]

Anchored(A, c) == \E a \in Usable(A) : IssuedBy(a, c)

(* p leads from an anchor over certificates of S, each issued by the one   *)
(* before it.                                                              *)
Leads(A, S, p) ==
  /\ \A i \in DOMAIN p : p[i] \in S \cap Decodes
  /\ Anchored(A, p[1])
  /\ \A i \in DOMAIN p : i > 1 => IssuedBy(p[i - 1], p[i])

RepeatsNoKey(p) == \A i, j \in DOMAIN p : Key[p[i]] = Key[p[j]] => i = j

(* CertSource::find_all_partial_paths: what extends a shorter path and     *)
(* repeats no key.                                                         *)
PartialPaths(A, S) ==
  {p \in UNION {[1..n -> S] : n \in 1..MaxDepth} : Leads(A, S, p) /\ RepeatsNoKey(p)}

(* PkiEnvironment::get_paths_for_target: an anchor that issued c, or a     *)
(* partial path to a CA that did.                                          *)
PathsTo(A, S, c) ==
  {<<c>> : a \in {b \in Usable(A) : IssuedBy(b, c)}} \cup
  {Append(p, c) : p \in {q \in PartialPaths(A, S) : IssuedBy(q[Len(q)], c)}}

(* PkiEnvironment::validate_path, revocation off and the anchor's own      *)
(* validity unenforced: the signatures from the anchor down and, unless    *)
(* the time is disabled, every certificate's validity.                     *)
Validates(A, p, time) ==
  /\ \E a \in Usable(A) : IssuedBy(a, p[1]) /\ SignedBy[p[1]] = Key[a]
  /\ \A i \in DOMAIN p : i > 1 => SignedBy[p[i]] = Key[p[i - 1]]
  /\ time # NoTime => \A i \in DOMAIN p : time \in Validity[p[i]]

-----------------------------------------------------------------------------
(* Pruning, as sets of certificates.                                       *)

CanValidate(A, S, time, c) ==
  c \in Decodes /\ \E p \in PathsTo(A, S, c) : Validates(A, p, time)

PruneUnvalidated(A, S, time) == {c \in S : CanValidate(A, S, time, c)}

InAPath(A, S, c) == \E p \in PartialPaths(A, S) : \E i \in DOMAIN p : p[i] = c

PruneUnrooted(A, S) == {c \in S : InAPath(A, S, c)}

(* Wrong version: pruned once.                                             *)
PrunedOnce(A, S, time) == PruneUnvalidated(A, S, time)

(* What regenerate_from of the FPKI refresh keeps.                         *)
Pruned(A, S, time) == PruneUnrooted(A, PruneUnvalidated(A, S, time))
=============================================================================
