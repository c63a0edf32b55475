-------------------------- MODULE CertPaths_proofs --------------------------
(***************************************************************************)
(* What the two prunings of core.rs leave, for every set of anchors and    *)
(* certificates: paths may share certificates, names and keys in any way,  *)
(* and signatures need not agree with the names on them.                   *)
(***************************************************************************)
EXTENDS CertPaths, TLAPS

PartOf(p, i) == [j \in 1..i |-> p[j]]

(* A partial path is a sequence of 1 to MaxDepth certificates of S.        *)
LEMMA PathShape ==
  ASSUME NEW A, NEW S, NEW p \in PartialPaths(A, S)
  PROVE  \E n \in 1..MaxDepth : p \in [1..n -> S] /\ DOMAIN p = 1..n /\ Len(p) = n /\ p \in Seq(S)
<1>1. PICK n \in 1..MaxDepth : p \in [1..n -> S]
  BY DEF PartialPaths
<1>2. n \in Nat
  BY CertAssumption DEF CertAssumption
<1>3. DOMAIN p = 1..n /\ p \in Seq(S) /\ Len(p) = n
  BY <1>1, <1>2
<1> QED
  BY <1>1, <1>3

(* Every part of a partial path from the anchor on is one.                 *)
LEMMA PartsArePaths ==
  ASSUME NEW A, NEW S, NEW p \in PartialPaths(A, S), NEW i \in DOMAIN p
  PROVE  PartOf(p, i) \in PartialPaths(A, S)
<1> DEFINE q == PartOf(p, i)
<1>1. PICK n \in 1..MaxDepth : p \in [1..n -> S] /\ DOMAIN p = 1..n
  BY PathShape
<1>2. n \in Nat /\ i \in Nat /\ i \in 1..n /\ i \in 1..MaxDepth /\ 1 \in 1..i
  BY <1>1, CertAssumption DEF CertAssumption
<1>3. q \in [1..i -> S] /\ DOMAIN q = 1..i /\ \A j \in 1..i : q[j] = p[j] /\ j \in DOMAIN p
  BY <1>1, <1>2 DEF PartOf
<1>4. Leads(A, S, p) /\ RepeatsNoKey(p)
  BY DEF PartialPaths
<1>5. Leads(A, S, q)
  <2>1. \A j \in DOMAIN q : q[j] \in S \cap Decodes
    BY <1>3, <1>4 DEF Leads
  <2>2. Anchored(A, q[1])
    BY <1>2, <1>3, <1>4 DEF Leads
  <2>3. \A j \in DOMAIN q : j > 1 => IssuedBy(q[j - 1], q[j])
    <3> SUFFICES ASSUME NEW j \in DOMAIN q, j > 1
                 PROVE  IssuedBy(q[j - 1], q[j])
      OBVIOUS
    <3>1. j \in 1..i /\ j - 1 \in 1..i
      BY <1>2, <1>3
    <3>2. q[j] = p[j] /\ q[j - 1] = p[j - 1] /\ j \in DOMAIN p
      BY <1>3, <3>1
    <3> QED
      BY <1>4, <3>2 DEF Leads
  <2> QED
    BY <2>1, <2>2, <2>3 DEF Leads
<1>6. RepeatsNoKey(q)
  BY <1>3, <1>4 DEF RepeatsNoKey
<1> QED
  BY <1>2, <1>3, <1>5, <1>6 DEF PartialPaths

(* A partial path whose certificates are all in another set is one there.  *)
LEMMA PathsWithin ==
  ASSUME NEW A, NEW S, NEW R, NEW p \in PartialPaths(A, S),
         \A i \in DOMAIN p : p[i] \in R
  PROVE  p \in PartialPaths(A, R)
<1>1. PICK n \in 1..MaxDepth : p \in [1..n -> S] /\ DOMAIN p = 1..n
  BY PathShape
<1>2. p \in [1..n -> R]
  BY <1>1
<1>3. Leads(A, S, p) /\ RepeatsNoKey(p)
  BY DEF PartialPaths
<1>4. Leads(A, R, p)
  BY <1>3 DEF Leads
<1> QED
  BY <1>1, <1>2, <1>3, <1>4 DEF PartialPaths

(* No certificate of a partial path is pruned as unrooted.                 *)
LEMMA RootedPathsStay ==
  ASSUME NEW A, NEW S, NEW p \in PartialPaths(A, S), NEW i \in DOMAIN p
  PROVE  p[i] \in PruneUnrooted(A, S)
<1>1. p[i] \in S
  BY DEF PartialPaths, Leads
<1>2. InAPath(A, S, p[i])
  BY DEF InAPath
<1> QED
  BY <1>1, <1>2 DEF PruneUnrooted

LEMMA RootedPathsRemain ==
  ASSUME NEW A, NEW S, NEW p \in PartialPaths(A, S)
  PROVE  p \in PartialPaths(A, PruneUnrooted(A, S))
BY RootedPathsStay, PathsWithin

(* prune_unrooted is settled after one pass: removing what is in no        *)
(* partial path cannot strand anything that is (fpki_refresh.rs:142).      *)
THEOREM OnePassSettles ==
  ASSUME NEW A, NEW S
  PROVE  PruneUnrooted(A, PruneUnrooted(A, S)) = PruneUnrooted(A, S)
<1> DEFINE R == PruneUnrooted(A, S)
<1>1. ASSUME NEW c \in R
      PROVE  InAPath(A, R, c)
  <2>1. PICK p \in PartialPaths(A, S) : \E i \in DOMAIN p : p[i] = c
    BY DEF PruneUnrooted, InAPath
  <2>2. p \in PartialPaths(A, R)
    BY RootedPathsRemain
  <2> QED
    BY <2>1, <2>2 DEF InAPath
<1> QED
  BY <1>1 DEF PruneUnrooted

-----------------------------------------------------------------------------
(* A path that validates does so up to each of its certificates.           *)
LEMMA PartsValidate ==
  ASSUME NEW A, NEW S, NEW time, NEW p \in PartialPaths(A, S), NEW c,
         Validates(A, Append(p, c), time), NEW i \in DOMAIN p
  PROVE  CanValidate(A, S, time, p[i])
<1>1. PICK n \in 1..MaxDepth : p \in [1..n -> S] /\ DOMAIN p = 1..n /\ Len(p) = n /\ p \in Seq(S)
  BY PathShape
<1>2. n \in Nat /\ i \in 1..n /\ 1 \in 1..n
  BY <1>1, CertAssumption DEF CertAssumption
<1> DEFINE pc == Append(p, c)
           q == PartOf(p, i)
<1>3. DOMAIN pc = 1..n + 1 /\ \A j \in 1..n : pc[j] = p[j]
  BY <1>1, <1>2
<1>4. DOMAIN q = 1..i /\ \A j \in 1..i : q[j] = p[j] /\ q[j] = pc[j] /\ j \in DOMAIN pc
  BY <1>2, <1>3 DEF PartOf
<1>5. Leads(A, S, p)
  BY DEF PartialPaths
<1> HIDE DEF q, pc
<1>6. Validates(A, q, time)
  <2>1. \E a \in Usable(A) : IssuedBy(a, q[1]) /\ SignedBy[q[1]] = Key[a]
    BY <1>2, <1>4 DEF Validates, pc
  <2>2. \A j \in DOMAIN q : j > 1 => SignedBy[q[j]] = Key[q[j - 1]]
    <3> SUFFICES ASSUME NEW j \in DOMAIN q, j > 1
                 PROVE  SignedBy[q[j]] = Key[q[j - 1]]
      OBVIOUS
    <3>1. j \in 1..i /\ j - 1 \in 1..i
      BY <1>2, <1>4
    <3>2. q[j] = pc[j] /\ q[j - 1] = pc[j - 1] /\ j \in DOMAIN pc
      BY <1>4, <3>1
    <3> QED
      BY <3>2 DEF Validates, pc
  <2>3. time # NoTime => \A j \in DOMAIN q : time \in Validity[q[j]]
    BY <1>4 DEF Validates, pc
  <2> QED
    BY <2>1, <2>2, <2>3 DEF Validates
<1>7. q \in PathsTo(A, S, p[i])
  <2>1. CASE i = 1
    <3>1. q = <<p[1]>>
      BY <1>4, <2>1 DEF q, PartOf
    <3>2. PICK a \in Usable(A) : IssuedBy(a, p[1])
      BY <1>5 DEF Leads, Anchored
    <3> QED
      BY <2>1, <3>1, <3>2 DEF PathsTo
  <2>2. CASE i # 1
    <3> DEFINE r == PartOf(p, i - 1)
    <3>1. i - 1 \in DOMAIN p /\ i - 1 \in Nat /\ i > 1
      BY <1>1, <1>2, <2>2
    <3>2. r \in PartialPaths(A, S)
      BY <3>1, PartsArePaths
    <3>3. r \in [1..i - 1 -> S] /\ r \in Seq(S) /\ Len(r) = i - 1 /\ r[i - 1] = p[i - 1]
      BY <1>1, <1>2, <3>1 DEF PartOf
    <3>4. IssuedBy(r[Len(r)], p[i])
      BY <1>5, <3>1, <3>3 DEF Leads
    <3>5. q = Append(r, p[i])
      BY <1>2, <1>4, <3>1, <3>3 DEF q, PartOf
    <3> HIDE DEF r
    <3> QED
      BY <3>2, <3>4, <3>5 DEF PathsTo
  <2> QED
    BY <2>1, <2>2
<1>8. p[i] \in Decodes
  BY <1>5 DEF Leads
<1> QED
  BY <1>6, <1>7, <1>8 DEF CanValidate

(* What validates over S validates over what is left of S.                 *)
LEMMA ValidationSurvives ==
  ASSUME NEW A, NEW S, NEW time, NEW c, CanValidate(A, S, time, c)
  PROVE  /\ CanValidate(A, PruneUnvalidated(A, S, time), time, c)
         /\ CanValidate(A, Pruned(A, S, time), time, c)
<1> DEFINE U == PruneUnvalidated(A, S, time)
           K == Pruned(A, S, time)
<1>1. PICK p \in PathsTo(A, S, c) : Validates(A, p, time)
  BY DEF CanValidate
<1>2. c \in Decodes
  BY DEF CanValidate
<1>3. CASE \E a \in Usable(A) : IssuedBy(a, c) /\ p = <<c>>
  <2>1. \A R : p \in PathsTo(A, R, c)
    BY <1>3 DEF PathsTo
  <2> QED
    BY <1>1, <1>2, <2>1 DEF CanValidate
<1>4. CASE \E q \in PartialPaths(A, S) : IssuedBy(q[Len(q)], c) /\ p = Append(q, c)
  <2>1. PICK q \in PartialPaths(A, S) : IssuedBy(q[Len(q)], c) /\ p = Append(q, c)
    BY <1>4
  <2>2. \A i \in DOMAIN q : q[i] \in U
    BY <1>1, <2>1, PartsValidate DEF PruneUnvalidated, PartialPaths, Leads
  <2>3. q \in PartialPaths(A, U)
    BY <2>2, PathsWithin
  <2>4. q \in PartialPaths(A, K)
    BY <2>3, RootedPathsRemain DEF Pruned
  <2>5. p \in PathsTo(A, U, c) /\ p \in PathsTo(A, K, c)
    BY <2>1, <2>3, <2>4 DEF PathsTo
  <2> QED
    BY <1>1, <1>2, <2>5 DEF CanValidate
<1> QED
  BY <1>1, <1>3, <1>4 DEF PathsTo

(* prune_unvalidated is settled after one pass as well: a path that        *)
(* validates is made of certificates that do.                              *)
THEOREM ValidatedOnce ==
  ASSUME NEW A, NEW S, NEW time
  PROVE  PruneUnvalidated(A, PruneUnvalidated(A, S, time), time) = PruneUnvalidated(A, S, time)
BY ValidationSurvives DEF PruneUnvalidated

(* A walk's store, pruned twice, is settled: each of its certificates      *)
(* validates on the day over the store alone and is in one of its partial  *)
(* paths (fpki_refresh.rs:137).                                            *)
THEOREM TwoPassesSettle ==
  ASSUME NEW A, NEW S, NEW time, NEW c \in Pruned(A, S, time)
  PROVE  /\ CanValidate(A, Pruned(A, S, time), time, c)
         /\ InAPath(A, Pruned(A, S, time), c)
<1> DEFINE U == PruneUnvalidated(A, S, time)
<1>1. c \in PruneUnrooted(A, U) /\ c \in PruneUnrooted(A, PruneUnrooted(A, U))
  BY OnePassSettles DEF Pruned
<1>2. InAPath(A, Pruned(A, S, time), c)
  BY <1>1 DEF PruneUnrooted, Pruned
<1>3. CanValidate(A, S, time, c)
  BY <1>1 DEF PruneUnrooted, PruneUnvalidated
<1> QED
  BY <1>2, <1>3, ValidationSurvives

(* Pruning a pruned store again changes nothing, so that a regeneration    *)
(* from the store's own certificates yields it.                            *)
THEOREM PrunedForGood ==
  ASSUME NEW A, NEW S, NEW time
  PROVE  Pruned(A, Pruned(A, S, time), time) = Pruned(A, S, time)
<1> DEFINE K == Pruned(A, S, time)
<1>1. PruneUnvalidated(A, K, time) = K
  BY TwoPassesSettle DEF PruneUnvalidated
<1>2. PruneUnrooted(A, K) = K
  BY TwoPassesSettle DEF PruneUnrooted
<1> QED
  BY <1>1, <1>2 DEF Pruned
=============================================================================
