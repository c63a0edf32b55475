------------------------- MODULE Conformance_proofs -------------------------
(***************************************************************************)
(* What core.rs generates passes the shared checks of conformance.rs, for  *)
(* every certificate and anchor: if each intermediate validates and lies   *)
(* in a partial path, the entry made of them conforms.                     *)
(***************************************************************************)
EXTENDS Conformance, CertPaths_proofs, FiniteSetTheorems, SequenceTheorems,
        WellFoundedInduction

-----------------------------------------------------------------------------
(* Sequences and positions.                                                *)

(* Of some natural numbers there is a least.                               *)
LEMMA Least ==
  ASSUME NEW S \in SUBSET Nat, S # {}
  PROVE  \E m \in S : \A n \in S : m <= n
<1> DEFINE R == OpToRel(<, Nat)
<1>1. IsWellFoundedOn(R, Nat)
  BY NatLessThanWellFounded
<1>2. \A x, y \in Nat : x < y => <<x, y>> \in R
  BY DEF OpToRel
<1> HIDE DEF R
<1>3. PICK m \in S : \A n \in S : <<n, m>> \notin R
  BY <1>1, WFMin
<1>4. \A n \in S : n \in Nat /\ m \in Nat
  OBVIOUS
<1>5. \A n \in S : ~(n < m)
  BY <1>2, <1>3, <1>4, Zenon
<1> QED
  BY <1>4, <1>5

UpTo(I, i) == {j \in I : j <= i}

(* Counting from the least, each of finitely many positions has a number   *)
(* of its own, and all numbers are taken.                                  *)
LEMMA Counted ==
  ASSUME NEW I \in SUBSET Nat, IsFiniteSet(I)
  PROVE  /\ Cardinality(I) \in Nat
         /\ \A i \in I : Cardinality(UpTo(I, i)) \in 1..Cardinality(I)
         /\ \A i, k \in I : Cardinality(UpTo(I, i)) = Cardinality(UpTo(I, k)) => i = k
         /\ \A n \in 1..Cardinality(I) : \E i \in I : Cardinality(UpTo(I, i)) = n
<1> DEFINE N == Cardinality(I)
           f == [i \in I |-> Cardinality(UpTo(I, i))]
<1>1. N \in Nat
  BY FS_CardinalityType
<1>2. ASSUME NEW i \in I PROVE IsFiniteSet(UpTo(I, i)) /\ Cardinality(UpTo(I, i)) \in 1..N
  <2>1. UpTo(I, i) \in SUBSET I /\ i \in UpTo(I, i)
    BY DEF UpTo
  <2>2. IsFiniteSet(UpTo(I, i)) /\ Cardinality(UpTo(I, i)) <= N
    BY <2>1, FS_Subset
  <2>3. Cardinality(UpTo(I, i)) \in Nat /\ Cardinality(UpTo(I, i)) # 0
    BY <2>1, <2>2, FS_CardinalityType, FS_EmptySet
  <2> QED
    BY <1>1, <2>2, <2>3
<1>3. ASSUME NEW i \in I, NEW k \in I, i < k
      PROVE  Cardinality(UpTo(I, i)) # Cardinality(UpTo(I, k))
  <2>1. i \in Nat /\ k \in Nat /\ i < k
    BY <1>3
  <2>2. \A j \in I : j \in Nat /\ (j <= i => j <= k)
    BY <2>1
  <2>3. UpTo(I, i) \in SUBSET UpTo(I, k)
    BY <2>2 DEF UpTo
  <2>4. k \in UpTo(I, k) /\ k \notin UpTo(I, i)
    BY <2>1 DEF UpTo
  <2>5. IsFiniteSet(UpTo(I, k))
    BY <1>2
  <2> QED
    BY <2>3, <2>4, <2>5, FS_Subset
<1>4. \A i, k \in I : f[i] = f[k] => i = k
  <2> SUFFICES ASSUME NEW i \in I, NEW k \in I, i # k PROVE f[i] # f[k]
    OBVIOUS
  <2>1. i < k \/ k < i
    OBVIOUS
  <2>2. Cardinality(UpTo(I, i)) # Cardinality(UpTo(I, k))
    BY <1>3, <2>1
  <2> QED
    BY <2>2
<1>5. f \in Injection(I, 1..N)
  BY <1>2, <1>4 DEF Injection, IsInjective
<1>6. IsFiniteSet(1..N) /\ Cardinality(1..N) = N
  BY <1>1, FS_Interval
<1>7. f \in Surjection(I, 1..N)
  BY <1>5, <1>6, FS_Injection
<1>8. \A n \in 1..N : \E i \in I : f[i] = n
  BY <1>7 DEF Surjection
<1> QED
  BY <1>1, <1>2, <1>4, <1>8

(* What is selected is what was at the positions, once for each.           *)
LEMMA SelectedIs ==
  ASSUME NEW s, NEW I \in SUBSET Nat, IsFiniteSet(I)
  PROVE  /\ Cardinality(I) \in Nat
         /\ DOMAIN Selected(s, I) = 1..Cardinality(I)
         /\ ToSet(Selected(s, I)) = {s[i] : i \in I}
         /\ (\A i, k \in I : s[i] = s[k] => i = k) => IsInjective(Selected(s, I))
<1> DEFINE N == Cardinality(I)
           at(n) == CHOOSE i \in I : Cardinality({j \in I : j <= i}) = n
           t == Selected(s, I)
<1>1. \A n \in 1..N : at(n) \in I /\ Cardinality(UpTo(I, at(n))) = n
  <2> SUFFICES ASSUME NEW n \in 1..N PROVE at(n) \in I /\ Cardinality(UpTo(I, at(n))) = n
    OBVIOUS
  <2>1. \E i \in I : Cardinality({j \in I : j <= i}) = n
    BY Counted DEF UpTo
  <2>2. at(n) \in I /\ Cardinality({j \in I : j <= at(n)}) = n
    BY <2>1
  <2> QED
    BY <2>2 DEF UpTo
<1>2. ASSUME NEW i \in I
      PROVE  Cardinality(UpTo(I, i)) \in 1..N /\ at(Cardinality(UpTo(I, i))) = i
  <2>1. Cardinality(UpTo(I, i)) \in 1..N
    BY Counted
  <2> HIDE DEF at
  <2>2. at(Cardinality(UpTo(I, i))) \in I
        /\ Cardinality(UpTo(I, at(Cardinality(UpTo(I, i))))) = Cardinality(UpTo(I, i))
    BY <1>1, <2>1
  <2>3. \A k \in I : Cardinality(UpTo(I, k)) = Cardinality(UpTo(I, i)) => k = i
    BY Counted
  <2> QED
    BY <2>1, <2>2, <2>3
<1>3. t = [n \in 1..N |-> s[at(n)]]
  BY DEF Selected
<1> HIDE DEF at, t
<1>4. ToSet(t) \subseteq {s[i] : i \in I}
  BY <1>1, <1>3 DEF ToSet
<1>5. ASSUME NEW i \in I PROVE s[i] \in ToSet(t)
  <2>1. t[Cardinality(UpTo(I, i))] = s[i] /\ Cardinality(UpTo(I, i)) \in DOMAIN t
    BY <1>2, <1>3
  <2> QED
    BY <2>1 DEF ToSet
<1>6. ASSUME \A i, k \in I : s[i] = s[k] => i = k PROVE IsInjective(t)
  <2> SUFFICES ASSUME NEW m \in 1..N, NEW n \in 1..N, t[m] = t[n] PROVE m = n
    BY <1>3 DEF IsInjective
  <2>1. at(m) = at(n)
    BY <1>1, <1>3, <1>6
  <2> QED
    BY <1>1, <2>1
<1>7. N \in Nat /\ DOMAIN t = 1..N
  BY Counted, <1>3
<1> QED
  BY <1>4, <1>5, <1>6, <1>7 DEF t

LEMMA SelectedType ==
  ASSUME NEW S, NEW s, NEW I \in SUBSET Nat, IsFiniteSet(I), \A i \in I : s[i] \in S
  PROVE  Selected(s, I) \in Seq(S) /\ Len(Selected(s, I)) = Cardinality(I)
<1> DEFINE t == Selected(s, I)
<1>1. Cardinality(I) \in Nat /\ DOMAIN t = 1..Cardinality(I) /\ ToSet(t) = {s[i] : i \in I}
  BY SelectedIs
<1>2. \A n \in 1..Cardinality(I) : t[n] \in S
  BY <1>1 DEF ToSet
<1>3. t = [n \in 1..Cardinality(I) |-> t[n]]
  BY DEF Selected
<1> HIDE DEF t
<1>4. t \in [1..Cardinality(I) -> S]
  BY <1>2, <1>3
<1>5. t \in Seq(S) /\ Len(t) = Cardinality(I)
  BY <1>1, <1>4
<1> QED
  BY <1>5 DEF t

(* Positions of a sequence are finitely many numbers.                      *)
LEMMA Positions ==
  ASSUME NEW S, NEW s \in Seq(S), NEW I \in SUBSET DOMAIN s
  PROVE  I \in SUBSET Nat /\ IsFiniteSet(I) /\ \A i \in I : s[i] \in S
<1>1. Len(s) \in Nat /\ DOMAIN s = 1..Len(s) /\ \A i \in DOMAIN s : s[i] \in S
  OBVIOUS
<1>2. IsFiniteSet(1..Len(s)) /\ 1..Len(s) \subseteq Nat
  BY <1>1, FS_Interval
<1>3. IsFiniteSet(I)
  BY <1>1, <1>2, FS_Subset
<1> QED
  BY <1>1, <1>2, <1>3

(* Where a sequence is sifted by a set, what is in the set remains.        *)
LEMMA Sifted ==
  ASSUME NEW S, NEW s \in Seq(S), NEW K
  PROVE  LET t == Selected(s, {i \in DOMAIN s : s[i] \in K})
         IN  t \in Seq(S) /\ ToSet(t) = ToSet(s) \cap K
<1> DEFINE I == {i \in DOMAIN s : s[i] \in K}
<1>1. I \in SUBSET Nat /\ IsFiniteSet(I) /\ \A i \in I : s[i] \in S
  BY Positions
<1>2. Selected(s, I) \in Seq(S) /\ ToSet(Selected(s, I)) = {s[i] : i \in I}
  BY <1>1, SelectedType, SelectedIs
<1>3. {s[i] : i \in I} = ToSet(s) \cap K
  BY DEF ToSet
<1> QED
  BY <1>2, <1>3

(* Every element comes somewhere first, and first only once.               *)
LEMMA FirstsAre ==
  ASSUME NEW S, NEW s \in Seq(S)
  PROVE  /\ Firsts(s) \in SUBSET Nat /\ IsFiniteSet(Firsts(s))
         /\ \A i \in Firsts(s) : i \in DOMAIN s /\ s[i] \in S
         /\ {s[i] : i \in Firsts(s)} = ToSet(s)
         /\ \A i, k \in Firsts(s) : s[i] = s[k] => i = k
<1>1. Firsts(s) \in SUBSET DOMAIN s
  BY DEF Firsts
<1>2. Firsts(s) \in SUBSET Nat /\ IsFiniteSet(Firsts(s)) /\ \A i \in Firsts(s) : s[i] \in S
  BY <1>1, Positions
<1>3. DOMAIN s \in SUBSET Nat
  BY Positions
<1>4. ASSUME NEW i \in DOMAIN s PROVE s[i] \in {s[k] : k \in Firsts(s)}
  <2> DEFINE same == {j \in DOMAIN s : s[j] = s[i]}
  <2>1. same \in SUBSET Nat /\ same # {}
    BY <1>3
  <2>2. PICK m \in same : \A n \in same : m <= n
    BY <2>1, Least
  <2>3. \A j \in DOMAIN s : j < m => s[j] # s[m]
    <3> SUFFICES ASSUME NEW j \in DOMAIN s, j < m, s[j] = s[m] PROVE FALSE
      OBVIOUS
    <3>1. m <= j /\ m \in Nat /\ j \in Nat
      BY <1>3, <2>2
    <3> QED
      BY <3>1
  <2> QED
    BY <2>3 DEF Firsts
<1>5. \A i, k \in Firsts(s) : s[i] = s[k] => i = k
  <2> SUFFICES ASSUME NEW i \in Firsts(s), NEW k \in Firsts(s), i # k PROVE s[i] # s[k]
    OBVIOUS
  <2>1. i \in Nat /\ k \in Nat
    BY <1>2
  <2>2. CASE i < k
    BY <2>2 DEF Firsts
  <2>3. CASE k < i
    BY <2>3 DEF Firsts
  <2> QED
    BY <2>1, <2>2, <2>3
<1>6. {s[i] : i \in Firsts(s)} = ToSet(s)
  BY <1>1, <1>4 DEF ToSet
<1> QED
  BY <1>1, <1>2, <1>5, <1>6

LEMMA DistinctIs ==
  ASSUME NEW S, NEW s \in Seq(S)
  PROVE  /\ Distinct(s) \in Seq(S)
         /\ ToSet(Distinct(s)) = ToSet(s)
         /\ IsInjective(Distinct(s))
<1> DEFINE I == Firsts(s)
<1>1. I \in SUBSET Nat /\ IsFiniteSet(I) /\ \A i \in I : s[i] \in S
  BY FirstsAre
<1>2. {s[i] : i \in I} = ToSet(s) /\ \A i, k \in I : s[i] = s[k] => i = k
  BY FirstsAre
<1> HIDE DEF I
<1>3. Selected(s, I) \in Seq(S)
  BY <1>1, SelectedType
<1>4. ToSet(Selected(s, I)) = ToSet(s) /\ IsInjective(Selected(s, I))
  BY <1>1, <1>2, SelectedIs
<1> QED
  BY <1>3, <1>4 DEF Distinct, I

LEMMA EmptyIs ==
  ASSUME NEW S, NEW s \in Seq(S)
  PROVE  s = <<>> <=> ToSet(s) = {}
<1>1. CASE s = <<>>
  BY <1>1 DEF ToSet
<1>2. CASE s # <<>>
  <2>1. 1 \in DOMAIN s
    BY <1>2
  <2> QED
    BY <1>2, <2>1 DEF ToSet
<1> QED
  BY <1>1, <1>2

-----------------------------------------------------------------------------
(* The rows of a store and the partial paths they stand for.               *)

(* The row entry f of some certificates is the path p.                     *)
StandsFor(f, certs, p) ==
  /\ f.key = KeyId[p[Len(p)]]
  /\ f.path \in [1..Len(p) -> DOMAIN certs]
  /\ \A i \in 1..Len(p) : certs[f.path[i]] = p[i]

LEMMA RowsAre ==
  ASSUME NEW A, NEW certs \in Seq(Certs)
  PROVE  /\ DOMAIN RowsOf(A, certs) = 1..MaxDepth
         /\ \A p \in PartialPaths(A, ToSet(certs)) :
              \E f \in RowsOf(A, certs)[Len(p)] : StandsFor(f, certs, p)
         /\ \A n \in 1..MaxDepth : \A f \in RowsOf(A, certs)[n] :
              \E p \in PartialPaths(A, ToSet(certs)) : Len(p) = n /\ StandsFor(f, certs, p)
<1> DEFINE K == ToSet(certs)
           at(c) == CHOOSE i \in DOMAIN certs : certs[i] = c
           position == [c \in K |-> at(c)]
           rows == RowsOf(A, certs)
           row(p, n) == [key |-> KeyId[p[n]], path |-> [i \in 1..n |-> position[p[i]]]]
<1>1. rows = [n \in 1..MaxDepth |-> {row(p, n) : p \in {q \in PartialPaths(A, K) : Len(q) = n}}]
  BY DEF RowsOf
<1>2. ASSUME NEW c \in K PROVE position[c] \in DOMAIN certs /\ certs[position[c]] = c
  <2>1. \E i \in DOMAIN certs : certs[i] = c
    BY DEF ToSet
  <2>2. at(c) \in DOMAIN certs /\ certs[at(c)] = c
    BY <2>1
  <2> QED
    BY <2>2
<1> HIDE DEF position, at
<1>3. ASSUME NEW p \in PartialPaths(A, K)
      PROVE  Len(p) \in 1..MaxDepth /\ StandsFor(row(p, Len(p)), certs, p)
  <2>1. PICK n \in 1..MaxDepth : p \in [1..n -> K] /\ Len(p) = n
    BY PathShape
  <2>2. \A i \in 1..n : position[p[i]] \in DOMAIN certs /\ certs[position[p[i]]] = p[i]
    BY <1>2, <2>1
  <2>3. [i \in 1..n |-> position[p[i]]] \in [1..n -> DOMAIN certs]
    BY <2>2
  <2> QED
    BY <2>1, <2>2, <2>3 DEF StandsFor
<1>4. ASSUME NEW p \in PartialPaths(A, K)
      PROVE  row(p, Len(p)) \in rows[Len(p)]
  BY <1>1, <1>3
<1>5. ASSUME NEW n \in 1..MaxDepth, NEW f \in rows[n]
      PROVE  \E p \in PartialPaths(A, K) : Len(p) = n /\ StandsFor(f, certs, p)
  <2>1. PICK p \in PartialPaths(A, K) : Len(p) = n /\ f = row(p, n)
    BY <1>1
  <2> QED
    BY <1>3, <2>1
<1>6. DOMAIN rows = 1..MaxDepth
  BY <1>1
<1> QED
  BY <1>3, <1>4, <1>5, <1>6

-----------------------------------------------------------------------------
(* A generated store, and an environment of its entry alone.               *)

LEMMA GeneratedIs ==
  ASSUME NEW A, NEW cas \in Seq(Certs), cas # <<>>
  PROVE  LET store == Generate(A, cas) IN
         /\ store # NoStore /\ store # Unreadable
         /\ store.buffers \in Seq(Certs) /\ store.buffers # <<>>
         /\ ToSet(store.buffers) = ToSet(cas) /\ IsInjective(store.buffers)
         /\ store.rows = RowsOf(A, store.buffers)
         /\ Carried(store) = ToSet(cas)
<1> DEFINE store == Generate(A, cas)
           certs == Distinct(cas)
           rows == RowsOf(A, certs)
<1>1. certs \in Seq(Certs) /\ ToSet(certs) = ToSet(cas) /\ IsInjective(certs)
  BY DistinctIs
<1>2. certs # <<>>
  BY <1>1, EmptyIs
<1>3. store = [buffers |-> certs, rows |-> rows]
  BY DEF Generate
<1> HIDE DEF certs, rows
<1>4. "buffers" \in DOMAIN store
  BY <1>3
<1> HIDE DEF store
<1>5. store.buffers = certs /\ store.rows = rows
  BY <1>3
<1>6. store # NoStore /\ store # Unreadable
  BY <1>4 DEF NoStore, Unreadable
<1>7. Carried(store) = ToSet(cas)
  BY <1>1, <1>5, <1>6 DEF Carried
<1> QED
  BY <1>1, <1>2, <1>5, <1>6, <1>7 DEF store, rows

LEMMA NothingGenerated ==
  ASSUME NEW A
  PROVE  Generate(A, <<>>) = NoStore /\ Carried(NoStore) = {}
BY DEF Generate, Carried

Alone(A, store) == [anchors |-> A, sources |-> {Load(store, NoTime)}]

(* Every path over the generated intermediates is in that environment.     *)
LEMMA PathsAreServed ==
  ASSUME NEW A, NEW cas \in Seq(Certs), cas # <<>>, ToSet(cas) \subseteq Decodes, NEW c
  PROVE  PathsTo(A, ToSet(cas), c) \subseteq PathsIn(Alone(A, Generate(A, cas)), c)
<1> DEFINE K == ToSet(cas)
           store == Generate(A, cas)
           certs == store.buffers
           s == Load(store, NoTime)
           env == Alone(A, store)
<1>1. certs \in Seq(Certs) /\ ToSet(certs) = K /\ store.rows = RowsOf(A, certs)
  BY GeneratedIs
<1> HIDE DEF store
<1>2. s.store = store /\ s.present = DOMAIN certs
  BY <1>1 DEF Load, ToSet
<1>3. env.anchors = A /\ env.sources = {s}
  BY DEF Alone
<1> HIDE DEF s, env
<1> DEFINE found(x) ==
             {f \in UNION {x.store.rows[n] : n \in DOMAIN x.store.rows} :
                /\ f.key = AuthorityKeyId[c]
                /\ ToSet(f.path) \subseteq x.present
                /\ Anchored(env.anchors, x.store.buffers[f.path[1]])
                /\ Subject[x.store.buffers[Last(f.path)]] = Issuer[c]}
           built(x, f) == Append([i \in DOMAIN f.path |-> x.store.buffers[f.path[i]]], c)
<1>4. PathsIn(env, c) = {<<c>> : a \in {b \in Usable(A) : IssuedBy(b, c)}}
                        \cup {built(s, f) : f \in found(s)}
  BY <1>3 DEF PathsIn
<1>5. ASSUME NEW p \in PartialPaths(A, K), IssuedBy(p[Len(p)], c)
      PROVE  Append(p, c) \in PathsIn(env, c)
  <2>1. PICK n \in 1..MaxDepth : p \in [1..n -> K] /\ DOMAIN p = 1..n /\ Len(p) = n
    BY PathShape
  <2>2. n \in Nat /\ 1 \in 1..n /\ n \in 1..n
    BY CertAssumption DEF CertAssumption
  <2>3. PICK f \in store.rows[n] : StandsFor(f, certs, p)
    BY <1>1, <2>1, RowsAre
  <2>4. n \in DOMAIN store.rows
    BY <1>1, RowsAre
  <2>5. /\ f.path \in [1..n -> DOMAIN certs] /\ DOMAIN f.path = 1..n
        /\ \A i \in 1..n : certs[f.path[i]] = p[i]
        /\ f.key = KeyId[p[n]]
    BY <2>1, <2>3 DEF StandsFor
  <2>6. Last(f.path) = f.path[n]
    BY <2>2, <2>5 DEF Last
  <2>7. Anchored(A, p[1]) /\ Subject[p[n]] = Issuer[c] /\ KeyId[p[n]] = AuthorityKeyId[c]
    BY <1>5, <2>1 DEF PartialPaths, Leads, IssuedBy
  <2>8. ToSet(f.path) \subseteq s.present
    BY <1>2, <2>5 DEF ToSet
  <2>9. f \in found(s)
    BY <1>2, <1>3, <2>2, <2>4, <2>5, <2>6, <2>7, <2>8
  <2>10. [i \in DOMAIN f.path |-> s.store.buffers[f.path[i]]] = p
    BY <1>2, <2>1, <2>5
  <2>11. built(s, f) = Append(p, c)
    BY <2>10
  <2> QED
    BY <1>4, <2>9, <2>11
<1>6. PathsTo(A, K, c) \subseteq PathsIn(env, c)
  BY <1>4, <1>5 DEF PathsTo
<1> QED
  BY <1>6 DEF env, store

LEMMA TimeApart ==
  ASSUME NEW A, NEW p, NEW time, Validates(A, p, time)
  PROVE  Validates(A, p, NoTime)
BY DEF Validates

-----------------------------------------------------------------------------
(* The checks, one by one, of an entry made of A and of intermediates that *)
(* validate at a time and lie in a path.                                   *)

AllValidate(A, K, time) == \A c \in K : CanValidate(A, K, time, c) /\ InAPath(A, K, c)

Made(e, A, cas, time) ==
  /\ cas \in Seq(Certs) /\ cas # <<>>
  /\ e.store = Generate(A, cas)
  /\ IsFiniteSet(DOMAIN e.roots) /\ DOMAIN e.roots # {}
  /\ IsInjective(e.roots) /\ Range(e.roots) = A
  /\ A \subseteq Anchoring \cap TlsReads
  /\ NoDate \notin {e.published, e.collected} => e.published <= e.collected
  /\ AllValidate(A, ToSet(cas), time)

LEMMA MadeAlone ==
  ASSUME NEW e, NEW A, NEW cas, NEW time, Made(e, A, cas, time)
  PROVE  /\ Carried(e.store) = ToSet(cas) /\ ToSet(cas) \subseteq Decodes
         /\ CarriesStore(e) /\ Reads(e)
         /\ EnvOf(e, NoTime) = Alone(A, e.store)
<1>1. e.store # NoStore /\ e.store # Unreadable /\ Carried(e.store) = ToSet(cas)
  BY GeneratedIs DEF Made
<1>2. CarriesStore(e) /\ Reads(e)
  BY <1>1 DEF CarriesStore, Reads
<1>3. ToSet(cas) \subseteq Decodes
  BY DEF Made, AllValidate, CanValidate
<1>4. RootsAmong(<<e>>, {1}) = A
  BY DEF RootsAmong, Made
<1>5. StoresAmong(<<e>>, {1}) = {1}
  BY <1>2 DEF StoresAmong
<1>6. SourcesAmong(<<e>>, {1}, NoTime) = {Load(e.store, NoTime)}
  BY <1>2, <1>5 DEF SourcesAmong
<1>7. EnvOf(e, NoTime) = Alone(A, e.store)
  BY <1>4, <1>6 DEF EnvOf, Adds, EmptyEnv, Alone
<1> QED
  BY <1>1, <1>2, <1>3, <1>7

LEMMA MadeShape ==
  ASSUME NEW e, NEW A, NEW cas, NEW time, Made(e, A, cas, time)
  PROVE  EntryShape(<<e>>) /\ Connects(<<e>>)
<1>1. DOMAIN <<e>> = {1} /\ <<e>>[1] = e
  OBVIOUS
<1>2. EntryShape(<<e>>)
  BY <1>1 DEF EntryShape, Made
<1>3. Connects(<<e>>)
  BY <1>1 DEF Connects, ClientBuilds, Matching
<1> QED
  BY <1>2, <1>3

LEMMA MadeRoots ==
  ASSUME NEW e, NEW A, NEW cas, NEW time, Made(e, A, cas, time)
  PROVE  RootsParse(e) /\ (A \subseteq Usable(A) => AnchorsUsable(e))
<1>1. Range(e.roots) = A /\ A \subseteq Anchoring /\ A \subseteq TlsReads /\ A # {}
  BY DEF Made, Range
<1>2. A \cap WithCertificate # {}
  BY <1>1, StoresAssumption DEF StoresAssumption
<1> QED
  BY <1>1, <1>2 DEF RootsParse, AnchorsUsable, Made

LEMMA MadeLoads ==
  ASSUME NEW e, NEW A, NEW cas, NEW time, Made(e, A, cas, time)
  PROVE  StoreLoads(e)
<1>1. cas \in Seq(Certs) /\ cas # <<>> /\ e.store = Generate(A, cas)
  BY DEF Made
<1>2. e.store.buffers # <<>> /\ ToSet(e.store.buffers) = ToSet(cas)
  BY <1>1, GeneratedIs
<1> QED
  BY <1>2, MadeAlone DEF StoreLoads

LEMMA MadeRows ==
  ASSUME NEW e, NEW A, NEW cas, NEW time, Made(e, A, cas, time)
  PROVE  PartialPathsHold(e)
<1> DEFINE K == ToSet(cas)
           certs == e.store.buffers
           rows == e.store.rows
           entries == UNION {{<<n, f>> : f \in rows[n]} : n \in DOMAIN rows}
<1>1. /\ certs \in Seq(Certs) /\ IsInjective(certs) /\ ToSet(certs) = K
      /\ rows = RowsOf(A, certs)
  BY GeneratedIs DEF Made
<1>2. ASSUME NEW x \in entries
      PROVE  \E p \in PartialPaths(A, K) :
               /\ Len(p) = x[1] /\ x[1] \in Nat /\ x[1] \in 1..x[1] /\ 1 \in 1..x[1]
               /\ StandsFor(x[2], certs, p)
  <2>1. PICK n \in DOMAIN rows : \E f \in rows[n] : x = <<n, f>>
    OBVIOUS
  <2>2. PICK f \in rows[n] : x = <<n, f>>
    BY <2>1
  <2>3. DOMAIN rows = 1..MaxDepth
    BY <1>1, RowsAre
  <2>4. \E p \in PartialPaths(A, K) : Len(p) = n /\ StandsFor(f, certs, p)
    BY <1>1, <2>2, <2>3, RowsAre
  <2>5. n \in Nat /\ n \in 1..n /\ 1 \in 1..n
    BY <2>3, CertAssumption DEF CertAssumption
  <2> QED
    BY <2>2, <2>4, <2>5
<1>3. ASSUME NEW i \in DOMAIN certs PROVE i \in UNION {ToSet(x[2].path) : x \in entries}
  <2>1. certs[i] \in K
    BY <1>1 DEF ToSet
  <2>2. PICK p \in PartialPaths(A, K) : \E j \in DOMAIN p : p[j] = certs[i]
    BY <2>1 DEF Made, AllValidate, InAPath
  <2>3. PICK j \in DOMAIN p : p[j] = certs[i]
    BY <2>2
  <2>4. PICK n \in 1..MaxDepth : DOMAIN p = 1..n /\ Len(p) = n
    BY PathShape
  <2>5. PICK f \in rows[n] : StandsFor(f, certs, p)
    BY <1>1, <2>4, RowsAre
  <2>6. f.path \in [1..n -> DOMAIN certs] /\ certs[f.path[j]] = p[j] /\ j \in 1..n
    BY <2>3, <2>4, <2>5 DEF StandsFor
  <2>7. f.path[j] = i /\ i \in ToSet(f.path)
    BY <1>1, <2>3, <2>6 DEF IsInjective, ToSet
  <2>8. n \in DOMAIN rows
    BY <1>1, RowsAre
  <2>9. <<n, f>> \in entries
    BY <2>5, <2>8
  <2> HIDE DEF entries
  <2>10. ToSet(<<n, f>>[2].path) \in {ToSet(x[2].path) : x \in entries}
    BY <2>9
  <2> QED
    BY <2>7, <2>10
<1> HIDE DEF entries
<1>4. ASSUME NEW x \in entries PROVE ToSet(x[2].path) \subseteq DOMAIN certs
  <2>1. PICK p \in PartialPaths(A, K) : StandsFor(x[2], certs, p)
    BY <1>2
  <2>2. x[2].path \in [1..Len(p) -> DOMAIN certs]
    BY <2>1 DEF StandsFor
  <2> QED
    BY <2>2 DEF ToSet
<1>5. DOMAIN certs = UNION {ToSet(x[2].path) : x \in entries}
  BY <1>3, <1>4
<1>6. ASSUME NEW x \in entries
      PROVE  /\ Len(x[2].path) = x[1]
             /\ certs[Last(x[2].path)] \in Decodes => KeyId[certs[Last(x[2].path)]] = x[2].key
             /\ certs[x[2].path[1]] \in Decodes =>
                  \E r \in Range(e.roots) \cap Decodes :
                    Subject[r] = Issuer[certs[x[2].path[1]]]
  <2> DEFINE n == x[1]
             f == x[2]
  <2>1. PICK p \in PartialPaths(A, K) :
               /\ Len(p) = n /\ n \in Nat /\ n \in 1..n /\ 1 \in 1..n
               /\ StandsFor(f, certs, p)
    BY <1>2
  <2>2. /\ f.path \in [1..n -> DOMAIN certs] /\ f.key = KeyId[p[n]]
        /\ \A i \in 1..n : certs[f.path[i]] = p[i]
    BY <2>1 DEF StandsFor
  <2>3. Len(f.path) = n /\ Last(f.path) = f.path[n]
    BY <2>1, <2>2 DEF Last
  <2>4. PICK a \in Usable(A) : IssuedBy(a, p[1])
    BY DEF PartialPaths, Leads, Anchored
  <2>5. Range(e.roots) = A /\ A \subseteq TlsReads
    BY DEF Made
  <2>6. a \in Range(e.roots) \cap Decodes
    BY <2>4, <2>5, StoresAssumption DEF Usable, StoresAssumption
  <2>7. certs[Last(f.path)] = p[n] /\ certs[f.path[1]] = p[1]
    BY <2>1, <2>2, <2>3
  <2>8. Subject[a] = Issuer[p[1]]
    BY <2>4 DEF IssuedBy
  <2> QED
    BY <2>2, <2>3, <2>6, <2>7, <2>8
<1> QED
  BY <1>5, <1>6 DEF PartialPathsHold, entries

LEMMA MadePaths ==
  ASSUME NEW e, NEW A, NEW cas, NEW time, Made(e, A, cas, time)
  PROVE  PathsBuild(e) /\ PathsValidate(e)
<1> DEFINE K == ToSet(cas)
           env == EnvOf(e, NoTime)
<1>1. Carried(e.store) = K /\ env = Alone(A, e.store) /\ K \subseteq Decodes
  BY MadeAlone
<1>2. cas \in Seq(Certs) /\ cas # <<>> /\ e.store = Generate(A, cas)
  BY DEF Made
<1>3. env.anchors = A
  BY <1>1 DEF Alone
<1>4. ASSUME NEW c \in K
      PROVE  \E p \in PathsIn(env, c) : Validates(A, p, NoTime)
  <2>1. PICK p \in PathsTo(A, K, c) : Validates(A, p, time)
    BY DEF Made, AllValidate, CanValidate
  <2>2. p \in PathsIn(env, c)
    BY <1>1, <1>2, PathsAreServed
  <2> QED
    BY <2>1, <2>2, TimeApart
<1> HIDE DEF env
<1>5. PathsBuild(e)
  BY <1>1, <1>4 DEF PathsBuild, env
<1>6. PathsValidate(e)
  BY <1>1, <1>3, <1>4 DEF PathsValidate, env
<1> QED
  BY <1>5, <1>6

LEMMA MadePrepares ==
  ASSUME NEW e, NEW A, NEW cas, NEW time, Made(e, A, cas, time), NEW day
  PROVE  Prepares(<<e>>, day)
<1>1. DOMAIN <<e>> = {1} /\ <<e>>[1] = e
  OBVIOUS
<1>2. Matching(<<e>>, e.id) = {1} /\ Accepts(<<e>>, e.id)
  BY <1>1, MadeAlone DEF Matching, Accepts
<1>3. RootsAmong(<<e>>, {1}) = A
  BY DEF RootsAmong, Made
<1>4. Prepare(EmptyEnv, <<e>>, e.id, day).anchors = A
  BY <1>2, <1>3 DEF Prepare, Adds, EmptyEnv
<1> DEFINE f == [x \in DOMAIN e.roots |-> e.roots[x]]
<1>5. f \in Bijection(DOMAIN e.roots, A)
  BY DEF Made, Range, IsInjective, Bijection, Injection, Surjection
<1>6. Cardinality(A) = Cardinality(DOMAIN e.roots)
  BY <1>5, FS_Bijection DEF ExistsBijection, Made
<1> QED
  BY <1>1, <1>2, <1>4, <1>6 DEF Prepares

(* Material whose anchors are usable, distinct and read by TLS clients,    *)
(* and whose intermediates each validate and lie in a partial path, makes  *)
(* an entry that every shared check passes on every day: what generate     *)
(* writes is what conformance.rs asks for, path by path (core.rs:77).      *)
THEOREM GeneratedConforms ==
  ASSUME NEW e, NEW A, NEW cas, NEW time, Made(e, A, cas, time), A \subseteq Usable(A), NEW day
  PROVE  Conformant(<<e>>, day) /\ PathsValidate(e)
<1>1. DOMAIN <<e>> = {1} /\ <<e>>[1] = e
  OBVIOUS
<1>2. EntryShape(<<e>>) /\ Connects(<<e>>) /\ Prepares(<<e>>, day)
  BY MadeShape, MadePrepares
<1>3. RootsParse(e) /\ AnchorsUsable(e) /\ StoreLoads(e) /\ PartialPathsHold(e)
  BY MadeRoots, MadeLoads, MadeRows
<1>4. PathsBuild(e) /\ PathsValidate(e)
  BY MadePaths
<1> QED
  BY <1>1, <1>2, <1>3, <1>4 DEF Conformant
=============================================================================
