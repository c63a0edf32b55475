------------------------------ MODULE Stores ------------------------------
(***************************************************************************)
(* The stores core.rs generates, the entries providers carry them in, and  *)
(* what certval_stores_core makes of entries for a consumer: a certval     *)
(* environment, a serialized store, a TLS client.  The roots of an entry   *)
(* are a function from the embedded files to what is in them.              *)
(*                                                                         *)
(* A store is its certificates and its partial paths: row n holds those of *)
(* n certificates, as positions, each filed under a key identifier.        *)
(***************************************************************************)
EXTENDS CertPaths, SequencesExt

CONSTANTS
  WithCertificate, \* trust anchors that hold a certificate, in any form
  TlsReads,        \* those whose bytes reqwest takes for a certificate
  Ids              \* store ids

ASSUME StoresAssumption ==
  /\ WithCertificate \subseteq Anchoring
  /\ TlsReads \subseteq Decodes
  /\ Decodes \cap Anchoring \subseteq WithCertificate

(* An entry without CA store, and CA store bytes that do not decode.       *)
NoStore == [carries |-> FALSE]
Unreadable == [decodes |-> FALSE]

(* The elements of a sequence at some positions, in their order.           *)
Selected(s, I) ==
  [k \in 1..Cardinality(I) |-> s[CHOOSE i \in I : Cardinality({j \in I : j <= i}) = k]]

(* CertVector::push after contains: every certificate where it comes first.*)
Firsts(certs) == {i \in DOMAIN certs : \A j \in DOMAIN certs : j < i => certs[j] # certs[i]}
Distinct(certs) == Selected(certs, Firsts(certs))

(* find_all_partial_paths, serialized.                                     *)
RowsOf(A, certs) ==
  LET position == [c \in ToSet(certs) |-> CHOOSE i \in DOMAIN certs : certs[i] = c]
      paths == PartialPaths(A, ToSet(certs))
  IN  [n \in 1..MaxDepth |->
         {[key |-> KeyId[p[n]], path |-> [i \in 1..n |-> position[p[i]]]] :
            p \in {q \in paths : Len(q) = n}}]

(* generate refuses material without anchors; without intermediates there  *)
(* is no CA store.                                                         *)
CanGenerate(anchors) == anchors # <<>>

Generate(A, cas) ==
  IF cas = <<>> THEN NoStore
  ELSE [buffers |-> Distinct(cas), rows |-> RowsOf(A, Distinct(cas))]

Carried(store) == IF store = NoStore THEN {} ELSE ToSet(store.buffers)

-----------------------------------------------------------------------------
(* Entries and environments.                                               *)

Reads(entry) == entry.store # Unreadable
CarriesStore(entry) == entry.store # NoStore

(* CertSource::initialize: what does not decode, or is not valid at the    *)
(* time of interest, stays in its place and is not seen.                   *)
Load(store, time) ==
  [store |-> store,
   present |-> {i \in DOMAIN store.buffers :
                  /\ store.buffers[i] \in Decodes
                  /\ time # NoTime => time \in Validity[store.buffers[i]]}]

EmptyEnv == [anchors |-> {}, sources |-> {}]

Present(source) == {source.store.buffers[i] : i \in source.present}

(* get_paths_for_target over an environment: the serialized paths filed    *)
(* under c's authority key identifier that one of the anchors starts.      *)
PathsIn(env, c) ==
  {<<c>> : a \in {b \in Usable(env.anchors) : IssuedBy(b, c)}} \cup
  UNION {
    {Append([i \in DOMAIN e.path |-> s.store.buffers[e.path[i]]], c) :
       e \in {f \in UNION {s.store.rows[n] : n \in DOMAIN s.store.rows} :
                /\ f.key = AuthorityKeyId[c]
                /\ ToSet(f.path) \subseteq s.present
                /\ Anchored(env.anchors, s.store.buffers[f.path[1]])
                /\ Subject[s.store.buffers[Last(f.path)]] = Issuer[c]}} :
    s \in env.sources}

(* The entries of an id, and what a set of entries holds.                  *)
Matching(entries, id) == {i \in DOMAIN entries : entries[i].id = id}

RootsAmong(entries, I) == UNION {Range(entries[i].roots) : i \in I}
RootsOf(entries) == RootsAmong(entries, DOMAIN entries)

StoresAmong(entries, I) == {i \in I : CarriesStore(entries[i])}

SourcesAmong(entries, I, time) ==
  {Load(entries[i].store, time) : i \in {j \in StoresAmong(entries, I) : Reads(entries[j])}}

Adds(env, entries, I, time) ==
  [anchors |-> env.anchors \cup RootsAmong(entries, I),
   sources |-> env.sources \cup SourcesAmong(entries, I, time)]

(* Wrong version: what loads is added on the way.                          *)
PrepareEagerly(env, entries, id, time) ==
  LET M == Matching(entries, id)
  IN  Adds(env, entries, {i \in M : \A j \in M : j <= i => Reads(entries[j])}, time)

(* prepare_certval_environment: an error leaves the environment as it was. *)
Accepts(entries, id) ==
  Matching(entries, id) # {} /\ \A i \in Matching(entries, id) : Reads(entries[i])

Prepare(env, entries, id, time) ==
  IF Accepts(entries, id) THEN Adds(env, entries, Matching(entries, id), time) ELSE env

-----------------------------------------------------------------------------
(* get_roots skips what is no TrustAnchorChoice.                           *)
GetRoots(entries) == RootsOf(entries) \cap Anchoring

(* Wrong version: of two CA stores one is taken.                           *)
SerializesAnyOne(entries, id) == Matching(entries, id) # {}

(* serialize_environment: anchors once each, and one CA store at most,     *)
(* passed on unread.                                                       *)
Serializes(entries, id) ==
  /\ Matching(entries, id) # {}
  /\ \A i, j \in StoresAmong(entries, Matching(entries, id)) : i = j

Serialize(entries, id) ==
  LET M == Matching(entries, id) IN
  [ta |-> RootsAmong(entries, M),
   ca |-> IF StoresAmong(entries, M) = {} THEN NoStore
          ELSE entries[CHOOSE i \in StoresAmong(entries, M) : TRUE].store]

(* A consumer loads the two files back.                                    *)
LoadBack(serialized, time) ==
  [anchors |-> serialized.ta,
   sources |-> IF serialized.ca = NoStore THEN {} ELSE {Load(serialized.ca, time)}]

(* get_reqwest_client: ids must name stores there are, and the client      *)
(* trusts those stores' roots that reqwest reads, and nothing else.        *)
ClientBuilds(entries, ids) ==
  /\ ids # {}
  /\ \A id \in ids : Matching(entries, id) # {}

ClientTrusts(entries, ids) ==
  RootsAmong(entries, UNION {Matching(entries, id) : id \in ids})
    \cap Anchoring \cap WithCertificate \cap TlsReads
=============================================================================
