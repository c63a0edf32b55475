---------------------------- MODULE Conformance ----------------------------
(***************************************************************************)
(* conformance.rs of certval_stores_core: what the tests of every provider *)
(* crate check of its entries, and of the files beside them.               *)
(*                                                                         *)
(* An entry is [id, roots, store, published, collected]; its label and the *)
(* spelling of its id are left out.  Time plays no part except in          *)
(* prepare_certval_environment, which loads as of now.                     *)
(***************************************************************************)
EXTENDS Stores

NoDate == 0

(* check_entry_shape                                                       *)
EntryShape(entries) ==
  /\ \A i, j \in DOMAIN entries : entries[i].id = entries[j].id => i = j
  /\ \A i \in DOMAIN entries :
       /\ DOMAIN entries[i].roots # {}
       /\ NoDate \notin {entries[i].published, entries[i].collected} =>
            entries[i].published <= entries[i].collected

(* check_roots_parse                                                       *)
RootsParse(e) ==
  /\ Range(e.roots) \subseteq Anchoring
  /\ Range(e.roots) \cap Decodes \subseteq TlsReads
  /\ IsInjective(e.roots)
  /\ Range(e.roots) \cap WithCertificate # {}

(* check_cert_stores_load                                                  *)
StoreLoads(e) ==
  CarriesStore(e) =>
    /\ Reads(e)
    /\ e.store.buffers # <<>>
    /\ ToSet(e.store.buffers) \subseteq Decodes

(* check_partial_paths                                                     *)
PartialPathsHold(e) ==
  CarriesStore(e) /\ Reads(e) =>
    LET at(i) == e.store.buffers[i]
        rows == UNION {{<<n, f>> : f \in e.store.rows[n]} : n \in DOMAIN e.store.rows}
    IN  /\ DOMAIN e.store.buffers =
             UNION {ToSet(x[2].path) : x \in rows}
        /\ \A x \in rows :
             /\ Len(x[2].path) = x[1]
             /\ at(Last(x[2].path)) \in Decodes => KeyId[at(Last(x[2].path))] = x[2].key
             /\ at(x[2].path[1]) \in Decodes =>
                  \E r \in Range(e.roots) \cap Decodes : Subject[r] = Issuer[at(x[2].path[1])]

(* environment_for: the entry alone, no time of interest.                  *)
EnvOf(e, time) == Adds(EmptyEnv, <<e>>, {1}, time)

(* check_anchors_are_usable                                                *)
AnchorsUsable(e) ==
  Reads(e) => Range(e.roots) \cap Anchoring \subseteq Usable(Range(e.roots))

(* check_paths_build                                                       *)
PathsBuild(e) ==
  CarriesStore(e) /\ Reads(e) =>
    \A c \in Carried(e.store) \cap Decodes : PathsIn(EnvOf(e, NoTime), c) # {}

(* check_paths_validate, with structural_validation_settings               *)
PathsValidate(e) ==
  CarriesStore(e) /\ Reads(e) =>
    LET env == EnvOf(e, NoTime) IN
    \A c \in Carried(e.store) \cap Decodes :
      PathsIn(env, c) # {} =>
        \E p \in PathsIn(env, c) : Validates(env.anchors, p, NoTime)

(* check_prepare_environment                                               *)
Prepares(entries, time) ==
  \A i \in DOMAIN entries :
    /\ Accepts(entries, entries[i].id)
    /\ Cardinality(Prepare(EmptyEnv, entries, entries[i].id, time).anchors) = Cardinality(DOMAIN entries[i].roots)

(* check_client_builds                                                     *)
Connects(entries) ==
  entries # <<>> => ClientBuilds(entries, {entries[i].id : i \in DOMAIN entries})

(* conformance_failures is empty.                                          *)
Conformant(entries, time) ==
  /\ EntryShape(entries)
  /\ \A i \in DOMAIN entries :
       /\ RootsParse(entries[i])
       /\ StoreLoads(entries[i])
       /\ PartialPathsHold(entries[i])
       /\ AnchorsUsable(entries[i])
       /\ PathsBuild(entries[i])
  /\ Prepares(entries, time)
  /\ Connects(entries)

-----------------------------------------------------------------------------
(* check_providers_compose                                                 *)

(* Wrong version: anchors are told apart by name and key identifier.       *)
KeyIdsAgreeByName(A) ==
  \A a, b \in {r \in A \cap Anchoring : KeyId[r] # NoKeyId} :
    KeyId[a] = KeyId[b] /\ Subject[a] = Subject[b] => Key[a] = Key[b]

KeyIdsAgree(A) ==
  \A a, b \in {r \in A \cap Anchoring : KeyId[r] # NoKeyId} :
    KeyId[a] = KeyId[b] => Key[a] = Key[b]

IdsApart(providers) ==
  \A p, q \in DOMAIN providers : p # q =>
    \A i \in DOMAIN providers[p], j \in DOMAIN providers[q] :
      providers[p][i].id # providers[q][j].id

Compose(providers) ==
  /\ IdsApart(providers)
  /\ KeyIdsAgree(UNION {RootsOf(providers[p]) : p \in DOMAIN providers})

-----------------------------------------------------------------------------
(* The files beside a store.  A directory is a set of <<name, bytes>>.     *)

CertsIn(dir) == {file[2] : file \in dir}

(* check_root_inputs and check_generator_inputs                            *)
RootInputs(dir, roots) == CertsIn(dir) = Range(roots)
GeneratorInputs(dir, store) == store # Unreadable /\ CertsIn(dir) = Carried(store)

(* set_digest tells sets apart; a count tells only their sizes apart.      *)
SetDigest(certs) == certs
=============================================================================
