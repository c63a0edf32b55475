------------------------ MODULE ProviderStore_proofs ------------------------
(***************************************************************************)
(* For every crate, publisher and other provider: what a consumer's        *)
(* environment holds, what a merge shows, the shape of the trees, and what *)
(* a run that finished leaves behind, wherever the runs before it died.    *)
(***************************************************************************)
EXTENDS ProviderStore, Conformance_proofs

-----------------------------------------------------------------------------
(* The pins of what is merged are those of the files merged with them.     *)

Fields == {"input", "roots", "module", "store", "cas", "published", "collected", "pins"}

PinsInv ==
  /\ DOMAIN tree = Fields /\ DOMAIN head = Fields
  /\ head.pins = PinsOf(setting.kind, head)

(* What the tests pin does not depend on the pinned constants.             *)
LEMMA PinsKept ==
  ASSUME NEW kind, NEW t, DOMAIN t = Fields, NEW pins
  PROVE  PinsOf(kind, [t EXCEPT !.pins = pins]) = PinsOf(kind, t)
<1> DEFINE u == [t EXCEPT !.pins = pins]
<1>1. u.roots = t.roots /\ u.module = t.module /\ u.store = t.store
  BY DEF Fields
<1>2. Embedded(u) = Embedded(t)
  BY <1>1 DEF Embedded
<1> QED
  BY <1>1, <1>2 DEF PinsOf, RootPin, CaPin

LEMMA PinsAtFirst ==
  ASSUME NEW kind
  PROVE  /\ DOMAIN Initial(kind) = Fields
         /\ Initial(kind).pins = PinsOf(kind, Initial(kind))
<1> DEFINE r == Releases[1]
           roots == WriteDer({}, AnchorFiles(kind, r), {}, TRUE)
           store == StoreFor(kind, r, ToSet(r.anchors), 1)
           cas == IF kind = "stream" THEN WriteDer({}, CaFiles(kind, r), {}, FALSE) ELSE {}
           published == IF kind = "walk" THEN NoDate ELSE r.published
           t == [input |-> 1, roots |-> roots, module |-> Names(roots), store |-> store,
                 cas |-> cas, published |-> published, collected |-> 1, pins |-> 0]
           u == [t EXCEPT !.pins = PinsOf(kind, t)]
<1>1. Initial(kind) = u
  BY DEF Initial
<1> HIDE DEF r, roots, store, cas, published
<1>2. DOMAIN t = Fields
  BY DEF Fields
<1> HIDE DEF t
<1>3. PinsOf(kind, u) = PinsOf(kind, t)
  BY <1>2, PinsKept
<1>4. DOMAIN u = Fields /\ u.pins = PinsOf(kind, t)
  BY <1>2 DEF Fields
<1> QED
  BY <1>1, <1>3, <1>4

(* A write changes one field of the tree.                                  *)
LEMMA WritesKeepFields ==
  ASSUME PinsInv, Next
  PROVE  DOMAIN tree' = Fields
<1> USE DEF PinsInv
<1>1. ASSUME NEW i \in DOMAIN Releases, NEW base \in {tree, head}, RunStarts(i, base)
      PROVE  DOMAIN tree' = Fields
  BY <1>1 DEF RunStarts
<1>2. CASE UNCHANGED tree
  BY <1>2
<1>3. CASE \/ WriteInput \/ SweepRoots \/ WriteRoots \/ WriteModule \/ SweepCas \/ WriteCas
           \/ WritePublished \/ WriteCollected \/ UpdatePins
  BY <1>3 DEF WriteInput, SweepRoots, WriteRoots, WriteModule, SweepCas, WriteCas,
              WritePublished, WriteCollected, UpdatePins, Writes
<1>4. CASE WriteStore
  BY <1>4 DEF WriteStore, Writes
<1>5. DayPasses \/ GenerateFails \/ RunDies \/ Merge \/ (\E id \in Ids : PrepareStore(id)) =>
        UNCHANGED tree
  BY DEF DayPasses, GenerateFails, Ends, RunDies, Merge, PrepareStore
<1> QED
  BY <1>1, <1>2, <1>3, <1>4, <1>5 DEF Next

(* Only a merge replaces what is merged.                                   *)
LEMMA HeadReplaced ==
  ASSUME Next
  PROVE  UNCHANGED setting /\ (UNCHANGED head \/ Merge)
BY DEF Next, DayPasses, RunStarts, GenerateFails, Ends, RunDies, Writes, WriteInput, SweepRoots,
       WriteRoots, WriteModule, SweepCas, WriteCas, WriteStore, WritePublished, WriteCollected,
       UpdatePins, Merge, PrepareStore

LEMMA PinsStep ==
  ASSUME PinsInv, [Next]_vars
  PROVE  PinsInv'
<1>1. CASE UNCHANGED vars
  BY <1>1 DEF vars, PinsInv
<1>2. CASE Next
  <2>1. DOMAIN tree' = Fields
    BY <1>2, WritesKeepFields
  <2>2. CASE UNCHANGED head
    BY <1>2, <2>1, <2>2, HeadReplaced DEF PinsInv
  <2>3. CASE Merge
    <3>1. /\ head' = tree /\ tree' = tree /\ setting' = setting
          /\ tree.pins = PinsOf(setting.kind, tree)
      BY <2>3 DEF Merge, Passes
    <3> QED
      BY <2>1, <3>1 DEF PinsInv
  <2> QED
    BY <1>2, <2>2, <2>3, HeadReplaced
<1> QED
  BY <1>1, <1>2

LEMMA Pinned == Spec => []PinsInv
<1>1. Init => PinsInv
  BY PinsAtFirst DEF Init, PinsInv
<1> QED
  BY <1>1, PinsStep, PTL DEF Spec

(* A merge that changes which intermediates ship changes the pins: they    *)
(* are, before and after, those of what is merged, and stand for the set   *)
(* of the intermediates, not for their number (conformance.rs:941).        *)
THEOREM CaChangesSeen == Spec => ReviewSeesEveryCaChange
<1>1. ASSUME PinsInv, PinsInv', [Next]_vars
      PROVE  [Carried(head'.store) # Carried(head.store) => head'.pins # head.pins]_vars
  <2>1. CASE UNCHANGED vars
    BY <2>1
  <2>2. CASE Next
    <3>1. setting' = setting
      BY <2>2, HeadReplaced
    <3>2. head.pins = PinsOf(setting.kind, head) /\ head'.pins = PinsOf(setting.kind, head')
      BY <1>1, <3>1 DEF PinsInv
    <3>3. head.pins.cas = Carried(head.store) /\ head'.pins.cas = Carried(head'.store)
      BY <3>2 DEF PinsOf, CaPin, SetDigest
    <3> QED
      BY <3>3
  <2> QED
    BY <1>1, <2>1, <2>2
<1> QED
  BY <1>1, Pinned, PTL DEF Spec, ReviewSeesEveryCaChange

-----------------------------------------------------------------------------
(* Environments.                                                           *)

(* What an environment holds of some entries, for a set of ids.            *)
EntriesOf(entries, ids) == UNION {Matching(entries, id) : id \in ids}

Holds(e, entries, ids) ==
  /\ e.anchors = RootsAmong(entries, EntriesOf(entries, ids))
  /\ {s.store : s \in e.sources} =
       {entries[i].store : i \in StoresAmong(entries, EntriesOf(entries, ids))}

(* Prepared for nothing, an environment is empty, whatever there is.       *)
LEMMA HoldsNothing ==
  ASSUME NEW e, NEW entries, NEW others
  PROVE  /\ Holds(e, entries, {}) => Holds(e, others, {})
         /\ Holds(EmptyEnv, entries, {})
<1>1. \A x : /\ EntriesOf(x, {}) = {} /\ RootsAmong(x, {}) = {}
             /\ StoresAmong(x, {}) = {}
  BY DEF EntriesOf, RootsAmong, StoresAmong
<1>2. \A x, y : Holds(x, y, {}) <=> x.anchors = {} /\ {s.store : s \in x.sources} = {}
  BY <1>1 DEF Holds
<1>3. EmptyEnv.anchors = {} /\ {s.store : s \in EmptyEnv.sources} = {}
  BY DEF EmptyEnv
<1> QED
  BY <1>2, <1>3

(* Preparing one more id adds all of its entries or nothing.               *)
LEMMA PrepareHolds ==
  ASSUME NEW e, NEW entries, NEW ids, NEW id, NEW time, Holds(e, entries, ids)
  PROVE  Holds(Prepare(e, entries, id, time), entries,
               IF Accepts(entries, id) THEN ids \cup {id} ELSE ids)
<1> DEFINE I == EntriesOf(entries, ids)
           M == Matching(entries, id)
           f == Adds(e, entries, M, time)
<1>1. CASE ~Accepts(entries, id)
  <2>1. Prepare(e, entries, id, time) = e
    BY <1>1 DEF Prepare
  <2> QED
    BY <1>1, <2>1
<1>2. CASE Accepts(entries, id)
  <2>1. EntriesOf(entries, ids \cup {id}) = I \cup M
    BY DEF EntriesOf
  <2>2. RootsAmong(entries, I \cup M) = RootsAmong(entries, I) \cup RootsAmong(entries, M)
    BY DEF RootsAmong
  <2>3. StoresAmong(entries, I \cup M) = StoresAmong(entries, I) \cup StoresAmong(entries, M)
    BY DEF StoresAmong
  <2>4. SourcesAmong(entries, M, time) =
          {Load(entries[i].store, time) : i \in StoresAmong(entries, M)}
    BY <1>2 DEF Accepts, SourcesAmong, StoresAmong
  <2>5. {s.store : s \in SourcesAmong(entries, M, time)} =
          {entries[i].store : i \in StoresAmong(entries, M)}
    <3>1. \A st : Load(st, time).store = st
      BY DEF Load
    <3> QED
      BY <2>4, <3>1
  <2>6. /\ f.anchors = e.anchors \cup RootsAmong(entries, M)
        /\ f.sources = e.sources \cup SourcesAmong(entries, M, time)
    BY DEF Adds
  <2>7. Holds(f, entries, ids \cup {id})
    <3>1. f.anchors = RootsAmong(entries, EntriesOf(entries, ids \cup {id}))
      BY <2>1, <2>2, <2>6 DEF Holds
    <3>2. {s.store : s \in f.sources} =
            {s.store : s \in e.sources} \cup {s.store : s \in SourcesAmong(entries, M, time)}
      BY <2>6
    <3>3. {entries[i].store : i \in StoresAmong(entries, I \cup M)} =
            {entries[i].store : i \in StoresAmong(entries, I)} \cup
            {entries[i].store : i \in StoresAmong(entries, M)}
      BY <2>3
    <3>4. {s.store : s \in e.sources} = {entries[i].store : i \in StoresAmong(entries, I)}
      BY DEF Holds
    <3> QED
      BY <2>1, <2>5, <3>1, <3>2, <3>3, <3>4 DEF Holds
  <2>8. Prepare(e, entries, id, time) = f
    BY <1>2 DEF Prepare
  <2>9. (IF Accepts(entries, id) THEN ids \cup {id} ELSE ids) = ids \cup {id}
    BY <1>2
  <2> HIDE DEF f
  <2> QED
    BY <2>7, <2>8, <2>9
<1> QED
  BY <1>1, <1>2

(* While an environment is in use nothing is written and nothing merged.   *)
ConsumerInv ==
  /\ prepared # {} => tree = head /\ step = 0
  /\ Holds(env, AllEntries(head), prepared)

LEMMA ConsumerStep ==
  ASSUME ConsumerInv, [Next]_vars
  PROVE  ConsumerInv'
<1>1. ASSUME UNCHANGED <<setting, head, env, prepared>>, prepared = {} \/ UNCHANGED <<tree, step>>
      PROVE  ConsumerInv'
  <2> DEFINE entries == AllEntries(head)
  <2>1. entries' = entries
    BY <1>1 DEF AllEntries
  <2>2. Holds(env, entries, prepared)' /\ (prepared # {} => tree = head /\ step = 0)'
    <3> HIDE DEF entries
    <3>1. Holds(env, entries, prepared) /\ (prepared # {} => tree = head /\ step = 0)
      BY DEF ConsumerInv, entries
    <3> QED
      BY <1>1, <2>1, <3>1
  <2> QED
    BY <2>2 DEF ConsumerInv
<1>2. CASE UNCHANGED vars
  BY <1>1, <1>2 DEF vars
<1>3. CASE DayPasses
  BY <1>1, <1>3 DEF DayPasses, runVars, consumerVars
<1>4. ASSUME NEW i \in DOMAIN Releases, NEW base \in {tree, head}, RunStarts(i, base)
      PROVE  ConsumerInv'
  <2>1. env' = EmptyEnv /\ prepared' = {}
    BY <1>4 DEF RunStarts
  <2>2. Holds(env', AllEntries(head)', prepared')
    BY <2>1, HoldsNothing
  <2> QED
    BY <2>1, <2>2 DEF ConsumerInv
<1>5. CASE \/ GenerateFails \/ RunDies \/ WriteInput \/ SweepRoots \/ WriteRoots \/ WriteModule
           \/ SweepCas \/ WriteCas \/ WriteStore \/ WritePublished \/ WriteCollected
  <2>1. step # 0 /\ UNCHANGED <<setting, head, env, prepared>>
    <3>1. CASE GenerateFails
      BY <3>1 DEF GenerateFails, Ends, consumerVars
    <3>2. CASE RunDies
      BY <3>2 DEF RunDies, consumerVars
    <3>3. ASSUME NEW write, NEW files, NEW names, Writes(write, files, names)
          PROVE  step # 0 /\ UNCHANGED <<setting, head, env, prepared>>
      BY <3>3 DEF Writes, At, consumerVars
    <3> QED
      BY <1>5, <3>1, <3>2, <3>3 DEF WriteInput, SweepRoots, WriteRoots, WriteModule, SweepCas,
         WriteCas, WriteStore, WritePublished, WriteCollected
  <2>2. prepared = {}
    BY <2>1 DEF ConsumerInv
  <2> QED
    BY <1>1, <2>1, <2>2
<1>6. CASE UpdatePins
  <2>1. tree # head /\ UNCHANGED <<setting, head, env, prepared>>
    BY <1>6 DEF UpdatePins, consumerVars
  <2> QED
    BY <1>1, <2>1 DEF ConsumerInv
<1>7. CASE Merge
  <2>1. tree # head /\ UNCHANGED <<env, prepared>>
    BY <1>7 DEF Merge, consumerVars
  <2>2. prepared = {}
    BY <2>1 DEF ConsumerInv
  <2>3. Holds(env, AllEntries(head)', {})
    BY <2>2, HoldsNothing DEF ConsumerInv
  <2>4. Holds(env', AllEntries(head)', prepared') /\ prepared' = {}
    BY <2>1, <2>2, <2>3
  <2> QED
    BY <2>4 DEF ConsumerInv
<1>8. ASSUME NEW id \in Ids, PrepareStore(id)
      PROVE  ConsumerInv'
  <2> DEFINE entries == AllEntries(head)
  <2>1. /\ step = 0 /\ tree = head /\ UNCHANGED <<setting, tree, head, step>>
        /\ env' = Prepare(env, entries, id, day)
        /\ prepared' = IF Accepts(entries, id) THEN prepared \cup {id} ELSE prepared
    BY <1>8 DEF PrepareStore, runVars
  <2>2. Holds(env', entries, prepared')
    <3> HIDE DEF entries
    <3>1. Holds(env, entries, prepared)
      BY DEF ConsumerInv, entries
    <3> QED
      BY <2>1, <3>1, PrepareHolds
  <2>3. entries' = entries
    BY <2>1 DEF AllEntries
  <2> QED
    BY <2>1, <2>2, <2>3 DEF ConsumerInv
<1> QED
  BY <1>2, <1>3, <1>4, <1>5, <1>6, <1>7, <1>8 DEF Next

LEMMA Consumed == Spec => []ConsumerInv
<1>1. Init => ConsumerInv
  BY HoldsNothing DEF Init, ConsumerInv
<1> QED
  BY <1>1, ConsumerStep, PTL DEF Spec

(* An environment holds whole stores: whatever the other provider carries, *)
(* entries of the same id and stores that do not load included, each id    *)
(* adds the roots and CA stores of all its entries or nothing              *)
(* (prepare_certval_environment).                                          *)
THEOREM WholeStores == Spec => []EnvironmentHoldsWholeStores
<1>1. ConsumerInv => EnvironmentHoldsWholeStores
  BY DEF ConsumerInv, EnvironmentHoldsWholeStores, Holds, EntriesOf
<1> QED
  BY <1>1, Consumed, PTL

-----------------------------------------------------------------------------
(* Paths.                                                                  *)

(* What is usable among some anchors is usable among more of them, if key  *)
(* identifiers that agree stand for one key throughout.                    *)
LEMMA StillUsable ==
  ASSUME NEW A, NEW B, NEW C, A \subseteq B, B \subseteq C, KeyIdsAgree(C)
  PROVE  Usable(A) \subseteq Usable(B)
BY DEF Usable, KeyIdsAgree

(* More anchors and more sources yield more paths.                         *)
LEMMA MorePaths ==
  ASSUME NEW e, NEW f, NEW c, Usable(e.anchors) \subseteq Usable(f.anchors),
         e.sources \subseteq f.sources
  PROVE  PathsIn(e, c) \subseteq PathsIn(f, c)
<1>1. \A x : Anchored(e.anchors, x) => Anchored(f.anchors, x)
  BY DEF Anchored
<1> HIDE DEF Anchored
<1> QED
  BY <1>1 DEF PathsIn

(* What is in a concatenation.                                             *)
LEMMA OneOrTheOther ==
  ASSUME NEW R, NEW s \in Seq(R), NEW t \in Seq(R)
  PROVE  \A i \in DOMAIN (s \o t) :
           \/ i \in DOMAIN s /\ (s \o t)[i] = s[i]
           \/ i - Len(s) \in DOMAIN t /\ (s \o t)[i] = t[i - Len(s)]
<1> DEFINE u == s \o t
<1>1. /\ Len(s) \in Nat /\ DOMAIN s = 1..Len(s)
      /\ Len(t) \in Nat /\ DOMAIN t = 1..Len(t)
  BY LenProperties
<1>2. u \in Seq(R) /\ Len(u) = Len(s) + Len(t)
  OBVIOUS
<1>3. \A i \in 1..Len(s) + Len(t) : u[i] = IF i <= Len(s) THEN s[i] ELSE t[i - Len(s)]
  OBVIOUS
<1> HIDE DEF u
<1>4. DOMAIN u = 1..Len(s) + Len(t)
  BY <1>2, LenProperties
<1>5. \A i \in DOMAIN u : \/ i \in DOMAIN s /\ u[i] = s[i]
                          \/ i - Len(s) \in DOMAIN t /\ u[i] = t[i - Len(s)]
  BY <1>1, <1>3, <1>4
<1> QED
  BY <1>5 DEF u

(* The entries a consumer loads are those of its providers.                *)
LEMMA EntriesAreProviders ==
  ASSUME NEW t, setting.other \in Seq(Range(setting.other))
  PROVE  RootsOf(AllEntries(t)) \subseteq
           UNION {RootsOf(Providers(t)[p]) : p \in DOMAIN Providers(t)}
<1> DEFINE own == OwnEntries(t)
           other == setting.other
           all == own \o other
           two == <<own, other>>
<1>1. PICK o : own = <<o>>
  BY DEF OwnEntries
<1>2. own \in Seq({o})
  BY <1>1
<1>3. AllEntries(t) = all /\ Providers(t) = two
  BY DEF AllEntries, Providers
<1> HIDE DEF own
<1>4. other \in Seq(Range(other))
  OBVIOUS
<1> HIDE DEF other
<1>5. \A i \in DOMAIN all : \/ i \in DOMAIN own /\ all[i] = own[i]
                            \/ i - Len(own) \in DOMAIN other /\ all[i] = other[i - Len(own)]
  <2> DEFINE R == {o} \cup Range(other)
  <2>1. own \in Seq(R) /\ other \in Seq(R)
    BY <1>2, <1>4
  <2> HIDE DEF R
  <2> QED
    BY <2>1, OneOrTheOther
<1>6. DOMAIN two = {1, 2} /\ two[1] = own /\ two[2] = other
  OBVIOUS
<1> HIDE DEF all, two
<1>7. \A i \in DOMAIN all : \E p \in DOMAIN two : \E j \in DOMAIN two[p] : all[i] = two[p][j]
  BY <1>5, <1>6
<1>8. RootsOf(all) \subseteq UNION {RootsOf(two[p]) : p \in DOMAIN two}
  <2>1. \A s, x : x \in RootsOf(s) <=> \E i \in DOMAIN s : x \in Range(s[i].roots)
    BY DEF RootsOf, RootsAmong
  <2> SUFFICES ASSUME NEW x \in RootsOf(all)
               PROVE  \E p \in DOMAIN two : x \in RootsOf(two[p])
    OBVIOUS
  <2>2. PICK i \in DOMAIN all : x \in Range(all[i].roots)
    BY <2>1
  <2>3. PICK p \in DOMAIN two : \E j \in DOMAIN two[p] : all[i] = two[p][j]
    BY <1>7
  <2> QED
    BY <2>1, <2>2, <2>3
<1> QED
  BY <1>3, <1>8

SettingInv == setting \in Settings

LEMMA SettingStays == Spec => []SettingInv
<1>1. Init => SettingInv
  BY DEF Init, SettingInv
<1>2. SettingInv /\ [Next]_vars => SettingInv'
  BY HeadReplaced DEF SettingInv, vars
<1> QED
  BY <1>1, <1>2, PTL DEF Spec

(* Providers that compose keep each other's paths: what a store yields     *)
(* under its own roots it yields in the environment it was prepared for.   *)
(* That two key identifiers that agree stand for one key is what it rests  *)
(* on: certval drops every anchor of a key identifier with two             *)
(* (check_providers_compose).                                              *)
THEOREM PathsKept == Spec => []PreparedPathsBuild
<1> DEFINE entries == AllEntries(head)
<1>1. ASSUME SettingInv, ConsumerInv PROVE PreparedPathsBuild
  <2> SUFFICES ASSUME Composes(Providers(head)), NEW i \in DOMAIN entries, NEW s \in env.sources,
                      entries[i].id \in prepared, entries[i].store = s.store, NEW c \in Present(s)
               PROVE  PathsIn([anchors |-> Range(entries[i].roots), sources |-> {s}], c)
                        \subseteq PathsIn(env, c)
    BY DEF PreparedPathsBuild
  <2>1. setting.other \in Seq(Range(setting.other))
    BY <1>1, ProviderAssumption DEF SettingInv, ProviderAssumption
  <2>2. env.anchors = RootsAmong(entries, EntriesOf(entries, prepared))
    BY <1>1 DEF ConsumerInv, Holds
  <2>3. EntriesOf(entries, prepared) \subseteq DOMAIN entries /\ i \in EntriesOf(entries, prepared)
    BY DEF EntriesOf, Matching
  <2>4. Range(entries[i].roots) \subseteq env.anchors /\ env.anchors \subseteq RootsOf(entries)
    BY <2>2, <2>3 DEF RootsAmong, RootsOf
  <2>5. env.anchors \subseteq UNION {RootsOf(Providers(head)[p]) : p \in DOMAIN Providers(head)}
    BY <2>1, <2>4, EntriesAreProviders
  <2>6. Usable(Range(entries[i].roots)) \subseteq Usable(env.anchors)
    BY <2>4, <2>5, StillUsable DEF Composes, Compose
  <2> QED
    BY <2>6, MorePaths
<1> QED
  BY <1>1, SettingStays, Consumed, PTL

-----------------------------------------------------------------------------
(* One store, however it is read.                                          *)

(* The anchors and sources of an id are those of its entries.              *)
LEMMA PreparedAlone ==
  ASSUME NEW entries, NEW id, NEW time, Accepts(entries, id)
  PROVE  LET M == Matching(entries, id)
             e == Prepare(EmptyEnv, entries, id, time)
         IN  /\ e = [anchors |-> RootsAmong(entries, M), sources |-> e.sources]
             /\ e.sources = {Load(entries[i].store, time) : i \in StoresAmong(entries, M)}
<1> DEFINE M == Matching(entries, id)
           anchors == RootsAmong(entries, M)
           sources == SourcesAmong(entries, M, time)
<1>1. sources = {Load(entries[i].store, time) : i \in StoresAmong(entries, M)}
  BY DEF Accepts, SourcesAmong, StoresAmong
<1>2. Prepare(EmptyEnv, entries, id, time) = Adds(EmptyEnv, entries, M, time)
  BY DEF Prepare
<1>3. EmptyEnv.anchors \cup anchors = anchors /\ EmptyEnv.sources \cup sources = sources
  BY DEF EmptyEnv
<1>4. Adds(EmptyEnv, entries, M, time) = [anchors |-> anchors, sources |-> sources]
  BY <1>3 DEF Adds
<1> HIDE DEF anchors, sources
<1> QED
  BY <1>1, <1>2, <1>4 DEF anchors

(* Written out and loaded back, the entries of an id make the environment  *)
(* they make when they are prepared.                                       *)
LEMMA SerializedAlike ==
  ASSUME NEW entries, NEW id, NEW time, Accepts(entries, id), Serializes(entries, id)
  PROVE  LoadBack(Serialize(entries, id), time) = Prepare(EmptyEnv, entries, id, time)
<1> DEFINE M == Matching(entries, id)
           S == StoresAmong(entries, M)
           e == Prepare(EmptyEnv, entries, id, time)
           out == Serialize(entries, id)
           back == LoadBack(out, time)
<1>1. e = [anchors |-> RootsAmong(entries, M), sources |-> e.sources]
      /\ e.sources = {Load(entries[i].store, time) : i \in S}
  BY PreparedAlone
<1>2. out.ta = RootsAmong(entries, M)
      /\ out.ca = IF S = {} THEN NoStore ELSE entries[CHOOSE i \in S : TRUE].store
  BY DEF Serialize
<1>3. back = [anchors |-> out.ta, sources |-> IF out.ca = NoStore THEN {} ELSE {Load(out.ca, time)}]
  BY DEF LoadBack
<1> HIDE DEF e, out, back
<1>4. (IF out.ca = NoStore THEN {} ELSE {Load(out.ca, time)}) =
        {Load(entries[i].store, time) : i \in S}
  <2>1. CASE S = {}
    BY <1>2, <2>1
  <2>2. ASSUME NEW k \in S PROVE <1>4
    <3>1. S = {k} /\ (CHOOSE i \in S : TRUE) = k
      BY <2>2 DEF Serializes
    <3>2. entries[k].store # NoStore
      BY <2>2 DEF StoresAmong, CarriesStore
    <3>3. out.ca = entries[k].store
      BY <1>2, <3>1
    <3> HIDE DEF S
    <3> QED
      BY <3>1, <3>2, <3>3
  <2> QED
    BY <2>1, <2>2
<1>5. back = e
  BY <1>1, <1>2, <1>3, <1>4
<1> QED
  BY <1>5 DEF back, out, e

(* A TLS client trusts the same roots, as far as they are certificates     *)
(* that reqwest reads.                                                     *)
LEMMA TrustedAlike ==
  ASSUME NEW entries, NEW id, NEW time, Accepts(entries, id)
  PROVE  /\ ClientBuilds(entries, {id})
         /\ ClientTrusts(entries, {id}) =
              Prepare(EmptyEnv, entries, id, time).anchors \cap GetRoots(entries) \cap TlsReads
<1> DEFINE M == Matching(entries, id)
<1>1. ClientBuilds(entries, {id})
  BY DEF ClientBuilds, Accepts
<1>2. UNION {Matching(entries, i) : i \in {id}} = M /\ M \subseteq DOMAIN entries
  BY DEF Matching
<1>3. ClientTrusts(entries, {id}) =
        RootsAmong(entries, M) \cap Anchoring \cap WithCertificate \cap TlsReads
  BY <1>2 DEF ClientTrusts
<1>4. RootsAmong(entries, M) \subseteq RootsOf(entries)
  BY <1>2 DEF RootsOf, RootsAmong
<1>5. Anchoring \cap TlsReads \subseteq WithCertificate
  BY StoresAssumption DEF StoresAssumption
<1>6. Prepare(EmptyEnv, entries, id, time).anchors = RootsAmong(entries, M)
  <2> DEFINE e == Prepare(EmptyEnv, entries, id, time)
  <2>1. e = [anchors |-> RootsAmong(entries, M), sources |-> e.sources]
    BY PreparedAlone
  <2> HIDE DEF e
  <2>2. e.anchors = RootsAmong(entries, M)
    BY <2>1
  <2> QED
    BY <2>2 DEF e
<1> QED
  BY <1>1, <1>3, <1>4, <1>5, <1>6 DEF GetRoots

(* Prepared, serialized and loaded back, or as a TLS client, a store is    *)
(* the same anchors and intermediates, wherever all of them accept it      *)
(* (certval_stores_core).                                                  *)
THEOREM ThreeWaysAgree == Spec => []OneStoreThreeWays
<1>1. OneStoreThreeWays
  BY SerializedAlike, TrustedAlike DEF OneStoreThreeWays
<1> QED
  BY <1>1, PTL

-----------------------------------------------------------------------------
(* Files and directories.                                                  *)

Files == UNION {{<<<<Label[c]>>, c>>, <<<<Label[c], Serial[c]>>, c>>} : c \in Certs}

LEMMA FilesAre ==
  /\ \A c \in Certs : <<<<Label[c]>>, c>> \in Files /\ <<<<Label[c], Serial[c]>>, c>> \in Files
  /\ \A f \in Files : /\ f[2] \in Certs /\ f[1][1] = Label[f[2]] /\ f = <<f[1], f[2]>>
                      /\ f[1] \in {<<Label[f[2]]>>, <<Label[f[2]], Serial[f[2]]>>}
<1>1. ASSUME NEW f \in Files
      PROVE  /\ f[2] \in Certs /\ f[1][1] = Label[f[2]] /\ f = <<f[1], f[2]>>
             /\ f[1] \in {<<Label[f[2]]>>, <<Label[f[2]], Serial[f[2]]>>}
  <2>1. PICK c \in Certs : f = <<<<Label[c]>>, c>> \/ f = <<<<Label[c], Serial[c]>>, c>>
    BY DEF Files
  <2> QED
    BY <2>1
<1> QED
  BY <1>1 DEF Files

LEMMA CertsOfFiles ==
  ASSUME NEW files \in Seq(Files)
  PROVE  CertsOf(files) \in Seq(Certs) /\ DOMAIN CertsOf(files) = DOMAIN files
<1>1. /\ Len(files) \in Nat /\ DOMAIN files = 1..Len(files)
      /\ \A i \in DOMAIN files : files[i] \in Files
  BY LenProperties
<1>2. CertsOf(files) = [i \in 1..Len(files) |-> files[i][2]]
  BY <1>1 DEF CertsOf
<1>3. \A i \in 1..Len(files) : files[i][2] \in Certs
  BY <1>1, FilesAre
<1>4. CertsOf(files) \in [1..Len(files) -> Certs]
  BY <1>2, <1>3
<1> QED
  BY <1>1, <1>4

LEMMA LabelledFiles ==
  ASSUME NEW certs \in Seq(Certs)
  PROVE  Labelled(certs) \in Seq(Files) /\ CertsOf(Labelled(certs)) = certs
<1>1. /\ Len(certs) \in Nat /\ DOMAIN certs = 1..Len(certs)
      /\ \A i \in 1..Len(certs) : certs[i] \in Certs
  BY LenProperties
<1>2. Labelled(certs) \in [1..Len(certs) -> Files]
  BY <1>1, FilesAre DEF Labelled
<1>3. CertsOf(Labelled(certs)) = [i \in 1..Len(certs) |-> certs[i]]
  BY <1>1 DEF CertsOf, Labelled
<1> QED
  BY <1>1, <1>2, <1>3

LEMMA MintedFiles ==
  ASSUME NEW certs \in Seq(Certs)
  PROVE  Minted(certs) \in Seq(Files)
<1> DEFINE taken(i) == \E j \in Firsts(certs) : j < i /\ Label[certs[j]] = Label[certs[i]]
           name(c, i) == IF taken(i) THEN <<Label[c], Serial[c]>> ELSE <<Label[c]>>
           files == [i \in DOMAIN certs |-> <<name(certs[i], i), certs[i]>>]
<1>1. Minted(certs) = Selected(files, Firsts(certs))
  BY DEF Minted
<1>2. /\ Firsts(certs) \in SUBSET Nat /\ IsFiniteSet(Firsts(certs))
      /\ \A i \in Firsts(certs) : i \in DOMAIN certs /\ certs[i] \in Certs
  BY FirstsAre
<1> HIDE DEF taken
<1>3. \A i \in Firsts(certs) : files[i] \in Files
  BY <1>2, FilesAre
<1> HIDE DEF files
<1> QED
  BY <1>1, <1>2, <1>3, SelectedType

(* What a generation writes are files of the release's certificates.       *)
LEMMA FilesTyped ==
  ASSUME NEW i \in DOMAIN Releases, NEW kind
  PROVE  AnchorFiles(kind, Releases[i]) \in Seq(Files) /\ CaFiles(kind, Releases[i]) \in Seq(Files)
<1> DEFINE r == Releases[i]
<1>1. \A s \in {r.anchors, r.extraAnchors, r.cas, r.extraCas} : s \in Seq(Certs)
  BY ProviderAssumption DEF ProviderAssumption
<1> HIDE DEF r
<1>2. \A s \in {r.anchors, r.cas} : Minted(s) \in Seq(Files)
  BY <1>1, MintedFiles
<1>3. \A s \in {r.anchors, r.cas} : Labelled(Distinct(s)) \in Seq(Files)
  BY <1>1, DistinctIs, LabelledFiles
<1>4. Labelled(r.extraAnchors) \in Seq(Files)
  BY <1>1, LabelledFiles
<1>5. RejectSelfIssued(r.extraCas) \in Seq(Certs)
  <2> DEFINE I == {k \in DOMAIN r.extraCas :
                     /\ r.extraCas[k] \in Decodes
                     /\ Issuer[r.extraCas[k]] # Subject[r.extraCas[k]]}
  <2>1. I \in SUBSET Nat /\ IsFiniteSet(I) /\ \A k \in I : r.extraCas[k] \in Certs
    BY <1>1, Positions
  <2> QED
    BY <2>1, SelectedType DEF RejectSelfIssued
<1>6. Labelled(RejectSelfIssued(r.extraCas)) \in Seq(Files)
  BY <1>5, LabelledFiles
<1>7. \A s, t \in Seq(Files) : s \o t \in Seq(Files)
  BY ConcatProperties
<1>8. AnchorFiles(kind, r) \in Seq(Files)
  BY <1>2, <1>3, <1>4, <1>7 DEF AnchorFiles
<1>9. CaFiles(kind, r) \in Seq(Files)
  BY <1>2, <1>3, <1>6, <1>7 DEF CaFiles
<1> QED
  BY <1>8, <1>9 DEF r

(* Writing leaves one file of a name.                                      *)
LEMMA WriteAllIs ==
  ASSUME NEW files \in Seq(Files), NEW dir \in SUBSET Files, IsDirectory(dir)
  PROVE  WriteAll(dir, files) \in SUBSET Files /\ IsDirectory(WriteAll(dir, files))
<1> DEFINE lasts == {j \in DOMAIN files :
                       \A k \in DOMAIN files : k > j => files[k][1] # files[j][1]}
           written == {files[i] : i \in lasts}
           left0 == {f \in dir : \A i \in DOMAIN files : files[i][1] # f[1]}
<1>1. WriteAll(dir, files) = left0 \cup written
  BY DEF WriteAll
<1>2. /\ \A i \in DOMAIN files : files[i] \in Files
      /\ \A i \in DOMAIN files : i \in Nat
  BY LenProperties
<1>3. ASSUME NEW i \in lasts, NEW k \in lasts, files[i][1] = files[k][1]
      PROVE  i = k
  <2>1. ~(i < k) /\ ~(k < i)
    BY <1>3
  <2> QED
    BY <1>2, <2>1
<1>4. IsDirectory(left0 \cup written)
  <2>1. \A f, g \in written : f[1] = g[1] => f = g
    BY <1>3
  <2>2. \A f \in left0, g \in written : f[1] # g[1]
    OBVIOUS
  <2> QED
    BY <2>1, <2>2 DEF IsDirectory
<1>5. left0 \cup written \subseteq Files
  BY <1>2
<1> QED
  BY <1>1, <1>4, <1>5

(* For every file the last one of its name is there.                       *)
LEMMA LastIsThere ==
  ASSUME NEW files \in Seq(Files), NEW i \in DOMAIN files
  PROVE  \E k \in DOMAIN files : files[k][1] = files[i][1] /\ files[k] \in WriteAll({}, files)
<1> DEFINE n == Len(files)
           same == {k \in DOMAIN files : files[k][1] = files[i][1]}
           back == {m \in Nat : \E k \in same : m + k = n}
<1>1. n \in Nat /\ DOMAIN files = 1..n
  BY LenProperties
<1>2. \A k \in same : n - k \in back /\ k \in Nat
  BY <1>1
<1>3. back # {} /\ back \in SUBSET Nat
  BY <1>2
<1>4. PICK m \in back : \A x \in back : m <= x
  BY <1>3, Least
<1>5. PICK k \in same : m + k = n
  BY <1>4
<1>6. \A j \in DOMAIN files : j > k => files[j][1] # files[k][1]
  <2> SUFFICES ASSUME NEW j \in DOMAIN files, j > k, files[j][1] = files[k][1] PROVE FALSE
    OBVIOUS
  <2>1. n - j \in back /\ j \in Nat /\ k \in Nat /\ m \in Nat
    BY <1>2, <1>3
  <2>2. m <= n - j
    BY <1>4, <2>1
  <2> QED
    BY <1>1, <1>5, <2>1, <2>2
<1> QED
  BY <1>5, <1>6 DEF WriteAll

(* A certificate that is not there is displaced.                           *)
Complete(dir, certs) == Displaced(dir, certs) \/ CertsIn(dir) = certs

LEMMA WrittenOrDisplaced ==
  ASSUME NEW files \in Seq(Files)
  PROVE  Complete(WriteAll({}, files), ToSet(CertsOf(files)))
<1> DEFINE dir == WriteAll({}, files)
           certs == ToSet(CertsOf(files))
<1>1. \A i \in DOMAIN files : files[i] \in Files
  BY LenProperties
<1>2. certs = {files[i][2] : i \in DOMAIN files}
  BY DEF ToSet, CertsOf
<1>3. CertsIn(dir) \subseteq certs
  BY <1>2 DEF CertsIn, WriteAll
<1>4. ASSUME NEW c \in certs, c \notin CertsIn(dir) PROVE Displaced(dir, certs)
  <2>1. PICK i \in DOMAIN files : files[i][2] = c
    BY <1>2
  <2>2. PICK k \in DOMAIN files : files[k][1] = files[i][1] /\ files[k] \in dir
    BY LastIsThere
  <2>3. files[k][2] \in CertsIn(dir) /\ files[k][2] \in certs
    BY <1>2, <2>2 DEF CertsIn
  <2>4. Label[files[k][2]] = Label[c]
    BY <1>1, <2>1, <2>2, FilesAre
  <2>5. files[k][2] \in certs \ {c} /\ c \in certs \ CertsIn(dir)
    BY <1>4, <2>3
  <2> QED
    BY <2>4, <2>5 DEF Displaced
<1> QED
  BY <1>3, <1>4 DEF Complete

(* Names that are kept are names of the same certificate.                  *)
LEMMA WriteDerIs ==
  ASSUME NEW dir, NEW files \in Seq(Files), NEW old \in SUBSET Files, NEW mint \in BOOLEAN
  PROVE  \E named \in Seq(Files) : /\ CertsOf(named) = CertsOf(files)
                                   /\ WriteDer(dir, files, old, mint) = WriteAll(dir, named)
                                   /\ mint => named = files
<1> DEFINE renamed == [i \in DOMAIN files |-> <<KeptName(old, files[i]), files[i][2]>>]
<1>1. /\ Len(files) \in Nat /\ DOMAIN files = 1..Len(files)
      /\ \A i \in DOMAIN files : files[i] \in Files
  BY LenProperties
<1>2. ASSUME NEW f \in Files PROVE <<KeptName(old, f), f[2]>> \in Files
  <2> DEFINE names == {x[1] : x \in {g \in old : g[2] = f[2]}}
  <2>1. f[2] \in Certs /\ f[1] \in {<<Label[f[2]]>>, <<Label[f[2]], Serial[f[2]]>>}
    BY FilesAre
  <2>2. names \subseteq {<<Label[f[2]]>>, <<Label[f[2]], Serial[f[2]]>>}
    BY FilesAre
  <2>3. KeptName(old, f) = IF names = {} THEN f[1]
                           ELSE IF <<Label[f[2]]>> \in names THEN <<Label[f[2]]>>
                           ELSE CHOOSE n \in names : TRUE
    BY DEF KeptName
  <2> HIDE DEF names
  <2>4. names # {} => (CHOOSE n \in names : TRUE) \in names
    OBVIOUS
  <2>5. KeptName(old, f) \in {<<Label[f[2]]>>, <<Label[f[2]], Serial[f[2]]>>}
    BY <2>1, <2>2, <2>3, <2>4
  <2> QED
    BY <2>1, <2>5, FilesAre
<1>3. renamed \in [1..Len(files) -> Files]
  BY <1>1, <1>2
<1>4. renamed \in Seq(Files)
  BY <1>1, <1>3
<1>5. CertsOf(renamed) = CertsOf(files)
  BY DEF CertsOf
<1>6. WriteDer(dir, files, old, mint) = WriteAll(dir, IF mint THEN files ELSE renamed)
  BY DEF WriteDer
<1> HIDE DEF renamed
<1>7. CASE mint
  BY <1>6, <1>7
<1>8. CASE ~mint
  BY <1>4, <1>5, <1>6, <1>8
<1> QED
  BY <1>7, <1>8

(* An entry embeds the files of a directory under their names, each of the *)
(* anchors once.                                                           *)
LEMMA Embeds ==
  ASSUME NEW files \in Seq(Files), IsInjective(CertsOf(files)),
         NEW dir, dir = WriteAll({}, files), ~Displaced(dir, ToSet(CertsOf(files)))
  PROVE  LET roots == [n \in Names(dir) |-> FileAt(dir, n)]
         IN  /\ IsFiniteSet(DOMAIN roots) /\ IsInjective(roots)
             /\ Range(roots) = ToSet(CertsOf(files)) /\ CertsIn(dir) = ToSet(CertsOf(files))
<1> DEFINE roots == [n \in Names(dir) |-> FileAt(dir, n)]
           at(n) == CHOOSE file \in dir : file[1] = n
           N == Len(files)
<1>1. N \in Nat /\ DOMAIN files = 1..N /\ \A i \in DOMAIN files : files[i] \in Files
  BY LenProperties
<1>2. dir \subseteq Files /\ IsDirectory(dir)
  <2>1. IsDirectory({}) /\ {} \in SUBSET Files
    BY DEF IsDirectory
  <2> QED
    BY <2>1, WriteAllIs
<1>3. CertsIn(dir) = ToSet(CertsOf(files))
  BY WrittenOrDisplaced DEF Complete
<1>4. dir \subseteq {files[i] : i \in DOMAIN files}
  BY DEF WriteAll
<1>5. ASSUME NEW f \in dir PROVE FileAt(dir, f[1]) = f[2]
  <2>1. at(f[1]) \in dir /\ at(f[1])[1] = f[1]
    OBVIOUS
  <2>2. at(f[1]) = f
    BY <1>2, <2>1 DEF IsDirectory
  <2> QED
    BY <2>2 DEF FileAt
<1>6. Names(dir) = {f[1] : f \in dir} /\ DOMAIN roots = Names(dir)
  BY DEF Names
<1>7. \A f \in dir : f[1] \in DOMAIN roots /\ roots[f[1]] = f[2]
  BY <1>5, <1>6
<1> HIDE DEF roots
<1>8. Range(roots) = CertsIn(dir)
  BY <1>6, <1>7 DEF Range, CertsIn
<1>9. IsInjective(roots)
  <2> SUFFICES ASSUME NEW f \in dir, NEW g \in dir, f[2] = g[2] PROVE f[1] = g[1]
    BY <1>6, <1>7 DEF IsInjective
  <2>1. PICK i \in DOMAIN files : f = files[i]
    BY <1>4
  <2>2. PICK k \in DOMAIN files : g = files[k]
    BY <1>4
  <2>3. i = k
    BY <2>1, <2>2 DEF IsInjective, CertsOf
  <2> QED
    BY <2>1, <2>2, <2>3
<1>10. IsFiniteSet(Names(dir))
  <2> DEFINE all == {files[i][1] : i \in 1..N}
             g == [i \in 1..N |-> files[i][1]]
  <2>1. g \in Surjection(1..N, all)
    BY DEF Surjection
  <2>2. IsFiniteSet(1..N)
    BY <1>1, FS_Interval
  <2>3. IsFiniteSet(all)
    BY <2>1, <2>2, FS_Surjection
  <2>4. Names(dir) \in SUBSET all
    BY <1>1, <1>4, <1>6
  <2> QED
    BY <2>3, <2>4, FS_Subset
<1> QED
  BY <1>3, <1>6, <1>8, <1>9, <1>10 DEF roots

-----------------------------------------------------------------------------
(* Type correctness.                                                       *)

Shaped(t) ==
  /\ DOMAIN t = Fields
  /\ t.input \in DOMAIN Releases
  /\ t.roots \in SUBSET Files /\ IsDirectory(t.roots)
  /\ t.cas \in SUBSET Files /\ IsDirectory(t.cas)
  /\ t.published \in Days \cup {NoDate} /\ t.collected \in Days

ShapeInv ==
  /\ day \in Days /\ setting \in Settings
  /\ step \in 0..Len(Order) /\ input \in DOMAIN Releases
  /\ left \in {"none", "done", "failed", "died"} /\ deaths \in 0..MaxDeaths
  /\ Shaped(tree) /\ Shaped(head)
  /\ kept \in SUBSET Files /\ IsDirectory(kept)
  /\ prepared \subseteq Ids

(* Two trees agree on some fields.                                         *)
Alike(t, u, fields) == DOMAIN u = Fields /\ \A x \in fields : u[x] = t[x]

LEMMA Rewritten ==
  ASSUME NEW t, DOMAIN t = Fields, NEW v
  PROVE  /\ LET u == [t EXCEPT !.input = v] IN u.input = v /\ Alike(t, u, Fields \ {"input"})
         /\ LET u == [t EXCEPT !.roots = v] IN u.roots = v /\ Alike(t, u, Fields \ {"roots"})
         /\ LET u == [t EXCEPT !.module = v] IN u.module = v /\ Alike(t, u, Fields \ {"module"})
         /\ LET u == [t EXCEPT !.cas = v] IN u.cas = v /\ Alike(t, u, Fields \ {"cas"})
         /\ LET u == [t EXCEPT !.store = v] IN u.store = v /\ Alike(t, u, Fields \ {"store"})
         /\ LET u == [t EXCEPT !.published = v]
            IN  u.published = v /\ Alike(t, u, Fields \ {"published"})
         /\ LET u == [t EXCEPT !.collected = v]
            IN  u.collected = v /\ Alike(t, u, Fields \ {"collected"})
         /\ LET u == [t EXCEPT !.pins = v] IN u.pins = v /\ Alike(t, u, Fields \ {"pins"})
BY DEF Alike, Fields

(* A tree stays well-shaped when what is written is.                       *)
LEMMA ReshapedTree ==
  ASSUME NEW t, Shaped(t), NEW u,
         \/ Alike(t, u, Fields \ {"input"}) /\ u.input \in DOMAIN Releases
         \/ Alike(t, u, Fields \ {"roots"}) /\ u.roots \in SUBSET Files /\ IsDirectory(u.roots)
         \/ Alike(t, u, Fields \ {"cas"}) /\ u.cas \in SUBSET Files /\ IsDirectory(u.cas)
         \/ Alike(t, u, Fields \ {"published"}) /\ u.published \in Days
         \/ Alike(t, u, Fields \ {"collected"}) /\ u.collected \in Days
         \/ Alike(t, u, Fields \ {"module", "store", "pins"})
  PROVE  Shaped(u)
BY DEF Shaped, Alike, Fields

(* What write_der_dir makes of a directory.                                *)
LEMMA WrittenDirectory ==
  ASSUME NEW dir \in SUBSET Files, IsDirectory(dir), NEW files \in Seq(Files),
         NEW old \in SUBSET Files, NEW mint \in BOOLEAN
  PROVE  LET new == WriteDer(dir, files, old, mint) IN new \in SUBSET Files /\ IsDirectory(new)
<1>1. PICK named \in Seq(Files) : WriteDer(dir, files, old, mint) = WriteAll(dir, named)
  BY WriteDerIs
<1> QED
  BY <1>1, WriteAllIs

LEMMA ReleasesPublish ==
  ASSUME NEW i \in DOMAIN Releases
  PROVE  Releases[i].published \in Days
BY ProviderAssumption DEF ProviderAssumption

LEMMA Nowhere == {} \in SUBSET Files /\ IsDirectory({})
BY DEF IsDirectory

LEMMA ShapedAtFirst ==
  ASSUME NEW kind
  PROVE  Shaped(Initial(kind))
<1> DEFINE r == Releases[1]
           roots == WriteDer({}, AnchorFiles(kind, r), {}, TRUE)
           cas == IF kind = "stream" THEN WriteDer({}, CaFiles(kind, r), {}, FALSE) ELSE {}
           store == StoreFor(kind, r, ToSet(r.anchors), 1)
           published == IF kind = "walk" THEN NoDate ELSE r.published
           t == [input |-> 1, roots |-> roots, module |-> Names(roots), store |-> store,
                 cas |-> cas, published |-> published, collected |-> 1, pins |-> 0]
           u == [t EXCEPT !.pins = PinsOf(kind, t)]
<1>1. Initial(kind) = u
  BY DEF Initial
<1>2. 1 \in DOMAIN Releases /\ 1 \in Days
  BY ProviderAssumption DEF ProviderAssumption, Days
<1>3. AnchorFiles(kind, r) \in Seq(Files) /\ CaFiles(kind, r) \in Seq(Files)
  BY <1>2, FilesTyped
<1>4. published \in Days \cup {NoDate}
  BY <1>2, ReleasesPublish
<1>5. roots \in SUBSET Files /\ IsDirectory(roots)
  BY <1>3, Nowhere, WrittenDirectory
<1>6. cas \in SUBSET Files /\ IsDirectory(cas)
  <2>1. CASE kind = "stream"
    BY <1>3, <2>1, Nowhere, WrittenDirectory
  <2>2. CASE kind # "stream"
    BY <2>2, Nowhere
  <2> QED
    BY <2>1, <2>2
<1> HIDE DEF r, roots, cas, store, published
<1>7. Shaped(t)
  BY <1>2, <1>4, <1>5, <1>6 DEF Shaped, Fields
<1> HIDE DEF t
<1>8. Alike(t, u, Fields \ {"pins"})
  BY <1>7, Rewritten DEF Shaped
<1>9. Alike(t, u, Fields \ {"module", "store", "pins"})
  BY <1>8 DEF Alike
<1> HIDE DEF u
<1> QED
  BY <1>1, <1>7, <1>9, ReshapedTree

(* The writes of each kind of crate, by number.                            *)
LEMMA OrderIs ==
  ASSUME setting \in Settings
  PROVE  /\ setting.kind \in {"stream", "cabinet", "walk"}
         /\ DOMAIN Order = 1..Len(Order)
         /\ setting.kind = "stream" =>
              /\ Len(Order) = 9
              /\ Order[1] = "input" /\ Order[2] = "sweep_roots" /\ Order[3] = "roots"
              /\ Order[4] = "module" /\ Order[5] = "sweep_cas" /\ Order[6] = "cas"
              /\ Order[7] = "store" /\ Order[8] = "published" /\ Order[9] = "collected"
         /\ setting.kind = "cabinet" =>
              /\ Len(Order) = 9
              /\ Order[1] = "sweep_roots" /\ Order[2] = "roots" /\ Order[3] = "module"
              /\ Order[4] = "sweep_cas" /\ Order[5] = "cas" /\ Order[6] = "store"
              /\ Order[7] = "published" /\ Order[8] = "collected" /\ Order[9] = "input"
         /\ setting.kind = "walk" =>
              /\ Len(Order) = 3
              /\ Order[1] = "input" /\ Order[2] = "collected" /\ Order[3] = "store"
<1>1. setting.kind \in {"stream", "cabinet", "walk"}
  BY ProviderAssumption DEF ProviderAssumption
<1>2. CASE setting.kind = "stream"
  <2>1. Order = <<"input", "sweep_roots", "roots", "module", "sweep_cas", "cas", "store",
                  "published", "collected">>
    BY <1>2 DEF Order
  <2> QED
    BY <1>2, <2>1
<1>3. CASE setting.kind = "cabinet"
  <2>1. Order = <<"sweep_roots", "roots", "module", "sweep_cas", "cas", "store", "published",
                  "collected", "input">>
    BY <1>3 DEF Order
  <2> QED
    BY <1>3, <2>1
<1>4. CASE setting.kind = "walk"
  <2>1. Order = <<"input", "collected", "store">>
    BY <1>4 DEF Order
  <2> QED
    BY <1>4, <2>1
<1> QED
  BY <1>1, <1>2, <1>3, <1>4

LEMMA WritesShape ==
  ASSUME ShapeInv, NEW write, NEW files, NEW names, Writes(write, files, names),
         Shaped(files), names \in SUBSET Files, IsDirectory(names)
  PROVE  ShapeInv'
<1>1. /\ tree' = files /\ kept' = names /\ step # 0
      /\ UNCHANGED <<day, setting, head, input, deaths, env, prepared>>
      /\ IF step = Len(Order) THEN step' = 0 /\ left' = "done" ELSE step' = step + 1 /\ left' = left
  BY DEF Writes, At, consumerVars
<1>2. Order' = Order
  BY <1>1 DEF Order
<1>3. Len(Order) \in Nat
  BY DEF ShapeInv, Order
<1>4. step' \in 0..Len(Order)' /\ left' \in {"none", "done", "failed", "died"}
  BY <1>1, <1>2, <1>3 DEF ShapeInv
<1>5. Shaped(tree)' /\ Shaped(head)'
  BY <1>1 DEF ShapeInv, Shaped
<1> QED
  BY <1>1, <1>4, <1>5 DEF ShapeInv, IsDirectory

(* Each write puts one field of the tree in shape.                         *)
LEMMA WritesInShape ==
  ASSUME ShapeInv,
         \/ WriteInput \/ SweepRoots \/ WriteRoots \/ WriteModule \/ SweepCas \/ WriteCas
         \/ WriteStore \/ WritePublished \/ WriteCollected
  PROVE  ShapeInv'
<1> DEFINE r == Releases[input]
           kind == setting.kind
<1>1. /\ DOMAIN tree = Fields /\ Shaped(tree) /\ kept \in SUBSET Files /\ IsDirectory(kept)
      /\ tree.roots \in SUBSET Files /\ IsDirectory(tree.roots)
      /\ tree.cas \in SUBSET Files /\ IsDirectory(tree.cas)
      /\ input \in DOMAIN Releases /\ day \in Days
  BY DEF ShapeInv, Shaped
<1>2. AnchorFiles(kind, r) \in Seq(Files) /\ CaFiles("stream", r) \in Seq(Files)
  BY <1>1, FilesTyped
<1>3. CASE WriteInput
  <2> DEFINE u == [tree EXCEPT !.input = input]
  <2>1. Writes("input", u, {})
    BY <1>3 DEF WriteInput
  <2>2. Alike(tree, u, Fields \ {"input"}) /\ u.input = input
    BY <1>1, Rewritten
  <2> HIDE DEF u
  <2>3. Shaped(u)
    BY <1>1, <2>2, ReshapedTree
  <2> QED
    BY <2>1, <2>3, WritesShape, Nowhere
<1>4. CASE SweepRoots
  <2> DEFINE u == [tree EXCEPT !.roots = {}]
  <2>1. Writes("sweep_roots", u, tree.roots)
    BY <1>4 DEF SweepRoots
  <2>2. Alike(tree, u, Fields \ {"roots"}) /\ u.roots = {}
    BY <1>1, Rewritten
  <2> HIDE DEF u
  <2>3. Shaped(u)
    BY <1>1, <2>2, ReshapedTree, Nowhere
  <2> QED
    BY <1>1, <2>1, <2>3, WritesShape
<1>5. CASE WriteRoots
  <2> DEFINE new == WriteDer(tree.roots, AnchorFiles(kind, r), kept, TRUE)
             u == [tree EXCEPT !.roots = new]
  <2>1. Writes("roots", u, {})
    BY <1>5 DEF WriteRoots
  <2>2. new \in SUBSET Files /\ IsDirectory(new)
    BY <1>1, <1>2, WrittenDirectory
  <2> HIDE DEF new
  <2>3. Alike(tree, u, Fields \ {"roots"}) /\ u.roots = new
    BY <1>1, Rewritten
  <2> HIDE DEF u
  <2>4. Shaped(u)
    BY <1>1, <2>2, <2>3, ReshapedTree
  <2> QED
    BY <2>1, <2>4, WritesShape, Nowhere
<1>6. CASE WriteModule
  <2> DEFINE u == [tree EXCEPT !.module = Names(tree.roots)]
  <2>1. Writes("module", u, {})
    BY <1>6 DEF WriteModule
  <2>2. Alike(tree, u, Fields \ {"module"})
    BY <1>1, Rewritten
  <2> HIDE DEF u
  <2>3. Alike(tree, u, Fields \ {"module", "store", "pins"})
    BY <2>2 DEF Alike
  <2>4. Shaped(u)
    BY <1>1, <2>3, ReshapedTree
  <2> QED
    BY <2>1, <2>4, WritesShape, Nowhere
<1>7. CASE SweepCas
  <2> DEFINE u == [tree EXCEPT !.cas = {}]
  <2>1. Writes("sweep_cas", u, tree.cas)
    BY <1>7 DEF SweepCas
  <2>2. Alike(tree, u, Fields \ {"cas"}) /\ u.cas = {}
    BY <1>1, Rewritten
  <2> HIDE DEF u
  <2>3. Shaped(u)
    BY <1>1, <2>2, ReshapedTree, Nowhere
  <2> QED
    BY <1>1, <2>1, <2>3, WritesShape
<1>8. CASE WriteCas
  <2> DEFINE new == WriteDer(tree.cas, CaFiles("stream", r), kept, FALSE)
             u == [tree EXCEPT !.cas = new]
             v == IF kind = "stream" THEN u ELSE tree
  <2>1. Writes("cas", v, {})
    BY <1>8 DEF WriteCas
  <2>2. new \in SUBSET Files /\ IsDirectory(new)
    BY <1>1, <1>2, WrittenDirectory
  <2> HIDE DEF new
  <2>3. Alike(tree, u, Fields \ {"cas"}) /\ u.cas = new
    BY <1>1, Rewritten
  <2> HIDE DEF u
  <2>4. Shaped(u)
    BY <1>1, <2>2, <2>3, ReshapedTree
  <2>5. Shaped(v)
    BY <1>1, <2>4
  <2> HIDE DEF v
  <2> QED
    BY <2>1, <2>5, WritesShape, Nowhere
<1>9. CASE WriteStore
  <2> DEFINE store == StoreFor(kind, r, Embedded(tree), tree.collected)
             u == [tree EXCEPT !.store = store]
             v == IF store = NoStore THEN tree ELSE u
  <2>1. Writes("store", v, {})
    BY <1>9 DEF WriteStore
  <2> HIDE DEF store
  <2>2. Alike(tree, u, Fields \ {"store"})
    BY <1>1, Rewritten
  <2> HIDE DEF u
  <2>3. Alike(tree, u, Fields \ {"module", "store", "pins"})
    BY <2>2 DEF Alike
  <2>4. Shaped(u)
    BY <1>1, <2>3, ReshapedTree
  <2>5. Shaped(v)
    BY <1>1, <2>4
  <2> HIDE DEF v
  <2> QED
    BY <2>1, <2>5, WritesShape, Nowhere
<1>10. CASE WritePublished
  <2> DEFINE u == [tree EXCEPT !.published = r.published]
  <2>1. Writes("published", u, {})
    BY <1>10 DEF WritePublished
  <2>2. Alike(tree, u, Fields \ {"published"}) /\ u.published = r.published
    BY <1>1, Rewritten
  <2>3. r.published \in Days
    BY <1>1, ReleasesPublish
  <2> HIDE DEF u
  <2>4. Shaped(u)
    BY <1>1, <2>2, <2>3, ReshapedTree
  <2> QED
    BY <2>1, <2>4, WritesShape, Nowhere
<1>11. CASE WriteCollected
  <2> DEFINE u == [tree EXCEPT !.collected = day]
  <2>1. Writes("collected", u, {})
    BY <1>11 DEF WriteCollected
  <2>2. Alike(tree, u, Fields \ {"collected"}) /\ u.collected = day
    BY <1>1, Rewritten
  <2> HIDE DEF u
  <2>3. Shaped(u)
    BY <1>1, <2>2, ReshapedTree
  <2> QED
    BY <2>1, <2>3, WritesShape, Nowhere
<1> QED
  BY <1>3, <1>4, <1>5, <1>6, <1>7, <1>8, <1>9, <1>10, <1>11

LEMMA ShapeStep ==
  ASSUME ShapeInv, [Next]_vars
  PROVE  ShapeInv'
<1>1. Len(Order) \in Nat /\ 1 \in 0..Len(Order)
  BY OrderIs DEF ShapeInv
<1>2. CASE UNCHANGED vars
  BY <1>2 DEF vars, ShapeInv, Shaped, IsDirectory, Order
<1>3. CASE DayPasses
  <2>1. day' \in Days
    BY <1>3, ProviderAssumption DEF DayPasses, ShapeInv, Days, ProviderAssumption
  <2> QED
    BY <1>3, <2>1 DEF DayPasses, runVars, consumerVars, ShapeInv, Shaped, IsDirectory, Order
<1>4. ASSUME NEW i \in DOMAIN Releases, NEW base \in {tree, head}, RunStarts(i, base)
      PROVE  ShapeInv'
  <2>1. Shaped(base)
    BY DEF ShapeInv
  <2>2. Shaped(tree)' /\ Shaped(head)'
    BY <1>4, <2>1 DEF RunStarts, ShapeInv, Shaped
  <2>3. Order' = Order
    BY <1>4 DEF RunStarts, Order
  <2> QED
    BY <1>1, <1>4, <2>2, <2>3, Nowhere DEF RunStarts, ShapeInv, IsDirectory
<1>5. CASE GenerateFails \/ RunDies
  <2>1. /\ UNCHANGED <<day, setting, tree, head, input, prepared>>
        /\ step' = 0 /\ left' \in {"failed", "died"} /\ kept' = {} /\ deaths' \in 0..MaxDeaths
    BY <1>5, ProviderAssumption
       DEF GenerateFails, Ends, RunDies, consumerVars, ShapeInv, ProviderAssumption
  <2>2. Shaped(tree)' /\ Shaped(head)' /\ Order' = Order
    BY <2>1 DEF ShapeInv, Shaped, Order
  <2> QED
    BY <1>1, <2>1, <2>2, Nowhere DEF ShapeInv, IsDirectory
<1>6. CASE UpdatePins
  <2> DEFINE u == [tree EXCEPT !.pins = PinsOf(setting.kind, tree)]
  <2>1. tree' = u /\ UNCHANGED <<day, setting, head, step, input, kept, left, deaths, prepared>>
    BY <1>6 DEF UpdatePins, runVars, consumerVars
  <2>2. Alike(tree, u, Fields \ {"pins"})
    BY Rewritten DEF ShapeInv, Shaped
  <2> HIDE DEF u
  <2>3. Alike(tree, u, Fields \ {"module", "store", "pins"})
    BY <2>2 DEF Alike
  <2>4. Shaped(u)
    BY <2>3, ReshapedTree DEF ShapeInv
  <2>5. Shaped(tree)' /\ Shaped(head)' /\ Order' = Order
    BY <2>1, <2>4 DEF ShapeInv, Shaped, Order
  <2> QED
    BY <2>1, <2>5 DEF ShapeInv, IsDirectory
<1>7. CASE Merge
  <2>1. head' = tree /\ UNCHANGED <<day, setting, tree, step, input, kept, left, deaths, prepared>>
    BY <1>7 DEF Merge, runVars, consumerVars
  <2>2. Shaped(tree)' /\ Shaped(head)' /\ Order' = Order
    BY <2>1 DEF ShapeInv, Shaped, Order
  <2> QED
    BY <2>1, <2>2 DEF ShapeInv, IsDirectory
<1>8. ASSUME NEW id \in Ids, PrepareStore(id)
      PROVE  ShapeInv'
  <2>1. /\ UNCHANGED <<day, setting, tree, head, step, input, kept, left, deaths>>
        /\ prepared' \subseteq Ids
    BY <1>8 DEF PrepareStore, runVars, ShapeInv
  <2>2. Shaped(tree)' /\ Shaped(head)' /\ Order' = Order
    BY <2>1 DEF ShapeInv, Shaped, Order
  <2> QED
    BY <2>1, <2>2 DEF ShapeInv, IsDirectory
<1> QED
  BY <1>2, <1>3, <1>4, <1>5, <1>6, <1>7, <1>8, WritesInShape DEF Next

LEMMA InShape == Spec => []ShapeInv
<1>1. ASSUME Init PROVE ShapeInv
  <2>1. Shaped(tree) /\ Shaped(head)
    BY <1>1, ShapedAtFirst DEF Init
  <2>2. day \in Days /\ 1 \in DOMAIN Releases /\ 0 \in 0..MaxDeaths
    BY <1>1, ProviderAssumption DEF Init, Days, ProviderAssumption
  <2>3. Len(Order) \in Nat
    BY <1>1, ProviderAssumption DEF Init, Order, ProviderAssumption
  <2> QED
    BY <1>1, <2>1, <2>2, <2>3, Nowhere DEF Init, ShapeInv
<1> QED
  BY <1>1, ShapeStep, PTL DEF Spec

(* In every state the files of a directory have names of their own and     *)
(* hold certificates, whichever run wrote them, under kept or minted names *)
(* (write_der_dir).                                                        *)
THEOREM TypeCorrect == Spec => []TypeOK
<1>1. ASSUME ShapeInv PROVE TypeOK
  <2>1. \A dir \in SUBSET Files : CertsIn(dir) \subseteq Certs
    BY FilesAre DEF CertsIn
  <2> QED
    BY <1>1, <2>1 DEF ShapeInv, Shaped, TypeOK
<1> QED
  BY <1>1, InShape, PTL

-----------------------------------------------------------------------------
(* How far a run is, and what it left on the way.                          *)

Turn == IF left = "done" THEN Len(Order) + 1 ELSE step
Done == {Order[i] : i \in {j \in DOMAIN Order : j < Turn}}

StoreOf(kind, r, t) == StoreFor(kind, r, Embedded(t), t.collected)

(* The files t that hold the writes D of a run over release i.             *)
Holding(kind, i, t, D, today) ==
  LET r == Releases[i] IN
  /\ "input" \in D => t.input = i
  /\ "sweep_roots" \in D /\ "roots" \notin D => t.roots = {}
  /\ "roots" \in D => t.roots = WriteAll({}, AnchorFiles(kind, r))
  /\ "module" \in D => t.module = Names(t.roots)
  /\ kind = "stream" /\ "sweep_cas" \in D /\ "cas" \notin D => t.cas = {}
  /\ kind = "stream" /\ "cas" \in D => Complete(t.cas, ToSet(CertsOf(CaFiles("stream", r))))
  /\ "store" \in D => StoreOf(kind, r, t) = NoStore \/ t.store = StoreOf(kind, r, t)
  /\ "published" \in D => t.published = r.published
  /\ "collected" \in D => t.collected <= today /\ r.published <= t.collected
  /\ kind = "walk" /\ "store" \in D => StoreOf(kind, r, t) # NoStore

(* A walk writes neither anchors nor dates of publication.                 *)
Untouched(t) ==
  /\ t.roots = WriteAll({}, AnchorFiles("walk", Releases[1])) /\ t.module = Names(t.roots)
  /\ t.published = NoDate

RunInv ==
  /\ left = "done" => step = 0
  /\ step # 0 \/ left = "done" => input \in setting.releases /\ Releases[input].published <= day
  /\ Holding(setting.kind, input, tree, Done, day)
  /\ setting.kind = "walk" => Untouched(tree) /\ Untouched(head)

LEMMA HoldingNothing ==
  ASSUME NEW kind, NEW i, NEW t, NEW today
  PROVE  Holding(kind, i, t, {}, today)
BY DEF Holding

(* What is done when a write is next, and after it.                        *)
LEMMA WhatIsDone ==
  ASSUME ShapeInv, RunInv, NEW write, NEW files, NEW names, Writes(write, files, names)
  PROVE  /\ Done' = Done \cup {write} /\ "done" # left
         /\ write = "sweep_roots" => "roots" \notin Done /\ "module" \notin Done
         /\ write = "roots" => /\ "sweep_roots" \in Done
                               /\ "roots" \notin Done /\ "module" \notin Done
         /\ write = "sweep_cas" => "cas" \notin Done
         /\ write = "cas" => "sweep_cas" \in Done /\ "cas" \notin Done
         /\ setting.kind = "walk" => /\ write \in {"input", "collected", "store"}
                                     /\ write = "collected" => "store" \notin Done
<1>1. /\ step # 0 /\ Order[step] = write /\ UNCHANGED setting
      /\ IF step = Len(Order) THEN step' = 0 /\ left' = "done" ELSE step' = step + 1 /\ left' = left
  BY DEF Writes, At
<1>2. left # "done" /\ Turn = step
  BY <1>1 DEF RunInv, Turn
<1>3. Order' = Order
  BY <1>1 DEF Order
<1>4. setting \in Settings /\ step \in 0..Len(Order)
  BY DEF ShapeInv
<1>5. /\ setting.kind \in {"stream", "cabinet", "walk"} /\ Len(Order) \in {3, 9}
      /\ DOMAIN Order = 1..Len(Order) /\ step \in 1..Len(Order)
  <2>1. /\ setting.kind \in {"stream", "cabinet", "walk"} /\ DOMAIN Order = 1..Len(Order)
        /\ Len(Order) \in {3, 9}
    BY <1>4, OrderIs
  <2>2. \A n \in {3, 9} : 0..n \ {0} = 1..n
    OBVIOUS
  <2>3. step \in 0..Len(Order) \ {0}
    BY <1>1, <1>4
  <2> QED
    BY <2>1, <2>2, <2>3
<1>6. Turn' = step + 1
  BY <1>1, <1>2, <1>3, <1>5 DEF Turn
<1>7. Done = {Order[i] : i \in {j \in 1..Len(Order) : j < step}}
  BY <1>2, <1>5 DEF Done
<1>8. Done' = {Order[i] : i \in {j \in 1..Len(Order) : j < step + 1}}
  BY <1>3, <1>5, <1>6 DEF Done
<1>9. {j \in 1..Len(Order) : j < step + 1} = {j \in 1..Len(Order) : j < step} \cup {step}
  BY <1>5
<1>10. Done' = Done \cup {write}
  BY <1>1, <1>7, <1>8, <1>9
<1>11. CASE setting.kind = "stream"
  <2>1. Len(Order) = 9
    BY <1>4, <1>11, OrderIs
  <2>2. step \in {1, 2, 3, 4, 5, 6, 7, 8, 9} /\ step \in 1..9
        /\ {j \in 1..Len(Order) : j < step} = {j \in 1..9 : j < step}
    BY <1>5, <2>1
  <2>3. \A w : w \in Done <=> \E i \in 1..9 : i < step /\ Order[i] = w
    BY <1>7, <2>2
  <2>4. \A w : w \in Done <=>
          \/ 1 < step /\ w = "input"
          \/ 2 < step /\ w = "sweep_roots"
          \/ 3 < step /\ w = "roots"
          \/ 4 < step /\ w = "module"
          \/ 5 < step /\ w = "sweep_cas"
          \/ 6 < step /\ w = "cas"
          \/ 7 < step /\ w = "store"
          \/ 8 < step /\ w = "published"
          \/ 9 < step /\ w = "collected"
    BY <1>4, <1>11, <2>3, OrderIs
  <2>5. /\ (step = 1 <=> write = "input")
        /\ (step = 2 <=> write = "sweep_roots")
        /\ (step = 3 <=> write = "roots")
        /\ (step = 4 <=> write = "module")
        /\ (step = 5 <=> write = "sweep_cas")
        /\ (step = 6 <=> write = "cas")
        /\ (step = 7 <=> write = "store")
        /\ (step = 8 <=> write = "published")
        /\ (step = 9 <=> write = "collected")
    BY <1>1, <1>4, <1>11, <2>2, OrderIs
  <2> QED
    BY <1>2, <1>10, <1>11, <2>2, <2>4, <2>5
<1>12. CASE setting.kind = "cabinet"
  <2>1. Len(Order) = 9
    BY <1>4, <1>12, OrderIs
  <2>2. step \in {1, 2, 3, 4, 5, 6, 7, 8, 9} /\ step \in 1..9
        /\ {j \in 1..Len(Order) : j < step} = {j \in 1..9 : j < step}
    BY <1>5, <2>1
  <2>3. \A w : w \in Done <=> \E i \in 1..9 : i < step /\ Order[i] = w
    BY <1>7, <2>2
  <2>4. \A w : w \in Done <=>
          \/ 1 < step /\ w = "sweep_roots"
          \/ 2 < step /\ w = "roots"
          \/ 3 < step /\ w = "module"
          \/ 4 < step /\ w = "sweep_cas"
          \/ 5 < step /\ w = "cas"
          \/ 6 < step /\ w = "store"
          \/ 7 < step /\ w = "published"
          \/ 8 < step /\ w = "collected"
          \/ 9 < step /\ w = "input"
    BY <1>4, <1>12, <2>3, OrderIs
  <2>5. /\ (step = 1 <=> write = "sweep_roots")
        /\ (step = 2 <=> write = "roots")
        /\ (step = 3 <=> write = "module")
        /\ (step = 4 <=> write = "sweep_cas")
        /\ (step = 5 <=> write = "cas")
        /\ (step = 6 <=> write = "store")
        /\ (step = 7 <=> write = "published")
        /\ (step = 8 <=> write = "collected")
        /\ (step = 9 <=> write = "input")
    BY <1>1, <1>4, <1>12, <2>2, OrderIs
  <2> QED
    BY <1>2, <1>10, <1>12, <2>2, <2>4, <2>5
<1>13. CASE setting.kind = "walk"
  <2>1. Len(Order) = 3
    BY <1>4, <1>13, OrderIs
  <2>2. step \in {1, 2, 3} /\ step \in 1..3
        /\ {j \in 1..Len(Order) : j < step} = {j \in 1..3 : j < step}
    BY <1>5, <2>1
  <2>3. \A w : w \in Done <=> \E i \in 1..3 : i < step /\ Order[i] = w
    BY <1>7, <2>2
  <2>4. \A w : w \in Done <=>
          \/ 1 < step /\ w = "input"
          \/ 2 < step /\ w = "collected"
          \/ 3 < step /\ w = "store"
    BY <1>4, <1>13, <2>3, OrderIs
  <2>5. /\ (step = 1 <=> write = "input")
        /\ (step = 2 <=> write = "collected")
        /\ (step = 3 <=> write = "store")
    BY <1>1, <1>4, <1>13, <2>2, OrderIs
  <2> QED
    BY <1>2, <1>10, <1>13, <2>2, <2>4, <2>5
<1> QED
  BY <1>5, <1>11, <1>12, <1>13

(* Only of a walk does the store depend on what the tree holds.            *)
LEMMA StoreAside ==
  ASSUME NEW kind \in {"stream", "cabinet"}, NEW r, NEW t, NEW u
  PROVE  StoreOf(kind, r, t) = StoreOf(kind, r, u)
BY DEF StoreOf, StoreFor, Keeps

LEMMA StoreAlike ==
  ASSUME NEW kind, NEW r, NEW t, NEW u, u.roots = t.roots, u.module = t.module,
         u.collected = t.collected
  PROVE  StoreOf(kind, r, u) = StoreOf(kind, r, t)
<1>1. Embedded(u) = Embedded(t)
  BY DEF Embedded
<1> QED
  BY <1>1 DEF StoreOf

(* A write in its turn adds to what is held.                               *)
LEMMA HoldingMore ==
  ASSUME NEW kind \in {"stream", "cabinet", "walk"}, NEW i, NEW t, NEW D, NEW today,
         Holding(kind, i, t, D, today), NEW u
  PROVE  /\ Alike(t, u, Fields \ {"input"}) /\ u.input = i =>
              Holding(kind, i, u, D \cup {"input"}, today)
         /\ /\ Alike(t, u, Fields \ {"roots"}) /\ u.roots = {} /\ kind # "walk"
            /\ "roots" \notin D /\ "module" \notin D
            => Holding(kind, i, u, D \cup {"sweep_roots"}, today)
         /\ /\ Alike(t, u, Fields \ {"roots"}) /\ kind # "walk" /\ "module" \notin D
            /\ u.roots = WriteAll({}, AnchorFiles(kind, Releases[i]))
            => Holding(kind, i, u, D \cup {"roots"}, today)
         /\ /\ Alike(t, u, Fields \ {"module"}) /\ kind # "walk" /\ u.module = Names(t.roots)
            => Holding(kind, i, u, D \cup {"module"}, today)
         /\ Alike(t, u, Fields \ {"cas"}) /\ u.cas = {} /\ "cas" \notin D =>
              Holding(kind, i, u, D \cup {"sweep_cas"}, today)
         /\ /\ Alike(t, u, Fields \ {"cas"})
            /\ kind = "stream" => Complete(u.cas, ToSet(CertsOf(CaFiles("stream", Releases[i]))))
            => Holding(kind, i, u, D \cup {"cas"}, today)
         /\ /\ Alike(t, u, Fields \ {"store"})
            /\ StoreOf(kind, Releases[i], t) = NoStore \/ u.store = StoreOf(kind, Releases[i], t)
            /\ kind = "walk" => StoreOf(kind, Releases[i], t) # NoStore
            => Holding(kind, i, u, D \cup {"store"}, today)
         /\ Alike(t, u, Fields \ {"published"}) /\ u.published = Releases[i].published =>
              Holding(kind, i, u, D \cup {"published"}, today)
         /\ /\ Alike(t, u, Fields \ {"collected"})
            /\ kind = "walk" => "store" \notin D
            /\ u.collected <= today /\ Releases[i].published <= u.collected
            => Holding(kind, i, u, D \cup {"collected"}, today)
<1> DEFINE r == Releases[i]
<1>1. kind # "walk" => StoreOf(kind, r, u) = StoreOf(kind, r, t)
  BY StoreAside
<1>2. ASSUME Alike(t, u, Fields \ {"input"}), u.input = i
      PROVE  Holding(kind, i, u, D \cup {"input"}, today)
  <2>1. /\ u.roots = t.roots /\ u.module = t.module /\ u.cas = t.cas /\ u.store = t.store
        /\ u.published = t.published /\ u.collected = t.collected
    BY <1>2 DEF Alike, Fields
  <2>2. StoreOf(kind, r, u) = StoreOf(kind, r, t)
    BY <2>1, StoreAlike
  <2> QED
    BY <1>2, <2>1, <2>2 DEF Holding
<1>3. ASSUME Alike(t, u, Fields \ {"roots"}), kind # "walk", "module" \notin D
      PROVE  /\ u.roots = {} /\ "roots" \notin D =>
                  Holding(kind, i, u, D \cup {"sweep_roots"}, today)
             /\ u.roots = WriteAll({}, AnchorFiles(kind, r)) =>
                  Holding(kind, i, u, D \cup {"roots"}, today)
  <2>1. /\ u.input = t.input /\ u.module = t.module /\ u.cas = t.cas /\ u.store = t.store
        /\ u.published = t.published /\ u.collected = t.collected
    BY <1>3 DEF Alike, Fields
  <2>2. u.roots = {} /\ "roots" \notin D => Holding(kind, i, u, D \cup {"sweep_roots"}, today)
    BY <1>1, <1>3, <2>1 DEF Holding
  <2>3. u.roots = WriteAll({}, AnchorFiles(kind, r)) => Holding(kind, i, u, D \cup {"roots"}, today)
    BY <1>1, <1>3, <2>1 DEF Holding
  <2> QED
    BY <2>2, <2>3
<1>4. ASSUME Alike(t, u, Fields \ {"module"}), kind # "walk", u.module = Names(t.roots)
      PROVE  Holding(kind, i, u, D \cup {"module"}, today)
  <2>1. /\ u.input = t.input /\ u.roots = t.roots /\ u.cas = t.cas /\ u.store = t.store
        /\ u.published = t.published /\ u.collected = t.collected
    BY <1>4 DEF Alike, Fields
  <2> QED
    BY <1>1, <1>4, <2>1 DEF Holding
<1>5. ASSUME Alike(t, u, Fields \ {"cas"})
      PROVE  /\ u.cas = {} /\ "cas" \notin D => Holding(kind, i, u, D \cup {"sweep_cas"}, today)
             /\ (kind = "stream" => Complete(u.cas, ToSet(CertsOf(CaFiles("stream", r))))) =>
                  Holding(kind, i, u, D \cup {"cas"}, today)
  <2>1. /\ u.input = t.input /\ u.roots = t.roots /\ u.module = t.module /\ u.store = t.store
        /\ u.published = t.published /\ u.collected = t.collected
    BY <1>5 DEF Alike, Fields
  <2>2. StoreOf(kind, r, u) = StoreOf(kind, r, t)
    BY <2>1, StoreAlike
  <2>3. u.cas = {} /\ "cas" \notin D => Holding(kind, i, u, D \cup {"sweep_cas"}, today)
    BY <2>1, <2>2 DEF Holding
  <2>4. (kind = "stream" => Complete(u.cas, ToSet(CertsOf(CaFiles("stream", r))))) =>
          Holding(kind, i, u, D \cup {"cas"}, today)
    BY <2>1, <2>2 DEF Holding
  <2> QED
    BY <2>3, <2>4
<1>6. ASSUME Alike(t, u, Fields \ {"store"}),
             StoreOf(kind, r, t) = NoStore \/ u.store = StoreOf(kind, r, t),
             kind = "walk" => StoreOf(kind, r, t) # NoStore
      PROVE  Holding(kind, i, u, D \cup {"store"}, today)
  <2>1. /\ u.input = t.input /\ u.roots = t.roots /\ u.module = t.module /\ u.cas = t.cas
        /\ u.published = t.published /\ u.collected = t.collected
    BY <1>6 DEF Alike, Fields
  <2>2. StoreOf(kind, r, u) = StoreOf(kind, r, t)
    BY <2>1, StoreAlike
  <2> QED
    BY <1>6, <2>1, <2>2 DEF Holding
<1>7. ASSUME Alike(t, u, Fields \ {"published"}), u.published = r.published
      PROVE  Holding(kind, i, u, D \cup {"published"}, today)
  <2>1. /\ u.input = t.input /\ u.roots = t.roots /\ u.module = t.module /\ u.cas = t.cas
        /\ u.store = t.store /\ u.collected = t.collected
    BY <1>7 DEF Alike, Fields
  <2>2. StoreOf(kind, r, u) = StoreOf(kind, r, t)
    BY <2>1, StoreAlike
  <2> QED
    BY <1>7, <2>1, <2>2 DEF Holding
<1>8. ASSUME Alike(t, u, Fields \ {"collected"}), kind = "walk" => "store" \notin D,
             u.collected <= today, r.published <= u.collected
      PROVE  Holding(kind, i, u, D \cup {"collected"}, today)
  <2>1. /\ u.input = t.input /\ u.roots = t.roots /\ u.module = t.module /\ u.cas = t.cas
        /\ u.store = t.store /\ u.published = t.published
    BY <1>8 DEF Alike, Fields
  <2> QED
    BY <1>1, <1>8, <2>1 DEF Holding
<1> QED
  BY <1>2, <1>3, <1>4, <1>5, <1>6, <1>7, <1>8

(* What is held outlasts a day, and the pins.                              *)
LEMMA HoldingStill ==
  ASSUME NEW kind, NEW i, NEW t, NEW D, NEW today, Holding(kind, i, t, D, today)
  PROVE  /\ t.collected \in Nat /\ today \in Nat => Holding(kind, i, t, D, today + 1)
         /\ \A u : Alike(t, u, Fields \ {"pins"}) => Holding(kind, i, u, D, today)
<1>1. t.collected \in Nat /\ today \in Nat /\ t.collected <= today => t.collected <= today + 1
  OBVIOUS
<1>2. t.collected \in Nat /\ today \in Nat => Holding(kind, i, t, D, today + 1)
  BY <1>1 DEF Holding
<1>3. ASSUME NEW u, Alike(t, u, Fields \ {"pins"}) PROVE Holding(kind, i, u, D, today)
  <2>1. /\ u.input = t.input /\ u.roots = t.roots /\ u.module = t.module /\ u.cas = t.cas
        /\ u.store = t.store /\ u.published = t.published /\ u.collected = t.collected
    BY <1>3 DEF Alike, Fields
  <2>2. StoreOf(kind, Releases[i], u) = StoreOf(kind, Releases[i], t)
    BY <2>1, StoreAlike
  <2> QED
    BY <2>1, <2>2 DEF Holding
<1> QED
  BY <1>2, <1>3

LEMMA RunContinues ==
  ASSUME ShapeInv, RunInv, NEW write, NEW files, NEW names, Writes(write, files, names),
         Holding(setting.kind, input, files, Done \cup {write}, day),
         setting.kind = "walk" => Untouched(files)
  PROVE  RunInv'
<1>1. /\ tree' = files /\ step # 0 /\ UNCHANGED <<day, setting, head, input>>
      /\ step' = 0 \/ (step' = step + 1 /\ left' = left)
  BY DEF Writes, At
<1>2. Done' = Done \cup {write} /\ left # "done"
  BY WhatIsDone
<1>3. input \in setting.releases /\ Releases[input].published <= day
  BY <1>1 DEF RunInv
<1>4. Holding(setting.kind, input, tree, Done, day)'
  BY <1>1, <1>2
<1>5. (setting.kind = "walk" => Untouched(tree) /\ Untouched(head))'
  BY <1>1 DEF RunInv, Untouched
<1>6. (left = "done" => step = 0)'
  BY <1>1, <1>2
<1> QED
  BY <1>1, <1>3, <1>4, <1>5, <1>6 DEF RunInv

LEMMA UntouchedStays ==
  ASSUME NEW t, NEW u, Untouched(t),
         \/ Alike(t, u, Fields \ {"input"}) \/ Alike(t, u, Fields \ {"store"})
         \/ Alike(t, u, Fields \ {"collected"}) \/ Alike(t, u, Fields \ {"pins"})
  PROVE  Untouched(u)
BY DEF Untouched, Alike, Fields

LEMMA WritesRun ==
  ASSUME ShapeInv, RunInv,
         \/ WriteInput \/ SweepRoots \/ WriteRoots \/ WriteModule \/ SweepCas \/ WriteCas
         \/ WriteStore \/ WritePublished \/ WriteCollected
  PROVE  RunInv'
<1> DEFINE r == Releases[input]
           kind == setting.kind
<1>1. /\ DOMAIN tree = Fields /\ kept \in SUBSET Files /\ setting \in Settings
      /\ tree.collected \in Nat /\ day \in Nat /\ input \in DOMAIN Releases
  BY DEF ShapeInv, Shaped, Days
<1>2. /\ Holding(kind, input, tree, Done, day)
      /\ kind = "walk" => Untouched(tree)
      /\ kind \in {"stream", "cabinet", "walk"}
  BY <1>1, OrderIs DEF RunInv
<1>3. AnchorFiles(kind, r) \in Seq(Files) /\ CaFiles("stream", r) \in Seq(Files)
  BY <1>1, FilesTyped
<1>4. CASE WriteInput
  <2> DEFINE u == [tree EXCEPT !.input = input]
  <2>1. Writes("input", u, {})
    BY <1>4 DEF WriteInput
  <2>2. Alike(tree, u, Fields \ {"input"}) /\ u.input = input
    BY <1>1, Rewritten
  <2> HIDE DEF u
  <2>3. Holding(kind, input, u, Done \cup {"input"}, day)
    BY <1>2, <2>2, HoldingMore
  <2> QED
    BY <1>2, <2>1, <2>2, <2>3, RunContinues, UntouchedStays
<1>5. CASE SweepRoots
  <2> DEFINE u == [tree EXCEPT !.roots = {}]
  <2>1. Writes("sweep_roots", u, tree.roots)
    BY <1>5 DEF SweepRoots
  <2>2. Alike(tree, u, Fields \ {"roots"}) /\ u.roots = {}
    BY <1>1, Rewritten
  <2> HIDE DEF u
  <2>3. kind # "walk" /\ "roots" \notin Done /\ "module" \notin Done
    BY <2>1, WhatIsDone
  <2>4. Holding(kind, input, u, Done \cup {"sweep_roots"}, day)
    BY <1>2, <2>2, <2>3, HoldingMore
  <2> QED
    BY <2>1, <2>3, <2>4, RunContinues
<1>6. CASE WriteRoots
  <2> DEFINE new == WriteDer(tree.roots, AnchorFiles(kind, r), kept, TRUE)
             u == [tree EXCEPT !.roots = new]
  <2>1. Writes("roots", u, {})
    BY <1>6 DEF WriteRoots
  <2>2. kind # "walk" /\ "sweep_roots" \in Done /\ "roots" \notin Done /\ "module" \notin Done
    BY <2>1, WhatIsDone
  <2>3. new = WriteAll(tree.roots, AnchorFiles(kind, r))
    BY DEF WriteDer
  <2> HIDE DEF new
  <2>4. Alike(tree, u, Fields \ {"roots"}) /\ u.roots = new
    BY <1>1, Rewritten
  <2>5. tree.roots = {}
    BY <1>2, <2>2 DEF Holding
  <2> HIDE DEF u
  <2>6. Holding(kind, input, u, Done \cup {"roots"}, day)
    BY <1>2, <2>2, <2>3, <2>4, <2>5, HoldingMore
  <2> QED
    BY <2>1, <2>2, <2>6, RunContinues
<1>7. CASE WriteModule
  <2> DEFINE u == [tree EXCEPT !.module = Names(tree.roots)]
  <2>1. Writes("module", u, {})
    BY <1>7 DEF WriteModule
  <2>2. Alike(tree, u, Fields \ {"module"}) /\ u.module = Names(tree.roots)
    BY <1>1, Rewritten
  <2> HIDE DEF u
  <2>3. kind # "walk"
    BY <2>1, WhatIsDone
  <2>4. Holding(kind, input, u, Done \cup {"module"}, day)
    BY <1>2, <2>2, <2>3, HoldingMore
  <2> QED
    BY <2>1, <2>3, <2>4, RunContinues
<1>8. CASE SweepCas
  <2> DEFINE u == [tree EXCEPT !.cas = {}]
  <2>1. Writes("sweep_cas", u, tree.cas)
    BY <1>8 DEF SweepCas
  <2>2. Alike(tree, u, Fields \ {"cas"}) /\ u.cas = {}
    BY <1>1, Rewritten
  <2> HIDE DEF u
  <2>3. kind # "walk" /\ "cas" \notin Done
    BY <2>1, WhatIsDone
  <2>4. Holding(kind, input, u, Done \cup {"sweep_cas"}, day)
    BY <1>2, <2>2, <2>3, HoldingMore
  <2> QED
    BY <2>1, <2>3, <2>4, RunContinues
<1>9. CASE WriteCas
  <2> DEFINE files == CaFiles("stream", r)
             new == WriteDer(tree.cas, files, kept, FALSE)
             u == [tree EXCEPT !.cas = new]
             v == IF kind = "stream" THEN u ELSE tree
  <2>1. Writes("cas", v, {})
    BY <1>9 DEF WriteCas
  <2>2. kind # "walk" /\ "sweep_cas" \in Done /\ "cas" \notin Done
    BY <2>1, WhatIsDone
  <2>3. PICK named \in Seq(Files) :
          CertsOf(named) = CertsOf(files) /\ new = WriteAll(tree.cas, named)
    BY <1>1, <1>3, WriteDerIs
  <2>4. kind = "stream" => tree.cas = {}
    BY <1>2, <2>2 DEF Holding
  <2>5. kind = "stream" => Complete(new, ToSet(CertsOf(files)))
    BY <2>3, <2>4, WrittenOrDisplaced
  <2> HIDE DEF new
  <2>6. Alike(tree, u, Fields \ {"cas"}) /\ u.cas = new
    BY <1>1, Rewritten
  <2>7. Alike(tree, v, Fields \ {"cas"})
    BY <1>1, <2>6 DEF Alike
  <2>8. kind = "stream" => Complete(v.cas, ToSet(CertsOf(files)))
    BY <2>5, <2>6
  <2> HIDE DEF v
  <2>9. Holding(kind, input, v, Done \cup {"cas"}, day)
    BY <1>2, <2>7, <2>8, HoldingMore
  <2> QED
    BY <2>1, <2>2, <2>9, RunContinues
<1>10. CASE WriteStore
  <2> DEFINE store == StoreOf(kind, r, tree)
             u == [tree EXCEPT !.store = store]
             v == IF store = NoStore THEN tree ELSE u
  <2>1. Writes("store", v, {})
    BY <1>10 DEF WriteStore, StoreOf
  <2>2. kind = "walk" => store # NoStore
    <3>1. kind = "walk" => StoreFor("walk", r, Embedded(tree), tree.collected) # NoStore
      BY <2>1 DEF Writes, Ready, At
    <3> QED
      BY <3>1 DEF StoreOf
  <2> HIDE DEF store
  <2>3. Alike(tree, u, Fields \ {"store"}) /\ u.store = store
    BY <1>1, Rewritten
  <2>4. Alike(tree, v, Fields \ {"store"}) /\ (store = NoStore \/ v.store = store)
    BY <1>1, <2>3 DEF Alike
  <2> HIDE DEF v
  <2>5. Holding(kind, input, v, Done \cup {"store"}, day)
    BY <1>2, <2>2, <2>4, HoldingMore DEF store
  <2>6. kind = "walk" => Untouched(v)
    BY <1>2, <2>4, UntouchedStays
  <2> QED
    BY <2>1, <2>5, <2>6, RunContinues
<1>11. CASE WritePublished
  <2> DEFINE u == [tree EXCEPT !.published = r.published]
  <2>1. Writes("published", u, {})
    BY <1>11 DEF WritePublished
  <2>2. Alike(tree, u, Fields \ {"published"}) /\ u.published = r.published
    BY <1>1, Rewritten
  <2> HIDE DEF u
  <2>3. kind # "walk"
    BY <2>1, WhatIsDone
  <2>4. Holding(kind, input, u, Done \cup {"published"}, day)
    BY <1>2, <2>2, HoldingMore
  <2> QED
    BY <2>1, <2>3, <2>4, RunContinues
<1>12. CASE WriteCollected
  <2> DEFINE u == [tree EXCEPT !.collected = day]
  <2>1. Writes("collected", u, {})
    BY <1>12 DEF WriteCollected
  <2>2. Alike(tree, u, Fields \ {"collected"}) /\ u.collected = day
    BY <1>1, Rewritten
  <2> HIDE DEF u
  <2>3. kind = "walk" => "store" \notin Done
    BY <2>1, WhatIsDone
  <2>4. r.published <= day /\ day <= day
    BY <1>1, <2>1 DEF RunInv, Writes, At
  <2>5. Holding(kind, input, u, Done \cup {"collected"}, day)
    BY <1>2, <2>2, <2>3, <2>4, HoldingMore
  <2>6. kind = "walk" => Untouched(u)
    BY <1>2, <2>2, UntouchedStays
  <2> QED
    BY <2>1, <2>5, <2>6, RunContinues
<1> QED
  BY <1>4, <1>5, <1>6, <1>7, <1>8, <1>9, <1>10, <1>11, <1>12

LEMMA RunStep ==
  ASSUME ShapeInv, RunInv, [Next]_vars
  PROVE  RunInv'
<1> DEFINE kind == setting.kind
<1>1. CASE UNCHANGED vars
  <2>1. Done' = Done /\ UNCHANGED <<tree, head, left, step, input, day, setting>>
    BY <1>1 DEF vars, Done, Turn, Order
  <2> QED
    BY <2>1 DEF RunInv, Holding, StoreOf, Embedded, Untouched
<1>2. CASE DayPasses
  <2>1. /\ UNCHANGED <<setting, tree, head, step, input, left>> /\ day' = day + 1 /\ day \in Nat
        /\ tree.collected \in Nat
    BY <1>2 DEF DayPasses, runVars, ShapeInv, Shaped, Days
  <2>2. Done' = Done
    BY <2>1 DEF Done, Turn, Order
  <2>3. Holding(kind, input, tree, Done, day + 1)
    BY <2>1, HoldingStill DEF RunInv
  <2>4. left = "done" => Releases[input].published <= day + 1
    <3>1. Releases[input].published \in Nat
      BY ReleasesPublish DEF ShapeInv, Days
    <3> QED
      BY <2>1, <3>1 DEF RunInv
  <2>5. step = 0
    BY <1>2 DEF DayPasses
  <2> QED
    BY <2>1, <2>2, <2>3, <2>4, <2>5 DEF RunInv, Untouched
<1>3. ASSUME NEW i \in DOMAIN Releases, NEW base \in {tree, head}, RunStarts(i, base)
      PROVE  RunInv'
  <2>1. /\ i \in setting.releases /\ Releases[i].published <= day
        /\ tree' = base /\ input' = i /\ step' = 1 /\ left' = "none"
        /\ UNCHANGED <<day, setting, head>>
    BY <1>3 DEF RunStarts
  <2>2. Done' = {}
    <3>1. Order' = Order /\ Turn' = 1
      BY <2>1 DEF Order, Turn
    <3>2. DOMAIN Order = 1..Len(Order)
      BY OrderIs DEF ShapeInv
    <3>3. \A j \in 1..Len(Order) : ~(j < 1)
      OBVIOUS
    <3> QED
      BY <3>1, <3>2, <3>3 DEF Done
  <2>3. Holding(kind, i, base, {}, day)
    BY HoldingNothing
  <2>4. kind = "walk" => Untouched(base)
    BY DEF RunInv
  <2> QED
    BY <2>1, <2>2, <2>3, <2>4 DEF RunInv, Untouched
<1>4. CASE GenerateFails \/ RunDies
  <2>1. /\ UNCHANGED <<day, setting, tree, head, input>>
        /\ step' = 0 /\ left' \in {"failed", "died"}
    BY <1>4 DEF GenerateFails, Ends, RunDies
  <2>2. Done' = {}
    <3>1. Order' = Order /\ Turn' = 0
      BY <2>1 DEF Order, Turn
    <3>2. DOMAIN Order = 1..Len(Order)
      BY OrderIs DEF ShapeInv
    <3>3. \A j \in 1..Len(Order) : ~(j < 0)
      OBVIOUS
    <3> QED
      BY <3>1, <3>2, <3>3 DEF Done
  <2>3. Holding(kind, input, tree, {}, day)
    BY HoldingNothing
  <2> QED
    BY <2>1, <2>2, <2>3 DEF RunInv, Untouched
<1>5. CASE UpdatePins
  <2> DEFINE u == [tree EXCEPT !.pins = PinsOf(setting.kind, tree)]
  <2>1. tree' = u /\ UNCHANGED <<day, setting, head, step, input, left>>
    BY <1>5 DEF UpdatePins, runVars
  <2>2. Alike(tree, u, Fields \ {"pins"})
    BY Rewritten DEF ShapeInv, Shaped
  <2> HIDE DEF u
  <2>3. Holding(kind, input, u, Done, day)
    BY <2>2, HoldingStill DEF RunInv
  <2>4. kind = "walk" => Untouched(u)
    BY <2>2, UntouchedStays DEF RunInv
  <2>5. Done' = Done
    BY <2>1 DEF Done, Turn, Order
  <2> QED
    BY <2>1, <2>3, <2>4, <2>5 DEF RunInv, Untouched
<1>6. CASE Merge \/ \E id \in Ids : PrepareStore(id)
  <2>1. /\ UNCHANGED <<day, setting, tree, step, input, left>>
        /\ head' = head \/ head' = tree
    BY <1>6 DEF Merge, PrepareStore, runVars, consumerVars
  <2>2. Done' = Done
    BY <2>1 DEF Done, Turn, Order
  <2>3. Holding(kind, input, tree, Done, day)'
    <3>1. Holding(kind, input, tree, Done, day)
      BY DEF RunInv
    <3> QED
      BY <2>1, <2>2, <3>1
  <2>4. kind = "walk" => Untouched(tree) /\ Untouched(head')
    BY <2>1 DEF RunInv
  <2> QED
    BY <2>1, <2>3, <2>4 DEF RunInv, Untouched
<1> QED
  BY <1>1, <1>2, <1>3, <1>4, <1>5, <1>6, WritesRun DEF Next

LEMMA RunHolds == Spec => []RunInv
<1>1. ASSUME Init PROVE RunInv
  <2>1. step = 0 /\ left = "none" /\ tree = Initial(setting.kind) /\ head = tree
        /\ setting \in Settings
    BY <1>1 DEF Init
  <2>2. Done = {}
    <3>1. Turn = 0 /\ DOMAIN Order = 1..Len(Order)
      BY <2>1, OrderIs DEF Turn
    <3>2. \A j \in 1..Len(Order) : ~(j < 0)
      OBVIOUS
    <3> QED
      BY <3>1, <3>2 DEF Done
  <2>3. Untouched(Initial("walk"))
    <3> DEFINE r == Releases[1]
               roots == WriteDer({}, AnchorFiles("walk", r), {}, TRUE)
               cas == {}
               store == StoreFor("walk", r, ToSet(r.anchors), 1)
               t == [input |-> 1, roots |-> roots, module |-> Names(roots), store |-> store,
                     cas |-> cas, published |-> NoDate, collected |-> 1, pins |-> 0]
               u == [t EXCEPT !.pins = PinsOf("walk", t)]
    <3>1. Initial("walk") = u
      BY DEF Initial
    <3>2. roots = WriteAll({}, AnchorFiles("walk", r))
      BY DEF WriteDer
    <3> HIDE DEF r, roots, cas, store
    <3>3. DOMAIN t = Fields /\ t.roots = roots /\ t.module = Names(roots) /\ t.published = NoDate
      BY DEF Fields
    <3> HIDE DEF t
    <3>4. Alike(t, u, Fields \ {"pins"})
      BY <3>3, Rewritten
    <3> HIDE DEF u
    <3>5. Untouched(t)
      BY <3>2, <3>3 DEF Untouched, r
    <3> QED
      BY <3>1, <3>4, <3>5, UntouchedStays
  <2> QED
    BY <2>1, <2>2, <2>3, HoldingNothing DEF RunInv
<1> QED
  BY <1>1, InShape, ShapeStep, RunStep, PTL DEF Spec

-----------------------------------------------------------------------------
(* What a run that finished left.                                          *)

LEMMA AtTheEnd ==
  ASSUME ShapeInv, RunInv, left = "done"
  PROVE  LET kind == setting.kind
             r == Releases[input]
         IN  /\ input \in setting.releases /\ tree.input = input
             /\ tree.roots = WriteAll({}, AnchorFiles(kind, r))
             /\ tree.module = Names(tree.roots)
             /\ StoreOf(kind, r, tree) = NoStore \/ tree.store = StoreOf(kind, r, tree)
             /\ kind = "walk" => StoreOf(kind, r, tree) # NoStore
             /\ kind = "walk" => tree.published = NoDate
             /\ kind # "walk" => tree.published = r.published
             /\ r.published <= tree.collected
             /\ kind = "stream" => Complete(tree.cas, ToSet(CertsOf(CaFiles("stream", r))))
<1> DEFINE kind == setting.kind
           r == Releases[input]
<1>1. /\ setting \in Settings /\ kind \in {"stream", "cabinet", "walk"}
      /\ DOMAIN Order = 1..Len(Order) /\ Len(Order) \in {3, 9}
  BY OrderIs DEF ShapeInv
<1>2. Done = {Order[j] : j \in {k \in 1..Len(Order) : k < Len(Order) + 1}}
  BY <1>1 DEF Done, Turn
<1>3. {k \in 1..Len(Order) : k < Len(Order) + 1} = 1..Len(Order)
  BY <1>1
<1>4. \A j \in 1..Len(Order) : Order[j] \in Done
  BY <1>2, <1>3
<1>5. Holding(kind, input, tree, Done, day) /\ input \in setting.releases
  BY DEF RunInv
<1>6. CASE kind = "walk"
  <2>1. "input" \in Done /\ "collected" \in Done /\ "store" \in Done
    BY <1>1, <1>4, <1>6, OrderIs
  <2>2. Untouched(tree)
    BY <1>6 DEF RunInv
  <2>3. Releases[input].anchors = Releases[1].anchors
    BY <1>1, <1>5, <1>6, ProviderAssumption DEF ProviderAssumption
  <2>4. AnchorFiles("walk", r) = AnchorFiles("walk", Releases[1])
    BY <2>3 DEF AnchorFiles
  <2> QED
    BY <1>5, <1>6, <2>1, <2>2, <2>4 DEF Holding, Untouched
<1>7. CASE kind # "walk"
  <2>1. /\ "input" \in Done /\ "roots" \in Done /\ "module" \in Done /\ "cas" \in Done
        /\ "store" \in Done /\ "published" \in Done /\ "collected" \in Done
    <3>1. Len(Order) = 9
      BY <1>1, <1>7, OrderIs
    <3>2. \A j \in 1..9 : Order[j] \in Done
      BY <1>4, <3>1
    <3>3. /\ Order[1] \in Done /\ Order[2] \in Done /\ Order[3] \in Done /\ Order[4] \in Done
          /\ Order[5] \in Done /\ Order[6] \in Done /\ Order[7] \in Done /\ Order[8] \in Done
          /\ Order[9] \in Done
      BY <3>2
    <3> QED
      BY <1>1, <1>7, <3>3, OrderIs
  <2> QED
    BY <1>5, <1>7, <2>1 DEF Holding
<1> QED
  BY <1>6, <1>7

(* A store holds what is kept of the published intermediates.              *)
LEMMA StoreForIs ==
  ASSUME NEW i \in DOMAIN Releases, NEW kind \in {"stream", "cabinet", "walk"},
         NEW A, kind = "walk" \/ A = ToSet(CertsOf(AnchorFiles(kind, Releases[i]))),
         NEW collected
  PROVE  LET r == Releases[i]
             K == Keeps(kind, A, ToSet(CertsOf(CaFiles(kind, r))), r.published, collected)
             store == StoreFor(kind, r, A, collected)
         IN  /\ Carried(store) = K /\ (store = NoStore <=> K = {})
             /\ \E cas \in Seq(Certs) : ToSet(cas) = K /\ store = Generate(A, cas)
<1> DEFINE r == Releases[i]
           cas == CertsOf(CaFiles(kind, r))
           K == Keeps(kind, A, ToSet(cas), r.published, collected)
           store == StoreFor(kind, r, A, collected)
           kept0 == Selected(cas, {k \in DOMAIN cas : cas[k] \in K})
<1>1. store = Generate(A, kept0)
  <2>1. A = IF kind = "walk" THEN A ELSE ToSet(CertsOf(AnchorFiles(kind, r)))
    OBVIOUS
  <2> QED
    BY <2>1, Zenon DEF StoreFor, Filtered
<1>2. cas \in Seq(Certs)
  BY FilesTyped, CertsOfFiles
<1>3. K \subseteq ToSet(cas)
  BY DEF Keeps, PruneUnvalidated, PruneUnrooted, Pruned
<1> HIDE DEF K, cas, store
<1>4. kept0 \in Seq(Certs) /\ ToSet(kept0) = K
  <2>1. kept0 \in Seq(Certs) /\ ToSet(kept0) = ToSet(cas) \cap K
    BY <1>2, Sifted
  <2> QED
    BY <1>3, <2>1
<1> HIDE DEF kept0
<1>5. CASE kept0 = <<>>
  <2>1. K = {}
    BY <1>4, <1>5, EmptyIs
  <2> QED
    BY <1>1, <1>4, <1>5, <2>1, NothingGenerated DEF K, cas, store
<1>6. CASE kept0 # <<>>
  <2>1. K # {}
    BY <1>4, <1>6, EmptyIs
  <2>2. store # NoStore /\ Carried(store) = K
    BY <1>1, <1>4, <1>6, GeneratedIs
  <2> QED
    BY <1>1, <1>4, <2>1, <2>2 DEF K, cas, store
<1> QED
  BY <1>5, <1>6

(* In every reachable state a store that a walk finished is settled: each  *)
(* of its intermediates validates, on the day of the walk, over the store  *)
(* alone, and is in one of its partial paths, whatever the mesh looks like *)
(* (fpki_refresh.rs:137).                                                  *)
THEOREM WalksSettle == Spec => []WalkStoreIsSettled
<1>1. ASSUME ShapeInv, RunInv PROVE WalkStoreIsSettled
  <2> SUFFICES ASSUME left = "done", setting.kind = "walk", NEW c \in Carried(tree.store)
               PROVE  /\ CanValidate(Embedded(tree), Carried(tree.store), tree.collected, c)
                      /\ InAPath(Embedded(tree), Carried(tree.store), c)
    BY DEF WalkStoreIsSettled
  <2> DEFINE r == Releases[input]
             S == ToSet(CertsOf(CaFiles("walk", r)))
             K == Pruned(Embedded(tree), S, tree.collected)
  <2>1. tree.store = StoreFor("walk", r, Embedded(tree), tree.collected)
    BY <1>1, AtTheEnd DEF StoreOf
  <2>2. input \in DOMAIN Releases
    BY <1>1 DEF ShapeInv
  <2>3. Keeps("walk", Embedded(tree), S, r.published, tree.collected) = K
    BY DEF Keeps
  <2>4. Carried(tree.store) = K
    BY <2>1, <2>2, <2>3, StoreForIs
  <2> QED
    BY <2>4, TwoPassesSettle
<1> QED
  BY <1>1, InShape, RunHolds, PTL

(* Of material that is not at fault a finished run makes an entry whose    *)
(* intermediates all validate and lie in a path.                           *)
LEMMA MadeAtTheEnd ==
  ASSUME ShapeInv, RunInv, left = "done", ~NamesClash,
         ~AtFault(setting.kind, Releases[tree.input], tree.collected)
  PROVE  LET kind == setting.kind
             r == Releases[input]
             A == ToSet(CertsOf(AnchorFiles(kind, r)))
             e == OwnEntries(tree)[1]
             time == CASE kind = "stream" -> NoTime
                       [] kind = "cabinet" -> r.published
                       [] kind = "walk" -> tree.collected
         IN  /\ Range(e.roots) = A /\ CertsIn(tree.roots) = A /\ Embedded(tree) = A
             /\ \E cas : Made(e, A, cas, time)
             /\ tree.store = StoreOf(kind, r, tree) /\ tree.store # NoStore
             /\ Carried(tree.store) = Keeps(kind, A, ToSet(CertsOf(CaFiles(kind, r))), r.published,
                                            tree.collected)
<1> DEFINE kind == setting.kind
           r == Releases[input]
           files == AnchorFiles(kind, r)
           A == ToSet(CertsOf(files))
           S == ToSet(CertsOf(CaFiles(kind, r)))
           K == Keeps(kind, A, S, r.published, tree.collected)
           e == OwnEntries(tree)[1]
           time == CASE kind = "stream" -> NoTime
                     [] kind = "cabinet" -> r.published
                     [] kind = "walk" -> tree.collected
<1>1. /\ tree.input = input /\ tree.roots = WriteAll({}, files) /\ tree.module = Names(tree.roots)
      /\ StoreOf(kind, r, tree) = NoStore \/ tree.store = StoreOf(kind, r, tree)
      /\ kind = "walk" => tree.published = NoDate
      /\ kind # "walk" => tree.published = r.published
      /\ r.published <= tree.collected
  BY AtTheEnd
<1>2. input \in DOMAIN Releases /\ kind \in {"stream", "cabinet", "walk"}
  BY OrderIs DEF ShapeInv
<1>3. files \in Seq(Files)
  BY <1>2, FilesTyped
<1>4. ~Displaced(tree.roots, A)
  BY <1>1 DEF NamesClash
<1>5. /\ K # {} /\ IsInjective(CertsOf(files)) /\ A \subseteq Anchoring \cap TlsReads
      /\ kind # "walk" => \A c \in K :
           /\ InAPath(A, K, c)
           /\ CanValidate(A, K, IF kind = "stream" THEN NoTime ELSE r.published, c)
  BY <1>1 DEF AtFault
<1>6. /\ e.roots = [n \in Names(tree.roots) |-> FileAt(tree.roots, n)]
      /\ e.store = tree.store /\ e.published = tree.published /\ e.collected = tree.collected
  BY <1>1 DEF OwnEntries
<1>7. /\ IsFiniteSet(DOMAIN e.roots) /\ IsInjective(e.roots)
      /\ Range(e.roots) = A /\ CertsIn(tree.roots) = A
  BY <1>1, <1>3, <1>4, <1>5, <1>6, Embeds
<1>8. Embedded(tree) = A
  BY <1>1, <1>6, <1>7 DEF Embedded, Range
<1> HIDE DEF files, e
<1>9. /\ Carried(StoreOf(kind, r, tree)) = K /\ StoreOf(kind, r, tree) # NoStore
      /\ \E cas \in Seq(Certs) : ToSet(cas) = K /\ StoreOf(kind, r, tree) = Generate(A, cas)
  <2> DEFINE store == StoreFor(kind, r, A, tree.collected)
  <2>1. /\ Carried(store) = K /\ (store = NoStore <=> K = {})
        /\ \E cas \in Seq(Certs) : ToSet(cas) = K /\ store = Generate(A, cas)
    <3>1. A = ToSet(CertsOf(AnchorFiles(kind, Releases[input])))
      BY DEF files
    <3>2. input \in DOMAIN Releases /\ kind \in {"stream", "cabinet", "walk"}
      BY <1>2
    <3> HIDE DEF A, kind
    <3>3. kind = "walk" \/ A = ToSet(CertsOf(AnchorFiles(kind, Releases[input])))
      BY <3>1
    <3>4. Carried(store) = K
      BY <3>2, <3>3, StoreForIs
    <3>5. store = NoStore <=> K = {}
      BY <3>2, <3>3, StoreForIs
    <3>6. \E cas \in Seq(Certs) : ToSet(cas) = K /\ store = Generate(A, cas)
      BY <3>2, <3>3, <3>4, StoreForIs
    <3> QED
      BY <3>4, <3>5, <3>6
  <2>2. StoreOf(kind, r, tree) = store
    BY <1>8 DEF StoreOf
  <2> HIDE DEF store, K
  <2> QED
    BY <1>5, <2>1, <2>2
<1>10. AllValidate(A, K, time)
  <2>1. CASE kind = "walk"
    <3>1. K = Pruned(A, S, tree.collected) /\ time = tree.collected
      BY <2>1 DEF Keeps
    <3> QED
      BY <3>1, TwoPassesSettle DEF AllValidate
  <2>2. CASE kind # "walk"
    <3>1. time = IF kind = "stream" THEN NoTime ELSE r.published
      BY <1>2, <2>2
    <3> QED
      BY <1>5, <2>2, <3>1 DEF AllValidate
  <2> QED
    BY <2>1, <2>2
<1>11. A # {} /\ DOMAIN e.roots # {}
  <2>1. PICK c \in K : InAPath(A, K, c)
    BY <1>5, <1>10 DEF AllValidate
  <2>2. Usable(A) # {}
    BY <2>1 DEF InAPath, PartialPaths, Leads, Anchored
  <2>3. A # {}
    BY <2>2 DEF Usable
  <2> QED
    BY <1>7, <2>3 DEF Range
<1>12. NoDate \notin {e.published, e.collected} => e.published <= e.collected
  BY <1>1, <1>6
<1>13. PICK cas \in Seq(Certs) : ToSet(cas) = K /\ tree.store = Generate(A, cas)
  BY <1>1, <1>9
<1>14. cas # <<>>
  BY <1>5, <1>13, EmptyIs
<1> HIDE DEF A, K, time
<1>15. Made(e, A, cas, time)
  BY <1>5, <1>6, <1>7, <1>10, <1>11, <1>12, <1>13, <1>14 DEF Made
<1> QED
  BY <1>1, <1>7, <1>8, <1>9, <1>15 DEF files, A, K, e, time

(* The tests of the crate itself, with the directories and the store as a  *)
(* finished run left them.                                                 *)
LEMMA OwnTestsPass ==
  ASSUME ShapeInv, RunInv, left = "done", ~NamesClash,
         ~AtFault(setting.kind, Releases[tree.input], tree.collected)
  PROVE  /\ IF setting.kind = "cabinet" THEN CabinetConformant(tree)
            ELSE Conformant(OwnEntries(tree), day) /\ PathsValidate(OwnEntries(tree)[1])
         /\ setting.listed => Conformant(OwnEntries(tree), day)
<1> DEFINE kind == setting.kind
           r == Releases[input]
           A == ToSet(CertsOf(AnchorFiles(kind, r)))
           e == OwnEntries(tree)[1]
           time == CASE kind = "stream" -> NoTime
                     [] kind = "cabinet" -> r.published
                     [] kind = "walk" -> tree.collected
<1>1. /\ Embedded(tree) = A
      /\ \E cas : Made(e, A, cas, time)
  BY MadeAtTheEnd
<1>2. PICK cas : Made(e, A, cas, time)
  BY <1>1
<1>3. OwnEntries(tree) = <<e>> /\ e.store = tree.store
  BY DEF OwnEntries
<1>4. tree.input = input /\ (kind # "walk" => tree.published = r.published)
  BY AtTheEnd
<1>5. kind # "cabinet" \/ setting.listed => A \subseteq Usable(A)
  BY <1>4 DEF AtFault
<1>6. kind = "cabinet" => CabinetConformant(tree)
  <2> SUFFICES ASSUME kind = "cabinet" PROVE CabinetConformant(tree)
    OBVIOUS
  <2>1. time = tree.published
    BY <1>4
  <2> HIDE DEF A, time, e
  <2>2. EntryShape(<<e>>) /\ RootsParse(e) /\ StoreLoads(e) /\ PartialPathsHold(e)
    BY <1>2, MadeShape, MadeRoots, MadeLoads, MadeRows
  <2>3. Prepares(<<e>>, day)
    BY <1>2, MadePrepares
  <2>4. Carried(tree.store) = ToSet(cas)
    BY <1>2, <1>3, MadeAlone
  <2>5. \A c \in Carried(tree.store) : CanValidate(A, Carried(tree.store), tree.published, c)
    BY <1>2, <2>1, <2>4 DEF Made, AllValidate
  <2> QED
    BY <1>1, <1>3, <2>2, <2>3, <2>5 DEF CabinetConformant
<1>7. kind # "cabinet" \/ setting.listed =>
        Conformant(OwnEntries(tree), day) /\ PathsValidate(e)
  <2> HIDE DEF A, time, e
  <2> QED
    BY <1>2, <1>3, <1>5, GeneratedConforms
<1> QED
  BY <1>6, <1>7

(* Beside a provider that passes its own tests.                            *)
LEMMA FamilyTestPasses ==
  ASSUME ShapeInv, RunInv, left = "done", ~NamesClash,
         ~AtFault(setting.kind, Releases[tree.input], tree.collected), setting.listed
  PROVE  Composes(Providers(tree))
<1> DEFINE own == OwnEntries(tree)
           other == setting.other
           providers == <<own, other>>
           A == ToSet(CertsOf(AnchorFiles(setting.kind, Releases[input])))
<1>1. /\ Range(own[1].roots) = A
      /\ DOMAIN own = {1} /\ own[1].id = OwnId
  BY MadeAtTheEnd DEF OwnEntries
<1>2. /\ Conformant(other, day)
      /\ \A i \in DOMAIN other : other[i].id # OwnId
  BY ListedConform DEF ShapeInv, ListedConform
<1>3. KeyIdsAgree(A \cup RootsOf(other))
  BY AtTheEnd DEF AtFault
<1>4. Conformant(own, day)
  BY OwnTestsPass
<1>5. Providers(tree) = providers /\ DOMAIN providers = {1, 2}
      /\ providers[1] = own /\ providers[2] = other
  BY DEF Providers
<1>6. RootsOf(own) = A
  BY <1>1 DEF RootsOf, RootsAmong
<1> HIDE DEF own, other, A
<1>7. UNION {RootsOf(providers[p]) : p \in DOMAIN providers} = A \cup RootsOf(other)
  BY <1>5, <1>6
<1> HIDE DEF providers
<1>8. IdsApart(providers)
  BY <1>1, <1>2, <1>5 DEF IdsApart
<1> QED
  BY <1>2, <1>3, <1>4, <1>5, <1>7, <1>8 DEF Composes, Compose

LEMMA RegeneratesAtTheEnd ==
  ASSUME ShapeInv, RunInv, left = "done", ~NamesClash,
         ~AtFault(setting.kind, Releases[tree.input], tree.collected)
  PROVE  Regenerates(setting.kind, tree)
<1> DEFINE kind == setting.kind
           r == Releases[input]
           files == AnchorFiles(kind, r)
           A == ToSet(CertsOf(files))
           e == OwnEntries(tree)[1]
<1>1. tree.input = input
  BY AtTheEnd
<1>2. /\ Range(e.roots) = A /\ Embedded(tree) = A
      /\ tree.store = StoreOf(kind, r, tree) /\ tree.store # NoStore
      /\ \E cas, time : Made(e, A, cas, time)
  BY MadeAtTheEnd
<1>3. input \in DOMAIN Releases
  BY DEF ShapeInv
<1>4. CanGenerate(files)
  <2>1. PICK x \in DOMAIN e.roots : TRUE
    BY <1>2 DEF Made
  <2>2. e.roots[x] \in A
    BY <1>2 DEF Range
  <2>3. files # <<>>
    BY <2>2 DEF ToSet, CertsOf
  <2> QED
    BY <2>3 DEF CanGenerate
<1>5. kind = "cabinet" => A = ToSet(r.anchors)
  <2> SUFFICES ASSUME kind = "cabinet" PROVE A = ToSet(r.anchors)
    OBVIOUS
  <2>1. r.anchors \in Seq(Certs)
    BY <1>3, ProviderAssumption DEF ProviderAssumption
  <2>2. files = Labelled(Distinct(r.anchors))
    BY DEF AnchorFiles
  <2>3. Distinct(r.anchors) \in Seq(Certs) /\ ToSet(Distinct(r.anchors)) = ToSet(r.anchors)
    BY <2>1, DistinctIs
  <2> QED
    BY <2>2, <2>3, LabelledFiles
<1>6. StoreFor(kind, r, Embedded(tree), tree.collected) = tree.store
  BY <1>2 DEF StoreOf
<1> HIDE DEF kind, files, A, e
<1> QED
  BY <1>1, <1>2, <1>4, <1>5, <1>6 DEF Regenerates, Agree, kind, files

(* A run that finished leaves a crate that passes every test but the pins, *)
(* whatever tree it started in, wherever earlier runs died in that tree,   *)
(* and for every material: unless the material itself is at fault, or two  *)
(* certificates came out under one name (provider.rs, main.rs).            *)
THEOREM FinishedRunsPass == Spec => []CompleteRunPasses
<1>1. ASSUME ShapeInv, RunInv PROVE CompleteRunPasses
  <2> SUFFICES ASSUME left = "done", ~NamesClash,
                      ~AtFault(setting.kind, Releases[tree.input], tree.collected)
               PROVE  Sound(tree)
    BY DEF CompleteRunPasses
  <2> DEFINE kind == setting.kind
             r == Releases[input]
             A == ToSet(CertsOf(AnchorFiles(kind, r)))
             S == ToSet(CertsOf(CaFiles("stream", r)))
             e == OwnEntries(tree)[1]
  <2>1. /\ tree.input = input /\ tree.module = Names(tree.roots)
        /\ kind = "stream" => Complete(tree.cas, S)
    BY <1>1, AtTheEnd
  <2>2. /\ Range(e.roots) = A /\ CertsIn(tree.roots) = A
        /\ Carried(tree.store) = Keeps(kind, A, ToSet(CertsOf(CaFiles(kind, r))), r.published,
                                       tree.collected)
        /\ \E cas, time : Made(e, A, cas, time)
    BY <1>1, MadeAtTheEnd
  <2>3. RootInputs(tree.roots, e.roots)
    BY <2>2 DEF RootInputs
  <2>4. kind = "stream" => GeneratorInputs(tree.cas, tree.store)
    <3> SUFFICES ASSUME kind = "stream" PROVE GeneratorInputs(tree.cas, tree.store)
      OBVIOUS
    <3>1. CertsIn(tree.cas) = S
      BY <2>1 DEF Complete, NamesClash
    <3>2. Carried(tree.store) = S
      BY <2>2 DEF Keeps
    <3>3. e.store = tree.store
      BY DEF OwnEntries
    <3>4. tree.store # Unreadable
      BY <2>2, <3>3, MadeAlone DEF Reads
    <3> QED
      BY <3>1, <3>2, <3>4 DEF GeneratorInputs
  <2>5. Compiles(tree)
    BY <2>1 DEF Compiles
  <2>6. /\ IF kind = "cabinet" THEN CabinetConformant(tree)
           ELSE Conformant(OwnEntries(tree), day) /\ PathsValidate(e)
        /\ Regenerates(kind, tree)
        /\ setting.listed => Composes(Providers(tree))
    BY <1>1, OwnTestsPass, RegeneratesAtTheEnd, FamilyTestPasses
  <2> HIDE DEF kind, e
  <2> QED
    BY <2>1, <2>3, <2>4, <2>5, <2>6 DEF Sound, kind, e
<1> QED
  BY <1>1, InShape, RunHolds, PTL
-----------------------------------------------------------------------------
(* Away from the streams a merge that changes the roots changes the pins:  *)
(* a cabinet pins a digest of their set, and a walk never writes them. Of  *)
(* a stream only their number is (eca_entry_carries_two_roots_and_a_ca_store). *)
THEOREM RootChangesSeenElsewhere ==
  Spec => [][setting.kind # "stream" =>
               (Embedded(head') # Embedded(head) => head'.pins # head.pins)]_vars
<1>1. ASSUME ShapeInv, PinsInv, PinsInv', RunInv, RunInv', [Next]_vars,
             setting.kind # "stream", Embedded(head') # Embedded(head)
      PROVE  head'.pins # head.pins
  <2>1. CASE UNCHANGED vars
    BY <1>1, <2>1 DEF vars
  <2>2. CASE Next
    <3>1. setting' = setting
      BY <1>1, <2>2, HeadReplaced
    <3>2. setting.kind \in {"cabinet", "walk"}
      BY <1>1, ProviderAssumption DEF ShapeInv, ProviderAssumption
    <3>3. CASE setting.kind = "cabinet"
      <4>1. head.pins = PinsOf("cabinet", head) /\ head'.pins = PinsOf("cabinet", head')
        BY <1>1, <3>1, <3>3 DEF PinsInv
      <4>2. head.pins.roots = Embedded(head) /\ head'.pins.roots = Embedded(head')
        BY <4>1 DEF PinsOf, RootPin, SetDigest
      <4> QED
        BY <1>1, <4>2
    <3>4. CASE setting.kind = "walk"
      <4>1. Untouched(head) /\ Untouched(head')
        BY <1>1, <3>1, <3>4 DEF RunInv
      <4>2. head'.roots = head.roots /\ head'.module = head.module
        BY <4>1 DEF Untouched
      <4> QED
        BY <1>1, <4>2 DEF Embedded
    <3> QED
      BY <3>2, <3>3, <3>4
  <2> QED
    BY <1>1, <2>1, <2>2
<1>2. ASSUME ShapeInv, PinsInv, PinsInv', RunInv, RunInv', [Next]_vars
      PROVE  [setting.kind # "stream" =>
                (Embedded(head') # Embedded(head) => head'.pins # head.pins)]_vars
  BY <1>1, <1>2
<1> QED
  BY <1>2, InShape, Pinned, RunHolds, PTL DEF Spec
=============================================================================
