--------------------------- MODULE ProviderStore ---------------------------
(***************************************************************************)
(* One environment of a provider crate: a run of the generator writes it   *)
(* into a tree file by file (provider.rs), the crate's tests judge it, a   *)
(* person updates the pinned constants and merges, and a consumer prepares *)
(* environments from what is merged and from another provider.             *)
(*                                                                         *)
(* Three kinds of crate.  "stream": from an InstallRoot stream, with the   *)
(* intermediates beside the store as files.  "cabinet": from a cabinet,    *)
(* pruned, in the store only.  "walk": from the FPKI walk, pruned twice,   *)
(* with an anchor no run touches.                                          *)
(***************************************************************************)
EXTENDS Conformance

CONSTANTS
  Label,      \* [Certs -> labels], from a common name or a member's name
  Serial,     \* [Certs -> serial numbers]
  Releases,   \* what the publisher publishes: a sequence of Release records
  Settings,   \* the circumstances to consider
  OwnId,      \* the id of this crate's entry
  MaxDay,     \* bound: days
  MaxDeaths   \* bound: runs that die

Days == 1..MaxDay

(* kind: the kind of crate;  releases: those its publisher may publish;    *)
(* other: the entries of another provider a consumer loads;                *)
(* listed: the composition test names that provider.                       *)
ASSUME ProviderAssumption ==
  /\ DOMAIN Label = Certs /\ DOMAIN Serial = Certs
  /\ \A i \in DOMAIN Releases :
       LET r == Releases[i] IN
       /\ \A s \in {r.anchors, r.extraAnchors, r.cas, r.extraCas} : s \in Seq(Certs)
       /\ r.published \in Days
  /\ 1 \in DOMAIN Releases /\ Releases[1].published = 1
  /\ \A s \in Settings :
       /\ s.kind \in {"stream", "cabinet", "walk"} /\ s.releases \subseteq DOMAIN Releases
       /\ s.kind = "walk" => \A i \in s.releases : Releases[i].anchors = Releases[1].anchors
       /\ s.other \in Seq(Range(s.other)) /\ s.listed \in BOOLEAN
  /\ OwnId \in Ids
  /\ MaxDay \in Nat \ {0} /\ MaxDeaths \in Nat

(* The composition test names providers that pass their own tests and have *)
(* ids of their own.                                                       *)
ASSUME ListedConform ==
  \A s \in {x \in Settings : x.listed} :
    /\ \A d \in Days : Conformant(s.other, d)
    /\ \A i \in DOMAIN s.other : s.other[i].id # OwnId

VARIABLES
  day,
  setting,
  tree,      \* the files a run works on
  head,      \* the files on the main branch
  step,      \* the write a run does next, 0 between runs
  input,     \* the release in hand
  kept,      \* the files of a directory about to be swept
  left,      \* how the last run in this tree ended
  deaths,
  env,       \* a consumer's environment
  prepared   \* the ids it was prepared for

vars == <<day, setting, tree, head, step, input, kept, left, deaths, env, prepared>>
runVars == <<step, input, kept, left>>
consumerVars == <<env, prepared>>

-----------------------------------------------------------------------------
(* The inputs of a generation.  A file is <<name, certificate>>, a name    *)
(* <<label>> or <<label, serial>>.                                         *)

(* push_unique of the InstallRoot adapter: a certificate comes once, under *)
(* its label if no other has it yet.                                       *)
Minted(certs) ==
  LET taken(i) == \E j \in Firsts(certs) : j < i /\ Label[certs[j]] = Label[certs[i]]
      name(c, i) == IF taken(i) THEN <<Label[c], Serial[c]>> ELSE <<Label[c]>>
  IN  Selected([i \in DOMAIN certs |-> <<name(certs[i], i), certs[i]>>], Firsts(certs))

Labelled(certs) == [i \in DOMAIN certs |-> <<<<Label[certs[i]]>>, certs[i]>>]

(* merge_extras: named file by file, labelled without regard to the rest.  *)
RejectSelfIssued(certs) ==
  Selected(certs, {i \in DOMAIN certs :
                     certs[i] \in Decodes /\ Issuer[certs[i]] # Subject[certs[i]]})

AnchorFiles(kind, r) ==
  IF kind = "stream" THEN Minted(r.anchors) \o Labelled(r.extraAnchors)
  ELSE Labelled(Distinct(r.anchors))

CaFiles(kind, r) ==
  IF kind = "stream" THEN Minted(r.cas) \o Labelled(RejectSelfIssued(r.extraCas))
  ELSE Labelled(Distinct(r.cas))

CertsOf(files) == [i \in DOMAIN files |-> files[i][2]]

(* The intermediates a store is generated from: all of a stream's, those   *)
(* of a cabinet that validate on its date, those of a walk that validate   *)
(* on the day of the walk and are still in a path.                         *)
Keeps(kind, A, S, published, collected) ==
  CASE kind = "stream"  -> S
    [] kind = "cabinet" -> PruneUnvalidated(A, S, published)
    [] kind = "walk"    -> Pruned(A, S, collected)

(* kept: those of a sequence that are in S, in their order.                *)
Filtered(certs, S) == Selected(certs, {i \in DOMAIN certs : certs[i] \in S})

StoreFor(kind, r, roots, collected) ==
  LET A == IF kind = "walk" THEN roots ELSE ToSet(CertsOf(AnchorFiles(kind, r)))
      cas == CertsOf(CaFiles(kind, r))
  IN  Generate(A, Filtered(cas, Keeps(kind, A, ToSet(cas), r.published, collected)))

-----------------------------------------------------------------------------
(* The files of the environment.                                           *)

Names(dir) == {file[1] : file \in dir}
FileAt(dir, name) == (CHOOSE file \in dir : file[1] = name)[2]

(* fs::write, file by file: the last of a name is what is left.            *)
WriteAll(dir, files) ==
  {f \in dir : \A i \in DOMAIN files : files[i][1] # f[1]} \cup
  {files[i] :
     i \in {j \in DOMAIN files : \A k \in DOMAIN files : k > j => files[k][1] # files[j][1]}}

(* write_der_dir keeps the name a certificate has and mints the others.    *)
KeptName(old, file) ==
  LET names == {f[1] : f \in {g \in old : g[2] = file[2]}}
  IN  IF names = {} THEN file[1]
      ELSE IF <<Label[file[2]]>> \in names THEN <<Label[file[2]]>> ELSE CHOOSE n \in names : TRUE

WriteDer(dir, files, old, mint) ==
  WriteAll(dir, IF mint THEN files
                ELSE [i \in DOMAIN files |-> <<KeptName(old, files[i]), files[i][2]>>])

(* src/roots_<env>.rs lists files; the entry embeds what is in them.       *)
Compiles(t) == t.module \subseteq Names(t.roots)

OwnEntries(t) ==
  <<[id |-> OwnId, roots |-> [n \in t.module |-> FileAt(t.roots, n)], store |-> t.store,
     published |-> t.published, collected |-> t.collected]>>

Embedded(t) == {FileAt(t.roots, n) : n \in t.module}

(* Wrong version: what is pinned is how many there are.                    *)
CaPinCounting(t) == Cardinality(Carried(t.store))

(* What the tests pin: a count of a stream's roots, a digest of a          *)
(* cabinet's, and a digest of the intermediates.                           *)
RootPin(kind, t) == IF kind = "cabinet" THEN SetDigest(Embedded(t)) ELSE Cardinality(t.module)
CaPin(t) == SetDigest(Carried(t.store))

PinsOf(kind, t) == [roots |-> RootPin(kind, t), cas |-> CaPin(t)]

-----------------------------------------------------------------------------
(* The tests of the crate and of the family.                               *)

(* What regenerating from the committed input yields is compared with the  *)
(* store as a set; of a cabinet the roots are, and the intermediates only  *)
(* counted.  Nothing to compare with is a failure.                         *)
Agree(kind, store, again) ==
  /\ again # NoStore /\ store # NoStore
  /\ IF kind = "cabinet" THEN Cardinality(Carried(store)) = Cardinality(Carried(again))
     ELSE Carried(store) = Carried(again)

Regenerates(kind, t) ==
  LET r == Releases[t.input] IN
  /\ CanGenerate(AnchorFiles(kind, r))
  /\ kind = "cabinet" => Embedded(t) = ToSet(r.anchors)
  /\ Agree(kind, t.store, StoreFor(kind, r, Embedded(t), t.collected))

Providers(t) == <<OwnEntries(t), setting.other>>

(* The TPM crate calls fewer of the shared checks, and validates paths it  *)
(* builds itself, as of the publication date.                              *)
CabinetConformant(t) ==
  LET entry == OwnEntries(t)[1] IN
  /\ EntryShape(OwnEntries(t))
  /\ RootsParse(entry)
  /\ StoreLoads(entry)
  /\ PartialPathsHold(entry)
  /\ Prepares(OwnEntries(t), day)
  /\ \A c \in Carried(t.store) : CanValidate(Embedded(t), Carried(t.store), t.published, c)

(* The test of the family.                                                 *)
Composes(providers) ==
  /\ Compose(providers)
  /\ \A p \in DOMAIN providers : Conformant(providers[p], day)

(* Everything but the pinned constants.                                    *)
Sound(t) ==
  /\ Compiles(t)
  /\ IF setting.kind = "cabinet" THEN CabinetConformant(t)
     ELSE Conformant(OwnEntries(t), day) /\ PathsValidate(OwnEntries(t)[1])
  /\ t.module = Names(t.roots)
  /\ RootInputs(t.roots, OwnEntries(t)[1].roots)
  /\ setting.kind = "stream" => GeneratorInputs(t.cas, t.store)
  /\ Regenerates(setting.kind, t)
  /\ setting.listed => Composes(Providers(t))

Passes(t) == Sound(t) /\ t.pins = PinsOf(setting.kind, t)

-----------------------------------------------------------------------------
(* The committed crate at first: release 1, generated on day 1.            *)
Initial(kind) ==
  LET r == Releases[1]
      roots == WriteDer({}, AnchorFiles(kind, r), {}, TRUE)
      store == StoreFor(kind, r, ToSet(r.anchors), 1)
      t == [input |-> 1, roots |-> roots, module |-> Names(roots), store |-> store,
            cas |-> IF kind = "stream" THEN WriteDer({}, CaFiles(kind, r), {}, FALSE) ELSE {},
            published |-> IF kind = "walk" THEN NoDate ELSE r.published, collected |-> 1,
            pins |-> 0]
  IN  [t EXCEPT !.pins = PinsOf(kind, t)]

Init ==
  /\ setting \in Settings
  /\ tree = Initial(setting.kind)
  /\ head = tree
  /\ day = 1
  /\ step = 0 /\ input = 1 /\ kept = {} /\ left = "none" /\ deaths = 0
  /\ env = EmptyEnv /\ prepared = {}

DayPasses ==
  /\ step = 0 /\ day < MaxDay
  /\ day' = day + 1
  /\ UNCHANGED <<setting, tree, head, runVars, deaths, consumerVars>>

(* The writes of a run, in order.  refresh.yml replaces a stream before it *)
(* generates, a cabinet is written last.                                   *)
Order ==
  CASE setting.kind = "stream" ->
         <<"input", "sweep_roots", "roots", "module", "sweep_cas", "cas", "store", "published",
           "collected">>
    [] setting.kind = "cabinet" ->
         <<"sweep_roots", "roots", "module", "sweep_cas", "cas", "store", "published",
           "collected", "input">>
    [] setting.kind = "walk" -> <<"input", "collected", "store">>

At(write) == step # 0 /\ Order[step] = write

(* A run starts from a checkout or in the tree as the last one left it.    *)
RunStarts(i, base) ==
  /\ step = 0
  /\ i \in setting.releases /\ Releases[i].published <= day
  /\ base \in {tree, head}
  /\ tree' = base
  /\ input' = i
  /\ step' = 1
  /\ kept' = {} /\ left' = "none"
  /\ env' = EmptyEnv /\ prepared' = {}
  /\ UNCHANGED <<day, setting, head, deaths>>

Ends(how) ==
  /\ step' = 0 /\ left' = how /\ kept' = {}
  /\ UNCHANGED <<day, setting, tree, head, input, deaths, consumerVars>>

Ready ==
  LET r == Releases[input] IN
  CASE At("sweep_roots") -> CanGenerate(AnchorFiles(setting.kind, r))
    [] At("store") -> setting.kind = "walk" =>
                        StoreFor("walk", r, Embedded(tree), tree.collected) # NoStore
    [] OTHER -> TRUE

(* generate refuses, or a walk leaves no intermediates.                    *)
GenerateFails == step # 0 /\ ~Ready /\ Ends("failed")

RunDies ==
  /\ step # 0 /\ deaths < MaxDeaths
  /\ deaths' = deaths + 1
  /\ step' = 0 /\ left' = "died" /\ kept' = {}
  /\ UNCHANGED <<day, setting, tree, head, input, consumerVars>>

Writes(write, files, names) ==
  /\ At(write) /\ Ready
  /\ tree' = files
  /\ kept' = names
  /\ IF step = Len(Order) THEN step' = 0 /\ left' = "done"
     ELSE step' = step + 1 /\ left' = left
  /\ UNCHANGED <<day, setting, head, input, deaths, consumerVars>>

WriteInput == Writes("input", [tree EXCEPT !.input = input], {})

SweepRoots == Writes("sweep_roots", [tree EXCEPT !.roots = {}], tree.roots)

WriteRoots ==
  Writes("roots",
         [tree EXCEPT !.roots =
            WriteDer(@, AnchorFiles(setting.kind, Releases[input]), kept, TRUE)], {})

WriteModule == Writes("module", [tree EXCEPT !.module = Names(tree.roots)], {})

(* Wrong version: the files of before are left in place.                   *)
SweepNothing == Writes("sweep_cas", tree, tree.cas)

SweepCas == Writes("sweep_cas", [tree EXCEPT !.cas = {}], tree.cas)

WriteCas ==
  Writes("cas",
         IF setting.kind = "stream"
         THEN [tree EXCEPT !.cas = WriteDer(@, CaFiles("stream", Releases[input]), kept, FALSE)]
         ELSE tree, {})

(* A store that was not generated is not written: the old one stays.       *)
WriteStore ==
  LET store == StoreFor(setting.kind, Releases[input], Embedded(tree), tree.collected)
  IN  Writes("store", IF store = NoStore THEN tree ELSE [tree EXCEPT !.store = store], {})

WritePublished ==
  Writes("published", [tree EXCEPT !.published = Releases[input].published], {})

(* Wrong version: the publication date takes the place of the day.         *)
WriteCollectedAsPublished ==
  Writes("collected", [tree EXCEPT !.collected = tree.published], {})

WriteCollected == Writes("collected", [tree EXCEPT !.collected = day], {})

(* UPDATE_PINS=1 cargo test: every pin takes the value the material gives. *)
(* The count of a stream's roots is a plain assertion, changed by hand.    *)
UpdatePins ==
  /\ step = 0 /\ tree # head /\ Compiles(tree)
  /\ tree.pins # PinsOf(setting.kind, tree)
  /\ tree' = [tree EXCEPT !.pins = PinsOf(setting.kind, tree)]
  /\ UNCHANGED <<day, setting, head, runVars, deaths, consumerVars>>

Merge ==
  /\ step = 0 /\ tree # head /\ Passes(tree)
  /\ head' = tree
  /\ UNCHANGED <<day, setting, tree, runVars, deaths, consumerVars>>

(* A consumer built with what is merged.                                   *)
AllEntries(t) == OwnEntries(t) \o setting.other

PrepareStore(id) ==
  /\ step = 0 /\ tree = head /\ id \notin prepared
  /\ env' = Prepare(env, AllEntries(head), id, day)
  /\ prepared' = IF Accepts(AllEntries(head), id) THEN prepared \cup {id} ELSE prepared
  /\ UNCHANGED <<day, setting, tree, head, runVars, deaths>>

Next ==
  \/ DayPasses
  \/ \E i \in DOMAIN Releases, base \in {tree, head} : RunStarts(i, base)
  \/ GenerateFails
  \/ RunDies
  \/ WriteInput
  \/ SweepRoots
  \/ WriteRoots
  \/ WriteModule
  \/ SweepCas
  \/ WriteCas
  \/ WriteStore
  \/ WritePublished
  \/ WriteCollected
  \/ UpdatePins
  \/ Merge
  \/ \E id \in Ids : PrepareStore(id)

Spec == Init /\ [][Next]_vars

-----------------------------------------------------------------------------
(* Properties.                                                             *)

IsDirectory(dir) == \A f, g \in dir : f[1] = g[1] => f = g

(* Type correctness; the files of a directory have names of their own      *)
(* (write_der_dir).                                                        *)
TypeOK ==
  /\ day \in Days /\ setting \in Settings
  /\ step \in 0..Len(Order) /\ input \in DOMAIN Releases
  /\ left \in {"none", "done", "failed", "died"} /\ deaths \in 0..MaxDeaths
  /\ \A t \in {tree, head} :
       /\ t.input \in DOMAIN Releases
       /\ \A dir \in {t.roots, t.cas} : IsDirectory(dir) /\ CertsIn(dir) \subseteq Certs
       /\ t.published \in Days \cup {NoDate} /\ t.collected \in Days
  /\ IsDirectory(kept)
  /\ prepared \subseteq Ids

(* The material itself keeps its crate from passing: no intermediates, an  *)
(* anchor twice, one no TLS client reads or one that cannot be used, here  *)
(* or beside the other provider, and an intermediate without a path of its *)
(* own, which a stream's store keeps and a cabinet's may after its single  *)
(* pruning.                                                                *)
AtFault(kind, r, collected) ==
  LET anchors == CertsOf(AnchorFiles(kind, r))
      A == ToSet(anchors)
      K == Keeps(kind, A, ToSet(CertsOf(CaFiles(kind, r))), r.published, collected)
      time == IF kind = "stream" THEN NoTime ELSE r.published
  IN  \/ K = {}
      \/ ~IsInjective(anchors)
      \/ ~(A \subseteq Anchoring \cap TlsReads)
      \/ (kind # "cabinet" \/ setting.listed) /\ ~(A \subseteq Usable(A))
      \/ setting.listed /\ ~KeyIdsAgree(A \cup RootsOf(setting.other))
      \/ kind # "walk" /\ \E c \in K : ~InAPath(A, K, c) \/ ~CanValidate(A, K, time, c)

(* A certificate whose file another one of its label took.                 *)
Displaced(dir, certs) ==
  \E c \in certs \ CertsIn(dir) : \E d \in certs \ {c} : Label[d] = Label[c]

NamesClash ==
  LET r == Releases[tree.input] IN
  \/ Displaced(tree.roots, ToSet(CertsOf(AnchorFiles(setting.kind, r))))
  \/ setting.kind = "stream" /\ Displaced(tree.cas, ToSet(CertsOf(CaFiles("stream", r))))

(* A run that finished, whatever tree it started in and wherever the runs  *)
(* before it died, leaves files that pass every test but the pins, unless  *)
(* the material is at fault or two certificates came out under one name    *)
(* (provider.rs, main.rs).                                                 *)
CompleteRunPasses ==
  left = "done" =>
    \/ Sound(tree)
    \/ AtFault(setting.kind, Releases[tree.input], tree.collected)
    \/ NamesClash

(* Every intermediate of a store made from a walk validates, on the day of *)
(* the walk, over intermediates of that store alone, and is in one of its  *)
(* partial paths: two prunings settle it (fpki_refresh.rs:137).            *)
WalkStoreIsSettled ==
  left = "done" /\ setting.kind = "walk" =>
    \A c \in Carried(tree.store) :
      /\ CanValidate(Embedded(tree), Carried(tree.store), tree.collected, c)
      /\ InAPath(Embedded(tree), Carried(tree.store), c)

(* No merge changes which intermediates ship without a change of the       *)
(* pinned constants, a swap included (conformance.rs:941).                 *)
ReviewSeesEveryCaChange ==
  [][Carried(head'.store) # Carried(head.store) => head'.pins # head.pins]_vars

(* The same for the roots, which the tests of the stream crates claim: no  *)
(* root can be added or dropped silently.                                  *)
ReviewSeesEveryRootChange ==
  [][Embedded(head') # Embedded(head) => head'.pins # head.pins]_vars

(* A consumer's environment holds whole stores: the roots and CA stores of *)
(* every entry of the ids it was prepared for, and nothing of those that   *)
(* failed (prepare_certval_environment).                                   *)
EnvironmentHoldsWholeStores ==
  LET entries == AllEntries(head)
      I == UNION {Matching(entries, id) : id \in prepared}
  IN  /\ env.anchors = RootsAmong(entries, I)
      /\ {s.store : s \in env.sources} = {entries[i].store : i \in StoresAmong(entries, I)}

(* Of providers that each conform and that compose, what a store it was    *)
(* prepared for yields alone an environment also yields beside the others  *)
(* (check_providers_compose).                                              *)
PreparedPathsBuild ==
  Composes(Providers(head)) =>
    \A i \in DOMAIN AllEntries(head), s \in env.sources :
      LET e == AllEntries(head)[i] IN
      e.id \in prepared /\ e.store = s.store =>
        \A c \in Present(s) :
          PathsIn([anchors |-> Range(e.roots), sources |-> {s}], c) \subseteq PathsIn(env, c)

(* Prepared, serialized and loaded back, or as a TLS client, a store is    *)
(* the same anchors and intermediates wherever all of them accept it       *)
(* (certval_stores_core).                                                  *)
OneStoreThreeWays ==
  \A id \in Ids :
    Accepts(AllEntries(head), id) /\ Serializes(AllEntries(head), id) =>
      LET prepares == Prepare(EmptyEnv, AllEntries(head), id, day) IN
      /\ LoadBack(Serialize(AllEntries(head), id), day) = prepares
      /\ ClientBuilds(AllEntries(head), {id})
      /\ ClientTrusts(AllEntries(head), {id}) =
           prepares.anchors \cap GetRoots(AllEntries(head)) \cap TlsReads
=============================================================================
